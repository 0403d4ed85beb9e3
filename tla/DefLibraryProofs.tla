--------------------------- MODULE DefLibraryProofs ---------------------------
(***************************************************************************)
(* The hash table is a map from names to definitions, and no definition is *)
(* freed while it can be reached.                                          *)
(*                                                                         *)
(* What a lookup needs is that no slot between the one an item hashes to   *)
(* and the one it is in is empty.  Distances are counted forwards round    *)
(* the table.  No such stretch contains an empty slot, so none goes round  *)
(* past one, and from an empty slot on the table is a line.                *)
(***************************************************************************)
EXTENDS DefLibrary, FiniteSetTheorems, WellFoundedInduction, TLAPS

-----------------------------------------------------------------------------
(* Counting and folding. *)

LEMMA LeastNat ==
  ASSUME NEW S \in SUBSET Nat, S # {}
  PROVE  \E k \in S : \A m \in S : k <= m
  <1> DEFINE R == {ss \in Nat \X Nat : ss[1] < ss[2]}
  <1>1. IsWellFoundedOn(R, Nat)
    BY NatLessThanWellFounded DEF OpToRel
  <1>2. \E k \in S : \A m \in S : ~(<<m, k>> \in R)
    <2> HIDE DEF R
    <2> QED
      BY <1>1, WFMin
  <1>3. \A k, m \in Nat : ~(<<m, k>> \in R) => k <= m
    <2> SUFFICES ASSUME NEW k \in Nat, NEW m \in Nat, m < k PROVE <<m, k>> \in R
      OBVIOUS
    <2>1. <<m, k>> \in Nat \X Nat /\ <<m, k>>[1] = m /\ <<m, k>>[2] = k
      OBVIOUS
    <2> QED
      BY <2>1
  <1> HIDE DEF R
  <1> QED
    BY <1>2, <1>3

\* What holds at 0 and is handed on holds up to n.
LEMMA UpTo ==
  ASSUME NEW n \in Nat, NEW B, 0 \in B, \A k \in 1 .. n : k - 1 \in B => k \in B
  PROVE  0 .. n \subseteq B
  <1> DEFINE Bad == {k \in Nat : k <= n /\ k \notin B}
  <1> SUFFICES ASSUME Bad # {} PROVE FALSE
    OBVIOUS
  <1>1. PICK k \in Bad : \A m \in Bad : k <= m
    <2>1. Bad \in SUBSET Nat
      OBVIOUS
    <2> HIDE DEF Bad
    <2> QED
      BY <2>1, LeastNat
  <1>2. k \in 1 .. n /\ k - 1 \in Nat /\ k - 1 <= n
    BY <1>1
  <1>3. k - 1 \in B
    BY <1>1, <1>2
  <1> QED
    BY <1>1, <1>2, <1>3

\* f goes from s through n steps G in S.
Goes(f, n, S, s, G) ==
  f \in [0 .. n -> S] /\ f[0] = s /\ \A k \in 1 .. n : f[k] = G[k][f[k - 1]]

\* n steps in a set have a first state, a next one, and so on.
LEMMA StepRecursion ==
  ASSUME NEW n \in Nat, NEW S, NEW s \in S, NEW G \in [1 .. n -> [S -> S]]
  PROVE  \E f : Goes(f, n, S, s, G)
  <1> DEFINE Good(f, m) == /\ f \in [0 .. m -> S]
                           /\ f[0] = s /\ \A k \in 1 .. m : f[k] = G[k][f[k - 1]]
             B == {m \in 0 .. n : \E f : Good(f, m)}
  <1>1. 0 \in B
    <2> DEFINE f == [k \in 0 .. 0 |-> s]
    <2>1. Good(f, 0)
      OBVIOUS
    <2>2. 0 \in 0 .. n
      OBVIOUS
    <2> HIDE DEF f, Good
    <2> QED
      BY <2>1, <2>2
  <1>2. ASSUME NEW m \in 1 .. n, m - 1 \in B PROVE m \in B
    <2>1. PICK f : Good(f, m - 1)
      BY <1>2
    <2>2. m - 1 \in 0 .. m - 1 /\ m \notin 0 .. m - 1 /\ m - 1 \in 0 .. m
      OBVIOUS
    <2>3. f[m - 1] \in S
      BY <2>1, <2>2
    <2>4. G[m][f[m - 1]] \in S
      <3>1. G[m] \in [S -> S]
        OBVIOUS
      <3> QED
        BY <2>3, <3>1
    <2> DEFINE g == [k \in 0 .. m |-> IF k = m THEN G[m][f[m - 1]] ELSE f[k]]
    <2>5. \A k \in 0 .. m - 1 : k \in 0 .. m /\ k # m /\ g[k] = f[k] /\ f[k] \in S
      BY <2>1
    <2>6. g[m] = G[m][f[m - 1]]
      OBVIOUS
    <2>7. g \in [0 .. m -> S]
      <3>1. \A k \in 0 .. m : k = m \/ k \in 0 .. m - 1
        OBVIOUS
      <3> QED
        BY <2>4, <2>5, <3>1
    <2>8. g[0] = s
      <3>1. 0 \in 0 .. m - 1
        OBVIOUS
      <3> QED
        BY <2>1, <2>5, <3>1
    <2>9. ASSUME NEW k \in 1 .. m PROVE g[k] = G[k][g[k - 1]]
      <3>1. k - 1 \in 0 .. m - 1
        OBVIOUS
      <3>2. g[k - 1] = f[k - 1]
        BY <2>5, <3>1
      <3>3. CASE k = m
        BY <2>6, <3>2, <3>3
      <3>4. CASE k # m
        <4>1. k \in 1 .. m - 1 /\ k \in 0 .. m - 1
          BY <3>4
        <4>2. g[k] = f[k] /\ f[k] = G[k][f[k - 1]]
          BY <2>1, <2>5, <4>1
        <4> QED
          BY <3>2, <4>2
      <3> QED
        BY <3>3, <3>4
    <2> HIDE DEF g
    <2>10. Good(g, m)
      BY <2>7, <2>8, <2>9
    <2>11. m \in 0 .. n
      OBVIOUS
    <2> HIDE DEF Good
    <2> QED
      BY <2>10, <2>11
  <1>3. 0 .. n \subseteq B
    <2> HIDE DEF B
    <2> QED
      BY <1>1, <1>2, UpTo
  <1>4. n \in B
    BY <1>3
  <1> QED
    BY <1>4 DEF Goes

-----------------------------------------------------------------------------
(* Distances forwards round the table. *)

Dist(s, t) == IF s <= t THEN t - s ELSE t + TableSize - s

Following(s) == (s + 1) % TableSize

LEMMA SizeFacts == TableSize \in Nat /\ TableSize >= 2 /\ MaxItems \in Nat /\ TableSize = 2 * MaxItems
  BY TableAssumption DEF TableSize

LEMMA SlotFacts ==
  /\ \A s \in Slots : s \in Nat /\ s < TableSize
  /\ \A s \in Nat : s < TableSize => s \in Slots
  BY SizeFacts DEF Slots

LEMMA Remainder ==
  ASSUME NEW a \in Nat
  PROVE  /\ a % TableSize \in Slots
         /\ a < TableSize => a % TableSize = a
         /\ TableSize <= a /\ a < 2 * TableSize => a % TableSize = a - TableSize
  <1> DEFINE N == TableSize
  <1>1. N \in Nat /\ N >= 2
    BY SizeFacts
  <1> HIDE DEF N
  <1>2. a % N \in 0 .. N - 1
    BY <1>1
  <1>3. a < N => a % N = a
    BY <1>1
  <1>4. N <= a /\ a < 2 * N => a % N = a - N
    BY <1>1
  <1> QED
    BY <1>2, <1>3, <1>4 DEF N, Slots

LEMMA DistFacts ==
  ASSUME NEW s \in Slots, NEW t \in Slots
  PROVE  /\ Dist(s, t) \in Nat /\ Dist(s, t) < TableSize
         /\ Dist(s, t) = 0 <=> s = t
         /\ \A u \in Slots : Dist(s, t) = Dist(s, u) => t = u
  BY SizeFacts, SlotFacts DEF Dist

LEMMA DistAdds ==
  ASSUME NEW s \in Slots, NEW t \in Slots, NEW u \in Slots
  PROVE  /\ Dist(s, t) <= Dist(s, u) => Dist(s, t) + Dist(t, u) = Dist(s, u)
         /\ Dist(s, t) + Dist(t, u) < TableSize => Dist(s, t) + Dist(t, u) = Dist(s, u)
  BY SizeFacts, SlotFacts DEF Dist

LEMMA FollowingFacts ==
  ASSUME NEW s \in Slots, NEW t \in Slots
  PROVE  /\ Following(t) \in Slots
         /\ Dist(s, t) + 1 < TableSize => Dist(s, Following(t)) = Dist(s, t) + 1
  <1>1. t \in Nat /\ t + 1 \in Nat /\ t < TableSize /\ s \in Nat /\ s < TableSize
    BY SlotFacts
  <1>2. /\ Following(t) \in Slots
        /\ t + 1 < TableSize => Following(t) = t + 1
        /\ t + 1 = TableSize => Following(t) = 0
    <2> DEFINE a == t + 1
    <2>1. a \in Nat /\ a < 2 * TableSize
      BY <1>1, SizeFacts
    <2> HIDE DEF a
    <2>2. /\ a % TableSize \in Slots
          /\ a < TableSize => a % TableSize = a
          /\ TableSize <= a => a % TableSize = a - TableSize
      BY <2>1, Remainder
    <2>3. t + 1 = TableSize => TableSize <= a /\ a - TableSize = 0
      BY <1>1, SizeFacts DEF a
    <2>4. t + 1 < TableSize => a < TableSize /\ a = t + 1
      BY DEF a
    <2> QED
      BY <1>1, <2>2, <2>3, <2>4, SizeFacts DEF a, Following
  <1> QED
    BY <1>1, <1>2, SizeFacts DEF Dist

LEMMA AfterFacts ==
  ASSUME NEW s \in Slots, NEW j \in Nat, j <= TableSize
  PROVE  /\ (s + j) % TableSize \in Slots
         /\ j < TableSize => Dist(s, (s + j) % TableSize) = j
         /\ j = TableSize => (s + j) % TableSize = s
  <1>1. s + j \in Nat /\ s \in Nat /\ s < TableSize
    BY SlotFacts
  <1>2. /\ (s + j) % TableSize \in Slots
        /\ s + j < TableSize => (s + j) % TableSize = s + j
        /\ TableSize <= s + j => (s + j) % TableSize = s + j - TableSize
    <2> DEFINE a == s + j
    <2>1. a \in Nat /\ a < 2 * TableSize
      BY <1>1, SizeFacts
    <2> HIDE DEF a
    <2>2. /\ a % TableSize \in Slots
          /\ a < TableSize => a % TableSize = a
          /\ TableSize <= a => a % TableSize = a - TableSize
      BY <2>1, Remainder
    <2> QED
      BY <1>1, <2>2, SizeFacts DEF a
  <1> QED
    BY <1>1, <1>2, SizeFacts DEF Dist
-----------------------------------------------------------------------------
(* Where a probe ends. *)

Home(key) == HashOf[key] % TableSize

Stops(items, key, i) == items[i] = Empty \/ KeyOf[items[i]] = key

\* j is the first slot from i on where the probe for the key stops.
Nearest(items, key, i, j) ==
  /\ j \in Slots /\ Stops(items, key, j)
  /\ \A p \in Slots : Dist(i, p) < Dist(i, j) => ~Stops(items, key, p)

LEMMA HomeIsSlot == \A key \in Key : Home(key) \in Slots
  BY TableAssumption, Remainder DEF Home

LEMMA NearestExists ==
  ASSUME NEW items, NEW key, NEW q \in Slots, Stops(items, key, q), NEW i \in Slots
  PROVE  \E j \in Slots : Nearest(items, key, i, j)
  <1> DEFINE D == {d \in Nat : \E p \in Slots : Stops(items, key, p) /\ d = Dist(i, p)}
  <1>1. D \in SUBSET Nat /\ D # {}
    BY DistFacts
  <1>2. PICK d \in D : \A m \in D : d <= m
    <2> HIDE DEF D
    <2> QED
      BY <1>1, LeastNat
  <1>3. PICK j \in Slots : Stops(items, key, j) /\ d = Dist(i, j)
    BY <1>2
  <1>4. ASSUME NEW p \in Slots, Stops(items, key, p) PROVE ~(Dist(i, p) < Dist(i, j))
    <2>1. Dist(i, p) \in D /\ Dist(i, p) \in Nat /\ d \in Nat
      BY <1>2, <1>4, DistFacts
    <2>2. d <= Dist(i, p)
      <3> HIDE DEF D
      <3> QED
        BY <1>2, <2>1
    <2> QED
      BY <1>3, <2>1, <2>2
  <1> QED
    BY <1>3, <1>4 DEF Nearest

LEMMA NearestUnique ==
  ASSUME NEW items, NEW key, NEW i \in Slots, NEW j, NEW k,
         Nearest(items, key, i, j), Nearest(items, key, i, k)
  PROVE  j = k
  <1>1. j \in Slots /\ k \in Slots /\ ~(Dist(i, j) < Dist(i, k)) /\ ~(Dist(i, k) < Dist(i, j))
    BY DEF Nearest
  <1>2. Dist(i, j) \in Nat /\ Dist(i, k) \in Nat
    BY <1>1, DistFacts
  <1>3. Dist(i, j) = Dist(i, k)
    BY <1>1, <1>2
  <1> QED
    BY <1>1, <1>3, DistFacts

LEMMA NearestHere ==
  ASSUME NEW items, NEW key, NEW i \in Slots, Stops(items, key, i)
  PROVE  Nearest(items, key, i, i)
  <1>1. \A p \in Slots : Dist(i, p) \in Nat
    BY DistFacts
  <1>2. Dist(i, i) = 0
    BY DistFacts
  <1> QED
    BY <1>1, <1>2 DEF Nearest

LEMMA NearestNext ==
  ASSUME NEW items, NEW key, NEW i \in Slots, ~Stops(items, key, i),
         NEW j, Nearest(items, key, Following(i), j)
  PROVE  Nearest(items, key, i, j) /\ Dist(Following(i), j) + 1 = Dist(i, j)
  <1>1. Following(i) \in Slots /\ Dist(i, Following(i)) = 1
    <2>1. Dist(i, i) = 0
      BY DistFacts
    <2> QED
      BY <2>1, FollowingFacts, SizeFacts
  <1>2. ASSUME NEW p \in Slots, p # i PROVE Dist(Following(i), p) + 1 = Dist(i, p) /\ Dist(i, p) \in Nat
    <2>1. Dist(i, p) \in Nat /\ Dist(i, p) # 0 /\ Dist(Following(i), p) \in Nat
      BY <1>1, <1>2, DistFacts
    <2>2. 1 + Dist(Following(i), p) = Dist(i, p)
      BY <1>1, <2>1, DistAdds
    <2> QED
      BY <2>1, <2>2
  <1>3. j \in Slots /\ Stops(items, key, j) /\ j # i
    BY DEF Nearest
  <1>4. ASSUME NEW p \in Slots, Dist(i, p) < Dist(i, j) PROVE ~Stops(items, key, p)
    <2>1. CASE p = i
      BY <2>1
    <2>2. CASE p # i
      <3>1. Dist(Following(i), p) < Dist(Following(i), j)
        <4>1. Dist(Following(i), p) \in Nat /\ Dist(Following(i), j) \in Nat
          BY <1>1, <1>3, DistFacts
        <4> QED
          BY <1>2, <1>3, <1>4, <2>2, <4>1
      <3> QED
        BY <3>1 DEF Nearest
    <2> QED
      BY <2>1, <2>2
  <1> QED
    BY <1>2, <1>3, <1>4 DEF Nearest

\* The recursion of the probe: when some slot stops it, it ends at the first.
LEMMA ProbeEnds ==
  ASSUME NEW items, NEW key \in Key, NEW q \in Slots, Stops(items, key, q)
  PROVE  Nearest(items, key, Home(key), IndexFor(items, key))
  <1> DEFINE Turn(f, i) == IF items[i] = Empty \/ KeyOf[items[i]] = key
                           THEN i ELSE f[(i + 1) % TableSize]
             w == [i \in Slots |-> CHOOSE j \in Slots : Nearest(items, key, i, j)]
             f == CHOOSE g : g = [i \in Slots |-> Turn(g, i)]
  <1>1. \A i \in Slots : w[i] \in Slots /\ Nearest(items, key, i, w[i])
    <2> TAKE i \in Slots
    <2>1. \E j \in Slots : Nearest(items, key, i, j)
      BY NearestExists
    <2> QED
      BY <2>1
  <1>2. \A i \in Slots : ~Stops(items, key, i) =>
          Following(i) \in Slots /\ w[i] = w[Following(i)]
          /\ Dist(Following(i), w[Following(i)]) + 1 = Dist(i, w[i])
    <2> SUFFICES ASSUME NEW i \in Slots, ~Stops(items, key, i)
                 PROVE  Following(i) \in Slots /\ w[i] = w[Following(i)]
                        /\ Dist(Following(i), w[Following(i)]) + 1 = Dist(i, w[i])
      OBVIOUS
    <2> HIDE DEF w
    <2>1. Following(i) \in Slots
      BY FollowingFacts
    <2>2. Nearest(items, key, i, w[Following(i)])
          /\ Dist(Following(i), w[Following(i)]) + 1 = Dist(i, w[Following(i)])
      BY <1>1, <2>1, NearestNext
    <2>3. w[i] = w[Following(i)]
      BY <1>1, <2>2, NearestUnique
    <2> QED
      BY <2>1, <2>2, <2>3
  <1>3. \A i \in Slots : Stops(items, key, i) => w[i] = i
    <2> HIDE DEF w
    <2> QED
      BY <1>1, NearestHere, NearestUnique
  <1>4. \A i \in Slots : w[i] = Turn(w, i)
    <2> HIDE DEF w
    <2> QED
      BY <1>2, <1>3 DEF Stops, Following
  <1>5. w = [i \in Slots |-> Turn(w, i)]
    <2>1. w = [i \in Slots |-> w[i]]
      OBVIOUS
    <2> HIDE DEF w, Turn
    <2> QED
      BY <1>4, <2>1
  <1>6. f = [i \in Slots |-> Turn(f, i)]
    <2> HIDE DEF w, Turn
    <2> QED
      BY <1>5
  <1>7. \A i \in Slots : f[i] = Turn(f, i)
    <2> HIDE DEF f, Turn
    <2> QED
      BY <1>6
  <1>8. \A i \in Slots : (Stops(items, key, i) => f[i] = i) /\ (~Stops(items, key, i) => f[i] = f[Following(i)])
    <2> HIDE DEF f
    <2> QED
      BY <1>7 DEF Stops, Following
  <1>9. IndexFor(items, key) = f[Home(key)]
    BY DEF IndexFor, Home
  <1> HIDE DEF w, f, Turn
  <1> DEFINE Bad == {d \in Nat : \E i \in Slots : d = Dist(i, w[i]) /\ f[i] # w[i]}
  <1>10. Bad = {}
    <2> SUFFICES ASSUME Bad # {} PROVE FALSE
      OBVIOUS
    <2>1. PICK d \in Bad : \A m \in Bad : d <= m
      <3>1. Bad \in SUBSET Nat
        OBVIOUS
      <3> HIDE DEF Bad
      <3> QED
        BY <3>1, LeastNat
    <2>2. PICK i \in Slots : d = Dist(i, w[i]) /\ f[i] # w[i]
      BY <2>1
    <2>3. ~Stops(items, key, i)
      BY <1>3, <1>8, <2>2
    <2>4. /\ Following(i) \in Slots /\ f[Following(i)] # w[Following(i)]
          /\ Dist(Following(i), w[Following(i)]) + 1 = d
      BY <1>2, <1>8, <2>2, <2>3
    <2>5. Dist(Following(i), w[Following(i)]) \in Nat
      BY <1>1, <2>4, DistFacts
    <2>6. Dist(Following(i), w[Following(i)]) \in Bad
      BY <2>4, <2>5
    <2>7. d <= Dist(Following(i), w[Following(i)])
      <3> HIDE DEF Bad
      <3> QED
        BY <2>1, <2>6
    <2> QED
      BY <2>4, <2>5, <2>7
  <1>11. \A i \in Slots : f[i] = w[i]
    <2>1. \A i \in Slots : Dist(i, w[i]) \in Nat
      BY <1>1, DistFacts
    <2> QED
      BY <1>10, <2>1
  <1> QED
    BY <1>1, <1>9, <1>11, HomeIsSlot
-----------------------------------------------------------------------------
(* A table in order. *)

Arrays == [Slots -> Item \union {Empty}]

Tables == [items : Arrays, num : Nat]

In(items) == {items[i] : i \in Slots} \ {Empty}

KeysDiffer(items) ==
  \A i, j \in Slots :
    items[i] # Empty /\ items[j] # Empty /\ KeyOf[items[i]] = KeyOf[items[j]] => i = j

\* No slot from i to j is empty, but for j.
Taken(items, i, j) == \A p \in Slots : Dist(i, p) < Dist(i, j) => items[p] # Empty

Placed(items, j) == Taken(items, Home(KeyOf[items[j]]), j)

Sound(items) ==
  /\ items \in Arrays /\ KeysDiffer(items)
  /\ \A j \in Slots : items[j] # Empty => Placed(items, j)

Whole(T) ==
  /\ T \in Tables /\ Sound(T.items)
  /\ T.num = Cardinality(Kept(T)) /\ T.num <= MaxItems

LEMMA ItemFacts ==
  ASSUME NEW items \in Arrays, NEW i \in Slots, items[i] # Empty
  PROVE  items[i] \in Item /\ KeyOf[items[i]] \in Key /\ Home(KeyOf[items[i]]) \in Slots
  <1>1. items[i] \in Item
    BY DEF Arrays
  <1>2. KeyOf[items[i]] \in Key
    BY <1>1, TableAssumption
  <1> QED
    BY <1>1, <1>2, HomeIsSlot

LEMMA SlotsFinite == IsFiniteSet(Slots) /\ Cardinality(Slots) = TableSize
  <1>1. 0 \in Int /\ TableSize - 1 \in Int /\ TableSize >= 2 /\ TableSize \in Nat
    BY SizeFacts
  <1>2. IsFiniteSet(0 .. TableSize - 1)
        /\ Cardinality(0 .. TableSize - 1) = IF 0 > TableSize - 1 THEN 0 ELSE TableSize - 1 - 0 + 1
    BY <1>1, FS_Interval
  <1> QED
    BY <1>1, <1>2 DEF Slots

LEMMA InFinite ==
  ASSUME NEW items
  PROVE  IsFiniteSet(In(items)) /\ Cardinality(In(items)) \in Nat
  <1> DEFINE f == [i \in Slots |-> items[i]]
             S == {items[i] : i \in Slots}
  <1>1. f \in Surjection(Slots, S)
    BY DEF Surjection
  <1>2. IsFiniteSet(S)
    <2> HIDE DEF f, S
    <2> QED
      BY <1>1, SlotsFinite, FS_Surjection
  <1>3. IsFiniteSet(S \ {Empty})
    <2> HIDE DEF S
    <2> QED
      BY <1>2, FS_RemoveElement
  <1> QED
    BY <1>3, FS_CardinalityType DEF In

\* As many items as slots that are taken.
LEMMA TakenCount ==
  ASSUME NEW items, KeysDiffer(items), NEW A \in SUBSET Slots, \A i \in A : items[i] # Empty
  PROVE  IsFiniteSet(A) /\ Cardinality(A) <= Cardinality(In(items))
  <1> DEFINE f == [i \in A |-> items[i]]
             B == In(items)
  <1>1. f \in Injection(A, B)
    <2>1. f \in [A -> B]
      BY DEF In
    <2>2. \A i, j \in A : f[i] = f[j] => i = j
      BY DEF KeysDiffer
    <2> QED
      BY <2>1, <2>2 DEF Injection, IsInjective
  <1>2. IsFiniteSet(B)
    BY InFinite
  <1> HIDE DEF f, B
  <1>3. IsFiniteSet(A) /\ Cardinality(A) <= Cardinality(B)
    BY <1>1, <1>2, FS_Injection
  <1> QED
    BY <1>3 DEF B

\* A table with no more items than it may have has an empty slot, and another one
\* if it may have more.
LEMMA EmptySlot ==
  ASSUME NEW items, KeysDiffer(items), Cardinality(In(items)) <= MaxItems
  PROVE  /\ \E q \in Slots : items[q] = Empty
         /\ Cardinality(In(items)) < MaxItems => \A i : \E q \in Slots : q # i /\ items[q] = Empty
  <1>1. TableSize \in Nat /\ TableSize >= 2 /\ MaxItems \in Nat /\ TableSize = 2 * MaxItems
        /\ Cardinality(In(items)) \in Nat
    BY SizeFacts, InFinite
  <1>2. ASSUME \A q \in Slots : items[q] # Empty PROVE FALSE
    <2>1. Cardinality(Slots) <= Cardinality(In(items))
      BY <1>2, TakenCount
    <2> QED
      BY <1>1, <2>1, SlotsFinite
  <1>3. ASSUME Cardinality(In(items)) < MaxItems, NEW i, \A q \in Slots \ {i} : items[q] # Empty
        PROVE FALSE
    <2> DEFINE A == Slots \ {i}
    <2>1. Cardinality(A) <= Cardinality(In(items))
      <3>1. A \in SUBSET Slots
        OBVIOUS
      <3> QED
        BY <1>3, <3>1, TakenCount
    <2>2. Cardinality(A) = TableSize \/ Cardinality(A) = TableSize - 1
      BY SlotsFinite, FS_RemoveElement
    <2> HIDE DEF A
    <2> QED
      BY <1>1, <1>3, <2>1, <2>2
  <1> QED
    BY <1>2, <1>3
-----------------------------------------------------------------------------
(* Looking up and adding. *)

LEMMA IndexForFacts ==
  ASSUME NEW items, Sound(items), NEW q \in Slots, items[q] = Empty, NEW key \in Key
  PROVE  /\ IndexFor(items, key) \in Slots
         /\ \/ items[IndexFor(items, key)] = Empty
            \/ KeyOf[items[IndexFor(items, key)]] = key
         /\ Taken(items, Home(key), IndexFor(items, key))
         /\ \A j \in Slots : items[j] # Empty /\ KeyOf[items[j]] = key => j = IndexFor(items, key)
  <1>1. PICK i : i = IndexFor(items, key)
    OBVIOUS
  <1>2. Nearest(items, key, Home(key), i)
    BY <1>1, ProbeEnds DEF Stops
  <1>3. Home(key) \in Slots /\ i \in Slots
    BY <1>2, HomeIsSlot DEF Nearest
  <1>4. (items[i] = Empty \/ KeyOf[items[i]] = key) /\ Taken(items, Home(key), i)
    BY <1>2 DEF Nearest, Stops, Taken
  <1>5. ASSUME NEW j \in Slots, items[j] # Empty, KeyOf[items[j]] = key PROVE j = i
    <2>1. Taken(items, Home(key), j)
      BY <1>5 DEF Sound, Placed
    <2>2. ~(Dist(Home(key), j) < Dist(Home(key), i))
      BY <1>2, <1>5 DEF Nearest, Stops
    <2>3. CASE Dist(Home(key), i) < Dist(Home(key), j)
      <3>1. items[i] # Empty
        BY <1>3, <2>1, <2>3 DEF Taken
      <3> QED
        BY <1>3, <1>4, <1>5, <3>1 DEF Sound, KeysDiffer
    <2>4. CASE ~(Dist(Home(key), i) < Dist(Home(key), j))
      <3>1. Dist(Home(key), i) = Dist(Home(key), j)
        <4>1. Dist(Home(key), i) \in Nat /\ Dist(Home(key), j) \in Nat
          BY <1>3, DistFacts
        <4> QED
          BY <2>2, <2>4, <4>1
      <3> QED
        BY <1>3, <3>1, DistFacts
    <2> QED
      BY <2>3, <2>4
  <1> QED
    BY <1>1, <1>3, <1>4, <1>5

LEMMA WholeFacts ==
  ASSUME NEW T, Whole(T)
  PROVE  /\ T.items \in Arrays /\ T.num \in Nat /\ T.num <= MaxItems /\ Sound(T.items)
         /\ KeysDiffer(T.items) /\ Kept(T) = In(T.items) /\ T.num = Cardinality(In(T.items))
         /\ Kept(T) \subseteq Item /\ IsFiniteSet(Kept(T))
         /\ \E q \in Slots : T.items[q] = Empty
  <1>1. T.items \in Arrays /\ T.num \in Nat
    BY DEF Whole, Tables
  <1>2. Kept(T) = In(T.items)
    BY DEF Kept, In
  <1>3. T.num <= MaxItems /\ Sound(T.items) /\ KeysDiffer(T.items) /\ T.num = Cardinality(In(T.items))
    BY <1>2 DEF Whole, Sound
  <1>4. Kept(T) \subseteq Item
    BY <1>1 DEF Kept, Arrays
  <1>5. \E q \in Slots : T.items[q] = Empty
    BY <1>3, EmptySlot
  <1> QED
    BY <1>1, <1>2, <1>3, <1>4, <1>5, InFinite

\* A lookup finds the item of that name.
LEMMA GetFacts ==
  ASSUME NEW T, Whole(T), NEW n \in Key
  PROVE  /\ Get(T, n) = Empty \/ (Get(T, n) \in Kept(T) /\ KeyOf[Get(T, n)] = n)
         /\ \A x \in Kept(T) : KeyOf[x] = n => Get(T, n) = x
         /\ Get(T, n) # Empty => Get(T, n) \in Item
  <1>1. PICK q \in Slots : T.items[q] = Empty
    BY WholeFacts
  <1>2. PICK i : i = IndexFor(T.items, n)
    OBVIOUS
  <1>3. /\ i \in Slots /\ (T.items[i] = Empty \/ KeyOf[T.items[i]] = n)
        /\ \A j \in Slots : T.items[j] # Empty /\ KeyOf[T.items[j]] = n => j = i
    <2>1. Sound(T.items)
      BY WholeFacts
    <2> QED
      BY <1>1, <1>2, <2>1, IndexForFacts
  <1>4. Get(T, n) = T.items[i]
    BY <1>2 DEF Get
  <1>5. \A x \in Kept(T) : \E j \in Slots : x = T.items[j] /\ T.items[j] # Empty
    BY DEF Kept
  <1>6. T.items[i] # Empty => T.items[i] \in Kept(T)
    BY <1>3 DEF Kept
  <1>7. Kept(T) \subseteq Item
    BY WholeFacts
  <1>8. ASSUME NEW x \in Kept(T), KeyOf[x] = n PROVE T.items[i] = x
    <2>1. PICK j \in Slots : x = T.items[j] /\ T.items[j] # Empty
      BY <1>5
    <2>2. j = i
      BY <1>3, <1>8, <2>1
    <2> QED
      BY <2>1, <2>2
  <1>9. Get(T, n) = Empty \/ (Get(T, n) \in Kept(T) /\ KeyOf[Get(T, n)] = n)
    BY <1>3, <1>4, <1>6
  <1> QED
    BY <1>4, <1>7, <1>8, <1>9

\* The table as the names see it.
Full(T) == T.num >= MaxItems

Named(T, x) == \E y \in Kept(T) : KeyOf[y] = KeyOf[x]

LEMMA AddFacts ==
  ASSUME NEW T, Whole(T), NEW x \in Item
  PROVE  /\ Whole(AddItem(T, x))
         /\ Full(T) \/ Named(T, x) => AddItem(T, x) = T
         /\ ~(Full(T) \/ Named(T, x)) => Kept(AddItem(T, x)) = Kept(T) \union {x}
  <1>1. PICK i : i = IndexFor(T.items, KeyOf[x])
    OBVIOUS
  <1>2. x # Empty /\ KeyOf[x] \in Key
    BY TableAssumption
  <1>3. /\ i \in Slots /\ (T.items[i] = Empty \/ KeyOf[T.items[i]] = KeyOf[x])
        /\ Taken(T.items, Home(KeyOf[x]), i)
        /\ \A j \in Slots : T.items[j] # Empty /\ KeyOf[T.items[j]] = KeyOf[x] => j = i
    <2>1. Sound(T.items) /\ \E q \in Slots : T.items[q] = Empty
      BY WholeFacts
    <2> QED
      BY <1>1, <1>2, <2>1, IndexForFacts
  <1>4. Named(T, x) <=> T.items[i] # Empty
    BY <1>3 DEF Named, Kept
  <1>5. AddItem(T, x) = IF Full(T) \/ T.items[i] # Empty THEN T
                        ELSE [items |-> [T.items EXCEPT ![i] = x], num |-> T.num + 1]
    BY <1>1 DEF AddItem, Full
  <1>6. CASE Full(T) \/ Named(T, x)
    BY <1>4, <1>5, <1>6
  <1>7. CASE ~(Full(T) \/ Named(T, x))
    <2>1. PICK g : g = [T.items EXCEPT ![i] = x]
      OBVIOUS
    <2>2. AddItem(T, x).items = g /\ AddItem(T, x).num = T.num + 1
          /\ AddItem(T, x) = [items |-> g, num |-> T.num + 1]
      BY <1>4, <1>5, <1>7, <2>1
    <2>3. /\ g \in Arrays /\ g[i] = x /\ \A j \in Slots : j # i => g[j] = T.items[j]
      BY <1>3, <2>1, WholeFacts DEF Arrays
    <2>4. T.items[i] = Empty
      BY <1>4, <1>7
    <2>5. KeysDiffer(g)
      <3>1. KeysDiffer(T.items)
        BY WholeFacts
      <3> QED
        BY <1>3, <2>3, <2>4, <3>1 DEF KeysDiffer
    <2>6. ASSUME NEW j \in Slots, g[j] # Empty PROVE Placed(g, j)
      <3>1. \A p \in Slots : T.items[p] # Empty => g[p] # Empty
        BY <1>2, <2>3
      <3>2. CASE j = i
        BY <1>3, <2>3, <3>1, <3>2 DEF Placed, Taken
      <3>3. CASE j # i
        <4>1. Placed(T.items, j) /\ g[j] = T.items[j]
          BY <2>3, <2>6, <3>3, WholeFacts DEF Sound
        <4> QED
          BY <3>1, <4>1 DEF Placed, Taken
      <3> QED
        BY <3>2, <3>3
    <2>7. In(g) = In(T.items) \union {x} /\ x \notin In(T.items)
      <3>1. x \notin In(T.items)
        BY <1>3, <2>4 DEF In
      <3>2. \A y \in In(g) : y \in In(T.items) \/ y = x
        BY <2>3 DEF In
      <3>3. x \in In(g)
        BY <1>2, <1>3, <2>3 DEF In
      <3>4. \A y \in In(T.items) : y \in In(g)
        BY <2>3, <2>4 DEF In
      <3> QED
        BY <3>1, <3>2, <3>3, <3>4
    <2>8. Cardinality(In(g)) = T.num + 1
      <3>1. IsFiniteSet(In(T.items)) /\ T.num = Cardinality(In(T.items))
        BY InFinite, WholeFacts
      <3>2. Cardinality(In(T.items) \union {x}) = Cardinality(In(T.items)) + 1
        BY <2>7, <3>1, FS_AddElement
      <3> QED
        BY <2>7, <3>1, <3>2
    <2>9. Kept(AddItem(T, x)) = In(g) /\ Kept(T) = In(T.items)
      BY <2>2 DEF Kept, In
    <2>10. T.num \in Nat /\ T.num + 1 <= MaxItems
      BY <1>7, WholeFacts, SizeFacts DEF Full
    <2>11. AddItem(T, x) \in Tables
      BY <2>2, <2>3, <2>10 DEF Tables
    <2>12. Whole(AddItem(T, x))
      BY <2>2, <2>3, <2>5, <2>6, <2>8, <2>9, <2>10, <2>11 DEF Whole, Sound
    <2> QED
      BY <1>7, <2>7, <2>9, <2>12
  <1> QED
    BY <1>6, <1>7
-----------------------------------------------------------------------------
(***************************************************************************)
(* Removing.  The run of items after the emptied slot i ends at the empty  *)
(* slot e.  After k turns of the loop the items from the next slot of the  *)
(* run on are where they were, and lack no slot but those up to the k-th.  *)
(* All others are placed: what they may have lacked is the slot that a     *)
(* turn empties, and past that they would have lacked e as well.           *)
(***************************************************************************)

\* A stretch from h to s that contains p contains what is nearer to p than s.
LEMMA CrossesIt ==
  ASSUME NEW h \in Slots, NEW p \in Slots, NEW e \in Slots, NEW s \in Slots,
         Dist(h, p) < Dist(h, s), Dist(p, e) < Dist(p, s)
  PROVE  Dist(h, e) < Dist(h, s)
  <1>1. /\ Dist(h, p) \in Nat /\ Dist(h, s) \in Nat /\ Dist(p, e) \in Nat
        /\ Dist(p, s) \in Nat /\ Dist(h, e) \in Nat /\ Dist(h, s) < TableSize
    BY DistFacts
  <1>2. Dist(h, p) + Dist(p, s) = Dist(h, s)
    BY <1>1, DistAdds
  <1>3. Dist(h, p) + Dist(p, e) < TableSize
    BY <1>1, <1>2, SizeFacts
  <1>4. Dist(h, p) + Dist(p, e) = Dist(h, e)
    BY <1>3, DistAdds
  <1> QED
    BY <1>1, <1>2, <1>4

LEMMA DistBack ==
  ASSUME NEW s \in Slots, NEW t \in Slots, NEW u \in Slots, Dist(s, u) < Dist(s, t)
  PROVE  Dist(t, u) = TableSize - Dist(s, t) + Dist(s, u)
  BY SizeFacts, SlotFacts DEF Dist

Run(items, i, r, e) ==
  /\ i \in Slots /\ items[i] = Empty
  /\ r \in Nat /\ r + 1 < TableSize
  /\ e \in Slots /\ items[e] = Empty /\ Dist(i, e) = r + 1
  /\ \A s \in Slots : 1 <= Dist(i, s) /\ Dist(i, s) <= r => items[s] # Empty

\* The slot s is not one of those of the run after the k-th.
Done(i, r, k, s) == Dist(i, s) <= k \/ Dist(i, s) > r

Lacks(items, s, p) ==
  /\ items[s] # Empty /\ items[p] = Empty
  /\ Dist(Home(KeyOf[items[s]]), p) < Dist(Home(KeyOf[items[s]]), s)

Turned(items, i, r, k, f) ==
  /\ f \in Arrays /\ KeysDiffer(f) /\ In(f) = In(items)
  /\ \A s \in Slots : Dist(i, s) > k => f[s] = items[s]
  /\ \A s, p \in Slots : Done(i, r, k, s) => ~Lacks(f, s, p)
  /\ \A s, p \in Slots : Lacks(f, s, p) => Dist(i, p) <= k

LEMMA LacksPlaced ==
  ASSUME NEW f, NEW s \in Slots, f[s] # Empty
  PROVE  Placed(f, s) <=> \A p \in Slots : ~Lacks(f, s, p)
  BY DEF Placed, Taken, Lacks

\* What is done and lacks a slot of the run lacks e as well.
LEMMA LacksEnd ==
  ASSUME NEW items, NEW i, NEW r, NEW e, Run(items, i, r, e),
         NEW f \in Arrays, f[e] = Empty,
         NEW s \in Slots, NEW p \in Slots, f[s] # Empty,
         Dist(Home(KeyOf[f[s]]), p) < Dist(Home(KeyOf[f[s]]), s),
         Dist(i, p) <= r, Dist(i, s) < Dist(i, p) \/ Dist(i, s) > r
  PROVE  Lacks(f, s, e)
  <1>1. PICK h \in Slots : h = Home(KeyOf[f[s]])
    BY ItemFacts
  <1>2. /\ i \in Slots /\ r \in Nat /\ r + 1 < TableSize /\ e \in Slots /\ Dist(i, e) = r + 1
        /\ TableSize \in Nat /\ s # e
    BY SizeFacts DEF Run
  <1>3. /\ Dist(i, p) \in Nat /\ Dist(i, s) \in Nat /\ Dist(p, e) \in Nat /\ Dist(p, s) \in Nat
        /\ (Dist(i, s) = Dist(i, e) => s = e)
    BY <1>2, DistFacts
  <1>4. Dist(p, e) = r + 1 - Dist(i, p)
    <2>1. Dist(i, p) + Dist(p, e) = Dist(i, e)
      BY <1>2, <1>3, DistAdds
    <2> QED
      BY <1>2, <1>3, <2>1
  <1>5. Dist(p, e) < Dist(p, s)
    <2>1. CASE Dist(i, s) > r
      <3>1. Dist(i, s) > r + 1
        BY <1>2, <1>3, <2>1
      <3>2. Dist(i, p) + Dist(p, s) = Dist(i, s)
        BY <1>2, <1>3, <3>1, DistAdds
      <3> QED
        BY <1>2, <1>3, <1>4, <3>1, <3>2
    <2>2. CASE Dist(i, s) < Dist(i, p)
      <3>1. Dist(p, s) = TableSize - Dist(i, p) + Dist(i, s)
        BY <1>2, <2>2, DistBack
      <3> QED
        BY <1>2, <1>3, <1>4, <3>1
    <2> QED
      BY <2>1, <2>2
  <1>6. Dist(h, e) < Dist(h, s)
    BY <1>1, <1>2, <1>5, CrossesIt
  <1> QED
    BY <1>1, <1>6 DEF Lacks

\* The loop begins with the table in order but for the slot emptied.
LEMMA TurnedFirst ==
  ASSUME NEW items \in Arrays, KeysDiffer(items), NEW i, NEW r, NEW e, Run(items, i, r, e),
         \A s, p \in Slots : Lacks(items, s, p) => p = i
  PROVE  Turned(items, i, r, 0, items)
  <1>1. i \in Slots /\ r \in Nat /\ items[e] = Empty /\ e \in Slots /\ Dist(i, e) = r + 1
        /\ items[i] = Empty
    BY DEF Run
  <1>2. Dist(i, i) = 0 /\ e # i
    BY <1>1, DistFacts
  <1>3. ASSUME NEW s \in Slots, NEW p \in Slots, Done(i, r, 0, s), Lacks(items, s, p) PROVE FALSE
    <2>1. p = i /\ s # i /\ items[s] # Empty
      BY <1>1, <1>3 DEF Lacks
    <2>2. Dist(i, s) > r /\ Dist(i, p) <= r
      <3>1. Dist(i, s) \in Nat /\ Dist(i, s) # 0
        BY <1>1, <2>1, DistFacts
      <3> QED
        BY <1>1, <1>2, <1>3, <2>1, <3>1 DEF Done
    <2>3. Lacks(items, s, e)
      BY <1>1, <1>3, <2>1, <2>2, LacksEnd DEF Lacks
    <2> QED
      BY <1>1, <1>2, <2>3
  <1> QED
    BY <1>2, <1>3 DEF Turned
Moves(f, p, j, g) == g = [f EXCEPT ![p] = f[j], ![j] = f[p]]

\* An item that its probe finds stays; every other goes to an empty slot before it.
LEMMA RehashCases ==
  ASSUME NEW f \in Arrays, KeysDiffer(f), NEW p \in Slots, f[p] # Empty
  PROVE  \E j \in Slots :
           /\ Taken(f, Home(KeyOf[f[p]]), j)
           /\ Moves(f, p, j, Rehash(f, p))
           /\ j = p \/ Lacks(f, p, j)
  <1>1. PICK key \in Key : key = KeyOf[f[p]] /\ Home(key) \in Slots
    BY ItemFacts
  <1>2. PICK j : j = IndexFor(f, key)
    OBVIOUS
  <1>3. Nearest(f, key, Home(key), j)
    BY <1>1, <1>2, ProbeEnds DEF Stops
  <1>4. j \in Slots /\ Taken(f, Home(key), j) /\ (f[j] = Empty \/ KeyOf[f[j]] = key)
    BY <1>3 DEF Nearest, Stops, Taken
  <1>5. Moves(f, p, j, Rehash(f, p))
    BY <1>1, <1>2 DEF Rehash, Moves
  <1>6. ASSUME j # p PROVE Lacks(f, p, j)
    <2>1. f[j] = Empty
      BY <1>1, <1>4, <1>6 DEF KeysDiffer
    <2>2. ~(Dist(Home(key), p) < Dist(Home(key), j))
      BY <1>1, <1>3 DEF Nearest, Stops
    <2>3. /\ Dist(Home(key), p) \in Nat /\ Dist(Home(key), j) \in Nat
          /\ Dist(Home(key), p) # Dist(Home(key), j)
      BY <1>1, <1>4, <1>6, DistFacts
    <2>4. Dist(Home(key), j) < Dist(Home(key), p)
      BY <2>2, <2>3
    <2> QED
      BY <1>1, <2>1, <2>4 DEF Lacks
  <1> QED
    BY <1>1, <1>4, <1>5, <1>6

\* Moving an item into an empty slot.
LEMMA Moved ==
  ASSUME NEW f \in Arrays, KeysDiffer(f), NEW p \in Slots, f[p] # Empty,
         NEW j \in Slots, f[j] = Empty, NEW g, Moves(f, p, j, g)
  PROVE  /\ g \in Arrays /\ KeysDiffer(g) /\ In(g) = In(f)
         /\ j # p /\ g[p] = Empty /\ g[j] = f[p]
         /\ \A s \in Slots : s # p /\ s # j => g[s] = f[s]
  <1>1. j # p
    OBVIOUS
  <1>2. /\ g \in Arrays /\ g[p] = Empty /\ g[j] = f[p]
        /\ \A s \in Slots : s # p /\ s # j => g[s] = f[s]
    BY <1>1 DEF Arrays, Moves
  <1>3. KeysDiffer(g)
    BY <1>1, <1>2 DEF KeysDiffer
  <1>4. \A y \in In(g) : y \in In(f)
    BY <1>2 DEF In
  <1>5. \A y \in In(f) : y \in In(g)
    BY <1>1, <1>2 DEF In
  <1> QED
    BY <1>1, <1>2, <1>3, <1>4, <1>5

LEMMA TurnedNext ==
  ASSUME NEW items \in Arrays, NEW i, NEW r, NEW e, Run(items, i, r, e),
         NEW k \in 1 .. r, NEW f, Turned(items, i, r, k - 1, f),
         NEW p \in Slots, Dist(i, p) = k
  PROVE  Turned(items, i, r, k, Rehash(f, p))
  <1>1. /\ i \in Slots /\ r \in Nat /\ k \in Nat /\ k >= 1 /\ k <= r
        /\ e \in Slots /\ Dist(i, e) = r + 1 /\ items[e] = Empty /\ items[p] # Empty
    BY DEF Run
  <1>2. /\ f \in Arrays /\ KeysDiffer(f) /\ In(f) = In(items)
        /\ \A s \in Slots : Dist(i, s) > k - 1 => f[s] = items[s]
        /\ \A s, q \in Slots : Done(i, r, k - 1, s) => ~Lacks(f, s, q)
        /\ \A s, q \in Slots : Lacks(f, s, q) => Dist(i, q) <= k - 1
    BY DEF Turned
  <1>3. f[p] # Empty /\ f[e] = Empty
    BY <1>1, <1>2
  <1>4. PICK j \in Slots : /\ Taken(f, Home(KeyOf[f[p]]), j)
                           /\ Moves(f, p, j, Rehash(f, p))
                           /\ j = p \/ Lacks(f, p, j)
    BY <1>2, <1>3, RehashCases
  <1>5. PICK g : g = Rehash(f, p)
    OBVIOUS
  <1>6. \A s \in Slots : Dist(i, s) \in Nat /\ (Dist(i, s) = k => s = p)
    BY <1>1, DistFacts
  <1>7. \A s \in Slots : Done(i, r, k, s) /\ s # p => Done(i, r, k - 1, s)
    BY <1>1, <1>6 DEF Done
  <1>8. CASE j = p
    <2>1. g = f
      BY <1>2, <1>4, <1>5, <1>8 DEF Arrays, Moves
    <2>2. \A q \in Slots : ~Lacks(f, p, q)
      BY <1>4, <1>8 DEF Lacks, Taken
    <2>3. \A s, q \in Slots : Done(i, r, k, s) => ~Lacks(f, s, q)
      BY <1>2, <1>7, <2>2
    <2>4. \A s, q \in Slots : Lacks(f, s, q) => Dist(i, q) <= k
      BY <1>1, <1>2, <1>6
    <2>5. \A s \in Slots : Dist(i, s) > k => f[s] = items[s]
      BY <1>1, <1>2, <1>6
    <2> QED
      BY <1>2, <1>5, <2>1, <2>3, <2>4, <2>5 DEF Turned
  <1>9. CASE j # p
    <2>1. Lacks(f, p, j) /\ f[j] = Empty
      BY <1>4, <1>9 DEF Lacks
    <2>2. /\ g \in Arrays /\ KeysDiffer(g) /\ In(g) = In(f)
          /\ g[p] = Empty /\ g[j] = f[p]
          /\ \A s \in Slots : s # p /\ s # j => g[s] = f[s]
      <3>1. Moves(f, p, j, g)
        BY <1>4, <1>5
      <3>2. f \in Arrays /\ KeysDiffer(f) /\ f[p] # Empty /\ f[j] = Empty
        BY <1>2, <1>3, <2>1
      <3> QED
        BY <3>1, <3>2, Moved
    <2>3. Dist(i, j) <= k - 1
      BY <1>2, <2>1
    <2>4. ASSUME NEW s \in Slots, Dist(i, s) > k PROVE g[s] = items[s] /\ g[s] = f[s]
      <3>1. s # p /\ s # j /\ Dist(i, s) > k - 1
        BY <1>1, <1>6, <2>3, <2>4
      <3> QED
        BY <1>2, <2>2, <3>1
    <2>5. ASSUME NEW s \in Slots, NEW q \in Slots, Done(i, r, k, s), Lacks(g, s, q) PROVE FALSE
      <3>1. g[s] # Empty /\ g[q] = Empty /\ s # p /\ q # j
        BY <1>3, <2>2, <2>5 DEF Lacks
      <3>2. CASE s = j
        <4>1. /\ Dist(Home(KeyOf[f[p]]), q) < Dist(Home(KeyOf[f[p]]), j)
              /\ Dist(Home(KeyOf[f[p]]), j) < Dist(Home(KeyOf[f[p]]), p)
          BY <2>1, <2>2, <2>5, <3>2 DEF Lacks
        <4>2. q # p
          <5>1. PICK h \in Slots : h = Home(KeyOf[f[p]])
            BY <1>2, <1>3, ItemFacts
          <5>2. Dist(h, p) \in Nat /\ Dist(h, j) \in Nat
            BY <5>1, DistFacts
          <5> QED
            BY <4>1, <5>1, <5>2
        <4>3. f[q] = Empty
          BY <2>2, <3>1, <4>2
        <4> QED
          BY <1>4, <4>1, <4>3 DEF Taken
      <3>3. CASE s # j
        <4>1. g[s] = f[s] /\ Done(i, r, k - 1, s)
          BY <1>7, <2>2, <2>5, <3>1, <3>3
        <4>2. Dist(Home(KeyOf[f[s]]), q) < Dist(Home(KeyOf[f[s]]), s) /\ f[s] # Empty
          BY <2>5, <4>1 DEF Lacks
        <4>3. CASE q # p
          <5>1. Lacks(f, s, q)
            BY <2>2, <3>1, <4>2, <4>3 DEF Lacks
          <5> QED
            BY <1>2, <4>1, <5>1
        <4>4. CASE q = p
          <5>1. Dist(i, p) <= r /\ (Dist(i, s) < Dist(i, p) \/ Dist(i, s) > r)
            BY <1>1, <1>6, <4>1 DEF Done
          <5>2. Lacks(f, s, e)
            BY <1>2, <1>3, <4>2, <4>4, <5>1, LacksEnd
          <5> QED
            BY <1>1, <1>2, <4>1, <5>2
        <4> QED
          BY <4>3, <4>4
      <3> QED
        BY <3>2, <3>3
    <2>6. ASSUME NEW s \in Slots, NEW q \in Slots, Lacks(g, s, q) PROVE Dist(i, q) <= k
      <3>1. CASE q = p
        BY <1>1, <3>1
      <3>2. CASE q # p /\ ~Done(i, r, k, s)
        <4>1. g[s] = f[s] /\ q # j
          BY <1>1, <1>3, <1>6, <2>2, <2>4, <2>6, <3>2 DEF Done, Lacks
        <4>2. Lacks(f, s, q)
          BY <2>2, <2>6, <3>2, <4>1 DEF Lacks
        <4> QED
          BY <1>1, <1>2, <1>6, <4>2
      <3> QED
        BY <2>5, <2>6, <3>1, <3>2
    <2> QED
      BY <1>2, <1>5, <2>2, <2>4, <2>5, <2>6 DEF Turned
  <1> QED
    BY <1>8, <1>9
LEMMA TurnedLast ==
  ASSUME NEW items, NEW i \in Slots, NEW r \in Nat, NEW f, Turned(items, i, r, r, f)
  PROVE  Sound(f) /\ In(f) = In(items)
  <1>1. \A s \in Slots : Done(i, r, r, s)
    <2>1. \A s \in Slots : Dist(i, s) \in Nat
      BY DistFacts
    <2> QED
      BY <2>1 DEF Done
  <1>2. \A s \in Slots : f[s] # Empty => Placed(f, s)
    BY <1>1, LacksPlaced DEF Turned
  <1> QED
    BY <1>2 DEF Turned, Sound

\* The slot a distance away.
LEMMA AfterDist ==
  ASSUME NEW i \in Slots, NEW s \in Slots
  PROVE  (i + Dist(i, s)) % TableSize = s
  <1>1. PICK d \in Nat : d = Dist(i, s) /\ d < TableSize
    BY DistFacts
  <1>2. PICK t \in Slots : t = (i + d) % TableSize /\ Dist(i, t) = d
    BY <1>1, AfterFacts, SizeFacts
  <1>3. t = s
    BY <1>1, <1>2, DistFacts
  <1> QED
    BY <1>1, <1>2, <1>3

\* Two recursions that begin and go on alike.
GoAlike(f, w, n) == f[0] = w[0] /\ \A k \in 1 .. n : f[k - 1] = w[k - 1] => f[k] = w[k]

LEMMA Alike ==
  ASSUME NEW n \in Nat, NEW f, NEW w, GoAlike(f, w, n)
  PROVE  \A k \in 0 .. n : f[k] = w[k]
  <1> DEFINE B == {k \in 0 .. n : f[k] = w[k]}
  <1>1. 0 \in B
    BY DEF GoAlike
  <1>2. \A k \in 1 .. n : k - 1 \in B => k \in B
    BY DEF GoAlike
  <1>3. 0 .. n \subseteq B
    <2> HIDE DEF B
    <2> QED
      BY <1>1, <1>2, UpTo
  <1> QED
    BY <1>3

LEMMA RunExists ==
  ASSUME NEW items \in Arrays, NEW i \in Slots, items[i] = Empty,
         NEW q \in Slots, q # i, items[q] = Empty
  PROVE  LET After(j) == (i + j) % TableSize
             r == Min({j \in 1 .. TableSize : items[After(j)] = Empty}) - 1
         IN  r \in Nat /\ r + 1 < TableSize /\ Run(items, i, r, After(r + 1))
  <1> DEFINE After(j) == (i + j) % TableSize
             M == {j \in 1 .. TableSize : items[After(j)] = Empty}
             r == Min(M) - 1
  <1>1. Dist(i, q) \in M /\ Dist(i, q) < TableSize /\ TableSize \in Nat
    <2>1. Dist(i, q) \in Nat /\ Dist(i, q) # 0 /\ Dist(i, q) < TableSize
      BY DistFacts
    <2>2. After(Dist(i, q)) = q
      BY AfterDist
    <2>3. Dist(i, q) \in 1 .. TableSize
      BY <2>1, SizeFacts
    <2> QED
      BY <2>1, <2>2, <2>3, SizeFacts
  <1>2. M \in SUBSET Nat /\ \A j \in M : j >= 1
    OBVIOUS
  <1>3. Min(M) \in M /\ \A j \in M : Min(M) <= j
    <2>1. \E k \in M : \A j \in M : k <= j
      <3> HIDE DEF M
      <3> QED
        BY <1>1, <1>2, LeastNat
    <2> HIDE DEF M
    <2> QED
      BY <2>1 DEF Min
  <1>4. PICK m \in Nat : m = Min(M)
    <2> HIDE DEF M
    <2> QED
      BY <1>2, <1>3
  <1>5. /\ m >= 1 /\ m < TableSize /\ m \in M
        /\ \A j \in M : m <= j
    <2>1. m \in M /\ \A j \in M : m <= j
      BY <1>3, <1>4
    <2>2. m <= Dist(i, q) /\ Dist(i, q) \in Nat
      <3> HIDE DEF M
      <3> QED
        BY <1>1, <1>2, <2>1
    <2>3. m >= 1
      BY <1>2, <2>1
    <2> QED
      BY <1>1, <2>1, <2>2, <2>3
  <1>6. PICK e : e = After(m)
    OBVIOUS
  <1>7. e \in Slots /\ items[e] = Empty /\ Dist(i, e) = m
    BY <1>1, <1>5, <1>6, AfterFacts
  <1>8. ASSUME NEW s \in Slots, 1 <= Dist(i, s), Dist(i, s) <= m - 1 PROVE items[s] # Empty
    <2>1. Dist(i, s) \in Nat
      BY DistFacts
    <2>2. Dist(i, s) \notin M
      <3> HIDE DEF M
      <3> QED
        BY <1>5, <1>8, <2>1
    <2>3. Dist(i, s) \in 1 .. TableSize
      BY <1>1, <1>5, <1>8, <2>1
    <2>4. After(Dist(i, s)) = s
      BY AfterDist
    <2> QED
      BY <2>2, <2>3, <2>4
  <1>9. r = m - 1 /\ m - 1 \in Nat /\ m - 1 + 1 = m
    BY <1>4, <1>5
  <1> HIDE DEF M
  <1>10. Run(items, i, m - 1, e)
    BY <1>1, <1>5, <1>7, <1>8, <1>9 DEF Run
  <1>11. After(r + 1) = e /\ r \in Nat /\ r + 1 < TableSize /\ r = m - 1
    BY <1>5, <1>6, <1>9
  <1>12. r \in Nat /\ r + 1 < TableSize /\ Run(items, i, r, After(r + 1))
    <2> HIDE DEF r, After
    <2> QED
      BY <1>10, <1>11
  <1> QED
    BY <1>12 DEF M
\* The loop over the run puts every item where a probe finds it.
LEMMA FixFacts ==
  ASSUME NEW items \in Arrays, KeysDiffer(items), NEW i \in Slots, items[i] = Empty,
         NEW q \in Slots, q # i, items[q] = Empty,
         \A s, p \in Slots : Lacks(items, s, p) => p = i
  PROVE  Sound(FixCollisionsFrom(items, i)) /\ In(FixCollisionsFrom(items, i)) = In(items)
  <1> DEFINE After(j) == (i + j) % TableSize
             run == Min({j \in 1 .. TableSize : items[After(j)] = Empty}) - 1
  <1>1. PICK r \in Nat : r = run /\ r + 1 < TableSize /\ Run(items, i, r, After(r + 1))
    BY RunExists
  <1>2. PICK e : Run(items, i, r, e)
    BY <1>1
  <1>3. \A k \in 1 .. r : After(k) \in Slots /\ Dist(i, After(k)) = k
    <2>1. \A k \in 1 .. r : k \in Nat /\ k < TableSize /\ k <= TableSize
      BY <1>1, SizeFacts
    <2> QED
      BY <2>1, AfterFacts
  <1> DEFINE Step(f, k) == IF k = 0 THEN items ELSE Rehash(f[k - 1], After(k))
             fixed == CHOOSE f : f = [k \in 0 .. r |-> Step(f, k)]
             G == [k \in 1 .. r |-> [a \in Arrays |->
                     IF Rehash(a, After(k)) \in Arrays THEN Rehash(a, After(k)) ELSE a]]
  <1>4. FixCollisionsFrom(items, i) = fixed[r]
    BY <1>1 DEF FixCollisionsFrom
  <1>5. PICK w : Goes(w, r, Arrays, items, G)
    <2>1. G \in [1 .. r -> [Arrays -> Arrays]]
      OBVIOUS
    <2> HIDE DEF G
    <2> QED
      BY <2>1, StepRecursion
  <1>6. \A k \in 1 .. r : k - 1 \in 0 .. r /\ k \in 0 .. r /\ w[k - 1] \in Arrays
    BY <1>5 DEF Goes
  <1>7. \A k \in 1 .. r : Rehash(w[k - 1], After(k)) \in Arrays => w[k] = Rehash(w[k - 1], After(k))
    BY <1>5, <1>6 DEF Goes
  <1> HIDE DEF G
  <1>5a. w[0] = items /\ w \in [0 .. r -> Arrays]
    BY <1>5 DEF Goes
  <1>8. ASSUME NEW k \in 1 .. r, Turned(items, i, r, k - 1, w[k - 1])
        PROVE  Turned(items, i, r, k, w[k]) /\ w[k] = Rehash(w[k - 1], After(k))
    <2>1. PICK p \in Slots : p = After(k) /\ Dist(i, p) = k
      BY <1>3
    <2>2. Turned(items, i, r, k, Rehash(w[k - 1], p))
      BY <1>2, <1>8, <2>1, TurnedNext
    <2>3. w[k] = Rehash(w[k - 1], After(k))
      BY <1>7, <2>1, <2>2 DEF Turned
    <2> QED
      BY <2>1, <2>2, <2>3
  <1> DEFINE B == {k \in 0 .. r : Turned(items, i, r, k, w[k])}
  <1>9. 0 .. r \subseteq B
    <2>1. Turned(items, i, r, 0, w[0])
      BY <1>2, <1>5a, TurnedFirst
    <2>2. 0 \in B /\ \A k \in 1 .. r : k - 1 \in B => k \in B
      BY <1>6, <1>8, <2>1
    <2> HIDE DEF B
    <2> QED
      BY <2>2, UpTo
  <1>10. \A k \in 0 .. r : Turned(items, i, r, k, w[k])
    BY <1>9
  <1>11. \A k \in 1 .. r : w[k] = Rehash(w[k - 1], After(k))
    BY <1>6, <1>8, <1>10
  <1>12. w = [k \in 0 .. r |-> Step(w, k)]
    <2>1. \A k \in 0 .. r : w[k] = Step(w, k)
      <3>1. \A k \in 0 .. r : k = 0 \/ k \in 1 .. r
        OBVIOUS
      <3> HIDE DEF After
      <3> QED
        BY <1>5a, <1>11, <3>1
    <2>2. w = [k \in 0 .. r |-> w[k]]
      BY <1>5a
    <2> HIDE DEF Step
    <2> QED
      BY <2>1, <2>2
  <1>13. fixed = [k \in 0 .. r |-> Step(fixed, k)]
    <2> HIDE DEF Step
    <2> QED
      BY <1>12
  <1>14. fixed[0] = items /\ \A k \in 1 .. r : fixed[k] = Rehash(fixed[k - 1], After(k))
    <2>1. \A k \in 0 .. r : fixed[k] = Step(fixed, k)
      <3> HIDE DEF Step, fixed
      <3> QED
        BY <1>13
    <2>2. \A k \in 1 .. r : k \in 0 .. r /\ k # 0
      OBVIOUS
    <2> HIDE DEF fixed, After
    <2> QED
      BY <2>1, <2>2
  <1> HIDE DEF fixed, After
  <1>15. \A k \in 0 .. r : fixed[k] = w[k]
    <2>1. GoAlike(fixed, w, r)
      BY <1>5a, <1>11, <1>14 DEF GoAlike
    <2> QED
      BY <2>1, Alike
  <1>16. Turned(items, i, r, r, fixed[r])
    <2>1. r \in 0 .. r
      OBVIOUS
    <2> QED
      BY <1>10, <1>15, <2>1
  <1> QED
    BY <1>4, <1>16, TurnedLast

\* Removing takes out the item, if it is there, and leaves the table in order.
LEMMA RemoveFacts ==
  ASSUME NEW T, Whole(T), NEW x \in Item
  PROVE  Whole(RemoveItem(T, x)) /\ Kept(RemoveItem(T, x)) = Kept(T) \ {x}
  <1>1. PICK i : i = IndexFor(T.items, KeyOf[x])
    OBVIOUS
  <1>2. x # Empty /\ KeyOf[x] \in Key
    BY TableAssumption
  <1>3. /\ i \in Slots
        /\ \A j \in Slots : T.items[j] # Empty /\ KeyOf[T.items[j]] = KeyOf[x] => j = i
    <2>1. Sound(T.items) /\ \E q \in Slots : T.items[q] = Empty
      BY WholeFacts
    <2> QED
      BY <1>1, <1>2, <2>1, IndexForFacts
  <1>4. PICK g : g = [T.items EXCEPT ![i] = Empty]
    OBVIOUS
  <1>5. RemoveItem(T, x) = IF T.items[i] # x THEN T
                           ELSE [items |-> FixCollisionsFrom(g, i), num |-> T.num - 1]
    BY <1>1, <1>4 DEF RemoveItem
  <1>6. CASE T.items[i] # x
    <2>1. x \notin Kept(T)
      BY <1>2, <1>3, <1>6 DEF Kept
    <2> QED
      BY <1>5, <1>6, <2>1
  <1>7. CASE T.items[i] = x
    <2>1. /\ T.items \in Arrays /\ Sound(T.items) /\ KeysDiffer(T.items)
          /\ T.num = Cardinality(In(T.items)) /\ T.num \in Nat /\ T.num <= MaxItems
          /\ Kept(T) = In(T.items)
      BY WholeFacts
    <2>2. /\ g \in Arrays /\ g[i] = Empty /\ \A s \in Slots : s # i => g[s] = T.items[s]
      BY <1>3, <1>4, <2>1 DEF Arrays
    <2>3. KeysDiffer(g)
      BY <2>1, <2>2 DEF KeysDiffer
    <2>4. In(g) = In(T.items) \ {x} /\ x \in In(T.items)
      <3>1. x \in In(T.items)
        BY <1>2, <1>3, <1>7 DEF In
      <3>2. x \notin In(g)
        BY <1>2, <1>3, <2>2 DEF In
      <3>3. \A y \in In(g) : y \in In(T.items)
        BY <2>2 DEF In
      <3>4. ASSUME NEW y \in In(T.items), y # x PROVE y \in In(g)
        <4>1. PICK s \in Slots : y = T.items[s] /\ y # Empty
          BY <3>4 DEF In
        <4>2. g[s] = y
          BY <1>7, <2>2, <3>4, <4>1
        <4> QED
          BY <4>1, <4>2 DEF In
      <3> QED
        BY <3>1, <3>2, <3>3, <3>4
    <2>5. Cardinality(In(g)) = T.num - 1 /\ Cardinality(In(g)) \in Nat
      <3>1. IsFiniteSet(In(T.items))
        BY InFinite
      <3>2. Cardinality(In(T.items) \ {x}) = Cardinality(In(T.items)) - 1
        BY <2>4, <3>1, FS_RemoveElement
      <3> QED
        BY <2>1, <2>4, <3>2, InFinite
    <2>6. \A s, p \in Slots : Lacks(g, s, p) => p = i
      <3> SUFFICES ASSUME NEW s \in Slots, NEW p \in Slots, Lacks(g, s, p), p # i PROVE FALSE
        OBVIOUS
      <3>1. g[s] # Empty /\ g[p] = Empty /\ s # i /\ g[s] = T.items[s] /\ g[p] = T.items[p]
        BY <2>2 DEF Lacks
      <3>2. Placed(T.items, s)
        BY <2>1, <3>1 DEF Sound
      <3> QED
        BY <3>1, <3>2 DEF Lacks, Placed, Taken
    <2>7. PICK q \in Slots : q # i /\ g[q] = Empty
      <3>1. Cardinality(In(g)) < MaxItems /\ Cardinality(In(g)) <= MaxItems
        BY <2>1, <2>5, SizeFacts
      <3> QED
        BY <2>3, <3>1, EmptySlot
    <2>8. PICK f : f = FixCollisionsFrom(g, i)
      OBVIOUS
    <2>9. Sound(f) /\ In(f) = In(g)
      BY <1>3, <2>2, <2>3, <2>6, <2>7, <2>8, FixFacts
    <2>10. RemoveItem(T, x) = [items |-> f, num |-> T.num - 1]
      BY <1>5, <1>7, <2>8
    <2>11. RemoveItem(T, x).items = f /\ RemoveItem(T, x).num = T.num - 1
           /\ Kept(RemoveItem(T, x)) = In(f)
      BY <2>10 DEF Kept, In
    <2>12. RemoveItem(T, x) \in Tables
      <3>1. f \in Arrays /\ T.num - 1 \in Nat
        BY <2>5, <2>9 DEF Sound
      <3> QED
        BY <2>10, <3>1 DEF Tables
    <2>13. T.num - 1 <= MaxItems
      BY <2>1, SizeFacts
    <2>14. Whole(RemoveItem(T, x))
      BY <2>5, <2>9, <2>11, <2>12, <2>13 DEF Whole
    <2> QED
      BY <2>1, <2>4, <2>9, <2>11, <2>14
  <1> QED
    BY <1>6, <1>7
-----------------------------------------------------------------------------
(* A definition and its variants go in and out together. *)

LEMMA FamilyFacts ==
  ASSUME NEW d \in Item
  PROVE  /\ VariantsOf[d] \in Seq(Item) /\ Len(VariantsOf[d]) \in Nat
         /\ <<d>> \o VariantsOf[d] \in Seq(Item) /\ VariantsOf[d] \o <<d>> \in Seq(Item)
         /\ Len(<<d>> \o VariantsOf[d]) = Len(VariantsOf[d]) + 1
         /\ Len(VariantsOf[d] \o <<d>>) = Len(VariantsOf[d]) + 1
         /\ (<<d>> \o VariantsOf[d])[1] = d
         /\ \A x : x \in Family(d) <=> \E k \in 1 .. Len(VariantsOf[d]) + 1 : x = (<<d>> \o VariantsOf[d])[k]
         /\ \A x : x \in Family(d) <=> \E k \in 1 .. Len(VariantsOf[d]) + 1 : x = (VariantsOf[d] \o <<d>>)[k]
  <1>1. PICK v \in Seq(Item) : v = VariantsOf[d]
    BY DefAssumption
  <1>2. PICK m \in Nat : m = Len(v) /\ DOMAIN v = 1 .. m
    OBVIOUS
  <1>3. PICK a : a = <<d>> \o VariantsOf[d]
    OBVIOUS
  <1>4. PICK b : b = VariantsOf[d] \o <<d>>
    OBVIOUS
  <1>5. /\ a \in Seq(Item) /\ Len(a) = m + 1 /\ a[1] = d
        /\ \A k \in 1 .. m : a[k + 1] = v[k]
    BY <1>1, <1>2, <1>3
  <1>6. /\ b \in Seq(Item) /\ Len(b) = m + 1 /\ b[m + 1] = d
        /\ \A k \in 1 .. m : b[k] = v[k]
    BY <1>1, <1>2, <1>4
  <1>7. \A x : x \in Family(d) <=> x = d \/ \E k \in 1 .. m : x = v[k]
    BY <1>1, <1>2 DEF Family, ToSet
  <1>8. \A x : x \in Family(d) <=> \E k \in 1 .. m + 1 : x = a[k]
    <2>1. ASSUME NEW x, x \in Family(d) PROVE \E k \in 1 .. m + 1 : x = a[k]
      <3>1. CASE x = d
        <4>1. 1 \in 1 .. m + 1
          OBVIOUS
        <4> QED
          BY <1>5, <3>1, <4>1
      <3>2. CASE \E k \in 1 .. m : x = v[k]
        <4>1. PICK k \in 1 .. m : x = v[k]
          BY <3>2
        <4>2. k + 1 \in 1 .. m + 1 /\ x = a[k + 1]
          BY <1>5, <4>1
        <4> QED
          BY <4>2
      <3> QED
        BY <1>7, <2>1, <3>1, <3>2
    <2>2. ASSUME NEW k \in 1 .. m + 1 PROVE a[k] \in Family(d)
      <3>1. CASE k = 1
        BY <1>5, <1>7, <3>1
      <3>2. CASE k # 1
        <4>1. k - 1 \in 1 .. m /\ k - 1 + 1 = k
          BY <3>2
        <4>2. a[k] = v[k - 1]
          BY <1>5, <4>1
        <4> QED
          BY <1>7, <4>1, <4>2
      <3> QED
        BY <3>1, <3>2
    <2> QED
      BY <2>1, <2>2
  <1>9. \A x : x \in Family(d) <=> \E k \in 1 .. m + 1 : x = b[k]
    <2>1. ASSUME NEW x, x \in Family(d) PROVE \E k \in 1 .. m + 1 : x = b[k]
      <3>1. CASE x = d
        <4>1. m + 1 \in 1 .. m + 1
          OBVIOUS
        <4> QED
          BY <1>6, <3>1, <4>1
      <3>2. CASE \E k \in 1 .. m : x = v[k]
        <4>1. PICK k \in 1 .. m : x = v[k]
          BY <3>2
        <4>2. k \in 1 .. m + 1 /\ x = b[k]
          BY <1>6, <4>1
        <4> QED
          BY <4>2
      <3> QED
        BY <1>7, <2>1, <3>1, <3>2
    <2>2. ASSUME NEW k \in 1 .. m + 1 PROVE b[k] \in Family(d)
      <3>1. CASE k = m + 1
        BY <1>6, <1>7, <3>1
      <3>2. CASE k # m + 1
        <4>1. k \in 1 .. m
          BY <3>2
        <4>2. b[k] = v[k]
          BY <1>6, <4>1
        <4> QED
          BY <1>7, <4>1, <4>2
      <3> QED
        BY <3>1, <3>2
    <2> QED
      BY <2>1, <2>2
  <1>10. m = Len(VariantsOf[d]) /\ VariantsOf[d] \in Seq(Item)
    BY <1>1, <1>2
  <1>11. /\ \A x : x \in Family(d) <=> \E k \in 1 .. Len(VariantsOf[d]) + 1 : x = (<<d>> \o VariantsOf[d])[k]
         /\ \A x : x \in Family(d) <=> \E k \in 1 .. Len(VariantsOf[d]) + 1 : x = (VariantsOf[d] \o <<d>>)[k]
    BY <1>3, <1>4, <1>8, <1>9, <1>10, Zenon
  <1> QED
    BY <1>3, <1>4, <1>5, <1>6, <1>10, <1>11

WholeTables == {T \in Tables : Whole(T)}

\* w is the table after each of the items of the list has been added, or removed.
Adds(w, T, list) ==
  /\ w[0] = T
  /\ \A k \in 0 .. Len(list) : Whole(w[k])
  /\ \A k \in 1 .. Len(list) : w[k] = AddItem(w[k - 1], list[k])

Removes(w, T, list) ==
  /\ w[0] = T
  /\ \A k \in 0 .. Len(list) : Whole(w[k])
  /\ \A k \in 1 .. Len(list) : w[k] = RemoveItem(w[k - 1], list[k])

LEMMA AddGraphDefAdds ==
  ASSUME NEW T, Whole(T), NEW d \in Item
  PROVE  \E w : Adds(w, T, <<d>> \o VariantsOf[d]) /\ AddGraphDef(T, d) = w[Len(<<d>> \o VariantsOf[d])]
  <1>1. PICK list \in Seq(Item) : list = <<d>> \o VariantsOf[d]
    BY FamilyFacts
  <1>2. PICK n \in Nat : n = Len(list)
    OBVIOUS
  <1> DEFINE Step(f, k) == IF k = 0 THEN T ELSE AddItem(f[k - 1], list[k])
             added == CHOOSE f : f = [k \in 0 .. n |-> Step(f, k)]
             G == [k \in 1 .. n |-> [U \in WholeTables |-> AddItem(U, list[k])]]
  <1>3. AddGraphDef(T, d) = added[n]
    BY <1>1, <1>2 DEF AddGraphDef
  <1>4. G \in [1 .. n -> [WholeTables -> WholeTables]]
    <2>1. ASSUME NEW k \in 1 .. n, NEW U \in WholeTables PROVE AddItem(U, list[k]) \in WholeTables
      <3>1. list[k] \in Item
        BY <1>2
      <3>2. Whole(AddItem(U, list[k]))
        BY <3>1, AddFacts DEF WholeTables
      <3> QED
        BY <3>2 DEF WholeTables, Whole
    <2> QED
      BY <2>1
  <1>5. PICK w : Goes(w, n, WholeTables, T, G)
    <2>1. T \in WholeTables
      BY DEF WholeTables, Whole
    <2> HIDE DEF G
    <2> QED
      BY <1>4, <2>1, StepRecursion
  <1>6. /\ w[0] = T /\ w = [k \in 0 .. n |-> w[k]]
        /\ \A k \in 0 .. n : w[k] \in WholeTables
        /\ \A k \in 1 .. n : k - 1 \in 0 .. n /\ k \in 0 .. n
    BY <1>5 DEF Goes
  <1>7. \A k \in 1 .. n : w[k] = AddItem(w[k - 1], list[k])
    BY <1>5, <1>6 DEF Goes
  <1>8. \A k \in 0 .. n : w[k] = Step(w, k)
    <2>1. \A k \in 0 .. n : k = 0 \/ k \in 1 .. n
      OBVIOUS
    <2> QED
      BY <1>6, <1>7, <2>1
  <1>9. added = [k \in 0 .. n |-> Step(added, k)]
    <2>1. w = [k \in 0 .. n |-> Step(w, k)]
      <3> HIDE DEF Step
      <3> QED
        BY <1>6, <1>8
    <2> HIDE DEF Step
    <2> QED
      BY <2>1
  <1>10. GoAlike(added, w, n)
    <2>1. \A k \in 0 .. n : added[k] = Step(added, k)
      <3> HIDE DEF Step, added
      <3> QED
        BY <1>9
    <2>2. 0 \in 0 .. n /\ \A k \in 1 .. n : k # 0
      OBVIOUS
    <2> HIDE DEF added
    <2> QED
      BY <1>6, <1>7, <2>1, <2>2 DEF GoAlike
  <1>11. added[n] = w[n]
    <2>1. n \in 0 .. n
      OBVIOUS
    <2> HIDE DEF added
    <2> QED
      BY <1>10, <2>1, Alike
  <1>12. Adds(w, T, list)
    BY <1>2, <1>6, <1>7 DEF Adds, WholeTables
  <1> HIDE DEF added
  <1> QED
    BY <1>1, <1>2, <1>3, <1>11, <1>12

LEMMA RemoveGraphDefRemoves ==
  ASSUME NEW T, Whole(T), NEW d \in Item
  PROVE  \E w : Removes(w, T, VariantsOf[d] \o <<d>>) /\ RemoveGraphDef(T, d) = w[Len(VariantsOf[d] \o <<d>>)]
  <1>1. PICK list \in Seq(Item) : list = VariantsOf[d] \o <<d>>
    BY FamilyFacts
  <1>2. PICK n \in Nat : n = Len(list)
    OBVIOUS
  <1> DEFINE Step(f, k) == IF k = 0 THEN T ELSE RemoveItem(f[k - 1], list[k])
             removed == CHOOSE f : f = [k \in 0 .. n |-> Step(f, k)]
             G == [k \in 1 .. n |-> [U \in WholeTables |-> RemoveItem(U, list[k])]]
  <1>3. RemoveGraphDef(T, d) = removed[n]
    BY <1>1, <1>2 DEF RemoveGraphDef
  <1>4. G \in [1 .. n -> [WholeTables -> WholeTables]]
    <2>1. ASSUME NEW k \in 1 .. n, NEW U \in WholeTables PROVE RemoveItem(U, list[k]) \in WholeTables
      <3>1. list[k] \in Item
        BY <1>2
      <3>2. Whole(RemoveItem(U, list[k]))
        BY <3>1, RemoveFacts DEF WholeTables
      <3> QED
        BY <3>2 DEF WholeTables, Whole
    <2> QED
      BY <2>1
  <1>5. PICK w : Goes(w, n, WholeTables, T, G)
    <2>1. T \in WholeTables
      BY DEF WholeTables, Whole
    <2> HIDE DEF G
    <2> QED
      BY <1>4, <2>1, StepRecursion
  <1>6. /\ w[0] = T /\ w = [k \in 0 .. n |-> w[k]]
        /\ \A k \in 0 .. n : w[k] \in WholeTables
        /\ \A k \in 1 .. n : k - 1 \in 0 .. n /\ k \in 0 .. n
    BY <1>5 DEF Goes
  <1>7. \A k \in 1 .. n : w[k] = RemoveItem(w[k - 1], list[k])
    BY <1>5, <1>6 DEF Goes
  <1>8. \A k \in 0 .. n : w[k] = Step(w, k)
    <2>1. \A k \in 0 .. n : k = 0 \/ k \in 1 .. n
      OBVIOUS
    <2> QED
      BY <1>6, <1>7, <2>1
  <1>9. removed = [k \in 0 .. n |-> Step(removed, k)]
    <2>1. w = [k \in 0 .. n |-> Step(w, k)]
      <3> HIDE DEF Step
      <3> QED
        BY <1>6, <1>8
    <2> HIDE DEF Step
    <2> QED
      BY <2>1
  <1>10. GoAlike(removed, w, n)
    <2>1. \A k \in 0 .. n : removed[k] = Step(removed, k)
      <3> HIDE DEF Step, removed
      <3> QED
        BY <1>9
    <2>2. 0 \in 0 .. n /\ \A k \in 1 .. n : k # 0
      OBVIOUS
    <2> HIDE DEF removed
    <2> QED
      BY <1>6, <1>7, <2>1, <2>2 DEF GoAlike
  <1>11. removed[n] = w[n]
    <2>1. n \in 0 .. n
      OBVIOUS
    <2> HIDE DEF removed
    <2> QED
      BY <1>10, <2>1, Alike
  <1>12. Removes(w, T, list)
    BY <1>2, <1>6, <1>7 DEF Removes, WholeTables
  <1> HIDE DEF removed
  <1> QED
    BY <1>1, <1>2, <1>3, <1>11, <1>12
\* A full table stays as it is; otherwise a definition with a new name is in it.
LEMMA AddGraphFacts ==
  ASSUME NEW T, Whole(T), NEW d \in Item
  PROVE  /\ Whole(AddGraphDef(T, d))
         /\ Kept(T) \subseteq Kept(AddGraphDef(T, d))
         /\ Kept(AddGraphDef(T, d)) \subseteq Kept(T) \union Family(d)
         /\ ~Named(T, d) => \/ Kept(AddGraphDef(T, d)) = Kept(T)
                            \/ d \in Kept(AddGraphDef(T, d))
  <1>1. PICK list : list = <<d>> \o VariantsOf[d]
    OBVIOUS
  <1>2. PICK n \in Nat : n = Len(VariantsOf[d]) + 1 /\ n = Len(list) /\ n >= 1
    BY <1>1, FamilyFacts
  <1>3. /\ n \in Nat /\ n >= 1 /\ list[1] = d
        /\ \A k \in 1 .. n : list[k] \in Family(d) /\ list[k] \in Item
    <2>1. \A k \in 1 .. n : list[k] \in Item
      <3>1. list \in Seq(Item)
        BY <1>1, FamilyFacts
      <3> QED
        BY <1>2, <3>1
    <2>2. \A k \in 1 .. n : list[k] \in Family(d)
      <3>1. \A x : x \in Family(d) <=> \E k \in 1 .. Len(VariantsOf[d]) + 1 : x = (<<d>> \o VariantsOf[d])[k]
        BY FamilyFacts
      <3> QED
        BY <1>1, <1>2, <3>1, Zenon
    <2>3. list[1] = d
      BY <1>1, FamilyFacts
    <2> QED
      BY <1>2, <2>1, <2>2, <2>3
  <1>4. PICK w : Adds(w, T, list) /\ AddGraphDef(T, d) = w[n]
    BY <1>1, <1>2, AddGraphDefAdds
  <1>5. /\ w[0] = T /\ \A k \in 0 .. n : Whole(w[k])
        /\ \A k \in 1 .. n : w[k] = AddItem(w[k - 1], list[k])
    BY <1>2, <1>4 DEF Adds
  <1> DEFINE Claim(k) == /\ Kept(T) \subseteq Kept(w[k])
                         /\ Kept(w[k]) \subseteq Kept(T) \union Family(d)
                         /\ Full(T) => w[k] = T
                         /\ k >= 1 /\ ~Full(T) /\ ~Named(T, d) => d \in Kept(w[k])
             B == {k \in 0 .. n : Claim(k)}
  <1>6. 0 \in B
    BY <1>3, <1>5
  <1>7. ASSUME NEW k \in 1 .. n, Claim(k - 1) PROVE Claim(k)
    <2>1. Whole(w[k - 1]) /\ list[k] \in Item /\ w[k] = AddItem(w[k - 1], list[k]) /\ list[k] \in Family(d)
      <3>1. k - 1 \in 0 .. n
        BY <1>2
      <3> QED
        BY <1>3, <1>5, <3>1
    <2>2. \/ w[k] = w[k - 1] /\ (Full(w[k - 1]) \/ Named(w[k - 1], list[k]))
          \/ Kept(w[k]) = Kept(w[k - 1]) \union {list[k]} /\ ~Full(w[k - 1])
      BY <2>1, AddFacts
    <2>3. Kept(w[k - 1]) \subseteq Kept(w[k]) /\ Kept(w[k]) \subseteq Kept(w[k - 1]) \union {list[k]}
      BY <2>2
    <2>4. Full(T) => w[k] = T
      <3>1. Full(T) => w[k - 1] = T
        BY <1>7
      <3> QED
        BY <2>1, <3>1, AddFacts
    <2>5. ASSUME ~Full(T), ~Named(T, d) PROVE d \in Kept(w[k])
      <3>1. CASE k = 1
        <4>1. w[k - 1] = T /\ list[k] = d
          BY <1>3, <1>5, <3>1
        <4> QED
          BY <2>2, <2>5, <4>1
      <3>2. CASE k # 1
        <4>1. k - 1 >= 1
          BY <3>2
        <4> QED
          BY <1>7, <2>3, <2>5, <4>1
      <3> QED
        BY <3>1, <3>2
    <2> QED
      BY <1>7, <2>1, <2>3, <2>4, <2>5
  <1>8. n \in B
    <2>1. \A k \in 1 .. n : k - 1 \in B => k \in B
      BY <1>7
    <2>2. 0 .. n \subseteq B
      <3> HIDE DEF B
      <3> QED
        BY <1>3, <1>6, <2>1, UpTo
    <2> QED
      BY <1>3, <2>2
  <1>9. Whole(w[n])
    BY <1>3, <1>5
  <1> QED
    BY <1>3, <1>4, <1>8, <1>9

LEMMA RemoveGraphFacts ==
  ASSUME NEW T, Whole(T), NEW d \in Item
  PROVE  /\ Whole(RemoveGraphDef(T, d))
         /\ Kept(RemoveGraphDef(T, d)) = Kept(T) \ Family(d)
  <1>1. PICK list : list = VariantsOf[d] \o <<d>>
    OBVIOUS
  <1>2. PICK n \in Nat : n = Len(VariantsOf[d]) + 1 /\ n = Len(list) /\ n >= 1
    BY <1>1, FamilyFacts
  <1>3. /\ n \in Nat /\ \A k \in 1 .. n : list[k] \in Item
        /\ \A x : x \in Family(d) <=> \E k \in 1 .. n : x = list[k]
    <2>1. \A k \in 1 .. n : list[k] \in Item
      <3>1. list \in Seq(Item)
        BY <1>1, FamilyFacts
      <3> QED
        BY <1>2, <3>1
    <2>2. \A x : x \in Family(d) <=> \E k \in 1 .. n : x = list[k]
      <3>1. \A x : x \in Family(d) <=> \E k \in 1 .. Len(VariantsOf[d]) + 1 : x = (VariantsOf[d] \o <<d>>)[k]
        BY FamilyFacts
      <3> QED
        BY <1>1, <1>2, <3>1, Zenon
    <2> QED
      BY <1>2, <2>1, <2>2
  <1>4. PICK w : Removes(w, T, list) /\ RemoveGraphDef(T, d) = w[n]
    BY <1>1, <1>2, RemoveGraphDefRemoves
  <1>5. /\ w[0] = T /\ \A k \in 0 .. n : Whole(w[k])
        /\ \A k \in 1 .. n : w[k] = RemoveItem(w[k - 1], list[k])
    BY <1>2, <1>4 DEF Removes
  <1> DEFINE Claim(k) == Kept(w[k]) = {x \in Kept(T) : \A m \in 1 .. k : x # list[m]}
             B == {k \in 0 .. n : Claim(k)}
  <1>6. 0 \in B
    BY <1>3, <1>5
  <1>7. ASSUME NEW k \in 1 .. n, Claim(k - 1) PROVE Claim(k)
    <2>1. Kept(w[k]) = Kept(w[k - 1]) \ {list[k]}
      <3>1. k - 1 \in 0 .. n
        BY <1>2
      <3> QED
        BY <1>3, <1>5, <3>1, RemoveFacts
    <2>2. \A m : m \in 1 .. k <=> m \in 1 .. k - 1 \/ m = k
      OBVIOUS
    <2> QED
      BY <1>7, <2>1, <2>2
  <1>8. Claim(n)
    <2>1. \A k \in 1 .. n : k - 1 \in B => k \in B
      BY <1>7
    <2>2. 0 .. n \subseteq B
      <3> HIDE DEF B
      <3> QED
        BY <1>3, <1>6, <2>1, UpTo
    <2>3. n \in 0 .. n
      BY <1>2
    <2>4. n \in B
      <3> HIDE DEF B
      <3> QED
        BY <2>2, <2>3
    <2> QED
      BY <2>4
  <1>9. Whole(w[n])
    BY <1>3, <1>5
  <1> QED
    BY <1>3, <1>4, <1>8, <1>9
-----------------------------------------------------------------------------
(***************************************************************************)
(* No definition is freed while it can be reached.  The count is that of   *)
(* the synths and, as long as it is in the library, one more; so what is   *)
(* to be freed is not there and does not play.  A variant lies in the      *)
(* memory of its definition: it is in the library only together with it,   *)
(* and what waits to be freed names a variant before its definition.       *)
(***************************************************************************)

\* Who is in the queue is alive and given up, and is in it once.
Leaving(q, refsNow, L) ==
  /\ q \in Seq(Item) /\ IsInjective(q)
  /\ \A i \in DOMAIN q : OriginalOf(q[i]) \in L /\ refsNow[q[i]] = 0
  /\ \A i, j \in DOMAIN q : OriginalOf(q[i]) = q[j] => i <= j

Sane(s, L, P) ==
  /\ s = [lib |-> s.lib, refs |-> s.refs, deletes |-> s.deletes]
  /\ Whole(s.lib) /\ s.refs \in [Item -> Nat]
  /\ \A d \in Item : s.refs[d] >= P[d] /\ (d \in Kept(s.lib) => s.refs[d] >= P[d] + 1)
  /\ \A d \in Kept(s.lib) : OriginalOf(d) \in L /\ OriginalOf(d) \in Kept(s.lib)
  /\ Leaving(s.deletes, s.refs, L)

Players(L, P) ==
  /\ L \subseteq Original /\ P \in [Item -> Nat]
  /\ \A d \in Item : P[d] > 0 => d \in L

IInv == Sane(Now, live, playing) /\ Players(live, playing)

LEMMA OriginalFacts ==
  /\ \A d \in Item : OriginalOf(d) \in Original /\ d \in Family(OriginalOf(d))
  /\ \A o \in Original : \A d \in Family(o) : OriginalOf(d) = o
  /\ \A d \in Item \ Original : Family(d) = {d}
  /\ \A d \in Item : d \in Family(d) /\ Family(d) \subseteq Item
  /\ Original \subseteq Item
  <1>1. Original \subseteq Item
    BY DEF Original
  <1>2. ASSUME NEW d \in Item PROVE d \in Family(d) /\ Family(d) \subseteq Item
    <2>1. ToSet(VariantsOf[d]) \subseteq Item
      BY DefAssumption DEF ToSet
    <2> QED
      BY <2>1 DEF Family
  <1>3. \A d \in Item \ Original : Family(d) = {d}
    <2>1. \A d \in Item \ Original : ToSet(VariantsOf[d]) = {}
      BY DefAssumption DEF ToSet
    <2> QED
      BY <2>1 DEF Family
  <1>4. ASSUME NEW d \in Item
        PROVE  /\ OriginalOf(d) \in Original /\ d \in Family(OriginalOf(d))
               /\ \A o \in Original : d \in Family(o) => OriginalOf(d) = o
    <2>1. \E o \in Original : d = o \/ d \in ToSet(VariantsOf[o])
      BY DefAssumption
    <2>2. OriginalOf(d) \in Original /\ (d = OriginalOf(d) \/ d \in ToSet(VariantsOf[OriginalOf(d)]))
      BY <2>1 DEF OriginalOf
    <2>3. \A o \in Original : o \notin ToSet(VariantsOf[d]) /\ (d \in ToSet(VariantsOf[o]) => d \notin Original)
      BY <1>1 DEF Original
    <2>4. ASSUME NEW o \in Original, d \in Family(o) PROVE OriginalOf(d) = o
      <3>1. d = o \/ d \in ToSet(VariantsOf[o])
        BY <2>4 DEF Family
      <3>2. CASE d = o
        BY <2>2, <2>3, <3>2
      <3>3. CASE d \in ToSet(VariantsOf[o])
        <4>1. d # OriginalOf(d)
          BY <2>2, <2>3, <3>3
        <4>2. d \in ToSet(VariantsOf[OriginalOf(d)])
          BY <2>2, <4>1
        <4> QED
          BY <1>1, <2>2, <3>3, <4>2, DefAssumption
      <3> QED
        BY <3>1, <3>2, <3>3
    <2> QED
      BY <2>2, <2>4 DEF Family
  <1>5. \A o \in Original : \A d \in Family(o) : OriginalOf(d) = o
    BY <1>1, <1>2, <1>4
  <1> QED
    BY <1>1, <1>2, <1>3, <1>4, <1>5

\* What a message to delete adds to the queue.
LEMMA DeleteMsgFacts ==
  ASSUME NEW q \in Seq(Item), NEW d \in Item
  PROVE  /\ DeleteMsg(q, d) \in Seq(Item)
         /\ \/ DeleteMsg(q, d) = q
            \/ /\ DOMAIN q = 1 .. Len(q) /\ Len(q) \in Nat
               /\ DOMAIN DeleteMsg(q, d) = 1 .. Len(q) + 1
               /\ \A i \in 1 .. Len(q) : DeleteMsg(q, d)[i] = q[i]
               /\ DeleteMsg(q, d)[Len(q) + 1] = d
  BY DEF DeleteMsg

LEMMA LeavesToo ==
  ASSUME NEW q, NEW r, NEW L, Leaving(q, r, L), NEW d \in Item, r[d] # 0,
         OriginalOf(d) \in L, OriginalOf(d) # d => r[OriginalOf(d)] # 0,
         NEW new, \A x \in Item : x # d => new[x] = r[x]
  PROVE  new[d] = 0 => Leaving(DeleteMsg(q, d), new, L)
  <1> SUFFICES ASSUME new[d] = 0 PROVE Leaving(DeleteMsg(q, d), new, L)
    OBVIOUS
  <1>1. PICK p : p = DeleteMsg(q, d)
    OBVIOUS
  <1>2. /\ q \in Seq(Item) /\ IsInjective(q) /\ DOMAIN q = 1 .. Len(q) /\ Len(q) \in Nat
        /\ \A i \in DOMAIN q : q[i] \in Item /\ q[i] # d /\ q[i] # OriginalOf(d)
        /\ \A i \in DOMAIN q : OriginalOf(q[i]) \in L /\ r[q[i]] = 0
        /\ \A i, j \in DOMAIN q : OriginalOf(q[i]) = q[j] => i <= j
    BY DEF Leaving
  <1>3. \A i \in DOMAIN q : new[q[i]] = 0
    BY <1>2
  <1>4. CASE p = q
    BY <1>1, <1>2, <1>3, <1>4 DEF Leaving
  <1>5. CASE p # q
    <2>1. /\ p \in Seq(Item) /\ DOMAIN p = 1 .. Len(q) + 1
          /\ \A i \in 1 .. Len(q) : p[i] = q[i]
          /\ p[Len(q) + 1] = d
      <3>1. q \in Seq(Item) /\ DeleteMsg(q, d) # q
        BY <1>1, <1>2, <1>5
      <3> QED
        BY <1>1, <3>1, DeleteMsgFacts
    <2>2. \A i \in DOMAIN p : i \in DOMAIN q \/ i = Len(q) + 1
      BY <1>2, <2>1
    <2>3. IsInjective(p)
      BY <1>2, <2>1, <2>2 DEF IsInjective
    <2>4. \A i \in DOMAIN p : OriginalOf(p[i]) \in L /\ new[p[i]] = 0
      BY <1>2, <1>3, <2>1, <2>2
    <2>5. ASSUME NEW i \in DOMAIN p, NEW j \in DOMAIN p, OriginalOf(p[i]) = p[j] PROVE i <= j
      <3>1. CASE i \in DOMAIN q /\ j \in DOMAIN q
        BY <1>2, <2>1, <2>5, <3>1
      <3>2. CASE j = Len(q) + 1
        BY <1>2, <2>1, <3>2
      <3>3. CASE i = Len(q) + 1 /\ j \in DOMAIN q
        BY <1>2, <2>1, <2>5, <3>3
      <3> QED
        BY <2>2, <3>1, <3>2, <3>3
    <2> QED
      BY <1>1, <2>1, <2>3, <2>4, <2>5 DEF Leaving
  <1> QED
    BY <1>4, <1>5
\* What is in the library is not in the queue.
LEMMA KeptNotLeaving ==
  ASSUME NEW s, NEW L, NEW P, Sane(s, L, P), Players(L, P)
  PROVE  /\ Kept(s.lib) \subseteq Item
         /\ \A d \in Kept(s.lib) : s.refs[d] # 0 /\ s.refs[OriginalOf(d)] # 0
         /\ \A d \in Item : s.refs[d] \in Nat /\ P[d] \in Nat
  <1>1. Kept(s.lib) \subseteq Item
    BY WholeFacts DEF Sane
  <1>2. \A d \in Item : s.refs[d] \in Nat /\ P[d] \in Nat
    BY DEF Sane, Players
  <1>3. \A d \in Kept(s.lib) : s.refs[d] # 0
    BY <1>1, <1>2 DEF Sane
  <1> QED
    BY <1>1, <1>2, <1>3 DEF Sane

LEMMA DroppedFacts ==
  ASSUME NEW s, NEW L, NEW P, Sane(s, L, P), Players(L, P), NEW e \in Kept(s.lib)
  PROVE  /\ Sane(Dropped(s, e), L, P)
         /\ Kept(Dropped(s, e).lib) = Kept(s.lib) \ Family(e)
         /\ \A x \in Item : x # e => Dropped(s, e).refs[x] = s.refs[x]
  <1>1. PICK t : t = Dropped(s, e)
    OBVIOUS
  <1>2. /\ t.lib = RemoveGraphDef(s.lib, e)
        /\ t.refs = [s.refs EXCEPT ![e] = @ - 1]
        /\ t.deletes = IF s.refs[e] = 1 THEN DeleteMsg(s.deletes, e) ELSE s.deletes
    BY <1>1 DEF Dropped
  <1>3. /\ e \in Item /\ s.refs[e] # 0 /\ s.refs[OriginalOf(e)] # 0 /\ Kept(s.lib) \subseteq Item
        /\ \A d \in Item : s.refs[d] \in Nat /\ P[d] \in Nat
    BY KeptNotLeaving
  <1>2a. t = [lib |-> t.lib, refs |-> t.refs, deletes |-> t.deletes]
    BY <1>1 DEF Dropped
  <1>4. Whole(t.lib) /\ Kept(t.lib) = Kept(s.lib) \ Family(e)
    BY <1>2, <1>3, RemoveGraphFacts DEF Sane
  <1>5. /\ t.refs \in [Item -> Nat] /\ t.refs[e] = s.refs[e] - 1
        /\ \A x \in Item : x # e => t.refs[x] = s.refs[x]
    BY <1>2, <1>3 DEF Sane
  <1>6. e \in Family(e)
    BY <1>3, OriginalFacts
  <1>7. \A d \in Item : t.refs[d] >= P[d] /\ (d \in Kept(t.lib) => t.refs[d] >= P[d] + 1)
    <2>1. s.refs[e] >= P[e] + 1
      BY <1>3 DEF Sane
    <2>2. t.refs[e] >= P[e]
      BY <1>3, <1>5, <2>1
    <2>3. e \notin Kept(t.lib)
      BY <1>4, <1>6
    <2> QED
      BY <1>4, <1>5, <2>2, <2>3 DEF Sane
  <1>8. ASSUME NEW d \in Kept(t.lib) PROVE OriginalOf(d) \in L /\ OriginalOf(d) \in Kept(t.lib)
    <2>1. d \in Kept(s.lib) /\ d \notin Family(e) /\ d \in Item
      BY <1>3, <1>4
    <2>2. OriginalOf(d) \in L /\ OriginalOf(d) \in Kept(s.lib)
      BY <2>1 DEF Sane
    <2>3. OriginalOf(d) \notin Family(e)
      <3>1. OriginalOf(d) \in Original /\ d \in Family(OriginalOf(d))
        BY <2>1, OriginalFacts
      <3>2. CASE e \in Original
        <4>1. OriginalOf(d) \in Family(e) => OriginalOf(OriginalOf(d)) = e
          BY <3>2, OriginalFacts
        <4>2. OriginalOf(d) \in Family(OriginalOf(d)) /\ OriginalOf(OriginalOf(d)) = OriginalOf(d)
          BY <3>1, OriginalFacts
        <4> QED
          BY <2>1, <3>1, <4>1, <4>2
      <3>3. CASE e \notin Original
        <4>1. Family(e) = {e}
          BY <1>3, <3>3, OriginalFacts
        <4> QED
          BY <3>1, <3>3, <4>1
      <3> QED
        BY <3>2, <3>3
    <2> QED
      BY <1>4, <2>2, <2>3
  <1>9. Leaving(t.deletes, t.refs, L)
    <2>1. Leaving(s.deletes, s.refs, L)
      BY DEF Sane
    <2>2. CASE s.refs[e] = 1
      <3>1. t.deletes = DeleteMsg(s.deletes, e) /\ t.refs[e] = 0
        BY <1>2, <1>5, <2>2
      <3>2. OriginalOf(e) \in L
        BY DEF Sane
      <3> QED
        BY <1>3, <1>5, <2>1, <3>1, <3>2, LeavesToo
    <2>3. CASE s.refs[e] # 1
      <3>1. t.deletes = s.deletes
        BY <1>2, <2>3
      <3>2. \A i \in DOMAIN s.deletes : s.deletes[i] \in Item /\ s.refs[s.deletes[i]] = 0
        BY <2>1 DEF Leaving
      <3>3. \A i \in DOMAIN s.deletes : t.refs[s.deletes[i]] = 0
        BY <1>3, <1>5, <3>2
      <3> QED
        BY <2>1, <3>1, <3>3 DEF Leaving
    <2> QED
      BY <2>2, <2>3
  <1> QED
    BY <1>1, <1>2a, <1>4, <1>5, <1>7, <1>8, <1>9 DEF Sane

\* Not entered yet: read, counted once, and in nobody's hands.
Unentered(s, P, d) ==
  /\ Family(d) \intersect Kept(s.lib) = {}
  /\ \A x \in Family(d) : s.refs[x] = 1 /\ P[x] = 0

LEMMA EnteredFacts ==
  ASSUME NEW s, NEW L, NEW P, Sane(s, L, P), Players(L, P),
         NEW d \in Original, d \in L, Unentered(s, P, d)
  PROVE  /\ Sane(Entered(s, d), L, P)
         /\ \A o \in Original : o # d /\ Unentered(s, P, o) => Unentered(Entered(s, d), P, o)
  <1>1. PICK previous : previous = Get(s.lib, KeyOf[d])
    OBVIOUS
  <1>2. PICK t : t = IF previous # Empty THEN Dropped(s, previous) ELSE s
    OBVIOUS
  <1>3. PICK u : u = Entered(s, d)
    OBVIOUS
  <1>4. u = [t EXCEPT !.lib = AddGraphDef(@, d)]
    BY <1>1, <1>2, <1>3 DEF Entered
  <1>5. d \in Item /\ KeyOf[d] \in Key /\ Whole(s.lib) /\ Original \subseteq Item
    BY TableAssumption, OriginalFacts DEF Sane
  <1>6. /\ previous = Empty \/ (previous \in Kept(s.lib) /\ KeyOf[previous] = KeyOf[d])
        /\ \A x \in Kept(s.lib) : KeyOf[x] = KeyOf[d] => previous = x
    BY <1>1, <1>5, GetFacts
  <1>7. /\ Sane(t, L, P) /\ Kept(t.lib) \subseteq Kept(s.lib)
        /\ previous # Empty => previous \notin Kept(t.lib)
        /\ \A x \in Item : x # previous \/ previous = Empty => t.refs[x] = s.refs[x]
    <2>1. CASE previous = Empty
      BY <1>2, <2>1
    <2>2. CASE previous # Empty
      <3>1. previous \in Kept(s.lib) /\ t = Dropped(s, previous)
        BY <1>2, <1>6, <2>2
      <3>2. previous \in Family(previous)
        BY <3>1, KeptNotLeaving, OriginalFacts
      <3> QED
        BY <2>2, <3>1, <3>2, DroppedFacts
    <2> QED
      BY <2>1, <2>2
  <1>8. ~Named(t.lib, d)
    <2>1. \A x \in Kept(s.lib) : x # Empty
      BY DEF Kept
    <2> QED
      BY <1>6, <1>7, <2>1 DEF Named
  <1>9. /\ u.lib = AddGraphDef(t.lib, d) /\ u.refs = t.refs /\ u.deletes = t.deletes
        /\ u = [lib |-> u.lib, refs |-> u.refs, deletes |-> u.deletes]
    <2>1. t = [lib |-> t.lib, refs |-> t.refs, deletes |-> t.deletes]
      BY <1>7 DEF Sane
    <2> QED
      BY <1>4, <2>1
  <1>10. /\ Whole(u.lib) /\ Kept(t.lib) \subseteq Kept(u.lib)
         /\ Kept(u.lib) \subseteq Kept(t.lib) \union Family(d)
         /\ Kept(u.lib) = Kept(t.lib) \/ d \in Kept(u.lib)
    <2>1. Whole(t.lib)
      BY <1>7 DEF Sane
    <2> QED
      BY <1>5, <1>8, <1>9, <2>1, AddGraphFacts
  <1>11. /\ d \in Family(d) /\ Family(d) \subseteq Item
         /\ \A x \in Family(d) : OriginalOf(x) = d /\ t.refs[x] = 1 /\ P[x] = 0
    <2>1. \A x \in Family(d) : x # previous \/ previous = Empty
      BY <1>6 DEF Unentered
    <2>2. d \in Family(d) /\ Family(d) \subseteq Item /\ \A x \in Family(d) : OriginalOf(x) = d
      BY <1>5, OriginalFacts
    <2> QED
      BY <1>7, <2>1, <2>2 DEF Unentered
  <1>12. \A x \in Item : u.refs[x] >= P[x] /\ (x \in Kept(u.lib) => u.refs[x] >= P[x] + 1)
    <2>1. \A x \in Item : t.refs[x] >= P[x] /\ (x \in Kept(t.lib) => t.refs[x] >= P[x] + 1)
      BY <1>7 DEF Sane
    <2>2. \A x \in Family(d) : t.refs[x] >= P[x] + 1
      BY <1>11
    <2> QED
      BY <1>9, <1>10, <2>1, <2>2
  <1>13. \A x \in Kept(u.lib) : OriginalOf(x) \in L /\ OriginalOf(x) \in Kept(u.lib)
    <2>1. \A x \in Kept(t.lib) : OriginalOf(x) \in L /\ OriginalOf(x) \in Kept(t.lib)
      BY <1>7 DEF Sane
    <2> QED
      BY <1>10, <1>11, <2>1
  <1>14. Sane(u, L, P)
    <2>1. Leaving(u.deletes, u.refs, L) /\ u.refs \in [Item -> Nat]
      BY <1>7, <1>9 DEF Sane
    <2> QED
      BY <1>9, <1>10, <1>12, <1>13, <2>1 DEF Sane
  <1>15. ASSUME NEW o \in Original, o # d, Unentered(s, P, o) PROVE Unentered(u, P, o)
    <2>1. \A x \in Family(o) : x \notin Kept(s.lib) /\ x \in Item /\ OriginalOf(x) = o
      BY <1>5, <1>15, OriginalFacts DEF Unentered
    <2>2. \A x \in Family(o) : x \notin Family(d) /\ x \notin Kept(u.lib)
      BY <1>7, <1>10, <1>11, <1>15, <2>1
    <2>3. \A x \in Family(o) : u.refs[x] = s.refs[x]
      BY <1>6, <1>7, <1>9, <2>1
    <2> QED
      BY <1>15, <2>2, <2>3 DEF Unentered
  <1> QED
    BY <1>3, <1>14, <1>15
-----------------------------------------------------------------------------
(* Definitions that arrive together. *)

States == [lib : WholeTables, refs : [Item -> Int], deletes : Seq(Item)]

LEMMA DroppedState ==
  ASSUME NEW s \in States, NEW d \in Item
  PROVE  Dropped(s, d) \in States
  <1>1. Whole(s.lib) /\ s.refs \in [Item -> Int] /\ s.deletes \in Seq(Item)
    BY DEF States, WholeTables
  <1>2. RemoveGraphDef(s.lib, d) \in WholeTables
    BY <1>1, RemoveGraphFacts DEF WholeTables, Whole
  <1>3. [s.refs EXCEPT ![d] = @ - 1] \in [Item -> Int]
    BY <1>1
  <1>4. DeleteMsg(s.deletes, d) \in Seq(Item)
    BY <1>1, DeleteMsgFacts
  <1> QED
    BY <1>1, <1>2, <1>3, <1>4 DEF Dropped, States

LEMMA EnteredState ==
  ASSUME NEW s \in States, NEW d \in Item
  PROVE  Entered(s, d) \in States
  <1>1. PICK previous : previous = Get(s.lib, KeyOf[d])
    OBVIOUS
  <1>2. PICK t : t = IF previous # Empty THEN Dropped(s, previous) ELSE s
    OBVIOUS
  <1>3. t \in States
    <2>1. Whole(s.lib) /\ KeyOf[d] \in Key
      BY TableAssumption DEF States, WholeTables
    <2>2. previous # Empty => previous \in Item
      BY <1>1, <2>1, GetFacts
    <2> QED
      BY <1>2, <2>2, DroppedState
  <1>4. AddGraphDef(t.lib, d) \in WholeTables
    <2>1. Whole(t.lib)
      BY <1>3 DEF States, WholeTables
    <2> QED
      BY <2>1, AddGraphFacts DEF WholeTables, Whole
  <1>5. Entered(s, d) = [t EXCEPT !.lib = AddGraphDef(@, d)]
    BY <1>1, <1>2 DEF Entered
  <1> QED
    BY <1>3, <1>4, <1>5 DEF States

\* w is the library after each of the definitions of the list has been entered.
Enters(w, s, list) ==
  /\ w[0] = s
  /\ \A k \in 0 .. Len(list) : w[k] \in States
  /\ \A k \in 1 .. Len(list) : w[k] = Entered(w[k - 1], list[k])

LEMMA EnteredAllEnters ==
  ASSUME NEW s \in States, NEW list \in Seq(Item)
  PROVE  \E w : Enters(w, s, list) /\ EnteredAll(s, list) = w[Len(list)]
  <1>1. PICK n \in Nat : n = Len(list)
    OBVIOUS
  <1> DEFINE Step(f, k) == IF k = 0 THEN s ELSE Entered(f[k - 1], list[k])
             after == CHOOSE f : f = [k \in 0 .. n |-> Step(f, k)]
             G == [k \in 1 .. n |-> [t \in States |-> Entered(t, list[k])]]
  <1>2. EnteredAll(s, list) = after[n]
    BY <1>1 DEF EnteredAll
  <1>3. G \in [1 .. n -> [States -> States]]
    <2>1. ASSUME NEW k \in 1 .. n, NEW t \in States PROVE Entered(t, list[k]) \in States
      <3>1. list[k] \in Item
        BY <1>1
      <3> QED
        BY <3>1, EnteredState
    <2> QED
      BY <2>1
  <1>4. PICK w : Goes(w, n, States, s, G)
    <2> HIDE DEF G
    <2> QED
      BY <1>3, StepRecursion
  <1>5. /\ w[0] = s /\ w = [k \in 0 .. n |-> w[k]]
        /\ \A k \in 0 .. n : w[k] \in States
        /\ \A k \in 1 .. n : k - 1 \in 0 .. n /\ k \in 0 .. n
    BY <1>4 DEF Goes
  <1>6. \A k \in 1 .. n : w[k] = Entered(w[k - 1], list[k])
    BY <1>4, <1>5 DEF Goes
  <1>7. \A k \in 0 .. n : w[k] = Step(w, k)
    <2>1. \A k \in 0 .. n : k = 0 \/ k \in 1 .. n
      OBVIOUS
    <2> QED
      BY <1>5, <1>6, <2>1
  <1>8. after = [k \in 0 .. n |-> Step(after, k)]
    <2>1. w = [k \in 0 .. n |-> Step(w, k)]
      <3> HIDE DEF Step
      <3> QED
        BY <1>5, <1>7
    <2> HIDE DEF Step
    <2> QED
      BY <2>1
  <1>9. GoAlike(after, w, n)
    <2>1. \A k \in 0 .. n : after[k] = Step(after, k)
      <3> HIDE DEF Step, after
      <3> QED
        BY <1>8
    <2>2. 0 \in 0 .. n /\ \A k \in 1 .. n : k # 0
      OBVIOUS
    <2> HIDE DEF after
    <2> QED
      BY <1>5, <1>6, <2>1, <2>2 DEF GoAlike
  <1>10. after[n] = w[n]
    <2>1. n \in 0 .. n
      OBVIOUS
    <2> HIDE DEF after
    <2> QED
      BY <1>9, <2>1, Alike
  <1>11. Enters(w, s, list)
    BY <1>1, <1>5, <1>6 DEF Enters
  <1> HIDE DEF after
  <1> QED
    BY <1>1, <1>2, <1>10, <1>11

LEMMA SaneState ==
  ASSUME NEW s, NEW L, NEW P, Sane(s, L, P)
  PROVE  s \in States
  <1>1. s = [lib |-> s.lib, refs |-> s.refs, deletes |-> s.deletes]
    BY DEF Sane
  <1>2. s.lib \in WholeTables /\ s.refs \in [Item -> Int] /\ s.deletes \in Seq(Item)
    BY DEF Sane, WholeTables, Whole, Leaving
  <1> QED
    BY <1>1, <1>2 DEF States

\* All of a list can be entered one after the other.
LEMMA EnteredAllSane ==
  ASSUME NEW s, NEW L, NEW P, Sane(s, L, P), Players(L, P),
         NEW list \in Seq(Original), IsInjective(list),
         \A k \in 1 .. Len(list) : list[k] \in L /\ Unentered(s, P, list[k])
  PROVE  Sane(EnteredAll(s, list), L, P)
  <1>1. PICK n \in Nat : n = Len(list) /\ DOMAIN list = 1 .. n
    OBVIOUS
  <1>2. list \in Seq(Item) /\ \A k \in 1 .. n : list[k] \in Original
    <2>1. \A k \in 1 .. n : list[k] \in Original
      BY <1>1
    <2> QED
      BY <1>1, <2>1, OriginalFacts
  <1>3. PICK w : Enters(w, s, list) /\ EnteredAll(s, list) = w[n]
    BY <1>1, <1>2, SaneState, EnteredAllEnters
  <1>4. w[0] = s /\ \A k \in 1 .. n : w[k] = Entered(w[k - 1], list[k])
    BY <1>1, <1>3 DEF Enters
  <1> DEFINE Claim(k) == /\ Sane(w[k], L, P)
                         /\ \A m \in 1 .. n : m > k => Unentered(w[k], P, list[m])
             B == {k \in 0 .. n : Claim(k)}
  <1>5. 0 \in B
    BY <1>1, <1>4
  <1>6. ASSUME NEW k \in 1 .. n, Claim(k - 1) PROVE Claim(k)
    <2>1. Sane(w[k - 1], L, P) /\ w[k] = Entered(w[k - 1], list[k]) /\ list[k] \in Original /\ list[k] \in L
      BY <1>1, <1>2, <1>4, <1>6
    <2>2. Unentered(w[k - 1], P, list[k])
      <3>1. k > k - 1
        OBVIOUS
      <3> QED
        BY <1>6, <3>1
    <2>3. /\ Sane(w[k], L, P)
          /\ \A o \in Original : o # list[k] /\ Unentered(w[k - 1], P, o) => Unentered(w[k], P, o)
      BY <2>1, <2>2, EnteredFacts
    <2>4. ASSUME NEW m \in 1 .. n, m > k PROVE Unentered(w[k], P, list[m])
      <3>1. m # k /\ m > k - 1
        BY <2>4
      <3>2. list[m] # list[k] /\ list[m] \in Original
        BY <1>1, <1>2, <3>1 DEF IsInjective
      <3>3. Unentered(w[k - 1], P, list[m])
        BY <1>6, <3>1
      <3> QED
        BY <2>3, <3>2, <3>3
    <2> QED
      BY <2>3, <2>4
  <1>7. n \in B
    <2>1. \A k \in 1 .. n : k - 1 \in B => k \in B
      BY <1>6
    <2>2. 0 .. n \subseteq B
      <3> HIDE DEF B
      <3> QED
        BY <1>5, <2>1, UpTo
    <2>3. n \in 0 .. n
      OBVIOUS
    <2> HIDE DEF B
    <2> QED
      BY <2>2, <2>3
  <1> QED
    BY <1>3, <1>7
-----------------------------------------------------------------------------
(* Every step keeps it. *)

LEMMA NowFacts ==
  ASSUME IInv
  PROVE  /\ Whole(lib) /\ refs \in [Item -> Nat] /\ Kept(lib) \subseteq Item
         /\ \A d \in Item : refs[d] >= playing[d] /\ (d \in Kept(lib) => refs[d] >= playing[d] + 1)
         /\ \A d \in Kept(lib) : OriginalOf(d) \in live /\ OriginalOf(d) \in Kept(lib)
         /\ Leaving(deletes, refs, live)
         /\ live \subseteq Original /\ playing \in [Item -> Nat]
         /\ \A d \in Item : playing[d] > 0 => d \in live
         /\ Now \in States
  <1>1. Now.lib = lib /\ Now.refs = refs /\ Now.deletes = deletes
    BY DEF Now
  <1>2. Sane(Now, live, playing) /\ Players(live, playing)
    BY DEF IInv
  <1>3. Kept(lib) \subseteq Item /\ Now \in States
    BY <1>1, <1>2, KeptNotLeaving, SaneState
  <1> QED
    BY <1>1, <1>2, <1>3 DEF Sane, Players

\* What one has to show of a step.
LEMMA NextIInv ==
  ASSUME /\ Whole(lib') /\ refs' \in [Item -> Nat]
         /\ \A d \in Item : refs'[d] >= playing'[d] /\ (d \in Kept(lib') => refs'[d] >= playing'[d] + 1)
         /\ \A d \in Kept(lib') : OriginalOf(d) \in live' /\ OriginalOf(d) \in Kept(lib')
         /\ Leaving(deletes', refs', live')
         /\ live' \subseteq Original /\ playing' \in [Item -> Nat]
         /\ \A d \in Item : playing'[d] > 0 => d \in live'
  PROVE  IInv'
  <1>1. Now' = [lib |-> lib', refs |-> refs', deletes |-> deletes']
    BY DEF Now
  <1>2. Now'.lib = lib' /\ Now'.refs = refs' /\ Now'.deletes = deletes'
    BY <1>1
  <1>3. Sane(Now', live', playing')
    BY <1>1, <1>2 DEF Sane
  <1>4. Players(live', playing')
    BY DEF Players
  <1> QED
    BY <1>3, <1>4 DEF IInv

LEMMA EmptyTableFacts == Whole(EmptyTable) /\ Kept(EmptyTable) = {}
  <1>1. EmptyTable.items = [i \in Slots |-> Empty] /\ EmptyTable.num = 0
    BY DEF EmptyTable
  <1>2. Kept(EmptyTable) = {}
    BY <1>1 DEF Kept
  <1>3. EmptyTable.items \in Arrays /\ Sound(EmptyTable.items)
    BY <1>1 DEF Arrays, Sound, KeysDiffer
  <1>4. EmptyTable \in Tables
    BY <1>1, <1>3 DEF Tables, EmptyTable
  <1>5. Cardinality(Kept(EmptyTable)) = 0
    BY <1>2, FS_EmptySet
  <1> QED
    BY <1>1, <1>2, <1>3, <1>4, <1>5, SizeFacts DEF Whole

LEMMA InitIInv == Init => IInv
  <1> SUFFICES ASSUME Init PROVE IInv
    OBVIOUS
  <1>1. Whole(lib) /\ Kept(lib) = {} /\ live = {} /\ deletes = << >>
        /\ refs = [d \in Item |-> 0] /\ playing = [d \in Item |-> 0]
    BY EmptyTableFacts DEF Init
  <1>2. Leaving(deletes, refs, live)
    <2>1. << >> \in Seq(Item) /\ DOMAIN << >> = {}
      OBVIOUS
    <2>2. IsInjective(<< >>)
      BY <2>1 DEF IsInjective
    <2> QED
      BY <1>1, <2>1, <2>2 DEF Leaving
  <1>3. Now = [lib |-> lib, refs |-> refs, deletes |-> deletes]
        /\ Now.lib = lib /\ Now.refs = refs /\ Now.deletes = deletes
    BY DEF Now
  <1>4. Sane(Now, live, playing)
    BY <1>1, <1>2, <1>3 DEF Sane
  <1>5. Players(live, playing)
    BY <1>1 DEF Players
  <1> QED
    BY <1>4, <1>5 DEF IInv

LEMMA DefineKeeps ==
  ASSUME IInv, NEW list \in Lists, Define(list)
  PROVE  IInv'
  <1> DEFINE L == live \union ToSet(list)
             new == UNION {Family(d) : d \in ToSet(list)}
             counted == [d \in Item |-> IF d \in new THEN 1 ELSE refs[d]]
  <1>1. /\ Whole(lib) /\ refs \in [Item -> Nat] /\ Kept(lib) \subseteq Item
        /\ \A d \in Item : refs[d] >= playing[d] /\ (d \in Kept(lib) => refs[d] >= playing[d] + 1)
        /\ \A d \in Kept(lib) : OriginalOf(d) \in live /\ OriginalOf(d) \in Kept(lib)
        /\ Leaving(deletes, refs, live)
        /\ live \subseteq Original /\ playing \in [Item -> Nat]
        /\ \A d \in Item : playing[d] > 0 => d \in live
    BY NowFacts
  <1>2. /\ list \in Seq(Original) /\ IsInjective(list)
        /\ ToSet(list) \intersect live = {} /\ live' = L /\ playing' = playing
    BY DefAssumption DEF Define
  <1>3. PICK s : s = [Now EXCEPT !.refs = counted]
    OBVIOUS
  <1>4. s = [lib |-> lib, refs |-> counted, deletes |-> deletes]
        /\ s.lib = lib /\ s.refs = counted /\ s.deletes = deletes
    BY <1>3 DEF Now
  <1>5. Becomes(EnteredAll(s, list))
    BY <1>3 DEF Define
  <1>6. ToSet(list) \subseteq Original /\ \A k \in 1 .. Len(list) : list[k] \in ToSet(list)
    BY <1>2 DEF ToSet
  <1>7. \A d \in Item : d \in new <=> OriginalOf(d) \in ToSet(list)
    BY <1>6, OriginalFacts
  <1>8. \A d \in Item : d \in new => OriginalOf(d) \notin live
    BY <1>2, <1>7
  <1>9. \A d \in Item : d \in new => d \notin Kept(lib) /\ playing[d] = 0
    <2>1. ASSUME NEW d \in Item, d \in new PROVE d \notin Kept(lib) /\ playing[d] = 0
      <3>1. d \notin live
        <4>1. d \in live => d \in Original /\ d \in Family(d)
          BY <1>1, OriginalFacts
        <4>2. d \in live => OriginalOf(d) = d
          BY <4>1, OriginalFacts
        <4> QED
          BY <1>8, <2>1, <4>2
      <3>2. playing[d] \in Nat
        BY <1>1
      <3> QED
        BY <1>1, <1>8, <2>1, <3>1, <3>2
    <2> QED
      BY <2>1
  <1>10. counted \in [Item -> Nat] /\ \A d \in Item : counted[d] = IF d \in new THEN 1 ELSE refs[d]
    BY <1>1
  <1>11. Leaving(deletes, counted, L)
    <2>1. /\ deletes \in Seq(Item) /\ IsInjective(deletes)
          /\ \A i \in DOMAIN deletes : deletes[i] \in Item
          /\ \A i \in DOMAIN deletes : OriginalOf(deletes[i]) \in live /\ refs[deletes[i]] = 0
          /\ \A i, j \in DOMAIN deletes : OriginalOf(deletes[i]) = deletes[j] => i <= j
      BY <1>1 DEF Leaving
    <2>2. \A i \in DOMAIN deletes : counted[deletes[i]] = 0 /\ OriginalOf(deletes[i]) \in L
      BY <1>8, <1>10, <2>1
    <2> HIDE DEF counted, L, new
    <2> QED
      BY <2>1, <2>2 DEF Leaving
  <1>12. \A d \in Item : counted[d] >= playing[d] /\ (d \in Kept(lib) => counted[d] >= playing[d] + 1)
    BY <1>1, <1>9, <1>10
  <1>13. \A d \in Kept(lib) : OriginalOf(d) \in L /\ OriginalOf(d) \in Kept(lib)
    BY <1>1
  <1> HIDE DEF counted
  <1>14. Sane(s, L, playing)
    <2> HIDE DEF L, new
    <2> QED
      BY <1>1, <1>4, <1>10, <1>11, <1>12, <1>13 DEF Sane
  <1>15. Players(L, playing)
    BY <1>1, <1>6 DEF Players
  <1>16. ASSUME NEW k \in 1 .. Len(list) PROVE list[k] \in L /\ Unentered(s, playing, list[k])
    <2>1. list[k] \in ToSet(list) /\ list[k] \in Item
      BY <1>6, OriginalFacts
    <2>2. \A x \in Family(list[k]) : x \in new /\ x \in Item
      BY <2>1, OriginalFacts
    <2> HIDE DEF new
    <2> QED
      BY <1>4, <1>9, <1>10, <2>1, <2>2 DEF Unentered
  <1>17. PICK u : u = EnteredAll(s, list)
    OBVIOUS
  <1>18. Sane(u, L, playing)
    <2> HIDE DEF L, new
    <2> QED
      BY <1>2, <1>14, <1>15, <1>16, <1>17, EnteredAllSane
  <1>19. lib' = u.lib /\ refs' = u.refs /\ deletes' = u.deletes
    BY <1>5, <1>17 DEF Becomes
  <1>20. Now' = u
    <2>1. u = [lib |-> u.lib, refs |-> u.refs, deletes |-> u.deletes]
      BY <1>18 DEF Sane
    <2>2. Now' = [lib |-> lib', refs |-> refs', deletes |-> deletes']
      BY DEF Now
    <2> QED
      BY <1>19, <2>1, <2>2
  <1> HIDE DEF L, new
  <1> QED
    BY <1>2, <1>15, <1>18, <1>20 DEF IInv
LEMMA FreeKeeps ==
  ASSUME IInv, NEW n \in Key, Free(n)
  PROVE  IInv'
  <1>1. PICK e : e = Get(lib, n) /\ e \in Kept(lib)
    <2>1. Get(lib, n) # Empty /\ Whole(lib)
      BY NowFacts DEF Free
    <2> QED
      BY <2>1, GetFacts
  <1>2. PICK u : u = Dropped(Now, e)
    OBVIOUS
  <1>3. lib' = u.lib /\ refs' = u.refs /\ deletes' = u.deletes /\ live' = live /\ playing' = playing
    BY <1>1, <1>2 DEF Free, Becomes
  <1>4. Sane(Now, live, playing) /\ Players(live, playing) /\ e \in Kept(Now.lib)
    BY <1>1 DEF IInv, Now
  <1>5. Sane(u, live, playing)
    BY <1>2, <1>4, DroppedFacts
  <1>6. Now' = u
    <2>1. u = [lib |-> u.lib, refs |-> u.refs, deletes |-> u.deletes]
      BY <1>5 DEF Sane
    <2>2. Now' = [lib |-> lib', refs |-> refs', deletes |-> deletes']
      BY DEF Now
    <2> QED
      BY <1>3, <2>1, <2>2
  <1> QED
    BY <1>3, <1>4, <1>5, <1>6 DEF IInv

LEMMA FreeAllKeeps ==
  ASSUME IInv, Careful, FreeAll
  PROVE  IInv'
  <1>1. /\ Whole(lib) /\ refs \in [Item -> Nat] /\ Kept(lib) \subseteq Item
        /\ \A d \in Item : refs[d] >= playing[d]
        /\ Leaving(deletes, refs, live)
        /\ live \subseteq Original /\ playing \in [Item -> Nat]
        /\ \A d \in Item : playing[d] > 0 => d \in live
        /\ \A d \in Kept(lib) : refs[d] >= playing[d] + 1
    BY NowFacts
  <1>2. /\ live' = live \ Kept(lib) /\ lib' = EmptyTable
        /\ refs' = refs /\ playing' = playing /\ deletes' = deletes
        /\ \A d \in Kept(lib) : playing[d] = 0
        /\ \A i \in DOMAIN deletes : deletes[i] \in Original
    BY DEF FreeAll, FreeAllMakesSense
  <1>3. Whole(lib') /\ Kept(lib') = {}
    BY <1>2, EmptyTableFacts
  <1>4. Leaving(deletes, refs, live')
    <2>1. \A i \in DOMAIN deletes :
            deletes[i] \in Item /\ OriginalOf(deletes[i]) \in live /\ refs[deletes[i]] = 0
      BY <1>1 DEF Leaving
    <2>2. ASSUME NEW i \in DOMAIN deletes PROVE OriginalOf(deletes[i]) \in live'
      <3>1. OriginalOf(deletes[i]) = deletes[i]
        BY <1>2, OriginalFacts
      <3>2. deletes[i] \notin Kept(lib)
        <4>1. refs[deletes[i]] = 0 /\ playing[deletes[i]] \in Nat
          BY <1>1, <2>1
        <4> QED
          BY <1>1, <4>1
      <3> QED
        BY <1>2, <2>1, <3>1, <3>2
    <2> QED
      BY <1>1, <2>2 DEF Leaving
  <1>5. \A d \in Item : playing[d] > 0 => d \in live'
    BY <1>1, <1>2
  <1>6. live' \subseteq Original
    BY <1>1, <1>2
  <1> QED
    BY <1>1, <1>2, <1>3, <1>4, <1>5, <1>6, NextIInv

\* While a definition is counted it is not in the queue.
LEMMA LeavingOthers ==
  ASSUME NEW q, NEW r, NEW L, Leaving(q, r, L), NEW new, \A x \in Item : r[x] = 0 => new[x] = 0
  PROVE  Leaving(q, new, L)
  <1>1. \A i \in DOMAIN q : q[i] \in Item
    BY DEF Leaving
  <1> QED
    BY <1>1 DEF Leaving

LEMMA SNewKeeps ==
  ASSUME IInv, Careful, NEW n \in Key, SNew(n)
  PROVE  IInv'
  <1>1. /\ Whole(lib) /\ refs \in [Item -> Nat] /\ Kept(lib) \subseteq Item
        /\ \A d \in Item : refs[d] >= playing[d] /\ (d \in Kept(lib) => refs[d] >= playing[d] + 1)
        /\ \A d \in Kept(lib) : OriginalOf(d) \in live /\ OriginalOf(d) \in Kept(lib)
        /\ Leaving(deletes, refs, live)
        /\ live \subseteq Original /\ playing \in [Item -> Nat]
        /\ \A d \in Item : playing[d] > 0 => d \in live
    BY NowFacts
  <1>2. PICK d : d = Get(lib, n)
    OBVIOUS
  <1>3. /\ d # Empty /\ d \in Original
        /\ playing' = [playing EXCEPT ![d] = @ + 1] /\ refs' = [refs EXCEPT ![d] = @ + 1]
        /\ lib' = lib /\ live' = live /\ deletes' = deletes
    BY <1>2 DEF SNew
  <1>4. d \in Kept(lib) /\ d \in Item
    BY <1>1, <1>2, <1>3, GetFacts
  <1>5. d \in live
    BY <1>1, <1>3, <1>4, OriginalFacts
  <1>6. /\ refs' \in [Item -> Nat] /\ playing' \in [Item -> Nat]
        /\ refs'[d] = refs[d] + 1 /\ playing'[d] = playing[d] + 1
        /\ \A x \in Item : x # d => refs'[x] = refs[x] /\ playing'[x] = playing[x]
        /\ \A x \in Item : refs[x] \in Nat /\ playing[x] \in Nat
    BY <1>1, <1>3, <1>4
  <1>7. refs[d] # 0
    BY <1>1, <1>4, <1>6
  <1>8. Leaving(deletes, refs', live)
    <2>1. \A x \in Item : refs[x] = 0 => refs'[x] = 0
      BY <1>6, <1>7
    <2> QED
      BY <1>1, <2>1, LeavingOthers
  <1>9. \A x \in Item : refs'[x] >= playing'[x] /\ (x \in Kept(lib) => refs'[x] >= playing'[x] + 1)
    <2>1. refs'[d] >= playing'[d] /\ refs'[d] >= playing'[d] + 1
      BY <1>1, <1>4, <1>6
    <2> QED
      BY <1>1, <1>6, <2>1
  <1>10. \A x \in Item : playing'[x] > 0 => x \in live
    BY <1>1, <1>5, <1>6
  <1> QED
    BY <1>1, <1>3, <1>6, <1>8, <1>9, <1>10, NextIInv

LEMMA SynthEndsKeeps ==
  ASSUME IInv, NEW d \in Item, SynthEnds(d)
  PROVE  IInv'
  <1>1. /\ Whole(lib) /\ refs \in [Item -> Nat] /\ Kept(lib) \subseteq Item
        /\ \A x \in Item : refs[x] >= playing[x] /\ (x \in Kept(lib) => refs[x] >= playing[x] + 1)
        /\ \A x \in Kept(lib) : OriginalOf(x) \in live /\ OriginalOf(x) \in Kept(lib)
        /\ Leaving(deletes, refs, live)
        /\ live \subseteq Original /\ playing \in [Item -> Nat]
        /\ \A x \in Item : playing[x] > 0 => x \in live
    BY NowFacts
  <1>2. /\ playing[d] > 0 /\ playing' = [playing EXCEPT ![d] = @ - 1]
        /\ refs' = [refs EXCEPT ![d] = @ - 1]
        /\ deletes' = IF refs[d] <= 1 THEN DeleteMsg(deletes, d) ELSE deletes
        /\ lib' = lib /\ live' = live
    BY DEF SynthEnds
  <1>3. \A x \in Item : refs[x] \in Nat /\ playing[x] \in Nat
    BY <1>1
  <1>4. refs[d] >= playing[d] /\ refs[d] - 1 \in Nat /\ playing[d] - 1 \in Nat /\ refs[d] # 0
    BY <1>1, <1>2, <1>3
  <1>5. /\ refs' \in [Item -> Nat] /\ playing' \in [Item -> Nat]
        /\ refs'[d] = refs[d] - 1 /\ playing'[d] = playing[d] - 1
        /\ \A x \in Item : x # d => refs'[x] = refs[x] /\ playing'[x] = playing[x]
    BY <1>1, <1>2, <1>4
  <1>6. \A x \in Item : refs'[x] >= playing'[x] /\ (x \in Kept(lib) => refs'[x] >= playing'[x] + 1)
    <2>1. refs'[d] >= playing'[d] /\ (d \in Kept(lib) => refs'[d] >= playing'[d] + 1)
      BY <1>1, <1>3, <1>5
    <2> QED
      BY <1>1, <1>5, <2>1
  <1>7. d \in live /\ OriginalOf(d) = d
    <2>1. d \in live /\ d \in Original
      BY <1>1, <1>2
    <2> QED
      BY <2>1, OriginalFacts
  <1>8. Leaving(deletes', refs', live)
    <2>1. CASE refs[d] <= 1
      <3>1. refs'[d] = 0
        BY <1>3, <1>4, <1>5, <2>1
      <3> QED
        BY <1>1, <1>2, <1>4, <1>5, <1>7, <2>1, <3>1, LeavesToo
    <2>2. CASE ~(refs[d] <= 1)
      <3>1. \A x \in Item : refs[x] = 0 => refs'[x] = 0
        BY <1>3, <1>5, <2>2
      <3> QED
        BY <1>1, <1>2, <2>2, <3>1, LeavingOthers
    <2> QED
      BY <2>1, <2>2
  <1>9. \A x \in Item : playing'[x] > 0 => x \in live
    BY <1>1, <1>3, <1>5, <1>7
  <1> QED
    BY <1>1, <1>2, <1>5, <1>6, <1>8, <1>9, NextIInv

LEMMA DeleteDefKeeps ==
  ASSUME IInv, DeleteDef
  PROVE  IInv'
  <1>1. /\ Whole(lib) /\ refs \in [Item -> Nat] /\ Kept(lib) \subseteq Item
        /\ \A x \in Item : refs[x] >= playing[x] /\ (x \in Kept(lib) => refs[x] >= playing[x] + 1)
        /\ \A x \in Kept(lib) : OriginalOf(x) \in live /\ OriginalOf(x) \in Kept(lib)
        /\ Leaving(deletes, refs, live)
        /\ live \subseteq Original /\ playing \in [Item -> Nat]
        /\ \A x \in Item : playing[x] > 0 => x \in live
        /\ \A x \in Item : refs[x] \in Nat /\ playing[x] \in Nat
    BY NowFacts
  <1>2. PICK m \in Nat : deletes \in Seq(Item) /\ m = Len(deletes) /\ m >= 1 /\ DOMAIN deletes = 1 .. m
    BY <1>1 DEF Leaving, DeleteDef
  <1>3. PICK q : q = Tail(deletes)
    OBVIOUS
  <1>4. PICK d : d = deletes[1]
    OBVIOUS
  <1>5. /\ live' = live \ {d} /\ deletes' = q
        /\ lib' = lib /\ refs' = refs /\ playing' = playing
    BY <1>2, <1>3, <1>4 DEF DeleteDef
  <1>6. /\ q \in Seq(Item) /\ DOMAIN q = 1 .. m - 1
        /\ \A i \in 1 .. m - 1 : q[i] = deletes[i + 1] /\ i + 1 \in 1 .. m
    BY <1>2, <1>3
  <1>7. /\ IsInjective(deletes)
        /\ \A i \in 1 .. m : OriginalOf(deletes[i]) \in live /\ refs[deletes[i]] = 0
        /\ \A i, j \in 1 .. m : OriginalOf(deletes[i]) = deletes[j] => i <= j
    BY <1>1, <1>2 DEF Leaving
  <1>8. 1 \in 1 .. m /\ d \in Item /\ refs[d] = 0
    BY <1>2, <1>4, <1>7
  <1>9. playing[d] = 0 /\ d \notin Kept(lib)
    BY <1>1, <1>8
  <1>10. \A i \in 1 .. m - 1 : OriginalOf(q[i]) \in live' /\ refs[q[i]] = 0
    <2> TAKE i \in 1 .. m - 1
    <2>1. i + 1 \in 1 .. m /\ q[i] = deletes[i + 1] /\ ~(i + 1 <= 1)
      BY <1>6
    <2>2. OriginalOf(deletes[i + 1]) # d
      BY <1>4, <1>7, <1>8, <2>1
    <2> QED
      BY <1>5, <1>7, <2>1, <2>2
  <1>11. IsInjective(q)
    <2>1. ASSUME NEW i \in 1 .. m - 1, NEW j \in 1 .. m - 1, q[i] = q[j] PROVE i = j
      <3>1. i + 1 = j + 1
        BY <1>2, <1>6, <1>7, <2>1 DEF IsInjective
      <3> QED
        BY <3>1
    <2> QED
      BY <1>6, <2>1 DEF IsInjective
  <1>12. \A i, j \in 1 .. m - 1 : OriginalOf(q[i]) = q[j] => i <= j
    <2>1. ASSUME NEW i \in 1 .. m - 1, NEW j \in 1 .. m - 1, OriginalOf(q[i]) = q[j] PROVE i <= j
      <3>1. i + 1 <= j + 1
        BY <1>6, <1>7, <2>1
      <3> QED
        BY <3>1
    <2> QED
      BY <2>1
  <1>13. Leaving(q, refs, live')
    BY <1>6, <1>10, <1>11, <1>12 DEF Leaving
  <1>14. \A x \in Kept(lib) : OriginalOf(x) \in live' /\ OriginalOf(x) \in Kept(lib)
    BY <1>1, <1>5, <1>9
  <1>15. \A x \in Item : playing[x] > 0 => x \in live'
    BY <1>1, <1>5, <1>9
  <1>16. live' \subseteq Original
    BY <1>1, <1>5
  <1> QED
    BY <1>1, <1>5, <1>13, <1>14, <1>15, <1>16, NextIInv

LEMMA NextKeeps ==
  ASSUME Careful, IInv, [Next]_vars
  PROVE  IInv'
  <1>1. ASSUME NEW list \in Lists, Define(list) PROVE IInv'
    BY <1>1, DefineKeeps
  <1>2. ASSUME NEW n \in Key, Free(n) PROVE IInv'
    BY <1>2, FreeKeeps
  <1>3. ASSUME NEW n \in Key, SNew(n) PROVE IInv'
    BY <1>3, SNewKeeps
  <1>4. CASE FreeAll
    BY <1>4, FreeAllKeeps
  <1>5. ASSUME NEW d \in Item, SynthEnds(d) PROVE IInv'
    BY <1>5, SynthEndsKeeps
  <1>6. CASE DeleteDef
    BY <1>6, DeleteDefKeeps
  <1>7. CASE UNCHANGED vars
    BY <1>7 DEF vars, IInv, Now
  <1> QED
    BY <1>1, <1>2, <1>3, <1>4, <1>5, <1>6, <1>7 DEF Next

LEMMA IInvAlive == IInv => DefsAlive
  <1> SUFFICES ASSUME IInv PROVE DefsAlive
    OBVIOUS
  <1>1. /\ refs \in [Item -> Nat] /\ Kept(lib) \subseteq Item /\ playing \in [Item -> Nat]
        /\ \A x \in Kept(lib) : refs[x] >= playing[x] + 1 /\ OriginalOf(x) \in live
        /\ Leaving(deletes, refs, live) /\ live \subseteq Original
        /\ \A x \in Item : playing[x] > 0 => x \in live
    BY NowFacts
  <1>2. \A x \in Item : x \in live => OriginalOf(x) = x
    BY <1>1, OriginalFacts
  <1>3. ASSUME NEW i \in DOMAIN deletes PROVE OriginalOf(deletes[i]) \in live /\ deletes[i] \notin Kept(lib)
    <2>1. deletes[i] \in Item /\ refs[deletes[i]] = 0 /\ OriginalOf(deletes[i]) \in live
      BY <1>1 DEF Leaving
    <2>2. playing[deletes[i]] \in Nat
      BY <1>1, <2>1
    <2> QED
      BY <1>1, <2>1, <2>2
  <1>4. IsInjective(deletes)
    BY <1>1 DEF Leaving
  <1> QED
    BY <1>1, <1>2, <1>3, <1>4 DEF DefsAlive, Alive

\* No definition is freed while a name, a synth or a message that is about to free it
\* leads to it, and none is to be freed twice, when clients make synths from no variant
\* and send d_freeAll only when it makes sense (GraphDef_Define, Graph_Ctor, Graph_Dtor
\* and the delete message).
THEOREM DefsStayAlive == ASSUME Careful PROVE Spec => []DefsAlive
  <1>1. Init => IInv
    BY InitIInv
  <1>2. IInv /\ [Next]_vars => IInv'
    BY NextKeeps
  <1>3. IInv => DefsAlive
    BY IInvAlive
  <1> QED
    BY <1>1, <1>2, <1>3, PTL DEF Spec
-----------------------------------------------------------------------------
(* The table is a map from names. *)

Abs(T) == [n \in {k \in Key : Get(T, k) # Empty} |-> Get(T, n)]

LEMMA KeptKeys ==
  ASSUME NEW T, Whole(T), NEW x \in Kept(T), NEW y \in Kept(T), KeyOf[x] = KeyOf[y]
  PROVE  x = y
  <1>1. KeysDiffer(T.items)
    BY WholeFacts
  <1>2. PICK i, j \in Slots : x = T.items[i] /\ y = T.items[j] /\ x # Empty /\ y # Empty
    BY DEF Kept
  <1> QED
    BY <1>1, <1>2 DEF KeysDiffer

LEMMA AbsFacts ==
  ASSUME NEW T, Whole(T)
  PROVE  /\ DOMAIN Abs(T) = {KeyOf[x] : x \in Kept(T)}
         /\ \A x \in Kept(T) : Abs(T)[KeyOf[x]] = x
         /\ \A n \in DOMAIN Abs(T) : n \in Key /\ Abs(T)[n] \in Kept(T) /\ KeyOf[Abs(T)[n]] = n
         /\ Abs(T) = [n \in DOMAIN Abs(T) |-> Abs(T)[n]]
  <1> DEFINE D == {k \in Key : Get(T, k) # Empty}
  <1>1. DOMAIN Abs(T) = D /\ \A n \in D : Abs(T)[n] = Get(T, n)
    BY DEF Abs
  <1>2. Abs(T) = [n \in DOMAIN Abs(T) |-> Abs(T)[n]]
    BY DEF Abs
  <1>3. \A x \in Kept(T) : KeyOf[x] \in Key /\ x # Empty
    BY TableAssumption, WholeFacts DEF Kept
  <1>4. \A x \in Kept(T) : KeyOf[x] \in D /\ Get(T, KeyOf[x]) = x
    BY <1>3, GetFacts
  <1>5. \A n \in D : n \in Key /\ Get(T, n) \in Kept(T) /\ KeyOf[Get(T, n)] = n
    BY GetFacts
  <1> HIDE DEF D
  <1>6. D = {KeyOf[x] : x \in Kept(T)}
    <2>1. \A n \in D : n \in {KeyOf[x] : x \in Kept(T)}
      BY <1>5
    <2> QED
      BY <1>4, <2>1
  <1> QED
    BY <1>1, <1>2, <1>4, <1>5, <1>6

\* What is in the table determines the map.
LEMMA AbsIs ==
  ASSUME NEW T, Whole(T), NEW m, m = [n \in DOMAIN m |-> m[n]],
         DOMAIN m = {KeyOf[x] : x \in Kept(T)}, \A x \in Kept(T) : m[KeyOf[x]] = x
  PROVE  Abs(T) = m
  <1>1. /\ DOMAIN Abs(T) = DOMAIN m /\ Abs(T) = [n \in DOMAIN Abs(T) |-> Abs(T)[n]]
        /\ \A n \in DOMAIN Abs(T) : Abs(T)[n] \in Kept(T) /\ KeyOf[Abs(T)[n]] = n
    BY AbsFacts
  <1>2. \A n \in DOMAIN m : Abs(T)[n] = m[n]
    BY <1>1
  <1>3. PICK a : a = Abs(T)
    OBVIOUS
  <1> QED
    BY <1>1, <1>2, <1>3

LEMMA AbsSize ==
  ASSUME NEW T, Whole(T)
  PROVE  Cardinality(DOMAIN Abs(T)) = T.num
  <1> DEFINE K == Kept(T)
             D == DOMAIN Abs(T)
             f == [x \in K |-> KeyOf[x]]
  <1>1. f \in Bijection(K, D)
    <2>a. \A x \in K : KeyOf[x] \in D
      <3>1. D = {KeyOf[x] : x \in K}
        BY AbsFacts
      <3> HIDE DEF D, K
      <3> QED
        BY <3>1
    <2>1. f \in [K -> D]
      <3> HIDE DEF D, K
      <3> QED
        BY <2>a
    <2>2. \A x, y \in K : f[x] = f[y] => x = y
      BY KeptKeys
    <2>3. \A n \in D : \E x \in K : f[x] = n
      BY AbsFacts
    <2> HIDE DEF D, K
    <2> QED
      BY <2>1, <2>2, <2>3 DEF Bijection, Injection, Surjection, IsInjective
  <1>2. IsFiniteSet(K) /\ T.num = Cardinality(K)
    BY WholeFacts DEF Whole
  <1> HIDE DEF f, K, D
  <1>3. Cardinality(D) = Cardinality(K)
    BY <1>1, <1>2, FS_Bijection DEF ExistsBijection
  <1> QED
    BY <1>2, <1>3 DEF D

LEMMA NamesCardinality == \A S : AsNames!Cardinality(S) = Cardinality(S)
  BY DEF Cardinality, AsNames!Cardinality

LEMMA NamesWith ==
  ASSUME NEW m, NEW d
  PROVE  AsNames!With(m, d) = IF KeyOf[d] \in DOMAIN m \/ Cardinality(DOMAIN m) >= MaxItems THEN m
                              ELSE [n \in DOMAIN m \union {KeyOf[d]} |-> IF n \in DOMAIN m THEN m[n] ELSE d]
  BY NamesCardinality DEF AsNames!With

LEMMA NamesFamily == \A d : AsNames!Family(d) = Family(d)
  BY DEF AsNames!Family, Family, ToSet

LEMMA AbsAdd ==
  ASSUME NEW T, Whole(T), NEW d \in Item
  PROVE  Abs(AddItem(T, d)) = AsNames!With(Abs(T), d)
  <1>1. PICK m : m = Abs(T)
    OBVIOUS
  <1>2. /\ DOMAIN m = {KeyOf[x] : x \in Kept(T)} /\ Cardinality(DOMAIN m) = T.num
        /\ \A x \in Kept(T) : m[KeyOf[x]] = x
    BY <1>1, AbsFacts, AbsSize
  <1>3. Named(T, d) <=> KeyOf[d] \in DOMAIN m
    BY <1>2 DEF Named
  <1>4. CASE Full(T) \/ Named(T, d)
    <2>1. AddItem(T, d) = T
      BY <1>4, AddFacts
    <2>2. AsNames!With(m, d) = m
      BY <1>2, <1>3, <1>4, NamesWith DEF Full
    <2> QED
      BY <1>1, <2>1, <2>2
  <1>5. CASE ~(Full(T) \/ Named(T, d))
    <2>1. Whole(AddItem(T, d)) /\ Kept(AddItem(T, d)) = Kept(T) \union {d}
      BY <1>5, AddFacts
    <2>2. PICK w : w = AsNames!With(m, d)
      OBVIOUS
    <2>3. w = [n \in DOMAIN m \union {KeyOf[d]} |-> IF n \in DOMAIN m THEN m[n] ELSE d]
      BY <1>2, <1>3, <1>5, <2>2, NamesWith DEF Full
    <2>4. DOMAIN w = {KeyOf[x] : x \in Kept(T) \union {d}} /\ w = [n \in DOMAIN w |-> w[n]]
      BY <1>2, <2>3
    <2>5. \A x \in Kept(T) \union {d} : w[KeyOf[x]] = x
      BY <1>2, <1>3, <1>5, <2>3
    <2>6. Abs(AddItem(T, d)) = w
      BY <2>1, <2>4, <2>5, AbsIs
    <2> QED
      BY <1>1, <2>2, <2>6
  <1> QED
    BY <1>4, <1>5

LEMMA AbsRemove ==
  ASSUME NEW T, Whole(T), NEW d \in Item
  PROVE  Abs(RemoveGraphDef(T, d)) = AsNames!Without(Abs(T), d)
  <1>1. PICK m : m = Abs(T)
    OBVIOUS
  <1>2. /\ DOMAIN m = {KeyOf[x] : x \in Kept(T)}
        /\ \A x \in Kept(T) : m[KeyOf[x]] = x
        /\ \A n \in DOMAIN m : m[n] \in Kept(T) /\ KeyOf[m[n]] = n
    BY <1>1, AbsFacts
  <1>3. PICK U : U = RemoveGraphDef(T, d)
    OBVIOUS
  <1>4. Whole(U) /\ Kept(U) = Kept(T) \ Family(d)
    BY <1>3, RemoveGraphFacts
  <1>5. PICK w : w = AsNames!Without(m, d)
    OBVIOUS
  <1>6. w = [n \in {k \in DOMAIN m : m[k] \notin Family(d)} |-> m[n]]
    BY <1>5, NamesFamily DEF AsNames!Without
  <1>7. DOMAIN w = {k \in DOMAIN m : m[k] \notin Family(d)} /\ w = [n \in DOMAIN w |-> w[n]]
        /\ \A n \in DOMAIN w : w[n] = m[n]
    BY <1>6
  <1>8. DOMAIN w = {KeyOf[x] : x \in Kept(U)}
    <2>1. \A n \in DOMAIN w : m[n] \in Kept(U) /\ KeyOf[m[n]] = n
      BY <1>2, <1>4, <1>7
    <2>2. \A x \in Kept(U) : KeyOf[x] \in DOMAIN w
      BY <1>2, <1>4, <1>7
    <2> QED
      BY <2>1, <2>2
  <1>9. \A x \in Kept(U) : w[KeyOf[x]] = x
    BY <1>2, <1>4, <1>7, <1>8
  <1>10. Abs(U) = w
    BY <1>4, <1>7, <1>8, <1>9, AbsIs
  <1> QED
    BY <1>1, <1>3, <1>5, <1>10

NamesAdded(m, d) ==
  LET list == <<d>> \o VariantsOf[d]
      added[k \in 0 .. Len(list)] == IF k = 0 THEN m ELSE AsNames!With(added[k - 1], list[k])
  IN  added[Len(list)]

\* The recursions over lists go on alike for the tables and for the maps.
LEMMA AbsAddGraph ==
  ASSUME NEW T, Whole(T), NEW d \in Item
  PROVE  Abs(AddGraphDef(T, d)) = NamesAdded(Abs(T), d)
  <1>0. PICK m : m = Abs(T)
    OBVIOUS
  <1> DEFINE list == <<d>> \o VariantsOf[d]
  <1>1. list \in Seq(Item)
    BY FamilyFacts
  <1>2. PICK w : Adds(w, T, list) /\ AddGraphDef(T, d) = w[Len(list)]
    BY AddGraphDefAdds
  <1> HIDE DEF list
  <1>3. PICK n \in Nat : n = Len(list) /\ \A k \in 1 .. n : list[k] \in Item
    BY <1>1
  <1>4. /\ w[0] = T /\ \A k \in 0 .. n : Whole(w[k])
        /\ \A k \in 1 .. n : w[k] = AddItem(w[k - 1], list[k])
    BY <1>2, <1>3 DEF Adds
  <1> DEFINE Step(f, k) == IF k = 0 THEN m ELSE AsNames!With(f[k - 1], list[k])
             added == CHOOSE f : f = [k \in 0 .. n |-> Step(f, k)]
             v == [k \in 0 .. n |-> Abs(w[k])]
  <1>5. v[0] = m /\ \A k \in 1 .. n : v[k - 1] = Abs(w[k - 1]) /\ v[k] = Abs(w[k])
    <2>1. 0 \in 0 .. n /\ \A k \in 1 .. n : k \in 0 .. n /\ k - 1 \in 0 .. n
      OBVIOUS
    <2> QED
      BY <1>0, <1>4, <2>1
  <1>6. v = [k \in 0 .. n |-> v[k]]
    OBVIOUS
  <1>7. n \in 0 .. n /\ v[n] = Abs(w[n])
    OBVIOUS
  <1> HIDE DEF v
  <1>8. \A k \in 1 .. n : v[k] = AsNames!With(v[k - 1], list[k])
    <2> TAKE k \in 1 .. n
    <2>1. k - 1 \in 0 .. n
      OBVIOUS
    <2>2. Abs(AddItem(w[k - 1], list[k])) = AsNames!With(Abs(w[k - 1]), list[k])
      BY <1>3, <1>4, <2>1, AbsAdd
    <2> QED
      BY <1>4, <1>5, <2>2
  <1>9. v = [k \in 0 .. n |-> Step(v, k)]
    <2>1. \A k \in 0 .. n : v[k] = Step(v, k)
      <3>1. \A k \in 0 .. n : k = 0 \/ k \in 1 .. n
        OBVIOUS
      <3> QED
        BY <1>5, <1>8, <3>1
    <2> HIDE DEF Step
    <2> QED
      BY <1>6, <2>1
  <1>10. added = [k \in 0 .. n |-> Step(added, k)]
    <2> HIDE DEF Step
    <2> QED
      BY <1>9
  <1>11. GoAlike(added, v, n)
    <2>1. \A k \in 0 .. n : added[k] = Step(added, k)
      <3> HIDE DEF Step, added
      <3> QED
        BY <1>10
    <2>2. 0 \in 0 .. n /\ \A k \in 1 .. n : k # 0 /\ k \in 0 .. n
      OBVIOUS
    <2> HIDE DEF added
    <2> QED
      BY <1>5, <1>8, <2>1, <2>2 DEF GoAlike
  <1>12. added[n] = v[n]
    <2> HIDE DEF added
    <2> QED
      BY <1>7, <1>11, Alike
  <1>13. Abs(AddGraphDef(T, d)) = added[n]
    BY <1>2, <1>3, <1>7, <1>12
  <1> QED
    BY <1>0, <1>3, <1>13 DEF list, NamesAdded

LEMMA AbsEntered ==
  ASSUME NEW s \in States, NEW d \in Item
  PROVE  Abs(Entered(s, d).lib) = AsNames!Entered(Abs(s.lib), d)
  <1>1. PICK T : T = s.lib /\ Whole(T)
    BY DEF States, WholeTables
  <1>2. PICK m : m = Abs(T)
    OBVIOUS
  <1>3. PICK previous : previous = Get(T, KeyOf[d])
    OBVIOUS
  <1>4. PICK t : t = IF previous # Empty THEN Dropped(s, previous) ELSE s
    OBVIOUS
  <1>5. KeyOf[d] \in Key
    BY TableAssumption
  <1>6. /\ previous # Empty => previous \in Item
        /\ previous # Empty <=> KeyOf[d] \in DOMAIN m
        /\ previous # Empty => m[KeyOf[d]] = previous
    BY <1>1, <1>2, <1>3, <1>5, GetFacts DEF Abs
  <1>7. Entered(s, d).lib = AddGraphDef(t.lib, d)
    <2>1. Entered(s, d) = [t EXCEPT !.lib = AddGraphDef(@, d)]
      BY <1>1, <1>3, <1>4 DEF Entered
    <2>2. t \in States
      BY <1>4, <1>6, DroppedState
    <2> QED
      BY <2>1, <2>2 DEF States
  <1> DEFINE others == IF KeyOf[d] \in DOMAIN m THEN AsNames!Without(m, m[KeyOf[d]]) ELSE m
  <1>8. Whole(t.lib) /\ others = Abs(t.lib)
    <2>1. CASE previous = Empty
      BY <1>1, <1>2, <1>4, <1>6, <2>1
    <2>2. CASE previous # Empty
      <3>1. t.lib = RemoveGraphDef(T, previous)
        BY <1>1, <1>4, <2>2 DEF Dropped
      <3>2. Whole(t.lib) /\ Abs(t.lib) = AsNames!Without(m, previous)
        BY <1>1, <1>2, <1>6, <2>2, <3>1, RemoveGraphFacts, AbsRemove
      <3> QED
        BY <1>6, <2>2, <3>2
    <2> QED
      BY <2>1, <2>2
  <1> HIDE DEF others
  <1>9. PICK o : o = others
    OBVIOUS
  <1>10. Abs(AddGraphDef(t.lib, d)) = NamesAdded(o, d)
    BY <1>8, <1>9, AbsAddGraph
  <1>11. AsNames!Entered(m, d) = NamesAdded(o, d)
    BY <1>9 DEF AsNames!Entered, NamesAdded, others
  <1> QED
    BY <1>1, <1>2, <1>7, <1>10, <1>11
LEMMA AbsEnteredAll ==
  ASSUME NEW s \in States, NEW list \in Seq(Item)
  PROVE  Abs(EnteredAll(s, list).lib) = AsNames!EnteredAll(Abs(s.lib), list)
  <1>1. PICK w : Enters(w, s, list) /\ EnteredAll(s, list) = w[Len(list)]
    BY EnteredAllEnters
  <1>2. PICK n \in Nat : n = Len(list) /\ \A k \in 1 .. n : list[k] \in Item
    OBVIOUS
  <1>3. /\ w[0] = s /\ \A k \in 0 .. n : w[k] \in States
        /\ \A k \in 1 .. n : w[k] = Entered(w[k - 1], list[k])
    BY <1>1, <1>2 DEF Enters
  <1>4. PICK m : m = Abs(s.lib)
    OBVIOUS
  <1> DEFINE Step(f, k) == IF k = 0 THEN m ELSE AsNames!Entered(f[k - 1], list[k])
             after == CHOOSE f : f = [k \in 0 .. n |-> Step(f, k)]
             v == [k \in 0 .. n |-> Abs(w[k].lib)]
  <1>5. v[0] = m /\ \A k \in 1 .. n : v[k - 1] = Abs(w[k - 1].lib) /\ v[k] = Abs(w[k].lib)
    <2>1. 0 \in 0 .. n /\ \A k \in 1 .. n : k \in 0 .. n /\ k - 1 \in 0 .. n
      OBVIOUS
    <2> QED
      BY <1>3, <1>4, <2>1
  <1>6. v = [k \in 0 .. n |-> v[k]]
    OBVIOUS
  <1>7. n \in 0 .. n /\ v[n] = Abs(w[n].lib)
    OBVIOUS
  <1> HIDE DEF v
  <1>8. \A k \in 1 .. n : v[k] = AsNames!Entered(v[k - 1], list[k])
    <2> TAKE k \in 1 .. n
    <2>1. k - 1 \in 0 .. n
      OBVIOUS
    <2>2. Abs(Entered(w[k - 1], list[k]).lib) = AsNames!Entered(Abs(w[k - 1].lib), list[k])
      BY <1>2, <1>3, <2>1, AbsEntered
    <2> QED
      BY <1>3, <1>5, <2>2
  <1>9. v = [k \in 0 .. n |-> Step(v, k)]
    <2>1. \A k \in 0 .. n : v[k] = Step(v, k)
      <3>1. \A k \in 0 .. n : k = 0 \/ k \in 1 .. n
        OBVIOUS
      <3> QED
        BY <1>5, <1>8, <3>1
    <2> HIDE DEF Step
    <2> QED
      BY <1>6, <2>1
  <1>10. after = [k \in 0 .. n |-> Step(after, k)]
    <2> HIDE DEF Step
    <2> QED
      BY <1>9
  <1>11. GoAlike(after, v, n)
    <2>1. \A k \in 0 .. n : after[k] = Step(after, k)
      <3> HIDE DEF Step, after
      <3> QED
        BY <1>10
    <2>2. 0 \in 0 .. n /\ \A k \in 1 .. n : k # 0 /\ k \in 0 .. n
      OBVIOUS
    <2> HIDE DEF after
    <2> QED
      BY <1>5, <1>8, <2>1, <2>2 DEF GoAlike
  <1>12. after[n] = v[n]
    <2> HIDE DEF after
    <2> QED
      BY <1>7, <1>11, Alike
  <1>13. AsNames!EnteredAll(m, list) = after[n]
    BY <1>2 DEF AsNames!EnteredAll
  <1> HIDE DEF after
  <1> QED
    BY <1>1, <1>2, <1>4, <1>7, <1>12, <1>13

\* What the refinement needs of the library; clients may do as they like.
LibInv == Now \in States

LEMMA LibFacts ==
  ASSUME LibInv
  PROVE  Whole(lib) /\ lib \in WholeTables /\ refs \in [Item -> Int] /\ deletes \in Seq(Item)
  BY DEF LibInv, Now, States, WholeTables

LEMMA InitLib == Init => LibInv /\ AsNames!Init
  <1> SUFFICES ASSUME Init PROVE LibInv /\ AsNames!Init
    OBVIOUS
  <1>1. lib = EmptyTable /\ refs = [d \in Item |-> 0] /\ deletes = << >>
    BY DEF Init
  <1>2. lib \in WholeTables
    BY <1>1, EmptyTableFacts DEF WholeTables, Whole
  <1>3. << >> \in Seq(Item) /\ [d \in Item |-> 0] \in [Item -> Int]
    OBVIOUS
  <1>4. LibInv
    BY <1>1, <1>2, <1>3 DEF LibInv, Now, States
  <1>5. Found = {}
    BY <1>1, EmptyTableFacts, GetFacts DEF Found
  <1>6. [n \in Found |-> Get(lib, n)] = << >>
    BY <1>5
  <1> QED
    BY <1>4, <1>6 DEF AsNames!Init

LEMMA FoundIsAbs == [n \in Found |-> Get(lib, n)] = Abs(lib)
  BY DEF Found, Abs

LEMMA FoundIsAbsNext == [n \in Found |-> Get(lib, n)]' = Abs(lib')
  BY DEF Found, Abs

LEMMA DefineLib ==
  ASSUME LibInv, NEW list \in Lists, Define(list)
  PROVE  LibInv' /\ AsNames!Define(list)
  <1> DEFINE new == UNION {Family(d) : d \in ToSet(list)}
             counted == [d \in Item |-> IF d \in new THEN 1 ELSE refs[d]]
  <1>1. PICK s : s = [Now EXCEPT !.refs = counted]
    OBVIOUS
  <1>2. Becomes(EnteredAll(s, list))
    BY <1>1 DEF Define
  <1>3. counted \in [Item -> Int]
    BY LibFacts
  <1>4. s \in States /\ s.lib = lib
    <2>1. s = [lib |-> lib, refs |-> counted, deletes |-> deletes]
      BY <1>1 DEF Now
    <2> HIDE DEF counted
    <2> QED
      BY <1>3, <2>1, LibFacts DEF States
  <1>5. list \in Seq(Item)
    <2>1. list \in Seq(Original)
      BY DefAssumption
    <2>2. \A k \in 1 .. Len(list) : list[k] \in Item
      BY <2>1, OriginalFacts
    <2> QED
      BY <2>1, <2>2
  <1>6. PICK u : u = EnteredAll(s, list)
    OBVIOUS
  <1>7. u \in States
    <2>1. PICK w : Enters(w, s, list) /\ u = w[Len(list)]
      BY <1>4, <1>5, <1>6, EnteredAllEnters
    <2>2. Len(list) \in 0 .. Len(list)
      BY <1>5
    <2> QED
      BY <2>1, <2>2 DEF Enters
  <1>8. lib' = u.lib /\ refs' = u.refs /\ deletes' = u.deletes
    BY <1>2, <1>6 DEF Becomes
  <1>9. LibInv'
    <2>1. u = [lib |-> u.lib, refs |-> u.refs, deletes |-> u.deletes]
      BY <1>7 DEF States
    <2>2. Now' = [lib |-> lib', refs |-> refs', deletes |-> deletes']
      BY DEF Now
    <2>3. Now' = u
      BY <1>8, <2>1, <2>2
    <2> QED
      BY <1>7, <2>3 DEF LibInv
  <1>10. Abs(lib') = AsNames!EnteredAll(Abs(lib), list)
    BY <1>4, <1>5, <1>6, <1>8, AbsEnteredAll
  <1>11. AsNames!Define(list)
    BY <1>10, FoundIsAbs, FoundIsAbsNext DEF AsNames!Define
  <1> QED
    BY <1>9, <1>11

LEMMA FreeLib ==
  ASSUME LibInv, NEW n \in Key, Free(n)
  PROVE  LibInv' /\ n \in DOMAIN Abs(lib) /\ AsNames!Free(n)
  <1>1. PICK e : e = Get(lib, n) /\ e \in Item /\ e = Abs(lib)[n]
    <2>1. Get(lib, n) # Empty /\ Whole(lib)
      BY LibFacts DEF Free
    <2> QED
      BY <2>1, GetFacts DEF Abs
  <1>2. n \in DOMAIN Abs(lib)
    BY DEF Abs, Free
  <1>3. PICK u : u = Dropped(Now, e)
    OBVIOUS
  <1>4. u \in States /\ u.lib = RemoveGraphDef(lib, e)
    BY <1>1, <1>3, DroppedState DEF LibInv, Dropped, Now
  <1>5. lib' = u.lib /\ refs' = u.refs /\ deletes' = u.deletes
    BY <1>1, <1>3 DEF Free, Becomes
  <1>6. LibInv'
    <2>1. u = [lib |-> u.lib, refs |-> u.refs, deletes |-> u.deletes]
      BY <1>4 DEF States
    <2>2. Now' = [lib |-> lib', refs |-> refs', deletes |-> deletes']
      BY DEF Now
    <2>3. Now' = u
      BY <1>5, <2>1, <2>2
    <2> QED
      BY <1>4, <2>3 DEF LibInv
  <1>7. Abs(lib') = AsNames!Without(Abs(lib), e)
    BY <1>1, <1>4, <1>5, LibFacts, AbsRemove
  <1>8. AsNames!Free(n)
    BY <1>1, <1>7, FoundIsAbs, FoundIsAbsNext DEF AsNames!Free
  <1> QED
    BY <1>2, <1>6, <1>8

LEMMA FreeAllLib ==
  ASSUME LibInv, FreeAll
  PROVE  LibInv' /\ AsNames!FreeAll
  <1>1. lib' = EmptyTable /\ refs' = refs /\ deletes' = deletes
    BY DEF FreeAll
  <1>2. lib' \in WholeTables
    BY <1>1, EmptyTableFacts DEF WholeTables, Whole
  <1>3. Now' = [lib |-> lib', refs |-> refs', deletes |-> deletes']
    BY DEF Now
  <1>4. LibInv'
    BY <1>1, <1>2, <1>3, LibFacts DEF LibInv, States
  <1>5. \A n \in Key : Get(EmptyTable, n) = Empty
    BY EmptyTableFacts, GetFacts
  <1>6. Abs(lib') = << >>
    BY <1>1, <1>5 DEF Abs
  <1> QED
    BY <1>4, <1>6, FoundIsAbsNext DEF AsNames!FreeAll

\* All other steps leave the library alone.
LEMMA OthersLib ==
  ASSUME LibInv, \/ \E n \in Key : SNew(n)
                 \/ \E d \in Item : SynthEnds(d)
                 \/ DeleteDef
                 \/ UNCHANGED vars
  PROVE  LibInv' /\ Abs(lib') = Abs(lib)
  <1>1. lib' = lib
    BY DEF SNew, SynthEnds, DeleteDef, vars
  <1>2. Now' = [lib |-> lib', refs |-> refs', deletes |-> deletes']
    BY DEF Now
  <1>3. refs' \in [Item -> Int]
    BY LibFacts DEF SNew, SynthEnds, DeleteDef, vars
  <1>4. deletes' \in Seq(Item)
    <2>1. deletes \in Seq(Item)
      BY LibFacts
    <2>2. CASE deletes' = deletes
      BY <2>1, <2>2
    <2>3. ASSUME NEW d \in Item, deletes' = DeleteMsg(deletes, d)
          PROVE  deletes' \in Seq(Item)
      BY <2>1, <2>3 DEF DeleteMsg
    <2>4. ASSUME NEW d \in Item, SynthEnds(d)
          PROVE  deletes' \in Seq(Item)
      BY <2>2, <2>3, <2>4 DEF SynthEnds
    <2>5. CASE DeleteDef
      <3>1. deletes # << >> /\ deletes' = Tail(deletes)
        BY <2>5 DEF DeleteDef
      <3> QED
        BY <2>1, <3>1
    <2>6. CASE (\E n \in Key : SNew(n)) \/ UNCHANGED vars
      BY <2>2, <2>6 DEF SNew, vars
    <2> QED
      BY <2>4, <2>5, <2>6
  <1>5. LibInv'
    BY <1>1, <1>2, <1>3, <1>4, LibFacts DEF LibInv, States
  <1> QED
    BY <1>1, <1>5

LEMMA NextLib ==
  ASSUME LibInv, [Next]_vars
  PROVE  LibInv' /\ [AsNames!Next]_[n \in Found |-> Get(lib, n)]
  <1>1. ASSUME NEW list \in Lists, Define(list)
        PROVE  LibInv' /\ AsNames!Next
    BY <1>1, DefineLib DEF AsNames!Next
  <1>2. ASSUME NEW n \in Key, Free(n)
        PROVE  LibInv' /\ AsNames!Next
    BY <1>2, FreeLib, FoundIsAbs DEF AsNames!Next
  <1>3. CASE FreeAll
    BY <1>3, FreeAllLib DEF AsNames!Next
  <1>4. ASSUME \/ \E n \in Key : SNew(n)
               \/ \E d \in Item : SynthEnds(d)
               \/ DeleteDef
               \/ UNCHANGED vars
        PROVE  LibInv' /\ UNCHANGED [n \in Found |-> Get(lib, n)]
    BY <1>4, OthersLib, FoundIsAbs, FoundIsAbsNext
  <1> QED
    BY <1>1, <1>2, <1>3, <1>4 DEF Next

\* Whatever is added and removed in whatever order, names that collide included, the
\* table is the map from names to definitions that clients are promised (AddItem,
\* RemoveItem and FixCollisionsFrom of HashTable.h, World_AddGraphDef).
THEOREM TableIsAMap == Spec => TableSpec
  <1>1. Init => LibInv /\ AsNames!Init
    BY InitLib
  <1>2. LibInv /\ [Next]_vars => LibInv' /\ [AsNames!Next]_[n \in Found |-> Get(lib, n)]
    BY NextLib
  <1> QED
    BY <1>1, <1>2, PTL DEF Spec, TableSpec, AsNames!Spec
=============================================================================

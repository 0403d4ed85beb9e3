------------------------- MODULE OscSchedulerProofs -------------------------
(***************************************************************************)
(* Proofs about OscScheduler and the heap of EventQueue, for every number  *)
(* of packets, every size of the heap and of the FIFOs, and every clock.   *)
(***************************************************************************)
EXTENDS OscScheduler, SequenceTheorems, FiniteSetTheorems, TLAPS

\* Every set of natural numbers that is not empty has a least member.
LEMMA LeastNat ==
  ASSUME NEW S \in SUBSET Nat, S # {}
  PROVE  \E k \in S : \A m \in S : k <= m
  <1> DEFINE R == {ss \in Nat \X Nat : ss[1] < ss[2]}
  <1>1. IsWellFoundedOn(R, Nat)
    BY NatLessThanWellFounded DEF OpToRel
  <1>2. \E k \in S : \A m \in S : ~(<<m, k>> \in R)
    <2> HIDE DEF R
    <2> QED
      BY <1>1, WFMin
  <1>3. \A k, m \in Nat : ~(<<m, k>> \in R) => k <= m
    <2> SUFFICES ASSUME NEW k \in Nat, NEW m \in Nat, m < k PROVE <<m, k>> \in R
      OBVIOUS
    <2>1. <<m, k>> \in Nat \X Nat /\ <<m, k>>[1] = m /\ <<m, k>>[2] = k
      OBVIOUS
    <2> QED
      BY <2>1
  <1> HIDE DEF R
  <1> QED
    BY <1>2, <1>3

-----------------------------------------------------------------------------
(***************************************************************************)
(* The heap.  A step of Add or Remove moves one event into the hole, and   *)
(* the hole to where the event was; what is in the heap then, with the new *)
(* event in the hole, is a rearrangement of what there was.                *)
(***************************************************************************)

\* pi is a permutation of the slots 1 .. n.
Permutes(pi, n) ==
  /\ pi \in [1 .. n -> 1 .. n]
  /\ \A i, j \in 1 .. n : pi[i] = pi[j] => i = j
  /\ \A k \in 1 .. n : \E j \in 1 .. n : pi[j] = k

\* t is a rearrangement of s.
Rearranged(t, s, n) == \E pi : Permutes(pi, n) /\ \A j \in 1 .. n : t[j] = s[pi[j]]

\* t is s, with x in the place of what is in slot i, rearranged by pi.
Filled(s, i, x, t, pi, n) ==
  Permutes(pi, n) /\ \A j \in 1 .. n : t[j] = IF pi[j] = i THEN x ELSE s[pi[j]]

\* u is t with y in slot i.
With(t, i, y, u, n) == \A j \in 1 .. n : u[j] = IF j = i THEN y ELSE t[j]

\* rho leaves in place what pi does, but for the slots i and p.
Keeps(pi, rho, i, p, n) == \A j \in 1 .. n : j # i /\ j # p /\ pi[j] = j => rho[j] = j

\* The event of slot p is moved into the hole at i.
LEMMA HoleMoves ==
  ASSUME NEW n \in Nat, NEW s, NEW x, NEW i \in 1 .. n, NEW p \in 1 .. n, i # p,
         NEW t, NEW pi, Filled(s, p, x, t, pi, n), pi[i] = i,
         NEW u, With(t, i, s[p], u, n)
  PROVE  \E rho : Filled(s, i, x, u, rho, n) /\ Keeps(pi, rho, i, p, n)
  <1> DEFINE rho == [j \in 1 .. n |-> IF j = i THEN p ELSE IF pi[j] = p THEN i ELSE pi[j]]
  <1>0. Permutes(pi, n) /\ \A j \in 1 .. n : t[j] = IF pi[j] = p THEN x ELSE s[pi[j]]
    BY DEF Filled
  <1>1. rho \in [1 .. n -> 1 .. n]
    BY <1>0 DEF Permutes
  <1>2. \A j, k \in 1 .. n : rho[j] = rho[k] => j = k
    <2> SUFFICES ASSUME NEW j \in 1 .. n, NEW k \in 1 .. n, rho[j] = rho[k] PROVE j = k
      OBVIOUS
    <2>0. \A a, b \in 1 .. n : pi[a] = pi[b] => a = b
      BY <1>0 DEF Permutes
    <2>1. /\ rho[j] = IF j = i THEN p ELSE IF pi[j] = p THEN i ELSE pi[j]
          /\ rho[k] = IF k = i THEN p ELSE IF pi[k] = p THEN i ELSE pi[k]
      OBVIOUS
    <2> HIDE DEF rho
    <2>2. CASE j = i
      BY <2>1, <2>2
    <2>3. CASE k = i
      BY <2>1, <2>3
    <2>4. CASE j # i /\ k # i
      <3>1. pi[j] # i /\ pi[k] # i
        BY <2>0, <2>4
      <3>2. pi[j] = pi[k]
        BY <2>1, <2>4, <3>1
      <3> QED
        BY <2>0, <3>2
    <2> QED
      BY <2>2, <2>3, <2>4
  <1>3. \A k \in 1 .. n : \E j \in 1 .. n : rho[j] = k
    <2> TAKE k \in 1 .. n
    <2>1. PICK j \in 1 .. n : pi[j] = IF k = i THEN p ELSE k
      BY <1>0 DEF Permutes
    <2>2. CASE k = p
      BY <2>2
    <2>3. CASE k # p
      <3>1. j # i
        BY <2>1, <2>3
      <3> QED
        BY <2>1, <2>3, <3>1
    <2> QED
      BY <2>2, <2>3
  <1>4. \A j \in 1 .. n : u[j] = IF rho[j] = i THEN x ELSE s[rho[j]]
    <2> TAKE j \in 1 .. n
    <2>1. CASE j = i
      BY <2>1 DEF With
    <2>2. CASE j # i
      <3>1. u[j] = t[j]
        BY <2>2 DEF With
      <3>0. Permutes(pi, n) /\ j # i /\ pi[i] = i
        BY <1>0, <2>2
      <3>2. pi[j] # i /\ pi[j] \in 1 .. n
        BY <3>0 DEF Permutes
      <3>3. rho[j] = IF pi[j] = p THEN i ELSE pi[j]
        BY <2>2
      <3> HIDE DEF rho
      <3> QED
        BY <1>0, <3>1, <3>2, <3>3
    <2> QED
      BY <2>1, <2>2
  <1>5. Filled(s, i, x, u, rho, n)
    BY <1>1, <1>2, <1>3, <1>4 DEF Filled, Permutes
  <1>6. Keeps(pi, rho, i, p, n)
    BY DEF Keeps
  <1> HIDE DEF rho
  <1> QED
    BY <1>5, <1>6

\* The slots above a slot.
LEMMA Halves == \A i \in Nat : i > 1 => i \div 2 \in 1 .. i - 1
  OBVIOUS

\* The events of a queue.
Times(E) == \A e \in E : e.time \in Int

\* No event is later than its children.
Heap(h) == \A j \in 2 .. Len(h) : h[j \div 2].time <= h[j].time

\* The first event is an earliest one.
LEMMA FirstIsEarliest ==
  ASSUME NEW E, Times(E), NEW h \in Seq(E), Heap(h)
  PROVE  \A j \in 1 .. Len(h) : h[1].time <= h[j].time
  <1> DEFINE B == {j \in 1 .. Len(h) : ~(h[1].time <= h[j].time)}
  <1>1. ASSUME NEW j \in B, \A m \in B : j <= m PROVE FALSE
    <2>1. j \in 1 .. Len(h) /\ h[1] \in E /\ h[j] \in E /\ j # 1
      BY DEF Times
    <2>2. j \div 2 \in 1 .. j - 1
      BY <2>1, Halves
    <2>3. j \div 2 \in 1 .. Len(h) /\ j \div 2 \notin B /\ h[j \div 2] \in E
      BY <1>1, <2>1, <2>2
    <2>4. h[1].time <= h[j \div 2].time /\ h[j \div 2].time <= h[j].time
      BY <2>1, <2>3 DEF Heap
    <2> QED
      BY <2>1, <2>3, <2>4 DEF Times
  <1>2. B \in SUBSET Nat
    OBVIOUS
  <1> HIDE DEF B
  <1>3. B = {}
    BY <1>1, <1>2, LeastNat
  <1> QED
    BY <1>3 DEF B

-----------------------------------------------------------------------------
\* The recursion of Add is well founded: slot i asks for slot i \div 2.
LEMMA AddRecursion ==
  ASSUME NEW h, Len(h) \in Nat, NEW e
  PROVE  \E W : /\ Add(h, e) = W[Len(h) + 1]
                /\ \A i \in 1 .. Len(h) + 1 :
                     W[i] = IF i > 1 /\ e.time < h[i \div 2].time
                            THEN [W[i \div 2] EXCEPT ![i] = h[i \div 2]]
                            ELSE [Append(h, e) EXCEPT ![i] = e]
  <1> DEFINE n == Len(h) + 1
             From(f, i) == IF i > 1 /\ e.time < h[i \div 2].time
                           THEN [f[i \div 2] EXCEPT ![i] = h[i \div 2]]
                           ELSE [Append(h, e) EXCEPT ![i] = e]
             Good(f, k) == f = [i \in 1 .. k |-> From(f, i)]
             Bad == {k \in Nat : ~ \E f : Good(f, k)}
  <1>1. \A f, g, i : (i > 1 => f[i \div 2] = g[i \div 2]) => From(f, i) = From(g, i)
    OBVIOUS
  <1>2. Add(h, e) = (CHOOSE f : Good(f, n))[n]
    BY DEF Add
  <1> HIDE DEF From
  <1>3. Bad = {}
    <2> SUFFICES ASSUME Bad # {} PROVE FALSE
      OBVIOUS
    <2>1. PICK k \in Bad : \A m \in Bad : k <= m
      <3>1. Bad \in SUBSET Nat
        OBVIOUS
      <3> HIDE DEF Bad
      <3> QED
        BY <3>1, LeastNat
    <2>2. CASE k = 0
      <3>1. Good([i \in 1 .. 0 |-> 0], 0)
        OBVIOUS
      <3> QED
        BY <2>1, <2>2, <3>1
    <2>3. CASE k # 0
      <3>1. k \in Nat /\ k - 1 \in Nat /\ k - 1 \notin Bad
        <4>1. Bad \subseteq Nat
          OBVIOUS
        <4> HIDE DEF Bad
        <4> QED
          BY <2>1, <2>3, <4>1
      <3>2. PICK f : Good(f, k - 1)
        BY <3>1
      <3> DEFINE g == [i \in 1 .. k |-> IF i = k THEN From(f, k) ELSE f[i]]
      <3>3. \A i \in 1 .. k : g[i] = From(g, i)
        <4> TAKE i \in 1 .. k
        <4>1. i > 1 => i \div 2 \in 1 .. k - 1
          BY <3>1, Halves
        <4>2. i > 1 => g[i \div 2] = f[i \div 2]
          BY <3>1, <4>1
        <4>3. From(g, i) = From(f, i)
          BY <1>1, <4>2
        <4>4. i # k => i \in 1 .. k - 1 /\ f[i] = From(f, i)
          <5>1. i # k => i \in 1 .. k - 1
            BY <3>1
          <5> QED
            BY <3>2, <5>1
        <4> QED
          BY <4>3, <4>4
      <3>4. Good(g, k)
        BY <3>3
      <3> QED
        BY <2>1, <3>4
    <2> QED
      BY <2>2, <2>3
  <1>4. \E f : Good(f, n)
    BY <1>3
  <1> DEFINE W == CHOOSE f : Good(f, n)
  <1>5. Good(W, n)
    <2> HIDE DEF Good
    <2> QED
      BY <1>4
  <1> HIDE DEF W
  <1>6. \A i \in 1 .. n : W[i] = From(W, i)
    BY <1>5
  <1> QED
    BY <1>2, <1>6 DEF W, From

\* What Add returns, for a heap: a heap, that holds what the heap held and the
\* new event.
LEMMA AddIsRight ==
  ASSUME NEW E, Times(E), NEW h \in Seq(E), Heap(h), NEW e \in E
  PROVE  /\ Add(h, e) \in Seq(E) /\ Len(Add(h, e)) = Len(h) + 1
         /\ Heap(Add(h, e))
         /\ Rearranged(Add(h, e), Append(h, e), Len(h) + 1)
  <1> DEFINE n == Len(h) + 1
             H == Append(h, e)
  <1>1. PICK W : /\ Add(h, e) = W[n]
                 /\ \A i \in 1 .. n :
                      W[i] = IF i > 1 /\ e.time < h[i \div 2].time
                             THEN [W[i \div 2] EXCEPT ![i] = h[i \div 2]]
                             ELSE [H EXCEPT ![i] = e]
    <2>1. Len(h) \in Nat
      OBVIOUS
    <2> QED
      BY <2>1, AddRecursion
  <1>2. /\ n \in Nat \ {0} /\ H \in [1 .. n -> E] /\ H[n] = e
        /\ \A j \in 1 .. n - 1 : H[j] = h[j] /\ h[j] \in E
        /\ e.time \in Int /\ \A v \in E : v.time \in Int
    <2>1. n \in Nat \ {0} /\ H \in Seq(E) /\ Len(H) = n
      OBVIOUS
    <2>2. H[n] = e /\ \A j \in 1 .. n - 1 : H[j] = h[j] /\ h[j] \in E
      OBVIOUS
    <2>3. e.time \in Int /\ \A v \in E : v.time \in Int
      BY DEF Times
    <2> HIDE DEF n, H
    <2> QED
      BY <2>1, <2>2, <2>3
  <1>3. \A j \in 2 .. n - 1 : j \div 2 \in 1 .. j - 1 /\ h[j \div 2].time <= h[j].time
    BY <1>2, Halves DEF Heap
  <1> HIDE DEF n, H
  <1> DEFINE Reached(i) == i = n \/ e.time < h[i].time
             Rest(i) == \A j \in i + 1 .. n : W[i][j] = H[j]
             Early(i) == i < n => W[i][i].time <= h[i].time
             Order(i) == \A j \in 2 .. n : j < n \/ i = n => W[i][j \div 2].time <= W[i][j].time
             Same(i) == \E pi : Filled(H, i, e, W[i], pi, n) /\ \A j \in i + 1 .. n : pi[j] = j
             Claim(i) == Reached(i) => /\ W[i] \in [1 .. n -> E] /\ Rest(i) /\ Early(i)
                                       /\ Order(i) /\ Same(i)
             B == {i \in 1 .. n : ~Claim(i)}
  <1>4. ASSUME NEW i \in 1 .. n, Reached(i), ~(i > 1 /\ e.time < h[i \div 2].time)
        PROVE  Claim(i)
    <2>1. W[i] = [H EXCEPT ![i] = e]
      BY <1>1, <1>4
    <2>2. W[i] \in [1 .. n -> E] /\ W[i][i] = e /\ \A j \in 1 .. n : j # i => W[i][j] = H[j]
      BY <1>2, <2>1
    <2>3. Rest(i) /\ Early(i)
      BY <1>2, <1>4, <2>2
    <2>4. Order(i)
      <3> SUFFICES ASSUME NEW j \in 2 .. n, j < n \/ i = n PROVE W[i][j \div 2].time <= W[i][j].time
        OBVIOUS
      <3>1. j \div 2 \in 1 .. j - 1 /\ j \div 2 \in 1 .. n - 1 /\ j \div 2 # j /\ h[j \div 2] \in E
        BY <1>2, Halves
      <3>2. CASE j = i
        <4>1. h[j \div 2].time <= e.time
          BY <1>2, <1>4, <3>1, <3>2
        <4> QED
          BY <1>2, <2>2, <3>1, <3>2, <4>1
      <3>3. CASE j # i /\ j \div 2 = i
        <4>1. j < n /\ i < n /\ j \in 2 .. n - 1 /\ i \in 1 .. n - 1
          BY <1>2, <3>1, <3>3
        <4>2. e.time < h[i].time /\ h[i].time <= h[j].time
          BY <1>2, <1>3, <1>4, <3>3, <4>1
        <4>3. h[i].time \in Int /\ h[j].time \in Int /\ W[i][j] = h[j]
          BY <1>2, <2>2, <3>3, <4>1
        <4>4. e.time <= h[j].time
          BY <1>2, <4>2, <4>3
        <4>5. W[i][i] = e
          BY <2>2
        <4> QED
          BY <3>3, <4>3, <4>4, <4>5
      <3>4. CASE j # i /\ j \div 2 # i
        <4>1. j \in 2 .. n - 1
          BY <1>2, <3>4
        <4>2. W[i][j] = h[j] /\ W[i][j \div 2] = h[j \div 2]
          BY <1>2, <2>2, <3>1, <3>4, <4>1
        <4> QED
          BY <1>3, <4>1, <4>2
      <3> QED
        BY <3>2, <3>3, <3>4
    <2>5. Same(i)
      <3> DEFINE id == [j \in 1 .. n |-> j]
      <3>1. Permutes(id, n)
        BY DEF Permutes
      <3>2. Filled(H, i, e, W[i], id, n)
        BY <2>2, <3>1 DEF Filled
      <3>3. \A j \in i + 1 .. n : id[j] = j
        BY <1>2
      <3> QED
        BY <3>2, <3>3
    <2> QED
      BY <2>2, <2>3, <2>4, <2>5
  <1>5. ASSUME NEW i \in 1 .. n, Reached(i), i > 1, e.time < h[i \div 2].time, Claim(i \div 2)
        PROVE  Claim(i)
    <2> DEFINE p == i \div 2
    <2>0. p \in 1 .. i - 1 /\ p \in 1 .. n - 1 /\ p \in 1 .. n /\ i # p /\ i \in p + 1 .. n
      BY <1>2, <1>5, Halves
    <2>1. W[p] \in [1 .. n -> E] /\ Rest(p) /\ Early(p) /\ Order(p) /\ Same(p)
      BY <1>5
    <2>2. W[i] = [W[p] EXCEPT ![i] = h[p]] /\ h[p] \in E /\ H[p] = h[p]
      BY <1>1, <1>2, <1>5, <2>0
    <2> HIDE DEF p
    <2>3. W[i] \in [1 .. n -> E] /\ W[i][i] = h[p] /\ \A j \in 1 .. n : j # i => W[i][j] = W[p][j]
      BY <2>1, <2>2
    <2>4. Rest(i)
      BY <2>0, <2>1, <2>3
    <2>5. i < n => i \in 2 .. n - 1 /\ h[p].time <= h[i].time
      BY <1>2, <1>3, <1>5 DEF p
    <2>6. Early(i)
      BY <2>3, <2>5
    <2>7. Order(i)
      <3> SUFFICES ASSUME NEW j \in 2 .. n, j < n \/ i = n PROVE W[i][j \div 2].time <= W[i][j].time
        OBVIOUS
      <3>1. j \div 2 \in 1 .. j - 1 /\ j \div 2 \in 1 .. n
        BY <1>2, Halves
      <3>2. CASE j = i
        <4>1. W[i][j \div 2] = W[p][p] /\ W[i][j] = h[p]
          BY <2>0, <2>3, <3>2 DEF p
        <4>2. p < n /\ W[p][p].time <= h[p].time
          BY <1>2, <2>0, <2>1
        <4> QED
          BY <4>1, <4>2
      <3>3. CASE j # i /\ j \div 2 = i
        <4>1. j < n /\ i < n /\ j \in 2 .. n - 1 /\ j \in p + 1 .. n
          BY <1>2, <2>0, <3>1, <3>3
        <4>2. W[i][j] = h[j]
          BY <1>2, <2>1, <2>3, <3>3, <4>1
        <4>3. h[p].time <= h[i].time /\ h[i].time <= h[j].time
          BY <1>3, <2>5, <3>3, <4>1
        <4>4. h[p].time \in Int /\ h[i].time \in Int /\ h[j].time \in Int
          BY <1>2, <2>0, <4>1
        <4> QED
          BY <2>3, <3>3, <4>2, <4>3, <4>4
      <3>4. CASE j # i /\ j \div 2 # i
        <4>1. W[i][j] = W[p][j] /\ W[i][j \div 2] = W[p][j \div 2]
          BY <2>3, <3>1, <3>4
        <4>2. j < n
          BY <1>2, <3>4
        <4> QED
          BY <2>1, <4>1, <4>2
      <3> QED
        BY <3>2, <3>3, <3>4
    <2>8. Same(i)
      <3>1. PICK pi : Filled(H, p, e, W[p], pi, n) /\ \A j \in p + 1 .. n : pi[j] = j
        BY <2>1
      <3>2. pi[i] = i
        BY <2>0, <3>1
      <3>3. PICK rho :
              Filled(H, i, e, W[i], rho, n) /\ Keeps(pi, rho, i, p, n)
        <4>1. n \in Nat /\ p \in 1 .. n /\ i # p
          BY <1>2, <2>0
        <4>2. With(W[p], i, H[p], W[i], n)
          BY <2>2, <2>3 DEF With
        <4>3. Filled(H, p, e, W[p], pi, n)
          BY <3>1
        <4> QED
          BY <3>2, <4>1, <4>2, <4>3, HoleMoves
      <3>4. \A j \in i + 1 .. n : rho[j] = j
        <4> TAKE j \in i + 1 .. n
        <4>1. j \in 1 .. n /\ j # i /\ j # p /\ j \in p + 1 .. n
          BY <1>2, <2>0
        <4> QED
          BY <3>1, <3>3, <4>1 DEF Keeps
      <3> QED
        BY <3>3, <3>4
    <2> QED
      BY <2>3, <2>4, <2>6, <2>7, <2>8
  <1>6. ASSUME NEW i \in B, \A m \in B : i <= m PROVE FALSE
    <2>0. i \in 1 .. n /\ Reached(i) /\ ~Claim(i)
      OBVIOUS
    <2> HIDE DEF Claim, Reached
    <2>1. i > 1 /\ e.time < h[i \div 2].time
      BY <1>4, <2>0
    <2>2. i \div 2 \in 1 .. i - 1
      BY <1>2, <2>0, <2>1, Halves
    <2>3. i \div 2 \in 1 .. n /\ ~(i <= i \div 2)
      BY <1>2, <2>0, <2>2
    <2>4. Claim(i \div 2)
      BY <1>6, <2>3
    <2> QED
      BY <1>5, <2>0, <2>1, <2>4
  <1>7. B \in SUBSET Nat
    BY <1>2
  <1>8. B = {}
    <2> HIDE DEF B
    <2> QED
      BY <1>6, <1>7, LeastNat
  <1>9. Claim(n)
    <2> HIDE DEF Claim
    <2> QED
      BY <1>2, <1>8
  <1> DEFINE t == Add(h, e)
  <1>10. t \in [1 .. n -> E] /\ (\A j \in 2 .. n : t[j \div 2].time <= t[j].time) /\ Same(n)
    BY <1>1, <1>9
  <1>11. PICK pi : Filled(H, n, e, t, pi, n)
    BY <1>1, <1>10
  <1>12. Permutes(pi, n) /\ \A j \in 1 .. n : t[j] = H[pi[j]]
    BY <1>2, <1>11 DEF Filled
  <1> HIDE DEF t
  <1>13. t \in Seq(E) /\ Len(t) = n
    BY <1>2, <1>10
  <1>14. Heap(t)
    BY <1>10, <1>13 DEF Heap
  <1>15. Rearranged(t, H, n)
    BY <1>12 DEF Rearranged
  <1> QED
    BY <1>13, <1>14, <1>15 DEF t, n, H

-----------------------------------------------------------------------------
\* The child into which the hole sinks is an earliest one.
LEMMA EarlierChildIs ==
  ASSUME NEW E, Times(E), NEW h \in Seq(E), NEW n \in 1 .. Len(h), NEW i \in 1 .. n, 2 * i <= n
  PROVE  LET c == EarlierChild(h, i, n)
         IN  /\ c \in i + 1 .. n /\ c \div 2 = i /\ 2 * i <= c /\ 2 * i + 1 < 2 * c
             /\ \A j \in 2 .. n : j \div 2 = i => h[c].time <= h[j].time
  <1>1. \A j \in 1 .. n : h[j] \in E /\ h[j].time \in Int
    BY DEF Times
  <1>2. \A j \in 2 .. n : j \div 2 = i => j = 2 * i \/ (j = 2 * i + 1 /\ 2 * i + 1 <= n)
    OBVIOUS
  <1>3. (2 * i) \div 2 = i /\ (2 * i + 1) \div 2 = i /\ 2 * i \in i + 1 .. n /\ 2 * i \in 1 .. n
    OBVIOUS
  <1> DEFINE c == EarlierChild(h, i, n)
  <1>4. \/ c = 2 * i /\ (2 * i + 1 <= n => h[2 * i].time <= h[2 * i + 1].time)
        \/ c = 2 * i + 1 /\ 2 * i + 1 <= n /\ h[2 * i + 1].time <= h[2 * i].time
    <2>1. c = IF 2 * i + 1 <= n /\ h[2 * i].time > h[2 * i + 1].time THEN 2 * i + 1 ELSE 2 * i
      BY DEF EarlierChild
    <2> HIDE DEF c
    <2>2. h[2 * i].time \in Int
      BY <1>1, <1>3
    <2>3. 2 * i + 1 <= n => h[2 * i + 1].time \in Int
      <3>1. 2 * i + 1 <= n => 2 * i + 1 \in 1 .. n
        OBVIOUS
      <3> QED
        BY <1>1, <3>1
    <2>4. \A a, b \in Int : ~(a > b) => a <= b
      OBVIOUS
    <2>5. CASE 2 * i + 1 <= n /\ h[2 * i].time > h[2 * i + 1].time
      <3>1. c = 2 * i + 1
        BY <2>1, <2>5
      <3>2. h[2 * i + 1].time <= h[2 * i].time
        BY <2>2, <2>3, <2>5
      <3> QED
        BY <2>5, <3>1, <3>2
    <2>6. CASE ~(2 * i + 1 <= n /\ h[2 * i].time > h[2 * i + 1].time)
      <3>1. c = 2 * i
        BY <2>1, <2>6
      <3>2. 2 * i + 1 <= n => h[2 * i].time <= h[2 * i + 1].time
        BY <2>2, <2>3, <2>4, <2>6
      <3> QED
        BY <3>1, <3>2
    <2> QED
      BY <2>5, <2>6
  <1> HIDE DEF c
  <1>5. /\ c \in i + 1 .. n /\ c \div 2 = i /\ 2 * i <= c /\ 2 * i + 1 < 2 * c
    <2>1. CASE c = 2 * i
      BY <1>3, <2>1
    <2>2. CASE c = 2 * i + 1 /\ 2 * i + 1 <= n
      BY <1>3, <2>2
    <2> QED
      BY <1>4, <2>1, <2>2
  <1>6. ASSUME NEW j \in 2 .. n, j \div 2 = i PROVE h[c].time <= h[j].time
    <2>1. h[j].time \in Int /\ j \in 1 .. n
      BY <1>1
    <2>2. j = 2 * i \/ (j = 2 * i + 1 /\ 2 * i + 1 <= n)
      BY <1>2, <1>6
    <2>3. CASE j = 2 * i
      BY <1>4, <2>1, <2>3
    <2>4. CASE j = 2 * i + 1 /\ 2 * i + 1 <= n
      BY <1>4, <2>1, <2>4
    <2> QED
      BY <2>2, <2>3, <2>4
  <1> QED
    BY <1>5, <1>6 DEF c

\* The recursion of Remove is well founded: slot i asks for one of its children.
LEMMA RemoveRecursion ==
  ASSUME NEW E, Times(E), NEW h \in Seq(E), NEW n \in Nat \ {0}, Len(h) = n + 1
  PROVE  \E W : /\ Remove(h) = W[1]
                /\ \A i \in 1 .. n :
                     LET c == EarlierChild(h, i, n)
                     IN  W[i] = IF 2 * i <= n /\ h[n + 1].time > h[c].time
                                THEN [W[c] EXCEPT ![i] = h[c]]
                                ELSE [SubSeq(h, 1, n) EXCEPT ![i] = h[n + 1]]
  <1> DEFINE From(f, i) ==
               LET c == EarlierChild(h, i, n)
               IN  IF 2 * i <= n /\ h[n + 1].time > h[c].time
                   THEN [f[c] EXCEPT ![i] = h[c]]
                   ELSE [SubSeq(h, 1, n) EXCEPT ![i] = h[n + 1]]
             Good(f, k) == f = [i \in n + 1 - k .. n |-> From(f, i)]
             Bad == {k \in 0 .. n : ~ \E f : Good(f, k)}
  <1>1. \A f, g, i : (2 * i <= n => f[EarlierChild(h, i, n)] = g[EarlierChild(h, i, n)])
                     => From(f, i) = From(g, i)
    OBVIOUS
  <1>a. Len(h) - 1 = n /\ n + 1 - n = 1 /\ n # 0 /\ n \in Nat
    OBVIOUS
  <1>2. Remove(h) = (CHOOSE f : Good(f, n))[1]
    <2>1. Remove(h) = (CHOOSE f : f = [i \in 1 .. n |-> From(f, i)])[1]
      BY <1>a DEF Remove
    <2> HIDE DEF From
    <2> QED
      BY <1>a, <2>1
  <1> HIDE DEF From
  <1>3. Bad = {}
    <2> SUFFICES ASSUME Bad # {} PROVE FALSE
      OBVIOUS
    <2>1. PICK k \in Bad : \A m \in Bad : k <= m
      <3>1. Bad \in SUBSET Nat
        OBVIOUS
      <3> HIDE DEF Bad
      <3> QED
        BY <3>1, LeastNat
    <2>2. CASE k = 0
      <3>1. Good([i \in n + 1 - 0 .. n |-> 0], 0)
        OBVIOUS
      <3> QED
        BY <2>1, <2>2, <3>1
    <2>3. CASE k # 0
      <3>1. k \in 1 .. n /\ k - 1 \in 0 .. n /\ k - 1 \notin Bad
        <4>1. Bad \subseteq 0 .. n
          OBVIOUS
        <4> HIDE DEF Bad
        <4> QED
          BY <2>1, <2>3, <4>1
      <3>2. PICK f : Good(f, k - 1)
        BY <3>1
      <3> DEFINE g == [i \in n + 1 - k .. n |-> IF i = n + 1 - k THEN From(f, i) ELSE f[i]]
      <3>3. \A i \in n + 1 - k .. n : g[i] = From(g, i)
        <4> TAKE i \in n + 1 - k .. n
        <4> DEFINE c == EarlierChild(h, i, n)
        <4>0. i \in 1 .. n /\ n \in 1 .. Len(h)
          BY <1>a, <3>1
        <4>1. 2 * i <= n => c \in i + 1 .. n
          <5> SUFFICES ASSUME 2 * i <= n PROVE EarlierChild(h, i, n) \in i + 1 .. n
            OBVIOUS
          <5> QED
            BY <4>0, EarlierChildIs
        <4> HIDE DEF c
        <4>2. 2 * i <= n => c \in n + 1 - k .. n /\ c # n + 1 - k
          BY <3>1, <4>1
        <4>3. 2 * i <= n => g[c] = f[c]
          BY <4>2
        <4>4. From(g, i) = From(f, i)
          BY <1>1, <4>3 DEF c
        <4>5. i # n + 1 - k => i \in n + 1 - (k - 1) .. n /\ f[i] = From(f, i)
          <5> SUFFICES ASSUME i # n + 1 - k PROVE i \in n + 1 - (k - 1) .. n /\ f[i] = From(f, i)
            OBVIOUS
          <5>1. i \in n + 1 - (k - 1) .. n
            BY <3>1
          <5> QED
            BY <3>2, <5>1
        <4>6. g[i] = IF i = n + 1 - k THEN From(f, i) ELSE f[i]
          OBVIOUS
        <4> QED
          BY <4>4, <4>5, <4>6
      <3>4. Good(g, k)
        BY <3>3
      <3> QED
        BY <2>1, <3>4
    <2> QED
      BY <2>2, <2>3
  <1>4. \E f : Good(f, n)
    <2> HIDE DEF Good
    <2>1. n \notin Bad
      <3> HIDE DEF Bad
      <3> QED
        BY <1>3
    <2>2. n \in 0 .. n
      BY <1>a
    <2> QED
      BY <2>1, <2>2
  <1> DEFINE W == CHOOSE f : Good(f, n)
  <1>5. Good(W, n)
    <2> HIDE DEF Good
    <2> QED
      BY <1>4
  <1> HIDE DEF W
  <1>6. \A i \in 1 .. n : W[i] = From(W, i)
    BY <1>a, <1>5
  <1>7. Remove(h) = W[1]
    BY <1>2 DEF W
  <1>8. ASSUME NEW i \in 1 .. n
        PROVE  LET c == EarlierChild(h, i, n)
               IN  W[i] = IF 2 * i <= n /\ h[n + 1].time > h[c].time
                          THEN [W[c] EXCEPT ![i] = h[c]]
                          ELSE [SubSeq(h, 1, n) EXCEPT ![i] = h[n + 1]]
    <2>1. W[i] = From(W, i)
      BY <1>6
    <2> QED
      BY <2>1 DEF From
  <1> QED
    BY <1>7, <1>8

\* What Remove returns, for a heap: a heap, that holds all that the heap held
\* but its first event.
LEMMA RemoveIsRight ==
  ASSUME NEW E, Times(E), NEW h \in Seq(E), Heap(h), NEW n \in Nat \ {0}, Len(h) = n + 1
  PROVE  /\ Remove(h) \in Seq(E) /\ Len(Remove(h)) = n
         /\ Heap(Remove(h))
         /\ \E pi : Filled(h, 1, h[n + 1], Remove(h), pi, n)
  <1> DEFINE e == h[n + 1]
             S == SubSeq(h, 1, n)
  <1>1. PICK W : /\ Remove(h) = W[1]
                 /\ \A i \in 1 .. n :
                      LET c == EarlierChild(h, i, n)
                      IN  W[i] = IF 2 * i <= n /\ e.time > h[c].time
                                 THEN [W[c] EXCEPT ![i] = h[c]]
                                 ELSE [S EXCEPT ![i] = e]
    BY RemoveRecursion
  <1>2. /\ n \in Nat \ {0} /\ S \in [1 .. n -> E] /\ e \in E
        /\ \A j \in 1 .. n : S[j] = h[j] /\ h[j] \in E
        /\ \A v \in E : v.time \in Int
    <2>1. n \in Nat \ {0} /\ S \in Seq(E) /\ Len(S) = n
      OBVIOUS
    <2>2. \A j \in 1 .. n : S[j] = h[j] /\ h[j] \in E
      OBVIOUS
    <2>3. e \in E /\ \A v \in E : v.time \in Int
      BY DEF Times
    <2> HIDE DEF S
    <2> QED
      BY <2>1, <2>2, <2>3
  <1>3. \A j \in 2 .. n : j \div 2 \in 1 .. j - 1 /\ h[j \div 2].time <= h[j].time
    BY <1>2, Halves DEF Heap
  <1>a. \A i \in 1 .. n : LET c == EarlierChild(h, i, n)
                          IN 2 * i <= n =>
                               /\ c \in i + 1 .. n /\ c \div 2 = i /\ 2 * i <= c /\ 2 * i + 1 < 2 * c
                               /\ \A j \in 2 .. n : j \div 2 = i => h[c].time <= h[j].time
    <2> TAKE i \in 1 .. n
    <2>1. n \in 1 .. Len(h)
      OBVIOUS
    <2> SUFFICES ASSUME 2 * i <= n
                 PROVE LET c == EarlierChild(h, i, n)
                       IN  /\ c \in i + 1 .. n /\ c \div 2 = i /\ 2 * i <= c /\ 2 * i + 1 < 2 * c
                           /\ \A j \in 2 .. n : j \div 2 = i => h[c].time <= h[j].time
      OBVIOUS
    <2> QED
      BY <2>1, EarlierChildIs
  <1> HIDE DEF e, S
  <1> DEFINE Reached(i) == i = 1 \/ h[i].time < e.time
             Rest(i) == \A j \in 1 .. n : j < 2 * i /\ j # i => W[i][j] = h[j]
             Late(i) == i # 1 => h[i].time <= W[i][i].time
             Order(i) == \A j \in 2 .. n : j # i => W[i][j \div 2].time <= W[i][j].time
             Same(i) == \E pi : /\ Filled(S, i, e, W[i], pi, n)
                                /\ \A j \in 1 .. n : j < 2 * i /\ j # i => pi[j] = j
             Claim(i) == Reached(i) => /\ W[i] \in [1 .. n -> E] /\ Rest(i) /\ Late(i)
                                       /\ Order(i) /\ Same(i)
             B == {m \in 0 .. n - 1 : ~Claim(n - m)}
  <1>4. ASSUME NEW i \in 1 .. n, Reached(i), ~(2 * i <= n /\ e.time > h[EarlierChild(h, i, n)].time)
        PROVE  Claim(i)
    <2>1. W[i] = [S EXCEPT ![i] = e]
      BY <1>1, <1>4
    <2>2. W[i] \in [1 .. n -> E] /\ W[i][i] = e /\ \A j \in 1 .. n : j # i => W[i][j] = h[j]
      BY <1>2, <2>1
    <2>3. Rest(i) /\ Late(i)
      <3>1. Rest(i)
        BY <2>2
      <3>2. ASSUME i # 1 PROVE h[i].time <= W[i][i].time
        BY <1>2, <1>4, <2>2, <3>2
      <3> QED
        BY <3>1, <3>2
    <2>4. Order(i)
      <3> SUFFICES ASSUME NEW j \in 2 .. n, j # i PROVE W[i][j \div 2].time <= W[i][j].time
        OBVIOUS
      <3>1. j \div 2 \in 1 .. j - 1 /\ j \div 2 \in 1 .. n /\ h[j].time \in Int /\ W[i][j] = h[j]
        BY <1>2, <2>2, Halves
      <3>2. CASE j \div 2 = i
        <4> DEFINE c == EarlierChild(h, i, n)
        <4>1. 2 * i <= n
          BY <3>2
        <4>2. c \in i + 1 .. n /\ h[c].time <= h[j].time
          BY <1>a, <3>2, <4>1
        <4>3. ~(e.time > h[c].time)
          BY <1>4, <4>1
        <4> HIDE DEF c
        <4>4. h[c].time \in Int /\ e.time \in Int
          BY <1>2, <4>2
        <4>5. e.time <= h[j].time
          BY <3>1, <4>2, <4>3, <4>4
        <4>6. W[i][i] = e
          BY <2>2
        <4> QED
          BY <3>1, <3>2, <4>5, <4>6
      <3>3. CASE j \div 2 # i
        <4>1. W[i][j \div 2] = h[j \div 2]
          BY <2>2, <3>1, <3>3
        <4> QED
          BY <1>3, <3>1, <4>1
      <3> QED
        BY <3>2, <3>3
    <2>5. Same(i)
      <3> DEFINE id == [j \in 1 .. n |-> j]
      <3>1. Permutes(id, n)
        BY DEF Permutes
      <3>2. \A j \in 1 .. n : id[j] = j
        OBVIOUS
      <3> HIDE DEF id
      <3>3. Filled(S, i, e, W[i], id, n)
        BY <1>2, <2>2, <3>1, <3>2 DEF Filled
      <3> QED
        BY <3>2, <3>3
    <2> QED
      BY <2>2, <2>3, <2>4, <2>5
  <1>5. ASSUME NEW i \in 1 .. n, Reached(i), 2 * i <= n, e.time > h[EarlierChild(h, i, n)].time,
               Claim(EarlierChild(h, i, n))
        PROVE  Claim(i)
    <2> DEFINE c == EarlierChild(h, i, n)
    <2>0. /\ c \in i + 1 .. n /\ c \div 2 = i /\ 2 * i <= c /\ 2 * i + 1 < 2 * c
          /\ \A j \in 2 .. n : j \div 2 = i => h[c].time <= h[j].time
      BY <1>a, <1>5
    <2>a. W[i] = [W[c] EXCEPT ![i] = h[c]]
      BY <1>1, <1>5
    <2>b. Claim(c) /\ e.time > h[c].time
      BY <1>5
    <2> HIDE DEF c, Claim
    <2>c. h[c] \in E /\ S[c] = h[c] /\ h[c].time \in Int /\ e.time \in Int
          /\ c \in 2 .. n /\ c # 1 /\ i # c
      BY <1>2, <2>0
    <2>1. W[c] \in [1 .. n -> E] /\ Rest(c) /\ Late(c) /\ Order(c) /\ Same(c)
      <3>1. Reached(c)
        BY <2>b, <2>c
      <3> QED
        BY <2>b, <3>1 DEF Claim
    <2>3. W[i] \in [1 .. n -> E] /\ W[i][i] = h[c] /\ \A j \in 1 .. n : j # i => W[i][j] = W[c][j]
      BY <2>1, <2>a, <2>c
    <2>4. Rest(i)
      <3> SUFFICES ASSUME NEW j \in 1 .. n, j < 2 * i, j # i PROVE W[i][j] = h[j]
        OBVIOUS
      <3>1. j < 2 * c /\ j # c
        BY <2>0
      <3> QED
        BY <2>1, <2>3, <3>1
    <2>5. i # 1 => i \in 2 .. n /\ h[i].time <= h[c].time
      <3>1. h[c \div 2].time <= h[c].time
        BY <1>3, <2>c
      <3> QED
        BY <2>0, <3>1
    <2>6. Late(i)
      BY <2>3, <2>5
    <2>7. Order(i)
      <3> SUFFICES ASSUME NEW j \in 2 .. n, j # i PROVE W[i][j \div 2].time <= W[i][j].time
        OBVIOUS
      <3>1. j \div 2 \in 1 .. j - 1 /\ j \div 2 \in 1 .. n /\ j \in 1 .. n /\ h[j].time \in Int
        BY <1>2, Halves
      <3>2. CASE j \div 2 = i /\ j = c
        <4>1. h[c].time <= W[c][c].time
          BY <2>1, <2>c
        <4> QED
          BY <2>3, <3>1, <3>2, <4>1
      <3>3. CASE j \div 2 = i /\ j # c
        <4>1. j < 2 * c
          BY <2>0, <3>3
        <4>2. W[c][j] = h[j] /\ h[c].time <= h[j].time
          BY <2>0, <2>1, <3>1, <3>3, <4>1
        <4> QED
          BY <2>3, <3>1, <3>3, <4>2
      <3>4. CASE j \div 2 # i
        <4>1. W[i][j] = W[c][j] /\ W[i][j \div 2] = W[c][j \div 2] /\ j # c
          BY <2>0, <2>3, <3>1, <3>4
        <4> QED
          BY <2>1, <4>1
      <3> QED
        BY <3>2, <3>3, <3>4
    <2>8. Same(i)
      <3>1. PICK pi : /\ Filled(S, c, e, W[c], pi, n)
                      /\ \A j \in 1 .. n : j < 2 * c /\ j # c => pi[j] = j
        BY <2>1
      <3>2. pi[i] = i
        BY <2>0, <3>1
      <3>3. PICK rho :
              Filled(S, i, e, W[i], rho, n) /\ Keeps(pi, rho, i, c, n)
        <4>1. n \in Nat /\ c \in 1 .. n /\ i # c
          BY <1>2, <2>c
        <4>2. With(W[c], i, S[c], W[i], n)
          BY <2>3, <2>c DEF With
        <4>3. Filled(S, c, e, W[c], pi, n)
          BY <3>1
        <4> QED
          BY <3>2, <4>1, <4>2, <4>3, HoleMoves
      <3>4. \A j \in 1 .. n : j < 2 * i /\ j # i => rho[j] = j
        <4> SUFFICES ASSUME NEW j \in 1 .. n, j < 2 * i, j # i PROVE rho[j] = j
          OBVIOUS
        <4>1. j < 2 * c /\ j # c
          BY <2>0
        <4> QED
          BY <3>1, <3>3, <4>1 DEF Keeps
      <3> QED
        BY <3>3, <3>4
    <2> QED
      BY <2>3, <2>4, <2>6, <2>7, <2>8 DEF Claim
  <1>6. ASSUME NEW m \in B, \A k \in B : m <= k PROVE FALSE
    <2> DEFINE i == n - m
    <2>0. m \in 0 .. n - 1 /\ i \in 1 .. n /\ ~Claim(i)
      OBVIOUS
    <2>9. \A k \in 0 .. n - 1 : k < m => Claim(n - k)
      <3> SUFFICES ASSUME NEW k \in 0 .. n - 1, k < m, ~Claim(n - k) PROVE FALSE
        OBVIOUS
      <3>1. k \in B
        OBVIOUS
      <3> HIDE DEF B, Claim
      <3>2. m <= k
        BY <1>6, <3>1
      <3> QED
        BY <2>0, <3>2
    <2> HIDE DEF i, B
    <2>a. Reached(i)
      BY <2>0
    <2> HIDE DEF Claim, Reached
    <2>1. 2 * i <= n /\ e.time > h[EarlierChild(h, i, n)].time
      BY <1>4, <2>0, <2>a
    <2>2. EarlierChild(h, i, n) \in i + 1 .. n
      BY <1>a, <2>0, <2>1
    <2>3. PICK k \in 0 .. n - 1 : k < m /\ EarlierChild(h, i, n) = n - k
      <3>1. n - EarlierChild(h, i, n) \in 0 .. n - 1 /\ n - EarlierChild(h, i, n) < m
        BY <2>0, <2>2 DEF i
      <3>2. EarlierChild(h, i, n) = n - (n - EarlierChild(h, i, n))
        BY <2>2
      <3> QED
        BY <3>1, <3>2
    <2>4. Claim(EarlierChild(h, i, n))
      BY <2>3, <2>9
    <2> QED
      BY <1>5, <2>0, <2>1, <2>4, <2>a
  <1>7. B \in SUBSET Nat
    BY <1>2
  <1>8. B = {}
    <2> HIDE DEF B
    <2> QED
      BY <1>6, <1>7, LeastNat
  <1>9. Claim(1)
    <2> HIDE DEF Claim
    <2>1. n - 1 \in 0 .. n - 1 /\ n - (n - 1) = 1
      BY <1>2
    <2>2. n - 1 \notin B
      <3> HIDE DEF B
      <3> QED
        BY <1>8
    <2>3. Claim(n - (n - 1))
      BY <2>1, <2>2
    <2> QED
      BY <2>1, <2>3
  <1> DEFINE t == Remove(h)
  <1>10. t \in [1 .. n -> E] /\ (\A j \in 2 .. n : t[j \div 2].time <= t[j].time) /\ Same(1)
    BY <1>1, <1>9
  <1>11. PICK pi : Filled(S, 1, e, t, pi, n)
    BY <1>1, <1>10
  <1>12. Filled(h, 1, e, t, pi, n)
    <2>1. \A j \in 1 .. n : pi[j] \in 1 .. n
      BY <1>11 DEF Filled, Permutes
    <2> QED
      BY <1>2, <1>11, <2>1 DEF Filled
  <1> HIDE DEF t
  <1>13. t \in Seq(E) /\ Len(t) = n
    BY <1>2, <1>10
  <1>14. Heap(t)
    BY <1>10, <1>13 DEF Heap
  <1> QED
    BY <1>12, <1>13, <1>14 DEF t, e

-----------------------------------------------------------------------------
(***************************************************************************)
(* What the queues hold after a packet was put in or taken out.            *)
(***************************************************************************)

\* No packet is twice in a list; a 0 stands for none.
Once(s) == \A i, j \in DOMAIN s : s[i] # 0 /\ s[i] = s[j] => i = j

\* No packet has two events.
OnceEach(h) == \A i, j \in DOMAIN h : h[i].packet = h[j].packet => i = j

PacketsOf(h) == {h[i].packet : i \in DOMAIN h}

LEMMA AppendHolds ==
  ASSUME NEW A, NEW s \in Seq(A), NEW e \in A
  PROVE  /\ Append(s, e) \in Seq(A) /\ Len(Append(s, e)) = Len(s) + 1
         /\ Elements(Append(s, e)) = Elements(s) \cup {e}
         /\ Once(s) /\ (e = 0 \/ e \notin Elements(s)) => Once(Append(s, e))
  <1> DEFINE t == Append(s, e)
             n == Len(s)
  <1>1. /\ t \in Seq(A) /\ Len(t) = n + 1 /\ n \in Nat
        /\ DOMAIN t = 1 .. n + 1 /\ DOMAIN s = 1 .. n
        /\ t[n + 1] = e /\ \A i \in 1 .. n : t[i] = s[i]
    OBVIOUS
  <1> HIDE DEF t, n
  <1>2. 1 .. n + 1 = (1 .. n) \cup {n + 1} /\ n + 1 \notin 1 .. n
    BY <1>1
  <1>3. Elements(t) = Elements(s) \cup {e}
    BY <1>1, <1>2 DEF Elements
  <1>4. ASSUME Once(s), e = 0 \/ e \notin Elements(s) PROVE Once(t)
    <2>1. \A i \in 1 .. n : s[i] # e \/ e = 0
      BY <1>1, <1>4 DEF Elements
    <2> QED
      BY <1>1, <1>2, <1>4, <2>1 DEF Once
  <1> QED
    BY <1>1, <1>3, <1>4 DEF t, n

LEMMA TailHolds ==
  ASSUME NEW A, NEW s \in Seq(A), s # <<>>
  PROVE  /\ Head(s) \in A /\ Tail(s) \in Seq(A) /\ Len(Tail(s)) = Len(s) - 1 /\ Len(s) \in Nat \ {0}
         /\ Elements(s) = Elements(Tail(s)) \cup {Head(s)}
         /\ Once(s) => Once(Tail(s)) /\ (Head(s) # 0 => Head(s) \notin Elements(Tail(s)))
  <1> DEFINE t == Tail(s)
             n == Len(s)
             e == Head(s)
  <1>1. /\ t \in Seq(A) /\ Len(t) = n - 1 /\ n \in Nat \ {0} /\ e \in A /\ e = s[1]
        /\ DOMAIN t = 1 .. n - 1 /\ DOMAIN s = 1 .. n
        /\ \A i \in 1 .. n - 1 : t[i] = s[i + 1]
    OBVIOUS
  <1> HIDE DEF t, n, e
  <1>2. \A i \in 1 .. n - 1 : i + 1 \in 1 .. n /\ i + 1 # 1
    BY <1>1
  <1>3. \A i \in 1 .. n : i = 1 \/ (i - 1 \in 1 .. n - 1 /\ i = (i - 1) + 1)
    BY <1>1
  <1>4. Elements(s) = Elements(t) \cup {e}
    <2>1. ASSUME NEW i \in 1 .. n PROVE s[i] \in Elements(t) \cup {e}
      <3>1. CASE i = 1
        BY <1>1, <3>1
      <3>2. CASE i - 1 \in 1 .. n - 1 /\ i = (i - 1) + 1
        <4>1. s[i] = t[i - 1]
          BY <1>1, <3>2
        <4> QED
          BY <1>1, <3>2, <4>1 DEF Elements
      <3> QED
        BY <1>3, <3>1, <3>2
    <2>2. e \in Elements(s)
      BY <1>1 DEF Elements
    <2>3. Elements(t) \subseteq Elements(s)
      BY <1>1, <1>2 DEF Elements
    <2>4. Elements(s) \subseteq Elements(t) \cup {e}
      BY <1>1, <2>1 DEF Elements
    <2> QED
      BY <2>2, <2>3, <2>4
  <1>5. ASSUME Once(s) PROVE Once(t) /\ (e # 0 => e \notin Elements(t))
    <2>1. Once(t)
      <3> SUFFICES ASSUME NEW i \in 1 .. n - 1, NEW j \in 1 .. n - 1, t[i] # 0, t[i] = t[j]
                   PROVE  i = j
        BY <1>1 DEF Once
      <3>1. i + 1 = j + 1
        BY <1>1, <1>2, <1>5 DEF Once
      <3> QED
        BY <3>1
    <2>2. ASSUME e # 0, NEW i \in 1 .. n - 1, t[i] = e PROVE FALSE
      <3>1. 1 \in 1 .. n /\ i + 1 \in 1 .. n /\ i + 1 # 1 /\ s[i + 1] = s[1]
        BY <1>1, <1>2, <2>2
      <3> QED
        BY <1>1, <1>5, <2>2, <3>1 DEF Once
    <2> QED
      BY <1>1, <2>1, <2>2 DEF Elements
  <1> QED
    BY <1>1, <1>4, <1>5 DEF t, n, e

\* What f has in J, g has in K.
Within(f, J, g, K) == \A j \in J : \E k \in K : f[j] = g[k]
ValuesIn(f, J) == {f[j] : j \in J}
PacketsIn(f, J) == {f[j].packet : j \in J}

LEMMA SameRange ==
  ASSUME NEW f, NEW g, NEW J, NEW K, Within(f, J, g, K), Within(g, K, f, J)
  PROVE  ValuesIn(f, J) = ValuesIn(g, K) /\ PacketsIn(f, J) = PacketsIn(g, K)
  <1>1. ASSUME NEW x PROVE x \in ValuesIn(f, J) <=> x \in ValuesIn(g, K)
    BY DEF Within, ValuesIn
  <1>2. ASSUME NEW x PROVE x \in PacketsIn(f, J) <=> x \in PacketsIn(g, K)
    BY DEF Within, PacketsIn
  <1> QED
    BY <1>1, <1>2 DEF ValuesIn, PacketsIn

\* What is in a rearranged list is in the list.
LEMMA SameElements ==
  ASSUME NEW A, NEW s \in Seq(A), NEW t \in Seq(A), NEW n \in Nat, Len(s) = n, Len(t) = n,
         NEW pi, Permutes(pi, n), \A j \in 1 .. n : t[j] = s[pi[j]]
  PROVE  /\ Elements(t) = Elements(s) /\ PacketsOf(t) = PacketsOf(s)
         /\ OnceEach(s) => OnceEach(t)
  <1>1. DOMAIN s = 1 .. n /\ DOMAIN t = 1 .. n
    OBVIOUS
  <1>2. /\ \A j \in 1 .. n : pi[j] \in 1 .. n
        /\ \A i, j \in 1 .. n : pi[i] = pi[j] => i = j
        /\ \A k \in 1 .. n : \E j \in 1 .. n : pi[j] = k
    BY DEF Permutes
  <1>a. \A j \in 1 .. n : t[j] = s[pi[j]]
    OBVIOUS
  <1>b. \A k \in 1 .. n : \E j \in 1 .. n : s[k] = t[j]
    <2> TAKE k \in 1 .. n
    <2>1. PICK j \in 1 .. n : pi[j] = k
      BY <1>2
    <2> QED
      BY <1>a, <2>1
  <1>c. \A j \in 1 .. n : \E k \in 1 .. n : t[j] = s[k]
    BY <1>2, <1>a
  <1>3. Elements(t) = Elements(s) /\ PacketsOf(t) = PacketsOf(s)
    <2>1. Within(t, 1 .. n, s, 1 .. n) /\ Within(s, 1 .. n, t, 1 .. n)
      BY <1>b, <1>c DEF Within
    <2>2. ValuesIn(t, 1 .. n) = ValuesIn(s, 1 .. n) /\ PacketsIn(t, 1 .. n) = PacketsIn(s, 1 .. n)
      BY <2>1, SameRange
    <2> QED
      BY <1>1, <2>2 DEF Elements, PacketsOf, ValuesIn, PacketsIn
  <1>5. ASSUME OnceEach(s) PROVE OnceEach(t)
    <2> SUFFICES ASSUME NEW i \in 1 .. n, NEW j \in 1 .. n, t[i].packet = t[j].packet
                 PROVE  i = j
      BY <1>1 DEF OnceEach
    <2>1. s[pi[i]].packet = s[pi[j]].packet /\ pi[i] \in 1 .. n /\ pi[j] \in 1 .. n
      BY <1>2, <1>a
    <2>2. pi[i] = pi[j]
      BY <1>1, <1>5, <2>1 DEF OnceEach
    <2> QED
      BY <1>2, <2>2
  <1> QED
    BY <1>3, <1>5

LEMMA AddHolds ==
  ASSUME NEW E, Times(E), NEW h \in Seq(E), Heap(h), NEW e \in E
  PROVE  /\ Add(h, e) \in Seq(E) /\ Len(Add(h, e)) = Len(h) + 1 /\ Heap(Add(h, e))
         /\ Elements(Add(h, e)) = Elements(h) \cup {e}
         /\ PacketsOf(Add(h, e)) = PacketsOf(h) \cup {e.packet}
         /\ OnceEach(h) /\ e.packet \notin PacketsOf(h) => OnceEach(Add(h, e))
  <1> DEFINE t == Add(h, e)
             s == Append(h, e)
             n == Len(h)
  <1>1. t \in Seq(E) /\ Len(t) = n + 1 /\ Heap(t) /\ Rearranged(t, s, n + 1)
    BY AddIsRight
  <1>2. PICK pi : Permutes(pi, n + 1) /\ \A j \in 1 .. n + 1 : t[j] = s[pi[j]]
    <2> HIDE DEF s, t, n
    <2> QED
      BY <1>1 DEF Rearranged
  <1>3. /\ s \in Seq(E) /\ Len(s) = n + 1 /\ n \in Nat /\ n + 1 \in Nat
        /\ DOMAIN s = 1 .. n + 1 /\ DOMAIN h = 1 .. n
        /\ s[n + 1] = e /\ \A i \in 1 .. n : s[i] = h[i]
    OBVIOUS
  <1> HIDE DEF t, s, n
  <1>4. /\ Elements(t) = Elements(s) /\ PacketsOf(t) = PacketsOf(s)
        /\ OnceEach(s) => OnceEach(t)
    BY <1>1, <1>2, <1>3, SameElements
  <1>5. 1 .. n + 1 = (1 .. n) \cup {n + 1} /\ n + 1 \notin 1 .. n
    BY <1>3
  <1>6. Elements(s) = Elements(h) \cup {e}
    BY <1>3, <1>5 DEF Elements
  <1>7. PacketsOf(s) = PacketsOf(h) \cup {e.packet}
    BY <1>3, <1>5 DEF PacketsOf
  <1>8. ASSUME OnceEach(h), e.packet \notin PacketsOf(h) PROVE OnceEach(s)
    <2>1. \A i \in 1 .. n : h[i].packet # e.packet
      BY <1>3, <1>8 DEF PacketsOf
    <2> QED
      BY <1>3, <1>5, <1>8, <2>1 DEF OnceEach
  <1> QED
    BY <1>1, <1>4, <1>6, <1>7, <1>8 DEF t, s, n

LEMMA RemoveHolds ==
  ASSUME NEW E, Times(E), NEW h \in Seq(E), Heap(h), h # <<>>, OnceEach(h)
  PROVE  /\ Remove(h) \in Seq(E) /\ Len(Remove(h)) = Len(h) - 1 /\ Len(h) \in Nat \ {0}
         /\ Heap(Remove(h)) /\ OnceEach(Remove(h)) /\ h[1] \in E
         /\ Elements(Remove(h)) = Elements(h) \ {h[1]} /\ h[1] \in Elements(h)
         /\ PacketsOf(Remove(h)) = PacketsOf(h) \ {h[1].packet} /\ h[1].packet \in PacketsOf(h)
  <1> DEFINE n == Len(h) - 1
             t == Remove(h)
  <1>0. /\ n \in Nat /\ Len(h) = n + 1 /\ DOMAIN h = 1 .. n + 1 /\ 1 \in 1 .. n + 1
        /\ n + 1 \in 1 .. n + 1 /\ h[1] \in E
    OBVIOUS
  <1>a. h[1] \in Elements(h) /\ h[1].packet \in PacketsOf(h)
    BY <1>0 DEF Elements, PacketsOf
  <1>1. CASE n = 0
    <2>1. t = <<>>
      BY <1>1 DEF Remove
    <2>2. <<>> \in Seq(E) /\ Len(<<>>) = 0 /\ DOMAIN <<>> = {}
      OBVIOUS
    <2>3. DOMAIN h = {1}
      <3>1. 1 .. 0 + 1 = {1}
        OBVIOUS
      <3> HIDE DEF n
      <3> QED
        BY <1>0, <1>1, <3>1
    <2> HIDE DEF t
    <2>4. Elements(t) = {} /\ PacketsOf(t) = {} /\ OnceEach(t)
      BY <2>1, <2>2 DEF Elements, PacketsOf, OnceEach
    <2>5. Elements(h) = {h[1]} /\ PacketsOf(h) = {h[1].packet}
      BY <2>3 DEF Elements, PacketsOf
    <2>6. Heap(t)
      BY <2>1, <2>2 DEF Heap
    <2> QED
      BY <1>0, <1>1, <1>a, <2>1, <2>2, <2>4, <2>5, <2>6 DEF t
  <1>2. CASE n # 0
    <2>0. n \in Nat \ {0}
      BY <1>0, <1>2
    <2>a. Len(h) = n + 1
      BY <1>0
    <2> HIDE DEF n
    <2>1. t \in Seq(E) /\ Len(t) = n /\ Heap(t)
      BY <2>a, <2>0, RemoveIsRight
    <2>2. PICK pi : Filled(h, 1, h[n + 1], t, pi, n)
      BY <2>a, <2>0, RemoveIsRight
    <2> DEFINE at(j) == IF pi[j] = 1 THEN n + 1 ELSE pi[j]
    <2>3. /\ \A j \in 1 .. n : pi[j] \in 1 .. n /\ t[j] = h[at(j)]
          /\ \A i, j \in 1 .. n : pi[i] = pi[j] => i = j
          /\ \A k \in 1 .. n : \E j \in 1 .. n : pi[j] = k
      BY <2>2 DEF Filled, Permutes
    <2>4. DOMAIN t = 1 .. n /\ t \in Seq(E)
      BY <2>1
    <2> HIDE DEF t, n
    <2>5. /\ \A j \in 1 .. n : at(j) \in 2 .. n + 1
          /\ \A i, j \in 1 .. n : at(i) = at(j) => i = j
      <3>1. ASSUME NEW j \in 1 .. n
            PROVE  at(j) \in 2 .. n + 1 /\ (at(j) = n + 1 <=> pi[j] = 1)
        <4>1. pi[j] \in 1 .. n
          BY <2>3
        <4>2. CASE pi[j] = 1
          BY <2>0, <4>2
        <4>3. CASE pi[j] # 1
          BY <2>0, <4>1, <4>3
        <4> QED
          BY <4>2, <4>3
      <3>2. ASSUME NEW i \in 1 .. n, NEW j \in 1 .. n, at(i) = at(j) PROVE pi[i] = pi[j]
        <4>1. pi[i] \in 1 .. n /\ pi[j] \in 1 .. n
          BY <2>3
        <4> QED
          BY <2>0, <3>2, <4>1
      <3> QED
        BY <2>3, <3>1, <3>2
    <2>6. \A k \in 2 .. n + 1 : \E j \in 1 .. n : at(j) = k
      <3> TAKE k \in 2 .. n + 1
      <3>0. (IF k = n + 1 THEN 1 ELSE k) \in 1 .. n
        BY <2>0
      <3>1. PICK j \in 1 .. n : pi[j] = IF k = n + 1 THEN 1 ELSE k
        BY <2>3, <3>0
      <3> QED
        BY <2>0, <3>1
    <2> HIDE DEF at
    <2>7. 1 .. n + 1 = (2 .. n + 1) \cup {1} /\ 1 \notin 2 .. n + 1
      BY <2>0
    <2>8. Elements(t) = {h[k] : k \in 2 .. n + 1} /\ PacketsOf(t) = {h[k].packet : k \in 2 .. n + 1}
      <3>1. Elements(t) = {t[j] : j \in 1 .. n} /\ PacketsOf(t) = {t[j].packet : j \in 1 .. n}
        BY <2>4 DEF Elements, PacketsOf
      <3>2. \A j \in 1 .. n : \E k \in 2 .. n + 1 : t[j] = h[k]
        BY <2>3, <2>5
      <3>3. \A k \in 2 .. n + 1 : \E j \in 1 .. n : t[j] = h[k]
        BY <2>3, <2>6
      <3>3a. \A k \in 2 .. n + 1 : \E j \in 1 .. n : h[k] = t[j]
        BY <3>3
      <3>4. /\ {t[j] : j \in 1 .. n} = {h[k] : k \in 2 .. n + 1}
            /\ {t[j].packet : j \in 1 .. n} = {h[k].packet : k \in 2 .. n + 1}
        <4>1. Within(t, 1 .. n, h, 2 .. n + 1) /\ Within(h, 2 .. n + 1, t, 1 .. n)
          BY <3>2, <3>3a DEF Within
        <4>2. /\ ValuesIn(t, 1 .. n) = ValuesIn(h, 2 .. n + 1)
              /\ PacketsIn(t, 1 .. n) = PacketsIn(h, 2 .. n + 1)
          BY <4>1, SameRange
        <4> QED
          BY <4>2 DEF ValuesIn, PacketsIn
      <3> QED
        BY <3>1, <3>4
    <2>9. \A k \in 2 .. n + 1 : h[k].packet # h[1].packet /\ h[k] # h[1]
      BY <1>0, <2>7 DEF OnceEach
    <2>10. Elements(t) = Elements(h) \ {h[1]} /\ PacketsOf(t) = PacketsOf(h) \ {h[1].packet}
      BY <1>0, <2>7, <2>8, <2>9 DEF Elements, PacketsOf
    <2>11. OnceEach(t)
      <3> SUFFICES ASSUME NEW i \in 1 .. n, NEW j \in 1 .. n, t[i].packet = t[j].packet
                   PROVE  i = j
        BY <2>4 DEF OnceEach
      <3>0. t[i] = h[at(i)] /\ t[j] = h[at(j)] /\ at(i) \in 1 .. n + 1 /\ at(j) \in 1 .. n + 1
        BY <2>3, <2>5, <2>7
      <3>1. at(i) = at(j)
        BY <1>0, <3>0 DEF OnceEach
      <3> QED
        BY <2>5, <3>1
    <2> QED
      BY <1>0, <1>a, <2>1, <2>10, <2>11 DEF t, n
  <1> QED
    BY <1>1, <1>2

-----------------------------------------------------------------------------
(***************************************************************************)
(* The invariant.  Every packet that has arrived is in one queue at most,  *)
(* or freed; the heap is a heap; and the blocks of the callback that       *)
(* remain end before Never, so that an empty heap is never due.            *)
(***************************************************************************)

Waits == Elements(incoming)
Handed == Elements(handled) \ {0}
Sent == Elements(outgoing)

Known ==
  Waits \cup Handed \cup Scheduled \cup Sent \cup freed \cup performed \subseteq 1 .. arrived

Apart ==
  /\ Waits \cap Handed = {} /\ Waits \cap Scheduled = {} /\ Waits \cap Sent = {}
  /\ Handed \cap Scheduled = {} /\ Handed \cap Sent = {} /\ Scheduled \cap Sent = {}
  /\ freed \cap Waits = {} /\ freed \cap Handed = {} /\ freed \cap Scheduled = {}
  /\ freed \cap Sent = {}
  /\ performed \cap Waits = {} /\ performed \cap Scheduled = {}

NoneTwice == Once(incoming) /\ Once(handled) /\ OnceEach(heap) /\ Once(outgoing)

BlocksEnd == rt.at # "idle" => rt.left \in 1 .. NumBufs /\ clock + rt.left * Inc < Never

SInv == TypeOK /\ Heap(heap) /\ Known /\ Apart /\ NoneTwice /\ BlocksEnd

Event == [time : Stamps, packet : Packet]

LEMMA EventFacts ==
  /\ Times(Event)
  /\ \A t \in Stamps, p \in Packet : [time |-> t, packet |-> p] \in Event
  /\ 0 \notin Packet /\ MaxPackets \in Nat
  <1>1. \A t \in Stamps : t \in Int
    BY SchedulerAssumption
  <1>2. Times(Event)
    BY <1>1 DEF Times, Event
  <1>3. \A t \in Stamps, p \in Packet : [time |-> t, packet |-> p] \in Event
    BY DEF Event
  <1>4. 0 \notin Packet /\ MaxPackets \in Nat
    BY SchedulerAssumption DEF Packet
  <1> QED
    BY <1>2, <1>3, <1>4

LEMMA EmptyHolds ==
  /\ Elements(<<>>) = {} /\ PacketsOf(<<>>) = {}
  /\ Once(<<>>) /\ OnceEach(<<>>) /\ Heap(<<>>)
  /\ \A S : <<>> \in Seq(S)
  /\ Len(<<>>) = 0
  <1>1. DOMAIN <<>> = {} /\ Len(<<>>) = 0
    OBVIOUS
  <1> QED
    BY <1>1 DEF Elements, PacketsOf, Once, OnceEach, Heap

\* The facts of a state that the steps need.
LEMMA InState ==
  ASSUME SInv
  PROVE  /\ stamp \in [Packet -> Stamps \cup {AtOnce}] /\ arrived \in 0 .. MaxPackets
         /\ incoming \in Seq(Packet) /\ handled \in Seq(Packet \cup {0})
         /\ heap \in Seq(Event) /\ outgoing \in Seq(Packet)
         /\ Scheduled = PacketsOf(heap)
  BY DEF SInv, TypeOK, Event, Scheduled, PacketsOf

LEMMA InitSInv == Init => SInv
  <1> SUFFICES ASSUME Init PROVE SInv
    OBVIOUS
  <1> USE DEF Init
  <1>1. TypeOK
    <2>1. stamp \in [Packet -> Stamps \cup {AtOnce}] /\ rt \in [at : {"idle", "perform", "blocks"}, left : 0 .. NumBufs]
      BY SchedulerAssumption
    <2>2. FifoSize \in Nat /\ HeapSize \in Nat /\ MaxPackets \in Nat
      BY SchedulerAssumption
    <2> QED
      BY <2>1, <2>2, EmptyHolds DEF TypeOK
  <1>2. Heap(heap) /\ NoneTwice
    BY EmptyHolds DEF NoneTwice
  <1>3. Waits = {} /\ Handed = {} /\ Sent = {} /\ Scheduled = {} /\ freed = {} /\ performed = {}
    BY EmptyHolds DEF Waits, Handed, Sent, Scheduled, PacketsOf
  <1>4. Known /\ Apart
    BY <1>3 DEF Known, Apart
  <1>5. BlocksEnd
    BY DEF BlocksEnd
  <1> QED
    BY <1>1, <1>2, <1>4, <1>5 DEF SInv

\* A packet arrives: the port frees what the FIFO refuses.
LEMMA ReceiveInv ==
  ASSUME SInv, NEW t \in Stamps \cup {AtOnce}, Receive(t)
  PROVE  SInv'
  <1>1. /\ stamp \in [Packet -> Stamps \cup {AtOnce}] /\ arrived \in 0 .. MaxPackets
        /\ incoming \in Seq(Packet) /\ Once(incoming) /\ Known /\ Apart /\ 0 \notin Packet
        /\ Len(incoming) <= FifoSize /\ FifoSize \in Nat
    BY InState, EventFacts, SchedulerAssumption DEF SInv, NoneTwice, TypeOK
  <1>2. /\ arrived' = arrived + 1 /\ arrived' \in Packet /\ handled' = <<>>
        /\ stamp' = [stamp EXCEPT ![arrived'] = t]
        /\ UNCHANGED <<heap, outgoing, spent, performed, clock, rt>>
    BY DEF Receive
  <1>3. /\ arrived' \in 0 .. MaxPackets /\ arrived' \notin 1 .. arrived /\ 1 .. arrived' = 1 .. arrived \cup {arrived'}
    BY <1>1, <1>2, EventFacts DEF Packet
  <1>4. stamp' \in [Packet -> Stamps \cup {AtOnce}]
    BY <1>1, <1>2
  <1>5. Scheduled' = Scheduled /\ Sent' = Sent /\ performed' = performed
    BY <1>2 DEF Scheduled, Sent
  <1>6. Handed' = {} /\ Once(handled)' /\ handled' \in Seq(Packet \cup {0}) /\ FreeHandled = Handed
    BY <1>2, EmptyHolds DEF Handed, FreeHandled
  <1>7. /\ incoming' \in Seq(Packet) /\ Len(incoming') <= FifoSize /\ Once(incoming)'
        /\ \/ Waits' = Waits \cup {arrived'} /\ freed' = freed \cup Handed
           \/ Waits' = Waits /\ freed' = freed \cup Handed \cup {arrived'}
    <2>1. CASE Len(incoming) < FifoSize
      <3>1. incoming' = Append(incoming, arrived') /\ freed' = freed \cup FreeHandled
        BY <2>1 DEF Receive
      <3>2. arrived' \notin Elements(incoming)
        BY <1>1, <1>3 DEF Known, Waits
      <3> DEFINE a == arrived'
                 s == Append(incoming, a)
      <3>3. /\ s \in Seq(Packet) /\ Len(s) = Len(incoming) + 1
            /\ Elements(s) = Elements(incoming) \cup {a} /\ Once(s)
        <4> HIDE DEF a
        <4>1. a \in Packet /\ a \notin Elements(incoming)
          BY <1>2, <3>2 DEF a
        <4> QED
          BY <1>1, <4>1, AppendHolds
      <3>4. Len(s) <= FifoSize
        BY <1>1, <2>1, <3>3
      <3> QED
        BY <1>6, <3>1, <3>3, <3>4 DEF Waits
    <2>2. CASE ~(Len(incoming) < FifoSize)
      BY <1>1, <1>6, <2>2 DEF Receive, Waits
    <2> QED
      BY <2>1, <2>2
  <1>8. freed' \subseteq Packet
    <2>1. freed \subseteq Packet /\ Handed \subseteq Packet
      BY InState, EventFacts DEF SInv, TypeOK, Handed, Elements
    <2> QED
      BY <1>2, <1>7, <2>1
  <1>9. TypeOK'
    BY <1>2, <1>3, <1>4, <1>6, <1>7, <1>8 DEF SInv, TypeOK
  <1>10. Known'
    BY <1>1, <1>3, <1>5, <1>6, <1>7 DEF Known
  <1>11. Apart'
    <2>1. arrived' \notin Waits \cup Handed \cup Scheduled \cup Sent \cup freed \cup performed
      BY <1>1, <1>3 DEF Known
    <2> QED
      BY <1>1, <1>5, <1>6, <1>7, <2>1 DEF Apart
  <1>12. Heap(heap)' /\ NoneTwice' /\ BlocksEnd'
    BY <1>2, <1>6, <1>7 DEF SInv, NoneTwice, BlocksEnd
  <1> QED
    BY <1>9, <1>10, <1>11, <1>12 DEF SInv

\* The nrt thread frees a packet that was scheduled.
LEMMA FreePacketInv ==
  ASSUME SInv, FreePacket
  PROVE  SInv'
  <1>1. /\ outgoing \in Seq(Packet) /\ outgoing # <<>> /\ Once(outgoing) /\ Known /\ Apart
        /\ 0 \notin Packet /\ spent \in Nat /\ Len(outgoing) + spent <= FifoSize
        /\ freed \subseteq Packet /\ FifoSize \in Nat
    BY InState, EventFacts, SchedulerAssumption DEF SInv, NoneTwice, TypeOK, FreePacket
  <1> DEFINE p == Head(outgoing)
  <1>2. /\ p \in Packet /\ Tail(outgoing) \in Seq(Packet) /\ Len(Tail(outgoing)) = Len(outgoing) - 1
        /\ Sent = Elements(Tail(outgoing)) \cup {p} /\ p \notin Elements(Tail(outgoing))
        /\ Once(Tail(outgoing)) /\ Len(outgoing) \in Nat
    BY <1>1, TailHolds DEF Sent
  <1>3. /\ freed' = freed \cup {p} /\ outgoing' = Tail(outgoing) /\ spent' = spent + 1
        /\ UNCHANGED <<stamp, arrived, incoming, handled, heap, performed, clock, rt>>
    BY DEF FreePacket
  <1>4. /\ Waits' = Waits /\ Handed' = Handed /\ Scheduled' = Scheduled /\ performed' = performed
        /\ arrived' = arrived
    BY <1>3 DEF Waits, Handed, Scheduled
  <1> HIDE DEF p
  <1>5. Sent = Sent' \cup {p} /\ p \notin Sent' /\ Once(outgoing)'
    BY <1>2, <1>3 DEF Sent
  <1>6. TypeOK'
    <2>1. outgoing' \in Seq(Packet) /\ Len(outgoing') + spent' <= FifoSize /\ spent' \in Nat
      BY <1>1, <1>2, <1>3
    <2>2. freed' \subseteq Packet
      BY <1>1, <1>2, <1>3
    <2> QED
      BY <1>3, <2>1, <2>2 DEF SInv, TypeOK
  <1>7. Known' /\ Apart'
    BY <1>1, <1>3, <1>4, <1>5 DEF Known, Apart
  <1>8. Heap(heap)' /\ NoneTwice' /\ BlocksEnd'
    BY <1>3, <1>5 DEF SInv, NoneTwice, BlocksEnd
  <1> QED
    BY <1>6, <1>7, <1>8 DEF SInv

\* The clock, and the blocks that remain.
LEMMA ClockInv ==
  ASSUME SInv, CallbackBegin \/ Performed \/ RunBlock
  PROVE  SInv'
  <1>1. UNCHANGED <<stamp, arrived, incoming, handled, heap, outgoing, freed, performed>>
        /\ (UNCHANGED spent \/ spent' = 0)
    BY DEF CallbackBegin, Performed, RunBlock, queues
  <1>2. clock \in Int /\ rt \in [at : {"idle", "perform", "blocks"}, left : 0 .. NumBufs] /\ BlocksEnd
        /\ NumBufs \in Nat \ {0} /\ Inc \in Nat /\ Never \in Nat
    BY SchedulerAssumption DEF SInv, TypeOK
  <1>3. clock' \in Int /\ rt' \in [at : {"idle", "perform", "blocks"}, left : 0 .. NumBufs] /\ BlocksEnd'
    <2>1. CASE CallbackBegin
      <3>1. PICK d \in Drifts : clock' = clock + d
        BY <2>1 DEF CallbackBegin
      <3>2. d \in Int /\ MaxTime + d + NumBufs * Inc < Never /\ MaxTime \in Nat /\ NumBufs * Inc \in Nat
        BY SchedulerAssumption
      <3>3. clock <= MaxTime /\ rt' = [at |-> "perform", left |-> NumBufs]
        BY <2>1 DEF CallbackBegin
      <3>4. clock' \in Int /\ clock' + NumBufs * Inc < Never
        BY <1>2, <3>1, <3>2, <3>3
      <3>5. rt'.left = NumBufs /\ rt'.at = "perform"
        BY <3>3
      <3>6. NumBufs \in 0 .. NumBufs /\ NumBufs \in 1 .. NumBufs
        BY <1>2
      <3>7. rt' \in [at : {"idle", "perform", "blocks"}, left : 0 .. NumBufs]
        BY <3>3, <3>6
      <3> QED
        BY <3>4, <3>5, <3>6, <3>7 DEF BlocksEnd
    <2>2. CASE Performed
      <3>1. rt' = [rt EXCEPT !.at = "blocks"] /\ clock' = clock /\ rt.at = "perform"
        BY <2>2 DEF Performed
      <3>2. rt'.at = "blocks" /\ rt'.left = rt.left
        BY <1>2, <3>1
      <3>3. rt' \in [at : {"idle", "perform", "blocks"}, left : 0 .. NumBufs]
        BY <1>2, <3>1
      <3> QED
        BY <1>2, <3>1, <3>2, <3>3 DEF BlocksEnd
    <2>3. CASE RunBlock
      <3>1. /\ rt.at = "blocks" /\ clock' = clock + Inc
            /\ rt' = [at |-> IF rt.left = 1 THEN "idle" ELSE "blocks", left |-> rt.left - 1]
        BY <2>3 DEF RunBlock
      <3>2. rt.left \in 1 .. NumBufs /\ clock + rt.left * Inc < Never
        BY <1>2, <3>1 DEF BlocksEnd
      <3>3. clock' + (rt.left - 1) * Inc = clock + rt.left * Inc
        <4>1. \A l, k \in Int : (l - 1) * k = l * k - k /\ l * k \in Int
          OBVIOUS
        <4>2. (rt.left - 1) * Inc = rt.left * Inc - Inc /\ rt.left * Inc \in Int
          BY <1>2, <3>2, <4>1
        <4> QED
          BY <1>2, <3>1, <4>2
      <3>4. /\ rt'.left = rt.left - 1 /\ (rt'.at # "idle" => rt.left # 1)
            /\ rt' \in [at : {"idle", "perform", "blocks"}, left : 0 .. NumBufs]
        BY <1>2, <3>1, <3>2
      <3>5. rt.left # 1 => rt.left - 1 \in 1 .. NumBufs
        BY <1>2, <3>2
      <3> QED
        BY <1>2, <3>1, <3>2, <3>3, <3>4, <3>5 DEF BlocksEnd
    <2> QED
      BY <2>1, <2>2, <2>3
  <1>4. TypeOK'
    <2>1. outgoing \in Seq(Packet) /\ Len(outgoing) + spent <= FifoSize /\ spent \in Nat
          /\ Len(outgoing) \in Nat /\ FifoSize \in Nat
      BY SchedulerAssumption DEF SInv, TypeOK
    <2>2. outgoing' \in Seq(Packet) /\ Len(outgoing') + spent' <= FifoSize /\ spent' \in Nat
      BY <1>1, <2>1
    <2> QED
      BY <1>1, <1>3, <2>2 DEF SInv, TypeOK
  <1>5. Heap(heap)' /\ NoneTwice'
    BY <1>1 DEF SInv, NoneTwice
  <1>6. Known' /\ Apart'
    <2>1. Waits' = Waits /\ Handed' = Handed /\ Scheduled' = Scheduled /\ Sent' = Sent
      BY <1>1 DEF Waits, Handed, Scheduled, Sent
    <2> QED
      BY <1>1, <2>1 DEF SInv, Known, Apart
  <1> QED
    BY <1>3, <1>4, <1>5, <1>6 DEF SInv

\* The event of a packet that has a time tag.
LEMMA ScheduleAdds ==
  ASSUME SInv, NEW p \in Packet, stamp[p] # AtOnce
  PROVE  \E e \in Event : /\ e.packet = p
                         /\ Schedule(p) = IF Len(heap) < HeapSize THEN Add(heap, e) ELSE heap
  <1> DEFINE e == [time |-> stamp[p], packet |-> p]
  <1>1. stamp[p] \in Stamps
    BY InState
  <1>2. e \in Event /\ e.packet = p
    BY <1>1, EventFacts
  <1>3. Schedule(p) = IF Len(heap) < HeapSize THEN Add(heap, e) ELSE heap
    BY DEF Schedule
  <1> QED
    BY <1>2, <1>3

\* The first packet of the FIFO is performed, or is put into the heap.
LEMMA PerformPacketInv ==
  ASSUME SInv, PerformPacket
  PROVE  SInv'
  <1> DEFINE p == Head(incoming)
  <1>1. /\ incoming \in Seq(Packet) /\ incoming # <<>> /\ Once(incoming) /\ Known /\ Apart
        /\ handled \in Seq(Packet \cup {0}) /\ Once(handled)
        /\ heap \in Seq(Event) /\ Heap(heap) /\ OnceEach(heap) /\ Scheduled = PacketsOf(heap)
        /\ 0 \notin Packet /\ FifoSize \in Nat /\ Len(incoming) <= FifoSize
        /\ Len(heap) <= HeapSize /\ HeapSize \in Nat
    BY InState, EventFacts, SchedulerAssumption DEF SInv, NoneTwice, TypeOK, PerformPacket
  <1>2. /\ p \in Packet /\ Tail(incoming) \in Seq(Packet) /\ Len(Tail(incoming)) = Len(incoming) - 1
        /\ Waits = Elements(Tail(incoming)) \cup {p} /\ p \notin Elements(Tail(incoming))
        /\ Once(Tail(incoming)) /\ Len(incoming) \in Nat
    BY <1>1, TailHolds DEF Waits
  <1>3. /\ incoming' = Tail(incoming)
        /\ UNCHANGED <<stamp, arrived, outgoing, spent, freed, clock, rt>>
    BY DEF PerformPacket
  <1>4. p \notin Handed /\ p \notin Scheduled /\ p \notin Sent /\ p \notin freed /\ p \in 1 .. arrived
        /\ p # 0
    BY <1>1, <1>2 DEF Apart, Known
  <1> HIDE DEF p
  <1>5. /\ handled' \in Seq(Packet \cup {0}) /\ Once(handled')
        /\ heap' \in Seq(Event) /\ Len(heap') <= HeapSize /\ Heap(heap') /\ OnceEach(heap')
        /\ \/ /\ Elements(handled') = Elements(handled) \cup {p}
              /\ PacketsOf(heap') \subseteq Scheduled /\ performed' = performed \cup {p}
           \/ /\ Elements(handled') = Elements(handled) \cup {0}
              /\ PacketsOf(heap') \subseteq Scheduled \cup {p} /\ performed' = performed
    <2>1. CASE stamp[p] = AtOnce
      <3>1. performed' = performed \cup {p} /\ heap' = After(p, heap) /\ handled' = Append(handled, p)
        BY <2>1 DEF PerformPacket, p
      <3>2. /\ handled' \in Seq(Packet \cup {0}) /\ Elements(handled') = Elements(handled) \cup {p}
            /\ Once(handled')
        <4>1. p \in Packet \cup {0} /\ p \notin Elements(handled)
          BY <1>2, <1>4 DEF Handed
        <4> QED
          BY <1>1, <3>1, <4>1, AppendHolds
      <3>3. heap' = <<>> \/ heap' = heap
        BY <3>1 DEF After
      <3>4. /\ heap' \in Seq(Event) /\ Len(heap') <= HeapSize /\ Heap(heap') /\ OnceEach(heap')
            /\ PacketsOf(heap') \subseteq Scheduled
        <4>1. CASE heap' = <<>>
          BY <1>1, <4>1, EmptyHolds
        <4>2. CASE heap' = heap
          BY <1>1, <4>2
        <4> QED
          BY <3>3, <4>1, <4>2
      <3> QED
        BY <3>1, <3>2, <3>4
    <2>2. CASE stamp[p] # AtOnce
      <3>1. performed' = performed /\ heap' = Schedule(p) /\ handled' = Append(handled, 0)
        BY <2>2 DEF PerformPacket, p
      <3>2. /\ handled' \in Seq(Packet \cup {0}) /\ Elements(handled') = Elements(handled) \cup {0}
            /\ Once(handled')
        <4>1. 0 \in Packet \cup {0}
          OBVIOUS
        <4> QED
          BY <1>1, <3>1, <4>1, AppendHolds
      <3>3. PICK e \in Event :
              /\ e.packet = p
              /\ heap' = IF Len(heap) < HeapSize THEN Add(heap, e) ELSE heap
        BY <1>2, <2>2, <3>1, ScheduleAdds
      <3>4. heap' = IF Len(heap) < HeapSize THEN Add(heap, e) ELSE heap
        BY <3>3
      <3>5. /\ heap' \in Seq(Event) /\ Len(heap') <= HeapSize /\ Heap(heap') /\ OnceEach(heap')
            /\ PacketsOf(heap') \subseteq Scheduled \cup {p}
        <4>1. CASE Len(heap) < HeapSize
          <5>1. /\ Add(heap, e) \in Seq(Event) /\ Len(Add(heap, e)) = Len(heap) + 1
                /\ Heap(Add(heap, e)) /\ PacketsOf(Add(heap, e)) = PacketsOf(heap) \cup {e.packet}
                /\ OnceEach(Add(heap, e))
            <6>1. Times(Event) /\ heap \in Seq(Event) /\ Heap(heap) /\ e \in Event
                  /\ e.packet \notin PacketsOf(heap) /\ OnceEach(heap)
              BY <1>1, <1>4, <3>3, EventFacts
            <6>2. Add(heap, e) \in Seq(Event) /\ Len(Add(heap, e)) = Len(heap) + 1
              BY <6>1, AddHolds
            <6>3. Heap(Add(heap, e))
              BY <6>1, AddHolds
            <6>4. PacketsOf(Add(heap, e)) = PacketsOf(heap) \cup {e.packet}
              BY <6>1, AddHolds
            <6>5. OnceEach(Add(heap, e))
              BY <6>1, AddHolds
            <6> QED
              BY <6>2, <6>3, <6>4, <6>5
          <5>2. Len(heap) + 1 <= HeapSize
            BY <1>1, <4>1
          <5> QED
            BY <1>1, <3>3, <3>4, <4>1, <5>1, <5>2
        <4>2. CASE ~(Len(heap) < HeapSize)
          BY <1>1, <3>4, <4>2
        <4> QED
          BY <4>1, <4>2
      <3> QED
        BY <3>1, <3>2, <3>5
    <2> QED
      BY <2>1, <2>2
  <1>6. /\ Waits = Waits' \cup {p} /\ p \notin Waits' /\ Once(incoming)' /\ Sent' = Sent
        /\ freed' = freed /\ arrived' = arrived /\ Once(outgoing)'
    BY <1>2, <1>3 DEF Waits, Sent, SInv, NoneTwice
  <1>7. \/ Handed' = Handed \cup {p} /\ Scheduled' \subseteq Scheduled /\ performed' = performed \cup {p}
        \/ Handed' = Handed /\ Scheduled' \subseteq Scheduled \cup {p} /\ performed' = performed
    <2>1. Scheduled' = PacketsOf(heap') /\ Handed' = Elements(handled') \ {0}
      BY DEF Scheduled, PacketsOf, Handed
    <2>2. Elements(handled) \ {0} = Handed
      BY DEF Handed
    <2> QED
      BY <1>4, <1>5, <2>1, <2>2
  <1>8. TypeOK'
    <2>1. incoming' \in Seq(Packet) /\ Len(incoming') <= FifoSize
      BY <1>1, <1>2, <1>3
    <2>2. performed' \subseteq Packet
      BY <1>2, <1>5 DEF SInv, TypeOK
    <2> QED
      BY <1>3, <1>5, <2>1, <2>2 DEF SInv, TypeOK, Event
  <1>9. Known' /\ Apart'
    BY <1>1, <1>4, <1>6, <1>7 DEF Known, Apart
  <1>10. Heap(heap)' /\ NoneTwice' /\ BlocksEnd'
    BY <1>3, <1>5, <1>6 DEF SInv, NoneTwice, BlocksEnd
  <1> QED
    BY <1>8, <1>9, <1>10 DEF SInv

\* In a block that a packet is due in, the heap is not empty.
LEMMA DueHolds ==
  ASSUME SInv, rt.at # "idle"
  PROVE  /\ Due => heap # <<>> /\ heap[1].time <= clock + Inc
         /\ ~Due => heap = <<>> \/ heap[1].time > clock + Inc
  <1>1. /\ rt.left \in Nat \ {0} /\ clock + rt.left * Inc < Never /\ clock \in Int
        /\ Inc \in Nat /\ Never \in Nat
    BY SchedulerAssumption DEF SInv, TypeOK, BlocksEnd
  <1>2. clock + Inc < Never
    <2>1. \A l \in Nat \ {0}, k \in Nat : l * k >= k /\ l * k \in Nat
      <3> TAKE l \in Nat \ {0}, k \in Nat
      <3>1. l * k = (l - 1) * k + k /\ (l - 1) * k \in Nat /\ l * k \in Nat
        OBVIOUS
      <3> QED
        BY <3>1
    <2>2. rt.left * Inc >= Inc /\ rt.left * Inc \in Nat
      BY <1>1, <2>1
    <2> QED
      BY <1>1, <2>2
  <1>3. CASE heap = <<>>
    BY <1>1, <1>2, <1>3 DEF Due, NextTime
  <1>4. CASE heap # <<>>
    <2>1. heap[1].time \in Int
      <3>1. heap \in Seq(Event) /\ Times(Event)
        BY InState, EventFacts
      <3>2. heap[1] \in Event
        BY <1>4, <3>1
      <3> QED
        BY <3>1, <3>2 DEF Times
    <2>2. Due <=> heap[1].time <= clock + Inc
      BY <1>4 DEF Due, NextTime
    <2> QED
      BY <1>1, <1>4, <2>1, <2>2
  <1> QED
    BY <1>3, <1>4

\* The first event of the heap is performed, and its packet sent to be freed.
LEMMA PerformEventInv ==
  ASSUME SInv, PerformEvent
  PROVE  SInv'
  <1> DEFINE p == heap[1].packet
  <1>1. /\ heap \in Seq(Event) /\ Heap(heap) /\ OnceEach(heap) /\ Scheduled = PacketsOf(heap)
        /\ Known /\ Apart /\ 0 \notin Packet
        /\ outgoing \in Seq(Packet) /\ Once(outgoing) /\ spent \in Nat /\ FifoSize \in Nat
        /\ Len(outgoing) + spent <= FifoSize
        /\ Len(heap) <= HeapSize /\ HeapSize \in Nat /\ Times(Event)
    BY InState, EventFacts, SchedulerAssumption DEF SInv, NoneTwice, TypeOK
  <1>2. heap # <<>>
    BY DueHolds DEF PerformEvent
  <1>3. /\ Remove(heap) \in Seq(Event) /\ Len(Remove(heap)) = Len(heap) - 1 /\ Len(heap) \in Nat \ {0}
        /\ Heap(Remove(heap)) /\ OnceEach(Remove(heap)) /\ heap[1] \in Event
        /\ PacketsOf(Remove(heap)) = Scheduled \ {p} /\ p \in Scheduled
    BY <1>1, <1>2, RemoveHolds
  <1>4. /\ heap' = After(p, Remove(heap)) /\ performed' = performed \cup {p}
        /\ outgoing' = IF Len(outgoing) + spent < FifoSize THEN Append(outgoing, p) ELSE outgoing
        /\ UNCHANGED <<stamp, arrived, incoming, handled, spent, freed, clock, rt>>
    BY DEF PerformEvent
  <1>5. p \in Packet
    BY <1>3 DEF Event
  <1> HIDE DEF p
  <1>6. /\ heap' \in Seq(Event) /\ Len(heap') <= HeapSize /\ Heap(heap') /\ OnceEach(heap')
        /\ PacketsOf(heap') \subseteq Scheduled \ {p}
    <2>1. CASE p \in Clears
      <3>1. heap' = <<>>
        BY <1>4, <2>1 DEF After
      <3> QED
        BY <1>1, <3>1, EmptyHolds
    <2>2. CASE p \notin Clears
      <3>1. heap' = Remove(heap)
        BY <1>4, <2>2 DEF After
      <3>2. Len(heap) - 1 <= HeapSize
        BY <1>1, <1>3
      <3> QED
        BY <1>3, <3>1, <3>2
    <2> QED
      BY <2>1, <2>2
  <1>7. p \notin Sent /\ p \notin Waits /\ p \notin Handed /\ p \notin freed /\ p \in 1 .. arrived
    BY <1>1, <1>3 DEF Apart, Known
  <1>8. /\ outgoing' \in Seq(Packet) /\ Once(outgoing') /\ Len(outgoing') + spent' <= FifoSize
        /\ Elements(outgoing') \subseteq Sent \cup {p}
    <2>1. CASE Len(outgoing) + spent < FifoSize
      <3>1. outgoing' = Append(outgoing, p)
        BY <1>4, <2>1
      <3>2. /\ Append(outgoing, p) \in Seq(Packet) /\ Len(Append(outgoing, p)) = Len(outgoing) + 1
            /\ Elements(Append(outgoing, p)) = Sent \cup {p} /\ Once(Append(outgoing, p))
        BY <1>1, <1>5, <1>7, AppendHolds DEF Sent
      <3>3. Len(outgoing) + 1 + spent <= FifoSize
        BY <1>1, <2>1
      <3> QED
        BY <1>4, <3>1, <3>2, <3>3
    <2>2. CASE ~(Len(outgoing) + spent < FifoSize)
      BY <1>1, <1>4, <2>2 DEF Sent
    <2> QED
      BY <2>1, <2>2
  <1>9. /\ Waits' = Waits /\ Handed' = Handed /\ Scheduled' \subseteq Scheduled \ {p}
        /\ Sent' \subseteq Sent \cup {p}
    <2>1. Scheduled' = PacketsOf(heap') /\ Sent' = Elements(outgoing')
      BY DEF Scheduled, PacketsOf, Sent
    <2> QED
      BY <1>4, <1>6, <1>8, <2>1 DEF Waits, Handed
  <1>10. TypeOK'
    <2>1. performed' \subseteq Packet
      BY <1>4, <1>5 DEF SInv, TypeOK
    <2> QED
      BY <1>4, <1>6, <1>8, <2>1 DEF SInv, TypeOK, Event
  <1>a. performed' = performed \cup {p} /\ freed' = freed /\ arrived' = arrived
    BY <1>4
  <1>11. Known' /\ Apart'
    <2>1. Known'
      BY <1>1, <1>7, <1>9, <1>a DEF Known
    <2>2. Scheduled' \cap Sent' = {} /\ performed' \cap Scheduled' = {} /\ performed' \cap Waits' = {}
      BY <1>1, <1>7, <1>9, <1>a DEF Apart
    <2>3. /\ Waits' \cap Handed' = {} /\ Waits' \cap Scheduled' = {} /\ Waits' \cap Sent' = {}
          /\ Handed' \cap Scheduled' = {} /\ Handed' \cap Sent' = {}
      BY <1>1, <1>7, <1>9 DEF Apart
    <2>4. /\ freed' \cap Waits' = {} /\ freed' \cap Handed' = {} /\ freed' \cap Scheduled' = {}
          /\ freed' \cap Sent' = {}
      BY <1>1, <1>7, <1>9, <1>a DEF Apart
    <2> QED
      BY <2>1, <2>2, <2>3, <2>4 DEF Apart
  <1>12. Heap(heap)' /\ NoneTwice' /\ BlocksEnd'
    BY <1>4, <1>6, <1>8 DEF SInv, NoneTwice, BlocksEnd
  <1> QED
    BY <1>10, <1>11, <1>12 DEF SInv

LEMMA NextSInv == SInv /\ [Next]_vars => SInv'
  <1> SUFFICES ASSUME SInv, [Next]_vars PROVE SInv'
    OBVIOUS
  <1>1. CASE UNCHANGED vars
    BY <1>1 DEF SInv, TypeOK, Known, Apart, NoneTwice, BlocksEnd, Waits, Handed, Sent, Scheduled,
                vars, queues
  <1>2. CASE Next
    BY <1>2, ReceiveInv, FreePacketInv, ClockInv, PerformPacketInv, PerformEventInv
       DEF Next, Callback
  <1> QED
    BY <1>1, <1>2

LEMMA SInvAlways == Spec => []SInv
  BY InitSInv, NextSInv, PTL DEF Spec

\* Every variable has its type: the heap and both FIFOs never hold more than
\* they have room for.
THEOREM TypeCorrect == Spec => []TypeOK
  <1>1. SInv => TypeOK
    BY DEF SInv
  <1> QED
    BY <1>1, SInvAlways, PTL

\* A packet that a queue still refers to is not freed, and no two threads
\* are to free the same packet.
THEOREM NoPacketFreedTwice == Spec => []FreedByOne
  <1>1. SInv => FreedByOne
    <2> SUFFICES ASSUME SInv PROVE FreedByOne
      OBVIOUS
    <2>1. Apart /\ NoneTwice /\ 0 \notin freed
      BY EventFacts DEF SInv, TypeOK
    <2>2. freed \cap (Elements(incoming) \cup Elements(handled) \cup Scheduled \cup Elements(outgoing)) = {}
      BY <2>1 DEF Apart, Waits, Handed, Sent
    <2> DEFINE H == [i \in DOMAIN heap |-> heap[i].packet]
               held == <<incoming, handled, H, outgoing>>
    <2>3. Once(H) /\ Elements(H) = Scheduled
      <3>1. DOMAIN H = DOMAIN heap /\ \A i \in DOMAIN heap : H[i] = heap[i].packet
        OBVIOUS
      <3> HIDE DEF H
      <3> QED
        BY <2>1, <3>1 DEF Once, OnceEach, NoneTwice, Elements, Scheduled
    <2> HIDE DEF H
    <2>4. DOMAIN held = 1 .. 4 /\ held[1] = incoming /\ held[2] = handled /\ held[3] = H /\ held[4] = outgoing
      OBVIOUS
    <2>5. 1 .. 4 = {1, 2, 3, 4}
      OBVIOUS
    <2> HIDE DEF held
    <2>6. \A k \in 1 .. 4 : Once(held[k])
      BY <2>1, <2>3, <2>4, <2>5 DEF NoneTwice
    <2>7. \A k, l \in 1 .. 4 : k # l => Elements(held[k]) \cap Elements(held[l]) \subseteq {0}
      <3>1. /\ Elements(held[1]) = Waits /\ Elements(held[2]) \subseteq Handed \cup {0}
            /\ Elements(held[3]) = Scheduled /\ Elements(held[4]) = Sent
        BY <2>3, <2>4 DEF Waits, Handed, Sent
      <3> QED
        BY <2>1, <2>5, <3>1 DEF Apart
    <2>8. ASSUME NEW k \in DOMAIN held, NEW l \in DOMAIN held, NEW i \in DOMAIN held[k],
                 NEW j \in DOMAIN held[l], held[k][i] # 0, held[k][i] = held[l][j]
          PROVE  k = l /\ i = j
      <3>1. held[k][i] \in Elements(held[k]) /\ held[k][i] \in Elements(held[l])
        BY <2>8 DEF Elements
      <3>2. k = l
        BY <2>4, <2>7, <2>8, <3>1
      <3>3. Once(held[k])
        BY <2>4, <2>6
      <3> QED
        BY <2>8, <3>2, <3>3 DEF Once
    <2> QED
      BY <2>2, <2>8 DEF FreedByOne, held, H
  <1> QED
    BY <1>1, SInvAlways, PTL

-----------------------------------------------------------------------------
\* A packet that waits is forgotten only when the scheduler is full or is cleared.
THEOREM NoneForgotten == Spec => ForgottenOnlyWhenFull
  <1>1. ASSUME SInv, [Next]_vars, NEW p \in Packet, p \in Elements(incoming) \cup Scheduled,
               p \notin Elements(incoming)' \cup Scheduled' \cup performed'
        PROVE  Len(heap) = HeapSize \/ \E c \in Clears : c \in performed' \ performed
    <2>0. p \in Waits \cup Scheduled /\ p \notin Waits' \cup Scheduled' \cup performed'
      BY <1>1 DEF Waits
    <2>1. CASE UNCHANGED vars
      BY <2>0, <2>1 DEF vars, queues, Waits, Scheduled
    <2>2. ASSUME NEW t \in Stamps \cup {AtOnce}, Receive(t) PROVE FALSE
      <3>1. Scheduled' = Scheduled /\ (incoming' = incoming \/ incoming' = Append(incoming, arrived'))
        BY <2>2 DEF Receive, Scheduled
      <3>2. Elements(incoming) \subseteq Elements(incoming')
        <4>1. CASE incoming' = incoming
          BY <4>1
        <4>2. CASE incoming' = Append(incoming, arrived')
          <5>1. arrived' \in Packet
            BY <2>2 DEF Receive
          <5> QED
            BY <1>1, <4>2, <5>1, InState, AppendHolds
        <4> QED
          BY <3>1, <4>1, <4>2
      <3> QED
        BY <2>0, <3>1, <3>2 DEF Waits
    <2>3. CASE FreePacket \/ CallbackBegin \/ Performed \/ RunBlock
      <3>1. incoming' = incoming /\ heap' = heap
        BY <2>3 DEF FreePacket, CallbackBegin, Performed, RunBlock, queues
      <3> QED
        BY <2>0, <3>1 DEF Waits, Scheduled
    <2>4. CASE PerformPacket
      <3> DEFINE q == Head(incoming)
      <3>1. incoming \in Seq(Packet) /\ incoming # <<>> /\ incoming' = Tail(incoming) /\ Once(incoming)
            /\ Apart
        BY <1>1, <2>4, InState DEF PerformPacket, SInv, NoneTwice
      <3>2. q \in Packet /\ Waits = Waits' \cup {q}
        BY <3>1, TailHolds DEF Waits
      <3>3. Scheduled = PacketsOf(heap) /\ Scheduled' = PacketsOf(heap')
        BY DEF Scheduled, PacketsOf
      <3>4. q \notin performed
        BY <3>1, <3>2 DEF Apart
      <3>5. CASE stamp[q] = AtOnce
        <4>1. performed' = performed \cup {q} /\ heap' = After(q, heap)
          BY <2>4, <3>5 DEF PerformPacket
        <4>2. CASE q \in Clears
          BY <3>4, <4>1, <4>2
        <4>3. CASE q \notin Clears
          BY <2>0, <3>2, <3>3, <4>1, <4>3 DEF After
        <4> QED
          BY <4>2, <4>3
      <3>6. CASE stamp[q] # AtOnce
        <4>1. heap' = Schedule(q)
          BY <2>4, <3>6 DEF PerformPacket
        <4>2. CASE Len(heap) < HeapSize
          <5>1. PICK e \in Event :
                  /\ e.packet = q
                  /\ Schedule(q) = IF Len(heap) < HeapSize THEN Add(heap, e) ELSE heap
            BY <1>1, <3>2, <3>6, ScheduleAdds
          <5>2. heap' = Add(heap, e)
            BY <4>1, <4>2, <5>1
          <5> HIDE DEF q
          <5>3. PacketsOf(heap') = PacketsOf(heap) \cup {q}
            <6>1. Times(Event) /\ heap \in Seq(Event) /\ Heap(heap) /\ e \in Event
              BY <1>1, <5>1, InState, EventFacts DEF SInv
            <6>2. PacketsOf(Add(heap, e)) = PacketsOf(heap) \cup {e.packet}
              BY <6>1, AddHolds
            <6> QED
              BY <5>1, <5>2, <6>2
          <5> QED
            BY <2>0, <3>2, <3>3, <5>3
        <4>3. CASE ~(Len(heap) < HeapSize)
          <5>1. Len(heap) <= HeapSize /\ Len(heap) \in Nat /\ HeapSize \in Nat
            BY <1>1, SchedulerAssumption DEF SInv, TypeOK
          <5> QED
            BY <4>3, <5>1
        <4> QED
          BY <4>2, <4>3
      <3> QED
        BY <3>5, <3>6
    <2>5. CASE PerformEvent
      <3> DEFINE q == heap[1].packet
      <3>1. Due /\ rt.at = "blocks" /\ incoming' = incoming /\ performed' = performed \cup {q}
            /\ heap' = After(q, Remove(heap))
        BY <2>5 DEF PerformEvent
      <3>2. heap # <<>>
        BY <1>1, <3>1, DueHolds
      <3>3. PacketsOf(Remove(heap)) = PacketsOf(heap) \ {q} /\ q \in PacketsOf(heap)
        <4>1. Times(Event) /\ heap \in Seq(Event) /\ Heap(heap) /\ OnceEach(heap)
          BY <1>1, InState, EventFacts DEF SInv, NoneTwice
        <4> QED
          BY <3>2, <4>1, RemoveHolds
      <3> HIDE DEF q
      <3>4. Scheduled = PacketsOf(heap) /\ Scheduled' = PacketsOf(heap')
        BY DEF Scheduled, PacketsOf
      <3>5. Waits' = Waits
        BY <3>1 DEF Waits
      <3>6. q \notin performed
        BY <1>1, <3>3, <3>4 DEF SInv, Apart
      <3>7. CASE q \in Clears
        BY <3>1, <3>6, <3>7
      <3>8. CASE q \notin Clears
        <4>1. heap' = Remove(heap)
          BY <3>1, <3>8 DEF After
        <4> QED
          BY <2>0, <3>1, <3>3, <3>4, <3>5, <4>1
      <3> QED
        BY <3>7, <3>8
    <2> QED
      BY <1>1, <2>1, <2>2, <2>3, <2>4, <2>5 DEF Next, Callback
  <1>2. SInv /\ [Next]_vars =>
          [\A p \in Packet :
             p \in Elements(incoming) \cup Scheduled
             /\ p \notin Elements(incoming)' \cup Scheduled' \cup performed' =>
               Len(heap) = HeapSize \/ \E c \in Clears : c \in performed' \ performed]_vars
    BY <1>1
  <1> QED
    BY <1>2, SInvAlways, PTL DEF Spec, ForgottenOnlyWhenFull

\* A list holds no more different members than it is long.
LEMMA FewElements ==
  ASSUME NEW A, NEW s \in Seq(A)
  PROVE  Cardinality(Elements(s)) <= Len(s) /\ Cardinality(Elements(s)) \in Nat
  <1> DEFINE n == Len(s)
  <1>1. n \in Nat /\ DOMAIN s = 1 .. n
    OBVIOUS
  <1>2. IsFiniteSet(1 .. n) /\ Cardinality(1 .. n) = n
    <2>1. IsFiniteSet(1 .. n) /\ Cardinality(1 .. n) = IF 1 > n THEN 0 ELSE n - 1 + 1
      <3>1. 1 \in Int /\ n \in Int
        BY <1>1
      <3> QED
        BY <3>1, FS_Interval
    <2> QED
      BY <1>1, <2>1
  <1>3. s \in Surjection(1 .. n, Elements(s))
    <2>1. s \in [1 .. n -> Elements(s)]
      BY <1>1 DEF Elements
    <2> QED
      BY <1>1, <2>1 DEF Surjection, Elements
  <1> HIDE DEF n
  <1>4. IsFiniteSet(Elements(s)) /\ Cardinality(Elements(s)) <= Cardinality(1 .. n)
    BY <1>2, <1>3, FS_Surjection
  <1>5. Cardinality(Elements(s)) \in Nat
    BY <1>4, FS_CardinalityType
  <1> QED
    BY <1>2, <1>4, <1>5 DEF n

\* What waits in the heap is a table of events, of which an earliest one is
\* performed, in the block that it is due in and never later.
THEOREM HeapIsATable == Spec => TableSpec
  <1> DEFINE View == <<Elements(heap), rt.at # "idle", clock>>
  <1>1. Init => Table!TableInit
    BY EmptyHolds DEF Init, Table!TableInit
  <1>2. ASSUME SInv, [Next]_vars
        PROVE  [Table!TableNext]_View
    <2>0. /\ heap \in Seq(Event) /\ Heap(heap) /\ OnceEach(heap) /\ Times(Event) /\ clock \in Int
          /\ Inc \in Nat /\ Len(heap) \in Nat /\ HeapSize \in Nat
      BY <1>2, InState, EventFacts, SchedulerAssumption DEF SInv, NoneTwice, TypeOK
    <2>1. CASE UNCHANGED <<heap, rt, clock>>
      BY <2>1 DEF Elements
    <2>2. CASE UNCHANGED vars \/ FreePacket \/ \E t \in Stamps \cup {AtOnce} : Receive(t)
      BY <2>1, <2>2 DEF vars, queues, FreePacket, Receive
    <2>3. CASE CallbackBegin
      <3>1. Table!Resync
        <4>1. PICK d \in Drifts : clock' = clock + d
          BY <2>3 DEF CallbackBegin
        <4>2. d \in Int
          BY SchedulerAssumption
        <4>3. clock' \in Int
          BY <2>0, <4>1, <4>2
        <4>4. rt.at = "idle" /\ rt'.at = "perform" /\ Elements(heap)' = Elements(heap)
          BY <2>3 DEF CallbackBegin, Elements
        <4> QED
          BY <4>3, <4>4 DEF Table!Resync
      <3> QED
        BY <3>1 DEF Table!TableNext
    <2>4. CASE Performed
      <3>1. rt.at # "idle" /\ rt'.at # "idle" /\ heap' = heap /\ clock' = clock
        <4>1. rt' = [rt EXCEPT !.at = "blocks"] /\ rt \in [at : {"idle", "perform", "blocks"}, left : 0 .. NumBufs]
          BY <1>2, <2>4 DEF Performed, SInv, TypeOK
        <4>2. rt'.at = "blocks"
          BY <4>1
        <4> QED
          BY <2>4, <4>2 DEF Performed, queues
      <3> QED
        BY <3>1 DEF Elements
    <2>5. CASE RunBlock
      <3>1. rt.at = "blocks" /\ clock' = clock + Inc /\ ~Due /\ heap' = heap
        BY <2>5 DEF RunBlock, queues
      <3>2. \A e \in Elements(heap) : e.time > clock + Inc
        <4>1. CASE heap = <<>>
          BY <4>1, EmptyHolds
        <4>2. CASE heap # <<>>
          <5>1. heap[1].time > clock + Inc
            BY <1>2, <3>1, <4>2, DueHolds
          <5>2. ASSUME NEW j \in 1 .. Len(heap) PROVE heap[j].time > clock + Inc
            <6>1. heap[1].time <= heap[j].time
              BY <2>0, FirstIsEarliest
            <6>2. heap[1] \in Event /\ heap[j] \in Event
              BY <2>0, <4>2
            <6>3. heap[1].time \in Int /\ heap[j].time \in Int
              BY <2>0, <6>2 DEF Times
            <6> QED
              BY <2>0, <5>1, <6>1, <6>3
          <5> QED
            BY <2>0, <5>2 DEF Elements
        <4> QED
          BY <4>1, <4>2
      <3>3. Table!Elapse
        <4>1. Elements(heap)' = Elements(heap)
          BY <3>1 DEF Elements
        <4> QED
          BY <3>1, <3>2, <4>1 DEF Table!Elapse
      <3> QED
        BY <3>3 DEF Table!TableNext
    <2>6. CASE PerformPacket
      <3> DEFINE q == Head(incoming)
      <3>1. rt' = rt /\ clock' = clock
        BY <2>6 DEF PerformPacket
      <3>2. \/ heap' = <<>> \/ heap' = heap
            \/ \E e \in Event : heap' = Add(heap, e) /\ Len(heap) < HeapSize
        <4>1. q \in Packet
          <5>1. incoming \in Seq(Packet) /\ incoming # <<>>
            BY <1>2, <2>6, InState DEF PerformPacket
          <5> QED
            BY <5>1, TailHolds
        <4>2. CASE stamp[q] = AtOnce
          BY <2>6, <4>2 DEF PerformPacket, After
        <4>3. CASE stamp[q] # AtOnce
          <5>1. heap' = Schedule(q)
            BY <2>6, <4>3 DEF PerformPacket
          <5> HIDE DEF q
          <5>2. PICK e \in Event : Schedule(q) = IF Len(heap) < HeapSize THEN Add(heap, e) ELSE heap
            BY <1>2, <4>1, <4>3, ScheduleAdds
          <5> QED
            BY <5>1, <5>2
        <4> QED
          BY <4>2, <4>3
      <3>3. CASE heap' = heap
        BY <2>1, <3>1, <3>3
      <3>4. CASE heap' = <<>>
        <4>1. Elements(heap)' = {}
          BY <3>4, EmptyHolds
        <4>2. Table!Clear
          BY <3>1, <4>1 DEF Table!Clear
        <4> QED
          BY <4>2 DEF Table!TableNext
      <3>5. ASSUME NEW e \in Event, heap' = Add(heap, e), Len(heap) < HeapSize
            PROVE  Table!TableNext
        <4>3. Elements(heap') = Elements(heap) \cup {e}
          <5>1. Times(Event) /\ heap \in Seq(Event) /\ Heap(heap) /\ e \in Event
            BY <2>0, <3>5
          <5>2. Elements(Add(heap, e)) = Elements(heap) \cup {e}
            BY <5>1, AddHolds
          <5> QED
            BY <3>5, <5>2
        <4>4. Cardinality(Elements(heap)) < HeapSize
          <5>1. Cardinality(Elements(heap)) <= Len(heap) /\ Cardinality(Elements(heap)) \in Nat
            BY <2>0, FewElements
          <5> QED
            BY <2>0, <3>5, <5>1
        <4>5. Table!Enter(e)
          <5>1. Elements(heap)' = Elements(heap) \cup {e}
            BY <4>3
          <5>2. Table!Cardinality(Elements(heap)) = Cardinality(Elements(heap))
            BY DEF Cardinality, Table!Cardinality
          <5> QED
            BY <3>1, <4>4, <5>1, <5>2 DEF Table!Enter
        <4> QED
          BY <4>5 DEF Table!TableNext, Event
      <3> QED
        BY <3>2, <3>3, <3>4, <3>5
    <2>7. CASE PerformEvent
      <3> DEFINE e == heap[1]
      <3>1. /\ Due /\ rt.at = "blocks" /\ rt' = rt /\ clock' = clock
            /\ (heap' = <<>> \/ heap' = Remove(heap))
        BY <2>7 DEF PerformEvent, After
      <3>2. heap # <<>> /\ e.time <= clock + Inc
        BY <1>2, <3>1, DueHolds
      <3>3. Elements(Remove(heap)) = Elements(heap) \ {e} /\ e \in Elements(heap)
        BY <2>0, <3>2, RemoveHolds
      <3>4. \A f \in Elements(heap) : e.time <= f.time
        <4>1. \A j \in 1 .. Len(heap) : e.time <= heap[j].time
          BY <2>0, FirstIsEarliest
        <4> QED
          BY <2>0, <4>1 DEF Elements
      <3> HIDE DEF e
      <3>5. Elements(heap') \in {Elements(heap) \ {e}, {}}
        BY <3>1, <3>3, EmptyHolds
      <3>6. Table!Call(e)
        BY <3>1, <3>2, <3>4, <3>5 DEF Table!Call
      <3> QED
        BY <3>3, <3>6 DEF Table!TableNext
    <2> QED
      BY <1>2, <2>2, <2>3, <2>4, <2>5, <2>6, <2>7 DEF Next, Callback
  <1> QED
    BY <1>1, <1>2, SInvAlways, PTL DEF Spec, TableSpec, Table!TableSpec
=============================================================================

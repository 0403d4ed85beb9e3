---------------------------- MODULE MsgFifoProofs ----------------------------
(***************************************************************************)
(* Proofs about MsgFifo, for every number of slots and every message set.  *)
(* The inductive invariant is IInv: the types, the order of the three      *)
(* heads around the ring, the room each thread has checked for before it   *)
(* moves its head, and whole messages in every slot still to be read.  The *)
(* full test is about a distance, which is the number of slots in between. *)
(***************************************************************************)
EXTENDS MsgFifo, SequenceTheorems, FiniteSetTheorems, TLAPS

\* The position after a slot is a slot.
LEMMA NextPosType == \A p \in Slot : NextPos(p) \in Slot
  BY SlotsAssumption DEF Slot, NextPos

LEMMA InitIInv == Init => IInv
  BY SlotsAssumption, TornAssumption
  DEF Init, IInv, TypeOK, HeadsInOrder, RoomToMove, NoTornItem, Unread, Unfreed,
      Distance, Slot, HasData, NeedsFree, Full, NextPos

LEMMA NextIInv == IInv /\ [Next]_vars => IInv'
  <1> SUFFICES ASSUME IInv, [Next]_vars PROVE IInv'
    OBVIOUS
  <1> USE SlotsAssumption, TornAssumption, HasFreeAssumption DEF IInv
  <1>1. ASSUME NEW m \in Msg, WriteCopy(m) PROVE IInv'
    BY <1>1 DEF WriteCopy, TypeOK, HeadsInOrder, RoomToMove, NoTornItem, Unread,
      Unfreed, Distance, Slot, HasData, NeedsFree, Full, NextPos
  <1>2. CASE WriteCopied
    BY <1>2 DEF WriteCopied, TypeOK, HeadsInOrder, RoomToMove, NoTornItem, Unread,
      Unfreed, Distance, Slot, HasData, NeedsFree, Full, NextPos
  <1>3. CASE WritePublish
    BY <1>3 DEF WritePublish, TypeOK, HeadsInOrder, RoomToMove, NoTornItem, Unread,
      Unfreed, Distance, Slot, HasData, NeedsFree, Full, NextPos
  <1>4. CASE PerformItem
    BY <1>4 DEF PerformItem, TypeOK, HeadsInOrder, RoomToMove, NoTornItem, Unread,
      Unfreed, Distance, Slot, HasData, NeedsFree, Full, NextPos
  <1>5. CASE PerformPublish
    BY <1>5 DEF PerformPublish, TypeOK, HeadsInOrder, RoomToMove, NoTornItem, Unread,
      Unfreed, Distance, Slot, HasData, NeedsFree, Full, NextPos
  <1>6. CASE FreeItem
    BY <1>6 DEF FreeItem, TypeOK, HeadsInOrder, RoomToMove, NoTornItem, Unread,
      Unfreed, Distance, Slot, HasData, NeedsFree, Full, NextPos
  <1>7. CASE FreePublish
    BY <1>7 DEF FreePublish, TypeOK, HeadsInOrder, RoomToMove, NoTornItem, Unread,
      Unfreed, Distance, Slot, HasData, NeedsFree, Full, NextPos
  <1>8. CASE UNCHANGED vars
    BY <1>8 DEF vars, TypeOK, HeadsInOrder, RoomToMove, NoTornItem, Unread,
      Unfreed, Distance, Slot, HasData, NeedsFree, Full, NextPos
  <1> QED
    BY <1>1, <1>2, <1>3, <1>4, <1>5, <1>6, <1>7, <1>8 DEF Next, Write, Perform, Free

\* In every state the two threads use different slots.
LEMMA IInvNoSharedSlot == IInv => NoSharedSlot
  BY SlotsAssumption
  DEF IInv, TypeOK, HeadsInOrder, RoomToMove, NoSharedSlot, WriterSlot, ReaderSlot,
      Distance, Slot, HasData, NeedsFree, Full, NextPos

THEOREM Invariance == Spec => []IInv
  <1>1. Init => IInv
    BY InitIInv
  <1>2. IInv /\ [Next]_vars => IInv'
    BY NextIInv
  <1> QED
    BY <1>1, <1>2, PTL DEF Spec

\* Every variable keeps its type, whatever N and Msg (MsgFifo.h, class MsgFifo).
THEOREM TypeCorrect == Spec => []TypeOK
  <1>1. IInv => TypeOK
    BY DEF IInv
  <1> QED
    BY <1>1, Invariance, PTL

\* The writer never copies into, nor frees, the slot whose Perform is running.
THEOREM SlotsNeverShared == Spec => []NoSharedSlot
  BY IInvNoSharedSlot, Invariance, PTL

\* A slot between the heads always holds a whole message.
THEOREM ItemsNeverTorn == Spec => []NoTornItem
  <1>1. IInv => NoTornItem
    BY DEF IInv
  <1> QED
    BY <1>1, Invariance, PTL

-----------------------------------------------------------------------------
(***************************************************************************)
(* The ring implements the bounded queue: each publication of a head is    *)
(* the queue operation, every other step leaves the queue unchanged.       *)
(***************************************************************************)

\* The slot that holds the i-th item after position a.
At(a, i) == IF a + i < N THEN a + i ELSE a + i - N

LEMMA AbstractType ==
  ASSUME IInv
  PROVE  /\ unread \in Seq(Msg) /\ Len(unread) = Distance(readHead, writeHead)
         /\ unfreed \in Seq(Msg) /\ Len(unfreed) = Distance(freeHead, readHead)
         /\ Distance(readHead, writeHead) \in Nat /\ Distance(freeHead, readHead) \in Nat
  <1>1. /\ Distance(readHead, writeHead) \in Nat
        /\ Distance(freeHead, readHead) \in Nat
    BY SlotsAssumption DEF IInv, TypeOK, Distance, Slot
  <1>2. ASSUME NEW i \in 1 .. Distance(readHead, writeHead)
        PROVE  items[At(readHead, i)] \in Msg
    BY SlotsAssumption DEF IInv, TypeOK, NoTornItem, Unread, Distance, Slot, At
  <1>3. ASSUME NEW i \in 1 .. Distance(freeHead, readHead)
        PROVE  items[At(freeHead, i)] \in Msg
    BY SlotsAssumption DEF IInv, TypeOK, NoTornItem, Unfreed, Distance, Slot, At
  <1> HIDE DEF IInv
  <1>4. unread \in [1 .. Distance(readHead, writeHead) -> Msg]
    BY <1>2 DEF unread, ItemsBetween, At
  <1>5. unfreed \in [1 .. Distance(freeHead, readHead) -> Msg]
    BY <1>3 DEF unfreed, ItemsBetween, At
  <1> QED
    BY <1>1, <1>4, <1>5

LEMMA InitQueue == Init => Queue!Init
  BY SlotsAssumption DEF Init, Queue!Init, unread, unfreed, ItemsBetween, Distance

\* A sequence that holds another one's items, but the first, is its tail.
LEMMA TailByItems ==
  ASSUME NEW S, NEW s \in Seq(S), NEW d \in Nat, Len(s) = d, d > 0,
         NEW t \in [1 .. d - 1 -> S], \A i \in 1 .. d - 1 : t[i] = s[i + 1]
  PROVE  s # << >> /\ t = Tail(s)
  <1>1. s # << >>
    OBVIOUS
  <1>2. /\ Tail(s) \in Seq(S) /\ Len(Tail(s)) = d - 1
        /\ \A i \in 1 .. d - 1 : Tail(s)[i] = s[i + 1]
    BY <1>1, HeadTailProperties
  <1>4. t \in Seq(S) /\ Len(t) = d - 1
    OBVIOUS
  <1>5. \A i \in 1 .. d - 1 : t[i] = Tail(s)[i]
    BY <1>2
  <1> QED
    BY <1>1, <1>2, <1>4, <1>5, SeqEqual

\* A sequence that holds another one's items and one more appends that one.
LEMMA AppendByItems ==
  ASSUME NEW S, NEW s \in Seq(S), NEW d \in Nat, Len(s) = d, NEW e \in S,
         NEW t \in [1 .. d + 1 -> S], t[d + 1] = e, \A i \in 1 .. d : t[i] = s[i]
  PROVE  t = Append(s, e)
  <1>2. t \in Seq(S) /\ Len(t) = d + 1
    OBVIOUS
  <1>3. /\ Append(s, e) \in Seq(S) /\ Len(Append(s, e)) = d + 1
        /\ \A i \in 1 .. d + 1 : Append(s, e)[i] = IF i = d + 1 THEN e ELSE s[i]
    OBVIOUS
  <1>4. \A i \in 1 .. d + 1 : t[i] = Append(s, e)[i]
    BY <1>3
  <1> QED
    BY <1>2, <1>3, <1>4, SeqEqual

\* Publishing the write head appends the message to the queue.
LEMMA PublishAppends ==
  ASSUME IInv, WritePublish
  PROVE  /\ unread' = Append(unread, message) /\ unfreed' = unfreed
         /\ Len(unread) + Len(unfreed) < N - 1 /\ message \in Msg
  <1> DEFINE d == Distance(readHead, writeHead)
  <1> USE SlotsAssumption
  <1>1. /\ d \in Nat
        /\ Distance(readHead, writeHead') = d + 1
        /\ Distance(freeHead, writeHead) < N - 1
        /\ At(readHead, d + 1) = NextPos(writeHead)
    BY DEF IInv, TypeOK, RoomToMove, HeadsInOrder, Slot, WritePublish, Distance, NextPos, Full, At
  <1>2. items[NextPos(writeHead)] = message /\ message \in Msg
    BY DEF IInv, RoomToMove, WritePublish
  <1>3. unread = [i \in 1 .. d |-> items[At(readHead, i)]]
    BY DEF unread, ItemsBetween, At
  <1>4. unread' = [i \in 1 .. d + 1 |-> items[At(readHead, i)]]
    BY <1>1 DEF WritePublish, unread, ItemsBetween, At
  <1>5. /\ unread \in [1 .. d -> Msg]
        /\ unread' \in [1 .. d + 1 -> Msg] /\ unread'[d + 1] = message
        /\ \A i \in 1 .. d : unread'[i] = unread[i]
    <2>1. unread \in [1 .. d -> Msg]
      BY AbstractType
    <2> QED
      BY <1>1, <1>2, <1>3, <1>4, <2>1
  <1>6. unread' = Append(unread, message)
    BY <1>1, <1>2, <1>5, AbstractType, AppendByItems
  <1>7. unfreed' = unfreed
    BY DEF WritePublish, unfreed, ItemsBetween, Distance
  <1>8. Distance(freeHead, readHead) + d = Distance(freeHead, writeHead)
    BY DEF IInv, HeadsInOrder
  <1> QED
    BY <1>1, <1>2, <1>6, <1>7, <1>8, AbstractType

\* Publishing the read head moves the oldest unread message to the unfreed ones.
LEMMA PublishPerforms ==
  ASSUME IInv, PerformPublish
  PROVE  /\ unread # << >> /\ unread' = Tail(unread)
         /\ unfreed' = IF HasFree THEN Append(unfreed, Head(unread)) ELSE unfreed
  <1> DEFINE d == Distance(readHead, writeHead)
             f == Distance(freeHead, readHead)
  <1> USE SlotsAssumption
  <1>1. /\ d \in Nat /\ d > 0 /\ f \in Nat
        /\ Distance(readHead', writeHead) = d - 1
        /\ \A i \in 1 .. d - 1 : At(readHead', i) = At(readHead, i + 1)
        /\ At(readHead, 1) = NextPos(readHead)
    BY DEF IInv, TypeOK, RoomToMove, Slot, PerformPublish, HasData, Distance, NextPos, At
  <1>2. unread = [i \in 1 .. d |-> items[At(readHead, i)]]
    BY DEF unread, ItemsBetween, At
  <1>3. unread' = [i \in 1 .. d - 1 |-> items[At(readHead', i)]]
    BY <1>1 DEF PerformPublish, unread, ItemsBetween, At
  <1>4. /\ unread' \in [1 .. d - 1 -> Msg]
        /\ \A i \in 1 .. d - 1 : unread'[i] = unread[i + 1]
    <2>1. unread \in [1 .. d -> Msg]
      BY AbstractType
    <2>2. ASSUME NEW i \in 1 .. d - 1
          PROVE  unread'[i] = unread[i + 1] /\ unread[i + 1] \in Msg
      <3>1. i + 1 \in 1 .. d
        BY <1>1
      <3>2. unread[i + 1] = items[At(readHead, i + 1)]
        BY <1>2, <3>1
      <3>3. unread'[i] = items[At(readHead', i)]
        BY <1>3
      <3> QED
        BY <1>1, <2>1, <3>1, <3>2, <3>3
    <2> QED
      BY <1>3, <2>2
  <1>5. unread # << >> /\ unread' = Tail(unread)
    <2>1. unread \in Seq(Msg) /\ Len(unread) = d
      BY AbstractType
    <2> HIDE DEF d
    <2> QED
      BY <1>1, <1>4, <2>1, TailByItems
  <1>6. Head(unread) = items[NextPos(readHead)] /\ Head(unread) \in Msg
    <2>1. unread \in [1 .. d -> Msg]
      BY AbstractType
    <2>2. 1 \in 1 .. d
      BY <1>1
    <2>3. unread[1] \in Msg
      BY <2>1, <2>2
    <2>4. Head(unread) = unread[1]
      OBVIOUS
    <2>5. unread[1] = items[At(readHead, 1)]
      BY <1>2, <2>2
    <2> QED
      BY <1>1, <2>3, <2>4, <2>5
  <1>7. CASE HasFree
    <2>1. freeHead' = freeHead
      BY <1>7 DEF PerformPublish
    <2>2. /\ Distance(freeHead, readHead') = f + 1
          /\ At(freeHead, f + 1) = NextPos(readHead)
      BY DEF IInv, TypeOK, RoomToMove, HeadsInOrder, Slot, PerformPublish, HasData,
             Distance, NextPos, At
    <2>3. unfreed = [i \in 1 .. f |-> items[At(freeHead, i)]]
      BY DEF unfreed, ItemsBetween, At
    <2>4. unfreed' = [i \in 1 .. f + 1 |-> items[At(freeHead, i)]]
      BY <2>1, <2>2 DEF PerformPublish, unfreed, ItemsBetween, At
    <2>5. /\ unfreed' \in [1 .. f + 1 -> Msg] /\ unfreed'[f + 1] = Head(unread)
          /\ \A i \in 1 .. f : unfreed'[i] = unfreed[i]
      <3>1. unfreed \in [1 .. f -> Msg]
        BY AbstractType
      <3> QED
        BY <1>1, <1>6, <2>2, <2>3, <2>4, <3>1
    <2>6. unfreed' = Append(unfreed, Head(unread))
      BY <1>1, <1>6, <2>5, AbstractType, AppendByItems
    <2> QED
      BY <1>5, <1>7, <2>6
  <1>8. CASE ~HasFree
    <2>1. freeHead = readHead /\ freeHead' = readHead'
      BY <1>8 DEF PerformPublish, IInv, RoomToMove
    <2>2. Distance(freeHead, readHead) = 0 /\ Distance(freeHead', readHead') = 0
      BY <2>1 DEF Distance, IInv, TypeOK, Slot, PerformPublish, NextPos
    <2>3. unfreed = << >> /\ unfreed' = << >>
      BY <2>2 DEF unfreed, ItemsBetween
    <2> QED
      BY <1>5, <1>8, <2>3
  <1> QED
    BY <1>7, <1>8, HasFreeAssumption

\* Publishing the free head hands the oldest performed message back.
LEMMA PublishFrees ==
  ASSUME IInv, FreePublish
  PROVE  unfreed # << >> /\ unfreed' = Tail(unfreed) /\ unread' = unread
  <1> DEFINE f == Distance(freeHead, readHead)
  <1> USE SlotsAssumption
  <1>1. /\ f \in Nat /\ f > 0
        /\ Distance(freeHead', readHead) = f - 1
        /\ \A i \in 1 .. f - 1 : At(freeHead', i) = At(freeHead, i + 1)
    BY DEF IInv, TypeOK, RoomToMove, Slot, FreePublish, NeedsFree, Distance, NextPos, At
  <1>2. unfreed = [i \in 1 .. f |-> items[At(freeHead, i)]]
    BY DEF unfreed, ItemsBetween, At
  <1>3. unfreed' = [i \in 1 .. f - 1 |-> items[At(freeHead', i)]]
    BY <1>1 DEF FreePublish, unfreed, ItemsBetween, At
  <1>4. /\ unfreed' \in [1 .. f - 1 -> Msg]
        /\ \A i \in 1 .. f - 1 : unfreed'[i] = unfreed[i + 1]
    <2>1. unfreed \in [1 .. f -> Msg]
      BY AbstractType
    <2> QED
      BY <1>1, <1>2, <1>3, <2>1
  <1>5. unfreed # << >> /\ unfreed' = Tail(unfreed)
    BY <1>1, <1>4, AbstractType, TailByItems
  <1>6. unread' = unread
    BY DEF FreePublish, unread, ItemsBetween, Distance
  <1> QED
    BY <1>5, <1>6

\* The steps before a publication touch no slot that holds a queued message.
LEMMA CopyKeepsQueue ==
  ASSUME IInv, (\E m \in Msg : WriteCopy(m)) \/ WriteCopied
  PROVE  unread' = unread /\ unfreed' = unfreed
  <1> USE SlotsAssumption DEF IInv, TypeOK, RoomToMove, HeadsInOrder, Slot
  <1>1. ~Full
    BY DEF WriteCopy, WriteCopied
  <1>2. /\ \A i \in 1 .. Distance(readHead, writeHead) :
              At(readHead, i) \in Slot /\ At(readHead, i) # NextPos(writeHead)
        /\ \A i \in 1 .. Distance(freeHead, readHead) :
              At(freeHead, i) \in Slot /\ At(freeHead, i) # NextPos(writeHead)
    BY <1>1 DEF Full, Distance, NextPos, At
  <1>3. /\ UNCHANGED <<readHead, writeHead, freeHead>>
        /\ \A s \in Slot : s # NextPos(writeHead) => items'[s] = items[s]
    BY DEF WriteCopy, WriteCopied
  <1> QED
    BY <1>2, <1>3 DEF unread, unfreed, ItemsBetween, At, Distance

\* Every step of the ring is a step of the bounded queue or leaves it as it is.
LEMMA NextQueue == IInv /\ [Next]_vars => [Queue!Next]_Queue!vars
  <1> SUFFICES ASSUME IInv, [Next]_vars PROVE [Queue!Next]_Queue!vars
    OBVIOUS
  <1>1. CASE (\E m \in Msg : WriteCopy(m)) \/ WriteCopied
    BY <1>1, CopyKeepsQueue DEF Queue!vars
  <1>2. CASE WritePublish
    BY <1>2, PublishAppends DEF Queue!Next, Queue!Write
  <1>3. CASE PerformPublish
    BY <1>3, PublishPerforms DEF Queue!Next, Queue!Perform
  <1>4. CASE FreePublish
    BY <1>4, PublishFrees DEF Queue!Next, Queue!Free
  <1>5. CASE PerformItem \/ FreeItem \/ UNCHANGED vars
    BY <1>5 DEF PerformItem, FreeItem, vars, Queue!vars, unread, unfreed, ItemsBetween, Distance
  <1> QED
    BY <1>1, <1>2, <1>3, <1>4, <1>5 DEF Next, Write, Perform, Free

\* The ring is a FIFO queue of N - 1 messages: nothing is performed twice, out
\* of order, or without having been written, and nothing is freed before it has
\* been performed (the safety part of ImplementsQueue).
THEOREM RingRefinesQueue == Spec => ImplementsQueueSafety
  <1>1. Init => Queue!Init
    BY InitQueue
  <1>2. IInv /\ [Next]_vars => [Queue!Next]_Queue!vars
    BY NextQueue
  <1> QED
    BY <1>1, <1>2, Invariance, PTL DEF Spec, ImplementsQueueSafety

-----------------------------------------------------------------------------
(***************************************************************************)
(* A Write is refused exactly when N - 1 items are held: the slots after a *)
(* head are counted by their distance from it, so the two sets of held     *)
(* slots have as many members as the heads are apart.                      *)
(***************************************************************************)

\* There are as many slots within a distance of a position as that distance.
LEMMA SlotsWithin ==
  ASSUME NEW a \in Slot, NEW d \in 0 .. N - 1
  PROVE  Cardinality({s \in Slot : s # a /\ Distance(a, s) <= d}) = d
  <1> DEFINE T == {s \in Slot : s # a /\ Distance(a, s) <= d}
             f == [i \in 1 .. d |-> At(a, i)]
  <1> USE SlotsAssumption
  <1>1. \A i \in 1 .. d : At(a, i) \in T
    BY DEF At, Slot, Distance
  <1>2. \A i, j \in 1 .. d : At(a, i) = At(a, j) => i = j
    BY DEF At, Slot
  <1>3. \A s \in T : Distance(a, s) \in 1 .. d /\ At(a, Distance(a, s)) = s
    BY DEF At, Slot, Distance
  <1>4. f \in [1 .. d -> T]
    BY <1>1
  <1>5. f \in Injection(1 .. d, T)
    BY <1>2, <1>4 DEF Injection, IsInjective
  <1>6. f \in Surjection(1 .. d, T)
    <2>1. ASSUME NEW s \in T PROVE \E i \in 1 .. d : f[i] = s
      BY <1>3
    <2> HIDE DEF f, T
    <2> QED
      BY <1>4, <2>1 DEF Surjection
  <1>7. ExistsBijection(1 .. d, T)
    <2> HIDE DEF f, T
    <2> QED
      BY <1>5, <1>6 DEF ExistsBijection, Bijection
  <1> QED
    <2>1. d \in Nat
      OBVIOUS
    <2> HIDE DEF T
    <2>2. Cardinality(T) = d
      BY <1>7, <2>1, FS_CountingElements
    <2> QED
      BY <2>2 DEF T

LEMMA IInvRefuses == IInv => RefusesOnlyWhenFull
  <1> SUFFICES ASSUME IInv PROVE Full <=> Cardinality(Unread) + Cardinality(Unfreed) = N - 1
    BY DEF RefusesOnlyWhenFull
  <1> USE SlotsAssumption
  <1>1. /\ readHead \in Slot /\ freeHead \in Slot /\ writeHead \in Slot
        /\ Distance(readHead, writeHead) \in 0 .. N - 1
        /\ Distance(freeHead, readHead) \in 0 .. N - 1
    BY DEF IInv, TypeOK, Slot, Distance
  <1>2. Cardinality(Unread) = Distance(readHead, writeHead)
    BY <1>1, SlotsWithin DEF Unread
  <1>3. Cardinality(Unfreed) = Distance(freeHead, readHead)
    BY <1>1, SlotsWithin DEF Unfreed
  <1>4. Distance(freeHead, readHead) + Distance(readHead, writeHead) = Distance(freeHead, writeHead)
    BY DEF IInv, HeadsInOrder
  <1>5. Full <=> Distance(freeHead, writeHead) = N - 1
    <2>1. /\ N \in Nat /\ N > 1 /\ freeHead \in Int /\ writeHead \in Int
          /\ 0 <= freeHead /\ freeHead < N /\ 0 <= writeHead /\ writeHead < N
      BY <1>1 DEF Slot
    <2>2. CASE freeHead <= writeHead
      BY <2>1, <2>2 DEF Full, NextPos, Distance
    <2>3. CASE ~(freeHead <= writeHead)
      BY <2>1, <2>3 DEF Full, NextPos, Distance
    <2> QED
      BY <2>2, <2>3
  <1> QED
    BY <1>1, <1>2, <1>3, <1>4, <1>5

\* The full test of Write (MsgFifo.h:50) refuses a message exactly when N - 1
\* are held, neither one early (a message lost) nor one late (one overwritten).
THEOREM RefusedExactlyWhenFull == Spec => []RefusesOnlyWhenFull
  BY IInvRefuses, Invariance, PTL
=============================================================================

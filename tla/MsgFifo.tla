------------------------------- MODULE MsgFifo -------------------------------
(***************************************************************************)
(* The lock-free single-writer single-reader ring of MsgFifo.h that joins  *)
(* the real-time audio thread, the non-real-time thread and the network    *)
(* threads.  Write and Free run on the writer's thread, Perform on the     *)
(* reader's; a step of this module is one load of the other thread's head, *)
(* one copy of an item or one publication of a head, so the two threads    *)
(* interleave between any two of them.                                     *)
(*                                                                         *)
(* HasFree selects the class: TRUE is MsgFifo (items are freed by the      *)
(* writer after the reader performed them), FALSE is MsgFifoNoFree, whose  *)
(* full test is against the read head; there freeHead follows readHead.    *)
(***************************************************************************)
EXTENDS Integers, FiniteSets

CONSTANTS N,         \* number of slots, the template argument
          Msg,       \* the messages
          Torn,      \* what a slot holds while an item is being copied into it
          HasFree    \* MsgFifo (TRUE) or MsgFifoNoFree (FALSE)

ASSUME SlotsAssumption == N \in Nat /\ N > 1
ASSUME TornAssumption == Torn \notin Msg
ASSUME HasFreeAssumption == HasFree \in BOOLEAN

VARIABLES readHead, writeHead, freeHead,  \* mReadHead, mWriteHead, mFreeHead
          items,      \* mItems
          writer,     \* where the writer's thread is
          reader,     \* where the reader's thread is
          message     \* the argument of the Write in progress

vars == <<readHead, writeHead, freeHead, items, writer, reader, message>>

Slot == 0 .. N - 1

\* Error caught by the runs: the index is not wrapped.
NextPosNoWrap(pos) == pos + 1

\* (inPos + 1) & (N - 1), for an inPos that is a slot and N a power of two.
NextPos(pos) == IF pos = N - 1 THEN 0 ELSE pos + 1

Init ==
  /\ readHead = 0 /\ writeHead = 0 /\ freeHead = 0
  /\ items = [s \in Slot |-> Torn]
  /\ writer = "idle"
  /\ reader = "idle"
  /\ message = Torn

\* Errors caught by the runs: no full test, one slot too many kept.
FullNever == FALSE
FullEarly == NextPos(NextPos(writeHead)) = freeHead

HasData == readHead # writeHead
NeedsFree == freeHead # readHead
Full == NextPos(writeHead) = freeHead

-----------------------------------------------------------------------------
\* bool Write(MsgType& data), the writer's thread.

\* Error caught by the runs: the head is published before the item is copied.
WriteCopyPublishFirst(m) ==
  /\ writer = "idle"
  /\ ~Full
  /\ items' = [items EXCEPT ![NextPos(writeHead)] = Torn]
  /\ message' = m
  /\ writeHead' = NextPos(writeHead)
  /\ writer' = "copying"
  /\ UNCHANGED <<readHead, freeHead, reader>>

\* The test of mFreeHead, passed, and the start of the copy of the item; a
\* failed test returns false and changes nothing (the callers ignore it).
WriteCopy(m) ==
  /\ writer = "idle"
  /\ ~Full
  /\ items' = [items EXCEPT ![NextPos(writeHead)] = Torn]
  /\ message' = m
  /\ writer' = "copying"
  /\ UNCHANGED <<readHead, writeHead, freeHead, reader>>

\* The copy is complete and, after the barrier, visible to the reader.
WriteCopied ==
  /\ writer = "copying"
  /\ items' = [items EXCEPT ![NextPos(writeHead)] = message]
  /\ writer' = "publishing"
  /\ UNCHANGED <<readHead, writeHead, freeHead, reader, message>>

\* mWriteHead = next.
WritePublish ==
  /\ writer = "publishing"
  /\ writeHead' = NextPos(writeHead)
  /\ writer' = "idle"
  /\ UNCHANGED <<readHead, freeHead, items, reader, message>>

-----------------------------------------------------------------------------
\* void Perform(), the reader's thread: one turn of its loop.

\* HasData() holds and the item's Perform() runs, reading the slot.
PerformItem ==
  /\ reader = "idle"
  /\ HasData
  /\ reader' = "performing"
  /\ UNCHANGED <<readHead, writeHead, freeHead, items, writer, message>>

\* Error caught by the runs: one turn of the loop skips to the write head.
PerformPublishAll ==
  /\ reader = "performing"
  /\ readHead' = writeHead
  /\ freeHead' = IF HasFree THEN freeHead ELSE writeHead
  /\ reader' = "idle"
  /\ UNCHANGED <<writeHead, items, writer, message>>

\* The item's Perform() has returned: mReadHead = next.
PerformPublish ==
  /\ reader = "performing"
  /\ readHead' = NextPos(readHead)
  /\ freeHead' = IF HasFree THEN freeHead ELSE NextPos(readHead)
  /\ reader' = "idle"
  /\ UNCHANGED <<writeHead, items, writer, message>>

-----------------------------------------------------------------------------
\* void Free(), the writer's thread: one turn of its loop.

\* NeedsFree() holds and the item's Free() runs, reading the slot.
FreeItem ==
  /\ HasFree
  /\ writer = "idle"
  /\ NeedsFree
  /\ writer' = "freeing"
  /\ UNCHANGED <<readHead, writeHead, freeHead, items, reader, message>>

\* The item's Free() has returned: mFreeHead = next.
FreePublish ==
  /\ writer = "freeing"
  /\ freeHead' = NextPos(freeHead)
  /\ writer' = "idle"
  /\ UNCHANGED <<readHead, writeHead, items, reader, message>>

-----------------------------------------------------------------------------
Write == (\E m \in Msg : WriteCopy(m)) \/ WriteCopied \/ WritePublish
Perform == PerformItem \/ PerformPublish
Free == FreeItem \/ FreePublish

Next == Write \/ Perform \/ Free

\* The reader's loop is run on every audio block or every wake-up of the
\* non-real-time thread, and a Write or Free that has begun completes.
Fairness ==
  /\ WF_vars(Perform)
  /\ WF_vars(WriteCopied \/ WritePublish \/ FreePublish)

Spec == Init /\ [][Next]_vars /\ Fairness

-----------------------------------------------------------------------------
TypeOK ==
  /\ readHead \in Slot /\ writeHead \in Slot /\ freeHead \in Slot
  /\ items \in [Slot -> Msg \cup {Torn}]
  /\ writer \in {"idle", "copying", "publishing", "freeing"}
  /\ reader \in {"idle", "performing"}
  /\ message \in Msg \cup {Torn}

\* Number of slots from position a up to position b.
Distance(a, b) == IF a <= b THEN b - a ELSE b - a + N

\* The slots whose items the reader has still to perform, and those the
\* writer has still to free: the slots after readHead up to writeHead, and
\* those after freeHead up to readHead.
Unread == {s \in Slot : s # readHead /\ Distance(readHead, s) <= Distance(readHead, writeHead)}
Unfreed == {s \in Slot : s # freeHead /\ Distance(freeHead, s) <= Distance(freeHead, readHead)}

\* The slot each thread is using, if any.
WriterSlot ==
  IF writer \in {"copying", "publishing"} THEN {NextPos(writeHead)}
  ELSE IF writer = "freeing" THEN {NextPos(freeHead)} ELSE {}
ReaderSlot == IF reader = "performing" THEN {NextPos(readHead)} ELSE {}

\* The two threads never use the same slot at the same time: an item is not
\* overwritten or freed while its Perform runs (MsgFifo.h Write, Perform, Free).
NoSharedSlot == WriterSlot \cap ReaderSlot = {}

\* Every item that is still to be performed or freed is a whole message: no
\* slot that is half copied is ever published, and no unfreed item is lost by
\* a Write that laps the ring.
NoTornItem == \A s \in Unread \cup Unfreed : items[s] \in Msg

\* An item freed has been performed, an item performed has been written: the
\* three heads keep their order around the ring, and never lap each other.
HeadsInOrder ==
  Distance(freeHead, readHead) + Distance(readHead, writeHead) = Distance(freeHead, writeHead)

\* A Write is refused exactly when N - 1 items are held: not one earlier
\* (a lost message) and not one later (an overwritten one).
RefusesOnlyWhenFull ==
  writer = "idle" => (Full <=> Cardinality(Unread) + Cardinality(Unfreed) = N - 1)

\* The heads that a thread is about to move have room to move.
RoomToMove ==
  /\ writer \in {"copying", "publishing"} => ~Full
  /\ writer = "publishing" => items[NextPos(writeHead)] = message /\ message \in Msg
  /\ writer = "copying" => message \in Msg
  /\ writer = "freeing" => NeedsFree /\ HasFree
  /\ reader = "performing" => HasData
  /\ ~HasFree => freeHead = readHead

IInv == TypeOK /\ HeadsInOrder /\ RoomToMove /\ NoTornItem

-----------------------------------------------------------------------------
\* The abstract queue: the items between two heads, in ring order.
ItemsBetween(a, b) ==
  [i \in 1 .. Distance(a, b) |-> items[IF a + i < N THEN a + i ELSE a + i - N]]

unread == ItemsBetween(readHead, writeHead)
unfreed == ItemsBetween(freeHead, readHead)

Queue == INSTANCE BoundedQueue WITH Capacity <- N - 1

\* The ring is a bounded FIFO queue: messages are performed exactly once, in
\* the order they were written, and freed exactly once, in that same order.
ImplementsQueueSafety == Queue!Init /\ [][Queue!Next]_Queue!vars

\* ... and every message that a Write accepted is eventually performed.
ImplementsQueue == Queue!Spec
=============================================================================

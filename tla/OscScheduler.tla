---------------------------- MODULE OscScheduler ----------------------------
(***************************************************************************)
(* The way of an OSC packet through the server: a network thread writes it *)
(* to mOscPacketsToEngine; the audio callback performs it at once or puts  *)
(* it into mScheduler, from which it is taken in the block that its time   *)
(* tag asks for; and its memory is freed on a thread that is not the       *)
(* real-time one: on the network thread, with the slot of the FIFO, or, if *)
(* it was scheduled, on the nrt thread through mFromEngine.                *)
(*                                                                         *)
(* A message without a time tag, and a bundle with the time tag 0 or 1, is *)
(* a packet with the stamp AtOnce.                                         *)
(***************************************************************************)
EXTENDS Integers, Sequences, FiniteSets, EventQueue

CONSTANTS MaxPackets,   \* bound: how many packets are received in all
          MaxTime,      \* bound: no callback begins after it
          Stamps,       \* the times of the time tags
          AtOnce,       \* the stamp of what is performed when it arrives
          Clears,       \* the packets that hold /clearSched
          FifoSize,     \* messages that each FIFO holds
          HeapSize,     \* events that mScheduler holds
          NumBufs,      \* blocks in a callback
          Inc,          \* mOSCincrement, the time of a block
          Drifts        \* what the clock may be off at the next callback

Packet == 1 .. MaxPackets   \* in the order in which they arrive

ASSUME SchedulerAssumption ==
  /\ MaxPackets \in Nat /\ MaxTime \in Nat /\ Clears \subseteq Packet
  /\ Stamps \subseteq Nat /\ AtOnce \notin Stamps /\ \A t \in Stamps : t < Never
  /\ FifoSize \in Nat /\ HeapSize \in Nat \ {0} /\ NumBufs \in Nat \ {0} /\ Inc \in Nat
  /\ Drifts \subseteq Int
  \* no block ends when the queue without an event says that its next event is due
  /\ Never \in Nat /\ \A d \in Drifts : MaxTime + d + NumBufs * Inc < Never

VARIABLES stamp,     \* the time tag of every packet that has arrived
          arrived,   \* how many packets have arrived
          incoming,  \* mOscPacketsToEngine, what is not yet performed
          handled,   \* mData of its performed messages that are not yet freed
          heap,      \* mScheduler: mEvents[0 .. mSize - 1]
          outgoing,  \* mFromEngine, packets to free
          spent,     \* its performed messages that are not yet freed
          freed,     \* packets that were given back to malloc
          performed, \* packets whose messages were performed
          clock,     \* mOSCbuftime
          rt         \* where the audio callback is, and the blocks left

queues == <<incoming, handled, heap, outgoing, spent>>
vars == <<stamp, arrived, queues, freed, performed, clock, rt>>

Init ==
  /\ stamp = [p \in Packet |-> AtOnce]
  /\ arrived = 0
  /\ incoming = <<>> /\ handled = <<>>
  /\ heap = <<>>
  /\ outgoing = <<>> /\ spent = 0
  /\ freed = {} /\ performed = {}
  /\ clock = 0
  /\ rt = [at |-> "idle", left |-> 0]

Elements(s) == {s[i] : i \in DOMAIN s}

-----------------------------------------------------------------------------
(* Other threads. *)

\* mOscPacketsToEngine.Free() calls FreeOSCPacket; 0 is the mData of a packet
\* that was scheduled.
FreeHandled == Elements(handled) \ {0}

\* ProcessOSCPacket under mDriverLock; the port frees a packet that was refused.
Receive(t) ==
  /\ arrived + 1 \in Packet
  /\ arrived' = arrived + 1
  /\ stamp' = [stamp EXCEPT ![arrived'] = t]
  /\ handled' = <<>>
  /\ IF Len(incoming) < FifoSize
     THEN incoming' = Append(incoming, arrived') /\ freed' = freed \cup FreeHandled
     ELSE freed' = freed \cup FreeHandled \cup {arrived'} /\ UNCHANGED incoming
  /\ UNCHANGED <<heap, outgoing, spent, performed, clock, rt>>

\* The nrt thread performs a message of mFromEngine, which is FreeOSCPacket.
FreePacket ==
  /\ outgoing # <<>>
  /\ freed' = freed \cup {Head(outgoing)}
  /\ outgoing' = Tail(outgoing)
  /\ spent' = spent + 1
  /\ UNCHANGED <<stamp, arrived, incoming, handled, heap, performed, clock, rt>>

-----------------------------------------------------------------------------
(* The audio callback. *)

\* mFromEngine.Free(), and the clock is read.
CallbackBegin ==
  /\ rt.at = "idle"
  /\ clock <= MaxTime
  /\ \E d \in Drifts : clock' = clock + d
  /\ rt' = [at |-> "perform", left |-> NumBufs]
  /\ spent' = 0
  /\ UNCHANGED <<stamp, arrived, incoming, handled, heap, outgoing, freed, performed>>

\* PerformOSCBundle: /clearSched empties the scheduler.
After(p, h) == IF p \in Clears THEN <<>> ELSE h

\* Error caught by the runs: the size of the heap is not looked at.
ScheduleUnchecked(p) == Add(heap, [time |-> stamp[p], packet |-> p])

\* AddEvent, whose answer nobody looks at.
Schedule(p) ==
  IF Len(heap) < HeapSize THEN Add(heap, [time |-> stamp[p], packet |-> p]) ELSE heap

\* Error caught by the runs: the FIFO keeps the packet that was scheduled.
PerformPacketKeeps ==
  /\ rt.at = "perform"
  /\ incoming # <<>>
  /\ incoming' = Tail(incoming)
  /\ LET p == Head(incoming)
     IN  /\ handled' = Append(handled, p)
         /\ IF stamp[p] = AtOnce
            THEN performed' = performed \cup {p} /\ heap' = After(p, heap)
            ELSE heap' = Schedule(p) /\ UNCHANGED performed
  /\ UNCHANGED <<stamp, arrived, outgoing, spent, freed, clock, rt>>

\* Perform_ToEngine_Msg
PerformPacket ==
  /\ rt.at = "perform"
  /\ incoming # <<>>
  /\ incoming' = Tail(incoming)
  /\ LET p == Head(incoming)
     IN  IF stamp[p] = AtOnce
         THEN /\ performed' = performed \cup {p}
              /\ heap' = After(p, heap)
              /\ handled' = Append(handled, p)
         ELSE /\ heap' = Schedule(p)
              /\ handled' = Append(handled, 0)
              /\ UNCHANGED performed
  /\ UNCHANGED <<stamp, arrived, outgoing, spent, freed, clock, rt>>

Performed ==
  /\ rt.at = "perform" /\ incoming = <<>>
  /\ rt' = [rt EXCEPT !.at = "blocks"]
  /\ UNCHANGED <<stamp, arrived, queues, freed, performed, clock>>

Due == NextTime(heap) <= clock + Inc

\* Remove, and SC_ScheduledEvent::Perform: FreeOSCPacket is sent to the nrt thread.
PerformEvent ==
  /\ rt.at = "blocks"
  /\ Due
  /\ LET p == heap[1].packet
     IN  /\ heap' = After(p, Remove(heap))
         /\ performed' = performed \cup {p}
         /\ outgoing' = IF Len(outgoing) + spent < FifoSize THEN Append(outgoing, p) ELSE outgoing
  /\ UNCHANGED <<stamp, arrived, incoming, handled, spent, freed, clock, rt>>

\* World_Run, and after the last block mAudioSync.Signal().
RunBlock ==
  /\ rt.at = "blocks"
  /\ ~Due
  /\ clock' = clock + Inc
  /\ rt' = [at |-> IF rt.left = 1 THEN "idle" ELSE "blocks", left |-> rt.left - 1]
  /\ UNCHANGED <<stamp, arrived, queues, freed, performed>>

-----------------------------------------------------------------------------

Callback == CallbackBegin \/ PerformPacket \/ Performed \/ PerformEvent \/ RunBlock

Next == (\E t \in Stamps \cup {AtOnce} : Receive(t)) \/ FreePacket \/ Callback

Spec == Init /\ [][Next]_vars

-----------------------------------------------------------------------------
(* Properties. *)

Scheduled == {heap[i].packet : i \in DOMAIN heap}

\* The type of every variable.
TypeOK ==
  /\ stamp \in [Packet -> Stamps \cup {AtOnce}]
  /\ arrived \in 0 .. MaxPackets
  /\ incoming \in Seq(Packet) /\ Len(incoming) <= FifoSize
  /\ handled \in Seq(Packet \cup {0})
  /\ heap \in Seq([time : Stamps, packet : Packet]) /\ Len(heap) <= HeapSize
  /\ outgoing \in Seq(Packet) /\ Len(outgoing) + spent <= FifoSize /\ spent \in Nat
  /\ freed \subseteq Packet /\ performed \subseteq Packet
  /\ clock \in Int
  /\ rt \in [at : {"idle", "perform", "blocks"}, left : 0 .. NumBufs]

\* A packet that a queue still refers to is not freed, and no packet is in two
\* queues or twice in one: the FIFO frees what it performed at once, the nrt
\* thread what was scheduled, nobody frees both (Perform_ToEngine_Msg clears
\* mFreeFunc).
FreedByOne ==
  /\ freed \cap (Elements(incoming) \cup Elements(handled) \cup Scheduled \cup Elements(outgoing)) = {}
  /\ LET held == <<incoming, handled, [i \in DOMAIN heap |-> heap[i].packet], outgoing>>
     IN  \A k, l \in DOMAIN held : \A i \in DOMAIN held[k], j \in DOMAIN held[l] :
           held[k][i] # 0 /\ held[k][i] = held[l][j] => k = l /\ i = j

\* Waiting packets are forgotten only by /clearSched, or when the scheduler is
\* full: the loops of Add and Remove neither drop nor double an event.
ForgottenOnlyWhenFull ==
  [][\A p \in Packet :
       p \in Elements(incoming) \cup Scheduled
       /\ p \notin Elements(incoming)' \cup Scheduled' \cup performed' =>
         Len(heap) = HeapSize \/ \E c \in Clears : c \in performed' \ performed]_vars

\* The heap is a table of what waits: bundles are performed in the order of
\* their time tags, in the block that they ask for and never later.
Table == INSTANCE Timetable
  WITH Event <- [time : Stamps, packet : Packet], Size <- HeapSize, Block <- Inc,
       waiting <- Elements(heap), running <- rt.at # "idle", now <- clock

TableSpec == Table!TableSpec
=============================================================================

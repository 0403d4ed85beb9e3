---------------------------- MODULE BoundedQueue ----------------------------
(***************************************************************************)
(* What a message FIFO of the server promises to the two threads that use  *)
(* it: a queue of at most Capacity messages, performed in the order they   *)
(* were written, each exactly once, and (for the FIFOs whose items own     *)
(* memory) handed back to the writer, again in order, to be freed.         *)
(* MsgFifo implements it.                                                  *)
(***************************************************************************)
EXTENDS Naturals, Sequences

CONSTANTS Msg,        \* the messages that can be written
          Capacity,   \* how many messages are held before Write returns false
          HasFree     \* TRUE: performed messages are kept until they are freed

VARIABLES unread,     \* written, not yet performed
          unfreed     \* performed, not yet freed

vars == <<unread, unfreed>>

Init == unread = <<>> /\ unfreed = <<>>

Write(m) ==
  /\ Len(unread) + Len(unfreed) < Capacity
  /\ unread' = Append(unread, m)
  /\ UNCHANGED unfreed

Perform ==
  /\ unread # <<>>
  /\ unread' = Tail(unread)
  /\ unfreed' = IF HasFree THEN Append(unfreed, Head(unread)) ELSE unfreed

Free ==
  /\ unfreed # <<>>
  /\ unfreed' = Tail(unfreed)
  /\ UNCHANGED unread

Next == (\E m \in Msg : Write(m)) \/ Perform \/ Free

Spec == Init /\ [][Next]_vars /\ WF_vars(Perform)
=============================================================================

------------------------------ MODULE Timetable ------------------------------
(***************************************************************************)
(* What the scheduler of the server promises: a bundle is performed in the *)
(* first block that ends at its time or later, none before an earlier one, *)
(* and none is forgotten unless the table is full or is cleared.           *)
(***************************************************************************)
EXTENDS Integers, FiniteSets

CONSTANTS Event,   \* records with a time
          Size,    \* how many events the table holds
          Block    \* length of a block

VARIABLES waiting, \* the events that wait for their time
          running, \* blocks are being calculated
          now      \* begin of the current block

TableInit == waiting = {} /\ running = FALSE /\ now \in Int

Enter(e) ==
  /\ Cardinality(waiting) < Size
  /\ waiting' = waiting \cup {e}
  /\ UNCHANGED <<running, now>>

Clear == waiting' = {} /\ UNCHANGED <<running, now>>

\* An earliest event that is due in the current block; it may clear the table.
Call(e) ==
  /\ running
  /\ e.time <= now + Block
  /\ \A f \in waiting : e.time <= f.time
  /\ waiting' \in {waiting \ {e}, {}}
  /\ UNCHANGED <<running, now>>

\* The block is calculated when nothing is due in it any more.
Elapse ==
  /\ running
  /\ \A e \in waiting : e.time > now + Block
  /\ now' = now + Block
  /\ running' \in BOOLEAN
  /\ UNCHANGED waiting

\* The clock is read anew before a row of blocks.
Resync == ~running /\ running' /\ now' \in Int /\ UNCHANGED waiting

TableNext ==
  \/ \E e \in Event : Enter(e)
  \/ \E e \in waiting : Call(e)
  \/ Clear
  \/ Elapse
  \/ Resync

TableSpec == TableInit /\ [][TableNext]_<<waiting, running, now>>
=============================================================================

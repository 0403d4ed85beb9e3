------------------------------ MODULE HashTable ------------------------------
(***************************************************************************)
(* The open-addressing hash table of HashTable.h, as operators from the    *)
(* table before a call to the table after it.  HashTable keeps the synth   *)
(* definitions by name, IntHashTable, which has the same algorithm, the    *)
(* nodes by ID.  Both are created with mCanResize false.  The mask with    *)
(* mHashMask is a remainder, since scsynth makes the sizes powers of two.  *)
(***************************************************************************)
EXTENDS Naturals, FiniteSetsExt, SequencesExt

CONSTANTS Item, Empty,   \* what is kept, and the null pointer
          Key, KeyOf,    \* GetKey: the key of each item
          HashOf,        \* Hash: the hash of each key
          MaxItems       \* mMaxItems

ASSUME TableAssumption ==
  /\ MaxItems \in Nat \ {0}
  /\ \E k \in 0 .. 31 : MaxItems = 2 ^ k
  /\ Empty \notin Item
  /\ KeyOf \in [Item -> Key]
  /\ HashOf \in [Key -> Nat]

TableSize == 2 * MaxItems
Slots == 0 .. TableSize - 1

EmptyTable == [items |-> [i \in Slots |-> Empty], num |-> 0]

\* The probe for a key ends at the key or at the first empty slot; there always is
\* one, since at most half of the slots are taken.
IndexFor(items, key) ==
  LET probe[i \in Slots] ==
        IF items[i] = Empty \/ KeyOf[items[i]] = key THEN i ELSE probe[(i + 1) % TableSize]
  IN  probe[HashOf[key] % TableSize]

Get(T, key) == T.items[IndexFor(T.items, key)]

AddItem(T, x) ==
  LET i == IndexFor(T.items, KeyOf[x])
  IN  IF T.num >= MaxItems \/ T.items[i] # Empty THEN T
      ELSE [items |-> [T.items EXCEPT ![i] = x], num |-> T.num + 1]

\* An item that its probe no longer finds at its slot is put where the probe ends.
Rehash(items, i) ==
  LET j == IndexFor(items, KeyOf[items[i]])
  IN  [items EXCEPT ![i] = items[j], ![j] = items[i]]

\* All items from the slot after i to the next empty one.
FixCollisionsFrom(items, i) ==
  LET After(j) == (i + j) % TableSize
      run == Min({j \in 1 .. TableSize : items[After(j)] = Empty}) - 1
      fixed[k \in 0 .. run] == IF k = 0 THEN items ELSE Rehash(fixed[k - 1], After(k))
  IN  fixed[run]

\* RemoveItem with the slot emptied and the items after it left where they are.
RemoveItemKeepsRun(T, x) ==
  LET i == IndexFor(T.items, KeyOf[x])
  IN  IF T.items[i] # x THEN T
      ELSE [items |-> [T.items EXCEPT ![i] = Empty], num |-> T.num - 1]

RemoveItem(T, x) ==
  LET i == IndexFor(T.items, KeyOf[x])
  IN  IF T.items[i] # x THEN T
      ELSE [items |-> FixCollisionsFrom([T.items EXCEPT ![i] = Empty], i), num |-> T.num - 1]

Kept(T) == {T.items[i] : i \in Slots} \ {Empty}
=============================================================================

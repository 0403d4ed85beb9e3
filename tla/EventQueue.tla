----------------------------- MODULE EventQueue -----------------------------
(***************************************************************************)
(* PriorityQueueT, the heap of the bundles that wait for their time: the   *)
(* children of slot i are the slots 2i and 2i+1, and no event is later     *)
(* than its children.  The interpreter's scheduler (addheap, getheap in    *)
(* PyrSched.cpp) has the same heap with pairs of slots.                    *)
(***************************************************************************)
EXTENDS Naturals, Sequences

CONSTANT Never   \* kMaxInt64, the time of the first event of an empty queue

NextTime(h) == IF h = <<>> THEN Never ELSE h[1].time

\* Error caught by the runs: the parent is not moved into the hole.
AddOverwrites(h, e) ==
  LET n == Len(h) + 1
      Hole[i \in 1 .. n] == IF i > 1 /\ e.time < h[i \div 2].time THEN Hole[i \div 2] ELSE i
  IN  [Append(h, e) EXCEPT ![Hole[n]] = e]

\* Add: the hole for event e climbs from the last slot.
Add(h, e) ==
  LET n == Len(h) + 1
      WithHole[i \in 1 .. n] ==
        IF i > 1 /\ e.time < h[i \div 2].time
        THEN [WithHole[i \div 2] EXCEPT ![i] = h[i \div 2]]
        ELSE [Append(h, e) EXCEPT ![i] = e]
  IN  WithHole[n]

\* Error caught by the runs: the second child is not looked at.
FirstChild(h, i, n) == 2 * i

EarlierChild(h, i, n) ==
  IF 2 * i + 1 <= n /\ h[2 * i].time > h[2 * i + 1].time THEN 2 * i + 1 ELSE 2 * i

\* Remove: the last event is put into the hole that sinks from the first slot.
Remove(h) ==
  LET n == Len(h) - 1
      last == h[Len(h)]
      WithHole[i \in 1 .. n] ==
        LET c == EarlierChild(h, i, n)
        IN  IF 2 * i <= n /\ last.time > h[c].time
            THEN [WithHole[c] EXCEPT ![i] = h[c]]
            ELSE [SubSeq(h, 1, n) EXCEPT ![i] = last]
  IN  IF n = 0 THEN <<>> ELSE WithHole[1]
=============================================================================

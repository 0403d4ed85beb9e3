------------------------------ MODULE NodeLinks ------------------------------
(***************************************************************************)
(* The pointers of the node tree and the functions of SC_Node.cpp and      *)
(* SC_Group.cpp that change them.  A tree value holds the node library     *)
(* (which nodes exist, which of them are groups) and, for every node, the  *)
(* fields mParent, mPrev, mNext and, for groups, mHead and mTail.  Each    *)
(* operator maps the tree before a call to the tree after it, pointer by   *)
(* pointer; a node is identified by its ID, which the library keeps unique.*)
(***************************************************************************)
EXTENDS FiniteSets

CONSTANTS Node,   \* the node IDs, the root's included
          Root,   \* the root group, ID 0
          Null    \* the null pointer

ASSUME NodeAssumption == IsFiniteSet(Node)    \* the IDs are 32-bit integers
ASSUME RootAssumption == Root \in Node
ASSUME NullAssumption == Null \notin Node

Pointers == [Node -> Node \cup {Null}]

Trees == [live : SUBSET Node, group : SUBSET Node,
          parent : Pointers, prev : Pointers, next : Pointers,
          head : Pointers, tail : Pointers]

\* A server that has just been booted: the root group, empty.
EmptyTree ==
  LET none == [n \in Node |-> Null]
  IN  [live |-> {Root}, group |-> {Root}, parent |-> none, prev |-> none,
       next |-> none, head |-> none, tail |-> none]

\* Node_New and Group_New: the library gets a node that is in no group yet.
NewNode(T, n, isGroup) ==
  [T EXCEPT !.live = T.live \cup {n},
            !.group = IF isGroup THEN T.group \cup {n} ELSE T.group]

\* Node_Remove, with the neighbour fix-up forgotten.
RemoveKeepsPrev(T, s) ==
  LET g == T.parent[s]
      p == T.prev[s]
      q == T.next[s]
  IN [T EXCEPT
       !.parent = [T.parent EXCEPT ![s] = Null],
       !.next = [n \in Node |-> IF n = s THEN Null ELSE IF n = p THEN q ELSE T.next[n]],
       !.prev = [T.prev EXCEPT ![s] = Null],
       !.head = [n \in Node |-> IF n = g /\ p = Null THEN q ELSE T.head[n]],
       !.tail = [n \in Node |-> IF n = g /\ q = Null THEN p ELSE T.tail[n]]]

\* Node_Remove: unlink a node from its neighbours and its group.
Remove(T, s) ==
  LET g == T.parent[s]
      p == T.prev[s]
      q == T.next[s]
  IN [T EXCEPT
       !.parent = [T.parent EXCEPT ![s] = Null],
       !.next = [n \in Node |-> IF n = s THEN Null ELSE IF n = p THEN q ELSE T.next[n]],
       !.prev = [n \in Node |-> IF n = s THEN Null ELSE IF n = q THEN p ELSE T.prev[n]],
       !.head = [n \in Node |-> IF n = g /\ p = Null THEN q ELSE T.head[n]],
       !.tail = [n \in Node |-> IF n = g /\ q = Null THEN p ELSE T.tail[n]]]

\* Link s, which is in no group, into group g between its nodes p and q,
\* either of which may be Null; the assignments the four placements share.
Link(T, s, g, p, q) ==
  [T EXCEPT
    !.parent = [T.parent EXCEPT ![s] = g],
    !.next = [n \in Node |-> IF n = s THEN q ELSE IF n = p THEN s ELSE T.next[n]],
    !.prev = [n \in Node |-> IF n = s THEN p ELSE IF n = q THEN s ELSE T.prev[n]],
    !.head = [n \in Node |-> IF n = g /\ p = Null THEN s ELSE T.head[n]],
    !.tail = [n \in Node |-> IF n = g /\ q = Null THEN s ELSE T.tail[n]]]

\* Group_AddTail that adds at the head.
AddTailAtHead(T, g, s) == IF s = Root THEN T ELSE Link(T, s, g, Null, T.head[g])

\* Group_AddHead, Group_AddTail.  The root (mID == 0) is never linked.
AddHead(T, g, s) == IF s = Root THEN T ELSE Link(T, s, g, Null, T.head[g])
AddTail(T, g, s) == IF s = Root THEN T ELSE Link(T, s, g, T.tail[g], Null)

\* Node_AddAfter with the group's tail left as it was.
AddAfterKeepsTail(T, s, t) ==
  IF T.parent[t] = Null \/ s = Root THEN T
  ELSE [Link(T, s, T.parent[t], t, T.next[t]) EXCEPT !.tail = T.tail]

\* Node_AddAfter, Node_AddBefore: nothing happens if the target is in no group.
AddAfter(T, s, t) ==
  IF T.parent[t] = Null \/ s = Root THEN T
  ELSE Link(T, s, T.parent[t], t, T.next[t])

AddBefore(T, s, t) ==
  IF T.parent[t] = Null \/ s = Root THEN T
  ELSE Link(T, s, T.parent[t], T.prev[t], t)

\* The nodes below group g: the least set that holds the nodes whose parent is
\* g and, with a node, the nodes whose parent that node is.
ClosedBelow(T, g, S) ==
  \A n \in T.live : T.parent[n] \in S \cup {g} => n \in S
Below(T, g) ==
  {n \in T.live : \A S \in SUBSET T.live : ClosedBelow(T, g, S) => n \in S}

\* Group_DeleteAll without the recursion into the groups that are deleted.
DeleteChildrenOnly(T, g) ==
  LET D == {n \in T.live : T.parent[n] = g}
      Clear(f) == [n \in Node |-> IF n \in D THEN Null ELSE f[n]]
  IN [T EXCEPT
       !.live = T.live \ D, !.group = T.group \ D,
       !.parent = Clear(T.parent), !.prev = Clear(T.prev), !.next = Clear(T.next),
       !.head = [Clear(T.head) EXCEPT ![g] = Null],
       !.tail = [Clear(T.tail) EXCEPT ![g] = Null]]

\* Group_DeleteAll: every node below the group is unlinked and deleted.
DeleteAll(T, g) ==
  LET D == Below(T, g)
      Clear(f) == [n \in Node |-> IF n \in D THEN Null ELSE f[n]]
  IN [T EXCEPT
       !.live = T.live \ D, !.group = T.group \ D,
       !.parent = Clear(T.parent), !.prev = Clear(T.prev), !.next = Clear(T.next),
       !.head = [Clear(T.head) EXCEPT ![g] = Null],
       !.tail = [Clear(T.tail) EXCEPT ![g] = Null]]

\* Node_Dtor: leave the group, then the library.
Dtor(T, n) ==
  LET U == Remove(T, n)
  IN [U EXCEPT !.live = U.live \ {n}, !.group = U.group \ {n}]

\* Node_Delete, through Group_Dtor or Graph_Dtor; the root is never deleted.
Delete(T, n) ==
  IF n = Root THEN T
  ELSE IF n \in T.group THEN Dtor(DeleteAll(T, n), n) ELSE Dtor(T, n)

\* Node_Replace: s takes the place of r, which is unlinked and deleted.
Replace(T, s, r) ==
  LET p == T.prev[r]
      q == T.next[r]
  IN IF T.parent[r] = Null \/ s = Root THEN T
     ELSE Delete(Link(Remove(T, r), s, T.parent[r], p, q), r)

\* The add actions 0 to 3, as functions of the target t.
Places == {"head", "tail", "before", "after"}
PlaceAt(T, s, place, t) ==
  CASE place = "head" -> AddHead(T, t, s)
    [] place = "tail" -> AddTail(T, t, s)
    [] place = "before" -> AddBefore(T, s, t)
    [] place = "after" -> AddAfter(T, s, t)

-----------------------------------------------------------------------------
(***************************************************************************)
(* What every tree value must satisfy, whatever commands were sent.        *)
(***************************************************************************)

\* mNext and mPrev are each other's inverse, between nodes of one group.
NeighboursAgree(T) ==
  \A n, m \in Node :
    /\ T.next[n] = m <=> T.prev[m] = n
    /\ T.next[n] = m => T.parent[n] = T.parent[m] /\ T.parent[n] # Null

\* A group's mHead and mTail are the nodes of it that have no mPrev, no mNext,
\* and it has either both or neither.
EndsAgree(T) ==
  /\ \A g, n \in Node :
       /\ T.head[g] = n <=> T.parent[n] = g /\ T.prev[n] = Null
       /\ T.tail[g] = n <=> T.parent[n] = g /\ T.next[n] = Null
  /\ \A g \in Node : T.head[g] = Null <=> T.tail[g] = Null

\* Only live nodes are linked, only groups have nodes, the root has no parent.
LibraryAgrees(T) ==
  /\ Root \in T.group /\ T.group \subseteq T.live /\ T.parent[Root] = Null
  /\ \A n \in Node : T.parent[n] # Null => n \in T.live /\ T.parent[n] \in T.group

\* A walk along mNext never returns: every set of nodes has a way out of it.
NoRings(T) ==
  \A S \in SUBSET Node : S # {} => \E n \in S : T.next[n] \notin S

LinksOK(T) == NeighboursAgree(T) /\ EndsAgree(T) /\ LibraryAgrees(T) /\ NoRings(T)
=============================================================================

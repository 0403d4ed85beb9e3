--------------------------- MODULE NodeTreeProofs ----------------------------
(***************************************************************************)
(* Whatever commands a client sends, and for every set of node IDs, the    *)
(* child lists stay whole and complete, and no command in progress keeps a *)
(* pointer to a freed node.  If the placements make sense, no node is cut  *)
(* off from the root: every set of other nodes has one whose parent is not *)
(* in the set (Rooted); and every command does to the children of the      *)
(* groups, as lists, what ChildLists says (ListsImplemented).              *)
(***************************************************************************)
EXTENDS NodeTreeLists, SequenceTheorems, FiniteSetTheorems, WellFoundedInduction, TLAPS

-----------------------------------------------------------------------------
(***************************************************************************)
(* The pointer operations of NodeLinks keep the child lists whole, for     *)
(* every set of nodes and every tree value whose lists are whole.          *)
(***************************************************************************)

\* The fields of a tree are pointers.
LEMMA FieldTypes ==
  ASSUME NEW T \in Trees
  PROVE  /\ T.live \subseteq Node /\ T.group \subseteq Node
         /\ T.parent \in [Node -> Node \cup {Null}] /\ T.prev \in [Node -> Node \cup {Null}]
         /\ T.next \in [Node -> Node \cup {Null}] /\ T.head \in [Node -> Node \cup {Null}]
         /\ T.tail \in [Node -> Node \cup {Null}]
  BY DEF Trees, Pointers

LEMMA EmptyTreeOK == EmptyTree \in Trees /\ LinksOK(EmptyTree)
  <1>1. EmptyTree \in Trees
    BY RootAssumption DEF EmptyTree, Trees, Pointers
  <1>2. NeighboursAgree(EmptyTree) /\ EndsAgree(EmptyTree) /\ LibraryAgrees(EmptyTree)
    BY RootAssumption, NullAssumption DEF EmptyTree, NeighboursAgree, EndsAgree, LibraryAgrees
  <1>3. NoRings(EmptyTree)
    BY NullAssumption DEF EmptyTree, NoRings
  <1> QED
    BY <1>1, <1>2, <1>3 DEF LinksOK

\* A new node is in the library and in no group.
LEMMA NewNodeOK ==
  ASSUME NEW T \in Trees, LinksOK(T), NEW n \in Node \ T.live, NEW isGroup \in BOOLEAN
  PROVE  LET U == NewNode(T, n, isGroup)
         IN  /\ U \in Trees /\ LinksOK(U)
             /\ U.parent[n] = Null /\ n \in U.live /\ n # Root
             /\ T.group \subseteq U.group /\ T.live \subseteq U.live
  <1> DEFINE U == NewNode(T, n, isGroup)
  <1>1. U \in Trees
    BY DEF NewNode, Trees
  <1>2. /\ U.live = T.live \cup {n}
        /\ U.group = IF isGroup THEN T.group \cup {n} ELSE T.group
        /\ U.parent = T.parent /\ U.prev = T.prev /\ U.next = T.next
        /\ U.head = T.head /\ U.tail = T.tail
    BY DEF NewNode, Trees
  <1> HIDE DEF U
  <1>3. LinksOK(U)
    BY <1>2 DEF LinksOK, NeighboursAgree, EndsAgree, LibraryAgrees, NoRings
  <1>4. n # Root /\ T.parent[n] = Null
    BY DEF LinksOK, LibraryAgrees
  <1> QED
    BY <1>1, <1>2, <1>3, <1>4 DEF U

\* Node_Remove leaves the lists whole and the node in no group.
LEMMA RemoveOK ==
  ASSUME NEW T \in Trees, LinksOK(T), NEW s \in Node
  PROVE  LET U == Remove(T, s)
         IN  /\ U \in Trees /\ LinksOK(U)
             /\ U.parent[s] = Null /\ U.live = T.live /\ U.group = T.group
  <1> DEFINE U == Remove(T, s)
  <1>1. U \in Trees
    BY NullAssumption DEF Remove, Trees, Pointers
  <1>2. /\ U.live = T.live /\ U.group = T.group
        /\ U.parent = [T.parent EXCEPT ![s] = Null]
        /\ U.next = [n \in Node |-> IF n = s THEN Null ELSE IF n = T.prev[s] THEN T.next[s] ELSE T.next[n]]
        /\ U.prev = [n \in Node |-> IF n = s THEN Null ELSE IF n = T.next[s] THEN T.prev[s] ELSE T.prev[n]]
        /\ U.head = [n \in Node |-> IF n = T.parent[s] /\ T.prev[s] = Null THEN T.next[s] ELSE T.head[n]]
        /\ U.tail = [n \in Node |-> IF n = T.parent[s] /\ T.next[s] = Null THEN T.prev[s] ELSE T.tail[n]]
    BY DEF Remove, Trees
  <1> HIDE DEF U
  <1>3. NeighboursAgree(U)
    BY <1>2, NullAssumption, FieldTypes DEF LinksOK, NeighboursAgree
  <1>4. EndsAgree(U)
    BY <1>2, NullAssumption, FieldTypes DEF LinksOK, NeighboursAgree, EndsAgree
  <1>5. LibraryAgrees(U)
    BY <1>2, NullAssumption, RootAssumption, FieldTypes DEF LinksOK, LibraryAgrees
  <1>6. U.parent[s] = Null
    BY <1>2, FieldTypes
  <1>7. NoRings(U)
    <2> SUFFICES ASSUME NEW S \in SUBSET Node, S # {}, \A n \in S : U.next[n] \in S
                 PROVE  FALSE
      BY DEF NoRings
    <2>1. s \notin S
      BY <1>2, NullAssumption
    <2>2. CASE T.prev[s] \in S
      <3>1. T.next[T.prev[s]] = s /\ T.next[s] \in S
        BY <1>2, <2>1, <2>2 DEF LinksOK, NeighboursAgree
      <3>2. \A n \in S \cup {s} : T.next[n] \in S \cup {s}
        BY <1>2, <2>1, <3>1
      <3> QED
        BY <3>2 DEF LinksOK, NoRings
    <2>3. CASE T.prev[s] \notin S
      <3>1. \A n \in S : T.next[n] \in S
        BY <1>2, <2>1, <2>3
      <3> QED
        BY <3>1 DEF LinksOK, NoRings
    <2> QED
      BY <2>2, <2>3
  <1> QED
    BY <1>1, <1>2, <1>3, <1>4, <1>5, <1>6, <1>7 DEF U, LinksOK

\* Link puts a node that is in no group between two neighbours of a group.
Gap(T, g, p, q) ==
  /\ p = Null => T.head[g] = q
  /\ q = Null => T.tail[g] = p
  /\ p # Null => T.parent[p] = g /\ T.next[p] = q
  /\ q # Null => T.parent[q] = g /\ T.prev[q] = p

LEMMA LinkOK ==
  ASSUME NEW T \in Trees, LinksOK(T), NEW s \in T.live, s # Root, T.parent[s] = Null,
         NEW g \in T.group, NEW p \in Node \cup {Null}, NEW q \in Node \cup {Null},
         Gap(T, g, p, q)
  PROVE  LET U == Link(T, s, g, p, q)
         IN  U \in Trees /\ LinksOK(U) /\ U.live = T.live /\ U.group = T.group
  <1> DEFINE U == Link(T, s, g, p, q)
  <1>0. s \in Node /\ g \in Node
    BY FieldTypes
  <1>1. U \in Trees
    BY <1>0 DEF Link, Trees, Pointers
  <1>2. /\ U.live = T.live /\ U.group = T.group
        /\ U.parent = [T.parent EXCEPT ![s] = g]
        /\ U.next = [n \in Node |-> IF n = s THEN q ELSE IF n = p THEN s ELSE T.next[n]]
        /\ U.prev = [n \in Node |-> IF n = s THEN p ELSE IF n = q THEN s ELSE T.prev[n]]
        /\ U.head = [n \in Node |-> IF n = g /\ p = Null THEN s ELSE T.head[n]]
        /\ U.tail = [n \in Node |-> IF n = g /\ q = Null THEN s ELSE T.tail[n]]
    BY DEF Link, Trees
  <1> HIDE DEF U
  <1>3. NeighboursAgree(U)
    BY <1>0, <1>2, NullAssumption, FieldTypes DEF LinksOK, NeighboursAgree, EndsAgree, Gap
  <1>4. EndsAgree(U)
    BY <1>0, <1>2, NullAssumption, FieldTypes DEF LinksOK, NeighboursAgree, EndsAgree, Gap
  <1>5. LibraryAgrees(U)
    BY <1>0, <1>2, NullAssumption, RootAssumption, FieldTypes DEF LinksOK, LibraryAgrees
  <1>6. NoRings(U)
    <2> SUFFICES ASSUME NEW S \in SUBSET Node, S # {}, \A n \in S : U.next[n] \in S
                 PROVE  FALSE
      BY DEF NoRings
    <2>1. \A n \in Node : T.next[n] # s
      BY <1>0 DEF LinksOK, NeighboursAgree
    <2>2. CASE s \in S
      <3>1. q \in S /\ q # s
        BY <1>0, <1>2, <2>2, NullAssumption DEF Gap
      <3>2. p \in S => T.next[p] = q
        BY NullAssumption DEF Gap
      <3>3. \A n \in S \ {s} : T.next[n] \in S \ {s}
        BY <1>0, <1>2, <2>1, <3>1, <3>2
      <3> QED
        BY <3>1, <3>3 DEF LinksOK, NoRings
    <2>3. CASE s \notin S
      <3>1. \A n \in S : T.next[n] \in S
        BY <1>2, <2>3
      <3> QED
        BY <3>1 DEF LinksOK, NoRings
    <2> QED
      BY <2>2, <2>3
  <1> QED
    BY <1>1, <1>2, <1>3, <1>4, <1>5, <1>6 DEF U, LinksOK

\* The four placements put a node that is in no group into the target's group,
\* or leave it where it is.
LEMMA PlaceAtOK ==
  ASSUME NEW T \in Trees, LinksOK(T), NEW s \in T.live, T.parent[s] = Null,
         NEW place \in Places, NEW t \in T.live,
         place \in {"head", "tail"} => t \in T.group
  PROVE  LET U == PlaceAt(T, s, place, t)
         IN  U \in Trees /\ LinksOK(U) /\ U.live = T.live /\ U.group = T.group
  <1>1. CASE s = Root \/ (place \in {"before", "after"} /\ T.parent[t] = Null)
    BY <1>1 DEF PlaceAt, AddHead, AddTail, AddBefore, AddAfter, Places
  <1>2. CASE s # Root /\ place = "head"
    <2>1. Gap(T, t, Null, T.head[t]) /\ T.head[t] \in Node \cup {Null}
      BY <1>2, NullAssumption, FieldTypes DEF Gap, LinksOK, NeighboursAgree, EndsAgree
    <2>2. s # Root /\ t \in T.group /\ Null \in Node \cup {Null}
      BY <1>2
    <2> DEFINE V == Link(T, s, t, Null, T.head[t])
    <2>3. V \in Trees /\ LinksOK(V) /\ V.live = T.live /\ V.group = T.group
      <3> DEFINE q == T.head[t]
      <3>1. Gap(T, t, Null, q) /\ q \in Node \cup {Null}
        BY <2>1
      <3> HIDE DEF q
      <3>2. LinksOK(Link(T, s, t, Null, q)) /\ Link(T, s, t, Null, q) \in Trees
            /\ Link(T, s, t, Null, q).live = T.live /\ Link(T, s, t, Null, q).group = T.group
        BY <2>2, <3>1, LinkOK
      <3> QED
        BY <3>2 DEF q
    <2>4. PlaceAt(T, s, place, t) = V
      BY <1>2 DEF PlaceAt, AddHead
    <2> HIDE DEF V
    <2> QED
      BY <2>3, <2>4
  <1>3. CASE s # Root /\ place = "tail"
    <2>1. Gap(T, t, T.tail[t], Null) /\ T.tail[t] \in Node \cup {Null}
      BY <1>3, NullAssumption, FieldTypes DEF Gap, LinksOK, NeighboursAgree, EndsAgree
    <2>2. s # Root /\ t \in T.group /\ Null \in Node \cup {Null}
      BY <1>3
    <2> DEFINE V == Link(T, s, t, T.tail[t], Null)
    <2>3. V \in Trees /\ LinksOK(V) /\ V.live = T.live /\ V.group = T.group
      BY <2>1, <2>2, LinkOK
    <2>4. PlaceAt(T, s, place, t) = V
      BY <1>3 DEF PlaceAt, AddTail
    <2> HIDE DEF V
    <2> QED
      BY <2>3, <2>4
  <1>4. CASE s # Root /\ place = "before" /\ T.parent[t] # Null
    <2>1. /\ Gap(T, T.parent[t], T.prev[t], t) /\ T.prev[t] \in Node \cup {Null}
          /\ T.parent[t] \in T.group /\ t \in Node
      BY <1>4, NullAssumption, FieldTypes DEF Gap, LinksOK, NeighboursAgree, EndsAgree, LibraryAgrees
    <2> QED
      BY <1>4, <2>1, LinkOK DEF PlaceAt, AddBefore
  <1>5. CASE s # Root /\ place = "after" /\ T.parent[t] # Null
    <2>1. /\ Gap(T, T.parent[t], t, T.next[t]) /\ T.next[t] \in Node \cup {Null}
          /\ T.parent[t] \in T.group /\ t \in Node
      BY <1>5, NullAssumption, FieldTypes DEF Gap, LinksOK, NeighboursAgree, EndsAgree, LibraryAgrees
    <2> QED
      BY <1>5, <2>1, LinkOK DEF PlaceAt, AddAfter
  <1> QED
    BY <1>1, <1>2, <1>3, <1>4, <1>5 DEF Places

-----------------------------------------------------------------------------
\* What is below a group: exactly the nodes whose parent is the group or is
\* itself below it.
LEMMA BelowClosed ==
  ASSUME NEW T, NEW g, NEW n \in T.live, T.parent[n] \in Below(T, g) \cup {g}
  PROVE  n \in Below(T, g)
  <1>1. ASSUME NEW S \in SUBSET T.live, ClosedBelow(T, g, S)
        PROVE  n \in S
    <2>1. T.parent[n] \in S \cup {g}
      BY <1>1 DEF Below
    <2> QED
      BY <1>1, <2>1 DEF ClosedBelow
  <1> QED
    BY <1>1 DEF Below

LEMMA BelowParent ==
  ASSUME NEW T, NEW g, NEW n \in Below(T, g)
  PROVE  T.parent[n] \in Below(T, g) \cup {g}
  <1> DEFINE S == {m \in Below(T, g) : T.parent[m] \in Below(T, g) \cup {g}}
  <1>1. S \in SUBSET T.live
    BY DEF Below
  <1>2. ClosedBelow(T, g, S)
    BY BelowClosed DEF ClosedBelow
  <1>3. n \in S
    BY <1>1, <1>2 DEF Below
  <1> QED
    BY <1>3

\* Group_DeleteAll leaves whole lists: no surviving node points to a freed one.
LEMMA DeleteAllOK ==
  ASSUME NEW T \in Trees, LinksOK(T), NEW g \in T.group
  PROVE  LET U == DeleteAll(T, g)
         IN  /\ U \in Trees /\ LinksOK(U)
             /\ U.live = T.live \ Below(T, g) /\ U.group = T.group \ Below(T, g)
             /\ \A m \in Node : U.parent[m] # g
  <1> DEFINE D == Below(T, g)
             U == DeleteAll(T, g)
  <1>0. g \in Node /\ D \subseteq T.live /\ T.live \subseteq Node /\ T.group \subseteq Node
    BY FieldTypes DEF Below
  <1>1. U \in Trees
    BY FieldTypes DEF DeleteAll, Trees, Pointers
  <1>2. /\ U.live = T.live \ D /\ U.group = T.group \ D
        /\ U.parent = [n \in Node |-> IF n \in D THEN Null ELSE T.parent[n]]
        /\ U.prev = [n \in Node |-> IF n \in D THEN Null ELSE T.prev[n]]
        /\ U.next = [n \in Node |-> IF n \in D THEN Null ELSE T.next[n]]
        /\ U.head = [n \in Node |-> IF n \in D \cup {g} THEN Null ELSE T.head[n]]
        /\ U.tail = [n \in Node |-> IF n \in D \cup {g} THEN Null ELSE T.tail[n]]
    BY <1>0 DEF DeleteAll, Trees
  <1>3. \A n \in Node : n \in D <=> T.parent[n] \in D \cup {g}
    <2>1. ASSUME NEW n \in Node, T.parent[n] \in D \cup {g} PROVE n \in D
      <3>1. T.parent[n] # Null
        BY <1>0, <2>1, NullAssumption
      <3>2. n \in T.live
        BY <3>1 DEF LinksOK, LibraryAgrees
      <3> QED
        BY <2>1, <3>2, BelowClosed
    <2> QED
      BY <2>1, BelowParent
  <1> HIDE DEF U, D
  <1>4. NeighboursAgree(U)
    BY <1>0, <1>2, <1>3, NullAssumption, FieldTypes DEF LinksOK, NeighboursAgree
  <1>5. EndsAgree(U)
    BY <1>0, <1>2, <1>3, NullAssumption, FieldTypes DEF LinksOK, NeighboursAgree, EndsAgree
  <1>6. Root \notin D
    BY <1>0, <1>3, RootAssumption, NullAssumption DEF LinksOK, LibraryAgrees
  <1>7. LibraryAgrees(U)
    BY <1>0, <1>2, <1>3, <1>6, NullAssumption, RootAssumption, FieldTypes DEF LinksOK, LibraryAgrees
  <1>8. \A m \in Node : U.parent[m] # g
    BY <1>0, <1>2, <1>3, NullAssumption
  <1>9. NoRings(U)
    BY <1>2, NullAssumption DEF LinksOK, NoRings
  <1> QED
    BY <1>1, <1>2, <1>4, <1>5, <1>7, <1>8, <1>9 DEF U, D, LinksOK

\* Node_Dtor on a node that has no nodes of its own (any more).
LEMMA DtorOK ==
  ASSUME NEW T \in Trees, LinksOK(T), NEW n \in Node, n # Root,
         \A m \in Node : T.parent[m] # n
  PROVE  LET U == Dtor(T, n)
         IN  U \in Trees /\ LinksOK(U) /\ U.live = T.live \ {n} /\ U.group = T.group \ {n}
  <1> DEFINE V == Remove(T, n)
             U == Dtor(T, n)
  <1>1. V \in Trees /\ LinksOK(V) /\ V.parent[n] = Null /\ V.live = T.live /\ V.group = T.group
    BY RemoveOK
  <1>2. \A m \in Node : V.parent[m] # n
    BY FieldTypes, NullAssumption DEF Remove, Trees
  <1> HIDE DEF V
  <1>3. U = [V EXCEPT !.live = V.live \ {n}, !.group = V.group \ {n}]
    BY DEF Dtor, V
  <1>4. /\ U.live = V.live \ {n} /\ U.group = V.group \ {n}
        /\ U.parent = V.parent /\ U.prev = V.prev /\ U.next = V.next
        /\ U.head = V.head /\ U.tail = V.tail /\ U \in Trees
    BY <1>1, <1>3 DEF Trees
  <1> HIDE DEF U
  <1>5. NeighboursAgree(U) /\ EndsAgree(U) /\ NoRings(U)
    BY <1>1, <1>4 DEF LinksOK, NeighboursAgree, EndsAgree, NoRings
  <1>6. LibraryAgrees(U)
    BY <1>1, <1>2, <1>4, RootAssumption DEF LinksOK, LibraryAgrees
  <1> QED
    BY <1>1, <1>4, <1>5, <1>6 DEF U, LinksOK

\* Node_Delete, on any node and on the root.
LEMMA DeleteOK ==
  ASSUME NEW T \in Trees, LinksOK(T), NEW n \in T.live
  PROVE  Delete(T, n) \in Trees /\ LinksOK(Delete(T, n))
  <1>0. n \in Node
    BY FieldTypes
  <1>1. CASE n = Root
    BY <1>1 DEF Delete
  <1>2. CASE n # Root /\ n \in T.group
    BY <1>0, <1>2, DeleteAllOK, DtorOK DEF Delete
  <1>3. CASE n # Root /\ n \notin T.group
    <2>1. \A m \in Node : T.parent[m] # n
      BY <1>3, FieldTypes, NullAssumption, <1>0 DEF LinksOK, LibraryAgrees
    <2> QED
      BY <1>0, <1>3, <2>1, DtorOK DEF Delete
  <1> QED
    BY <1>1, <1>2, <1>3

\* Node_Replace links a node that is in no group where r was.
LEMMA ReplaceLinks ==
  ASSUME NEW T \in Trees, LinksOK(T), NEW s \in T.live, T.parent[s] = Null, s # Root,
         NEW r \in T.live, T.parent[r] # Null
  PROVE  LET V == Link(Remove(T, r), s, T.parent[r], T.prev[r], T.next[r])
         IN  V \in Trees /\ LinksOK(V) /\ V.live = T.live
  <1>0. s \in Node /\ r \in Node
    BY FieldTypes
  <1> DEFINE U == Remove(T, r)
             g == T.parent[r]
             p == T.prev[r]
             q == T.next[r]
  <1>1. /\ U \in Trees /\ LinksOK(U) /\ U.live = T.live /\ U.group = T.group
        /\ g \in T.group /\ p \in Node \cup {Null} /\ q \in Node \cup {Null}
    BY <1>0, RemoveOK, FieldTypes DEF LinksOK, LibraryAgrees
  <1>2. U.parent[s] = Null
    BY <1>0, FieldTypes DEF Remove, Trees
  <1>3. Gap(U, g, p, q)
    <2>1. /\ U.parent = [T.parent EXCEPT ![r] = Null]
          /\ U.next = [n \in Node |-> IF n = r THEN Null ELSE IF n = p THEN q ELSE T.next[n]]
          /\ U.prev = [n \in Node |-> IF n = r THEN Null ELSE IF n = q THEN p ELSE T.prev[n]]
          /\ U.head = [n \in Node |-> IF n = g /\ p = Null THEN q ELSE T.head[n]]
          /\ U.tail = [n \in Node |-> IF n = g /\ q = Null THEN p ELSE T.tail[n]]
      BY DEF Remove, Trees
    <2>2. g \in Node
      BY <1>1, FieldTypes
    <2>3. (p # Null => p # r) /\ (q # Null => q # r)
      <3>1. T.next[r] # r
        <4>1. {r} \in SUBSET Node /\ {r} # {}
          BY <1>0
        <4>2. \E n \in {r} : T.next[n] \notin {r}
          BY <4>1 DEF LinksOK, NoRings
        <4> QED
          BY <4>2
      <3> QED
        BY <1>0, <1>1, <3>1 DEF LinksOK, NeighboursAgree
    <2> QED
      BY <1>0, <1>1, <2>1, <2>2, <2>3, NullAssumption, FieldTypes
      DEF Gap, LinksOK, NeighboursAgree, EndsAgree
  <1> DEFINE V == Link(U, s, g, p, q)
  <1>4. V \in Trees /\ LinksOK(V) /\ V.live = T.live
    BY <1>1, <1>2, <1>3, LinkOK
  <1> QED
    BY <1>4

\* Node_Replace by a node that is in no group.
LEMMA ReplaceOK ==
  ASSUME NEW T \in Trees, LinksOK(T), NEW s \in T.live, T.parent[s] = Null,
         NEW r \in T.live
  PROVE  Replace(T, s, r) \in Trees /\ LinksOK(Replace(T, s, r))
  <1>0. s \in Node /\ r \in Node
    BY FieldTypes
  <1>1. CASE T.parent[r] = Null \/ s = Root
    BY <1>1 DEF Replace
  <1>2. CASE T.parent[r] # Null /\ s # Root
    <2> DEFINE V == Link(Remove(T, r), s, T.parent[r], T.prev[r], T.next[r])
    <2>1. V \in Trees /\ LinksOK(V) /\ r \in V.live
      BY <1>2, ReplaceLinks
    <2>2. Replace(T, s, r) = Delete(V, r)
      BY <1>2 DEF Replace
    <2> HIDE DEF V
    <2> QED
      BY <2>1, <2>2, DeleteOK
  <1> QED
    BY <1>1, <1>2

-----------------------------------------------------------------------------
(***************************************************************************)
(* The commands.                                                           *)
(***************************************************************************)

\* A node taken out of its group and placed again: n_before, n_after, n_order,
\* g_head and g_tail.
LEMMA MoveOK ==
  ASSUME NEW T \in Trees, LinksOK(T), NEW n \in T.live, NEW place \in Places,
         NEW t \in T.live, place \in {"head", "tail"} => t \in T.group
  PROVE  LET U == PlaceAt(Remove(T, n), n, place, t)
         IN  U \in Trees /\ LinksOK(U) /\ U.live = T.live /\ U.group = T.group
  <1> DEFINE R == Remove(T, n)
             U == PlaceAt(R, n, place, t)
  <1>1. n \in Node
    BY FieldTypes
  <1>2. R \in Trees /\ LinksOK(R) /\ R.parent[n] = Null /\ R.live = T.live /\ R.group = T.group
    BY <1>1, RemoveOK
  <1>3. U \in Trees /\ LinksOK(U) /\ U.live = R.live /\ U.group = R.group
    <2> HIDE DEF R
    <2> QED
      BY <1>2, PlaceAtOK
  <1> QED
    BY <1>2, <1>3

LEMMA MovePairOK ==
  ASSUME NEW T \in Trees, LinksOK(T), NEW n \in T.live, NEW t \in T.live
  PROVE  /\ LET U == MoveBefore(T, n, t)
            IN  U \in Trees /\ LinksOK(U) /\ U.live = T.live /\ U.group = T.group
         /\ LET U == MoveAfter(T, n, t)
            IN  U \in Trees /\ LinksOK(U) /\ U.live = T.live /\ U.group = T.group
  <1>1. /\ MoveBefore(T, n, t) = PlaceAt(Remove(T, n), n, "before", t)
        /\ MoveAfter(T, n, t) = PlaceAt(Remove(T, n), n, "after", t)
    BY DEF MoveBefore, MoveAfter, PlaceAt
  <1>2. LET U == PlaceAt(Remove(T, n), n, "before", t)
        IN  U \in Trees /\ LinksOK(U) /\ U.live = T.live /\ U.group = T.group
    BY MoveOK DEF Places
  <1>3. LET U == PlaceAt(Remove(T, n), n, "after", t)
        IN  U \in Trees /\ LinksOK(U) /\ U.live = T.live /\ U.group = T.group
    BY MoveOK DEF Places
  <1> QED
    BY <1>1, <1>2, <1>3

\* A new node placed at a target.
LEMMA PlaceNewOK ==
  ASSUME NEW T \in Trees, LinksOK(T), NEW n \in Node \ T.live, NEW isGroup \in BOOLEAN,
         NEW place \in Places, NEW t \in T.live, place \in {"head", "tail"} => t \in T.group
  PROVE  LET U == PlaceAt(NewNode(T, n, isGroup), n, place, t)
         IN  U \in Trees /\ LinksOK(U)
  <1> DEFINE W == NewNode(T, n, isGroup)
             U == PlaceAt(W, n, place, t)
  <1>1. /\ W \in Trees /\ LinksOK(W) /\ W.parent[n] = Null /\ n \in W.live
        /\ T.group \subseteq W.group /\ T.live \subseteq W.live
    BY NewNodeOK
  <1>2. U \in Trees /\ LinksOK(U)
    <2> HIDE DEF W
    <2> QED
      BY <1>1, PlaceAtOK
  <1> QED
    BY <1>2

\* A synth freed by g_deepFree: no group loses its place.
LEMMA DeepFreeOneOK ==
  ASSUME NEW T \in Trees, LinksOK(T), NEW n \in T.live \ T.group
  PROVE  LET U == Delete(Remove(T, n), n)
         IN  U \in Trees /\ LinksOK(U) /\ U.group = T.group
  <1> DEFINE R == Remove(T, n)
  <1>1. n \in Node /\ n # Root
    BY FieldTypes DEF LinksOK, LibraryAgrees
  <1>2. R \in Trees /\ LinksOK(R) /\ R.live = T.live /\ R.group = T.group
    BY <1>1, RemoveOK
  <1> HIDE DEF R
  <1>3. \A m \in Node : R.parent[m] # n
    BY <1>1, <1>2, FieldTypes, NullAssumption DEF LinksOK, LibraryAgrees
  <1>4. Delete(R, n) = Dtor(R, n)
    BY <1>1, <1>2 DEF Delete
  <1> DEFINE U == Dtor(R, n)
  <1>5. U \in Trees /\ LinksOK(U) /\ U.group = R.group \ {n}
    BY <1>1, <1>2, <1>3, DtorOK
  <1> QED
    BY <1>2, <1>4, <1>5 DEF R

-----------------------------------------------------------------------------
\* The nodes that a command holds between two elements of its list.
HeldLive ==
  /\ message.name \in {"n_before", "n_after"} => {message.node, message.target} \subseteq tree.live
  /\ message.name = "n_order" => message.node \in tree.live
  /\ message.name = "g_deepFree" => message.node \in tree.group

IInv == TypeOK /\ ListsWhole /\ HeldLive

LEMMA InitIInv == Init => IInv
  <1> SUFFICES ASSUME Init PROVE IInv
    OBVIOUS
  <1>1. tree \in Trees /\ LinksOK(tree)
    BY EmptyTreeOK DEF Init
  <1> QED
    BY <1>1 DEF Init, IInv, TypeOK, ListsWhole, HeldLive, Idle

\* A step that ends in, or stays in, the idle state of the message.
LEMMA IdleIInv ==
  ASSUME message' = Idle, tree' \in Trees, LinksOK(tree')
  PROVE  IInv'
  BY DEF IInv, TypeOK, ListsWhole, HeldLive, Idle

\* A step after which the command keeps node n and target t.
LEMMA KeepIInv ==
  ASSUME NEW name \in {"n_before", "n_after"},
         NEW n, NEW t, message' = Command(name, n, t),
         tree' \in Trees, LinksOK(tree'), n \in tree'.live, t \in tree'.live
  PROVE  IInv'
  <1>1. n \in Node /\ t \in Node
    BY DEF Trees
  <1> QED
    BY <1>1 DEF IInv, TypeOK, ListsWhole, HeldLive, Command

LEMMA OrderIInv ==
  ASSUME NEW n, message' = Command("n_order", n, Null),
         tree' \in Trees, LinksOK(tree'), n \in tree'.live
  PROVE  IInv'
  <1>1. n \in Node
    BY DEF Trees
  <1> QED
    BY <1>1 DEF IInv, TypeOK, ListsWhole, HeldLive, Command

LEMMA NextIInv == IInv /\ [Next]_vars => IInv'
  <1> SUFFICES ASSUME IInv, [Next]_vars PROVE IInv'
    OBVIOUS
  <1>0. /\ tree \in Trees /\ LinksOK(tree)
        /\ tree.live \subseteq Node /\ tree.group \subseteq tree.live
    BY FieldTypes DEF IInv, TypeOK, ListsWhole, LinksOK, LibraryAgrees
  <1>1. ASSUME NEW n \in Node, NEW isGroup \in BOOLEAN, NEW place \in Places, NEW t \in Node,
               New(n, isGroup, place, t)
        PROVE  IInv'
    <2>1. /\ n \in Node \ tree.live /\ t \in tree.live
          /\ place \in {"head", "tail"} => t \in tree.group
      BY <1>0, <1>1 DEF New, Target
    <2>2. tree' \in Trees /\ LinksOK(tree')
      BY <1>0, <1>1, <2>1, PlaceNewOK DEF New
    <2> QED
      BY <1>1, <2>2, IdleIInv DEF New
  <1>2. ASSUME NEW n \in Node, NEW isGroup \in BOOLEAN, NEW r \in Node, NewReplace(n, isGroup, r)
        PROVE  IInv'
    <2> DEFINE W == NewNode(tree, n, isGroup)
    <2>1. n \in Node \ tree.live /\ r \in tree.live
      BY <1>2 DEF NewReplace
    <2>2. W \in Trees /\ LinksOK(W) /\ W.parent[n] = Null /\ n \in W.live /\ r \in W.live
      BY <1>0, <2>1, NewNodeOK
    <2>3. tree' = Replace(W, n, r)
      BY <1>2 DEF NewReplace
    <2> HIDE DEF W
    <2>4. tree' \in Trees /\ LinksOK(tree')
      BY <2>2, <2>3, ReplaceOK
    <2> QED
      BY <1>2, <2>4, IdleIInv DEF NewReplace
  <1>3. ASSUME NEW n \in Node, NFree(n) PROVE IInv'
    BY <1>0, <1>3, DeleteOK, IdleIInv DEF NFree
  <1>4. ASSUME NEW g \in Node, GFreeAll(g) PROVE IInv'
    <2>1. tree' \in Trees /\ LinksOK(tree')
      BY <1>0, <1>4, DeleteAllOK DEF GFreeAll
    <2> QED
      BY <1>4, <2>1, IdleIInv DEF GFreeAll
  <1>5. ASSUME NEW g \in Node, NEW n \in Node, GHead(g, n) \/ GTail(g, n) PROVE IInv'
    <2>1. /\ AddHead(Remove(tree, n), g, n) = PlaceAt(Remove(tree, n), n, "head", g)
          /\ AddTail(Remove(tree, n), g, n) = PlaceAt(Remove(tree, n), n, "tail", g)
      BY DEF PlaceAt
    <2>2. g \in tree.group /\ g \in tree.live /\ n \in tree.live /\ message' = Idle
      BY <1>0, <1>5 DEF GHead, GTail
    <2>3. \A place \in {"head", "tail"} :
            LET U == PlaceAt(Remove(tree, n), n, place, g) IN U \in Trees /\ LinksOK(U)
      BY <1>0, <2>2, MoveOK DEF Places
    <2>4. tree' \in Trees /\ LinksOK(tree')
      BY <1>5, <2>1, <2>3 DEF GHead, GTail
    <2> QED
      BY <2>2, <2>4, IdleIInv
  <1>6. ASSUME NEW name \in {"n_before", "n_after"}, NEW n \in Node, NEW t \in Node,
               PairsBegin(name, n, t)
        PROVE  IInv'
    BY <1>0, <1>6, KeepIInv DEF PairsBegin
  <1>7. message.name \in {"n_before", "n_after"} =>
          LET U == MovePending IN U \in Trees /\ LinksOK(U) /\ U.live = tree.live
    BY <1>0, MovePairOK DEF MovePending, IInv, HeldLive
  <1>8. ASSUME NEW n \in Node, NEW t \in Node, PairsNext(n, t) PROVE IInv'
    <2>1. tree' \in Trees /\ LinksOK(tree') /\ tree'.live = tree.live
      BY <1>0, <1>7, <1>8 DEF PairsNext
    <2> QED
      BY <1>8, <2>1, KeepIInv DEF PairsNext
  <1>9. ASSUME PairsEnd PROVE IInv'
    <2>1. tree' \in Trees /\ LinksOK(tree')
      BY <1>0, <1>7, <1>9 DEF PairsEnd
    <2> QED
      BY <1>9, <2>1, IdleIInv DEF PairsEnd
  <1>10. ASSUME NEW place \in Places, NEW t \in Node, NEW n \in Node, OrderFirst(place, t, n)
         PROVE  IInv'
    <2>1. n \in tree.live /\ t \in tree.live /\ (place \in {"head", "tail"} => t \in tree.group)
      BY <1>0, <1>10 DEF OrderFirst, Target
    <2>2. tree' \in Trees /\ LinksOK(tree') /\ tree'.live = tree.live
      BY <1>0, <1>10, <2>1, MoveOK DEF OrderFirst
    <2> QED
      BY <1>10, <2>1, <2>2, OrderIInv DEF OrderFirst
  <1>11. ASSUME NEW n \in Node, OrderNext(n) PROVE IInv'
    <2>1. n \in tree.live /\ message.node \in tree.live
      BY <1>11 DEF OrderNext, IInv, HeldLive
    <2>2. tree' \in Trees /\ LinksOK(tree') /\ tree'.live = tree.live
      BY <1>0, <1>11, <2>1, MovePairOK DEF OrderNext
    <2> QED
      BY <1>11, <2>1, <2>2, OrderIInv DEF OrderNext
  <1>12. ASSUME OrderEnd \/ DeepFreeEnd PROVE IInv'
    BY <1>0, <1>12, IdleIInv DEF OrderEnd, DeepFreeEnd
  <1>13. ASSUME NEW g \in Node, DeepFreeBegin(g) PROVE IInv'
    BY <1>0, <1>13 DEF DeepFreeBegin, IInv, TypeOK, ListsWhole, HeldLive, Command
  <1>14. ASSUME NEW n \in Node, DeepFreeNext(n) PROVE IInv'
    <2>1. n \in tree.live \ tree.group
      BY <1>14 DEF DeepFreeNext, SynthsBelow, Below
    <2>2. tree' \in Trees /\ LinksOK(tree') /\ tree'.group = tree.group
      BY <1>0, <1>14, <2>1, DeepFreeOneOK DEF DeepFreeNext
    <2> QED
      BY <1>14, <2>2 DEF DeepFreeNext, IInv, TypeOK, ListsWhole, HeldLive
  <1>15. CASE UNCHANGED vars
    BY <1>15 DEF vars, IInv, TypeOK, ListsWhole, HeldLive
  <1>16. CASE CreateOrFree
    BY <1>1, <1>2, <1>3, <1>4, <1>16 DEF CreateOrFree, SNew, GNew
  <1>17. CASE Move
    BY <1>5, <1>6, <1>8, <1>9, <1>10, <1>11, <1>12, <1>17 DEF Move
  <1>18. CASE DeepFree
    BY <1>12, <1>13, <1>14, <1>18 DEF DeepFree
  <1> QED
    BY <1>15, <1>16, <1>17, <1>18 DEF Next

LEMMA Invariance == Spec => []IInv
  BY InitIInv, NextIInv, PTL DEF Spec

\* The tree and the message in progress keep their types.
THEOREM TypeCorrect == Spec => []TypeOK
  <1>1. IInv => TypeOK
    BY DEF IInv
  <1> QED
    BY <1>1, Invariance, PTL

\* The doubly linked child lists are whole after every element of every command
\* of SC_MiscCmds.cpp that creates, moves or frees nodes.
THEOREM ListsStayWhole == Spec => []ListsWhole
  <1>1. IInv => ListsWhole
    BY DEF IInv
  <1> QED
    BY <1>1, Invariance, PTL

\* Every set of natural numbers that is not empty has a least member.
LEMMA LeastNat ==
  ASSUME NEW S \in SUBSET Nat, S # {}
  PROVE  \E k \in S : \A m \in S : k <= m
  <1> DEFINE R == {ss \in Nat \X Nat : ss[1] < ss[2]}
  <1>1. IsWellFoundedOn(R, Nat)
    BY NatLessThanWellFounded DEF OpToRel
  <1>2. \E k \in S : \A m \in S : ~(<<m, k>> \in R)
    <2> HIDE DEF R
    <2> QED
      BY <1>1, WFMin
  <1>3. \A k, m \in Nat : ~(<<m, k>> \in R) => k <= m
    <2> SUFFICES ASSUME NEW k \in Nat, NEW m \in Nat, m < k PROVE <<m, k>> \in R
      OBVIOUS
    <2>1. <<m, k>> \in Nat \X Nat /\ <<m, k>>[1] = m /\ <<m, k>>[2] = k
      OBVIOUS
    <2> QED
      BY <2>1
  <1> HIDE DEF R
  <1> QED
    BY <1>2, <1>3

\* The walk that Children makes along mNext.
Walk(T, g) ==
  LET walk[i \in 0 .. Cardinality(Node)] ==
        IF i = 0 THEN T.head[g]
        ELSE IF walk[i - 1] = Null THEN Null ELSE T.next[walk[i - 1]]
  IN walk

\* The recursion is well founded: the walk exists.
LEMMA WalkStep ==
  ASSUME NEW T \in Trees, NEW g \in Node, Cardinality(Node) \in Nat
  PROVE  LET w == Walk(T, g)
             K == Cardinality(Node)
         IN  /\ w \in [0 .. K -> Node \cup {Null}]
             /\ w[0] = T.head[g]
             /\ \A i \in 1 .. K : w[i] = IF w[i - 1] = Null THEN Null ELSE T.next[w[i - 1]]
  <1> DEFINE K == Cardinality(Node)
             P == Node \cup {Null}
             From(f, i) == IF i = 0 THEN T.head[g]
                           ELSE IF f[i - 1] = Null THEN Null ELSE T.next[f[i - 1]]
             Good(f, k) == f \in [0 .. k -> P] /\ \A i \in 0 .. k : f[i] = From(f, i)
             Bad == {k \in Nat : ~ \E f : Good(f, k)}
  <1>1. Bad = {}
    <2> SUFFICES ASSUME Bad # {} PROVE FALSE
      OBVIOUS
    <2>1. PICK k \in Bad : \A m \in Bad : k <= m
      <3>1. Bad \in SUBSET Nat
        OBVIOUS
      <3> HIDE DEF Bad
      <3> QED
        BY <3>1, LeastNat
    <2>2. CASE k = 0
      <3>1. T.head[g] \in P
        BY DEF Trees, Pointers
      <3>2. Good([i \in 0 .. 0 |-> T.head[g]], 0)
        BY <3>1
      <3> QED
        BY <2>1, <2>2, <3>2
    <2>3. CASE k # 0
      <3>1. k \in Nat /\ k - 1 \in Nat /\ k - 1 \notin Bad
        <4>1. Bad \subseteq Nat
          OBVIOUS
        <4> HIDE DEF Bad
        <4> QED
          BY <2>1, <2>3, <4>1
      <3>2. PICK f : Good(f, k - 1)
        BY <3>1
      <3> DEFINE h == [i \in 0 .. k |-> IF i = k THEN From(f, k) ELSE f[i]]
      <3>3. From(f, k) \in P /\ \A i \in 0 .. k - 1 : f[i] \in P
        BY <2>3, <3>1, <3>2 DEF Trees, Pointers
      <3>4. h \in [0 .. k -> P]
        BY <3>1, <3>3
      <3>5. \A i \in 0 .. k : h[i] = From(h, i)
        BY <3>1, <3>2
      <3> QED
        BY <2>1, <3>4, <3>5
    <2> QED
      BY <2>2, <2>3
  <1>2. PICK f : Good(f, K)
    BY <1>1
  <1>3. f = [i \in 0 .. K |-> From(f, i)]
    BY <1>2
  <1> DEFINE Rec(v) == v = [i \in 0 .. K |-> From(v, i)]
  <1>4. Walk(T, g) = CHOOSE v : Rec(v)
    BY DEF Walk
  <1>5. Rec(Walk(T, g))
    <2>1. Rec(f)
      BY <1>3
    <2> HIDE DEF Rec
    <2> QED
      BY <1>4, <2>1
  <1>6. Walk(T, g) \in [0 .. K -> P]
    <2> DEFINE w == Walk(T, g)
               B == {i \in 0 .. K : w[i] \notin P}
    <2>1. w = [i \in 0 .. K |-> w[i]] /\ \A i \in 0 .. K : w[i] = From(w, i)
      BY <1>5
    <2>2. ASSUME NEW i \in B, \A j \in B : i <= j PROVE FALSE
      <3>1. i # 0
        BY <2>1 DEF Trees, Pointers
      <3>2. i - 1 \in 0 .. K /\ i - 1 \notin B
        BY <2>2, <3>1
      <3> QED
        BY <2>1, <3>1, <3>2 DEF Trees, Pointers
    <2>3. B \in SUBSET Nat
      OBVIOUS
    <2>4. B = {}
      <3> HIDE DEF B
      <3> QED
        BY <2>2, <2>3, LeastNat
    <2>5. \A i \in 0 .. K : w[i] \in P
      BY <2>4
    <2> HIDE DEF w
    <2> QED
      BY <2>1, <2>5 DEF w
  <1> QED
    <2> DEFINE w == Walk(T, g)
    <2>1. \A i \in 0 .. K : w[i] = From(w, i)
      BY <1>5
    <2> HIDE DEF w
    <2>2. 0 \in 0 .. K /\ \A i \in 1 .. K : i \in 0 .. K /\ i # 0
      OBVIOUS
    <2>3. w[0] = T.head[g]
      BY <2>1, <2>2
    <2>4. \A i \in 1 .. K : w[i] = IF w[i - 1] = Null THEN Null ELSE T.next[w[i - 1]]
      BY <2>1, <2>2
    <2> QED
      BY <1>6, <2>3, <2>4 DEF w

\* The walk stays in the group, meets no node twice, and stops.
LEMMA WalkMeets ==
  ASSUME NEW T \in Trees, LinksOK(T), NEW g \in Node, IsFiniteSet(Node)
  PROVE  LET w == Walk(T, g)
             K == Cardinality(Node)
             members == {n \in T.live : T.parent[n] = g}
         IN  \E k \in 0 .. K :
               /\ \A i \in 0 .. K : w[i] # Null <=> i < k
               /\ \A i \in 0 .. k - 1 : w[i] \in members
               /\ \A i, j \in 0 .. k - 1 : w[i] = w[j] => i = j
               /\ \A n \in members : \E i \in 0 .. k - 1 : w[i] = n
  <1> DEFINE w == Walk(T, g)
             K == Cardinality(Node)
             members == {n \in T.live : T.parent[n] = g}
  <1>1. K \in Nat
    BY FS_CardinalityType
  <1>2. /\ w \in [0 .. K -> Node \cup {Null}]
        /\ w[0] = T.head[g]
        /\ \A i \in 1 .. K : w[i] = IF w[i - 1] = Null THEN Null ELSE T.next[w[i - 1]]
    BY <1>1, WalkStep
  <1> HIDE DEF w
  <1>a. 0 \in 0 .. K /\ \A i \in 1 .. K : i \in 0 .. K /\ i - 1 \in 0 .. K
    BY <1>1
  <1>3. \A i \in 1 .. K : w[i] # Null => w[i - 1] # Null /\ T.prev[w[i]] = w[i - 1]
    <2> TAKE i \in 1 .. K
    <2> HAVE w[i] # Null
    <2>1. i \in 0 .. K /\ i - 1 \in 0 .. K
      BY <1>a
    <2>2. w[i - 1] # Null /\ w[i] = T.next[w[i - 1]]
      BY <1>2
    <2>3. w[i - 1] \in Node /\ w[i] \in Node
      BY <1>2, <2>1, <2>2
    <2> QED
      BY <2>2, <2>3 DEF LinksOK, NeighboursAgree
  <1>4. w[0] # Null => T.prev[w[0]] = Null /\ T.parent[w[0]] = g
    BY <1>a, <1>2 DEF LinksOK, EndsAgree
  <1> HIDE DEF K
  <1>5. \A i \in 0 .. K : w[i] # Null => T.parent[w[i]] = g
    <2> DEFINE B == {i \in 0 .. K : w[i] # Null /\ T.parent[w[i]] # g}
    <2>1. ASSUME NEW i \in B, \A j \in B : i <= j PROVE FALSE
      <3>1. i # 0 /\ i \in 0 .. K
        BY <1>4
      <3>2. i - 1 \in 0 .. K /\ i - 1 \notin B /\ i \in 1 .. K
        BY <1>1, <2>1, <3>1
      <3>3. w[i - 1] # Null /\ T.parent[w[i - 1]] = g /\ w[i] = T.next[w[i - 1]]
        BY <1>2, <1>3, <3>2
      <3> QED
        BY <1>2, <3>2, <3>3 DEF LinksOK, NeighboursAgree
    <2>2. B \in SUBSET Nat
      BY <1>1
    <2> QED
      <3> HIDE DEF B
      <3>1. B = {}
        BY <2>1, <2>2, LeastNat
      <3> QED
        BY <3>1 DEF B
  <1>6. \A i, j \in 0 .. K : i < j /\ w[i] = w[j] => w[j] = Null
    <2> DEFINE B == {i \in 0 .. K : \E j \in 0 .. K : i < j /\ w[i] = w[j] /\ w[j] # Null}
    <2>1. ASSUME NEW i \in B, \A m \in B : i <= m PROVE FALSE
      <3>1. PICK j \in 0 .. K : i < j /\ w[i] = w[j] /\ w[j] # Null
        OBVIOUS
      <3>2. i \in 0 .. K /\ j \in 1 .. K /\ w[j - 1] # Null /\ T.prev[w[j]] = w[j - 1]
        BY <1>1, <1>3, <3>1
      <3>3. i # 0
        BY <1>4, <3>1, <3>2
      <3>4. i \in 1 .. K /\ w[i - 1] = w[j - 1]
        BY <1>1, <1>3, <3>1, <3>2, <3>3
      <3>5. i - 1 \in B
        BY <1>1, <3>1, <3>2, <3>4
      <3> QED
        BY <1>1, <2>1, <3>2, <3>5
    <2>2. B \in SUBSET Nat
      BY <1>1
    <2>3. B = {}
      <3> HIDE DEF B
      <3> QED
        BY <2>1, <2>2, LeastNat
    <2> QED
      BY <2>3
  <1>7. w[K] = Null
    <2> SUFFICES ASSUME w[K] # Null PROVE FALSE
      OBVIOUS
    <2> DEFINE B == {i \in 0 .. K : \A j \in i .. K : w[j] # Null}
    <2>1. B \in SUBSET Nat /\ K \in B
      BY <1>1
    <2>2. PICK i \in B : \A m \in B : i <= m
      <3> HIDE DEF B
      <3> QED
        BY <2>1, LeastNat
    <2>3. i = 0
      <3> SUFFICES ASSUME i # 0 PROVE FALSE
        OBVIOUS
      <3>1. i \in 1 .. K /\ w[i] # Null
        BY <1>1
      <3>2. w[i - 1] # Null
        BY <1>3, <3>1
      <3>3. \A j \in i - 1 .. K : j = i - 1 \/ j \in i .. K
        BY <1>1, <3>1
      <3>4. i - 1 \in B
        BY <1>1, <3>1, <3>2, <3>3
      <3> QED
        BY <1>1, <2>2, <3>1, <3>4
    <2>4. \A j \in 0 .. K : w[j] # Null
      BY <2>3
    <2>5. w \in [0 .. K -> Node]
      BY <1>2, <2>4
    <2>6. IsFiniteSet(0 .. K) /\ Cardinality(0 .. K) = K + 1
      BY <1>1, FS_Interval
    <2>7. \E a, b \in 0 .. K : a # b /\ w[a] = w[b]
      BY <1>1, <2>5, <2>6, FS_PigeonHole DEF K
    <2> QED
      BY <1>1, <1>6, <2>4, <2>7
  <1>8. PICK k \in 0 .. K : w[k] = Null /\ \A i \in 0 .. K : w[i] = Null => k <= i
    <2> DEFINE B == {i \in 0 .. K : w[i] = Null}
    <2>1. B \in SUBSET Nat /\ K \in B
      BY <1>1, <1>7
    <2>2. \E k \in B : \A m \in B : k <= m
      <3> HIDE DEF B
      <3> QED
        BY <2>1, LeastNat
    <2> QED
      BY <2>2
  <1>9. \A i \in 0 .. K : w[i] # Null <=> i < k
    <2> DEFINE B == {i \in 0 .. K : k <= i /\ w[i] # Null}
    <2>1. ASSUME NEW i \in B, \A m \in B : i <= m PROVE FALSE
      <3>1. i \in 1 .. K /\ i # k /\ k <= i /\ w[i] # Null
        BY <1>1, <1>8
      <3>2. i - 1 \in 0 .. K /\ k <= i - 1 /\ w[i - 1] # Null
        BY <1>1, <1>3, <3>1
      <3>3. i - 1 \in B
        BY <3>2
      <3> QED
        BY <2>1, <3>1, <3>3
    <2>2. B \in SUBSET Nat
      BY <1>1
    <2>3. B = {}
      <3> HIDE DEF B
      <3> QED
        BY <2>1, <2>2, LeastNat
    <2> QED
      BY <1>1, <1>8, <2>3
  <1>10. \A i \in 0 .. k - 1 : i \in 0 .. K /\ w[i] # Null
    BY <1>1, <1>8, <1>9
  <1>11. \A i \in 0 .. k - 1 : w[i] \in members
    BY <1>2, <1>5, <1>10, NullAssumption DEF LinksOK, LibraryAgrees
  <1>12. \A i, j \in 0 .. k - 1 : w[i] = w[j] => i = j
    BY <1>6, <1>10
  <1>13. \A n \in members : \E i \in 0 .. k - 1 : w[i] = n
    <2> DEFINE S == {n \in members : \A i \in 0 .. k - 1 : w[i] # n}
    <2> SUFFICES ASSUME S # {} PROVE FALSE
      OBVIOUS
    <2>1. S \in SUBSET Node
      BY FieldTypes
    <2>2. PICK n \in S : T.next[n] \notin S
      BY <2>1 DEF LinksOK, NoRings
    <2>3. n \in Node /\ T.parent[n] = g /\ \A i \in 0 .. k - 1 : w[i] # n
      BY <2>1
    <2>4. CASE T.next[n] = Null
      <3>1. T.tail[g] = n /\ T.head[g] # Null
        BY <2>3, <2>4, NullAssumption DEF LinksOK, EndsAgree
      <3>2. k # 0
        BY <1>2, <1>8, <3>1
      <3>3. k \in 1 .. K /\ k - 1 \in 0 .. k - 1
        BY <1>1, <3>2
      <3>4. w[k - 1] \in members /\ w[k] = T.next[w[k - 1]]
        BY <1>2, <1>10, <1>11, <3>3
      <3>5. w[k - 1] \in Node /\ T.next[w[k - 1]] = Null /\ T.parent[w[k - 1]] = g
        BY <1>8, <3>4, FieldTypes
      <3>6. T.tail[g] = w[k - 1]
        BY <3>5 DEF LinksOK, EndsAgree
      <3> QED
        BY <2>3, <3>1, <3>3, <3>6
    <2>5. CASE T.next[n] # Null
      <3> DEFINE m == T.next[n]
      <3>1. m \in Node /\ T.prev[m] = n /\ T.parent[m] = g
        BY <2>3, <2>5, FieldTypes DEF LinksOK, NeighboursAgree
      <3>2. m \in members
        BY <3>1, NullAssumption DEF LinksOK, LibraryAgrees
      <3>3. PICK i \in 0 .. k - 1 : w[i] = m
        BY <2>2, <3>2
      <3>4. i # 0
        BY <1>4, <1>10, <2>3, <3>1, <3>3, NullAssumption
      <3>5. i \in 1 .. K /\ i - 1 \in 0 .. k - 1
        BY <1>1, <3>4
      <3>6. T.prev[w[i]] = w[i - 1]
        BY <1>3, <1>10, <3>5
      <3> QED
        BY <2>3, <3>1, <3>3, <3>5, <3>6
    <2> QED
      BY <2>4, <2>5
  <1> QED
    BY <1>9, <1>11, <1>12, <1>13 DEF w, K

\* Whole lists are complete: what Group_Calc and the other walks along mHead and
\* mNext meet is the group, each node of it once.
LEMMA WholeIsComplete ==
  ASSUME tree \in Trees, ListsWhole
  PROVE  ListsComplete
  <1> SUFFICES ASSUME NEW g \in tree.group
               PROVE  LET list == Children(g)
                          members == {n \in tree.live : tree.parent[n] = g}
                      IN  /\ {list[i] : i \in DOMAIN list} = members
                          /\ Cardinality(DOMAIN list) = Cardinality(members)
    BY DEF ListsComplete
  <1> DEFINE w == Walk(tree, g)
             K == Cardinality(Node)
             members == {n \in tree.live : tree.parent[n] = g}
             visited == {i \in 0 .. K : w[i] # Null}
             list == Children(g)
  <1>1. K \in Nat /\ g \in Node
    BY NodeAssumption, FS_CardinalityType, FieldTypes
  <1>2. PICK k \in 0 .. K :
          /\ \A i \in 0 .. K : w[i] # Null <=> i < k
          /\ \A i \in 0 .. k - 1 : w[i] \in members
          /\ \A i, j \in 0 .. k - 1 : w[i] = w[j] => i = j
          /\ \A n \in members : \E i \in 0 .. k - 1 : w[i] = n
    BY <1>1, NodeAssumption, WalkMeets DEF ListsWhole
  <1>3. list = [i \in 1 .. Cardinality(visited) |-> w[i - 1]]
    BY DEF Children, Walk
  <1> HIDE DEF w, K, list, members
  <1>4. visited = 0 .. k - 1
    BY <1>1, <1>2
  <1>5. Cardinality(visited) = k /\ k \in Nat
    <2>1. k \in Nat /\ k - 1 \in Int /\ (IF 0 > k - 1 THEN 0 ELSE k - 1 - 0 + 1) = k
      BY <1>1
    <2>2. Cardinality(0 .. k - 1) = k
      BY <2>1, FS_Interval
    <2> HIDE DEF visited
    <2> QED
      BY <1>4, <2>1, <2>2
  <1>6. list = [i \in 1 .. k |-> w[i - 1]]
    BY <1>3, <1>5
  <1>7. /\ \A i \in 1 .. k : i - 1 \in 0 .. k - 1
        /\ \A i \in 0 .. k - 1 : i + 1 \in 1 .. k /\ i + 1 - 1 = i
    BY <1>5
  <1>8. /\ list \in [1 .. k -> members]
        /\ \A i, j \in 1 .. k : list[i] = list[j] => i = j
    BY <1>2, <1>5, <1>6, <1>7
  <1>9. \A n \in members : \E i \in 1 .. k : list[i] = n
    <2> TAKE n \in members
    <2>1. PICK i \in 0 .. k - 1 : w[i] = n
      BY <1>2
    <2>2. i + 1 \in 1 .. k /\ list[i + 1] = n
      BY <1>6, <1>7, <2>1
    <2> QED
      BY <2>2
  <1>10. DOMAIN list = 1 .. k /\ {list[i] : i \in DOMAIN list} = members
    BY <1>8, <1>9
  <1>11. list \in Bijection(1 .. k, members)
    BY <1>8, <1>9 DEF Bijection, Injection, Surjection, IsInjective
  <1>12. Cardinality(members) = k /\ Cardinality(1 .. k) = k
    BY <1>5, <1>11, FS_CountingElements, FS_Interval DEF ExistsBijection
  <1> QED
    BY <1>10, <1>12 DEF list, members

\* A walk along a group's list ends and meets each of its nodes once: a block
\* calculates every node of every group and none twice (SC_Group.cpp:66).
THEOREM ListsStayComplete == Spec => []ListsComplete
  <1>1. IInv => ListsComplete
    BY WholeIsComplete DEF IInv, TypeOK
  <1> QED
    BY <1>1, Invariance, PTL

-----------------------------------------------------------------------------
(***************************************************************************)
(* With a client that keeps to sensible placements the nodes are one tree. *)
(* No set of nodes is cut off from the rest: that is how "every node is    *)
(* below the root" is kept by a command, with no induction over depths.    *)
(***************************************************************************)
Rooted(T) ==
  \A C \in SUBSET (T.live \ {Root}) : C # {} => \E n \in C : T.parent[n] \in T.live \ C

\* A pair kept by n_before or n_after is still one that makes sense.
PendingSensible ==
  message.name \in {"n_before", "n_after"} => Sensible(tree, message.node, "before", message.target)

LEMMA RootedBelow ==
  ASSUME NEW T \in Trees, LinksOK(T), Rooted(T)
  PROVE  Below(T, Root) = T.live \ {Root}
  <1>0. /\ Root \in T.live /\ T.parent[Root] = Null /\ T.live \subseteq Node
        /\ Null \notin T.live
    BY NullAssumption, FieldTypes DEF LinksOK, LibraryAgrees
  <1>1. Root \notin Below(T, Root)
    <2>1. ClosedBelow(T, Root, T.live \ {Root})
      BY <1>0 DEF ClosedBelow
    <2> QED
      BY <2>1 DEF Below
  <1>2. ASSUME NEW n \in T.live \ {Root}, NEW S \in SUBSET T.live, ClosedBelow(T, Root, S)
        PROVE  n \in S
    <2> DEFINE C == (T.live \ {Root}) \ S
    <2> SUFFICES ASSUME C # {} PROVE FALSE
      OBVIOUS
    <2>1. PICK m \in C : T.parent[m] \in T.live \ C
      BY DEF Rooted
    <2> QED
      BY <1>2, <2>1 DEF ClosedBelow
  <1> QED
    BY <1>1, <1>2 DEF Below

\* Nodes that go with all that is below them leave the rest one tree.
LEMMA RootedShrink ==
  ASSUME NEW T \in Trees, Rooted(T), NEW U \in Trees, NEW D \in SUBSET Node,
         U.live = T.live \ D,
         \A m \in T.live \ D : U.parent[m] = T.parent[m] /\ T.parent[m] \notin D
  PROVE  Rooted(U)
  <1> SUFFICES ASSUME NEW C \in SUBSET (U.live \ {Root}), C # {}
               PROVE  \E n \in C : U.parent[n] \in U.live \ C
    BY DEF Rooted
  <1>1. PICK n \in C : T.parent[n] \in T.live \ C
    BY DEF Rooted
  <1> QED
    BY <1>1

\* What Node_Delete takes away: the node and what is below it, nothing else.
LEMMA DeleteTakes ==
  ASSUME NEW T \in Trees, LinksOK(T), NEW n \in T.live, n # Root
  PROVE  LET U == Delete(T, n)
         IN  \E D \in SUBSET Node :
               /\ n \in D /\ D \subseteq {n} \cup Below(T, n)
               /\ U.live = T.live \ D
               /\ \A m \in T.live \ D : U.parent[m] = T.parent[m] /\ T.parent[m] \notin D
  <1>0. n \in Node /\ T.live \subseteq Node /\ Below(T, n) \subseteq T.live
    BY FieldTypes DEF Below
  <1>1. ASSUME NEW V \in Trees
        PROVE  Dtor(V, n).live = V.live \ {n} /\ Dtor(V, n).parent = [V.parent EXCEPT ![n] = Null]
    BY DEF Dtor, Remove, Trees
  <1>2. CASE n \in T.group
    <2> DEFINE V == DeleteAll(T, n)
               D == {n} \cup Below(T, n)
    <2>1. V \in Trees /\ V.live = T.live \ Below(T, n)
      BY <1>2, DeleteAllOK
    <2>2. V.parent = [m \in Node |-> IF m \in Below(T, n) THEN Null ELSE T.parent[m]]
      BY DEF DeleteAll, Trees
    <2>3. Delete(T, n) = Dtor(V, n)
      BY <1>2 DEF Delete
    <2>4. \A m \in T.live \ D : T.parent[m] \notin D
      BY BelowClosed
    <2> HIDE DEF V
    <2>5. /\ Delete(T, n).live = T.live \ D
          /\ Delete(T, n).parent = [V.parent EXCEPT ![n] = Null]
      <3>1. Dtor(V, n).live = V.live \ {n} /\ Dtor(V, n).parent = [V.parent EXCEPT ![n] = Null]
        BY <1>1, <2>1
      <3>2. V.live \ {n} = T.live \ D
        BY <2>1
      <3> QED
        BY <2>3, <3>1, <3>2
    <2>6. \A m \in T.live \ D : Delete(T, n).parent[m] = T.parent[m]
      BY <1>0, <2>2, <2>5
    <2>7. D \in SUBSET Node
      BY <1>0
    <2> HIDE DEF D
    <2> QED
      BY <2>4, <2>5, <2>6, <2>7 DEF D
  <1>3. CASE n \notin T.group
    <2>1. Delete(T, n) = Dtor(T, n)
      BY <1>3 DEF Delete
    <2>2. \A m \in T.live : T.parent[m] # n
      BY <1>0, <1>3, NullAssumption, FieldTypes DEF LinksOK, LibraryAgrees
    <2>3. /\ Delete(T, n).live = T.live \ {n}
          /\ \A m \in T.live \ {n} : Delete(T, n).parent[m] = T.parent[m]
      <3>1. Delete(T, n).live = T.live \ {n} /\ Delete(T, n).parent = [T.parent EXCEPT ![n] = Null]
        BY <1>1, <2>1
      <3>2. T.parent \in [Node -> Node \cup {Null}]
        BY FieldTypes
      <3> QED
        BY <1>0, <3>1, <3>2
    <2> QED
      BY <1>0, <2>2, <2>3
  <1> QED
    BY <1>2, <1>3

LEMMA RootedDelete ==
  ASSUME NEW T \in Trees, LinksOK(T), Rooted(T), NEW n \in T.live
  PROVE  Rooted(Delete(T, n))
  <1>1. CASE n = Root
    BY <1>1 DEF Delete
  <1>2. CASE n # Root
    BY <1>2, DeleteOK, DeleteTakes, RootedShrink
  <1> QED
    BY <1>1, <1>2

LEMMA RootedDeleteAll ==
  ASSUME NEW T \in Trees, LinksOK(T), Rooted(T), NEW g \in T.group
  PROVE  Rooted(DeleteAll(T, g))
  <1> DEFINE U == DeleteAll(T, g)
             D == Below(T, g)
  <1>1. U \in Trees /\ U.live = T.live \ D
    BY DeleteAllOK
  <1>2. U.parent = [m \in Node |-> IF m \in D THEN Null ELSE T.parent[m]]
    BY DEF DeleteAll, Trees
  <1>3. \A m \in T.live \ D : T.parent[m] \notin D
    BY BelowClosed
  <1>4. T.live \subseteq Node /\ D \in SUBSET Node
    BY FieldTypes DEF Below
  <1> HIDE DEF U, D
  <1>5. \A m \in T.live \ D : U.parent[m] = T.parent[m]
    BY <1>2, <1>4
  <1> QED
    BY <1>1, <1>3, <1>4, <1>5, RootedShrink DEF U

\* A new node in a group of the tree.
LEMMA RootedGrow ==
  ASSUME NEW T \in Trees, Rooted(T), NEW n \in Node \ T.live, NEW g \in T.live,
         NEW U \in Trees, U.live = T.live \cup {n}, U.parent[n] = g,
         \A m \in T.live : U.parent[m] = T.parent[m]
  PROVE  Rooted(U)
  <1> SUFFICES ASSUME NEW C \in SUBSET (U.live \ {Root}), C # {}
               PROVE  \E m \in C : U.parent[m] \in U.live \ C
    BY DEF Rooted
  <1>1. CASE C \ {n} # {}
    <2>1. PICK m \in C \ {n} : T.parent[m] \in T.live \ (C \ {n})
      BY <1>1 DEF Rooted
    <2> QED
      BY <2>1
  <1>2. CASE C \ {n} = {}
    BY <1>2
  <1> QED
    BY <1>1, <1>2

\* A node moved to a group that is neither the node nor below it.
LEMMA RootedMove ==
  ASSUME NEW T \in Trees, Rooted(T), NEW n \in T.live, NEW g \in T.live \ ({n} \cup Below(T, n)),
         NEW U \in Trees, U.live = T.live, U.parent[n] = g,
         \A m \in T.live \ {n} : U.parent[m] = T.parent[m]
  PROVE  Rooted(U)
  <1> SUFFICES ASSUME NEW C \in SUBSET (U.live \ {Root}), C # {},
                      \A m \in C : U.parent[m] \notin U.live \ C
               PROVE  FALSE
    BY DEF Rooted
  <1> DEFINE B == {n} \cup Below(T, n)
             S == C \ B
  <1>1. n \notin C => FALSE
    BY DEF Rooted
  <1>2. g \in S
    BY <1>1
  <1>3. PICK m \in S : T.parent[m] \in T.live \ S
    <2>1. S \in SUBSET (T.live \ {Root}) /\ S # {}
      BY <1>2
    <2> HIDE DEF S
    <2> QED
      BY <2>1 DEF Rooted
  <1>4. T.parent[m] \in B
    BY <1>3
  <1>5. m \in B
    BY <1>3, <1>4, BelowClosed
  <1> QED
    BY <1>3, <1>5

\* Where the four placements put a node: the group it becomes a node of.
GroupOf(T, place, t) == IF place \in {"head", "tail"} THEN t ELSE T.parent[t]

LEMMA PlaceParent ==
  ASSUME NEW T \in Trees, NEW s \in Node, s # Root, NEW place \in Places, NEW t,
         place \in {"before", "after"} => T.parent[t] # Null
  PROVE  LET U == PlaceAt(T, s, place, t)
         IN  /\ U.live = T.live
             /\ U.parent[s] = GroupOf(T, place, t)
             /\ \A m \in Node \ {s} : U.parent[m] = T.parent[m]
  <1>1. \A g, p, q : LET L == Link(T, s, g, p, q)
                     IN  /\ L.live = T.live /\ L.parent[s] = g
                         /\ \A m \in Node \ {s} : L.parent[m] = T.parent[m]
    <2> TAKE g, p, q
    <2>1. /\ Link(T, s, g, p, q).live = T.live
          /\ Link(T, s, g, p, q).parent = [T.parent EXCEPT ![s] = g]
      BY DEF Link, Trees
    <2>2. T.parent \in [Node -> Node \cup {Null}]
      BY FieldTypes
    <2> QED
      BY <2>1, <2>2
  <1>2. CASE place = "head"
    BY <1>1, <1>2 DEF PlaceAt, AddHead, GroupOf
  <1>3. CASE place = "tail"
    BY <1>1, <1>3 DEF PlaceAt, AddTail, GroupOf
  <1>4. CASE place = "before"
    BY <1>1, <1>4 DEF PlaceAt, AddBefore, GroupOf
  <1>5. CASE place = "after"
    BY <1>1, <1>5 DEF PlaceAt, AddAfter, GroupOf
  <1> QED
    BY <1>2, <1>3, <1>4, <1>5 DEF Places

\* s_new, g_new: a new node placed at a target that makes sense.
LEMMA RootedNew ==
  ASSUME NEW T \in Trees, LinksOK(T), Rooted(T), NEW n \in Node \ T.live, NEW isGroup \in BOOLEAN,
         NEW place \in Places, NEW t \in T.live, place \in {"head", "tail"} => t \in T.group,
         Sensible(T, n, place, t)
  PROVE  Rooted(PlaceAt(NewNode(T, n, isGroup), n, place, t))
  <1> DEFINE W == NewNode(T, n, isGroup)
             U == PlaceAt(W, n, place, t)
             g == GroupOf(T, place, t)
  <1>1. W \in Trees /\ W.live = T.live \cup {n} /\ W.parent = T.parent /\ n # Root
    <2>1. W \in Trees /\ n # Root
      BY NewNodeOK
    <2>2. W.live = T.live \cup {n} /\ W.parent = T.parent
      BY DEF NewNode, Trees
    <2> QED
      BY <2>1, <2>2
  <1>2. U \in Trees
    BY PlaceNewOK
  <1>3. (place \in {"before", "after"} => T.parent[t] # Null) /\ t \in Node
    BY FieldTypes DEF Sensible
  <1>4. g \in T.live
    BY <1>3 DEF GroupOf, Places, LinksOK, LibraryAgrees
  <1> HIDE DEF W
  <1>5. /\ U.live = W.live /\ U.parent[n] = g
        /\ \A m \in Node \ {n} : U.parent[m] = W.parent[m]
    <2>1. GroupOf(W, place, t) = g
      BY <1>1 DEF GroupOf
    <2> QED
      BY <1>1, <1>3, <2>1, PlaceParent
  <1>6. T.live \subseteq Node
    BY FieldTypes
  <1> HIDE DEF U, g
  <1>7. U.live = T.live \cup {n} /\ U.parent[n] = g /\ \A m \in T.live : U.parent[m] = T.parent[m]
    BY <1>1, <1>5, <1>6
  <1>8. Rooted(U)
    BY <1>2, <1>4, <1>7, RootedGrow
  <1> QED
    BY <1>8 DEF U, W

\* g_head, g_tail, n_order, n_before, n_after: a node moved to where it makes sense.
LEMMA RootedPlace ==
  ASSUME NEW T \in Trees, LinksOK(T), Rooted(T), NEW n \in T.live,
         NEW place \in Places, NEW t \in T.live, place \in {"head", "tail"} => t \in T.group,
         Sensible(T, n, place, t)
  PROVE  Rooted(PlaceAt(Remove(T, n), n, place, t))
  <1> DEFINE R == Remove(T, n)
             U == PlaceAt(R, n, place, t)
             g == GroupOf(T, place, t)
  <1>0. n \in Node /\ t \in Node /\ T.live \subseteq Node
    BY FieldTypes
  <1>1. n # Root
    <2>1. Below(T, Root) = T.live \ {Root}
      BY RootedBelow
    <2> QED
      BY <2>1 DEF Sensible
  <1>2. R \in Trees /\ R.live = T.live /\ \A m \in Node \ {n} : R.parent[m] = T.parent[m]
    <2>1. R \in Trees /\ R.live = T.live
      BY <1>0, RemoveOK
    <2>2. R.parent = [T.parent EXCEPT ![n] = Null]
      BY DEF Remove, Trees
    <2>3. T.parent \in [Node -> Node \cup {Null}]
      BY FieldTypes
    <2> HIDE DEF R
    <2> QED
      BY <1>0, <2>1, <2>2, <2>3
  <1>3. U \in Trees /\ t # n /\ (place \in {"before", "after"} => T.parent[t] # Null)
    BY MoveOK DEF Sensible
  <1>4. g \in T.live \ ({n} \cup Below(T, n))
    <2>1. CASE place \in {"head", "tail"}
      BY <2>1 DEF GroupOf, Sensible
    <2>2. CASE place \in {"before", "after"}
      <3>1. g = T.parent[t] /\ g \in T.live
        BY <1>0, <1>3, <2>2 DEF GroupOf, LinksOK, LibraryAgrees
      <3>2. g \notin Below(T, n) \cup {n}
        BY <3>1, BelowClosed DEF Sensible
      <3> QED
        BY <3>1, <3>2
    <2> QED
      BY <2>1, <2>2 DEF Places
  <1> HIDE DEF R
  <1>5. /\ U.live = R.live /\ U.parent[n] = g
        /\ \A m \in Node \ {n} : U.parent[m] = R.parent[m]
    <2>1. GroupOf(R, place, t) = g
      BY <1>0, <1>2, <1>3 DEF GroupOf
    <2>2. place \in {"before", "after"} => R.parent[t] # Null
      BY <1>0, <1>2, <1>3
    <2> QED
      BY <1>0, <1>1, <1>2, <2>1, <2>2, PlaceParent
  <1> HIDE DEF U, g
  <1>6. U.live = T.live /\ U.parent[n] = g /\ \A m \in T.live \ {n} : U.parent[m] = T.parent[m]
    BY <1>0, <1>2, <1>5
  <1>7. Rooted(U)
    BY <1>3, <1>4, <1>6, RootedMove
  <1> QED
    BY <1>7 DEF U, R

\* s_new and g_new with add action 4: the new node takes the place of r.
LEMMA RootedReplace ==
  ASSUME NEW T \in Trees, LinksOK(T), Rooted(T), NEW n \in Node \ T.live, NEW isGroup \in BOOLEAN,
         NEW r \in T.live, T.parent[r] # Null
  PROVE  Rooted(Replace(NewNode(T, n, isGroup), n, r))
  <1> DEFINE W == NewNode(T, n, isGroup)
             V == Link(Remove(W, r), n, W.parent[r], W.prev[r], W.next[r])
             g == T.parent[r]
             U == Delete(V, r)
  <1>0. r \in Node /\ n # r /\ T.live \subseteq Node /\ n \notin T.live
    BY FieldTypes
  <1>1. /\ W \in Trees /\ LinksOK(W) /\ W.parent[n] = Null /\ n \in W.live /\ n # Root
    BY NewNodeOK
  <1>2. W.live = T.live \cup {n} /\ W.parent = T.parent
    BY DEF NewNode, Trees
  <1>3. /\ r # Root /\ g \in T.live /\ Root \in T.live /\ T.parent[Root] = Null
        /\ T.parent \in [Node -> Node \cup {Null}] /\ Null \notin T.live
    BY <1>0, NullAssumption, FieldTypes DEF LinksOK, LibraryAgrees
  <1> HIDE DEF W
  <1>4. V \in Trees /\ LinksOK(V) /\ V.live = W.live
    BY <1>1, <1>2, ReplaceLinks
  <1>5. V.parent = [[W.parent EXCEPT ![r] = Null] EXCEPT ![n] = W.parent[r]]
    <2>1. Remove(W, r).parent = [W.parent EXCEPT ![r] = Null]
      BY <1>1 DEF Remove, Trees
    <2> QED
      BY <2>1, <1>1 DEF Link, Remove, Trees
  <1>6. V.parent[n] = g /\ V.parent[r] = Null /\ \A m \in T.live \ {r} : V.parent[m] = T.parent[m]
    BY <1>0, <1>2, <1>3, <1>5
  <1>7. Replace(W, n, r) = U
    BY <1>1, <1>2, <1>3 DEF Replace
  <1> HIDE DEF V
  <1>8. PICK D \in SUBSET Node :
          /\ r \in D /\ D \subseteq {r} \cup Below(V, r)
          /\ U.live = V.live \ D
          /\ \A m \in V.live \ D : U.parent[m] = V.parent[m] /\ V.parent[m] \notin D
    BY <1>2, <1>3, <1>4, DeleteTakes
  <1> HIDE DEF U
  <1>9. g \notin D
    <2> SUFFICES ASSUME g \in D PROVE FALSE
      OBVIOUS
    <2> DEFINE C == ({r} \cup Below(V, r)) \ {n}
    <2>1. Root \notin Below(V, r)
      <3>1. V.parent[Root] = Null /\ Below(V, r) \subseteq V.live
        BY <1>3, <1>6 DEF Below
      <3>2. Null \notin Below(V, r) \cup {r}
        BY <1>0, <1>2, <1>3, <1>4, <3>1, NullAssumption
      <3> QED
        BY <3>1, <3>2, BelowParent
    <2>2. C \subseteq T.live \ {Root} /\ r \in C
      BY <1>0, <1>2, <1>3, <1>4, <2>1 DEF Below
    <2>3. PICK m \in C : T.parent[m] \in T.live \ C
      BY <2>2 DEF Rooted
    <2>4. g \in C
      BY <1>0, <1>3, <1>8
    <2>5. m # r /\ m \in Below(V, r)
      BY <2>3, <2>4
    <2>6. V.parent[m] = T.parent[m]
      BY <1>6, <2>2, <2>5
    <2>7. T.parent[m] \in Below(V, r) \cup {r}
      BY <2>5, <2>6, BelowParent
    <2> QED
      BY <1>0, <2>3, <2>7
  <1>10. Rooted(U)
    <2> SUFFICES ASSUME NEW C \in SUBSET (U.live \ {Root}), C # {}
                 PROVE  \E m \in C : U.parent[m] \in U.live \ C
      BY DEF Rooted
    <2>1. CASE C \ {n} # {}
      <3>1. C \ {n} \subseteq T.live \ {Root}
        BY <1>2, <1>4, <1>8
      <3>2. PICK m \in C \ {n} : T.parent[m] \in T.live \ (C \ {n})
        BY <2>1, <3>1 DEF Rooted
      <3>3. U.parent[m] = T.parent[m] /\ T.parent[m] \notin D
        BY <1>6, <1>8, <3>1, <3>2
      <3> QED
        BY <1>0, <1>2, <1>4, <1>8, <3>2, <3>3
    <2>2. CASE C \ {n} = {}
      <3>1. n \in C /\ n \in V.live \ D /\ U.parent[n] = g
        BY <1>6, <1>8, <2>2
      <3> QED
        BY <1>0, <1>2, <1>3, <1>4, <1>8, <1>9, <2>2, <3>1
    <2> QED
      BY <2>1, <2>2
  <1> QED
    BY <1>7, <1>10 DEF W

\* g_deepFree: a synth is unlinked and deleted.
LEMMA RootedDeepFree ==
  ASSUME NEW T \in Trees, LinksOK(T), Rooted(T), NEW n \in T.live \ T.group
  PROVE  Rooted(Delete(Remove(T, n), n))
  <1> DEFINE R == Remove(T, n)
             U == Delete(R, n)
  <1>0. n \in Node /\ n # Root /\ T.live \subseteq Node
    BY FieldTypes DEF LinksOK, LibraryAgrees
  <1>1. R \in Trees /\ LinksOK(R) /\ R.live = T.live /\ R.group = T.group
    BY <1>0, RemoveOK
  <1>2. R.parent = [T.parent EXCEPT ![n] = Null] /\ T.parent \in [Node -> Node \cup {Null}]
    BY FieldTypes DEF Remove, Trees
  <1>3. \A m \in T.live : T.parent[m] # n
    BY <1>0, NullAssumption, FieldTypes DEF LinksOK, LibraryAgrees
  <1>4. U \in Trees
    BY <1>1, DeleteOK
  <1> HIDE DEF R
  <1>5. U.live = R.live \ {n} /\ U.parent = [R.parent EXCEPT ![n] = Null]
    BY <1>0, <1>1 DEF Delete, Dtor, Remove, Trees
  <1> HIDE DEF U
  <1>6. /\ {n} \in SUBSET Node /\ U.live = T.live \ {n}
        /\ \A m \in T.live \ {n} : U.parent[m] = T.parent[m] /\ T.parent[m] \notin {n}
    BY <1>0, <1>1, <1>2, <1>3, <1>5
  <1>7. Rooted(U)
    BY <1>4, <1>6, RootedShrink
  <1> QED
    BY <1>7 DEF U, R

\* Between its elements a command of pairs keeps one that still makes sense.
RootInv == Rooted(tree) /\ PendingSensible

LEMMA InitRootInv == Init => RootInv
  BY DEF Init, EmptyTree, Idle, RootInv, Rooted, PendingSensible

LEMMA NextRootInv == Careful /\ IInv /\ RootInv /\ [Next]_vars => RootInv'
  <1> SUFFICES ASSUME Careful, IInv, RootInv, [Next]_vars PROVE RootInv'
    OBVIOUS
  <1>0. /\ tree \in Trees /\ LinksOK(tree) /\ Rooted(tree)
        /\ tree.live \subseteq Node /\ tree.group \subseteq tree.live
    BY FieldTypes DEF IInv, TypeOK, ListsWhole, LinksOK, LibraryAgrees, RootInv
  <1>s. \A T, n, t : /\ Sensible(T, n, "before", t) <=> Sensible(T, n, "after", t)
                     /\ Sensible(T, n, "before", t) => T.parent[t] # Null
    BY DEF Sensible
  <1>i. ASSUME Rooted(tree'), message'.name \notin {"n_before", "n_after"} PROVE RootInv'
    BY <1>i DEF RootInv, PendingSensible
  <1>1. ASSUME NEW n \in Node, NEW isGroup \in BOOLEAN, NEW place \in Places, NEW t \in Node,
               New(n, isGroup, place, t)
        PROVE  RootInv'
    <2>1. /\ n \in Node \ tree.live /\ t \in tree.live
          /\ place \in {"head", "tail"} => t \in tree.group
          /\ Sensible(tree, n, place, t)
          /\ message'.name = "none"
      BY <1>0, <1>1 DEF New, Target, Idle
    <2>2. Rooted(tree')
      BY <1>0, <1>1, <2>1, RootedNew DEF New
    <2> QED
      BY <1>i, <2>1, <2>2
  <1>2. ASSUME NEW n \in Node, NEW isGroup \in BOOLEAN, NEW r \in Node, NewReplace(n, isGroup, r)
        PROVE  RootInv'
    <2>1. /\ n \in Node \ tree.live /\ r \in tree.live /\ tree.parent[r] # Null
          /\ message'.name = "none"
      BY <1>2 DEF NewReplace, Idle
    <2>2. Rooted(tree')
      BY <1>0, <1>2, <2>1, RootedReplace DEF NewReplace
    <2> QED
      BY <1>i, <2>1, <2>2
  <1>3. ASSUME NEW n \in Node, NFree(n) PROVE RootInv'
    BY <1>0, <1>3, <1>i, RootedDelete DEF NFree, Idle
  <1>4. ASSUME NEW g \in Node, GFreeAll(g) PROVE RootInv'
    BY <1>0, <1>4, <1>i, RootedDeleteAll DEF GFreeAll, Idle
  <1>5. ASSUME NEW g \in Node, NEW n \in Node, GHead(g, n) \/ GTail(g, n) PROVE RootInv'
    <2>1. g \in tree.group /\ g \in tree.live /\ n \in tree.live /\ message'.name = "none"
      BY <1>0, <1>5 DEF GHead, GTail, Idle
    <2>2. PICK place \in {"head", "tail"} :
            Sensible(tree, n, place, g) /\ tree' = PlaceAt(Remove(tree, n), n, place, g)
      BY <1>5 DEF GHead, GTail, PlaceAt
    <2>3. Rooted(tree')
      BY <1>0, <2>1, <2>2, RootedPlace DEF Places
    <2> QED
      BY <1>i, <2>1, <2>3
  <1>6. ASSUME NEW name \in {"n_before", "n_after"}, NEW n \in Node, NEW t \in Node,
               PairsBegin(name, n, t)
        PROVE  RootInv'
    BY <1>0, <1>6 DEF PairsBegin, RootInv, PendingSensible, Command
  <1>7. message.name \in {"n_before", "n_after"} => Rooted(MovePending)
    <2> SUFFICES ASSUME message.name \in {"n_before", "n_after"} PROVE Rooted(MovePending)
      OBVIOUS
    <2>1. /\ message.node \in tree.live /\ message.target \in tree.live
          /\ Sensible(tree, message.node, "before", message.target)
          /\ Sensible(tree, message.node, "after", message.target)
      BY <1>s DEF IInv, HeldLive, RootInv, PendingSensible
    <2>2. PICK place \in {"before", "after"} :
            MovePending = PlaceAt(Remove(tree, message.node), message.node, place, message.target)
      BY DEF MovePending, MoveBefore, MoveAfter, PlaceAt
    <2> QED
      BY <1>0, <2>1, <2>2, RootedPlace DEF Places
  <1>8. ASSUME NEW n \in Node, NEW t \in Node, PairsNext(n, t) PROVE RootInv'
    <2>1. Rooted(tree')
      BY <1>0, <1>7, <1>8 DEF PairsNext
    <2>2. Sensible(tree', n, "before", t) /\ message'.node = n /\ message'.target = t
      BY <1>8 DEF PairsNext, Command
    <2> QED
      BY <2>1, <2>2 DEF RootInv, PendingSensible
  <1>9. ASSUME PairsEnd PROVE RootInv'
    <2>1. Rooted(tree')
      BY <1>0, <1>7, <1>9 DEF PairsEnd
    <2> QED
      BY <1>9, <1>i, <2>1 DEF PairsEnd, Idle
  <1>10. ASSUME NEW place \in Places, NEW t \in Node, NEW n \in Node, OrderFirst(place, t, n)
         PROVE  RootInv'
    <2>1. /\ n \in tree.live /\ t \in tree.live /\ (place \in {"head", "tail"} => t \in tree.group)
          /\ Sensible(tree, n, place, t) /\ message'.name = "n_order"
      BY <1>0, <1>10 DEF OrderFirst, Target, Command
    <2>2. Rooted(tree')
      BY <1>0, <1>10, <2>1, RootedPlace DEF OrderFirst
    <2> QED
      BY <1>i, <2>1, <2>2
  <1>11. ASSUME NEW n \in Node, OrderNext(n) PROVE RootInv'
    <2>1. /\ n \in tree.live /\ message.node \in tree.live
          /\ Sensible(tree, n, "after", message.node) /\ message'.name = "n_order"
      BY <1>11 DEF OrderNext, IInv, HeldLive, Command
    <2>2. tree' = PlaceAt(Remove(tree, n), n, "after", message.node)
      BY <1>11 DEF OrderNext, MoveAfter, PlaceAt
    <2>3. Rooted(tree')
      BY <1>0, <2>1, <2>2, RootedPlace DEF Places
    <2> QED
      BY <1>i, <2>1, <2>3
  <1>12. ASSUME OrderEnd \/ DeepFreeEnd PROVE RootInv'
    BY <1>0, <1>12, <1>i DEF OrderEnd, DeepFreeEnd, Idle
  <1>13. ASSUME NEW g \in Node, DeepFreeBegin(g) PROVE RootInv'
    BY <1>0, <1>13, <1>i DEF DeepFreeBegin, Command
  <1>14. ASSUME NEW n \in Node, DeepFreeNext(n) PROVE RootInv'
    <2>1. n \in tree.live \ tree.group /\ message'.name = "g_deepFree"
      BY <1>14 DEF DeepFreeNext, SynthsBelow, Below
    <2>2. Rooted(tree')
      BY <1>0, <1>14, <2>1, RootedDeepFree DEF DeepFreeNext
    <2> QED
      BY <1>i, <2>1, <2>2
  <1>15. CASE UNCHANGED vars
    BY <1>15 DEF vars, RootInv, PendingSensible
  <1>16. CASE CreateOrFree
    BY <1>1, <1>2, <1>3, <1>4, <1>16 DEF CreateOrFree, SNew, GNew
  <1>17. CASE Move
    BY <1>5, <1>6, <1>8, <1>9, <1>10, <1>11, <1>12, <1>17 DEF Move
  <1>18. CASE DeepFree
    BY <1>12, <1>13, <1>14, <1>18 DEF DeepFree
  <1> QED
    BY <1>15, <1>16, <1>17, <1>18 DEF Next

\* With sensible placements every node stays below the root: the commands of
\* SC_MiscCmds.cpp never cut a node off from the tree that is calculated.
THEOREM TreeStaysOne == ASSUME Careful PROVE Spec => []OneTree
  <1>1. IInv /\ RootInv => OneTree
    BY RootedBelow DEF IInv, TypeOK, ListsWhole, RootInv, OneTree
  <1>2. Init => IInv /\ RootInv
    BY InitRootInv, InitIInv
  <1>3. (IInv /\ RootInv) /\ [Next]_vars => (IInv /\ RootInv)'
    <2>1. IInv /\ [Next]_vars => IInv'
      BY NextIInv
    <2>2. IInv /\ RootInv /\ [Next]_vars => RootInv'
      BY NextRootInv
    <2> QED
      BY <2>1, <2>2
  <1> QED
    BY <1>1, <1>2, <1>3, PTL DEF Spec

-----------------------------------------------------------------------------
(***************************************************************************)
(* The linked tree implements the child lists.  The list of a group is the *)
(* only sequence that follows its pointers from mHead (ListUnique), so to  *)
(* know the list after a change of the pointers it is enough to show one   *)
(* that follows the new ones.                                              *)
(***************************************************************************)
\* The list of group g, and those of all nodes; only groups have any children.
ListOf(T, g) ==
  LET visited == {i \in 0 .. Cardinality(Node) : Walk(T, g)[i] # Null}
  IN  [i \in 1 .. Cardinality(visited) |-> Walk(T, g)[i - 1]]
ListsOf(T) == [g \in Node |-> ListOf(T, g)]

\* c follows the pointers of group g from its head to its tail.
Follows(T, g, c) ==
  /\ c \in Seq(Node)
  /\ IF Len(c) = 0 THEN T.head[g] = Null
     ELSE T.head[g] = c[1] /\ T.next[c[Len(c)]] = Null
  /\ \A i \in 1 .. Len(c) - 1 : T.next[c[i]] = c[i + 1]

LEMMA ListFollows ==
  ASSUME NEW T \in Trees, LinksOK(T), NEW g \in Node
  PROVE  LET c == ListOf(T, g)
         IN  /\ Follows(T, g, c)
             /\ \A i, j \in 1 .. Len(c) : c[i] = c[j] => i = j
             /\ \A n \in Node : T.parent[n] = g <=> \E i \in 1 .. Len(c) : c[i] = n
  <1> DEFINE w == Walk(T, g)
             K == Cardinality(Node)
             members == {n \in T.live : T.parent[n] = g}
             visited == {i \in 0 .. K : w[i] # Null}
             c == ListOf(T, g)
  <1>1. K \in Nat
    BY NodeAssumption, FS_CardinalityType
  <1>2. PICK k \in 0 .. K :
          /\ \A i \in 0 .. K : w[i] # Null <=> i < k
          /\ \A i \in 0 .. k - 1 : w[i] \in members
          /\ \A i, j \in 0 .. k - 1 : w[i] = w[j] => i = j
          /\ \A n \in members : \E i \in 0 .. k - 1 : w[i] = n
    BY NodeAssumption, WalkMeets
  <1>3. /\ w \in [0 .. K -> Node \cup {Null}]
        /\ w[0] = T.head[g]
        /\ \A i \in 1 .. K : w[i] = IF w[i - 1] = Null THEN Null ELSE T.next[w[i - 1]]
    BY <1>1, WalkStep
  <1>4. c = [i \in 1 .. Cardinality(visited) |-> w[i - 1]]
    BY DEF ListOf
  <1> HIDE DEF w, K, c
  <1>5. visited = 0 .. k - 1
    BY <1>1, <1>2
  <1>6. Cardinality(visited) = k /\ k \in Nat
    <2>1. k \in Nat /\ k - 1 \in Int /\ (IF 0 > k - 1 THEN 0 ELSE k - 1 - 0 + 1) = k
      BY <1>1
    <2>2. Cardinality(0 .. k - 1) = k
      BY <2>1, FS_Interval
    <2> HIDE DEF visited
    <2> QED
      BY <1>5, <2>1, <2>2
  <1>7. c = [i \in 1 .. k |-> w[i - 1]]
    BY <1>4, <1>6
  <1>8. /\ \A i \in 1 .. k : i - 1 \in 0 .. k - 1 /\ c[i] = w[i - 1]
        /\ \A i \in 0 .. k - 1 : i + 1 \in 1 .. k /\ i + 1 - 1 = i /\ c[i + 1] = w[i]
    BY <1>6, <1>7
  <1>9. members \subseteq Node
    BY FieldTypes
  <1> HIDE DEF members
  <1>10. c \in [1 .. k -> Node]
    BY <1>2, <1>7, <1>8, <1>9
  <1>11. c \in Seq(Node) /\ Len(c) = k
    <2>1. c \in Seq(Node)
      BY <1>6, <1>10, IsASeq
    <2> QED
      BY <1>6, <1>10, <2>1
  <1>12. \A i \in 1 .. k - 1 : T.next[c[i]] = c[i + 1]
    <2> TAKE i \in 1 .. k - 1
    <2>1. i \in 1 .. k /\ i + 1 \in 1 .. k /\ i \in 1 .. K /\ i \in 0 .. k - 1 /\ i - 1 \in 0 .. k - 1
      BY <1>1, <1>6
    <2>2. w[i - 1] # Null
      BY <1>1, <1>2, <1>6, <2>1
    <2> QED
      BY <1>3, <1>8, <2>1, <2>2
  <1>13. CASE k = 0
    <2>1. T.head[g] = Null
      BY <1>1, <1>2, <1>3, <1>13
    <2> QED
      BY <1>2, <1>6, <1>8, <1>11, <1>13, <2>1, FieldTypes DEF Follows, members, c, LinksOK, LibraryAgrees
  <1>14. CASE k # 0
    <2>1. 1 \in 1 .. k /\ k \in 1 .. k /\ k \in 1 .. K /\ k \in 0 .. K /\ k - 1 \in 0 .. k - 1 /\ 0 \in 0 .. k - 1
      BY <1>1, <1>6, <1>14
    <2>2. T.head[g] = c[1]
      BY <1>3, <1>8, <2>1
    <2>3. T.next[c[k]] = Null
      BY <1>1, <1>2, <1>3, <1>8, <2>1
    <2>4. Follows(T, g, c)
      BY <1>11, <1>12, <1>14, <2>2, <2>3 DEF Follows
    <2>5. \A i, j \in 1 .. k : c[i] = c[j] => i = j
      BY <1>2, <1>6, <1>8
    <2>6. \A n \in Node : T.parent[n] = g <=> \E i \in 1 .. k : c[i] = n
      <3>1. \A n \in Node : T.parent[n] = g <=> n \in members
        BY NullAssumption DEF members, LinksOK, LibraryAgrees
      <3> QED
        BY <1>2, <1>8, <3>1
    <2> QED
      BY <1>11, <2>4, <2>5, <2>6 DEF c
  <1> QED
    BY <1>13, <1>14

LEMMA ListUnique ==
  ASSUME NEW T \in Trees, LinksOK(T), NEW g \in Node, NEW c, Follows(T, g, c)
  PROVE  c = ListOf(T, g)
  <1> DEFINE d == ListOf(T, g)
  <1>1. Follows(T, g, d)
    BY ListFollows
  <1> HIDE DEF d
  <1>2. c \in Seq(Node) /\ d \in Seq(Node) /\ Len(c) \in Nat /\ Len(d) \in Nat
    BY <1>1 DEF Follows
  <1>3. /\ \A i \in 1 .. Len(c) : c[i] \in Node
        /\ \A i \in 1 .. Len(d) : d[i] \in Node
    BY <1>2, ElementOfSeq
  <1>4. \A i \in 1 .. Len(c) : i <= Len(d) => c[i] = d[i]
    <2> DEFINE B == {i \in 1 .. Len(c) : i <= Len(d) /\ c[i] # d[i]}
    <2>1. B \in SUBSET Nat
      BY <1>2
    <2>2. ASSUME NEW i \in B, \A j \in B : i <= j PROVE FALSE
      <3>1. i \in 1 .. Len(c) /\ i <= Len(d) /\ c[i] # d[i]
        OBVIOUS
      <3>2. i # 1
        BY <1>1, <1>2, <3>1 DEF Follows
      <3>3. i - 1 \in 1 .. Len(c) - 1 /\ i - 1 \in 1 .. Len(d) - 1 /\ i - 1 + 1 = i /\ i - 1 \notin B
        BY <1>2, <2>2, <3>1, <3>2
      <3>4. c[i - 1] = d[i - 1]
        BY <1>2, <3>3
      <3>5. T.next[c[i - 1]] = c[i] /\ T.next[d[i - 1]] = d[i]
        BY <1>1, <3>3 DEF Follows
      <3> QED
        BY <3>1, <3>4, <3>5
    <2>3. B = {}
      <3> HIDE DEF B
      <3> QED
        BY <2>1, <2>2, LeastNat
    <2> QED
      BY <2>3
  <1>5. Len(c) = Len(d)
    <2>1. ASSUME NEW a, NEW b, Follows(T, g, a), Follows(T, g, b), Len(a) < Len(b),
                 a \in Seq(Node), b \in Seq(Node), \A i \in 1 .. Len(a) : a[i] = b[i]
          PROVE  FALSE
      <3>1. Len(a) \in Nat /\ Len(b) \in Nat /\ \A i \in 1 .. Len(b) : b[i] \in Node
        BY <2>1, ElementOfSeq
      <3>2. CASE Len(a) = 0
        BY <2>1, <3>1, <3>2, NullAssumption DEF Follows
      <3>3. CASE Len(a) # 0
        <4>1. Len(a) \in 1 .. Len(b) - 1 /\ Len(a) \in 1 .. Len(a) /\ Len(a) + 1 \in 1 .. Len(b)
          BY <2>1, <3>1, <3>3
        <4>2. T.next[a[Len(a)]] = Null
          BY <2>1, <3>3 DEF Follows
        <4>3. T.next[b[Len(a)]] = b[Len(a) + 1]
          BY <2>1, <4>1 DEF Follows
        <4> QED
          BY <2>1, <3>1, <4>1, <4>2, <4>3, NullAssumption
      <3> QED
        BY <3>2, <3>3
    <2>2. ~(Len(c) < Len(d))
      BY <1>1, <1>2, <1>4, <2>1
    <2>3. ~(Len(d) < Len(c))
      BY <1>1, <1>2, <1>4, <2>1
    <2> QED
      BY <1>2, <2>2, <2>3
  <1> QED
    BY <1>2, <1>4, <1>5, SeqEqual DEF d

KidsOf(T) == [g \in Node |-> IF g \in T.group THEN ListOf(T, g) ELSE << >>]

LEMMA KidsAre == kids = KidsOf(tree) /\ kids' = KidsOf(tree')
  BY DEF kids, KidsOf, Children, ListOf, Walk

\* Only groups have children.
LEMMA KidsAreLists ==
  ASSUME NEW T \in Trees, LinksOK(T)
  PROVE  KidsOf(T) = ListsOf(T)
  <1>1. ASSUME NEW g \in Node, g \notin T.group
        PROVE  ListOf(T, g) = << >>
    <2>1. \A n \in Node : T.parent[n] # g
      BY <1>1, NullAssumption DEF LinksOK, LibraryAgrees
    <2>2. T.head[g] = Null
      <3>1. T.head[g] \in Node \cup {Null}
        BY FieldTypes
      <3> QED
        BY <2>1, <3>1 DEF LinksOK, EndsAgree
    <2>3. Follows(T, g, << >>)
      BY <2>2 DEF Follows
    <2> QED
      BY <2>3, ListUnique
  <1> QED
    BY <1>1 DEF KidsOf, ListsOf

\* Element by element, what the community modules define by parts of sequences.
LEMMA InsertAtIs ==
  ASSUME NEW c \in Seq(Node), NEW i \in 1 .. Len(c) + 1, NEW n \in Node
  PROVE  Lists!InsertAt(c, i, n)
           = [k \in 1 .. Len(c) + 1 |-> IF k < i THEN c[k] ELSE IF k = i THEN n ELSE c[k - 1]]
  <1> DEFINE a == SubSeq(c, 1, i - 1)
             b == SubSeq(c, i, Len(c))
             d == Lists!InsertAt(c, i, n)
             e == [k \in 1 .. Len(c) + 1 |-> IF k < i THEN c[k] ELSE IF k = i THEN n ELSE c[k - 1]]
  <1>1. Len(c) \in Nat /\ \A k \in 1 .. Len(c) : c[k] \in Node
    BY ElementOfSeq
  <1>2. a \in Seq(Node) /\ Len(a) = i - 1 /\ \A k \in 1 .. i - 1 : a[k] = c[k]
    BY <1>1
  <1>3. b \in Seq(Node) /\ Len(b) = Len(c) - i + 1 /\ \A k \in 1 .. Len(c) - i + 1 : b[k] = c[i + k - 1]
    BY <1>1
  <1>4. d = (a \o <<n>>) \o b
    BY DEF Lists!InsertAt
  <1> HIDE DEF a, b, d
  <1>5. /\ a \o <<n>> \in Seq(Node) /\ Len(a \o <<n>>) = i
        /\ \A k \in 1 .. i : (a \o <<n>>)[k] = IF k < i THEN c[k] ELSE n
    BY <1>1, <1>2
  <1>6. /\ d \in Seq(Node) /\ Len(d) = Len(c) + 1
        /\ \A k \in 1 .. Len(c) + 1 : d[k] = IF k <= i THEN (a \o <<n>>)[k] ELSE b[k - i]
    <2> DEFINE ab == a \o <<n>>
    <2> HIDE DEF ab
    <2>1. ab \in Seq(Node) /\ Len(ab) = i /\ d = ab \o b
      BY <1>4, <1>5 DEF ab
    <2>2. b \in Seq(Node)
      BY <1>3
    <2>3. /\ ab \o b \in Seq(Node) /\ Len(ab \o b) = Len(ab) + Len(b)
          /\ \A k \in 1 .. Len(ab) + Len(b) : (ab \o b)[k] = IF k <= Len(ab) THEN ab[k] ELSE b[k - Len(ab)]
      BY <2>1, <2>2, ConcatProperties
    <2>4. Len(ab) + Len(b) = Len(c) + 1
      BY <1>1, <1>3, <2>1
    <2> QED
      BY <2>1, <2>3, <2>4 DEF ab
  <1>7. \A k \in 1 .. Len(c) + 1 : d[k] = e[k]
    <2> TAKE k \in 1 .. Len(c) + 1
    <2>1. CASE k <= i
      <3>1. k \in 1 .. i
        BY <1>1, <2>1
      <3> QED
        BY <1>1, <1>5, <1>6, <2>1, <3>1
    <2>2. CASE ~(k <= i)
      <3>1. k - i \in 1 .. Len(c) - i + 1 /\ i + (k - i) - 1 = k - 1
        BY <1>1, <2>2
      <3>2. b[k - i] = c[k - 1]
        BY <1>3, <3>1
      <3> QED
        BY <1>1, <1>6, <2>2, <3>2
    <2> QED
      BY <2>1, <2>2
  <1>8. e \in Seq(Node) /\ Len(e) = Len(c) + 1
    <2>1. e \in [1 .. Len(c) + 1 -> Node]
      BY <1>1
    <2> QED
      BY <1>1, <2>1, IsASeq
  <1> HIDE DEF e
  <1> QED
    BY <1>6, <1>7, <1>8, SeqEqual DEF d, e

LEMMA RemoveAtIs ==
  ASSUME NEW c \in Seq(Node), NEW i \in 1 .. Len(c)
  PROVE  Lists!RemoveAt(c, i) = [k \in 1 .. Len(c) - 1 |-> IF k < i THEN c[k] ELSE c[k + 1]]
  <1> DEFINE a == SubSeq(c, 1, i - 1)
             b == SubSeq(c, i + 1, Len(c))
             d == Lists!RemoveAt(c, i)
             e == [k \in 1 .. Len(c) - 1 |-> IF k < i THEN c[k] ELSE c[k + 1]]
  <1>1. Len(c) \in Nat /\ \A k \in 1 .. Len(c) : c[k] \in Node
    BY ElementOfSeq
  <1>2. a \in Seq(Node) /\ Len(a) = i - 1 /\ \A k \in 1 .. i - 1 : a[k] = c[k]
    BY <1>1
  <1>3. b \in Seq(Node) /\ Len(b) = Len(c) - i /\ \A k \in 1 .. Len(c) - i : b[k] = c[i + k]
    BY <1>1
  <1>4. d = a \o b
    BY DEF Lists!RemoveAt
  <1> HIDE DEF a, b, d
  <1>5. /\ d \in Seq(Node) /\ Len(d) = Len(c) - 1
        /\ \A k \in 1 .. Len(c) - 1 : d[k] = IF k <= i - 1 THEN a[k] ELSE b[k - (i - 1)]
    <2>1. a \in Seq(Node) /\ b \in Seq(Node)
      BY <1>2, <1>3
    <2>2. /\ a \o b \in Seq(Node) /\ Len(a \o b) = Len(a) + Len(b)
          /\ \A k \in 1 .. Len(a) + Len(b) : (a \o b)[k] = IF k <= Len(a) THEN a[k] ELSE b[k - Len(a)]
      BY <2>1, ConcatProperties
    <2>3. Len(a) + Len(b) = Len(c) - 1 /\ Len(a) = i - 1
      BY <1>1, <1>2, <1>3
    <2> QED
      BY <1>4, <2>2, <2>3
  <1>6. \A k \in 1 .. Len(c) - 1 : d[k] = e[k]
    BY <1>1, <1>2, <1>3, <1>5
  <1>7. e \in Seq(Node) /\ Len(e) = Len(c) - 1
    <2>1. e \in [1 .. Len(c) - 1 -> Node]
      BY <1>1
    <2> QED
      BY <1>1, <2>1, IsASeq
  <1> HIDE DEF e
  <1> QED
    BY <1>5, <1>6, <1>7, SeqEqual DEF d, e

\* What the pointers are at a place of a list.
LEMMA ListNeighbours ==
  ASSUME NEW T \in Trees, LinksOK(T), NEW g \in Node
  PROVE  LET c == ListOf(T, g)
         IN  /\ c \in Seq(Node) /\ Len(c) \in Nat
             /\ \A i \in 1 .. Len(c) :
                  /\ c[i] \in Node /\ T.parent[c[i]] = g
                  /\ T.next[c[i]] = IF i = Len(c) THEN Null ELSE c[i + 1]
                  /\ T.prev[c[i]] = IF i = 1 THEN Null ELSE c[i - 1]
             /\ T.head[g] = IF Len(c) = 0 THEN Null ELSE c[1]
             /\ T.tail[g] = IF Len(c) = 0 THEN Null ELSE c[Len(c)]
  <1> DEFINE c == ListOf(T, g)
  <1>1. /\ Follows(T, g, c)
        /\ \A n \in Node : T.parent[n] = g <=> \E i \in 1 .. Len(c) : c[i] = n
    BY ListFollows
  <1> HIDE DEF c
  <1>2. c \in Seq(Node) /\ Len(c) \in Nat /\ \A i \in 1 .. Len(c) : c[i] \in Node
    <2>1. c \in Seq(Node)
      BY <1>1 DEF Follows
    <2> QED
      BY <2>1, ElementOfSeq
  <1>3. \A i \in 1 .. Len(c) : T.next[c[i]] = IF i = Len(c) THEN Null ELSE c[i + 1]
    <2> TAKE i \in 1 .. Len(c)
    <2>1. CASE i = Len(c)
      BY <1>1, <1>2, <2>1 DEF Follows
    <2>2. CASE i # Len(c)
      <3>1. i \in 1 .. Len(c) - 1
        BY <1>2, <2>2
      <3> QED
        BY <1>1, <2>2, <3>1 DEF Follows
    <2> QED
      BY <2>1, <2>2
  <1>4. T.head[g] = IF Len(c) = 0 THEN Null ELSE c[1]
    BY <1>1 DEF Follows
  <1>5. \A i \in 1 .. Len(c) : T.prev[c[i]] = IF i = 1 THEN Null ELSE c[i - 1]
    <2> TAKE i \in 1 .. Len(c)
    <2>1. CASE i = 1
      BY <1>2, <1>4, <2>1 DEF LinksOK, EndsAgree
    <2>2. CASE i # 1
      <3>1. i - 1 \in 1 .. Len(c) /\ i - 1 # Len(c) /\ i - 1 + 1 = i
        BY <1>2, <2>2
      <3>2. T.next[c[i - 1]] = c[i]
        BY <1>3, <3>1
      <3> QED
        BY <1>2, <2>2, <3>1, <3>2 DEF LinksOK, NeighboursAgree
    <2> QED
      BY <2>1, <2>2
  <1>6. T.tail[g] = IF Len(c) = 0 THEN Null ELSE c[Len(c)]
    <2>1. CASE Len(c) = 0
      BY <1>4, <2>1 DEF LinksOK, EndsAgree
    <2>2. CASE Len(c) # 0
      <3>1. Len(c) \in 1 .. Len(c)
        BY <1>2, <2>2
      <3>2. T.next[c[Len(c)]] = Null /\ T.parent[c[Len(c)]] = g /\ c[Len(c)] \in Node
        BY <1>1, <1>2, <1>3, <3>1
      <3> QED
        BY <2>2, <3>2 DEF LinksOK, EndsAgree
    <2> QED
      BY <2>1, <2>2
  <1> QED
    BY <1>1, <1>2, <1>3, <1>4, <1>5, <1>6 DEF c

\* A list whose pointers are not changed stays.
LEMMA ListKept ==
  ASSUME NEW T \in Trees, LinksOK(T), NEW U \in Trees, LinksOK(U), NEW g \in Node,
         U.head[g] = T.head[g],
         \A n \in Node : T.parent[n] = g => U.next[n] = T.next[n]
  PROVE  ListOf(U, g) = ListOf(T, g)
  <1> DEFINE c == ListOf(T, g)
  <1>1. Follows(T, g, c)
    BY ListFollows
  <1>2. c \in Seq(Node) /\ Len(c) \in Nat /\ \A i \in 1 .. Len(c) : c[i] \in Node /\ T.parent[c[i]] = g
    BY ListNeighbours
  <1> HIDE DEF c
  <1>3. \A i \in 1 .. Len(c) : U.next[c[i]] = T.next[c[i]]
    BY <1>2
  <1>4. Len(c) # 0 => Len(c) \in 1 .. Len(c)
    BY <1>2
  <1>5. \A i \in 1 .. Len(c) - 1 : i \in 1 .. Len(c)
    BY <1>2
  <1>6. Follows(U, g, c)
    BY <1>1, <1>3, <1>4, <1>5 DEF Follows
  <1> QED
    BY <1>6, ListUnique DEF c

\* A node of a list is at one place of it.
LEMMA PositionIs ==
  ASSUME NEW T \in Trees, LinksOK(T), NEW g \in Node, NEW n \in Node, T.parent[n] = g
  PROVE  LET c == ListOf(T, g)
         IN  Lists!Position(c, n) \in 1 .. Len(c) /\ c[Lists!Position(c, n)] = n
  <1> DEFINE c == ListOf(T, g)
  <1>1. c \in Seq(Node) /\ Len(c) \in Nat /\ \E i \in 1 .. Len(c) : c[i] = n
    BY ListNeighbours, ListFollows
  <1> HIDE DEF c
  <1>2. DOMAIN c = 1 .. Len(c)
    BY <1>1
  <1> QED
    BY <1>1, <1>2 DEF Lists!Position, c

LEMMA MembersOf ==
  ASSUME NEW T \in Trees, LinksOK(T), NEW g \in Node
  PROVE  \A n : n \in Lists!ToSet(ListOf(T, g)) <=> n \in Node /\ T.parent[n] = g
  <1> DEFINE c == ListOf(T, g)
  <1>1. /\ c \in Seq(Node) /\ Len(c) \in Nat
        /\ \A i \in 1 .. Len(c) : c[i] \in Node /\ T.parent[c[i]] = g
        /\ \A n \in Node : T.parent[n] = g <=> \E i \in 1 .. Len(c) : c[i] = n
    BY ListNeighbours, ListFollows
  <1> HIDE DEF c
  <1>2. DOMAIN c = 1 .. Len(c)
    BY <1>1
  <1> QED
    BY <1>1, <1>2 DEF Lists!ToSet, c

\* Node_Remove takes the node out of its list.
LEMMA ListsRemove ==
  ASSUME NEW T \in Trees, LinksOK(T), NEW n \in Node
  PROVE  ListsOf(Remove(T, n)) = Lists!Without(ListsOf(T), n)
  <1> DEFINE U == Remove(T, n)
  <1>0. U \in Trees /\ LinksOK(U)
    BY RemoveOK
  <1>a. /\ T.next \in [Node -> Node \cup {Null}] /\ T.prev \in [Node -> Node \cup {Null}]
        /\ T.head \in [Node -> Node \cup {Null}] /\ T.parent \in [Node -> Node \cup {Null}]
    BY FieldTypes
  <1>b. /\ \A m \in Node : U.next[m] = IF m = n THEN Null ELSE IF m = T.prev[n] THEN T.next[n] ELSE T.next[m]
        /\ \A g \in Node : U.head[g] = IF g = T.parent[n] /\ T.prev[n] = Null THEN T.next[n] ELSE T.head[g]
    BY DEF Remove, Trees
  <1> HIDE DEF U
  <1>1. ASSUME NEW g \in Node, T.parent[n] # g
        PROVE  ListOf(U, g) = ListOf(T, g)
    <2>1. U.head[g] = T.head[g]
      BY <1>1, <1>b
    <2>2. ASSUME NEW m \in Node, T.parent[m] = g
          PROVE  U.next[m] = T.next[m]
      <3>1. m # n
        BY <1>1, <2>2
      <3>2. m # T.prev[n]
        BY <1>1, <2>2 DEF LinksOK, NeighboursAgree
      <3> QED
        BY <1>b, <3>1, <3>2
    <2> QED
      BY <1>0, <2>1, <2>2, ListKept
  <1>2. ASSUME NEW g \in Node, T.parent[n] = g
        PROVE  ListOf(U, g) = Lists!RemoveAt(ListOf(T, g), Lists!Position(ListOf(T, g), n))
    <2> DEFINE c == ListOf(T, g)
               i == Lists!Position(c, n)
               L == Len(c)
               d == [k \in 1 .. L - 1 |-> IF k < i THEN c[k] ELSE c[k + 1]]
    <2>1. /\ c \in Seq(Node) /\ L \in Nat
          /\ \A k \in 1 .. L :
               /\ c[k] \in Node
               /\ T.next[c[k]] = IF k = L THEN Null ELSE c[k + 1]
               /\ T.prev[c[k]] = IF k = 1 THEN Null ELSE c[k - 1]
          /\ T.head[g] = IF L = 0 THEN Null ELSE c[1]
      BY ListNeighbours
    <2>2. \A k, m \in 1 .. L : c[k] = c[m] => k = m
      BY ListFollows
    <2>3. i \in 1 .. L /\ c[i] = n
      BY <1>2, PositionIs
    <2>4. Lists!RemoveAt(c, i) = d
      BY <2>1, <2>3, RemoveAtIs
    <2>a. L = Len(c) /\ L \in Nat /\ i \in 1 .. L
      BY <2>1, <2>3
    <2> HIDE DEF c, i, L
    <2>5. T.next[n] = (IF i = L THEN Null ELSE c[i + 1]) /\ T.prev[n] = (IF i = 1 THEN Null ELSE c[i - 1])
      BY <2>1, <2>3
    <2>6. d \in Seq(Node) /\ Len(d) = L - 1
      <3>1. d \in [1 .. L - 1 -> Node]
        BY <2>1, <2>3
      <3>2. L - 1 \in Nat
        BY <2>1, <2>3
      <3> QED
        BY <3>1, <3>2, IsASeq
    <2>7. \A k \in 1 .. L : k # i =>
            U.next[c[k]] = IF k = i - 1 THEN T.next[n] ELSE T.next[c[k]]
      <3> TAKE k \in 1 .. L
      <3> HAVE k # i
      <3>1. c[k] # n /\ c[k] \in Node
        BY <2>1, <2>2, <2>3
      <3>2. CASE i = 1
        BY <1>b, <2>5, <3>1, <3>2, NullAssumption
      <3>3. CASE i # 1
        <4>1. i - 1 \in 1 .. L
          BY <2>1, <2>3, <3>3
        <4>2. c[k] = c[i - 1] <=> k = i - 1
          BY <2>2, <4>1
        <4> QED
          BY <1>b, <2>5, <3>1, <3>3, <4>2
      <3> QED
        BY <3>2, <3>3
    <2>8. \A k \in 1 .. L - 1 : d[k] = IF k < i THEN c[k] ELSE c[k + 1]
      OBVIOUS
    <2> HIDE DEF d
    <2>9. \A k \in 1 .. L - 2 : U.next[d[k]] = d[k + 1]
      <3> TAKE k \in 1 .. L - 2
      <3>1. k \in 1 .. L - 1 /\ k + 1 \in 1 .. L - 1 /\ k \in 1 .. L /\ k + 1 \in 1 .. L /\ k + 1 + 1 \in 1 .. L
        BY <2>1
      <3>2. CASE k < i - 1
        <4>1. d[k] = c[k] /\ d[k + 1] = c[k + 1] /\ k # i /\ k # i - 1 /\ k # L
          BY <2>a, <2>8, <3>1, <3>2
        <4> QED
          BY <2>1, <2>7, <3>1, <4>1
      <3>3. CASE k = i - 1
        <4>1. d[k] = c[k] /\ d[k + 1] = c[i + 1] /\ k # i /\ i # L /\ k + 1 + 1 = i + 1
          BY <2>a, <2>8, <3>1, <3>3
        <4> QED
          BY <2>5, <2>7, <3>1, <3>3, <4>1
      <3>4. CASE ~(k < i - 1) /\ k # i - 1
        <4>1. d[k] = c[k + 1] /\ d[k + 1] = c[k + 1 + 1] /\ k + 1 # i /\ k + 1 # i - 1 /\ k + 1 # L
          BY <2>a, <2>8, <3>1, <3>4
        <4> QED
          BY <2>1, <2>7, <3>1, <4>1
      <3> QED
        BY <3>2, <3>3, <3>4
    <2>10. IF L - 1 = 0 THEN U.head[g] = Null ELSE U.head[g] = d[1] /\ U.next[d[L - 1]] = Null
      <3>1. CASE L = 1
        BY <1>2, <1>b, <2>3, <2>5, <3>1
      <3>2. CASE L # 1
        <4>1. L - 1 \in 1 .. L - 1 /\ 1 \in 1 .. L - 1 /\ L - 1 \in 1 .. L /\ L \in 1 .. L /\ 1 \in 1 .. L
              /\ L - 1 + 1 = L /\ L - 1 # 0 /\ L # 0
          BY <2>a, <3>2
        <4>2. U.head[g] = d[1]
          <5>1. CASE i = 1
            <6>1. d[1] = c[2] /\ 1 # L /\ T.next[n] = c[2]
              BY <2>5, <2>8, <3>2, <4>1, <5>1
            <6> QED
              BY <1>2, <1>b, <2>5, <5>1, <6>1
          <5>2. CASE i # 1
            <6>1. d[1] = c[1] /\ T.prev[n] = c[i - 1] /\ i - 1 \in 1 .. L
              BY <2>a, <2>5, <2>8, <4>1, <5>2
            <6> QED
              BY <1>b, <2>1, <4>1, <6>1, NullAssumption
          <5> QED
            BY <5>1, <5>2
        <4>3. U.next[d[L - 1]] = Null
          <5>1. CASE i = L
            <6>1. d[L - 1] = c[L - 1] /\ L - 1 # i /\ L - 1 = i - 1 /\ T.next[n] = Null
              BY <2>a, <2>5, <2>8, <4>1, <5>1
            <6> QED
              BY <2>7, <4>1, <6>1
          <5>2. CASE i # L
            <6>1. d[L - 1] = c[L] /\ L # i /\ L # i - 1
              BY <2>a, <2>8, <4>1, <5>2
            <6> QED
              BY <2>1, <2>7, <4>1, <6>1
          <5> QED
            BY <5>1, <5>2
        <4> QED
          BY <4>1, <4>2, <4>3
      <3> QED
        BY <2>1, <3>1, <3>2
    <2>11. L - 1 - 1 = L - 2
      BY <2>1
    <2>12. Follows(U, g, d)
      BY <2>6, <2>9, <2>10, <2>11 DEF Follows, L
    <2> QED
      BY <1>0, <2>4, <2>12, ListUnique DEF c, i, L
  <1>3. \A g \in Node : n \in Lists!ToSet(ListsOf(T)[g]) <=> T.parent[n] = g
    BY MembersOf DEF ListsOf
  <1> QED
    BY <1>1, <1>2, <1>3 DEF ListsOf, Lists!Without, U

\* The two ends, as places of insertion.
LEMMA InsertAtEnds ==
  ASSUME NEW c \in Seq(Node), NEW n \in Node
  PROVE  /\ <<n>> \o c = Lists!InsertAt(c, 1, n)
         /\ Append(c, n) = Lists!InsertAt(c, Len(c) + 1, n)
  <1> DEFINE L == Len(c)
             Ins(i) == [k \in 1 .. L + 1 |-> IF k < i THEN c[k] ELSE IF k = i THEN n ELSE c[k - 1]]
  <1>1. L \in Nat /\ \A k \in 1 .. L : c[k] \in Node
    BY ElementOfSeq
  <1>2. Lists!InsertAt(c, 1, n) = Ins(1) /\ Lists!InsertAt(c, L + 1, n) = Ins(L + 1)
    <2>1. 1 \in 1 .. L + 1 /\ L + 1 \in 1 .. L + 1
      BY <1>1
    <2> QED
      BY <2>1, InsertAtIs
  <1>3. \A i \in 1 .. L + 1 : Ins(i) \in Seq(Node) /\ Len(Ins(i)) = L + 1
    <2> TAKE i \in 1 .. L + 1
    <2>1. Ins(i) \in [1 .. L + 1 -> Node]
      BY <1>1
    <2> QED
      BY <1>1, <2>1, IsASeq
  <1>4. <<n>> \o c = Ins(1)
    <2> DEFINE d == <<n>> \o c
    <2>1. <<n>> \in Seq(Node) /\ Len(<<n>>) = 1 /\ <<n>>[1] = n
      OBVIOUS
    <2>2. /\ d \in Seq(Node) /\ Len(d) = Len(<<n>>) + L
          /\ \A k \in 1 .. Len(<<n>>) + L : d[k] = IF k <= Len(<<n>>) THEN <<n>>[k] ELSE c[k - Len(<<n>>)]
      BY <2>1, ConcatProperties
    <2>3. Len(d) = L + 1 /\ \A k \in 1 .. L + 1 : d[k] = IF k <= 1 THEN <<n>>[k] ELSE c[k - 1]
      BY <1>1, <2>1, <2>2
    <2> HIDE DEF d
    <2>4. \A k \in 1 .. L + 1 : d[k] = Ins(1)[k]
      BY <1>1, <2>1, <2>3
    <2>5. Ins(1) \in Seq(Node) /\ Len(Ins(1)) = L + 1
      BY <1>1, <1>3
    <2> HIDE DEF Ins
    <2> QED
      BY <2>2, <2>3, <2>4, <2>5, SeqEqual DEF d
  <1>5. Append(c, n) = Ins(L + 1)
    <2> DEFINE d == Append(c, n)
    <2>1. d \in Seq(Node) /\ Len(d) = L + 1 /\ \A k \in 1 .. L + 1 : d[k] = IF k = L + 1 THEN n ELSE c[k]
      BY <1>1, AppendProperties
    <2> HIDE DEF d
    <2>2. \A k \in 1 .. L + 1 : d[k] = Ins(L + 1)[k]
      BY <1>1, <2>1
    <2>3. Ins(L + 1) \in Seq(Node) /\ Len(Ins(L + 1)) = L + 1
      BY <1>1, <1>3
    <2> HIDE DEF Ins
    <2> QED
      BY <2>1, <2>2, <2>3, SeqEqual DEF d
  <1> QED
    BY <1>2, <1>4, <1>5

LEMMA LinkFields ==
  ASSUME NEW T \in Trees, NEW n, NEW g, NEW p, NEW q
  PROVE  LET U == Link(T, n, g, p, q)
         IN  /\ \A m \in Node : U.next[m] = IF m = n THEN q ELSE IF m = p THEN n ELSE T.next[m]
             /\ \A h \in Node : U.head[h] = IF h = g /\ p = Null THEN n ELSE T.head[h]
  <1> DEFINE U == Link(T, n, g, p, q)
  <1>1. /\ U.next = [m \in Node |-> IF m = n THEN q ELSE IF m = p THEN n ELSE T.next[m]]
        /\ U.head = [h \in Node |-> IF h = g /\ p = Null THEN n ELSE T.head[h]]
    BY DEF Link, Trees
  <1> HIDE DEF U
  <1> QED
    BY <1>1 DEF U

\* The assignments that the placements share put a node at a place of the list.
LEMMA ListsLink ==
  ASSUME NEW T \in Trees, LinksOK(T), NEW n \in Node, T.parent[n] = Null, NEW g \in Node,
         NEW i \in 1 .. Len(ListOf(T, g)) + 1, NEW p, NEW q,
         p = IF i = 1 THEN Null ELSE ListOf(T, g)[i - 1],
         q = IF i = Len(ListOf(T, g)) + 1 THEN Null ELSE ListOf(T, g)[i],
         Link(T, n, g, p, q) \in Trees, LinksOK(Link(T, n, g, p, q))
  PROVE  ListsOf(Link(T, n, g, p, q)) = [ListsOf(T) EXCEPT ![g] = Lists!InsertAt(@, i, n)]
  <1> DEFINE U == Link(T, n, g, p, q)
             c == ListOf(T, g)
             L == Len(c)
             d == [k \in 1 .. L + 1 |-> IF k < i THEN c[k] ELSE IF k = i THEN n ELSE c[k - 1]]
  <1>1. /\ \A m \in Node : U.next[m] = IF m = n THEN q ELSE IF m = p THEN n ELSE T.next[m]
        /\ \A h \in Node : U.head[h] = IF h = g /\ p = Null THEN n ELSE T.head[h]
    BY LinkFields
  <1>2. /\ c \in Seq(Node) /\ L \in Nat
        /\ \A k \in 1 .. L :
             /\ c[k] \in Node /\ T.parent[c[k]] = g
             /\ T.next[c[k]] = IF k = L THEN Null ELSE c[k + 1]
        /\ T.head[g] = IF L = 0 THEN Null ELSE c[1]
    BY ListNeighbours
  <1>3. \A k, m \in 1 .. L : c[k] = c[m] => k = m
    BY ListFollows
  <1>4. Lists!InsertAt(c, i, n) = d
    BY <1>2, InsertAtIs
  <1>5. U \in Trees /\ LinksOK(U)
    OBVIOUS
  <1>6. L = Len(c) /\ L \in Nat /\ i \in 1 .. L + 1 /\ p = (IF i = 1 THEN Null ELSE c[i - 1])
        /\ q = (IF i = L + 1 THEN Null ELSE c[i])
    BY <1>2
  <1> HIDE DEF U, c, L
  <1>7. p = Null \/ (i - 1 \in 1 .. L /\ p = c[i - 1] /\ p \in Node /\ T.parent[p] = g)
    BY <1>2, <1>6
  <1>8. ASSUME NEW h \in Node, h # g
        PROVE  ListOf(U, h) = ListOf(T, h)
    <2>1. U.head[h] = T.head[h]
      BY <1>1, <1>8
    <2>2. ASSUME NEW m \in Node, T.parent[m] = h
          PROVE  U.next[m] = T.next[m]
      BY <1>1, <1>7, <1>8, <2>2, NullAssumption
    <2> QED
      BY <1>5, <2>1, <2>2, ListKept
  <1>9. d \in Seq(Node) /\ Len(d) = L + 1
    <2>1. d \in [1 .. L + 1 -> Node]
      BY <1>2, <1>6
    <2> QED
      BY <1>6, <2>1, IsASeq
  <1>10. \A k \in 1 .. L + 1 : d[k] = IF k < i THEN c[k] ELSE IF k = i THEN n ELSE c[k - 1]
    OBVIOUS
  <1> HIDE DEF d
  <1>11. \A k \in 1 .. L : U.next[c[k]] = IF k = i - 1 THEN n ELSE T.next[c[k]]
    <2> TAKE k \in 1 .. L
    <2>1. c[k] # n /\ c[k] \in Node
      BY <1>2, NullAssumption
    <2>2. c[k] = p <=> k = i - 1
      BY <1>2, <1>3, <1>6, <1>7, <2>1, NullAssumption
    <2> QED
      BY <1>1, <2>1, <2>2
  <1>12. \A k \in 1 .. L : U.next[d[k]] = d[k + 1]
    <2> TAKE k \in 1 .. L
    <2>1. k \in 1 .. L + 1 /\ k + 1 \in 1 .. L + 1 /\ k + 1 - 1 = k
      BY <1>6
    <2>2. CASE k < i - 1
      <3>1. d[k] = c[k] /\ d[k + 1] = c[k + 1] /\ k # i - 1 /\ k # L
        BY <1>6, <1>10, <2>1, <2>2
      <3> QED
        BY <1>2, <1>11, <3>1
    <2>3. CASE k = i - 1
      <3>1. d[k] = c[k] /\ d[k + 1] = n
        BY <1>6, <1>10, <2>1, <2>3
      <3> QED
        BY <1>11, <2>3, <3>1
    <2>4. CASE k = i
      <3>1. d[k] = n /\ d[k + 1] = c[k] /\ k # L + 1
        BY <1>6, <1>10, <2>1, <2>4
      <3> QED
        BY <1>1, <1>6, <2>4, <3>1
    <2>5. CASE k > i
      <3>1. d[k] = c[k - 1] /\ d[k + 1] = c[k] /\ k - 1 \in 1 .. L /\ k - 1 # i - 1 /\ k - 1 # L /\ k - 1 + 1 = k
        BY <1>6, <1>10, <2>1, <2>5
      <3> QED
        BY <1>2, <1>11, <3>1
    <2> QED
      BY <1>6, <2>2, <2>3, <2>4, <2>5
  <1>13. U.head[g] = d[1]
    <2>1. CASE i = 1
      BY <1>1, <1>6, <1>10, <2>1
    <2>2. CASE i # 1
      <3>1. d[1] = c[1] /\ p # Null /\ L # 0
        BY <1>2, <1>6, <1>7, <1>10, <2>2, NullAssumption
      <3> QED
        BY <1>1, <1>2, <3>1
    <2> QED
      BY <2>1, <2>2
  <1>14. U.next[d[L + 1]] = Null
    <2>1. L + 1 \in 1 .. L + 1 /\ L + 1 - 1 = L
      BY <1>6
    <2>2. CASE i = L + 1
      BY <1>1, <1>6, <1>10, <2>1, <2>2
    <2>3. CASE i # L + 1
      <3>1. d[L + 1] = c[L] /\ L \in 1 .. L /\ L # i - 1
        BY <1>6, <1>10, <2>1, <2>3
      <3> QED
        BY <1>2, <1>11, <3>1
    <2> QED
      BY <2>2, <2>3
  <1>15. Follows(U, g, d)
    <2>1. L + 1 # 0 /\ L + 1 - 1 = L
      BY <1>6
    <2> QED
      BY <1>6, <1>9, <1>12, <1>13, <1>14, <2>1 DEF Follows
  <1>16. ListOf(U, g) = Lists!InsertAt(ListOf(T, g), i, n)
    BY <1>4, <1>5, <1>15, ListUnique DEF c
  <1> QED
    BY <1>8, <1>16 DEF ListsOf, U

\* Group_AddHead, Group_AddTail, Node_AddBefore and Node_AddAfter put the node
\* where the placement says.
LEMMA ListsPlace ==
  ASSUME NEW T \in Trees, LinksOK(T), NEW n \in Node \ {Root}, T.parent[n] = Null,
         NEW place \in Places, NEW t \in Node,
         place \in {"before", "after"} => T.parent[t] \in tree.group /\ tree.group \subseteq Node,
         PlaceAt(T, n, place, t) \in Trees, LinksOK(PlaceAt(T, n, place, t))
  PROVE  ListsOf(PlaceAt(T, n, place, t)) = Lists!Put(ListsOf(T), n, place, t)
  <1> DEFINE k == ListsOf(T)
  <1>1. \A g \in Node : /\ k[g] = ListOf(T, g) /\ k[g] \in Seq(Node) /\ Len(k[g]) \in Nat
                        /\ T.head[g] = IF Len(k[g]) = 0 THEN Null ELSE k[g][1]
                        /\ T.tail[g] = IF Len(k[g]) = 0 THEN Null ELSE k[g][Len(k[g])]
    BY ListNeighbours DEF ListsOf
  <1>2. k = [g \in Node |-> k[g]]
    BY DEF ListsOf
  <1>3. CASE place = "head"
    <2>1. PlaceAt(T, n, place, t) = Link(T, n, t, Null, T.head[t])
      BY <1>3 DEF PlaceAt, AddHead
    <2>2. /\ 1 \in 1 .. Len(ListOf(T, t)) + 1 /\ Null = IF 1 = 1 THEN Null ELSE ListOf(T, t)[1 - 1]
          /\ T.head[t] = IF 1 = Len(ListOf(T, t)) + 1 THEN Null ELSE ListOf(T, t)[1]
      BY <1>1
    <2>3. ListsOf(Link(T, n, t, Null, T.head[t])) = [k EXCEPT ![t] = Lists!InsertAt(@, 1, n)]
      <3> HIDE DEF k
      <3>1. Link(T, n, t, Null, T.head[t]) \in Trees /\ LinksOK(Link(T, n, t, Null, T.head[t]))
        BY <2>1
      <3> QED
        BY <2>2, <3>1, ListsLink DEF k
    <2>4. Lists!Put(k, n, place, t) = [k EXCEPT ![t] = <<n>> \o @]
      BY <1>3 DEF Lists!Put
    <2>5. <<n>> \o k[t] = Lists!InsertAt(k[t], 1, n)
      BY <1>1, InsertAtEnds
    <2> HIDE DEF k
    <2> QED
      BY <2>1, <2>3, <2>4, <2>5 DEF k
  <1>4. CASE place = "tail"
    <2> DEFINE i == Len(k[t]) + 1
               p == IF i = 1 THEN Null ELSE k[t][i - 1]
    <2>1. PlaceAt(T, n, place, t) = Link(T, n, t, T.tail[t], Null)
      BY <1>4 DEF PlaceAt, AddTail
    <2>2. T.tail[t] = p /\ i \in 1 .. Len(k[t]) + 1
      BY <1>1
    <2>3. ListsOf(Link(T, n, t, T.tail[t], Null)) = [k EXCEPT ![t] = Lists!InsertAt(@, i, n)]
      <3>1. /\ i \in 1 .. Len(ListOf(T, t)) + 1
            /\ T.tail[t] = IF i = 1 THEN Null ELSE ListOf(T, t)[i - 1]
            /\ i = Len(ListOf(T, t)) + 1
        BY <1>1, <2>2
      <3>2. Link(T, n, t, T.tail[t], Null) \in Trees /\ LinksOK(Link(T, n, t, T.tail[t], Null))
        BY <2>1
      <3>3. Null = IF i = Len(ListOf(T, t)) + 1 THEN Null ELSE ListOf(T, t)[i]
        BY <3>1
      <3> HIDE DEF i, p
      <3> QED
        BY <3>1, <3>2, <3>3, ListsLink DEF k
    <2>4. Lists!Put(k, n, place, t) = [k EXCEPT ![t] = Append(@, n)]
      BY <1>4 DEF Lists!Put
    <2>5. Append(k[t], n) = Lists!InsertAt(k[t], i, n)
      BY <1>1, InsertAtEnds
    <2> HIDE DEF k
    <2> QED
      BY <2>1, <2>3, <2>4, <2>5 DEF k
  <1>5. CASE place \in {"before", "after"}
    <2> DEFINE g == T.parent[t]
               j == Lists!Position(k[g], t)
               L == Len(k[g])
    <2>1. g \in Node /\ g \in tree.group
      BY <1>5
    <2>2. (CHOOSE h \in tree.group : t \in Lists!ToSet(k[h])) = g
      <3>1. \A h \in tree.group : t \in Lists!ToSet(k[h]) <=> h = g
        BY <1>1, <1>5, MembersOf
      <3> HIDE DEF k, g
      <3> QED
        BY <2>1, <3>1
    <2>3. j \in 1 .. L /\ k[g][j] = t
      BY <1>1, <2>1, PositionIs
    <2>4. /\ T.next[t] = IF j = L THEN Null ELSE k[g][j + 1]
          /\ T.prev[t] = IF j = 1 THEN Null ELSE k[g][j - 1]
      <3>1. \A i \in 1 .. Len(ListOf(T, g)) :
              /\ T.next[ListOf(T, g)[i]] = IF i = Len(ListOf(T, g)) THEN Null ELSE ListOf(T, g)[i + 1]
              /\ T.prev[ListOf(T, g)[i]] = IF i = 1 THEN Null ELSE ListOf(T, g)[i - 1]
        BY <2>1, ListNeighbours
      <3> QED
        BY <1>1, <2>1, <2>3, <3>1
    <2>5. L \in Nat /\ g # Null
      BY <1>1, <2>1, NullAssumption
    <2>6. CASE place = "before"
      <3>1. PlaceAt(T, n, place, t) = Link(T, n, g, T.prev[t], t)
        BY <2>5, <2>6 DEF PlaceAt, AddBefore
      <3>2. Lists!Put(k, n, place, t) = [k EXCEPT ![g] = Lists!InsertAt(@, j, n)]
        BY <2>2, <2>6 DEF Lists!Put
      <3>3. /\ j \in 1 .. Len(ListOf(T, g)) + 1
            /\ T.prev[t] = IF j = 1 THEN Null ELSE ListOf(T, g)[j - 1]
            /\ t = IF j = Len(ListOf(T, g)) + 1 THEN Null ELSE ListOf(T, g)[j]
        <4> HIDE DEF j, k
        <4> QED
          BY <1>1, <2>1, <2>3, <2>4, <2>5
      <3>4. ListsOf(Link(T, n, g, T.prev[t], t)) = [k EXCEPT ![g] = Lists!InsertAt(@, j, n)]
        <4> HIDE DEF j
        <4>1. Link(T, n, g, T.prev[t], t) \in Trees /\ LinksOK(Link(T, n, g, T.prev[t], t))
          BY <3>1
        <4> HIDE DEF g
        <4> QED
          BY <2>1, <3>3, <4>1, ListsLink DEF k
      <3> QED
        BY <3>1, <3>2, <3>4
    <2>7. CASE place = "after"
      <3>1. PlaceAt(T, n, place, t) = Link(T, n, g, t, T.next[t])
        BY <2>5, <2>7 DEF PlaceAt, AddAfter
      <3>2. Lists!Put(k, n, place, t) = [k EXCEPT ![g] = Lists!InsertAt(@, j + 1, n)]
        BY <2>2, <2>7 DEF Lists!Put
      <3>3. /\ j + 1 \in 1 .. Len(ListOf(T, g)) + 1
            /\ t = IF j + 1 = 1 THEN Null ELSE ListOf(T, g)[(j + 1) - 1]
            /\ T.next[t] = IF j + 1 = Len(ListOf(T, g)) + 1 THEN Null ELSE ListOf(T, g)[j + 1]
        <4>1. L = Len(ListOf(T, g)) /\ j \in 1 .. L /\ (j + 1) - 1 = j
          BY <1>1, <2>1, <2>3, <2>5
        <4>2. j \in Nat /\ L \in Nat
          BY <1>1, <2>1, <4>1
        <4>3. t = k[g][j] /\ T.next[t] = (IF j = L THEN Null ELSE k[g][j + 1])
          BY <2>3, <2>4, <4>1
        <4> HIDE DEF j, k, L
        <4>4. j + 1 \in 1 .. L + 1 /\ j + 1 # 1 /\ (j + 1 = L + 1 <=> j = L)
          BY <4>1, <4>2
        <4>5. k[g] = ListOf(T, g)
          BY <1>1, <2>1
        <4>6. /\ t = IF j + 1 = 1 THEN Null ELSE k[g][(j + 1) - 1]
              /\ T.next[t] = IF j + 1 = L + 1 THEN Null ELSE k[g][j + 1]
          BY <4>1, <4>3, <4>4
        <4> QED
          BY <4>1, <4>4, <4>5, <4>6
      <3>4. ListsOf(Link(T, n, g, t, T.next[t])) = [k EXCEPT ![g] = Lists!InsertAt(@, j + 1, n)]
        <4> DEFINE i == j + 1
        <4> HIDE DEF j
        <4>1. Link(T, n, g, t, T.next[t]) \in Trees /\ LinksOK(Link(T, n, g, t, T.next[t]))
          BY <3>1
        <4>2. /\ i \in 1 .. Len(ListOf(T, g)) + 1
              /\ t = IF i = 1 THEN Null ELSE ListOf(T, g)[i - 1]
              /\ T.next[t] = IF i = Len(ListOf(T, g)) + 1 THEN Null ELSE ListOf(T, g)[i]
          BY <3>3
        <4>3. ListsOf(Link(T, n, g, t, T.next[t])) = [k EXCEPT ![g] = Lists!InsertAt(@, i, n)]
          <5> HIDE DEF i, g
          <5> QED
            BY <2>1, <4>1, <4>2, ListsLink DEF k
        <4> QED
          BY <4>3
      <3> QED
        BY <3>1, <3>2, <3>4
    <2> QED
      BY <1>5, <2>6, <2>7
  <1> QED
    BY <1>3, <1>4, <1>5 DEF Places

\* The lists are a matter of mHead and mNext alone.
LEMMA ListsSame ==
  ASSUME NEW T, NEW U, U.head = T.head, U.next = T.next
  PROVE  ListsOf(U) = ListsOf(T)
  BY DEF ListsOf, ListOf, Walk

\* Group_DeleteAll empties the list of the group and of the groups below it.
LEMMA ListsDeleteAll ==
  ASSUME NEW T \in Trees, LinksOK(T), NEW g \in T.group
  PROVE  ListsOf(DeleteAll(T, g)) = Lists!Emptied(ListsOf(T), {g} \cup Below(T, g))
  <1> DEFINE U == DeleteAll(T, g)
             D == Below(T, g)
  <1>0. g \in Node /\ D \subseteq T.live /\ T.live \subseteq Node
    BY FieldTypes DEF Below
  <1>1. U \in Trees /\ LinksOK(U)
    BY DeleteAllOK
  <1>2. /\ U.next = [n \in Node |-> IF n \in D THEN Null ELSE T.next[n]]
        /\ U.head = [[n \in Node |-> IF n \in D THEN Null ELSE T.head[n]] EXCEPT ![g] = Null]
    BY DEF DeleteAll, Trees
  <1> HIDE DEF U
  <1>3. \A h \in Node : U.head[h] = IF h \in {g} \cup D THEN Null ELSE T.head[h]
    BY <1>0, <1>2
  <1>4. \A m \in Node : m \notin D => U.next[m] = T.next[m]
    BY <1>2
  <1>5. \A m \in D : T.parent[m] \in {g} \cup D
    BY BelowParent
  <1> HIDE DEF D
  <1>6. ASSUME NEW h \in Node, h \in {g} \cup D PROVE ListOf(U, h) = << >>
    <2>1. Follows(U, h, << >>)
      BY <1>3, <1>6 DEF Follows
    <2> QED
      BY <1>1, <2>1, ListUnique
  <1>7. ASSUME NEW h \in Node, h \notin {g} \cup D PROVE ListOf(U, h) = ListOf(T, h)
    <2>1. \A m \in Node : T.parent[m] = h => U.next[m] = T.next[m]
      BY <1>4, <1>5, <1>7
    <2> QED
      BY <1>1, <1>3, <1>7, <2>1, ListKept
  <1> QED
    BY <1>6, <1>7 DEF ListsOf, Lists!Emptied, U, D

\* A node that is in no list is taken out of none.
LEMMA WithoutNone ==
  ASSUME NEW T \in Trees, LinksOK(T), NEW n \in Node, T.parent[n] = Null
  PROVE  Lists!Without(ListsOf(T), n) = ListsOf(T)
  <1>1. \A g \in Node : n \notin Lists!ToSet(ListsOf(T)[g])
    BY MembersOf, NullAssumption DEF ListsOf
  <1> QED
    BY <1>1 DEF Lists!Without, ListsOf

\* Node_Dtor takes the node out of its list; only the library changes otherwise.
LEMMA ListsDtor ==
  ASSUME NEW T \in Trees, LinksOK(T), NEW n \in Node
  PROVE  /\ ListsOf(Dtor(T, n)) = Lists!Without(ListsOf(T), n)
         /\ Dtor(T, n).group = T.group \ {n} /\ Dtor(T, n).live = T.live \ {n}
  <1> DEFINE R == Remove(T, n)
             U == Dtor(T, n)
  <1>1. R \in Trees /\ R.group = T.group /\ R.live = T.live
    BY RemoveOK
  <1> HIDE DEF R
  <1>2. U = [R EXCEPT !.live = R.live \ {n}, !.group = R.group \ {n}]
    BY DEF Dtor, R
  <1>3. U.head = R.head /\ U.next = R.next /\ U.group = T.group \ {n} /\ U.live = T.live \ {n}
    BY <1>1, <1>2 DEF Trees
  <1> HIDE DEF U
  <1>4. ListsOf(U) = ListsOf(R)
    BY <1>3, ListsSame
  <1> QED
    BY <1>3, <1>4, ListsRemove DEF R, U

\* Node_Delete: the node leaves its list, what is below it is gone.
LEMMA ListsDelete ==
  ASSUME NEW T \in Trees, LinksOK(T), NEW n \in T.live, n # Root
  PROVE  LET D == {n} \cup Below(T, n)
         IN  /\ ListsOf(Delete(T, n)) = Lists!Emptied(Lists!Without(ListsOf(T), n), D)
             /\ Delete(T, n).group = T.group \ D
  <1>0. n \in Node
    BY FieldTypes
  <1> DEFINE D == {n} \cup Below(T, n)
             k == ListsOf(T)
  <1>1. CASE n \in T.group
    <2> DEFINE V == DeleteAll(T, n)
    <2>1. V \in Trees /\ LinksOK(V) /\ V.group = T.group \ Below(T, n)
      BY <1>1, DeleteAllOK
    <2>2. ListsOf(V) = Lists!Emptied(k, D)
      BY <1>1, ListsDeleteAll
    <2>3. Delete(T, n) = Dtor(V, n)
      BY <1>1 DEF Delete
    <2> HIDE DEF V
    <2>4. /\ ListsOf(Delete(T, n)) = Lists!Without(Lists!Emptied(k, D), n)
          /\ Delete(T, n).group = V.group \ {n}
      BY <1>0, <2>1, <2>2, <2>3, ListsDtor
    <2>5. Lists!Without(Lists!Emptied(k, D), n) = Lists!Emptied(Lists!Without(k, n), D)
      <3>1. n \notin Lists!ToSet(<< >>)
        BY DEF Lists!ToSet
      <3> HIDE DEF k, D
      <3> QED
        BY <3>1 DEF Lists!Without, Lists!Emptied
    <2> QED
      BY <2>1, <2>4, <2>5
  <1>2. CASE n \notin T.group
    <2>1. \A m \in Node : T.parent[m] # n
      BY <1>0, <1>2, NullAssumption DEF LinksOK, LibraryAgrees
    <2>2. Below(T, n) = {}
      <3>1. ClosedBelow(T, n, {})
        BY <2>1, FieldTypes DEF ClosedBelow
      <3> QED
        BY <3>1 DEF Below
    <2>3. Delete(T, n) = Dtor(T, n)
      BY <1>2 DEF Delete
    <2>4. /\ ListsOf(Delete(T, n)) = Lists!Without(k, n)
          /\ Delete(T, n).group = T.group \ {n}
      BY <1>0, <2>3, ListsDtor
    <2>5. Lists!Without(k, n) = Lists!Emptied(Lists!Without(k, n), {n})
      <3>1. ListOf(T, n) = << >>
        <4>1. KidsOf(T) = k
          BY KidsAreLists
        <4> QED
          BY <1>0, <1>2, <4>1 DEF KidsOf, ListsOf
      <3>2. k[n] = << >> /\ n \notin Lists!ToSet(<< >>)
        BY <1>0, <3>1 DEF ListsOf, Lists!ToSet
      <3> HIDE DEF k
      <3> QED
        BY <1>0, <3>2 DEF Lists!Without, Lists!Emptied
    <2> QED
      BY <2>2, <2>4, <2>5
  <1> QED
    BY <1>1, <1>2

-----------------------------------------------------------------------------
(* The abstract state that the tree stands for. *)

LEMMA AbstractState ==
  ASSUME tree \in Trees, LinksOK(tree), Rooted(tree)
  PROVE  /\ kids = ListsOf(tree)
         /\ Lists!InTree = tree.live
         /\ \A g \in Node : Lists!Under(g) = Below(tree, g)
  <1>1. kids = ListsOf(tree)
    BY KidsAre, KidsAreLists
  <1>2. \A g \in Node : \A n : n \in Lists!ToSet(kids[g]) <=> n \in Node /\ tree.parent[n] = g
    BY <1>1, MembersOf DEF ListsOf
  <1>3. /\ Root \in tree.live /\ tree.live \subseteq Node /\ tree.group \subseteq Node
        /\ \A n \in Node : tree.parent[n] # Null => n \in tree.live /\ tree.parent[n] \in tree.group
    BY FieldTypes DEF LinksOK, LibraryAgrees
  <1>4. \A n \in tree.live \ {Root} : tree.parent[n] \in tree.group
    <2> TAKE n \in tree.live \ {Root}
    <2>1. \E m \in {n} : tree.parent[m] \in tree.live \ {n}
      <3>1. {n} \in SUBSET (tree.live \ {Root}) /\ {n} # {}
        OBVIOUS
      <3> QED
        BY <3>1 DEF Rooted
    <2> QED
      BY <1>3, <2>1, NullAssumption
  <1>5. Lists!InTree = tree.live
    <2>1. \A n : n \in UNION {Lists!ToSet(kids[g]) : g \in tree.group}
                   <=> n \in Node /\ tree.parent[n] \in tree.group
      BY <1>2, <1>3
    <2>2. \A n : n \in Lists!InTree <=> n = Root \/ (n \in Node /\ tree.parent[n] \in tree.group)
      BY <2>1 DEF Lists!InTree
    <2>3. \A n \in Node : tree.parent[n] \in tree.group => n \in tree.live
      BY <1>3, NullAssumption
    <2>4. \A n : n \in Lists!InTree <=> n \in tree.live
      BY <1>3, <1>4, <2>2, <2>3
    <2> QED
      BY <2>4
  <1>6. ASSUME NEW g \in Node PROVE Lists!Under(g) = Below(tree, g)
    <2>1. ASSUME NEW S \in SUBSET tree.live
          PROVE  (\A m \in S \cup {g} : Lists!ToSet(kids[m]) \subseteq S) <=> ClosedBelow(tree, g, S)
      <3>1. \A m \in S \cup {g} : m \in Node
        BY <1>3
      <3>2. \A m \in S \cup {g} : \A n : n \in Lists!ToSet(kids[m]) <=> n \in Node /\ tree.parent[n] = m
        BY <1>2, <3>1
      <3>3. \A m \in S \cup {g} : \A n \in Node : tree.parent[n] = m => n \in tree.live
        BY <1>3, <3>1, NullAssumption
      <3> QED
        BY <1>3, <3>2, <3>3 DEF ClosedBelow
    <2> QED
      BY <1>5, <2>1 DEF Lists!Under, Below
  <1> QED
    BY <1>1, <1>5, <1>6

-----------------------------------------------------------------------------
(* Each command is the abstract one of its name. *)

LEMMA CreateIsCreate ==
  ASSUME tree \in Trees, LinksOK(tree), Rooted(tree),
         NEW n \in Node \ tree.live, NEW isGroup \in BOOLEAN, NEW place \in Places,
         NEW t \in tree.live, place \in {"head", "tail"} => t \in tree.group,
         Sensible(tree, n, place, t),
         tree' = PlaceAt(NewNode(tree, n, isGroup), n, place, t)
  PROVE  Lists!Create(n, isGroup, place, t)
  <1> DEFINE W == NewNode(tree, n, isGroup)
             U == PlaceAt(W, n, place, t)
  <1>1. /\ W \in Trees /\ LinksOK(W) /\ W.parent[n] = Null /\ n \in W.live /\ n # Root
        /\ tree.group \subseteq W.group /\ tree.live \subseteq W.live
    BY NewNodeOK
  <1>2. /\ W.head = tree.head /\ W.next = tree.next /\ W.parent = tree.parent
        /\ W.group = IF isGroup THEN tree.group \cup {n} ELSE tree.group
    BY DEF NewNode, Trees
  <1>3. t \in Node /\ tree.group \subseteq Node
    BY FieldTypes
  <1>4. place \in {"before", "after"} => tree.parent[t] \in tree.group
    BY <1>3 DEF Sensible, LinksOK, LibraryAgrees
  <1> HIDE DEF W
  <1>5. U \in Trees /\ LinksOK(U) /\ U.group = W.group
    BY <1>1, PlaceAtOK
  <1>6. ListsOf(U) = Lists!Put(ListsOf(W), n, place, t)
    BY <1>1, <1>2, <1>3, <1>4, <1>5, ListsPlace
  <1>7. tree' = U
    BY DEF W
  <1> HIDE DEF U
  <1>8. kids' = ListsOf(U)
    BY <1>5, <1>7, KidsAre, KidsAreLists
  <1> QED
    BY <1>2, <1>5, <1>6, <1>7, <1>8, ListsSame, AbstractState DEF Lists!Create

LEMMA PlaceIsMove ==
  ASSUME tree \in Trees, LinksOK(tree), Rooted(tree),
         NEW n \in tree.live, NEW place \in Places,
         NEW t \in tree.live, place \in {"head", "tail"} => t \in tree.group,
         Sensible(tree, n, place, t),
         tree' = PlaceAt(Remove(tree, n), n, place, t)
  PROVE  Lists!Move(n, place, t)
  <1> DEFINE R == Remove(tree, n)
             U == PlaceAt(R, n, place, t)
  <1>1. n \in Node /\ t \in Node /\ tree.group \subseteq Node
    BY FieldTypes
  <1>2. n # Root /\ t # n /\ t \notin Below(tree, n)
    BY RootedBelow DEF Sensible
  <1>3. R \in Trees /\ LinksOK(R) /\ R.parent[n] = Null /\ R.live = tree.live /\ R.group = tree.group
    BY <1>1, RemoveOK
  <1>4. R.parent[t] = tree.parent[t]
    BY <1>1, <1>2, FieldTypes DEF Remove, Trees
  <1>5. place \in {"before", "after"} => tree.parent[t] \in tree.group
    BY <1>1 DEF Sensible, LinksOK, LibraryAgrees
  <1>6. ListsOf(R) = Lists!Without(ListsOf(tree), n)
    BY <1>1, ListsRemove
  <1> HIDE DEF R
  <1>7. U \in Trees /\ LinksOK(U) /\ U.group = R.group
    BY <1>3, PlaceAtOK
  <1>8. ListsOf(U) = Lists!Put(ListsOf(R), n, place, t)
    BY <1>1, <1>2, <1>3, <1>4, <1>5, <1>7, ListsPlace
  <1>9. tree' = U
    BY DEF R
  <1> HIDE DEF U
  <1>10. kids' = ListsOf(U)
    BY <1>7, <1>9, KidsAre, KidsAreLists
  <1> QED
    BY <1>1, <1>2, <1>3, <1>6, <1>7, <1>8, <1>9, <1>10, AbstractState DEF Lists!Move

LEMMA DeleteIsFree ==
  ASSUME tree \in Trees, LinksOK(tree), Rooted(tree),
         NEW n \in tree.live, n # Root, tree' = Delete(tree, n)
  PROVE  Lists!Free(n)
  <1>1. n \in Node
    BY FieldTypes
  <1>2. tree' \in Trees /\ LinksOK(tree')
    BY DeleteOK
  <1>3. kids' = ListsOf(tree')
    BY <1>2, KidsAre, KidsAreLists
  <1> QED
    BY <1>1, <1>3, ListsDelete, AbstractState DEF Lists!Free

LEMMA DeleteAllIsFreeAll ==
  ASSUME tree \in Trees, LinksOK(tree), Rooted(tree),
         NEW g \in tree.group, tree' = DeleteAll(tree, g)
  PROVE  Lists!FreeAll(g)
  <1>1. g \in Node
    BY FieldTypes
  <1>2. tree' \in Trees /\ LinksOK(tree') /\ tree'.group = tree.group \ Below(tree, g)
    BY DeleteAllOK
  <1>3. kids' = ListsOf(tree')
    BY <1>2, KidsAre, KidsAreLists
  <1> QED
    BY <1>1, <1>2, <1>3, ListsDeleteAll, AbstractState DEF Lists!FreeAll

\* g_deepFree unlinks the synth before Graph_Dtor does, to no effect.
LEMMA DeepFreeIsFree ==
  ASSUME tree \in Trees, LinksOK(tree), Rooted(tree),
         NEW n \in tree.live \ tree.group, tree' = Delete(Remove(tree, n), n)
  PROVE  Lists!Free(n)
  <1> DEFINE R == Remove(tree, n)
  <1>1. n \in Node /\ n # Root
    BY FieldTypes DEF LinksOK, LibraryAgrees
  <1>2. /\ R \in Trees /\ LinksOK(R) /\ R.parent[n] = Null /\ R.live = tree.live /\ R.group = tree.group
        /\ ListsOf(R) = Lists!Without(ListsOf(tree), n)
    BY <1>1, RemoveOK, ListsRemove
  <1>3. \A m \in Node : R.parent[m] # n /\ tree.parent[m] # n
    BY <1>1, <1>2, FieldTypes, NullAssumption DEF LinksOK, LibraryAgrees
  <1>4. Below(R, n) = {} /\ Below(tree, n) = {}
    <2>1. ClosedBelow(R, n, {}) /\ ClosedBelow(tree, n, {})
      BY <1>2, <1>3, FieldTypes DEF ClosedBelow
    <2> QED
      BY <2>1 DEF Below
  <1>5. Lists!Without(ListsOf(R), n) = ListsOf(R)
    BY <1>1, <1>2, WithoutNone
  <1> HIDE DEF R
  <1>6. tree' = Delete(R, n)
    BY DEF R
  <1>7. tree' \in Trees /\ LinksOK(tree')
    BY <1>2, <1>6, DeleteOK
  <1>8. kids' = ListsOf(tree')
    BY <1>7, KidsAre, KidsAreLists
  <1>9. /\ ListsOf(tree') = Lists!Emptied(Lists!Without(ListsOf(R), n), {n} \cup Below(R, n))
        /\ tree'.group = R.group \ ({n} \cup Below(R, n))
    BY <1>1, <1>2, <1>6, ListsDelete
  <1> QED
    BY <1>1, <1>2, <1>4, <1>5, <1>8, <1>9, AbstractState DEF Lists!Free

\* Node_Replace: the place of the freed node in its list.
LEMMA PutBack ==
  ASSUME NEW c \in Seq(Node), NEW i \in 1 .. Len(c), NEW n \in Node
  PROVE  /\ Lists!RemoveAt(c, i) \in Seq(Node) /\ Len(Lists!RemoveAt(c, i)) = Len(c) - 1
         /\ \A k \in 1 .. Len(c) - 1 : Lists!RemoveAt(c, i)[k] = IF k < i THEN c[k] ELSE c[k + 1]
         /\ Lists!InsertAt(Lists!RemoveAt(c, i), i, n) = Lists!ReplaceAt(c, i, n)
  <1> DEFINE L == Len(c)
             r == [k \in 1 .. L - 1 |-> IF k < i THEN c[k] ELSE c[k + 1]]
             e == [c EXCEPT ![i] = n]
  <1>1. L \in Nat /\ i \in 1 .. L /\ \A k \in 1 .. L : c[k] \in Node
    BY ElementOfSeq
  <1>2. Lists!RemoveAt(c, i) = r
    BY RemoveAtIs
  <1>3. r \in Seq(Node) /\ Len(r) = L - 1
    <2>1. r \in [1 .. L - 1 -> Node] /\ L - 1 \in Nat
      BY <1>1
    <2> QED
      BY <2>1, IsASeq
  <1>4. \A k \in 1 .. L - 1 : r[k] = IF k < i THEN c[k] ELSE c[k + 1]
    OBVIOUS
  <1>5. e \in Seq(Node) /\ Len(e) = L /\ \A k \in 1 .. L : e[k] = IF k = i THEN n ELSE c[k]
    BY ExceptSeq
  <1> HIDE DEF r, e
  <1> DEFINE d == [k \in 1 .. Len(r) + 1 |-> IF k < i THEN r[k] ELSE IF k = i THEN n ELSE r[k - 1]]
  <1>6. Lists!InsertAt(r, i, n) = d
    <2>1. i \in 1 .. Len(r) + 1
      BY <1>1, <1>3
    <2> QED
      BY <1>3, <2>1, InsertAtIs
  <1> HIDE DEF L
  <1>7. Len(r) + 1 = L
    BY <1>1, <1>3
  <1>8. \A k \in 1 .. L : d[k] = e[k]
    <2> TAKE k \in 1 .. L
    <2>1. d[k] = IF k < i THEN r[k] ELSE IF k = i THEN n ELSE r[k - 1]
      BY <1>7
    <2> HIDE DEF d
    <2>2. CASE k < i
      <3>1. k \in 1 .. L - 1
        BY <1>1, <2>2
      <3> QED
        BY <1>1, <1>4, <1>5, <2>1, <2>2, <3>1
    <2>3. CASE k = i
      BY <1>5, <2>1, <2>3, <1>1
    <2>4. CASE k > i
      <3>1. k - 1 \in 1 .. L - 1 /\ ~(k - 1 < i) /\ (k - 1) + 1 = k
        BY <1>1, <2>4
      <3> QED
        BY <1>1, <1>4, <1>5, <2>1, <2>4, <3>1
    <2> QED
      BY <1>1, <2>2, <2>3, <2>4
  <1>9. d \in Seq(Node) /\ Len(d) = L
    <2>1. d \in [1 .. L -> Node]
      <3>1. d = [k \in 1 .. L |-> d[k]]
        BY <1>7
      <3>2. \A k \in 1 .. L : d[k] \in Node
        <4>1. \A k \in 1 .. L : e[k] \in Node
          BY <1>1, <1>5
        <4> HIDE DEF d
        <4> QED
          BY <1>8, <4>1
      <3> HIDE DEF d
      <3> QED
        BY <3>1, <3>2
    <2> HIDE DEF d
    <2> QED
      BY <1>1, <2>1, IsASeq
  <1>10. d = e
    <2> HIDE DEF d
    <2> QED
      BY <1>5, <1>8, <1>9, SeqEqual
  <1> HIDE DEF d
  <1> QED
    BY <1>2, <1>3, <1>4, <1>6, <1>10 DEF L, e, Lists!ReplaceAt

LEMMA ReplaceIsSubstitute ==
  ASSUME tree \in Trees, LinksOK(tree), Rooted(tree),
         NEW n \in Node \ tree.live, NEW isGroup \in BOOLEAN,
         NEW r \in tree.live, tree.parent[r] # Null, Grounded(tree, r),
         tree' = Replace(NewNode(tree, n, isGroup), n, r)
  PROVE  Lists!Substitute(n, isGroup, r)
  <1> DEFINE W == NewNode(tree, n, isGroup)
             g == tree.parent[r]
             R == Remove(W, r)
             V == Link(R, n, g, tree.prev[r], tree.next[r])
             B == Below(tree, r)
             k == ListsOf(tree)
             c == k[g]
             i == Lists!Position(c, r)
  <1>0. r \in Node /\ n # r /\ tree.live \subseteq Node /\ n \notin tree.live
        /\ B \subseteq tree.live /\ r \notin B
    BY FieldTypes DEF Grounded, Below
  <1>1. /\ W \in Trees /\ LinksOK(W) /\ W.parent[n] = Null /\ n \in W.live /\ n # Root
    BY NewNodeOK
  <1>2. /\ W.live = tree.live \cup {n} /\ W.parent = tree.parent /\ W.next = tree.next
        /\ W.prev = tree.prev /\ W.head = tree.head
        /\ W.group = IF isGroup THEN tree.group \cup {n} ELSE tree.group
    BY DEF NewNode, Trees
  <1>3. /\ r # Root /\ g \in Node /\ g \in tree.group /\ g # Null
        /\ tree.parent \in [Node -> Node \cup {Null}]
    BY <1>0, NullAssumption, FieldTypes DEF LinksOK, LibraryAgrees
  <1>4. g # r /\ g \notin B
    <2>1. r \in Below(tree, r) \/ g \notin Below(tree, r) \cup {r}
      BY BelowClosed
    <2> QED
      BY <1>0, <2>1
  <1> HIDE DEF W
  <1>5. R \in Trees /\ LinksOK(R) /\ R.live = W.live /\ R.group = W.group /\ R.parent[n] = Null
    <2>1. R.parent = [W.parent EXCEPT ![r] = Null]
      BY <1>1 DEF Remove, Trees
    <2> QED
      BY <1>0, <1>1, <1>2, <1>3, <2>1, RemoveOK
  <1>6. V \in Trees /\ LinksOK(V) /\ V.live = W.live /\ V.group = W.group
    <2>1. V \in Trees /\ LinksOK(V) /\ V.live = W.live
      BY <1>0, <1>1, <1>2, <1>3, ReplaceLinks
    <2>2. V.group = R.group
      BY <1>5 DEF Link, Trees
    <2> QED
      BY <1>5, <2>1, <2>2
  <1>7. V.parent[r] = Null /\ V.parent[n] = g /\ \A m \in tree.live \ {r} : V.parent[m] = tree.parent[m]
    <2>1. V.parent = [[W.parent EXCEPT ![r] = Null] EXCEPT ![n] = g]
      <3>1. R.parent = [W.parent EXCEPT ![r] = Null]
        BY <1>1 DEF Remove, Trees
      <3>2. V.parent = [R.parent EXCEPT ![n] = g]
        BY <1>5 DEF Link, Trees
      <3> QED
        BY <3>1, <3>2
    <2> QED
      BY <1>0, <1>2, <1>3, <2>1
  <1>8. ListsOf(R) = Lists!Without(k, r)
    BY <1>0, <1>1, <1>2, ListsRemove, ListsSame
  <1>9. c = ListOf(tree, g) /\ c \in Seq(Node) /\ Len(c) \in Nat /\ i \in 1 .. Len(c) /\ c[i] = r
    <2>1. c = ListOf(tree, g)
      BY <1>3 DEF ListsOf
    <2>2. i \in 1 .. Len(c) /\ c[i] = r
      <3> HIDE DEF k, g
      <3> QED
        BY <1>0, <1>3, <2>1, PositionIs DEF g
    <2> QED
      BY <1>3, <2>1, <2>2, ListNeighbours
  <1>10. /\ tree.next[r] = IF i = Len(c) THEN Null ELSE c[i + 1]
         /\ tree.prev[r] = IF i = 1 THEN Null ELSE c[i - 1]
    <2>1. \A j \in 1 .. Len(ListOf(tree, g)) :
            /\ tree.next[ListOf(tree, g)[j]] = IF j = Len(ListOf(tree, g)) THEN Null ELSE ListOf(tree, g)[j + 1]
            /\ tree.prev[ListOf(tree, g)[j]] = IF j = 1 THEN Null ELSE ListOf(tree, g)[j - 1]
      BY <1>3, ListNeighbours
    <2> HIDE DEF k, g, i
    <2> QED
      BY <1>9, <2>1
  <1>a. \A h \in Node : r \in Lists!ToSet(k[h]) <=> h = g
    BY <1>0, MembersOf DEF ListsOf
  <1>b. \A h \in Node : k[h] \in Seq(Node)
    BY ListNeighbours DEF ListsOf
  <1> HIDE DEF V, k, i, g, B
  <1>11. ListOf(R, g) = Lists!RemoveAt(c, i)
    <2>1. ListsOf(R)[g] = Lists!RemoveAt(k[g], Lists!Position(k[g], r))
      BY <1>3, <1>8, <1>a DEF Lists!Without
    <2> QED
      BY <1>3, <2>1 DEF ListsOf, i
  <1>12. ListsOf(V) = [ListsOf(R) EXCEPT ![g] = Lists!InsertAt(@, i, n)]
    <2> DEFINE d == ListOf(R, g)
               p == tree.prev[r]
               q == tree.next[r]
    <2>1. /\ Len(d) = Len(c) - 1
          /\ \A j \in 1 .. Len(c) - 1 : d[j] = IF j < i THEN c[j] ELSE c[j + 1]
      <3>1. /\ Len(Lists!RemoveAt(c, i)) = Len(c) - 1
            /\ \A j \in 1 .. Len(c) - 1 :
                 Lists!RemoveAt(c, i)[j] = IF j < i THEN c[j] ELSE c[j + 1]
        <4> HIDE DEF c
        <4> QED
          BY <1>9, PutBack
      <3> HIDE DEF c
      <3> QED
        BY <1>11, <3>1
    <2> HIDE DEF d
    <2>2. i \in 1 .. Len(d) + 1 /\ (i = Len(d) + 1 <=> i = Len(c))
      BY <1>9, <2>1
    <2>3. p = IF i = 1 THEN Null ELSE d[i - 1]
      <3>1. CASE i # 1
        <4>1. i - 1 \in 1 .. Len(c) - 1 /\ i - 1 < i
          BY <1>9, <3>1
        <4> QED
          BY <1>10, <2>1, <3>1, <4>1
      <3> QED
        BY <1>10, <3>1
    <2>4. q = IF i = Len(d) + 1 THEN Null ELSE d[i]
      <3>1. CASE i # Len(c)
        <4>1. i \in 1 .. Len(c) - 1 /\ ~(i < i)
          BY <1>9, <3>1
        <4> QED
          BY <1>10, <2>1, <2>2, <3>1, <4>1
      <3> QED
        BY <1>10, <2>2, <3>1
    <2>5. Link(R, n, g, p, q) \in Trees /\ LinksOK(Link(R, n, g, p, q))
      BY <1>6 DEF V
    <2> HIDE DEF p, q, R
    <2>6. ListsOf(Link(R, n, g, p, q)) = [ListsOf(R) EXCEPT ![g] = Lists!InsertAt(@, i, n)]
      BY <1>3, <1>5, <2>2, <2>3, <2>4, <2>5, ListsLink DEF d
    <2> QED
      BY <2>6 DEF V, p, q, R
  <1> DEFINE placed == [h \in Node |-> IF r \in Lists!ToSet(k[h])
                                       THEN Lists!ReplaceAt(k[h], Lists!Position(k[h], r), n) ELSE k[h]]
  <1>13. ListsOf(V) = placed
    <2>1. ListsOf(R)[g] = Lists!RemoveAt(c, i)
      BY <1>3, <1>11 DEF ListsOf
    <2>2. Lists!InsertAt(Lists!RemoveAt(c, i), i, n) = Lists!ReplaceAt(c, i, n)
      BY <1>9, PutBack
    <2>3. ListsOf(V) = [h \in Node |-> IF h = g THEN Lists!ReplaceAt(c, i, n) ELSE k[h]]
      <3>1. ListsOf(R) = [h \in Node |-> ListsOf(R)[h]] /\ \A h \in Node \ {g} : ListsOf(R)[h] = k[h]
        BY <1>8, <1>a DEF Lists!Without
      <3> QED
        BY <1>12, <2>1, <2>2, <3>1
    <2> QED
      BY <1>a, <2>3 DEF i
  <1> HIDE DEF placed
  <1>14. Lists!Without(ListsOf(V), r) = ListsOf(V)
    BY <1>0, <1>6, <1>7, WithoutNone
  <1>15. Below(V, r) = B
    <2>1. ClosedBelow(V, r, B)
      <3> SUFFICES ASSUME NEW m \in V.live, V.parent[m] \in B \cup {r}
                   PROVE  m \in B
        BY DEF ClosedBelow
      <3>1. m # n
        BY <1>4, <1>7
      <3>2. m # r
        BY <1>0, <1>7, NullAssumption
      <3>3. m \in tree.live /\ tree.parent[m] \in B \cup {r}
        BY <1>2, <1>6, <1>7, <3>1, <3>2
      <3> QED
        BY <3>3, BelowClosed DEF B
    <2>2. Below(V, r) \subseteq B
      BY <1>0, <1>2, <1>6, <2>1 DEF Below
    <2>3. ClosedBelow(tree, r, Below(V, r))
      <3> SUFFICES ASSUME NEW m \in tree.live, tree.parent[m] \in Below(V, r) \cup {r}
                   PROVE  m \in Below(V, r)
        BY DEF ClosedBelow
      <3>1. m # r
        BY <1>0, <1>4, <2>2 DEF g
      <3>2. m \in V.live /\ V.parent[m] \in Below(V, r) \cup {r}
        BY <1>2, <1>6, <1>7, <3>1
      <3> QED
        BY <3>2, BelowClosed
    <2>4. B \subseteq Below(V, r)
      <3>1. Below(V, r) \in SUBSET tree.live
        BY <1>0, <2>2
      <3> QED
        BY <2>3, <3>1 DEF B, Below
    <2> QED
      BY <2>2, <2>4
  <1>16. tree' = Delete(V, r)
    <2>1. Replace(W, n, r) = Delete(V, r)
      BY <1>1, <1>2, <1>3 DEF Replace, V, g
    <2> QED
      BY <2>1 DEF W
  <1>17. r \in V.live
    BY <1>2, <1>6
  <1>18. tree' \in Trees /\ LinksOK(tree')
    BY <1>6, <1>16, <1>17, DeleteOK
  <1>19. kids' = ListsOf(tree')
    BY <1>18, KidsAre, KidsAreLists
  <1>20. /\ ListsOf(tree') = Lists!Emptied(placed, {r} \cup B)
         /\ tree'.group = W.group \ ({r} \cup B)
    BY <1>3, <1>6, <1>13, <1>14, <1>15, <1>16, <1>17, ListsDelete
  <1>21. tree'.group = IF isGroup THEN (tree.group \ ({r} \cup B)) \cup {n} ELSE tree.group \ ({r} \cup B)
    BY <1>0, <1>2, <1>20
  <1>22. kids = k /\ Lists!InTree = tree.live /\ Lists!Under(r) = B
    BY <1>0, AbstractState DEF k, B
  <1> QED
    BY <1>0, <1>3, <1>19, <1>20, <1>21, <1>22 DEF Lists!Substitute, placed

\* A pair of n_before or n_after that is moved.
LEMMA PairIsMove ==
  ASSUME IInv, RootInv, message.name \in {"n_before", "n_after"}, tree' = MovePending
  PROVE  Lists!Move(message.node, Side, message.target)
  <1>1. /\ tree \in Trees /\ LinksOK(tree) /\ Rooted(tree)
        /\ message.node \in tree.live /\ message.target \in tree.live
        /\ Sensible(tree, message.node, "before", message.target)
    BY DEF IInv, TypeOK, ListsWhole, HeldLive, RootInv, PendingSensible
  <1>2. /\ Side \in {"before", "after"} /\ Side \in Places
        /\ Sensible(tree, message.node, Side, message.target)
        /\ tree' = PlaceAt(Remove(tree, message.node), message.node, Side, message.target)
    BY <1>1 DEF Side, Places, Sensible, MovePending, MoveBefore, MoveAfter, PlaceAt
  <1> QED
    BY <1>1, <1>2, PlaceIsMove

\* What each command of SC_MiscCmds.cpp does to the lists.
LEMMA StepsAsAsked ==
  ASSUME Careful, IInv, RootInv
  PROVE  /\ \A n, t \in Node, place \in Places, isGroup \in BOOLEAN :
              New(n, isGroup, place, t) => Lists!Create(n, isGroup, place, t)
         /\ \A n, t \in Node, place \in Places :
              OrderFirst(place, t, n) => Lists!Move(n, place, t)
         /\ \A n, t \in Node :
              /\ \A isGroup \in BOOLEAN : NewReplace(n, isGroup, t) => Lists!Substitute(n, isGroup, t)
              /\ GHead(t, n) => Lists!Move(n, "head", t)
              /\ GTail(t, n) => Lists!Move(n, "tail", t)
              /\ PairsNext(n, t) /\ message.node # n => Lists!Move(message.node, Side, message.target)
         /\ PairsEnd => Lists!Move(message.node, Side, message.target)
         /\ \A n \in Node :
              /\ NFree(n) => n = Root \/ Lists!Free(n)
              /\ GFreeAll(n) => Lists!FreeAll(n)
              /\ OrderNext(n) => Lists!Move(n, "after", message.node)
              /\ DeepFreeNext(n) => Lists!Free(n) /\ n \notin tree.group
  <1>1. /\ tree \in Trees /\ LinksOK(tree) /\ Rooted(tree)
        /\ tree.live \subseteq Node /\ tree.group \subseteq tree.live
    BY FieldTypes DEF IInv, TypeOK, ListsWhole, LinksOK, LibraryAgrees, RootInv
  <1>2. ASSUME NEW n \in Node, NEW t \in Node, NEW place \in Places, NEW isGroup \in BOOLEAN,
               New(n, isGroup, place, t)
        PROVE  Lists!Create(n, isGroup, place, t)
    <2>1. /\ n \in Node \ tree.live /\ t \in tree.live
          /\ place \in {"head", "tail"} => t \in tree.group
          /\ Sensible(tree, n, place, t)
      BY <1>1, <1>2 DEF New, Target
    <2>2. tree' = PlaceAt(NewNode(tree, n, isGroup), n, place, t)
      BY <1>2 DEF New
    <2> QED
      BY <1>1, <2>1, <2>2, CreateIsCreate
  <1>3. ASSUME NEW n \in Node, NEW t \in Node, NEW place \in Places, OrderFirst(place, t, n)
        PROVE  Lists!Move(n, place, t)
    <2>1. /\ n \in tree.live /\ t \in tree.live /\ (place \in {"head", "tail"} => t \in tree.group)
          /\ Sensible(tree, n, place, t) /\ tree' = PlaceAt(Remove(tree, n), n, place, t)
      BY <1>1, <1>3 DEF OrderFirst, Target
    <2> QED
      BY <1>1, <2>1, PlaceIsMove
  <1>4. ASSUME NEW n \in Node, NEW r \in Node, NEW isGroup \in BOOLEAN, NewReplace(n, isGroup, r)
        PROVE  Lists!Substitute(n, isGroup, r)
    <2>1. /\ n \in Node \ tree.live /\ r \in tree.live /\ tree.parent[r] # Null /\ Grounded(tree, r)
          /\ tree' = Replace(NewNode(tree, n, isGroup), n, r)
      BY <1>4 DEF NewReplace
    <2> QED
      BY <1>1, <2>1, ReplaceIsSubstitute
  <1>5. ASSUME NEW n \in Node, NEW g \in Node, NEW place \in {"head", "tail"},
               place = "head" => GHead(g, n), place = "tail" => GTail(g, n)
        PROVE  Lists!Move(n, place, g)
    <2>1. /\ n \in tree.live /\ g \in tree.live /\ g \in tree.group /\ place \in Places
          /\ Sensible(tree, n, place, g) /\ tree' = PlaceAt(Remove(tree, n), n, place, g)
      BY <1>1, <1>5 DEF GHead, GTail, PlaceAt, Places
    <2> QED
      BY <1>1, <2>1, PlaceIsMove
  <1>6. ASSUME NEW n \in Node, NEW t \in Node, PairsNext(n, t), message.node # n
        PROVE  Lists!Move(message.node, Side, message.target)
    BY <1>6, PairIsMove DEF PairsNext
  <1>7. ASSUME PairsEnd PROVE Lists!Move(message.node, Side, message.target)
    <2>1. message.name \in {"n_before", "n_after"} /\ message.node # message.target
      BY <1>7 DEF PairsEnd, RootInv, PendingSensible, Sensible
    <2> QED
      BY <1>7, <2>1, PairIsMove DEF PairsEnd
  <1>8. ASSUME NEW n \in Node, NFree(n), n # Root PROVE Lists!Free(n)
    BY <1>1, <1>8, DeleteIsFree DEF NFree
  <1>9. ASSUME NEW g \in Node, GFreeAll(g) PROVE Lists!FreeAll(g)
    BY <1>1, <1>9, DeleteAllIsFreeAll DEF GFreeAll
  <1>10. ASSUME NEW n \in Node, OrderNext(n) PROVE Lists!Move(n, "after", message.node)
    <2>1. /\ n \in tree.live /\ message.node \in tree.live
          /\ Sensible(tree, n, "after", message.node)
          /\ tree' = PlaceAt(Remove(tree, n), n, "after", message.node)
      BY <1>10 DEF OrderNext, IInv, HeldLive, MoveAfter, PlaceAt
    <2> QED
      BY <1>1, <2>1, PlaceIsMove DEF Places
  <1>11. ASSUME NEW n \in Node, DeepFreeNext(n) PROVE Lists!Free(n) /\ n \notin tree.group
    <2>1. n \in tree.live \ tree.group /\ tree' = Delete(Remove(tree, n), n)
      BY <1>11 DEF DeepFreeNext, SynthsBelow, Below
    <2> QED
      BY <1>1, <2>1, DeepFreeIsFree
  <1>12. \A n, g \in Node : /\ GHead(g, n) => Lists!Move(n, "head", g)
                            /\ GTail(g, n) => Lists!Move(n, "tail", g)
    BY <1>5
  <1> QED
    BY <1>2, <1>3, <1>4, <1>6, <1>7, <1>8, <1>9, <1>10, <1>11, <1>12

\* A step of the commands is a step of the lists or leaves them alone.
LEMMA NextIsListsNext ==
  Careful /\ IInv /\ RootInv /\ [Next]_vars => [Lists!Next]_(Lists!vars)
  <1> SUFFICES ASSUME Careful, IInv, RootInv, [Next]_vars PROVE [Lists!Next]_(Lists!vars)
    OBVIOUS
  <1>1. /\ tree \in Trees /\ LinksOK(tree) /\ Rooted(tree)
        /\ tree.live \subseteq Node /\ tree.group \subseteq tree.live
        /\ Lists!InTree = tree.live
    BY AbstractState, FieldTypes DEF IInv, TypeOK, ListsWhole, LinksOK, LibraryAgrees, RootInv
  <1>s. ASSUME tree' = tree PROVE UNCHANGED Lists!vars
    BY <1>s, KidsAre DEF Lists!vars
  <1>t. ASSUME NEW t \in tree.live, NEW n, NEW place \in Places, Sensible(tree, n, place, t),
               place \in {"head", "tail"} => t \in tree.group
        PROVE  /\ t \in Node /\ place \in Lists!Places
               /\ IF place \in {"head", "tail"} THEN t \in tree.group ELSE t \in Lists!InTree \ {Root}
    <2>1. place \notin {"head", "tail"} => t # Root
      BY <1>1, <1>t DEF Sensible, Places, LinksOK, LibraryAgrees
    <2> QED
      BY <1>1, <1>t, <2>1 DEF Places, Lists!Places
  <1>m. ASSUME NEW n \in Node, NEW t \in tree.live, NEW place \in Places, Sensible(tree, n, place, t),
               place \in {"head", "tail"} => t \in tree.group,
               Lists!Move(n, place, t) \/ \E isGroup \in BOOLEAN : Lists!Create(n, isGroup, place, t)
        PROVE  Lists!Next
    <2>1. /\ t \in Node /\ place \in Lists!Places
          /\ IF place \in {"head", "tail"} THEN t \in tree.group ELSE t \in Lists!InTree \ {Root}
      BY <1>m, <1>t
    <2>2. \E isGroup \in BOOLEAN : Lists!Create(n, isGroup, place, t) \/ Lists!Move(n, place, t)
      BY <1>m
    <2> QED
      BY <2>1, <2>2 DEF Lists!Next
  <1>p. ASSUME message.name \in {"n_before", "n_after"}, tree' = MovePending PROVE Lists!Next
    <2>1. /\ message.node \in tree.live /\ message.target \in tree.live
          /\ Sensible(tree, message.node, "before", message.target)
      BY <1>p DEF IInv, HeldLive, RootInv, PendingSensible
    <2>2. /\ Side \in Places /\ Side \notin {"head", "tail"}
          /\ Sensible(tree, message.node, Side, message.target)
      BY <2>1 DEF Side, Places, Sensible
    <2>3. Lists!Move(message.node, Side, message.target)
      BY <1>p, PairIsMove
    <2> QED
      BY <1>1, <1>m, <2>1, <2>2, <2>3
  <1>2. ASSUME NEW n \in Node, NEW isGroup \in BOOLEAN, NEW place \in Places, NEW t \in Node,
               New(n, isGroup, place, t)
        PROVE  Lists!Next
    <2>1. /\ t \in tree.live /\ (place \in {"head", "tail"} => t \in tree.group)
          /\ Sensible(tree, n, place, t)
      BY <1>1, <1>2 DEF New, Target
    <2> QED
      BY <1>2, <1>m, <2>1, StepsAsAsked
  <1>3. ASSUME NEW n \in Node, NEW isGroup \in BOOLEAN, NEW r \in Node, NewReplace(n, isGroup, r)
        PROVE  Lists!Next
    BY <1>3, StepsAsAsked DEF Lists!Next
  <1>4. ASSUME NEW n \in Node, NFree(n) PROVE Lists!Next \/ UNCHANGED Lists!vars
    <2>1. CASE n = Root
      BY <1>4, <1>s, <2>1 DEF NFree, Delete
    <2>2. CASE n # Root
      BY <1>4, <2>2, StepsAsAsked DEF Lists!Next
    <2> QED
      BY <2>1, <2>2
  <1>5. ASSUME NEW g \in Node, GFreeAll(g) PROVE Lists!Next
    BY <1>5, StepsAsAsked DEF Lists!Next
  <1>6. ASSUME NEW g \in Node, NEW n \in Node, GHead(g, n) \/ GTail(g, n) PROVE Lists!Next
    <2>1. /\ g \in tree.live /\ g \in tree.group
          /\ (Sensible(tree, n, "head", g) /\ Lists!Move(n, "head", g))
             \/ (Sensible(tree, n, "tail", g) /\ Lists!Move(n, "tail", g))
      BY <1>1, <1>6, StepsAsAsked DEF GHead, GTail
    <2> QED
      BY <1>m, <2>1 DEF Places
  <1>7. ASSUME NEW n \in Node, NEW t \in Node, PairsNext(n, t)
        PROVE  Lists!Next \/ UNCHANGED Lists!vars
    <2>1. CASE message.node = n
      BY <1>7, <1>s, <2>1 DEF PairsNext
    <2>2. CASE message.node # n
      BY <1>7, <1>p, <2>2 DEF PairsNext
    <2> QED
      BY <2>1, <2>2
  <1>8. ASSUME PairsEnd PROVE Lists!Next
    <2>1. message.name \in {"n_before", "n_after"} /\ message.node # message.target
      BY <1>8 DEF PairsEnd, RootInv, PendingSensible, Sensible
    <2> QED
      BY <1>8, <1>p, <2>1 DEF PairsEnd
  <1>9. ASSUME NEW place \in Places, NEW t \in Node, NEW n \in Node, OrderFirst(place, t, n)
        PROVE  Lists!Next
    <2>1. /\ t \in tree.live /\ (place \in {"head", "tail"} => t \in tree.group)
          /\ Sensible(tree, n, place, t)
      BY <1>1, <1>9 DEF OrderFirst, Target
    <2> QED
      BY <1>9, <1>m, <2>1, StepsAsAsked
  <1>10. ASSUME NEW n \in Node, OrderNext(n) PROVE Lists!Next
    <2>1. message.node \in tree.live /\ Sensible(tree, n, "after", message.node)
      BY <1>10 DEF OrderNext, IInv, HeldLive
    <2>2. Lists!Move(n, "after", message.node)
      BY <1>10, StepsAsAsked
    <2> QED
      BY <1>m, <2>1, <2>2 DEF Places
  <1>11. ASSUME NEW n \in Node, DeepFreeNext(n) PROVE Lists!Next
    BY <1>11, StepsAsAsked DEF Lists!Next
  <1>12. ASSUME NEW name, NEW n, NEW t, PairsBegin(name, n, t) PROVE UNCHANGED Lists!vars
    BY <1>12, <1>s DEF PairsBegin
  <1>13. ASSUME OrderEnd \/ DeepFreeEnd \/ \E g \in Node : DeepFreeBegin(g)
         PROVE  UNCHANGED Lists!vars
    BY <1>13, <1>s DEF OrderEnd, DeepFreeEnd, DeepFreeBegin
  <1>14. CASE UNCHANGED vars
    BY <1>14, <1>s DEF vars
  <1>15. CASE CreateOrFree
    BY <1>2, <1>3, <1>4, <1>5, <1>15 DEF CreateOrFree, SNew, GNew
  <1>16. CASE Move
    BY <1>6, <1>7, <1>8, <1>9, <1>10, <1>12, <1>13, <1>16 DEF Move
  <1>17. CASE DeepFree
    BY <1>11, <1>13, <1>17 DEF DeepFree
  <1> QED
    BY <1>14, <1>15, <1>16, <1>17 DEF Next

LEMMA InitIsListsInit == Init => Lists!Init
  <1> SUFFICES ASSUME Init PROVE Lists!Init
    OBVIOUS
  <1>1. tree = EmptyTree /\ tree \in Trees /\ LinksOK(tree)
    BY EmptyTreeOK DEF Init
  <1>2. kids = ListsOf(tree)
    BY <1>1, KidsAre, KidsAreLists
  <1>3. \A g \in Node : tree.head[g] = Null
    BY <1>1 DEF EmptyTree
  <1>4. \A g \in Node : ListOf(tree, g) = << >>
    <2> TAKE g \in Node
    <2>1. Follows(tree, g, << >>)
      BY <1>3 DEF Follows
    <2> QED
      BY <1>1, <2>1, ListUnique
  <1>5. tree.group = {Root}
    BY <1>1 DEF EmptyTree
  <1> QED
    BY <1>2, <1>4, <1>5 DEF Lists!Init, ListsOf

LEMMA CarefulInvariance == ASSUME Careful PROVE Spec => [](IInv /\ RootInv)
  <1>1. Init => IInv /\ RootInv
    BY InitRootInv, InitIInv
  <1>2. (IInv /\ RootInv) /\ [Next]_vars => (IInv /\ RootInv)'
    <2>1. IInv /\ [Next]_vars => IInv'
      BY NextIInv
    <2>2. IInv /\ RootInv /\ [Next]_vars => RootInv'
      BY NextRootInv
    <2> QED
      BY <2>1, <2>2
  <1> QED
    BY <1>1, <1>2, PTL DEF Spec

\* The linked nodes implement the ordered lists: with sensible placements, all
\* that the pointer operations of SC_Node.cpp and SC_Group.cpp do to the tree is
\* to create, move, replace and free nodes in lists.
THEOREM ListsImplemented == ASSUME Careful PROVE Spec => ImplementsLists
  <1>1. Init => Lists!Init
    BY InitIsListsInit
  <1>2. (IInv /\ RootInv) /\ [Next]_vars => [Lists!Next]_(Lists!vars)
    BY NextIsListsNext
  <1>3. Spec => [](IInv /\ RootInv)
    BY CarefulInvariance
  <1> QED
    BY <1>1, <1>2, <1>3, PTL DEF Spec, Lists!Spec, ImplementsLists

\* ... and each command does to the lists what its name says: a node placed
\* before, after, at the head or at the tail of its target ends up exactly there
\* and the others keep their order; what is freed is a node with all below it.
THEOREM CommandsDoAsAsked == ASSUME Careful PROVE Spec => CommandsAsAsked
  <1> DEFINE Asked ==
        /\ \A n, t \in Node, place \in Places :
             /\ SNew(n, place, t) => Lists!Create(n, FALSE, place, t)
             /\ GNew(n, place, t) => Lists!Create(n, TRUE, place, t)
             /\ OrderFirst(place, t, n) => Lists!Move(n, place, t)
        /\ \A n, t \in Node :
             /\ \A isGroup \in BOOLEAN : NewReplace(n, isGroup, t) => Lists!Substitute(n, isGroup, t)
             /\ GHead(t, n) => Lists!Move(n, "head", t)
             /\ GTail(t, n) => Lists!Move(n, "tail", t)
             /\ PairsNext(n, t) /\ message.node # n => Lists!Move(message.node, Side, message.target)
        /\ PairsEnd => Lists!Move(message.node, Side, message.target)
        /\ \A n \in Node :
             /\ NFree(n) => n = Root \/ Lists!Free(n)
             /\ GFreeAll(n) => Lists!FreeAll(n)
             /\ OrderNext(n) => Lists!Move(n, "after", message.node)
             /\ DeepFreeNext(n) => Lists!Free(n) /\ n \notin tree.group
  <1>1. ASSUME IInv, RootInv PROVE Asked
    <2>1. /\ \A n, t \in Node, place \in Places, isGroup \in BOOLEAN :
               New(n, isGroup, place, t) => Lists!Create(n, isGroup, place, t)
          /\ \A n, t \in Node, place \in Places :
               OrderFirst(place, t, n) => Lists!Move(n, place, t)
      BY <1>1, StepsAsAsked
    <2>2. \A n, t \in Node, place \in Places :
             /\ SNew(n, place, t) => Lists!Create(n, FALSE, place, t)
             /\ GNew(n, place, t) => Lists!Create(n, TRUE, place, t)
             /\ OrderFirst(place, t, n) => Lists!Move(n, place, t)
      BY <2>1 DEF SNew, GNew
    <2> QED
      BY <1>1, <2>2, StepsAsAsked
  <1>2. Spec => [](IInv /\ RootInv)
    BY CarefulInvariance
  <1>3. Spec => [][Asked]_vars
    <2>1. (IInv /\ RootInv) => Asked
      BY <1>1
    <2> HIDE DEF Asked
    <2>2. (IInv /\ RootInv) => [Asked]_vars
      BY <2>1
    <2> QED
      BY <1>2, <2>2, PTL
  <1> QED
    BY <1>3 DEF CommandsAsAsked
=============================================================================

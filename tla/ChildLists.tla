----------------------------- MODULE ChildLists -----------------------------
(***************************************************************************)
(* The node tree as the client sees it: every group has an ordered list of *)
(* nodes, and the commands place, move and free nodes in these lists.      *)
(* NodeTree implements it with linked nodes.                               *)
(***************************************************************************)
EXTENDS Naturals, SequencesExt

CONSTANTS Node, Root

VARIABLES kids,    \* the nodes of each group, in order of execution
          group    \* the groups

vars == <<kids, group>>

InTree == {Root} \cup UNION {ToSet(kids[g]) : g \in group}

Init == kids = [n \in Node |-> << >>] /\ group = {Root}

\* The place of node n in the list s; a node is in one list, once.
Position(s, n) == CHOOSE j \in DOMAIN s : s[j] = n

\* The lists k with node n taken out.
Without(k, n) ==
  [g \in Node |-> IF n \in ToSet(k[g]) THEN RemoveAt(k[g], Position(k[g], n)) ELSE k[g]]

\* The lists k with node n put at a place relative to t: first or last in group
\* t, or immediately before or after node t.
Put(k, n, place, t) ==
  IF place = "head" THEN [k EXCEPT ![t] = <<n>> \o @]
  ELSE IF place = "tail" THEN [k EXCEPT ![t] = Append(@, n)]
  ELSE LET g == CHOOSE h \in group : t \in ToSet(k[h])
           i == Position(k[g], t)
       IN  [k EXCEPT ![g] = InsertAt(@, IF place = "before" THEN i ELSE i + 1, n)]

\* The lists k with those of the nodes in S emptied.
Emptied(k, S) == [g \in Node |-> IF g \in S THEN << >> ELSE k[g]]

\* The nodes below g: the least set that holds the nodes of g and, with a node,
\* the nodes of that.
Under(g) ==
  {n \in InTree : \A S \in SUBSET InTree :
     (\A m \in S \cup {g} : ToSet(kids[m]) \subseteq S) => n \in S}

Create(n, isGroup, place, t) ==
  /\ n \notin InTree
  /\ kids' = Put(kids, n, place, t)
  /\ group' = IF isGroup THEN group \cup {n} ELSE group

\* The new node takes the place of r, which is freed with all that is below it.
Substitute(n, isGroup, r) ==
  LET S == {r} \cup Under(r)
      placed == [g \in Node |-> IF r \in ToSet(kids[g])
                                THEN ReplaceAt(kids[g], Position(kids[g], r), n) ELSE kids[g]]
  IN /\ n \notin InTree /\ r \in InTree \ {Root}
     /\ kids' = Emptied(placed, S)
     /\ group' = IF isGroup THEN (group \ S) \cup {n} ELSE group \ S

\* The node leaves its list; what is below it is gone.
Free(n) ==
  LET S == {n} \cup Under(n)
  IN  /\ n \in InTree \ {Root}
      /\ kids' = Emptied(Without(kids, n), S)
      /\ group' = group \ S

FreeAll(g) ==
  /\ g \in group
  /\ kids' = Emptied(kids, {g} \cup Under(g))
  /\ group' = group \ Under(g)

Move(n, place, t) ==
  /\ n \in InTree \ {Root}
  /\ t # n /\ t \notin Under(n)
  /\ kids' = Put(Without(kids, n), n, place, t)
  /\ UNCHANGED group

Places == {"head", "tail", "before", "after"}

Next ==
  \/ \E n, t \in Node, isGroup \in BOOLEAN, place \in Places :
       (IF place \in {"head", "tail"} THEN t \in group ELSE t \in InTree \ {Root})
       /\ (Create(n, isGroup, place, t) \/ Move(n, place, t))
  \/ \E n, r \in Node, isGroup \in BOOLEAN : Substitute(n, isGroup, r)
  \/ \E n \in Node : Free(n) \/ FreeAll(n)

Spec == Init /\ [][Next]_vars
=============================================================================

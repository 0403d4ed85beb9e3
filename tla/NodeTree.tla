------------------------------- MODULE NodeTree -------------------------------
(***************************************************************************)
(* The node tree of a World and the OSC commands that build and change it  *)
(* (SC_MiscCmds.cpp).  Commands are executed one after another on the      *)
(* real-time thread, between two blocks.  A command that takes a list is a *)
(* sequence of the actions below, one for each element of the list: an     *)
(* element that does nothing but look up a node that is gone ends the      *)
(* command or is skipped, and changes nothing.                             *)
(*                                                                         *)
(* The client chooses the IDs.  With Careful it keeps to the placements    *)
(* the command reference describes; without, it may also name the root, a  *)
(* node in no group, the moved node itself or a node below it as a target. *)
(***************************************************************************)
EXTENDS NodeLinks, Naturals

CONSTANTS Careful   \* the client only asks for placements that make sense

ASSUME CarefulAssumption == Careful \in BOOLEAN

VARIABLES tree,     \* the node library and the pointers
          message   \* the command in progress that keeps nodes between elements

vars == <<tree, message>>

\* prevNode and prevTarget of n_before, n_after and n_order, and the group that
\* g_deepFree walks; the locals of a command that has not returned yet.
Idle == [name |-> "none", node |-> Null, target |-> Null]
Command(name, node, target) == [name |-> name, node |-> node, target |-> target]

Init == tree = EmptyTree /\ message = Idle

\* The placement of s at t makes sense: a target in a group for a relative
\* placement, and never the node itself or a node below it.
Sensible(T, s, place, t) ==
  /\ place \in {"before", "after"} => T.parent[t] # Null
  /\ t # s /\ t \notin Below(T, s)

\* The add action and the target as Msg_GetGroup and Msg_GetNode accept them.
Target(place, t) == IF place \in {"head", "tail"} THEN t \in tree.group ELSE t \in tree.live

\* The recursion of Group_DeleteAll and Group_DeepFreeGraphs ends.
Grounded(T, n) == n \notin Below(T, n)

-----------------------------------------------------------------------------
(* Commands that act on one element at a time. *)

\* s_new with add actions 0 to 3, and g_new (and p_new) with the same; an ID in
\* use is refused (kSCErr_DuplicateNodeID).
New(n, isGroup, place, t) ==
  /\ message = Idle
  /\ n \notin tree.live
  /\ Target(place, t)
  /\ Careful => Sensible(tree, n, place, t)
  /\ tree' = PlaceAt(NewNode(tree, n, isGroup), n, place, t)
  /\ UNCHANGED message

SNew(n, place, t) == New(n, FALSE, place, t)
GNew(n, place, t) == New(n, TRUE, place, t)

\* s_new and g_new with add action 4: the target is replaced and freed.
NewReplace(n, isGroup, r) ==
  /\ message = Idle
  /\ n \notin tree.live
  /\ r \in tree.live
  /\ Grounded(tree, r)
  /\ Careful => tree.parent[r] # Null
  /\ tree' = Replace(NewNode(tree, n, isGroup), n, r)
  /\ UNCHANGED message

NFree(n) ==
  /\ message = Idle
  /\ n \in tree.live
  /\ Grounded(tree, n)
  /\ tree' = Delete(tree, n)
  /\ UNCHANGED message

GFreeAll(g) ==
  /\ message = Idle
  /\ g \in tree.group
  /\ Grounded(tree, g)
  /\ tree' = DeleteAll(tree, g)
  /\ UNCHANGED message

\* g_head and g_tail.
GHead(g, n) ==
  /\ message = Idle
  /\ g \in tree.group /\ n \in tree.live
  /\ Careful => Sensible(tree, n, "head", g)
  /\ tree' = AddHead(Remove(tree, n), g, n)
  /\ UNCHANGED message

GTail(g, n) ==
  /\ message = Idle
  /\ g \in tree.group /\ n \in tree.live
  /\ Careful => Sensible(tree, n, "tail", g)
  /\ tree' = AddTail(Remove(tree, n), g, n)
  /\ UNCHANGED message

-----------------------------------------------------------------------------
(* n_before and n_after: a pair is moved when the next one is read. *)

MoveBefore(T, n, t) == AddBefore(Remove(T, n), n, t)
MoveAfter(T, n, t) == AddAfter(Remove(T, n), n, t)

MovePending ==
  IF message.name = "n_before" THEN MoveBefore(tree, message.node, message.target)
  ELSE MoveAfter(tree, message.node, message.target)

\* The first pair whose two nodes exist: kept for the next turn of the loop.
PairsBegin(name, n, t) ==
  /\ message = Idle
  /\ n \in tree.live /\ t \in tree.live
  /\ Careful => Sensible(tree, n, "before", t)
  /\ message' = Command(name, n, t)
  /\ UNCHANGED tree

\* A further pair: the pair before it is moved, unless it was for the same node.
PairsNext(n, t) ==
  /\ message.name \in {"n_before", "n_after"}
  /\ n \in tree.live /\ t \in tree.live
  /\ tree' = IF message.node # n THEN MovePending ELSE tree
  /\ Careful => Sensible(tree', n, "before", t)
  /\ message' = Command(message.name, n, t)

\* The end of n_before and n_after with the kept pair not forgotten.
PairsEndKeepsPair ==
  /\ message.name \in {"n_before", "n_after"}
  /\ tree' = IF message.name = "n_before" /\ message.node = message.target
             THEN tree ELSE MovePending
  /\ message' = [message EXCEPT !.name = "none"]

\* The end of the list: the last pair is moved.  Only n_before looks whether the
\* node is its own target.
PairsEnd ==
  /\ message.name \in {"n_before", "n_after"}
  /\ tree' = IF message.name = "n_before" /\ message.node = message.target
             THEN tree ELSE MovePending
  /\ message' = Idle

-----------------------------------------------------------------------------
(* n_order: the first node is placed at the target, the others after it. *)

OrderFirst(place, t, n) ==
  /\ message = Idle
  /\ Target(place, t) /\ n \in tree.live
  /\ Careful => Sensible(tree, n, place, t)
  /\ tree' = PlaceAt(Remove(tree, n), n, place, t)
  /\ message' = Command("n_order", n, Null)

OrderNext(n) ==
  /\ message.name = "n_order"
  /\ n \in tree.live
  /\ Careful => Sensible(tree, n, "after", message.node)
  /\ tree' = MoveAfter(tree, n, message.node)
  /\ message' = Command("n_order", n, Null)

OrderEnd ==
  /\ message.name = "n_order"
  /\ message' = Idle
  /\ UNCHANGED tree

-----------------------------------------------------------------------------
(* g_deepFree: Group_DeepFreeGraphs walks the groups below a group. *)

DeepFreeBegin(g) ==
  /\ message = Idle
  /\ g \in tree.group
  /\ Grounded(tree, g)
  /\ message' = Command("g_deepFree", g, Null)
  /\ UNCHANGED tree

SynthsBelow(g) == Below(tree, g) \ tree.group

\* One synth is unlinked and deleted.
DeepFreeNext(n) ==
  /\ message.name = "g_deepFree"
  /\ n \in SynthsBelow(message.node)
  /\ tree' = Delete(Remove(tree, n), n)
  /\ UNCHANGED message

DeepFreeEnd ==
  /\ message.name = "g_deepFree"
  /\ SynthsBelow(message.node) = {}
  /\ message' = Idle
  /\ UNCHANGED tree

-----------------------------------------------------------------------------
CreateOrFree ==
  \/ \E n, t \in Node, place \in Places : SNew(n, place, t) \/ GNew(n, place, t)
  \/ \E n, r \in Node, isGroup \in BOOLEAN : NewReplace(n, isGroup, r)
  \/ \E n \in Node : NFree(n) \/ GFreeAll(n)

Move ==
  \/ \E g, n \in Node : GHead(g, n) \/ GTail(g, n)
  \/ \E n, t \in Node : PairsBegin("n_before", n, t) \/ PairsBegin("n_after", n, t)
  \/ \E n, t \in Node : PairsNext(n, t)
  \/ PairsEnd
  \/ \E n, t \in Node, place \in Places : OrderFirst(place, t, n)
  \/ \E n \in Node : OrderNext(n)
  \/ OrderEnd

DeepFree ==
  \/ \E g \in Node : DeepFreeBegin(g)
  \/ \E n \in Node : DeepFreeNext(n)
  \/ DeepFreeEnd

Next == CreateOrFree \/ Move \/ DeepFree

Spec == Init /\ [][Next]_vars

-----------------------------------------------------------------------------
TypeOK ==
  /\ tree \in Trees
  /\ message \in {Idle}
       \cup [name : {"n_before", "n_after"}, node : Node, target : Node]
       \cup [name : {"n_order", "g_deepFree"}, node : Node, target : {Null}]

\* Whatever the client sends, the doubly linked child lists stay whole: no
\* command leaves a pointer to a node that has moved or has been freed.
ListsWhole == LinksOK(tree)

\* Every node is below the root: it is calculated in every block, and freeing
\* the root's nodes frees it.  No node is below itself.
OneTree == Below(tree, Root) = tree.live \ {Root}

\* The nodes Group_Calc would visit: from mHead along mNext.
Children(g) ==
  LET walk[i \in 0 .. Cardinality(Node)] ==
        IF i = 0 THEN tree.head[g]
        ELSE IF walk[i - 1] = Null THEN Null ELSE tree.next[walk[i - 1]]
      visited == {i \in 0 .. Cardinality(Node) : walk[i] # Null}
  IN [i \in 1 .. Cardinality(visited) |-> walk[i - 1]]

\* A walk along a group's list ends, and meets exactly the nodes whose mParent
\* is the group, each once.
ListsComplete ==
  \A g \in tree.group :
    LET list == Children(g)
        members == {n \in tree.live : tree.parent[n] = g}
    IN {list[i] : i \in DOMAIN list} = members /\ Cardinality(DOMAIN list) = Cardinality(members)

\* n_before and n_after place a node in the group that its target is in.
MovedToTarget ==
  [][PairsEnd /\ message.node # Root /\ tree.parent[message.target] # Null
       => tree'.parent[message.node] = tree.parent[message.target]]_vars
=============================================================================

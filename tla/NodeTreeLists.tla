---------------------------- MODULE NodeTreeLists ----------------------------
(***************************************************************************)
(* The linked node tree implements the child lists: the lists are what a   *)
(* walk along mHead and mNext meets.                                       *)
(***************************************************************************)
EXTENDS NodeTree

kids == [g \in Node |-> IF g \in tree.group THEN Children(g) ELSE << >>]

Lists == INSTANCE ChildLists WITH group <- tree.group

\* The side of its target on which the pending node of a pair command goes.
Side == IF message.name = "n_before" THEN "before" ELSE "after"

\* Every command changes the lists as one of the abstract commands does.
ImplementsLists == Lists!Spec

\* ... and it is the abstract command of the same name, on the nodes it names:
\* a node placed before, after, at the head or at the tail ends up exactly
\* there, the other nodes keep their order, and what is freed is the node with
\* all that is below it (SC_MiscCmds.cpp meth_s_new to meth_g_deepFree).
CommandsAsAsked ==
  [][/\ \A n, t \in Node, place \in Places :
          /\ SNew(n, place, t) => Lists!Create(n, FALSE, place, t)
          /\ GNew(n, place, t) => Lists!Create(n, TRUE, place, t)
          /\ OrderFirst(place, t, n) => Lists!Move(n, place, t)
     /\ \A n, t \in Node :
          /\ \A isGroup \in BOOLEAN : NewReplace(n, isGroup, t) => Lists!Substitute(n, isGroup, t)
          /\ GHead(t, n) => Lists!Move(n, "head", t)
          /\ GTail(t, n) => Lists!Move(n, "tail", t)
          /\ PairsNext(n, t) /\ message.node # n => Lists!Move(message.node, Side, message.target)
     /\ PairsEnd => Lists!Move(message.node, Side, message.target)
     /\ \A n \in Node :
          /\ NFree(n) => n = Root \/ Lists!Free(n)
          /\ GFreeAll(n) => Lists!FreeAll(n)
          /\ OrderNext(n) => Lists!Move(n, "after", message.node)
          /\ DeepFreeNext(n) => Lists!Free(n) /\ n \notin tree.group
    ]_vars
=============================================================================

------------------------------- MODULE NodeCalc -------------------------------
(***************************************************************************)
(* One block of the real-time thread: World_Run calls the calc function of *)
(* the root group, Group_Calc calls those of its nodes, and the units of a *)
(* synth may free, pause and empty nodes while the walk over the tree is   *)
(* in progress.  Between two blocks the commands of NodeTree are executed, *)
(* and those that change what a node's calc function is.                   *)
(*                                                                         *)
(* A node's mCalcFunc is one of                                            *)
(*   "First", "NullFirst"   Graph_FirstCalc, Graph_NullFirstCalc           *)
(*   "Calc"                 Graph_Calc or Group_Calc                       *)
(*   "Null"                 Node_NullCalc, the node is paused              *)
(*   "Trace"                Graph_CalcTrace or Group_CalcTrace             *)
(*   "Dump"                 Group_CalcDumpTree, with controls or without   *)
(*   "Delete"               Node_Delete, the node was told to end          *)
(***************************************************************************)
EXTENDS NodeTree, Sequences

CONSTANTS Requests,   \* the commands clients send, besides creating and freeing nodes
          CtorActs,   \* the done actions that units take in their constructors
          CalcActs,   \* the done actions that units take in their calc functions
          UnitActs    \* what the Free and Pause units do to the node they name

ASSUME EnvironmentAssumption ==
  /\ Requests \subseteq {"move", "deepFree", "run", "trace"}
  /\ CtorActs \subseteq 1 .. 14 /\ CalcActs \subseteq 1 .. 14
  /\ UnitActs \subseteq {"free", "pause", "resume"}

VARIABLES calc,      \* mCalcFunc of every node
          built,     \* the synths whose unit constructors have been called
          stack,     \* the activations of Group_Calc, with their local next
          running,   \* the synth whose units are being called
          visited    \* the nodes called so far in the block that is being calculated

walk == <<stack, running, visited>>
calcVars == <<tree, message, calc, built, stack, running, visited>>

Nobody == [node |-> Null, func |-> "none"]

CalcInit ==
  /\ Init
  /\ calc = [n \in Node |-> IF n = Root THEN "Calc" ELSE "none"]
  /\ built = {}
  /\ stack = <<>> /\ running = Nobody /\ visited = {}

\* No block is being calculated: the thread executes commands.
AtRest == stack = <<>> /\ running = Nobody

\* The loop over a group's nodes goes on: no unit and no loop inside it does.
Walking == stack # <<>> /\ running = Nobody /\ message = Idle

\* CalcFuncs with a Graph_Ctor that installs Graph_Calc at once.
CalcFuncsSkipFirst(f) ==
  [n \in Node |-> IF n \notin tree'.live THEN "none"
                  ELSE IF n \in tree.live THEN f[n] ELSE "Calc"]

\* The calc functions after a step that left f to the nodes it did not create
\* or free.  Graph_Ctor installs Graph_FirstCalc, Group_New Group_Calc.
CalcFuncs(f) ==
  [n \in Node |-> IF n \notin tree'.live THEN "none"
                  ELSE IF n \in tree.live THEN f[n]
                  ELSE IF n \in tree'.group THEN "Calc" ELSE "First"]

\* Follow without dropping the synths that were freed.
FollowKeepsBuilt(f) == calc' = CalcFuncs(f) /\ UNCHANGED built

Follow(f) == calc' = CalcFuncs(f) /\ built' = built \cap tree'.live

-----------------------------------------------------------------------------
(* Node_SetRun and Node_End. *)

Paused(f) == IF f = "First" THEN "NullFirst" ELSE "Null"
Resumed(f) == IF f = "Null" THEN "Calc" ELSE f

\* The functions after Node_End on the nodes of one set and Node_SetRun(0) on
\* those of another.
EndedAndPaused(ended, paused) ==
  [n \in Node |-> IF n \in paused THEN Paused(calc[n])
                  ELSE IF n \in ended THEN "Delete" ELSE calc[n]]

-----------------------------------------------------------------------------
(* What is executed between two blocks. *)

ClientCommand ==
  /\ AtRest
  /\ \/ CreateOrFree
     \/ "move" \in Requests /\ Move
     \/ "deepFree" \in Requests /\ \E g \in Node : DeepFreeBegin(g)
  /\ Follow(calc)
  /\ UNCHANGED walk

\* The loop of Group_DeepFreeGraphs, for g_deepFree or for a done action.
DeepFreeLoop ==
  /\ (\E n \in Node : DeepFreeNext(n)) \/ DeepFreeEnd
  /\ Follow(calc)
  /\ UNCHANGED walk

NRun(n, flag) ==
  /\ "run" \in Requests
  /\ AtRest /\ message = Idle
  /\ n \in tree.live
  /\ calc' = [calc EXCEPT ![n] = IF flag = 0 THEN Paused(calc[n]) ELSE Resumed(calc[n])]
  /\ UNCHANGED <<tree, message, built, walk>>

\* n_trace and g_dumpTree (also with the controls) on nodes that run normally.
NTrace(n) ==
  /\ "trace" \in Requests
  /\ AtRest /\ message = Idle
  /\ n \in tree.live /\ calc[n] = "Calc"
  /\ calc' = [calc EXCEPT ![n] = "Trace"]
  /\ UNCHANGED <<tree, message, built, walk>>

GDumpTree(g) ==
  /\ "trace" \in Requests
  /\ AtRest /\ message = Idle
  /\ g \in tree.group /\ calc[g] = "Calc"
  /\ calc' = [calc EXCEPT ![g] = "Dump"]
  /\ UNCHANGED <<tree, message, built, walk>>

-----------------------------------------------------------------------------
(* The walk. *)

\* (*node->mCalcFunc)(node) with calc function f, from a caller whose
\* activations are saved: the node does nothing, is deleted, is a group whose
\* nodes are walked in their turn, or is a synth whose units are called.
Call(n, f, saved) ==
  /\ visited' = visited \cup {n}
  /\ \/ /\ f = "Null"
        /\ stack' = saved
        /\ UNCHANGED <<tree, message, calc, built, running>>
     \/ /\ f = "Delete"
        /\ NFree(n)
        /\ Follow(calc)
        /\ stack' = saved
        /\ UNCHANGED running
     \/ /\ n \in tree.group /\ f \in {"Calc", "Trace", "Dump"}
        /\ stack' = Append(saved, [group |-> n, next |-> tree.head[n], func |-> f])
        /\ calc' = [calc EXCEPT ![n] = f]
        /\ UNCHANGED <<tree, message, built, running>>
     \/ /\ n \notin tree.group /\ f \in {"First", "NullFirst", "Calc", "Trace"}
        /\ running' = [node |-> n, func |-> f]
        /\ stack' = saved
        /\ UNCHANGED <<tree, message, calc, built>>

\* World_Run.
BlockBegin ==
  /\ AtRest /\ message = Idle
  /\ \/ /\ calc[Root] \in {"Null", "Delete"}   \* Node_Delete refuses the root
        /\ UNCHANGED <<stack, visited>>
     \/ /\ calc[Root] \notin {"Null", "Delete"}
        /\ stack' = <<[group |-> Root, next |-> tree.head[Root], func |-> calc[Root]]>>
        /\ visited' = {Root}
  /\ UNCHANGED <<tree, message, calc, built, running>>

Top == stack[Len(stack)]
Advanced(next) == [stack EXCEPT ![Len(stack)].next = next]

\* While a group dumps itself, its groups that run normally are made to as well.
FuncOf(n) ==
  IF Top.func = "Dump" /\ n \in tree.group /\ calc[n] = "Calc" THEN "Dump" ELSE calc[n]

\* The loop of Group_Calc that starts over when it has freed a node.
VisitRestarts(n) ==
  /\ Walking
  /\ n = Top.next
  /\ Call(n, FuncOf(n),
          Advanced(IF calc[n] = "Delete" THEN tree.head[Top.group] ELSE tree.next[n]))

\* The loop of Group_Calc that reads mNext after the call, from a node that
\* Node_Remove has unlinked.
VisitReadsFreed(n) ==
  /\ Walking
  /\ n = Top.next
  /\ Call(n, FuncOf(n), Advanced(IF calc[n] = "Delete" THEN Null ELSE tree.next[n]))

\* Error caught by the runs: a group that is deleted leaves its nodes behind.
VisitKeepsBelow(n) ==
  /\ Walking
  /\ n = Top.next
  /\ IF calc[n] = "Delete"
     THEN /\ tree' = Dtor(tree, n)
          /\ Follow(calc)
          /\ stack' = Advanced(tree.next[n])
          /\ visited' = visited \cup {n}
          /\ UNCHANGED <<message, running>>
     ELSE Call(n, FuncOf(n), Advanced(tree.next[n]))

\* One turn of the loop of Group_Calc, Group_CalcTrace and Group_DumpNodeTree:
\* mNext is read before the node is called.
Visit(n) ==
  /\ Walking
  /\ n = Top.next
  /\ Call(n, FuncOf(n), Advanced(tree.next[n]))

\* The end of the loop.  Group_CalcTrace and Group_CalcDumpTree install
\* Group_Calc again.
Leave ==
  /\ Walking
  /\ Top.next = Null
  /\ stack' = SubSeq(stack, 1, Len(stack) - 1)
  /\ calc' = IF Top.func = "Calc" THEN calc ELSE [calc EXCEPT ![Top.group] = "Calc"]
  /\ visited' = IF Len(stack) = 1 THEN {} ELSE visited
  /\ UNCHANGED <<tree, message, built, running>>

-----------------------------------------------------------------------------
(* The units of the running synth. *)

InCtor == running.func \in {"First", "NullFirst"}

\* Graph_FirstCalc without the assignment of Graph_Calc.
CtorsEndKeepFirst ==
  /\ running.func \in {"First", "NullFirst"} /\ message = Idle
  /\ built' = built \cup {running.node}
  /\ calc' = calc
  /\ running' = IF running.func = "First" THEN [running EXCEPT !.func = "Calc"] ELSE Nobody
  /\ UNCHANGED <<tree, message, stack, visited>>

\* The constructors have been called.  Graph_FirstCalc installs Graph_Calc and
\* calls it, Graph_NullFirstCalc installs Node_NullCalc.
CtorsEnd ==
  /\ running.func \in {"First", "NullFirst"} /\ message = Idle
  /\ built' = built \cup {running.node}
  /\ calc' = [calc EXCEPT ![running.node] = IF running.func = "First" THEN "Calc" ELSE "Null"]
  /\ running' = IF running.func = "First" THEN [running EXCEPT !.func = "Calc"] ELSE Nobody
  /\ UNCHANGED <<tree, message, stack, visited>>

\* Graph_Calc ending like Graph_CalcTrace does.
UnitsEndInstalls ==
  /\ running.func \in {"Calc", "Trace"} /\ message = Idle
  /\ calc' = [calc EXCEPT ![running.node] = "Calc"]
  /\ running' = Nobody
  /\ UNCHANGED <<tree, message, built, stack, visited>>

\* The end of Graph_Calc and of Graph_CalcTrace, which installs Graph_Calc again.
UnitsEnd ==
  /\ running.func \in {"Calc", "Trace"} /\ message = Idle
  /\ calc' = IF running.func = "Trace" THEN [calc EXCEPT ![running.node] = "Calc"] ELSE calc
  /\ running' = Nobody
  /\ UNCHANGED <<tree, message, built, stack, visited>>

\* The nodes that mPrev, or mNext, leads to from s, with s.
Position(list, s) == CHOOSE i \in DOMAIN list : list[i] = s
UpTo(list, s) == {list[i] : i \in 1 .. Position(list, s)}
From(list, s) == {list[i] : i \in Position(list, s) .. Len(list)}

\* The nodes Unit_DoneAction gives to Node_End, with m the neighbour of s on
\* the side the action is about.
Ended(a, s, m) ==
  LET list == Children(tree.parent[s])
      self == IF a \in 2 .. 13 THEN {s} ELSE {}
      others == CASE a \in {3, 4} -> {m}
                  [] a \in {5, 6, 11, 12} -> {m} \ tree.group
                  [] a = 7 -> UpTo(list, s)
                  [] a = 8 -> From(list, s)
                  [] a = 13 -> {list[i] : i \in DOMAIN list}
                  [] a = 14 -> {tree.parent[s]}
                  [] OTHER -> {}
  IN self \cup others

\* Done actions 5 and 6 on a neighbouring group that is itself deleted.
EmptyNeighbourDeletes(m) == NFree(m)

\* Group_DeleteAll on a neighbouring group.
EmptyNeighbour(m) == GFreeAll(m)

\* Unit_DoneAction.  Odd actions look at mPrev, even ones at mNext.
DoneAction(a) ==
  /\ running # Nobody /\ message = Idle
  /\ a \in IF InCtor THEN CtorActs ELSE CalcActs
  /\ LET s == running.node
         m == IF a % 2 = 1 THEN tree.prev[s] ELSE tree.next[s]
         paused == IF a = 1 THEN {s} ELSE IF a \in {9, 10} THEN {m} ELSE {}
     IN /\ \/ a \in {5, 6} /\ m \in tree.group /\ EmptyNeighbour(m)
           \/ a \in {11, 12} /\ m \in tree.group /\ DeepFreeBegin(m)
           \/ ~(a \in {5, 6, 11, 12} /\ m \in tree.group) /\ UNCHANGED <<tree, message>>
        /\ Follow(EndedAndPaused(Ended(a, s, m), paused))
  /\ UNCHANGED walk

\* The Free unit and the Pause unit, on a node they have looked up; their
\* constructors leave other nodes alone.
UnitAct(act, n) ==
  /\ running # Nobody /\ ~InCtor /\ message = Idle
  /\ act \in UnitActs
  /\ n \in tree.live
  /\ calc' = [calc EXCEPT ![n] = CASE act = "free" -> "Delete"
                                   [] act = "pause" -> Paused(calc[n])
                                   [] act = "resume" -> Resumed(calc[n])]
  /\ UNCHANGED <<tree, message, built, walk>>

-----------------------------------------------------------------------------
Commands ==
  \/ ClientCommand
  \/ \E n \in Node : NRun(n, 0) \/ NRun(n, 1)
  \/ \E n \in Node : NTrace(n)
  \/ \E g \in Node : GDumpTree(g)

Block ==
  \/ BlockBegin
  \/ \E n \in Node : Visit(n)
  \/ Leave
  \/ CtorsEnd
  \/ UnitsEnd
  \/ \E a \in 1 .. 14 : DoneAction(a)
  \/ \E act \in {"free", "pause", "resume"}, n \in Node : UnitAct(act, n)

CalcNext == Commands \/ DeepFreeLoop \/ Block

\* The audio driver calls World_Run again and again, whatever commands arrive;
\* a list of nodes in a command and the units of a synth are finite.
Fairness ==
  /\ SF_calcVars(BlockBegin)
  /\ WF_calcVars(DeepFreeLoop)
  /\ WF_calcVars(AtRest /\ (PairsEnd \/ OrderEnd) /\ Follow(calc) /\ UNCHANGED walk)
  /\ WF_calcVars(\E n \in Node : Visit(n)) /\ WF_calcVars(Leave)
  /\ SF_calcVars(CtorsEnd) /\ SF_calcVars(UnitsEnd)

CalcSpec == CalcInit /\ [][CalcNext]_calcVars
FairCalcSpec == CalcSpec /\ Fairness

-----------------------------------------------------------------------------
CalcTypeOK ==
  /\ TypeOK
  /\ calc \in [Node -> {"none", "First", "NullFirst", "Calc", "Null", "Trace", "Dump", "Delete"}]
  /\ built \subseteq tree.live \ tree.group
  /\ stack \in Seq([group : Node, next : Node \cup {Null}, func : {"Calc", "Trace", "Dump"}])
  /\ running \in [node : Node, func : {"First", "NullFirst", "Calc", "Trace"}] \cup {Nobody}
  /\ visited \subseteq Node

\* Nothing the walk holds is freed under it: the groups on the stack are live,
\* nested in each other from the root on, each saved next pointer is null or a
\* node that is still in that group, and the running synth is where the walk is.
WalkSafe ==
  /\ \A i \in 1 .. Len(stack) :
       LET g == stack[i].group
           q == stack[i].next
       IN /\ g \in tree.group
          /\ IF i = 1 THEN g = Root ELSE tree.parent[g] = stack[i - 1].group
          /\ q # Null => q \in tree.live /\ tree.parent[q] = g
  /\ running # Nobody =>
       /\ running.node \in tree.live
       /\ stack # <<>> /\ tree.parent[running.node] = Top.group

\* The constructors of a synth's units are called once.
BuiltOnce == InCtor => running.node \notin built

\* The calc functions of units are called after their constructors.
CalcOnlyBuilt == running.func \in {"Calc", "Trace"} => running.node \in built

\* No node is called twice in one block.
CalledOnce == [][\A n \in Node : Visit(n) => n \notin visited]_calcVars

\* When a block ends, every node has been called in it; for a client that keeps
\* all nodes below the root, and when nothing pauses nodes.
BlockCoversAll ==
  [][stack # <<>> /\ stack' = <<>> => tree.live \subseteq visited]_calcVars

\* What the walk does to the tree, commands could have done.
TreeSpec == Init /\ [][Next]_vars

\* A node that was told to end is freed, as long as the root was not told so.
EndedNodesFreed ==
  [](calc[Root] # "Delete") =>
    \A n \in Node \ {Root} : calc[n] = "Delete" ~> n \notin tree.live

\* Graph_Dtor calls the destructors of the units of exactly the synths whose
\* constructors were called.
DtorsMatchCtors ==
  [][\A n \in tree.live \ (tree.group \cup tree'.live) :
       calc[n] # "First" <=> n \in built]_calcVars

\* Freeing a group frees what is in it, also when the group is the root.
GroupEndFreesNodes ==
  \A n \in Node : (tree.parent[n] # Null /\ calc[tree.parent[n]] = "Delete") ~> n \notin tree.live
=============================================================================

--------------------------- MODULE NodeCalcProofs ---------------------------
(***************************************************************************)
(* The walk over the tree, for every set of nodes and whatever the clients *)
(* and the units do.                                                       *)
(*                                                                         *)
(* The second half proves that a block calls no node twice and leaves none *)
(* out, constructs the units of no synth twice, and calculates none that   *)
(* were not constructed.                                                   *)
(* The walk goes along the lists from head to tail.  What makes each call  *)
(* the first one is that the nodes visited are closed under mPrev and      *)
(* mParent, and that each saved next pointer is the first of its list that *)
(* is not visited; freeing nodes during the walk keeps both.  A calc       *)
(* function that calls units is installed only where they are constructed. *)
(***************************************************************************)
EXTENDS NodeCalc, NodeTreeProofs, SequenceTheorems

-----------------------------------------------------------------------------
(* The walk changes the tree as commands do. *)

LEMMA FreeIsNext == ASSUME NEW n \in Node, NFree(n) \/ GFreeAll(n) PROVE Next
  BY DEF Next, CreateOrFree

LEMMA CallIsNext ==
  ASSUME NEW n \in Node, NEW f, NEW saved, Call(n, f, saved)
  PROVE  [Next]_vars
  BY FreeIsNext DEF Call, vars

LEMMA StepIsNext == IInv /\ [CalcNext]_calcVars => [Next]_vars
  <1> SUFFICES ASSUME IInv, [CalcNext]_calcVars PROVE [Next]_vars
    OBVIOUS
  <1>1. CASE ClientCommand
    BY <1>1 DEF ClientCommand, Next, DeepFree
  <1>2. CASE DeepFreeLoop
    BY <1>2 DEF DeepFreeLoop, Next, DeepFree
  <1>3. ASSUME NEW n \in Node, NRun(n, 0) \/ NRun(n, 1) \/ NTrace(n) \/ GDumpTree(n)
        PROVE  [Next]_vars
    BY <1>3 DEF NRun, NTrace, GDumpTree, vars
  <1>4. ASSUME NEW n \in Node, Visit(n) PROVE [Next]_vars
    BY <1>4, CallIsNext DEF Visit
  <1>5. CASE BlockBegin \/ Leave \/ CtorsEnd \/ UnitsEnd
    BY <1>5 DEF BlockBegin, Leave, CtorsEnd, UnitsEnd, vars
  <1>6. ASSUME NEW a \in 1 .. 14, DoneAction(a) PROVE [Next]_vars
    <2> DEFINE s == running.node
               m == IF a % 2 = 1 THEN tree.prev[s] ELSE tree.next[s]
    <2>1. \/ m \in tree.group /\ EmptyNeighbour(m)
          \/ m \in tree.group /\ DeepFreeBegin(m)
          \/ UNCHANGED <<tree, message>>
      BY <1>6 DEF DoneAction
    <2> HIDE DEF m
    <2>2. m \in tree.group => m \in Node
      BY FieldTypes DEF IInv, TypeOK
    <2>3. CASE m \in tree.group /\ EmptyNeighbour(m)
      BY <2>2, <2>3, FreeIsNext DEF EmptyNeighbour
    <2>4. CASE m \in tree.group /\ DeepFreeBegin(m)
      BY <2>2, <2>4 DEF Next, DeepFree
    <2> QED
      BY <2>1, <2>3, <2>4 DEF vars
  <1>7. ASSUME NEW act, NEW n \in Node, UnitAct(act, n) PROVE [Next]_vars
    BY <1>7 DEF UnitAct, vars
  <1>8. CASE UNCHANGED calcVars
    BY <1>8 DEF calcVars, vars
  <1> QED
    BY <1>1, <1>2, <1>3, <1>4, <1>5, <1>6, <1>7, <1>8 DEF CalcNext, Commands, Block

LEMMA TreeInvariance == CalcSpec => []IInv
  <1>1. CalcInit => IInv
    BY InitIInv DEF CalcInit
  <1>2. IInv /\ [CalcNext]_calcVars => IInv'
    BY StepIsNext, NextIInv
  <1> QED
    BY <1>1, <1>2, PTL DEF CalcSpec

\* Whatever the units free, pause or empty while Group_Calc walks, the tree
\* changes only in ways in which the commands of SC_MiscCmds.cpp change it.
THEOREM WalkActsAsCommands == CalcSpec => TreeSpec
  <1>1. CalcInit => Init
    BY DEF CalcInit
  <1> QED
    BY <1>1, StepIsNext, TreeInvariance, PTL DEF CalcSpec, TreeSpec

\* So the child lists are whole at every turn of the walk.
THEOREM ListsWholeInBlock == CalcSpec => []ListsWhole
  <1>1. IInv => ListsWhole
    BY DEF IInv
  <1> QED
    BY <1>1, TreeInvariance, PTL

-----------------------------------------------------------------------------
(* The activations of Group_Calc, as a path down the tree. *)

Frame == [group : Node, next : Node \cup {Null}, func : {"Calc", "Trace", "Dump"}]

OnPath(T, st, i) ==
  /\ st[i].group \in T.group
  /\ i = 1 => st[i].group = Root
  /\ i # 1 => T.parent[st[i].group] = st[i - 1].group
  /\ st[i].next # Null => st[i].next \in T.live /\ T.parent[st[i].next] = st[i].group

Distinct(st) == \A i, j \in 1 .. Len(st) : st[i].group = st[j].group => i = j

Path(T, st) ==
  /\ st \in Seq(Frame)
  /\ \A i \in 1 .. Len(st) : OnPath(T, st, i)
  /\ Distinct(st)

\* A node of the group that is walked innermost.
AtTop(T, st, n) == st # <<>> /\ n \in T.live /\ T.parent[n] = st[Len(st)].group

LEMMA TopIndex ==
  ASSUME NEW st \in Seq(Frame), st # <<>>
  PROVE  Len(st) \in 1 .. Len(st) /\ Len(st) \in Nat \ {0} /\ st[Len(st)] \in Frame
  OBVIOUS

\* A node of the innermost group is none of the groups that are walked, and
\* none of them is below it.
LEMMA OffPath ==
  ASSUME NEW T \in Trees, LinksOK(T), NEW st, Path(T, st), NEW n, AtTop(T, st, n)
  PROVE  \A i \in 1 .. Len(st) : st[i].group # n /\ st[i].group \notin Below(T, n)
  <1>0. st \in Seq(Frame) /\ st # <<>> /\ Len(st) \in 1 .. Len(st) /\ Len(st) \in Nat \ {0}
    BY TopIndex DEF Path, AtTop
  <1>1. ASSUME NEW i \in 1 .. Len(st), st[i].group = n PROVE FALSE
    <2>0. st[Len(st)].group \in Node /\ T.parent[n] = st[Len(st)].group
      BY <1>0, TopIndex DEF AtTop, Frame
    <2>1. CASE i = 1
      <3>1. n = Root
        BY <1>1, <2>1 DEF Path, OnPath
      <3> QED
        BY <2>0, <3>1, NullAssumption DEF LinksOK, LibraryAgrees
    <2>2. CASE i # 1
      <3>1. i - 1 \in 1 .. Len(st) /\ i - 1 # Len(st)
        BY <1>0, <2>2
      <3>2. st[i - 1].group = st[Len(st)].group
        BY <1>1, <2>0, <2>2 DEF Path, OnPath
      <3> QED
        BY <1>0, <3>1, <3>2 DEF Path, Distinct
    <2> QED
      BY <2>1, <2>2
  <1> DEFINE S == {m \in Below(T, n) : \A i \in 1 .. Len(st) : st[i].group # m}
  <1>2. S \in SUBSET T.live
    BY DEF Below
  <1>3. ClosedBelow(T, n, S)
    <2> SUFFICES ASSUME NEW m \in T.live, T.parent[m] \in S \cup {n} PROVE m \in S
      BY DEF ClosedBelow
    <2>1. m \in Below(T, n)
      BY BelowClosed
    <2>2. ASSUME NEW i \in 1 .. Len(st), st[i].group = m PROVE FALSE
      <3>1. CASE i = 1
        <4>1. T.parent[m] = Null
          BY <2>2, <3>1 DEF Path, OnPath, LinksOK, LibraryAgrees
        <4>2. Null \notin S \cup {n}
          BY <1>2, NullAssumption, FieldTypes DEF AtTop
        <4> QED
          BY <4>1, <4>2
      <3>2. CASE i # 1
        <4>1. i - 1 \in 1 .. Len(st)
          BY <1>0, <3>2
        <4>2. T.parent[m] = st[i - 1].group
          BY <2>2, <3>2 DEF Path, OnPath
        <4> QED
          BY <1>1, <4>1, <4>2
      <3> QED
        BY <3>1, <3>2
    <2> QED
      BY <2>1, <2>2
  <1>4. \A m \in Below(T, n) : m \in S
    BY <1>2, <1>3 DEF Below
  <1> QED
    BY <1>1, <1>4

\* World_Run enters the root group.
LEMMA PathStart ==
  ASSUME NEW T \in Trees, LinksOK(T), NEW f \in {"Calc", "Trace", "Dump"}
  PROVE  Path(T, <<[group |-> Root, next |-> T.head[Root], func |-> f]>>)
  <1> DEFINE F == [group |-> Root, next |-> T.head[Root], func |-> f]
  <1>1. F \in Frame
    BY RootAssumption, FieldTypes DEF Frame
  <1>2. <<F>> \in Seq(Frame) /\ Len(<<F>>) = 1 /\ <<F>>[1] = F
    BY <1>1
  <1>3. OnPath(T, <<F>>, 1)
    <2>1. F.group = Root /\ F.next = T.head[Root] /\ Root \in T.group
      BY DEF LinksOK, LibraryAgrees
    <2>2. F.next # Null => F.next \in T.live /\ T.parent[F.next] = Root
      BY <2>1, RootAssumption, FieldTypes, NullAssumption DEF LinksOK, EndsAgree, LibraryAgrees
    <2> QED
      BY <1>2, <2>1, <2>2 DEF OnPath
  <1> QED
    BY <1>2, <1>3 DEF Path, Distinct

\* A group of the innermost group is entered.
LEMMA PathPush ==
  ASSUME NEW T \in Trees, LinksOK(T), NEW st, Path(T, st), NEW n \in T.group, AtTop(T, st, n),
         NEW f \in {"Calc", "Trace", "Dump"}
  PROVE  Path(T, Append(st, [group |-> n, next |-> T.head[n], func |-> f]))
  <1> DEFINE F == [group |-> n, next |-> T.head[n], func |-> f]
             up == Append(st, F)
  <1>1. F \in Frame /\ n \in Node
    BY FieldTypes DEF Frame
  <1>2. /\ st \in Seq(Frame) /\ up \in Seq(Frame) /\ Len(up) = Len(st) + 1
        /\ up[Len(st) + 1] = F /\ \A i \in 1 .. Len(st) : up[i] = st[i]
        /\ Len(st) \in Nat \ {0}
    BY <1>1, TopIndex DEF Path, AtTop
  <1> HIDE DEF up
  <1>3. ASSUME NEW i \in 1 .. Len(st) PROVE OnPath(T, up, i)
    <2>1. i # 1 => i - 1 \in 1 .. Len(st)
      BY <1>2
    <2> QED
      BY <1>2, <2>1 DEF Path, OnPath
  <1>4. OnPath(T, up, Len(st) + 1)
    <2>1. F.group = n /\ F.next = T.head[n] /\ Len(st) \in 1 .. Len(st) /\ Len(st) + 1 # 1
      BY <1>2
    <2>2. T.parent[n] = up[Len(st)].group
      BY <1>2, <2>1 DEF AtTop
    <2>3. F.next # Null => F.next \in T.live /\ T.parent[F.next] = n
      BY <1>1, <2>1, FieldTypes, NullAssumption DEF LinksOK, EndsAgree, LibraryAgrees
    <2>4. Len(st) + 1 - 1 = Len(st)
      BY <1>2
    <2> QED
      BY <1>2, <2>1, <2>2, <2>3, <2>4 DEF OnPath
  <1>5. Distinct(up)
    <2>1. \A i \in 1 .. Len(st) : st[i].group # n
      BY OffPath
    <2>2. F.group = n
      OBVIOUS
    <2> HIDE DEF F
    <2>3. \A i \in 1 .. Len(up) : i \in 1 .. Len(st) \/ i = Len(st) + 1
      BY <1>2
    <2> QED
      BY <1>2, <2>1, <2>2, <2>3 DEF Path, Distinct
  <1>6. \A i \in 1 .. Len(up) : OnPath(T, up, i)
    BY <1>2, <1>3, <1>4
  <1> QED
    BY <1>2, <1>5, <1>6 DEF Path, up

\* The innermost loop reads mNext of the node it is about to call.
LEMMA PathAdvance ==
  ASSUME NEW T \in Trees, LinksOK(T), NEW st, Path(T, st), NEW n \in Node, AtTop(T, st, n)
  PROVE  LET up == [st EXCEPT ![Len(st)].next = T.next[n]]
         IN  /\ Path(T, up) /\ Len(up) = Len(st) /\ up # <<>>
             /\ \A i \in 1 .. Len(st) :
                  /\ up[i].group = st[i].group
                  /\ up[i].next = IF i = Len(st) THEN T.next[n] ELSE st[i].next
  <1> DEFINE up == [st EXCEPT ![Len(st)].next = T.next[n]]
  <1>0. /\ st \in Seq(Frame) /\ Len(st) \in 1 .. Len(st) /\ Len(st) \in Nat \ {0}
        /\ \A i \in 1 .. Len(st) : st[i] \in Frame
    BY TopIndex DEF Path, AtTop
  <1>1. T.next[n] \in Node \cup {Null}
    BY FieldTypes
  <1>2. /\ up \in Seq(Frame) /\ Len(up) = Len(st)
        /\ \A i \in 1 .. Len(st) : up[i] = IF i = Len(st) THEN [st[i] EXCEPT !.next = T.next[n]] ELSE st[i]
    BY <1>0, <1>1 DEF Frame
  <1>3. \A i \in 1 .. Len(st) :
           /\ up[i].group = st[i].group
           /\ up[i].next = IF i = Len(st) THEN T.next[n] ELSE st[i].next
    BY <1>0, <1>2 DEF Frame
  <1> HIDE DEF up
  <1>4. T.next[n] # Null => T.next[n] \in T.live /\ T.parent[T.next[n]] = st[Len(st)].group
    BY <1>1, NullAssumption DEF LinksOK, NeighboursAgree, LibraryAgrees, AtTop
  <1>5. ASSUME NEW i \in 1 .. Len(up) PROVE OnPath(T, up, i)
    <2>1. i \in 1 .. Len(st) /\ (i # 1 => i - 1 \in 1 .. Len(st))
      BY <1>0, <1>2
    <2>2. OnPath(T, st, i)
      BY <2>1 DEF Path
    <2> QED
      BY <1>3, <1>4, <2>1, <2>2 DEF OnPath
  <1>6. Distinct(up)
    BY <1>2, <1>3 DEF Path, Distinct
  <1>7. up # <<>>
    BY <1>0, <1>2
  <1> QED
    BY <1>2, <1>3, <1>5, <1>6, <1>7 DEF Path, up

\* The innermost loop ends.
LEMMA PathPop ==
  ASSUME NEW T, NEW st, Path(T, st), st # <<>>
  PROVE  Path(T, SubSeq(st, 1, Len(st) - 1))
  <1> DEFINE down == SubSeq(st, 1, Len(st) - 1)
  <1>0. st \in Seq(Frame) /\ Len(st) \in Nat \ {0} /\ \A i \in 1 .. Len(st) : st[i] \in Frame
    BY TopIndex DEF Path
  <1>1. /\ st \in Seq(Frame) /\ down \in Seq(Frame) /\ Len(down) = Len(st) - 1
        /\ \A i \in 1 .. Len(down) : down[i] = st[i] /\ i \in 1 .. Len(st)
        /\ Len(st) \in Nat \ {0}
    <2>1. \A i \in 1 .. Len(st) - 1 : st[i] \in Frame /\ i \in Nat
      BY <1>0
    <2>2. /\ down \in Seq(Frame)
          /\ Len(down) = IF 1 <= Len(st) - 1 THEN Len(st) - 1 - 1 + 1 ELSE 0
          /\ \A i \in 1 .. Len(st) - 1 - 1 + 1 : down[i] = st[1 + i - 1]
      BY <1>0, <2>1, SubSeqProperties
    <2> HIDE DEF down
    <2>3. Len(down) = Len(st) - 1
      <3>1. \A k \in Nat \ {0} : (IF 1 <= k - 1 THEN k - 1 - 1 + 1 ELSE 0) = k - 1
        OBVIOUS
      <3> QED
        BY <1>0, <2>2, <3>1
    <2>4. ASSUME NEW i \in 1 .. Len(st) - 1
          PROVE  down[i] = st[i] /\ i \in 1 .. Len(st)
      <3>1. i \in 1 .. Len(st) - 1 - 1 + 1 /\ 1 + i - 1 = i /\ i \in 1 .. Len(st)
        BY <1>0
      <3> QED
        BY <2>2, <3>1
    <2> QED
      BY <1>0, <2>2, <2>3, <2>4
  <1> HIDE DEF down
  <1>2. ASSUME NEW i \in 1 .. Len(down) PROVE OnPath(T, down, i)
    <2>1. i # 1 => i - 1 \in 1 .. Len(down)
      BY <1>1
    <2> QED
      BY <1>1, <2>1 DEF Path, OnPath
  <1>3. Distinct(down)
    BY <1>1 DEF Path, Distinct
  <1> QED
    BY <1>1, <1>2, <1>3 DEF Path, down

-----------------------------------------------------------------------------
(* What is freed during the walk is off the path. *)

\* U is T without the nodes of D.
Freed(T, U, D) ==
  /\ U.live = T.live \ D /\ U.group = T.group \ D
  /\ \A m \in Node \ D : U.parent[m] = T.parent[m]

LEMMA DeleteAllFrees ==
  ASSUME NEW T \in Trees, NEW g \in Node
  PROVE  Freed(T, DeleteAll(T, g), Below(T, g))
  BY DEF Freed, DeleteAll, Trees

LEMMA DtorFrees ==
  ASSUME NEW T \in Trees, NEW n \in Node
  PROVE  Freed(T, Dtor(T, n), {n})
  <1>1. /\ Remove(T, n).live = T.live /\ Remove(T, n).group = T.group
        /\ Remove(T, n).parent = [T.parent EXCEPT ![n] = Null]
    BY DEF Remove, Trees
  <1>2. /\ Dtor(T, n).live = Remove(T, n).live \ {n}
        /\ Dtor(T, n).group = Remove(T, n).group \ {n}
        /\ Dtor(T, n).parent = Remove(T, n).parent
    BY DEF Dtor, Remove, Trees
  <1> QED
    BY <1>1, <1>2, FieldTypes DEF Freed

LEMMA DeleteFrees ==
  ASSUME NEW T \in Trees, LinksOK(T), NEW n \in T.live, n # Root
  PROVE  \E D \in SUBSET (Below(T, n) \cup {n}) : Freed(T, Delete(T, n), D)
  <1>0. n \in Node
    BY FieldTypes
  <1>1. CASE n \in T.group
    <2> DEFINE V == DeleteAll(T, n)
    <2>1. V \in Trees /\ Freed(T, V, Below(T, n))
      BY <1>0, <1>1, DeleteAllOK, DeleteAllFrees
    <2>2. Freed(V, Dtor(V, n), {n})
      BY <1>0, <2>1, DtorFrees
    <2>3. Delete(T, n) = Dtor(V, n)
      BY <1>1 DEF Delete
    <2> HIDE DEF V
    <2>4. Freed(T, Delete(T, n), Below(T, n) \cup {n})
      BY <2>1, <2>2, <2>3 DEF Freed
    <2> QED
      BY <2>4
  <1>2. CASE n \notin T.group
    <2>1. Freed(T, Delete(T, n), {n})
      BY <1>0, <1>2, DtorFrees DEF Delete
    <2> QED
      BY <2>1
  <1> QED
    BY <1>1, <1>2

LEMMA DeepFreeFrees ==
  ASSUME NEW T \in Trees, NEW n \in T.live \ T.group, n # Root
  PROVE  Freed(T, Delete(Remove(T, n), n), {n})
  <1> DEFINE R == Remove(T, n)
  <1>0. n \in Node
    BY FieldTypes
  <1>1. R \in Trees /\ R.live = T.live /\ R.group = T.group
        /\ R.parent = [T.parent EXCEPT ![n] = Null]
    BY <1>0, NullAssumption DEF Remove, Trees, Pointers
  <1> HIDE DEF R
  <1>2. Freed(R, Dtor(R, n), {n})
    BY <1>0, <1>1, DtorFrees
  <1>3. Delete(R, n) = Dtor(R, n)
    BY <1>1 DEF Delete
  <1> QED
    BY <1>1, <1>2, <1>3, FieldTypes DEF Freed, R

\* A path none of whose groups and saved nodes is freed stays a path.
LEMMA PathKept ==
  ASSUME NEW T \in Trees, NEW U, NEW D, Freed(T, U, D), NEW st, Path(T, st),
         \A i \in 1 .. Len(st) : st[i].group \notin D /\ st[i].next \notin D
  PROVE  Path(U, st)
  <1>1. ASSUME NEW i \in 1 .. Len(st) PROVE OnPath(U, st, i)
    <2>1. OnPath(T, st, i) /\ st[i] \in Frame
      BY DEF Path
    <2>2. st[i].group \in Node \ D /\ (st[i].next # Null => st[i].next \in Node \ D)
      BY <2>1 DEF Frame
    <2> QED
      BY <2>1, <2>2 DEF OnPath, Freed
  <1> QED
    BY <1>1 DEF Path

\* Below a node of the innermost group nothing is on the path, saved or running.
LEMMA BelowOffPath ==
  ASSUME NEW T \in Trees, LinksOK(T), NEW st, Path(T, st), NEW n, AtTop(T, st, n)
  PROVE  /\ \A i \in 1 .. Len(st) : st[i].group \notin Below(T, n) \cup {n}
         /\ \A i \in 1 .. Len(st) : st[i].next \notin Below(T, n)
         /\ \A m : AtTop(T, st, m) => m \notin Below(T, n)
  <1>1. \A i \in 1 .. Len(st) : st[i].group \notin Below(T, n) \cup {n}
    BY OffPath
  <1>2. Null \notin Below(T, n)
    BY NullAssumption, FieldTypes DEF Below
  <1>3. \A i \in 1 .. Len(st) : st[i].next \notin Below(T, n)
    BY <1>1, <1>2, BelowParent DEF Path, OnPath
  <1>4. st # <<>> => Len(st) \in 1 .. Len(st)
    BY TopIndex DEF Path
  <1>5. \A m : AtTop(T, st, m) => m \notin Below(T, n)
    BY <1>1, <1>4, BelowParent DEF AtTop
  <1> QED
    BY <1>1, <1>3, <1>5

-----------------------------------------------------------------------------
(* The walk is safe. *)

Funcs == {"none", "First", "NullFirst", "Calc", "Null", "Trace", "Dump", "Delete"}

\* The calc functions of all nodes; the root, a group, never has one of a synth.
IsCalc(f) == f \in [Node -> Funcs] /\ f[Root] \in {"Calc", "Null", "Trace", "Dump", "Delete"}

\* The strengthening of WalkSafe: the groups on the stack are distinct, and a
\* loop of Group_DeepFreeGraphs inside the walk is over a group of the innermost
\* one, the loops of commands are not inside it.
WalkInv ==
  /\ IsCalc(calc)
  /\ Path(tree, stack)
  /\ running # Nobody => AtTop(tree, stack, running.node)
  /\ stack # <<>> /\ message # Idle =>
       message.name = "g_deepFree" /\ AtTop(tree, stack, message.node)

LEMMA WalkInvIsSafe == WalkInv => WalkSafe
  <1> SUFFICES ASSUME WalkInv PROVE WalkSafe
    OBVIOUS
  <1>1. ASSUME NEW i \in 1 .. Len(stack)
        PROVE  LET g == stack[i].group
                   q == stack[i].next
               IN /\ g \in tree.group
                  /\ IF i = 1 THEN g = Root ELSE tree.parent[g] = stack[i - 1].group
                  /\ q # Null => q \in tree.live /\ tree.parent[q] = g
    BY DEF WalkInv, Path, OnPath
  <1> QED
    BY <1>1 DEF WalkSafe, WalkInv, AtTop, Top

\* A step that changes neither the tree nor where the walk is.
LEMMA SameWalk ==
  ASSUME WalkInv, IsCalc(calc'), UNCHANGED <<tree, message, stack>>,
         running' # Nobody => running'.node = running.node /\ running # Nobody
  PROVE  WalkInv'
  BY DEF WalkInv, Path, OnPath, Distinct, AtTop

\* A step at rest.
LEMMA RestWalk ==
  ASSUME AtRest, UNCHANGED walk, IsCalc(calc')
  PROVE  WalkInv'
  BY DEF AtRest, walk, WalkInv, Path, Distinct, Nobody

\* The calc functions after a step are again calc functions.
LEMMA FollowType ==
  ASSUME IInv, IInv', NEW f, IsCalc(f), Follow(f)
  PROVE  IsCalc(calc')
  <1>1. Root \in tree.live /\ Root \in tree'.live
    BY DEF IInv, ListsWhole, LinksOK, LibraryAgrees
  <1>2. f \in [Node -> Funcs] /\ f[Root] \in {"Calc", "Null", "Trace", "Dump", "Delete"}
    BY DEF IsCalc
  <1>3. calc' \in [Node -> Funcs] /\ calc'[Root] = f[Root]
    BY <1>1, <1>2, RootAssumption DEF Follow, CalcFuncs, Funcs
  <1> QED
    BY <1>2, <1>3 DEF IsCalc

\* Giving one node a calc function that the root may have too.
LEMMA UpdateType ==
  ASSUME IsCalc(calc), NEW n \in Node, NEW v \in {"Calc", "Null", "Trace", "Dump", "Delete"}
  PROVE  IsCalc([calc EXCEPT ![n] = v])
  BY RootAssumption DEF IsCalc, Funcs

\* Node_SetRun on one node.
LEMMA SetRunType ==
  ASSUME IsCalc(calc), NEW n \in Node
  PROVE  /\ IsCalc([calc EXCEPT ![n] = Paused(calc[n])])
         /\ IsCalc([calc EXCEPT ![n] = Resumed(calc[n])])
  <1> USE RootAssumption
  <1>1. /\ Paused(calc[n]) \in Funcs /\ Resumed(calc[n]) \in Funcs
        /\ n = Root => /\ Paused(calc[n]) \in {"Calc", "Null", "Trace", "Dump", "Delete"}
                       /\ Resumed(calc[n]) \in {"Calc", "Null", "Trace", "Dump", "Delete"}
    BY DEF IsCalc, Funcs, Paused, Resumed
  <1> HIDE DEF Paused, Resumed
  <1> QED
    BY <1>1 DEF IsCalc

LEMMA EndedAndPausedType ==
  ASSUME IsCalc(calc), NEW ended, NEW paused
  PROVE  IsCalc(EndedAndPaused(ended, paused))
  BY RootAssumption DEF EndedAndPaused, Paused, IsCalc, Funcs

\* A step that frees nodes below a node of the innermost group.
LEMMA FreeBelowWalk ==
  ASSUME WalkInv, IInv, NEW n, AtTop(tree, stack, n),
         NEW D \in SUBSET Below(tree, n), Freed(tree, tree', D),
         IsCalc(calc'), UNCHANGED <<stack, running>>,
         message' = Idle \/ (message' = message /\ message.node \notin D)
  PROVE  WalkInv'
  <1>1. tree \in Trees /\ LinksOK(tree) /\ Path(tree, stack)
    BY DEF IInv, TypeOK, ListsWhole, WalkInv
  <1>2. /\ \A i \in 1 .. Len(stack) : stack[i].group \notin D /\ stack[i].next \notin D
        /\ \A m : AtTop(tree, stack, m) => m \notin D
    BY <1>1, BelowOffPath
  <1>3. Path(tree', stack)
    BY <1>1, <1>2, PathKept
  <1>4. ASSUME NEW m, AtTop(tree, stack, m) PROVE AtTop(tree', stack, m)
    <2>1. m \in Node \ D
      BY <1>1, <1>2, <1>4, FieldTypes DEF AtTop
    <2> QED
      BY <1>4, <2>1 DEF AtTop, Freed
  <1> QED
    BY <1>3, <1>4 DEF WalkInv

\* A call of a node's calc function from the innermost loop.
LEMMA VisitWalk ==
  ASSUME WalkInv, IInv, IInv', NEW n \in Node, Visit(n)
  PROVE  WalkInv'
  <1> DEFINE saved == [stack EXCEPT ![Len(stack)].next = tree.next[n]]
  <1>0. /\ tree \in Trees /\ LinksOK(tree) /\ Path(tree, stack) /\ IsCalc(calc)
        /\ stack # <<>> /\ running = Nobody /\ message = Idle /\ n = stack[Len(stack)].next
    BY DEF IInv, TypeOK, ListsWhole, WalkInv, Visit, Walking, Top
  <1>1. stack \in Seq(Frame) /\ Len(stack) \in 1 .. Len(stack)
    BY <1>0, TopIndex DEF Path
  <1>2. AtTop(tree, stack, n)
    BY <1>0, <1>1, NullAssumption DEF Path, OnPath, AtTop
  <1>3. /\ Path(tree, saved) /\ Len(saved) = Len(stack) /\ saved # <<>>
        /\ \A i \in 1 .. Len(stack) :
             /\ saved[i].group = stack[i].group
             /\ saved[i].next = IF i = Len(stack) THEN tree.next[n] ELSE stack[i].next
    BY <1>0, <1>2, PathAdvance
  <1>4. AtTop(tree, saved, n)
    BY <1>1, <1>2, <1>3 DEF AtTop
  <1>5. Call(n, FuncOf(n), saved)
    BY DEF Visit, Advanced
  <1> HIDE DEF saved
  <1>6. FuncOf(n) \in Funcs
    BY <1>0 DEF FuncOf, IsCalc, Funcs
  <1>7. CASE stack' = saved /\ UNCHANGED <<tree, message, calc, running>>
    BY <1>0, <1>3, <1>7 DEF WalkInv, Path, OnPath, Distinct
  <1>8. CASE NFree(n) /\ Follow(calc) /\ stack' = saved /\ UNCHANGED running
    <2>1. n # Root
      BY <1>0, <1>1, <1>2, TopIndex, NullAssumption DEF AtTop, LinksOK, LibraryAgrees, Frame
    <2>2. n \in tree.live /\ tree' = Delete(tree, n) /\ message' = Idle
      BY <1>0, <1>8 DEF NFree
    <2>3. PICK D \in SUBSET (Below(tree, n) \cup {n}) : Freed(tree, tree', D)
      BY <1>0, <2>1, <2>2, DeleteFrees
    <2>4. \A i \in 1 .. Len(saved) : saved[i].group \notin D /\ saved[i].next \notin Below(tree, n)
      BY <1>0, <1>3, <1>4, BelowOffPath
    <2>5. ASSUME NEW i \in 1 .. Len(saved), saved[i].next = n PROVE FALSE
      <3>1. CASE i = Len(stack)
        <4>1. tree.next[n] = n
          BY <1>3, <2>5, <3>1
        <4>2. {n} \in SUBSET Node /\ {n} # {} /\ \A m \in {n} : tree.next[m] \in {n}
          BY <4>1
        <4> QED
          BY <1>0, <4>2 DEF LinksOK, NoRings
      <3>2. CASE i # Len(stack)
        <4>1. saved[i].group = saved[Len(stack)].group
          BY <1>0, <1>1, <1>3, <1>4, <2>5, NullAssumption DEF Path, OnPath, AtTop
        <4> QED
          BY <1>1, <1>3, <3>2, <4>1 DEF Path, Distinct
      <3> QED
        BY <3>1, <3>2
    <2>6. Path(tree', saved)
      BY <1>0, <1>3, <2>3, <2>4, <2>5, PathKept
    <2>7. IsCalc(calc')
      BY <1>0, <1>8, FollowType
    <2> QED
      BY <1>0, <1>8, <2>2, <2>6, <2>7 DEF WalkInv
  <1>9. CASE /\ n \in tree.group /\ FuncOf(n) \in {"Calc", "Trace", "Dump"}
             /\ stack' = Append(saved, [group |-> n, next |-> tree.head[n], func |-> FuncOf(n)])
             /\ calc' = [calc EXCEPT ![n] = FuncOf(n)]
             /\ UNCHANGED <<tree, message, running>>
    <2>1. Path(tree, stack')
      BY <1>0, <1>3, <1>4, <1>9, PathPush
    <2>2. IsCalc(calc')
      BY <1>0, <1>6, <1>9 DEF IsCalc
    <2>3. Path(tree', stack') /\ running' = Nobody /\ (stack' # <<>> /\ message' # Idle => FALSE)
      BY <1>0, <1>9, <2>1
    <2> QED
      BY <2>2, <2>3 DEF WalkInv
  <1>10. CASE /\ running' = [node |-> n, func |-> FuncOf(n)] /\ stack' = saved
              /\ UNCHANGED <<tree, message, calc>>
    <2>1. running'.node = n
      BY <1>10
    <2> QED
      BY <1>0, <1>3, <1>4, <1>10, <2>1 DEF WalkInv, Path, OnPath, Distinct, AtTop
  <1> QED
    BY <1>5, <1>7, <1>8, <1>9, <1>10 DEF Call

\* A unit's done action.
LEMMA DoneActionWalk ==
  ASSUME WalkInv, IInv, IInv', NEW a \in 1 .. 14, DoneAction(a)
  PROVE  WalkInv'
  <1> DEFINE s == running.node
             m == IF a % 2 = 1 THEN tree.prev[s] ELSE tree.next[s]
  <1>0. /\ tree \in Trees /\ LinksOK(tree) /\ IsCalc(calc)
        /\ running # Nobody /\ UNCHANGED <<stack, running>> /\ message = Idle
        /\ stack # <<>> /\ AtTop(tree, stack, s)
    BY DEF IInv, TypeOK, ListsWhole, WalkInv, DoneAction, walk, AtTop
  <1>1. PICK ended, paused : Follow(EndedAndPaused(ended, paused))
    BY DEF DoneAction
  <1>2. IsCalc(calc')
    BY <1>0, <1>1, EndedAndPausedType, FollowType
  <1>3. \/ m \in tree.group /\ GFreeAll(m)
        \/ m \in tree.group /\ DeepFreeBegin(m)
        \/ UNCHANGED <<tree, message>>
    BY DEF DoneAction, EmptyNeighbour
  <1>4. m \in tree.group => AtTop(tree, stack, m) /\ m \in Node
    <2>1. s \in Node
      BY <1>0, FieldTypes DEF AtTop
    <2> SUFFICES ASSUME m \in tree.group PROVE AtTop(tree, stack, m) /\ m \in Node
      OBVIOUS
    <2>2. m \in Node /\ m \in tree.live /\ (m = tree.prev[s] \/ m = tree.next[s])
      BY <1>0, FieldTypes DEF LinksOK, LibraryAgrees
    <2> HIDE DEF m
    <2>3. tree.parent[m] = tree.parent[s]
      BY <1>0, <2>1, <2>2 DEF LinksOK, NeighboursAgree
    <2> QED
      BY <1>0, <2>2, <2>3 DEF AtTop
  <1> HIDE DEF m, s
  <1>5. CASE m \in tree.group /\ GFreeAll(m)
    <2>1. Freed(tree, tree', Below(tree, m)) /\ message' = Idle
      BY <1>0, <1>4, <1>5, DeleteAllFrees DEF GFreeAll
    <2> QED
      BY <1>0, <1>2, <1>4, <1>5, <2>1, FreeBelowWalk
  <1>6. CASE m \in tree.group /\ DeepFreeBegin(m)
    BY <1>0, <1>2, <1>4, <1>6 DEF DeepFreeBegin, Command, WalkInv, AtTop
  <1>7. CASE UNCHANGED <<tree, message>>
    BY <1>0, <1>2, <1>7, SameWalk
  <1> QED
    BY <1>3, <1>5, <1>6, <1>7

\* A turn of the loop of Group_DeepFreeGraphs, between blocks or inside one.
LEMMA DeepFreeWalk ==
  ASSUME WalkInv, IInv, IInv', DeepFreeLoop
  PROVE  WalkInv'
  <1>0. /\ tree \in Trees /\ LinksOK(tree) /\ IsCalc(calc)
        /\ UNCHANGED <<stack, running>> /\ Follow(calc)
    BY DEF IInv, TypeOK, ListsWhole, WalkInv, DeepFreeLoop, walk
  <1>1. IsCalc(calc')
    BY <1>0, FollowType
  <1>2. CASE stack = <<>>
    <2>1. AtRest
      BY <1>2 DEF WalkInv, AtTop, AtRest
    <2> QED
      BY <1>1, <2>1, RestWalk DEF DeepFreeLoop
  <1>3. CASE stack # <<>> /\ DeepFreeEnd
    BY <1>0, <1>1, <1>3 DEF DeepFreeEnd, WalkInv
  <1>4. ASSUME stack # <<>>, NEW n \in Node, DeepFreeNext(n) PROVE WalkInv'
    <2>1. /\ message.name = "g_deepFree" /\ message' = message
          /\ n \in Below(tree, message.node) /\ n \in tree.live \ tree.group
          /\ tree' = Delete(Remove(tree, n), n)
      BY <1>4 DEF DeepFreeNext, SynthsBelow, Below
    <2>2. message # Idle
      BY <2>1 DEF Idle
    <2>3. AtTop(tree, stack, message.node) /\ message.node \in tree.group
      BY <1>4, <2>1, <2>2 DEF WalkInv, IInv, HeldLive
    <2>4. n # Root
      BY <1>0, <2>1 DEF LinksOK, LibraryAgrees
    <2>5. Freed(tree, tree', {n})
      BY <1>0, <2>1, <2>4, DeepFreeFrees
    <2> QED
      BY <1>0, <1>1, <2>1, <2>3, <2>5, FreeBelowWalk
  <1> QED
    BY <1>2, <1>3, <1>4 DEF DeepFreeLoop

LEMMA InitWalkInv == CalcInit => WalkInv
  BY RootAssumption DEF CalcInit, Init, Idle, WalkInv, Path, Distinct, IsCalc, Funcs, Nobody

LEMMA NextWalkInv == WalkInv /\ IInv /\ IInv' /\ [CalcNext]_calcVars => WalkInv'
  <1> SUFFICES ASSUME WalkInv, IInv, IInv', [CalcNext]_calcVars PROVE WalkInv'
    OBVIOUS
  <1>0. /\ tree \in Trees /\ LinksOK(tree) /\ IsCalc(calc) /\ Path(tree, stack)
    BY DEF IInv, TypeOK, ListsWhole, WalkInv
  <1>1. CASE ClientCommand
    BY <1>0, <1>1, FollowType, RestWalk DEF ClientCommand
  <1>2. ASSUME NEW n \in Node, NRun(n, 0) \/ NRun(n, 1) PROVE WalkInv'
    <2>1. AtRest /\ UNCHANGED walk
      BY <1>2 DEF NRun
    <2>2. IsCalc(calc')
      BY <1>0, <1>2, SetRunType DEF NRun
    <2> QED
      BY <2>1, <2>2, RestWalk
  <1>3. ASSUME NEW n \in Node, NTrace(n) \/ GDumpTree(n) PROVE WalkInv'
    <2>1. AtRest /\ UNCHANGED walk
      BY <1>3 DEF NTrace, GDumpTree
    <2>2. IsCalc(calc')
      BY <1>0, <1>3, UpdateType DEF NTrace, GDumpTree
    <2> QED
      BY <2>1, <2>2, RestWalk
  <1>4. CASE BlockBegin
    <2>1. CASE UNCHANGED stack
      BY <1>0, <1>4, <2>1, SameWalk DEF BlockBegin
    <2>2. CASE /\ calc[Root] \notin {"Null", "Delete"}
               /\ stack' = <<[group |-> Root, next |-> tree.head[Root], func |-> calc[Root]]>>
      <3>1. calc[Root] \in {"Calc", "Trace", "Dump"}
        BY <2>2 DEF WalkInv, IsCalc
      <3>2. Path(tree, stack')
        BY <1>0, <2>2, <3>1, PathStart
      <3>3. running' = Nobody /\ message' = Idle /\ UNCHANGED <<tree, calc>>
        BY <1>4 DEF BlockBegin, AtRest
      <3> QED
        BY <1>0, <3>2, <3>3 DEF WalkInv, Path, OnPath, Distinct
    <2> QED
      BY <1>4, <2>1, <2>2 DEF BlockBegin
  <1>5. ASSUME NEW n \in Node, Visit(n) PROVE WalkInv'
    BY <1>5, VisitWalk
  <1>6. CASE Leave
    <2>1. stack # <<>> /\ running = Nobody /\ message = Idle
          /\ stack' = SubSeq(stack, 1, Len(stack) - 1)
          /\ UNCHANGED <<tree, message, running>>
      BY <1>6 DEF Leave, Walking
    <2>2. Path(tree, stack')
      BY <1>0, <2>1, PathPop
    <2>3. IsCalc(calc')
      <3>1. Top.group \in Node
        BY <1>0, <2>1, TopIndex DEF Path, Top, Frame
      <3> QED
        BY <1>0, <1>6, <3>1, UpdateType DEF Leave
    <2> QED
      BY <2>1, <2>2, <2>3 DEF WalkInv, Path, OnPath, Distinct
  <1>7. CASE CtorsEnd
    <2>0. running.node \in Node
      BY <1>0, <1>7, FieldTypes DEF CtorsEnd, Nobody, WalkInv, AtTop
    <2>1. running # Nobody /\ (running' # Nobody => running'.node = running.node)
      BY <1>7 DEF CtorsEnd, Nobody, WalkInv
    <2>2. IsCalc(calc')
      BY <1>0, <1>7, <2>0, UpdateType DEF CtorsEnd
    <2> QED
      BY <1>7, <2>1, <2>2, SameWalk DEF CtorsEnd
  <1>8. CASE UnitsEnd
    <2>0. running.node \in Node
      BY <1>0, <1>8, FieldTypes DEF UnitsEnd, Nobody, WalkInv, AtTop
    <2>1. IsCalc(calc')
      BY <1>0, <1>8, <2>0, UpdateType DEF UnitsEnd
    <2> QED
      BY <1>8, <2>1, SameWalk DEF UnitsEnd
  <1>9. ASSUME NEW a \in 1 .. 14, DoneAction(a) PROVE WalkInv'
    BY <1>9, DoneActionWalk
  <1>10. ASSUME NEW act \in {"free", "pause", "resume"}, NEW n \in Node, UnitAct(act, n)
         PROVE  WalkInv'
    <2>1. IsCalc(calc')
      BY <1>0, <1>10 DEF UnitAct, Paused, Resumed, IsCalc, Funcs
    <2> QED
      BY <1>10, <2>1, SameWalk DEF UnitAct, walk
  <1>11. CASE UNCHANGED calcVars
    BY <1>0, <1>11, SameWalk DEF calcVars
  <1> QED
    BY <1>1, <1>2, <1>3, <1>4, <1>5, <1>6, <1>7, <1>8, <1>9, <1>10, <1>11, DeepFreeWalk
    DEF CalcNext, Commands, Block

\* Nothing that Group_Calc still holds is freed under it: the next pointers it
\* has saved, the groups it is in, and the synth whose units are being called.
THEOREM WalkIsSafe == CalcSpec => []WalkSafe
  <1>1. CalcSpec => []WalkInv
    BY InitWalkInv, NextWalkInv, TreeInvariance, PTL DEF CalcSpec
  <1> QED
    BY <1>1, WalkInvIsSafe, PTL

-----------------------------------------------------------------------------
(* No node is visited twice. *)

Before(T, m, v) == T.prev[m] = Null \/ T.prev[m] \in v

Ordered(T, st, v) ==
  /\ \A i \in 1 .. Len(st) :
       /\ st[i].group \in v
       /\ st[i].next # Null => st[i].next \notin v /\ Before(T, st[i].next, v)
  /\ \A m \in v \cap T.live : Before(T, m, v) /\ (T.parent[m] # Null => T.parent[m] \in v)

\* The nodes left in U are where they were in T, but for a node before them that was
\* freed.
Kept(T, U) ==
  /\ U.live \subseteq T.live
  /\ \A m \in U.live :
       /\ U.parent[m] = T.parent[m]
       /\ \/ U.prev[m] = T.prev[m]
          \/ T.prev[m] \in T.live \ U.live /\ U.prev[m] = T.prev[T.prev[m]]

-----------------------------------------------------------------------------
(* Freeing keeps nodes where they are. *)

LEMMA DeleteAllKept ==
  ASSUME NEW T \in Trees, NEW g \in Node
  PROVE  Kept(T, DeleteAll(T, g))
  BY FieldTypes DEF Kept, DeleteAll, Trees

LEMMA RemoveFields ==
  ASSUME NEW T \in Trees, LinksOK(T), NEW n \in Node
  PROVE  /\ \A m \in Node \ {n} :
              /\ Remove(T, n).parent[m] = T.parent[m]
              /\ \/ Remove(T, n).prev[m] = T.prev[m]
                 \/ T.prev[m] = n /\ Remove(T, n).prev[m] = T.prev[n]
         /\ Remove(T, n).live = T.live /\ Remove(T, n).next[n] = Null
  <1> DEFINE R == Remove(T, n)
  <1>1. /\ R.live = T.live
        /\ R.parent = [T.parent EXCEPT ![n] = Null]
        /\ R.prev = [m \in Node |-> IF m = n THEN Null ELSE IF m = T.next[n] THEN T.prev[n] ELSE T.prev[m]]
        /\ R.next = [m \in Node |-> IF m = n THEN Null ELSE IF m = T.prev[n] THEN T.next[n] ELSE T.next[m]]
    BY DEF Remove, Trees
  <1> HIDE DEF R
  <1>2. \A m \in Node : m = T.next[n] => T.prev[m] = n
    BY DEF LinksOK, NeighboursAgree
  <1>3. \A m \in Node \ {n} : R.parent[m] = T.parent[m]
    BY <1>1, FieldTypes
  <1>4. \A m \in Node \ {n} : R.prev[m] = T.prev[m] \/ (T.prev[m] = n /\ R.prev[m] = T.prev[n])
    BY <1>1, <1>2
  <1> QED
    BY <1>1, <1>3, <1>4 DEF R

LEMMA PrevLive ==
  ASSUME NEW T, LinksOK(T), NEW m \in Node, T.prev[m] \in Node
  PROVE  T.prev[m] \in T.live /\ T.parent[T.prev[m]] = T.parent[m]
  BY NullAssumption DEF LinksOK, NeighboursAgree, LibraryAgrees

LEMMA DtorKept ==
  ASSUME NEW T \in Trees, LinksOK(T), NEW n \in Node
  PROVE  Kept(T, Dtor(T, n))
  <1> DEFINE R == Remove(T, n)
  <1>1. R \in Trees /\ R.live = T.live
    BY RemoveOK
  <1>2. \A m \in Node \ {n} :
           /\ R.parent[m] = T.parent[m]
           /\ R.prev[m] = T.prev[m] \/ (T.prev[m] = n /\ R.prev[m] = T.prev[n])
    BY RemoveFields
  <1> HIDE DEF R
  <1>3. Dtor(T, n) = [R EXCEPT !.live = R.live \ {n}, !.group = R.group \ {n}]
    BY DEF Dtor, R
  <1>4. Dtor(T, n).live = T.live \ {n} /\ Dtor(T, n).parent = R.parent /\ Dtor(T, n).prev = R.prev
    BY <1>1, <1>3 DEF Trees
  <1>5. \A m \in Node : T.prev[m] = n => n \in T.live
    BY PrevLive
  <1> QED
    BY <1>2, <1>4, <1>5, FieldTypes DEF Kept

LEMMA DeleteKept ==
  ASSUME NEW T \in Trees, LinksOK(T), NEW n \in T.live, n # Root
  PROVE  Kept(T, Delete(T, n))
  <1>0. n \in Node
    BY FieldTypes
  <1>1. CASE n \in T.group
    <2> DEFINE V == DeleteAll(T, n)
    <2>1. V \in Trees /\ LinksOK(V)
      BY <1>1, DeleteAllOK
    <2>2. /\ V.live = T.live \ Below(T, n)
          /\ \A m \in V.live : V.parent[m] = T.parent[m] /\ V.prev[m] = T.prev[m]
      BY FieldTypes DEF DeleteAll, Trees
    <2>3. Delete(T, n) = Dtor(V, n)
      BY <1>1 DEF Delete
    <2> HIDE DEF V
    <2>4. Kept(V, Dtor(V, n))
      BY <1>0, <2>1, DtorKept
    <2> QED
      BY <2>2, <2>3, <2>4 DEF Kept
  <1>2. CASE n \notin T.group
    BY <1>0, <1>2, DtorKept DEF Delete
  <1> QED
    BY <1>1, <1>2

LEMMA DeepFreeKept ==
  ASSUME NEW T \in Trees, LinksOK(T), NEW n \in T.live \ T.group, n # Root
  PROVE  Kept(T, Delete(Remove(T, n), n))
  <1> DEFINE R == Remove(T, n)
             U == Dtor(R, n)
  <1>0. n \in Node
    BY FieldTypes
  <1>1. R \in Trees /\ LinksOK(R) /\ R.live = T.live /\ R.group = T.group
    BY <1>0, RemoveOK
  <1>2. /\ \A m \in Node \ {n} :
             /\ R.parent[m] = T.parent[m]
             /\ R.prev[m] = T.prev[m] \/ (T.prev[m] = n /\ R.prev[m] = T.prev[n])
        /\ R.next[n] = Null
    BY <1>0, RemoveFields
  <1> HIDE DEF R
  <1>3. \A m \in Node : R.prev[m] # n
    BY <1>0, <1>1, <1>2, NullAssumption DEF LinksOK, NeighboursAgree
  <1>4. \A m \in Node \ {n} : Remove(R, n).prev[m] = R.prev[m] /\ Remove(R, n).parent[m] = R.parent[m]
    BY <1>0, <1>1, <1>3, RemoveFields
  <1>5. /\ Remove(R, n) \in Trees /\ Remove(R, n).live = R.live
    BY <1>0, <1>1, RemoveOK
  <1>6. U.live = T.live \ {n} /\ U.parent = Remove(R, n).parent /\ U.prev = Remove(R, n).prev
    BY <1>1, <1>5 DEF Dtor, Trees
  <1>7. Delete(R, n) = U
    BY <1>1 DEF Delete
  <1> HIDE DEF U
  <1>8. Kept(T, U)
    BY <1>2, <1>4, <1>6, FieldTypes DEF Kept
  <1> QED
    BY <1>7, <1>8 DEF R

-----------------------------------------------------------------------------
(* The order of the walk. *)

LEMMA KeptOrdered ==
  ASSUME NEW T \in Trees, LinksOK(T), NEW U, Kept(T, U),
         NEW st, Path(U, st), NEW v, Ordered(T, st, v)
  PROVE  Ordered(U, st, v)
  <1>1. ASSUME NEW m \in U.live, Before(T, m, v) PROVE Before(U, m, v)
    <2>1. T.prev[m] # Null => T.prev[m] \in v /\ T.prev[m] \in T.live
      BY <1>1, FieldTypes DEF Before, Kept, LinksOK, NeighboursAgree, LibraryAgrees
    <2>2. T.prev[m] # Null => T.prev[T.prev[m]] = Null \/ T.prev[T.prev[m]] \in v
      BY <2>1 DEF Ordered, Before
    <2>3. Null \notin T.live
      BY FieldTypes, NullAssumption
    <2> QED
      BY <2>1, <2>2, <2>3 DEF Kept, Before
  <1>2. ASSUME NEW i \in 1 .. Len(st)
        PROVE  /\ st[i].group \in v
               /\ st[i].next # Null => st[i].next \notin v /\ Before(U, st[i].next, v)
    BY <1>1 DEF Ordered, Path, OnPath, Kept
  <1>3. \A m \in v \cap U.live : Before(U, m, v) /\ (U.parent[m] # Null => U.parent[m] \in v)
    BY <1>1 DEF Ordered, Kept
  <1> QED
    BY <1>2, <1>3 DEF Ordered

\* The call of node n: its turn is over, and the turn of the next node comes.
LEMMA OrderedAdvance ==
  ASSUME NEW T \in Trees, LinksOK(T), NEW st, Path(T, st), st # <<>>,
         NEW v, Ordered(T, st, v),
         NEW n \in Node, n = st[Len(st)].next,
         NEW up, Len(up) = Len(st),
         \A i \in 1 .. Len(st) :
           /\ up[i].group = st[i].group
           /\ up[i].next = IF i = Len(st) THEN T.next[n] ELSE st[i].next
  PROVE  Ordered(T, up, v \cup {n})
  <1>0. /\ st \in Seq(Frame) /\ Len(st) \in 1 .. Len(st) /\ n # Null
        /\ n \notin v /\ Before(T, n, v) /\ st[Len(st)].group \in v
    BY TopIndex, NullAssumption DEF Path, Ordered
  <1>1. n \in T.live /\ T.parent[n] = st[Len(st)].group
    BY <1>0 DEF Path, OnPath
  <1>2. ASSUME NEW i \in 1 .. Len(st), i # Len(st), st[i].next # Null
        PROVE  st[i].next \notin v \cup {n} /\ Before(T, st[i].next, v \cup {n})
    <2>1. st[i].next # n
      BY <1>0, <1>1, <1>2 DEF Path, OnPath, Distinct
    <2> QED
      BY <1>2, <2>1 DEF Ordered, Before
  <1>3. ASSUME T.next[n] # Null
        PROVE  T.next[n] \notin v \cup {n} /\ Before(T, T.next[n], v \cup {n})
    <2> DEFINE q == T.next[n]
    <2>1. q \in Node /\ T.prev[q] = n /\ q \in T.live
      BY <1>3, FieldTypes, NullAssumption DEF LinksOK, NeighboursAgree, LibraryAgrees
    <2>2. q # n
      <3> SUFFICES ASSUME q = n PROVE FALSE
        OBVIOUS
      <3>1. \A m \in {n} : T.next[m] \in {n}
        OBVIOUS
      <3> QED
        BY <3>1 DEF LinksOK, NoRings
    <2> HIDE DEF q
    <2>3. q \notin v
      BY <1>0, <2>1 DEF Ordered, Before
    <2> QED
      BY <2>1, <2>2, <2>3 DEF q, Before
  <1>4. ASSUME NEW m \in (v \cup {n}) \cap T.live
        PROVE  /\ Before(T, m, v \cup {n})
               /\ T.parent[m] # Null => T.parent[m] \in v \cup {n}
    BY <1>0, <1>1, <1>4 DEF Ordered, Before
  <1> QED
    BY <1>2, <1>3, <1>4 DEF Ordered

\* The call of a group: its own nodes come next, and none has been visited.
LEMMA OrderedPush ==
  ASSUME NEW T \in Trees, LinksOK(T), NEW st, st \in Seq(Frame), NEW v,
         NEW n \in Node, n \notin v, n \in T.live, T.parent[n] \in v,
         Ordered(T, st, v \cup {n}),
         \A m \in v \cap T.live : T.parent[m] # Null => T.parent[m] \in v,
         NEW f
  PROVE  Ordered(T, Append(st, [group |-> n, next |-> T.head[n], func |-> f]), v \cup {n})
  <1> DEFINE F == [group |-> n, next |-> T.head[n], func |-> f]
             up == Append(st, F)
  <1>1. /\ Len(up) = Len(st) + 1 /\ up[Len(st) + 1] = F
        /\ \A i \in 1 .. Len(st) : up[i] = st[i]
    OBVIOUS
  <1>2. F.group = n /\ F.next = T.head[n]
    OBVIOUS
  <1>3. ASSUME T.head[n] # Null
        PROVE  T.head[n] \notin v \cup {n} /\ Before(T, T.head[n], v \cup {n})
    <2> DEFINE h == T.head[n]
    <2>1. h \in Node /\ T.parent[h] = n /\ T.prev[h] = Null /\ h \in T.live
      BY <1>3, FieldTypes, NullAssumption DEF LinksOK, EndsAgree, LibraryAgrees
    <2> HIDE DEF h
    <2>2. h \notin v /\ h # n
      BY <2>1, NullAssumption
    <2> QED
      BY <2>1, <2>2 DEF h, Before
  <1> HIDE DEF up, F
  <1>4. ASSUME NEW i \in 1 .. Len(up)
        PROVE  /\ up[i].group \in v \cup {n}
               /\ up[i].next # Null =>
                    up[i].next \notin v \cup {n} /\ Before(T, up[i].next, v \cup {n})
    <2>1. CASE i = Len(st) + 1
      BY <1>1, <1>2, <1>3, <2>1
    <2>2. CASE i # Len(st) + 1
      <3>1. i \in 1 .. Len(st)
        BY <1>1, <2>2
      <3> QED
        BY <1>1, <3>1 DEF Ordered
    <2> QED
      BY <2>1, <2>2
  <1> QED
    BY <1>4 DEF Ordered, up, F

LEMMA OrderedPop ==
  ASSUME NEW T, NEW st \in Seq(Frame), st # <<>>, NEW v, Ordered(T, st, v)
  PROVE  /\ Ordered(T, SubSeq(st, 1, Len(st) - 1), v)
         /\ Len(SubSeq(st, 1, Len(st) - 1)) = Len(st) - 1
  <1> DEFINE up == SubSeq(st, 1, Len(st) - 1)
  <1>1. Len(up) = Len(st) - 1 /\ \A i \in 1 .. Len(st) - 1 : up[i] = st[i]
    OBVIOUS
  <1> HIDE DEF up
  <1>2. \A i \in 1 .. Len(up) : i \in 1 .. Len(st) /\ up[i] = st[i]
    BY <1>1
  <1> QED
    BY <1>1, <1>2 DEF Ordered, up

-----------------------------------------------------------------------------
(* No node is called twice in a block. *)

OnceInv ==
  /\ stack = <<>> => visited = {}
  /\ Ordered(tree, stack, visited)

LEMMA RestOnce ==
  ASSUME stack' = <<>>, visited' = {}
  PROVE  OnceInv'
  BY DEF OnceInv, Ordered

LEMMA KeptOnce ==
  ASSUME IInv, OnceInv, WalkInv', UNCHANGED <<stack, visited>>,
         UNCHANGED tree \/ Kept(tree, tree')
  PROVE  OnceInv'
  <1>1. tree \in Trees /\ LinksOK(tree) /\ Path(tree', stack)
    BY DEF IInv, TypeOK, ListsWhole, WalkInv
  <1>2. CASE UNCHANGED tree
    BY <1>2 DEF OnceInv, Ordered, Before
  <1>3. CASE Kept(tree, tree')
    <2>1. Ordered(tree', stack, visited)
      BY <1>1, <1>3, KeptOrdered DEF OnceInv
    <2> QED
      BY <2>1 DEF OnceInv, Ordered, Before
  <1> QED
    BY <1>2, <1>3

LEMMA BeginOnce ==
  ASSUME IInv, OnceInv, BlockBegin
  PROVE  OnceInv'
  <1>1. /\ tree \in Trees /\ LinksOK(tree) /\ UNCHANGED tree /\ Root \in Node
        /\ stack = <<>> /\ visited = {}
    BY RootAssumption DEF IInv, TypeOK, ListsWhole, BlockBegin, AtRest, OnceInv
  <1>2. CASE UNCHANGED <<stack, visited>>
    BY <1>1, <1>2, RestOnce
  <1>3. CASE /\ stack' = <<[group |-> Root, next |-> tree.head[Root], func |-> calc[Root]]>>
             /\ visited' = {Root}
    <2>1. tree.parent[Root] = Null /\ tree.prev[Root] = Null
      BY <1>1, FieldTypes DEF LinksOK, NeighboursAgree, LibraryAgrees
    <2>2. tree.head[Root] # Null => tree.head[Root] # Root /\ tree.prev[tree.head[Root]] = Null
      BY <1>1, <2>1, FieldTypes, NullAssumption DEF LinksOK, EndsAgree
    <2>3. /\ Len(stack') = 1 /\ stack'[1].group = Root /\ stack'[1].next = tree.head[Root]
          /\ stack' # <<>>
      BY <1>3
    <2>4. Ordered(tree, stack', visited')
      BY <1>3, <2>1, <2>2, <2>3 DEF Ordered, Before
    <2> QED
      BY <1>1, <2>3, <2>4 DEF OnceInv, Ordered, Before
  <1> QED
    BY <1>2, <1>3 DEF BlockBegin

LEMMA LeaveOnce ==
  ASSUME WalkInv, OnceInv, Leave
  PROVE  OnceInv'
  <1>1. /\ stack \in Seq(Frame) /\ stack # <<>> /\ UNCHANGED tree
        /\ stack' = SubSeq(stack, 1, Len(stack) - 1)
        /\ visited' = IF Len(stack) = 1 THEN {} ELSE visited
    BY DEF WalkInv, Path, Leave, Walking
  <1>2. CASE Len(stack) = 1
    <2>1. stack' = <<>> /\ visited' = {}
      BY <1>1, <1>2
    <2> QED
      BY <2>1, RestOnce
  <1>3. CASE Len(stack) # 1
    <2>1. Ordered(tree, stack', visited)
      BY <1>1, OrderedPop DEF OnceInv
    <2>2. stack' # <<>>
      <3>1. Len(stack) \in Nat /\ Len(stack) # 0
        BY <1>1
      <3>2. Len(stack') = Len(stack) - 1
        BY <1>1, OrderedPop DEF OnceInv
      <3> QED
        BY <1>3, <3>1, <3>2
    <2> QED
      BY <1>1, <1>3, <2>1, <2>2 DEF OnceInv, Ordered, Before
  <1> QED
    BY <1>2, <1>3

LEMMA VisitOnce ==
  ASSUME IInv, WalkInv, WalkInv', OnceInv, NEW n \in Node, Visit(n)
  PROVE  OnceInv' /\ n \notin visited
  <1> DEFINE saved == [stack EXCEPT ![Len(stack)].next = tree.next[n]]
             v == visited \cup {n}
  <1>1. /\ tree \in Trees /\ LinksOK(tree) /\ Path(tree, stack) /\ stack # <<>>
        /\ n = stack[Len(stack)].next /\ visited' = v /\ Ordered(tree, stack, visited)
        /\ Call(n, FuncOf(n), saved)
    <2>1. Path(tree, stack) /\ stack # <<>> /\ n = stack[Len(stack)].next
      BY DEF WalkInv, Visit, Walking, Top
    <2>2. Call(n, FuncOf(n), saved)
      BY DEF Visit, Advanced
    <2> HIDE DEF saved
    <2>3. visited' = v
      BY <2>2 DEF Call
    <2> QED
      BY <2>1, <2>2, <2>3 DEF IInv, TypeOK, ListsWhole, OnceInv
  <1>2. /\ Len(stack) \in 1 .. Len(stack) /\ n # Null
        /\ n \notin visited /\ stack[Len(stack)].group \in visited
    BY <1>1, TopIndex, NullAssumption DEF Path, Ordered
  <1>3. AtTop(tree, stack, n)
    BY <1>1, <1>2 DEF Path, OnPath, AtTop
  <1>4. /\ Path(tree, saved) /\ Len(saved) = Len(stack) /\ saved # <<>>
        /\ \A i \in 1 .. Len(stack) :
             /\ saved[i].group = stack[i].group
             /\ saved[i].next = IF i = Len(stack) THEN tree.next[n] ELSE stack[i].next
    BY <1>1, <1>3, PathAdvance
  <1> HIDE DEF saved
  <1>5. Ordered(tree, saved, v)
    <2> HIDE DEF v
    <2>1. visited \cup {n} = v
      BY DEF v
    <2>2. Ordered(tree, saved, visited \cup {n})
      BY <1>1, <1>4, OrderedAdvance
    <2> QED
      BY <2>1, <2>2
  <1>6. CASE stack' = saved /\ UNCHANGED tree
    BY <1>1, <1>2, <1>4, <1>5, <1>6 DEF OnceInv, Ordered, Before
  <1>7. CASE stack' = saved /\ NFree(n)
    <2>1. n # Root
      BY <1>1, <1>2, <1>3, TopIndex, NullAssumption DEF AtTop, LinksOK, LibraryAgrees, Path, Frame
    <2>2. Kept(tree, tree') /\ Path(tree', saved)
      BY <1>1, <1>7, <2>1, DeleteKept DEF NFree, WalkInv
    <2>3. Ordered(tree', saved, v)
      BY <1>1, <1>5, <2>2, KeptOrdered
    <2> QED
      BY <1>1, <1>4, <1>7, <2>3, <1>2 DEF OnceInv, Ordered, Before
  <1>8. CASE /\ stack' = Append(saved, [group |-> n, next |-> tree.head[n], func |-> FuncOf(n)])
             /\ UNCHANGED tree
    <2>1. \A m \in visited \cap tree.live : tree.parent[m] # Null => tree.parent[m] \in visited
      BY <1>1 DEF Ordered
    <2>2. saved \in Seq(Frame)
      BY <1>4 DEF Path
    <2>3. Ordered(tree, Append(saved, [group |-> n, next |-> tree.head[n], func |-> FuncOf(n)]), v)
      BY <1>1, <1>2, <1>3, <1>5, <2>1, <2>2, OrderedPush DEF AtTop
    <2>4. stack' # <<>>
      BY <1>8, <2>2
    <2>5. Ordered(tree', stack', v)
      BY <1>8, <2>3
    <2>6. visited' = v
      BY <1>1
    <2> QED
      BY <1>2, <2>4, <2>5, <2>6 DEF OnceInv
  <1> QED
    BY <1>1, <1>2, <1>6, <1>7, <1>8 DEF Call

LEMMA NextOnceInv ==
  IInv /\ WalkInv /\ WalkInv' /\ OnceInv /\ [CalcNext]_calcVars => OnceInv'
  <1> SUFFICES ASSUME IInv, WalkInv, WalkInv', OnceInv, [CalcNext]_calcVars PROVE OnceInv'
    OBVIOUS
  <1>0. tree \in Trees /\ LinksOK(tree)
    BY DEF IInv, TypeOK, ListsWhole
  <1>1. CASE Commands
    <2>1. stack' = <<>> /\ visited' = {}
      BY <1>1 DEF Commands, ClientCommand, NRun, NTrace, GDumpTree, AtRest, OnceInv, walk
    <2> QED
      BY <2>1, RestOnce
  <1>2. CASE DeepFreeLoop
    <2>1. UNCHANGED <<stack, visited>>
      BY <1>2 DEF DeepFreeLoop, walk
    <2>2. CASE DeepFreeEnd
      BY <2>1, <2>2, KeptOnce DEF DeepFreeEnd
    <2>3. ASSUME NEW n \in Node, DeepFreeNext(n) PROVE OnceInv'
      <3>1. n \in tree.live \ tree.group /\ tree' = Delete(Remove(tree, n), n)
        BY <2>3 DEF DeepFreeNext, SynthsBelow, Below
      <3>2. n # Root
        BY <1>0, <3>1 DEF LinksOK, LibraryAgrees
      <3>3. Kept(tree, tree')
        BY <1>0, <3>1, <3>2, DeepFreeKept
      <3> QED
        BY <2>1, <3>3, KeptOnce
    <2> QED
      BY <1>2, <2>2, <2>3 DEF DeepFreeLoop
  <1>3. CASE BlockBegin
    BY <1>3, BeginOnce
  <1>4. ASSUME NEW n \in Node, Visit(n) PROVE OnceInv'
    BY <1>4, VisitOnce
  <1>5. CASE Leave
    BY <1>5, LeaveOnce
  <1>6. CASE CtorsEnd \/ UnitsEnd
    BY <1>6, KeptOnce DEF CtorsEnd, UnitsEnd
  <1>7. ASSUME NEW a \in 1 .. 14, DoneAction(a) PROVE OnceInv'
    <2> DEFINE m == IF a % 2 = 1 THEN tree.prev[running.node] ELSE tree.next[running.node]
    <2>1. /\ UNCHANGED <<stack, visited>>
          /\ (m \in tree.group /\ GFreeAll(m)) \/ UNCHANGED tree
      BY <1>7 DEF DoneAction, EmptyNeighbour, DeepFreeBegin, walk
    <2> HIDE DEF m
    <2>2. m \in tree.group => m \in Node
      BY <1>0, FieldTypes
    <2>3. UNCHANGED tree \/ Kept(tree, tree')
      BY <1>0, <2>1, <2>2, DeleteAllKept DEF GFreeAll
    <2> QED
      BY <2>1, <2>3, KeptOnce
  <1>8. ASSUME NEW act, NEW n \in Node, UnitAct(act, n) PROVE OnceInv'
    BY <1>8, KeptOnce DEF UnitAct, walk
  <1>9. CASE UNCHANGED calcVars
    BY <1>9, KeptOnce DEF calcVars
  <1> QED
    BY <1>1, <1>2, <1>3, <1>4, <1>5, <1>6, <1>7, <1>8, <1>9 DEF CalcNext, Block

LEMMA WalkInvariance == CalcSpec => []WalkInv
  BY InitWalkInv, NextWalkInv, TreeInvariance, PTL DEF CalcSpec

LEMMA OnceInvariance == CalcSpec => []OnceInv
  <1>1. CalcInit => OnceInv
    BY DEF CalcInit, OnceInv, Ordered
  <1> QED
    BY <1>1, NextOnceInv, WalkInvariance, TreeInvariance, PTL DEF CalcSpec

\* Group_Calc calls no node twice in one block, whatever its units free, empty
\* or end while the block is calculated.
THEOREM NodesCalledOnce == CalcSpec => CalledOnce
  <1>1. IInv /\ WalkInv /\ WalkInv' /\ OnceInv =>
          [\A n \in Node : Visit(n) => n \notin visited]_calcVars
    BY VisitOnce
  <1> QED
    BY <1>1, OnceInvariance, WalkInvariance, TreeInvariance, PTL DEF CalledOnce

-----------------------------------------------------------------------------
(* The units of a synth are constructed once. *)

Firsts == {"First", "NullFirst"}

\* A synth that is going to be constructed has not been.
BuiltInv ==
  /\ built \subseteq tree.live
  /\ \A n \in Node : calc[n] \in Firsts => n \notin built
  /\ running \in [node : Node, func : {"First", "NullFirst", "Calc", "Trace"}] \cup {Nobody}
  /\ running.func \in Firsts => running.node \notin built

\* Nodes that come and go, with functions f for those that stay.
LEMMA FollowBuilt ==
  ASSUME BuiltInv, NEW f, Follow(f), UNCHANGED running,
         \A n \in Node : f[n] \in Firsts => n \notin built
  PROVE  BuiltInv'
  BY DEF BuiltInv, Follow, CalcFuncs, Firsts

\* One node that gets a function which is not one of a new synth, or that keeps
\* waiting for its construction.
LEMMA UpdateBuilt ==
  ASSUME BuiltInv, calc \in [Node -> Funcs], NEW n \in Node, NEW f,
         calc' = [calc EXCEPT ![n] = f], f \in Firsts => calc[n] \in Firsts,
         UNCHANGED <<tree, built, running>>
  PROVE  BuiltInv'
  BY DEF BuiltInv

LEMMA SetRunFirsts ==
  ASSUME NEW f
  PROVE  /\ Paused(f) \in Firsts => f \in Firsts
         /\ Resumed(f) \in Firsts => f \in Firsts
  BY DEF Paused, Resumed, Firsts

LEMMA VisitBuilt ==
  ASSUME WalkInv, BuiltInv, NEW n \in Node, Visit(n)
  PROVE  BuiltInv'
  <1> DEFINE saved == Advanced(tree.next[n])
  <1>1. /\ calc \in [Node -> Funcs] /\ running = Nobody /\ Call(n, FuncOf(n), saved)
        /\ \A m \in Node : calc[m] \in Firsts => m \notin built
    BY DEF WalkInv, IsCalc, BuiltInv, Visit, Walking
  <1>2. FuncOf(n) \in Firsts => n \notin built
    BY <1>1 DEF FuncOf, Firsts
  <1> HIDE DEF saved
  <1>3. CASE UNCHANGED <<tree, calc, built, running>>
    BY <1>3 DEF BuiltInv
  <1>4. CASE Follow(calc) /\ UNCHANGED running
    BY <1>1, <1>4, FollowBuilt
  <1>5. CASE /\ FuncOf(n) \in {"Calc", "Trace", "Dump"} /\ calc' = [calc EXCEPT ![n] = FuncOf(n)]
             /\ UNCHANGED <<tree, built, running>>
    <2>1. FuncOf(n) \notin Firsts
      BY <1>5 DEF Firsts
    <2> QED
      BY <1>1, <1>5, <2>1, UpdateBuilt
  <1>6. CASE /\ FuncOf(n) \in {"First", "NullFirst", "Calc", "Trace"}
             /\ running' = [node |-> n, func |-> FuncOf(n)]
             /\ UNCHANGED <<tree, calc, built>>
    <2>1. running'.node = n /\ running'.func = FuncOf(n)
      BY <1>6
    <2> QED
      BY <1>2, <1>6, <2>1 DEF BuiltInv
  <1> QED
    BY <1>1, <1>3, <1>4, <1>5, <1>6 DEF Call

LEMMA CtorsEndBuilt ==
  ASSUME WalkInv, BuiltInv, CtorsEnd
  PROVE  BuiltInv'
  <1> DEFINE s == running.node
  <1>1. /\ calc \in [Node -> Funcs] /\ running \in [node : Node, func : Firsts]
        /\ s \in tree.live /\ s \in Node
        /\ UNCHANGED tree /\ built' = built \cup {s}
        /\ \A n \in Node : calc[n] \in Firsts => n \notin built
    BY DEF WalkInv, AtTop, IsCalc, BuiltInv, CtorsEnd, Nobody, Firsts
  <1>2. calc' = [calc EXCEPT ![s] = IF running.func = "First" THEN "Calc" ELSE "Null"]
    BY DEF CtorsEnd
  <1>3. /\ running' \in [node : Node, func : {"Calc"}] \cup {Nobody}
        /\ running'.func \notin Firsts
    BY <1>1 DEF CtorsEnd, Nobody, Firsts
  <1> HIDE DEF s
  <1>4. \A n \in Node : calc'[n] \in Firsts => n # s /\ calc[n] \in Firsts
    BY <1>1, <1>2 DEF Firsts
  <1> QED
    BY <1>1, <1>3, <1>4 DEF BuiltInv

LEMMA NextBuiltInv == WalkInv /\ BuiltInv /\ [CalcNext]_calcVars => BuiltInv'
  <1> SUFFICES ASSUME WalkInv, BuiltInv, [CalcNext]_calcVars PROVE BuiltInv'
    OBVIOUS
  <1>0. /\ calc \in [Node -> Funcs]
        /\ \A n \in Node : calc[n] \in Firsts => n \notin built
    BY DEF WalkInv, IsCalc, BuiltInv
  <1>1. CASE ClientCommand \/ DeepFreeLoop
    BY <1>0, <1>1, FollowBuilt DEF ClientCommand, DeepFreeLoop, walk
  <1>2. ASSUME NEW n \in Node, NRun(n, 0) \/ NRun(n, 1) PROVE BuiltInv'
    BY <1>0, <1>2, SetRunFirsts, UpdateBuilt DEF NRun, walk
  <1>3. ASSUME NEW n \in Node, NTrace(n) \/ GDumpTree(n) PROVE BuiltInv'
    <2>1. "Trace" \notin Firsts /\ "Dump" \notin Firsts
      BY DEF Firsts
    <2> QED
      BY <1>0, <1>3, <2>1, UpdateBuilt DEF NTrace, GDumpTree, walk
  <1>4. CASE BlockBegin
    BY <1>4 DEF BlockBegin, BuiltInv
  <1>5. ASSUME NEW n \in Node, Visit(n) PROVE BuiltInv'
    BY <1>5, VisitBuilt
  <1>6. CASE Leave
    <2>1. Top.group \in Node
      BY <1>6, TopIndex DEF Leave, Walking, WalkInv, Path, Top, Frame
    <2>2. CASE calc' = calc
      BY <1>6, <2>2 DEF Leave, BuiltInv
    <2>3. CASE calc' = [calc EXCEPT ![Top.group] = "Calc"]
      <3>1. "Calc" \notin Firsts
        BY DEF Firsts
      <3> QED
        BY <1>0, <1>6, <2>1, <2>3, <3>1, UpdateBuilt DEF Leave
    <2> QED
      BY <1>6, <2>2, <2>3 DEF Leave
  <1>7. CASE CtorsEnd
    BY <1>7, CtorsEndBuilt
  <1>8. CASE UnitsEnd
    <2>1. running' = Nobody /\ UNCHANGED <<tree, built>>
      BY <1>8 DEF UnitsEnd
    <2>2. \A n \in Node : calc'[n] \in Firsts => calc[n] \in Firsts
      BY <1>0, <1>8 DEF UnitsEnd, Firsts
    <2> QED
      BY <1>0, <2>1, <2>2 DEF BuiltInv, Nobody, Firsts
  <1>9. ASSUME NEW a \in 1 .. 14, DoneAction(a) PROVE BuiltInv'
    <2>1. PICK ended, paused : Follow(EndedAndPaused(ended, paused))
      BY <1>9 DEF DoneAction
    <2>2. \A n \in Node : EndedAndPaused(ended, paused)[n] \in Firsts => calc[n] \in Firsts
      BY DEF EndedAndPaused, Paused, Firsts
    <2>3. UNCHANGED running
      BY <1>9 DEF DoneAction, walk
    <2> QED
      BY <1>0, <2>1, <2>2, <2>3, FollowBuilt
  <1>10. ASSUME NEW act \in {"free", "pause", "resume"}, NEW n \in Node, UnitAct(act, n)
         PROVE  BuiltInv'
    <2>1. \E f \in {"Delete", Paused(calc[n]), Resumed(calc[n])} : calc' = [calc EXCEPT ![n] = f]
      BY <1>10 DEF UnitAct
    <2>2. "Delete" \notin Firsts
      BY DEF Firsts
    <2> QED
      BY <1>0, <1>10, <2>1, <2>2, SetRunFirsts, UpdateBuilt DEF UnitAct, walk
  <1>11. CASE UNCHANGED calcVars
    BY <1>11 DEF calcVars, BuiltInv
  <1> QED
    BY <1>1, <1>2, <1>3, <1>4, <1>5, <1>6, <1>7, <1>8, <1>9, <1>10, <1>11
    DEF CalcNext, Commands, Block

LEMMA BuiltInvariance == CalcSpec => []BuiltInv
  <1>1. CalcInit => BuiltInv
    BY DEF CalcInit, BuiltInv, Nobody, Firsts
  <1> QED
    BY <1>1, NextBuiltInv, WalkInvariance, PTL DEF CalcSpec

\* Graph_FirstCalc and Graph_NullFirstCalc call the constructors of a synth's
\* units once, however the synth is paused, resumed, ended and moved.
THEOREM SynthsBuiltOnce == CalcSpec => []BuiltOnce
  <1>1. BuiltInv => BuiltOnce
    BY DEF BuiltInv, BuiltOnce, InCtor, Firsts
  <1> QED
    BY <1>1, BuiltInvariance, PTL

-----------------------------------------------------------------------------
(* The types of the walk. *)

\* What is a group in T is one in U, and what is a synth a synth.
SameKinds(T, U) == \A n \in T.live \cap U.live : n \in T.group <=> n \in U.group

LEMMA FreedKinds ==
  ASSUME NEW T, NEW U, NEW D, Freed(T, U, D)
  PROVE  SameKinds(T, U) /\ U.live \subseteq T.live
  BY DEF Freed, SameKinds

LEMMA DeleteKinds ==
  ASSUME NEW T \in Trees, LinksOK(T), NEW n \in T.live
  PROVE  SameKinds(T, Delete(T, n))
  <1>1. CASE n = Root
    BY <1>1 DEF Delete, SameKinds
  <1>2. CASE n # Root
    BY <1>2, DeleteFrees, FreedKinds
  <1> QED
    BY <1>1, <1>2

LEMMA LinkType ==
  ASSUME NEW T \in Trees, NEW s \in Node, NEW g \in Node \cup {Null},
         NEW p \in Node \cup {Null}, NEW q \in Node \cup {Null}
  PROVE  Link(T, s, g, p, q) \in Trees
  BY DEF Link, Trees, Pointers

LEMMA DeleteAllType ==
  ASSUME NEW T \in Trees, NEW g \in Node
  PROVE  DeleteAll(T, g) \in Trees
  BY FieldTypes DEF DeleteAll, Trees, Pointers

LEMMA ReplaceKinds ==
  ASSUME NEW T \in Trees, LinksOK(T), NEW s \in T.live, T.parent[s] = Null, NEW r \in T.live
  PROVE  SameKinds(T, Replace(T, s, r))
  <1> DEFINE V == Link(Remove(T, r), s, T.parent[r], T.prev[r], T.next[r])
  <1>0. r \in Node
    BY FieldTypes
  <1>1. CASE T.parent[r] = Null \/ s = Root
    BY <1>1 DEF Replace, SameKinds
  <1>2. CASE T.parent[r] # Null /\ s # Root
    <2>1. Replace(T, s, r) = Delete(V, r)
      BY <1>2 DEF Replace
    <2>2. /\ Remove(T, r).group = T.group /\ V.group = Remove(T, r).group
          /\ Remove(T, r).live = T.live /\ V.live = Remove(T, r).live
      BY DEF Remove, Link, Trees
    <2> HIDE DEF V
    <2>3. V \in Trees
      <3>1. Remove(T, r) \in Trees
        BY <1>0, RemoveOK
      <3>2. s \in Node /\ {T.parent[r], T.prev[r], T.next[r]} \subseteq Node \cup {Null}
        BY <1>0, FieldTypes
      <3> QED
        BY <3>1, <3>2, LinkType DEF V
    <2>4. DeleteAll(V, r) \in Trees /\ Freed(V, DeleteAll(V, r), Below(V, r))
      BY <1>0, <2>3, DeleteAllType, DeleteAllFrees
    <2>5. /\ Freed(V, Dtor(V, r), {r})
          /\ Freed(DeleteAll(V, r), Dtor(DeleteAll(V, r), r), {r})
      BY <1>0, <2>3, <2>4, DtorFrees
    <2>6. Freed(V, Dtor(DeleteAll(V, r), r), Below(V, r) \cup {r})
      BY <2>4, <2>5 DEF Freed
    <2>7. Delete(V, r) \in {V, Dtor(V, r), Dtor(DeleteAll(V, r), r)}
      BY DEF Delete
    <2>8. SameKinds(V, Delete(V, r))
      <3>1. SameKinds(V, V)
        BY DEF SameKinds
      <3> QED
        BY <2>5, <2>6, <2>7, <3>1, FreedKinds
    <2> QED
      BY <2>1, <2>2, <2>8 DEF SameKinds
  <1> QED
    BY <1>1, <1>2

\* No command makes a group of a synth, or a synth of a group.
LEMMA KindsStay == IInv /\ [Next]_vars => SameKinds(tree, tree')
  <1> SUFFICES ASSUME IInv, [Next]_vars PROVE SameKinds(tree, tree')
    OBVIOUS
  <1>0. /\ tree \in Trees /\ LinksOK(tree)
        /\ tree.live \subseteq Node /\ tree.group \subseteq tree.live
    BY FieldTypes DEF IInv, TypeOK, ListsWhole, LinksOK, LibraryAgrees
  <1>a. ASSUME tree'.group = tree.group PROVE SameKinds(tree, tree')
    BY <1>a DEF SameKinds
  <1>1. ASSUME NEW n \in Node \ tree.live, NEW isGroup \in BOOLEAN
        PROVE  /\ NewNode(tree, n, isGroup).group \cap tree.live = tree.group
               /\ tree.live \subseteq NewNode(tree, n, isGroup).live
    BY <1>0 DEF NewNode, Trees
  <1>2. ASSUME NEW n \in Node, NEW isGroup \in BOOLEAN, NEW place \in Places, NEW t \in Node,
               New(n, isGroup, place, t)
        PROVE  SameKinds(tree, tree')
    <2> DEFINE W == NewNode(tree, n, isGroup)
    <2>1. /\ n \in Node \ tree.live /\ t \in tree.live
          /\ place \in {"head", "tail"} => t \in tree.group
      BY <1>0, <1>2 DEF New, Target
    <2>2. /\ W \in Trees /\ LinksOK(W) /\ W.parent[n] = Null /\ n \in W.live
          /\ tree.group \subseteq W.group /\ tree.live \subseteq W.live
          /\ W.group \cap tree.live = tree.group
      BY <1>0, <1>1, <2>1, NewNodeOK
    <2>3. tree' = PlaceAt(W, n, place, t)
      BY <1>2 DEF New
    <2> HIDE DEF W
    <2>4. tree'.group = W.group
      BY <2>1, <2>2, <2>3, PlaceAtOK
    <2> QED
      BY <2>2, <2>4 DEF SameKinds
  <1>3. ASSUME NEW n \in Node, NEW isGroup \in BOOLEAN, NEW r \in Node, NewReplace(n, isGroup, r)
        PROVE  SameKinds(tree, tree')
    <2> DEFINE W == NewNode(tree, n, isGroup)
    <2>1. n \in Node \ tree.live /\ r \in tree.live
      BY <1>3 DEF NewReplace
    <2>2. /\ W \in Trees /\ LinksOK(W) /\ W.parent[n] = Null /\ n \in W.live /\ r \in W.live
          /\ W.group \cap tree.live = tree.group /\ tree.live \subseteq W.live
      BY <1>0, <1>1, <2>1, NewNodeOK
    <2>3. tree' = Replace(W, n, r)
      BY <1>3 DEF NewReplace
    <2> HIDE DEF W
    <2>4. SameKinds(W, tree')
      BY <2>2, <2>3, ReplaceKinds
    <2> QED
      BY <2>2, <2>4 DEF SameKinds
  <1>4. ASSUME NEW n \in Node, NFree(n) \/ GFreeAll(n)
        PROVE  SameKinds(tree, tree')
    <2>1. CASE NFree(n)
      BY <1>0, <2>1, DeleteKinds DEF NFree
    <2>2. CASE GFreeAll(n)
      BY <1>0, <2>2, DeleteAllFrees, FreedKinds DEF GFreeAll
    <2> QED
      BY <1>4, <2>1, <2>2
  <1>5. ASSUME NEW g \in Node, NEW n \in Node, GHead(g, n) \/ GTail(g, n)
        PROVE  tree'.group = tree.group
    <2>1. \E place \in {"head", "tail"} : tree' = PlaceAt(Remove(tree, n), n, place, g)
      BY <1>5 DEF GHead, GTail, PlaceAt
    <2>2. g \in tree.group /\ g \in tree.live /\ n \in tree.live
      BY <1>0, <1>5 DEF GHead, GTail
    <2> QED
      BY <1>0, <2>1, <2>2, MoveOK DEF Places
  <1>6. message.name \in {"n_before", "n_after"} => MovePending.group = tree.group
    BY <1>0, MovePairOK DEF MovePending, IInv, HeldLive
  <1>7. ASSUME NEW place \in Places, NEW t \in Node, NEW n \in Node, OrderFirst(place, t, n)
        PROVE  tree'.group = tree.group
    <2>1. n \in tree.live /\ t \in tree.live /\ (place \in {"head", "tail"} => t \in tree.group)
      BY <1>0, <1>7 DEF OrderFirst, Target
    <2> QED
      BY <1>0, <1>7, <2>1, MoveOK DEF OrderFirst
  <1>8. ASSUME NEW n \in Node, OrderNext(n)
        PROVE  tree'.group = tree.group
    BY <1>0, <1>8, MovePairOK DEF OrderNext, IInv, HeldLive
  <1>9. CASE Move
    BY <1>5, <1>6, <1>7, <1>8, <1>9, <1>a DEF Move, PairsBegin, PairsNext, PairsEnd, OrderEnd
  <1>10. ASSUME NEW n \in Node, DeepFreeNext(n)
         PROVE  tree'.group = tree.group
    <2>1. n \in tree.live \ tree.group
      BY <1>10 DEF DeepFreeNext, SynthsBelow, Below
    <2> QED
      BY <1>0, <1>10, <2>1, DeepFreeOneOK DEF DeepFreeNext
  <1>11. CASE DeepFree
    BY <1>10, <1>11, <1>a DEF DeepFree, DeepFreeBegin, DeepFreeEnd
  <1>12. CASE CreateOrFree
    BY <1>2, <1>3, <1>4, <1>12 DEF CreateOrFree, SNew, GNew
  <1>13. CASE UNCHANGED vars
    BY <1>13, <1>a DEF vars
  <1> QED
    BY <1>9, <1>11, <1>12, <1>13 DEF Next

\* Only synths are constructed and have units.
SynthInv ==
  /\ built \cap tree.group = {}
  /\ running # Nobody => running.node \notin tree.group
  /\ visited \subseteq Node

LEMMA NextSynthInv ==
  IInv /\ IInv' /\ WalkInv /\ BuiltInv /\ SynthInv /\ [CalcNext]_calcVars => SynthInv'
  <1> SUFFICES ASSUME IInv, IInv', WalkInv, BuiltInv, SynthInv, [CalcNext]_calcVars
               PROVE  SynthInv'
    OBVIOUS
  <1>1. tree'.group \cap tree.live \subseteq tree.group
    <2>1. tree'.group \subseteq tree'.live
      BY DEF IInv, ListsWhole, LinksOK, LibraryAgrees
    <2>2. SameKinds(tree, tree')
      BY KindsStay, StepIsNext
    <2> QED
      BY <2>1, <2>2 DEF SameKinds
  <1>2. built \subseteq tree.live /\ (running # Nobody => running.node \in tree.live)
    BY DEF BuiltInv, WalkInv, AtTop
  <1>3. /\ built' \subseteq built \/ (built' = built \cup {running.node} /\ running # Nobody)
        /\ visited' \subseteq Node
        /\ \/ running' = running \/ running' = Nobody
           \/ running # Nobody /\ running'.node = running.node
           \/ UNCHANGED tree /\ running'.node \notin tree.group
    <2>1. CASE Commands \/ DeepFreeLoop
      BY <2>1 DEF Commands, ClientCommand, DeepFreeLoop, NRun, NTrace, GDumpTree, Follow, walk, SynthInv
    <2>2. CASE BlockBegin \/ Leave \/ UnitsEnd
      BY <2>2, RootAssumption DEF BlockBegin, Leave, UnitsEnd, SynthInv
    <2>3. ASSUME NEW n \in Node, Visit(n)
          PROVE  /\ built' \subseteq built /\ visited' \subseteq Node
                 /\ running' = running \/ (UNCHANGED tree /\ running'.node \notin tree.group)
      BY <2>3 DEF Visit, Call, Follow, SynthInv
    <2>4. CASE CtorsEnd
      BY <2>4 DEF CtorsEnd, BuiltInv, SynthInv, Nobody
    <2>5. ASSUME NEW a \in 1 .. 14, DoneAction(a)
          PROVE  built' \subseteq built /\ UNCHANGED <<running, visited>>
      BY <2>5 DEF DoneAction, Follow, walk
    <2>6. ASSUME NEW act, NEW n \in Node, UnitAct(act, n)
          PROVE  UNCHANGED <<built, running, visited>>
      BY <2>6 DEF UnitAct, walk
    <2>7. CASE UNCHANGED calcVars
      BY <2>7 DEF calcVars, SynthInv
    <2>8. visited \subseteq Node
      BY DEF SynthInv
    <2> QED
      BY <2>1, <2>2, <2>3, <2>4, <2>5, <2>6, <2>7, <2>8 DEF CalcNext, Block
  <1> QED
    BY <1>1, <1>2, <1>3 DEF SynthInv, Nobody

\* The tree, the calc functions of SC_Node.cpp, the walk and the running synth
\* keep their types; only synths are constructed, and only groups are walked.
THEOREM CalcTypeCorrect == CalcSpec => []CalcTypeOK
  <1>1. CalcInit => SynthInv
    BY DEF CalcInit, SynthInv
  <1>2. CalcSpec => []SynthInv
    BY <1>1, NextSynthInv, TreeInvariance, WalkInvariance, BuiltInvariance, PTL DEF CalcSpec
  <1>3. IInv /\ WalkInv /\ BuiltInv /\ SynthInv => CalcTypeOK
    BY DEF IInv, WalkInv, IsCalc, Funcs, Path, Frame, BuiltInv, SynthInv, CalcTypeOK
  <1> QED
    BY <1>2, <1>3, TreeInvariance, WalkInvariance, BuiltInvariance, PTL

-----------------------------------------------------------------------------
(* The units of a synth are calculated when they have been constructed. *)

Calls == {"Calc", "Trace", "Dump"}

\* Nothing takes a pause back: no client sends n_run, no unit resumes a node.
NothingResumes == "run" \notin Requests /\ "resume" \notin UnitActs

\* A synth that will have its units calculated has had them constructed.
UnitsInv ==
  /\ \A n \in tree.live \ tree.group : calc[n] \in Calls => n \in built
  /\ CalcOnlyBuilt

\* Nodes that come and go, with functions f for those that stay.
LEMMA FollowUnits ==
  ASSUME IInv, IInv', WalkInv', SameKinds(tree, tree'), UnitsInv, NEW f, Follow(f),
         running' = running,
         \A n \in Node : f[n] \in Calls => calc[n] \in Calls
  PROVE  UnitsInv'
  <1>1. \A n \in tree'.live \ tree'.group : calc'[n] \in Calls => n \in tree.live /\ f[n] \in Calls
    <2>1. tree'.live \subseteq Node
      BY FieldTypes DEF IInv, TypeOK
    <2> QED
      BY <2>1 DEF Follow, CalcFuncs, Calls
  <1>2. ASSUME NEW n \in tree'.live \ tree'.group, calc'[n] \in Calls PROVE n \in built'
    <2>1. n \in tree.live \ tree.group
      BY <1>1, <1>2 DEF SameKinds
    <2>2. n \in Node
      BY <2>1, FieldTypes DEF IInv, TypeOK
    <2> QED
      BY <1>1, <1>2, <2>1, <2>2 DEF UnitsInv, Follow
  <1>3. running'.func \in {"Calc", "Trace"} => running'.node \in tree'.live
    BY DEF WalkInv, AtTop, Nobody
  <1> QED
    BY <1>2, <1>3 DEF UnitsInv, CalcOnlyBuilt, Follow

\* One node whose function is replaced, by one that does not call its units
\* unless the old one did.
LEMMA UpdateUnits ==
  ASSUME UnitsInv, calc \in [Node -> Funcs], tree.live \subseteq Node, NEW n \in Node, NEW f,
         calc' = [calc EXCEPT ![n] = f], f \in Calls => calc[n] \in Calls \/ n \in tree.group,
         UNCHANGED <<tree, built, running>>
  PROVE  UnitsInv'
  BY DEF UnitsInv, CalcOnlyBuilt

LEMMA SetRunUnits ==
  ASSUME NEW f
  PROVE  Paused(f) \notin Calls
  BY DEF Paused, Calls

LEMMA VisitUnits ==
  ASSUME IInv, IInv', WalkInv, WalkInv', SameKinds(tree, tree'), UnitsInv,
         NEW n \in Node, Visit(n)
  PROVE  UnitsInv'
  <1> DEFINE saved == Advanced(tree.next[n])
  <1>1. /\ calc \in [Node -> Funcs] /\ running = Nobody /\ Call(n, FuncOf(n), saved)
        /\ tree.live \subseteq Node
    BY FieldTypes DEF WalkInv, IsCalc, Visit, Walking, IInv, TypeOK
  <1>2. n \in tree.live
    <2>1. stack \in Seq(Frame) /\ stack # <<>> /\ Top.next = n
      BY DEF Visit, Walking, WalkInv, Path
    <2>2. Len(stack) \in 1 .. Len(stack)
      BY <2>1, TopIndex
    <2>3. OnPath(tree, stack, Len(stack))
      BY <2>2 DEF WalkInv, Path
    <2> QED
      BY <2>1, <2>3, NullAssumption DEF OnPath, Top
  <1>3. FuncOf(n) \in Calls => calc[n] \in Calls
    BY DEF FuncOf, Calls
  <1> HIDE DEF saved
  <1>4. CASE UNCHANGED <<tree, calc, built, running>>
    BY <1>4 DEF UnitsInv, CalcOnlyBuilt
  <1>5. CASE Follow(calc) /\ UNCHANGED running
    BY <1>5, FollowUnits
  <1>6. CASE /\ n \in tree.group /\ calc' = [calc EXCEPT ![n] = FuncOf(n)]
             /\ UNCHANGED <<tree, built, running>>
    BY <1>1, <1>6, UpdateUnits
  <1>7. CASE /\ n \notin tree.group /\ running' = [node |-> n, func |-> FuncOf(n)]
             /\ UNCHANGED <<tree, calc, built>>
    <2>1. running'.node = n /\ running'.func = FuncOf(n)
      BY <1>7
    <2>2. FuncOf(n) \in Calls => n \in built
      BY <1>2, <1>3, <1>7 DEF UnitsInv
    <2> QED
      BY <1>7, <2>1, <2>2 DEF UnitsInv, CalcOnlyBuilt, Calls
  <1> QED
    BY <1>1, <1>4, <1>5, <1>6, <1>7 DEF Call

LEMMA CtorsEndUnits ==
  ASSUME WalkInv, UnitsInv, tree.live \subseteq Node, CtorsEnd
  PROVE  UnitsInv'
  <1> DEFINE s == running.node
  <1>1. /\ calc \in [Node -> Funcs]
        /\ UNCHANGED tree /\ built' = built \cup {s}
        /\ running'.func \in {"Calc", "Trace"} => running'.node = s
    BY DEF WalkInv, IsCalc, CtorsEnd, Nobody
  <1>2. \A n \in Node \ {s} : calc'[n] = calc[n]
    BY <1>1 DEF CtorsEnd
  <1> HIDE DEF s
  <1> QED
    BY <1>1, <1>2 DEF UnitsInv, CalcOnlyBuilt

LEMMA NextUnitsInv ==
  ASSUME NothingResumes
  PROVE  IInv /\ IInv' /\ WalkInv /\ WalkInv' /\ UnitsInv /\ [CalcNext]_calcVars => UnitsInv'
  <1> SUFFICES ASSUME IInv, IInv', WalkInv, WalkInv', UnitsInv, [CalcNext]_calcVars
               PROVE  UnitsInv'
    OBVIOUS
  <1>0. calc \in [Node -> Funcs] /\ tree.live \subseteq Node
    BY FieldTypes DEF WalkInv, IsCalc, IInv, TypeOK
  <1>a. SameKinds(tree, tree')
    BY KindsStay, StepIsNext
  <1>1. CASE ClientCommand \/ DeepFreeLoop
    BY <1>a, <1>1, FollowUnits DEF ClientCommand, DeepFreeLoop, walk
  <1>2. ASSUME NEW n \in Node, NTrace(n) \/ GDumpTree(n) PROVE UnitsInv'
    <2>1. calc[n] \in Calls
      BY <1>2 DEF NTrace, GDumpTree, Calls
    <2> QED
      BY <1>0, <1>2, <2>1, UpdateUnits DEF NTrace, GDumpTree, walk
  <1>3. CASE BlockBegin
    BY <1>3 DEF BlockBegin, UnitsInv, CalcOnlyBuilt
  <1>4. ASSUME NEW n \in Node, Visit(n) PROVE UnitsInv'
    BY <1>a, <1>4, VisitUnits
  <1>5. CASE Leave
    <2>1. Top.group \in tree.group /\ Top.group \in Node
      <3>1. stack \in Seq(Frame) /\ stack # <<>>
        BY <1>5 DEF Leave, Walking, WalkInv, Path
      <3>2. Len(stack) \in 1 .. Len(stack) /\ Top \in Frame
        BY <3>1, TopIndex DEF Top
      <3> QED
        BY <3>2 DEF WalkInv, Path, OnPath, Top, Frame
    <2>2. CASE calc' = calc
      BY <1>5, <2>2 DEF Leave, UnitsInv, CalcOnlyBuilt
    <2>3. CASE calc' = [calc EXCEPT ![Top.group] = "Calc"]
      BY <1>0, <1>5, <2>1, <2>3, UpdateUnits DEF Leave
    <2> QED
      BY <1>5, <2>2, <2>3 DEF Leave
  <1>6. CASE CtorsEnd
    BY <1>0, <1>6, CtorsEndUnits
  <1>7. CASE UnitsEnd
    <2>1. running.node \in built /\ running' = Nobody /\ UNCHANGED <<tree, built>>
      BY <1>7 DEF UnitsEnd, UnitsInv, CalcOnlyBuilt
    <2>2. \A n \in Node \ {running.node} : calc'[n] = calc[n]
      BY <1>0, <1>7 DEF UnitsEnd
    <2> QED
      BY <1>0, <2>1, <2>2 DEF UnitsInv, CalcOnlyBuilt, Nobody
  <1>8. ASSUME NEW a \in 1 .. 14, DoneAction(a) PROVE UnitsInv'
    <2>1. PICK ended, paused : Follow(EndedAndPaused(ended, paused))
      BY <1>8 DEF DoneAction
    <2>2. \A n \in Node : EndedAndPaused(ended, paused)[n] \in Calls => calc[n] \in Calls
      BY SetRunUnits DEF EndedAndPaused, Calls
    <2>3. running' = running
      BY <1>8 DEF DoneAction, walk
    <2> QED
      BY <1>a, <2>1, <2>2, <2>3, FollowUnits
  <1>9. ASSUME NEW act \in {"free", "pause", "resume"}, NEW n \in Node, UnitAct(act, n)
        PROVE  UnitsInv'
    <2>1. act \in {"free", "pause"}
      BY <1>9 DEF UnitAct, NothingResumes
    <2>2. \E f \in {"Delete", Paused(calc[n])} : calc' = [calc EXCEPT ![n] = f]
      BY <1>9, <2>1 DEF UnitAct
    <2>3. "Delete" \notin Calls
      BY DEF Calls
    <2> QED
      BY <1>0, <1>9, <2>2, <2>3, SetRunUnits, UpdateUnits DEF UnitAct, walk
  <1>10. CASE UNCHANGED calcVars
    BY <1>10 DEF calcVars, UnitsInv, CalcOnlyBuilt
  <1>11. ASSUME NEW n \in Node PROVE ~NRun(n, 0) /\ ~NRun(n, 1)
    BY DEF NRun, NothingResumes
  <1> QED
    BY <1>1, <1>2, <1>3, <1>4, <1>5, <1>6, <1>7, <1>8, <1>9, <1>10, <1>11
    DEF CalcNext, Commands, Block

\* Graph_Calc never calls units that were not constructed, whatever pauses and
\* ends synths, as long as nothing takes a pause back: a synth that is paused
\* twice before its first block forgets that it is new, and resumed it is
\* calculated.
THEOREM UnitsBuiltFirst ==
  ASSUME NothingResumes
  PROVE  CalcSpec => []CalcOnlyBuilt
  <1>1. CalcInit => UnitsInv
    BY DEF CalcInit, Init, EmptyTree, UnitsInv, CalcOnlyBuilt, Nobody
  <1>2. UnitsInv => CalcOnlyBuilt
    BY DEF UnitsInv
  <1> QED
    BY <1>1, <1>2, NextUnitsInv, WalkInvariance, TreeInvariance, PTL DEF CalcSpec

-----------------------------------------------------------------------------
(***************************************************************************)
(* A block calls every node.  A node that was not called, of a group that  *)
(* was, is behind another one or the next of that group's activation; so a *)
(* loop that has come to its end has left none out.                        *)
(***************************************************************************)

Covered(T, st, v, w) ==
  \A m \in T.live \ v : T.parent[m] \in w =>
    \E i \in 1 .. Len(st) :
      /\ st[i].group = T.parent[m]
      /\ st[i].next = m \/ T.prev[m] \in T.live \ v

LEMMA NoPrevRing ==
  ASSUME NEW T \in Trees, LinksOK(T), NEW S \in SUBSET Node, S # {}
  PROVE  \E n \in S : T.prev[n] \notin S
  <1> SUFFICES ASSUME \A n \in S : T.prev[n] \in S PROVE FALSE
    OBVIOUS
  <1>1. IsFiniteSet(S)
    BY NodeAssumption, FS_Subset
  <1>2. PICK n \in S : T.next[n] \notin S
    BY DEF LinksOK, NoRings
  <1>3. \A m \in S : T.prev[m] # n
    BY <1>2 DEF LinksOK, NeighboursAgree
  <1> DEFINE R == S \ {n}
             f == [m \in S |-> T.prev[m]]
  <1>4. f \in [S -> R]
    BY <1>3
  <1>5. IsFiniteSet(R) /\ Cardinality(R) = Cardinality(S) - 1 /\ Cardinality(S) \in Nat
    BY <1>1, FS_RemoveElement, FS_CardinalityType
  <1>6. \A m, k \in S : m # k => f[m] # f[k]
    BY DEF LinksOK, NeighboursAgree
  <1> HIDE DEF f, R
  <1>7. Cardinality(R) < Cardinality(S)
    BY <1>5
  <1> QED
    BY <1>1, <1>4, <1>5, <1>6, <1>7, FS_PigeonHole

LEMMA KeptCovered ==
  ASSUME NEW T \in Trees, LinksOK(T), NEW U \in Trees, LinksOK(U), Kept(T, U),
         NEW st, Path(U, st), NEW v, NEW w, Covered(T, st, v, w)
  PROVE  Covered(U, st, v, w)
  <1> SUFFICES ASSUME NEW m \in U.live \ v, U.parent[m] \in w
               PROVE  \E i \in 1 .. Len(st) :
                        /\ st[i].group = U.parent[m]
                        /\ st[i].next = m \/ U.prev[m] \in U.live \ v
    BY DEF Covered
  <1>1. /\ m \in T.live /\ T.parent[m] = U.parent[m] /\ m \in Node
        /\ U.prev[m] \in Node => U.prev[m] \in U.live
    BY FieldTypes, PrevLive DEF Kept
  <1>2. PICK i \in 1 .. Len(st) :
           /\ st[i].group = T.parent[m]
           /\ st[i].next = m \/ T.prev[m] \in T.live \ v
    BY <1>1 DEF Covered
  <1>3. CASE st[i].next = m
    BY <1>1, <1>2, <1>3
  <1>4. CASE T.prev[m] \in T.live \ v
    <2> DEFINE p == T.prev[m]
    <2>1. p \in T.live \ v /\ p \in Node /\ T.parent[p] = T.parent[m]
      BY <1>1, <1>4, FieldTypes, PrevLive
    <2> HIDE DEF p
    <2>2. CASE U.prev[m] = p
      BY <1>1, <1>2, <2>1, <2>2
    <2>3. CASE p \in T.live \ U.live /\ U.prev[m] = T.prev[p]
      <3>1. PICK j \in 1 .. Len(st) :
               /\ st[j].group = T.parent[p]
               /\ st[j].next = p \/ T.prev[p] \in T.live \ v
        BY <1>1, <2>1 DEF Covered
      <3>2. st[j].next # p
        BY <2>1, <2>3, NullAssumption DEF Path, OnPath
      <3>3. T.prev[p] \in Node /\ T.prev[p] \notin v
        BY <3>1, <3>2, FieldTypes
      <3> QED
        BY <1>1, <1>2, <2>3, <3>3
    <2> QED
      BY <2>2, <2>3 DEF Kept, p
  <1> QED
    BY <1>2, <1>3, <1>4

LEMMA CoveredAdvance ==
  ASSUME NEW T \in Trees, LinksOK(T), NEW st, Path(T, st), st # <<>>,
         NEW v, Covered(T, st, v, v),
         NEW n \in Node, n = st[Len(st)].next,
         NEW up, Len(up) = Len(st),
         \A i \in 1 .. Len(st) :
           /\ up[i].group = st[i].group
           /\ up[i].next = IF i = Len(st) THEN T.next[n] ELSE st[i].next
  PROVE  Covered(T, up, v \cup {n}, v)
  <1> SUFFICES ASSUME NEW m \in T.live \ (v \cup {n}), T.parent[m] \in v
               PROVE  \E i \in 1 .. Len(up) :
                        /\ up[i].group = T.parent[m]
                        /\ up[i].next = m \/ T.prev[m] \in T.live \ (v \cup {n})
    BY DEF Covered
  <1>0. m \in Node /\ Len(st) \in 1 .. Len(st) /\ n # Null
    BY TopIndex, FieldTypes, NullAssumption DEF Path
  <1>1. PICK i \in 1 .. Len(st) :
           /\ st[i].group = T.parent[m]
           /\ st[i].next = m \/ T.prev[m] \in T.live \ v
    BY DEF Covered
  <1>2. CASE st[i].next = m
    BY <1>0, <1>1, <1>2
  <1>3. CASE T.prev[m] \in T.live \ v /\ T.prev[m] # n
    BY <1>0, <1>1, <1>3
  <1>4. CASE T.prev[m] = n
    <2>1. T.next[n] = m /\ T.parent[n] = T.parent[m]
      BY <1>0, <1>4 DEF LinksOK, NeighboursAgree
    <2>2. st[Len(st)].group = T.parent[n]
      BY <1>0 DEF Path, OnPath
    <2> QED
      BY <1>0, <2>1, <2>2
  <1> QED
    BY <1>1, <1>2, <1>3, <1>4

LEMMA CoveredPush ==
  ASSUME NEW T \in Trees, LinksOK(T), NEW st, st \in Seq(Frame), NEW v,
         NEW n \in Node, n \notin v, n \in T.live, T.parent[n] \in v,
         Covered(T, st, v \cup {n}, v),
         \A m \in v \cap T.live : T.parent[m] # Null => T.parent[m] \in v,
         NEW f
  PROVE  Covered(T, Append(st, [group |-> n, next |-> T.head[n], func |-> f]),
                 v \cup {n}, v \cup {n})
  <1> DEFINE F == [group |-> n, next |-> T.head[n], func |-> f]
             up == Append(st, F)
  <1>1. /\ Len(up) = Len(st) + 1 /\ up[Len(st) + 1] = F
        /\ \A i \in 1 .. Len(st) : up[i] = st[i]
        /\ Len(st) \in Nat
    OBVIOUS
  <1>2. F.group = n /\ F.next = T.head[n]
    OBVIOUS
  <1> HIDE DEF up, F
  <1> SUFFICES ASSUME NEW m \in T.live \ (v \cup {n}), T.parent[m] \in v \cup {n}
               PROVE  \E i \in 1 .. Len(up) :
                        /\ up[i].group = T.parent[m]
                        /\ up[i].next = m \/ T.prev[m] \in T.live \ (v \cup {n})
    BY DEF Covered, up, F
  <1>3. m \in Node
    BY FieldTypes
  <1>4. CASE T.parent[m] \in v
    <2>1. PICK i \in 1 .. Len(st) :
             /\ st[i].group = T.parent[m]
             /\ st[i].next = m \/ T.prev[m] \in T.live \ (v \cup {n})
      BY <1>4 DEF Covered
    <2>2. i \in 1 .. Len(up)
      BY <1>1
    <2> QED
      BY <1>1, <2>1, <2>2
  <1>5. CASE T.parent[m] = n
    <2>1. Len(st) + 1 \in 1 .. Len(up)
      BY <1>1
    <2>2. CASE T.prev[m] = Null
      <3>1. T.head[n] = m
        BY <1>3, <1>5, <2>2 DEF LinksOK, EndsAgree
      <3> QED
        BY <1>1, <1>2, <1>5, <2>1, <3>1
    <2>3. CASE T.prev[m] # Null
      <3>1. T.prev[m] \in T.live /\ T.parent[T.prev[m]] = n
        BY <1>3, <1>5, <2>3, FieldTypes, PrevLive
      <3>2. T.prev[m] \notin v /\ T.prev[m] # n
        BY <3>1, NullAssumption
      <3> QED
        BY <1>1, <1>2, <1>5, <2>1, <3>1, <3>2
    <2> QED
      BY <2>2, <2>3
  <1> QED
    BY <1>4, <1>5

LEMMA PopFacts ==
  ASSUME NEW st \in Seq(Frame), st # <<>>
  PROVE  /\ Len(SubSeq(st, 1, Len(st) - 1)) = Len(st) - 1
         /\ \A i \in 1 .. Len(st) - 1 : SubSeq(st, 1, Len(st) - 1)[i] = st[i]
  <1> DEFINE n == Len(st) - 1
             up == SubSeq(st, 1, n)
  <1>1. n \in Nat /\ Len(st) \in Nat
    BY TopIndex
  <1>2. \A i \in 1 .. n : st[i] \in Frame
    BY <1>1
  <1>3. /\ Len(up) = IF 1 <= n THEN n - 1 + 1 ELSE 0
        /\ \A i \in 1 .. n - 1 + 1 : up[i] = st[1 + i - 1]
    <2> HIDE DEF n
    <2> QED
      BY <1>1, <1>2, SubSeqProperties
  <1> HIDE DEF up, n
  <1>4. Len(up) = n /\ \A i \in 1 .. n : up[i] = st[i]
    BY <1>1, <1>3
  <1> QED
    BY <1>4 DEF up, n

LEMMA CoveredPop ==
  ASSUME NEW T \in Trees, LinksOK(T), NEW st, Path(T, st), st # <<>>,
         st[Len(st)].next = Null,
         NEW v, st[Len(st)].group \in v, Covered(T, st, v, v)
  PROVE  Covered(T, SubSeq(st, 1, Len(st) - 1), v, v)
  <1> DEFINE up == SubSeq(st, 1, Len(st) - 1)
             S == {m \in T.live \ v : T.parent[m] = st[Len(st)].group}
  <1>0. st \in Seq(Frame) /\ Len(st) \in Nat \ {0}
    BY TopIndex DEF Path
  <1>1. Len(up) = Len(st) - 1 /\ \A i \in 1 .. Len(st) - 1 : up[i] = st[i]
    BY <1>0, PopFacts
  <1> HIDE DEF up
  <1>2. S = {}
    <2> SUFFICES ASSUME S # {} PROVE FALSE
      OBVIOUS
    <2>1. S \in SUBSET Node
      BY FieldTypes
    <2>2. PICK m \in S : T.prev[m] \notin S
      <3> HIDE DEF S
      <3> QED
        BY <2>1, NoPrevRing
    <2>3. m \in T.live \ v /\ T.parent[m] = st[Len(st)].group /\ m \in Node /\ m # Null
      BY <2>1, NullAssumption
    <2>4. PICK i \in 1 .. Len(st) :
             /\ st[i].group = T.parent[m]
             /\ st[i].next = m \/ T.prev[m] \in T.live \ v
      BY <2>3 DEF Covered
    <2>5. i = Len(st)
      BY <1>0, <2>3, <2>4 DEF Path, Distinct
    <2>6. T.prev[m] \in T.live \ v /\ T.prev[m] \in Node
      BY <2>3, <2>4, <2>5, FieldTypes
    <2>7. T.parent[T.prev[m]] = T.parent[m]
      BY <2>3, <2>6, PrevLive
    <2> QED
      BY <2>2, <2>3, <2>6, <2>7
  <1> SUFFICES ASSUME NEW m \in T.live \ v, T.parent[m] \in v
               PROVE  \E i \in 1 .. Len(up) :
                        /\ up[i].group = T.parent[m]
                        /\ up[i].next = m \/ T.prev[m] \in T.live \ v
    BY DEF Covered, up
  <1>3. PICK i \in 1 .. Len(st) :
           /\ st[i].group = T.parent[m]
           /\ st[i].next = m \/ T.prev[m] \in T.live \ v
    BY DEF Covered
  <1>4. i # Len(st)
    BY <1>2, <1>3
  <1>5. i \in 1 .. Len(up) /\ up[i] = st[i]
    BY <1>0, <1>1, <1>4
  <1> QED
    BY <1>3, <1>5

LEMMA NothingLeftOut ==
  ASSUME NEW T \in Trees, Rooted(T), NEW v, Root \in v, Covered(T, <<>>, v, v)
  PROVE  T.live \subseteq v
  <1> DEFINE C == T.live \ v
  <1> SUFFICES ASSUME C # {} PROVE FALSE
    OBVIOUS
  <1>1. C \in SUBSET (T.live \ {Root})
    OBVIOUS
  <1>2. PICK n \in C : T.parent[n] \in T.live \ C
    <2> HIDE DEF C
    <2> QED
      BY <1>1 DEF Rooted
  <1>3. n \in T.live \ v /\ T.parent[n] \in v
    BY <1>2
  <1> QED
    BY <1>3 DEF Covered

\* Nothing pauses a node: no client sends n_run 0, and no unit does.
NothingPauses ==
  /\ "run" \notin Requests /\ "pause" \notin UnitActs
  /\ (CtorActs \cup CalcActs) \cap {1, 9, 10} = {}

PausedFuncs == {"Null", "NullFirst"}

NonePaused ==
  /\ \A n \in Node : calc[n] \notin PausedFuncs
  /\ running.func # "NullFirst"

LEMMA FollowPaused ==
  ASSUME NEW f, Follow(f), UNCHANGED running, NonePaused,
         \A n \in Node : f[n] \notin PausedFuncs
  PROVE  NonePaused'
  BY DEF NonePaused, Follow, CalcFuncs, PausedFuncs

LEMMA UpdatePaused ==
  ASSUME calc \in [Node -> Funcs], NonePaused, NEW n \in Node, NEW f,
         calc' = [calc EXCEPT ![n] = f], f \notin PausedFuncs, running'.func # "NullFirst"
  PROVE  NonePaused'
  BY DEF NonePaused

LEMMA NextNonePaused ==
  ASSUME NothingPauses
  PROVE  WalkInv /\ NonePaused /\ IInv /\ [CalcNext]_calcVars => NonePaused'
  <1> SUFFICES ASSUME WalkInv, NonePaused, IInv, [CalcNext]_calcVars PROVE NonePaused'
    OBVIOUS
  <1>0. /\ calc \in [Node -> Funcs] /\ running.func # "NullFirst"
        /\ \A n \in Node : calc[n] \notin PausedFuncs
        /\ running # Nobody => running.node \in Node
    BY FieldTypes DEF WalkInv, IsCalc, NonePaused, AtTop, IInv, TypeOK
  <1>1. CASE ClientCommand \/ DeepFreeLoop
    BY <1>0, <1>1, FollowPaused DEF ClientCommand, DeepFreeLoop, walk
  <1>2. ASSUME NEW n \in Node PROVE ~NRun(n, 0) /\ ~NRun(n, 1)
    BY DEF NRun, NothingPauses
  <1>3. ASSUME NEW n \in Node, NTrace(n) \/ GDumpTree(n) PROVE NonePaused'
    <2>1. "Trace" \notin PausedFuncs /\ "Dump" \notin PausedFuncs
      BY DEF PausedFuncs
    <2> QED
      BY <1>0, <1>3, <2>1, UpdatePaused DEF NTrace, GDumpTree, walk
  <1>4. CASE BlockBegin
    BY <1>0, <1>4 DEF BlockBegin, NonePaused
  <1>5. ASSUME NEW n \in Node, Visit(n) PROVE NonePaused'
    <2> DEFINE saved == Advanced(tree.next[n])
               f == FuncOf(n)
    <2>1. Call(n, f, saved)
      BY <1>5 DEF Visit
    <2>2. f \notin PausedFuncs /\ f # "NullFirst"
      BY <1>0 DEF FuncOf, PausedFuncs
    <2> HIDE DEF saved, f
    <2>3. CASE UNCHANGED <<calc, running>>
      BY <2>3 DEF NonePaused
    <2>4. CASE Follow(calc) /\ UNCHANGED running
      BY <1>0, <2>4, FollowPaused
    <2>5. CASE calc' = [calc EXCEPT ![n] = f] /\ UNCHANGED running
      BY <1>0, <2>2, <2>5, UpdatePaused
    <2>6. CASE running' = [node |-> n, func |-> f] /\ UNCHANGED calc
      BY <1>0, <2>2, <2>6 DEF NonePaused
    <2> QED
      BY <2>1, <2>3, <2>4, <2>5, <2>6 DEF Call
  <1>6. CASE Leave
    <2>1. Top.group \in Node /\ UNCHANGED running
      BY <1>6, TopIndex DEF Leave, Walking, WalkInv, Path, Top, Frame
    <2>2. "Calc" \notin PausedFuncs
      BY DEF PausedFuncs
    <2>3. calc' = calc \/ calc' = [calc EXCEPT ![Top.group] = "Calc"]
      BY <1>6 DEF Leave
    <2> QED
      BY <1>0, <2>1, <2>2, <2>3, UpdatePaused DEF NonePaused
  <1>7. CASE CtorsEnd
    <2>1. running # Nobody /\ running.func = "First"
      BY <1>0, <1>7 DEF CtorsEnd, Nobody
    <2>2. calc' = [calc EXCEPT ![running.node] = "Calc"] /\ running'.func # "NullFirst"
      BY <1>7, <2>1 DEF CtorsEnd, Nobody
    <2>3. "Calc" \notin PausedFuncs
      BY DEF PausedFuncs
    <2> QED
      BY <1>0, <2>1, <2>2, <2>3, UpdatePaused
  <1>8. CASE UnitsEnd
    <2>1. running # Nobody /\ running'.func # "NullFirst"
      BY <1>8 DEF UnitsEnd, Nobody
    <2>2. calc' = calc \/ calc' = [calc EXCEPT ![running.node] = "Calc"]
      BY <1>8 DEF UnitsEnd
    <2>3. "Calc" \notin PausedFuncs
      BY DEF PausedFuncs
    <2> QED
      BY <1>0, <2>1, <2>2, <2>3, UpdatePaused DEF NonePaused
  <1>9. ASSUME NEW a \in 1 .. 14, DoneAction(a) PROVE NonePaused'
    <2>1. a \notin {1, 9, 10}
      BY <1>9 DEF DoneAction, NothingPauses
    <2>2. PICK ended : Follow(EndedAndPaused(ended, {}))
      BY <1>9, <2>1 DEF DoneAction
    <2>3. \A n \in Node : EndedAndPaused(ended, {})[n] \notin PausedFuncs
      BY <1>0 DEF EndedAndPaused, PausedFuncs
    <2>4. UNCHANGED running
      BY <1>9 DEF DoneAction, walk
    <2> QED
      BY <2>2, <2>3, <2>4, FollowPaused
  <1>10. ASSUME NEW act \in {"free", "pause", "resume"}, NEW n \in Node, UnitAct(act, n)
         PROVE  NonePaused'
    <2>1. act \in {"free", "resume"} /\ UNCHANGED running
      BY <1>10 DEF UnitAct, NothingPauses, walk
    <2>2. \E f \in {"Delete", Resumed(calc[n])} : calc' = [calc EXCEPT ![n] = f]
      BY <1>10, <2>1 DEF UnitAct
    <2>3. "Delete" \notin PausedFuncs /\ Resumed(calc[n]) \notin PausedFuncs
      BY <1>0 DEF PausedFuncs, Resumed
    <2> QED
      BY <1>0, <2>1, <2>2, <2>3, UpdatePaused
  <1>11. CASE UNCHANGED calcVars
    BY <1>11 DEF calcVars, NonePaused
  <1> QED
    BY <1>1, <1>2, <1>3, <1>4, <1>5, <1>6, <1>7, <1>8, <1>9, <1>10, <1>11
    DEF CalcNext, Commands, Block

CoverInv == Covered(tree, stack, visited, visited)

LEMMA NoneCovered == ASSUME NEW T, NEW st PROVE Covered(T, st, {}, {})
  BY DEF Covered

LEMMA KeptCover ==
  ASSUME IInv, IInv', WalkInv', CoverInv, UNCHANGED <<stack, visited>>,
         UNCHANGED tree \/ Kept(tree, tree')
  PROVE  CoverInv'
  <1>1. /\ tree \in Trees /\ LinksOK(tree) /\ tree' \in Trees /\ LinksOK(tree')
        /\ Path(tree', stack)
    BY DEF IInv, TypeOK, ListsWhole, WalkInv
  <1>2. CASE UNCHANGED tree
    BY <1>2 DEF CoverInv, Covered
  <1>3. CASE Kept(tree, tree')
    <2>1. Covered(tree', stack, visited, visited)
      BY <1>1, <1>3, KeptCovered DEF CoverInv
    <2> QED
      BY <2>1 DEF CoverInv, Covered
  <1> QED
    BY <1>2, <1>3

LEMMA BeginCover ==
  ASSUME IInv, OnceInv, BlockBegin
  PROVE  CoverInv'
  <1>1. /\ tree \in Trees /\ LinksOK(tree) /\ UNCHANGED tree /\ Root \in Node
        /\ stack = <<>> /\ visited = {}
    BY RootAssumption DEF IInv, TypeOK, ListsWhole, BlockBegin, AtRest, OnceInv
  <1>2. CASE UNCHANGED visited
    BY <1>1, <1>2, NoneCovered DEF CoverInv
  <1>3. CASE /\ stack' = <<[group |-> Root, next |-> tree.head[Root], func |-> calc[Root]]>>
             /\ visited' = {Root}
    <2>1. Len(stack') = 1 /\ stack'[1].group = Root /\ stack'[1].next = tree.head[Root]
      BY <1>3
    <2>2. ASSUME NEW m \in tree.live \ {Root}, tree.parent[m] \in {Root}
          PROVE  tree.head[Root] = m \/ tree.prev[m] \in tree.live \ {Root}
      <3>1. m \in Node /\ tree.parent[m] = Root
        BY <1>1, <2>2, FieldTypes
      <3>2. CASE tree.prev[m] = Null
        BY <1>1, <3>1, <3>2 DEF LinksOK, EndsAgree
      <3>3. CASE tree.prev[m] # Null
        <4>1. tree.prev[m] \in tree.live /\ tree.parent[tree.prev[m]] = Root
          BY <1>1, <3>1, <3>3, FieldTypes, PrevLive
        <4>2. tree.parent[Root] = Null
          BY <1>1 DEF LinksOK, LibraryAgrees
        <4> QED
          BY <1>1, <4>1, <4>2, NullAssumption
      <3> QED
        BY <3>2, <3>3
    <2>3. Covered(tree, stack', {Root}, {Root})
      BY <2>1, <2>2 DEF Covered
    <2> QED
      BY <1>1, <1>3, <2>3 DEF CoverInv
  <1> QED
    BY <1>2, <1>3 DEF BlockBegin

LEMMA LeaveCover ==
  ASSUME IInv, WalkInv, OnceInv, CoverInv, Leave
  PROVE  CoverInv' /\ Covered(tree, stack', visited, visited)
  <1>1. /\ tree \in Trees /\ LinksOK(tree) /\ Path(tree, stack) /\ stack # <<>> /\ UNCHANGED tree
        /\ stack' = SubSeq(stack, 1, Len(stack) - 1) /\ stack[Len(stack)].next = Null
        /\ visited' \in {{}, visited}
    BY DEF IInv, TypeOK, ListsWhole, WalkInv, Leave, Walking, Top
  <1>2. stack[Len(stack)].group \in visited
    BY <1>1, TopIndex DEF Path, OnceInv, Ordered
  <1>3. Covered(tree, stack', visited, visited)
    BY <1>1, <1>2, CoveredPop DEF CoverInv
  <1> QED
    BY <1>1, <1>3, NoneCovered DEF CoverInv

LEMMA VisitCover ==
  ASSUME IInv, IInv', WalkInv, WalkInv', OnceInv, CoverInv, NonePaused, NEW n \in Node, Visit(n)
  PROVE  CoverInv' /\ stack' # <<>>
  <1> DEFINE saved == [stack EXCEPT ![Len(stack)].next = tree.next[n]]
             v == visited \cup {n}
  <1>1. /\ tree \in Trees /\ LinksOK(tree) /\ tree' \in Trees /\ LinksOK(tree')
        /\ Path(tree, stack) /\ stack # <<>> /\ n = stack[Len(stack)].next
        /\ Ordered(tree, stack, visited) /\ Covered(tree, stack, visited, visited)
    BY DEF IInv, TypeOK, ListsWhole, WalkInv, OnceInv, CoverInv, Visit, Walking, Top
  <1>2. Call(n, FuncOf(n), saved)
    BY DEF Visit, Advanced
  <1>3. n \notin visited /\ AtTop(tree, stack, n) /\ stack[Len(stack)].group \in visited
    BY <1>1, TopIndex, NullAssumption DEF Path, OnPath, Ordered, AtTop
  <1>4. /\ Path(tree, saved) /\ Len(saved) = Len(stack) /\ saved # <<>>
        /\ \A i \in 1 .. Len(stack) :
             /\ saved[i].group = stack[i].group
             /\ saved[i].next = IF i = Len(stack) THEN tree.next[n] ELSE stack[i].next
    BY <1>1, <1>3, PathAdvance
  <1> HIDE DEF saved
  <1>5. visited' = v
    BY <1>2 DEF Call
  <1>6. Covered(tree, saved, visited \cup {n}, visited)
    BY <1>1, <1>4, CoveredAdvance
  \* Nothing is left out if the node has no nodes below it afterwards.
  <1>7. ASSUME stack' = saved, Covered(tree', saved, visited \cup {n}, visited),
               \A m \in tree'.live : tree'.parent[m] # n
        PROVE  CoverInv' /\ stack' # <<>>
    <2>1. Covered(tree', saved, visited \cup {n}, visited \cup {n})
      BY <1>7 DEF Covered
    <2> QED
      BY <1>4, <1>5, <1>7, <2>1 DEF CoverInv
  <1>8. CASE FuncOf(n) = "Null"
    BY <1>8 DEF FuncOf, NonePaused, PausedFuncs
  <1>9. CASE stack' = saved /\ NFree(n)
    <2>1. n # Root /\ n \in tree.live
      BY <1>1, <1>3, TopIndex, NullAssumption DEF AtTop, LinksOK, LibraryAgrees, Path, Frame
    <2>2. Kept(tree, tree') /\ Path(tree', saved)
      BY <1>1, <1>9, <2>1, DeleteKept DEF NFree, WalkInv
    <2>3. n \notin tree'.live
      BY <1>1, <1>9, <2>1, DeleteTakes DEF NFree
    <2>4. \A m \in tree'.live : tree'.parent[m] # n
      BY <1>1, <2>3, FieldTypes, NullAssumption DEF LinksOK, LibraryAgrees
    <2>5. Covered(tree', saved, visited \cup {n}, visited)
      BY <1>1, <1>6, <2>2, KeptCovered
    <2> QED
      BY <1>7, <1>9, <2>4, <2>5
  <1>10. CASE /\ stack' = Append(saved, [group |-> n, next |-> tree.head[n], func |-> FuncOf(n)])
              /\ UNCHANGED tree
    <2>1. \A m \in visited \cap tree.live : tree.parent[m] # Null => tree.parent[m] \in visited
      BY <1>1 DEF Ordered
    <2>2. saved \in Seq(Frame) /\ n \in tree.live /\ tree.parent[n] \in visited
      BY <1>3, <1>4 DEF Path, AtTop
    <2>3. Covered(tree, stack', visited \cup {n}, visited \cup {n})
      BY <1>1, <1>3, <1>6, <1>10, <2>1, <2>2, CoveredPush
    <2>4. stack' # <<>>
      BY <1>10, <2>2
    <2> QED
      BY <1>5, <1>10, <2>3, <2>4 DEF CoverInv
  <1>11. CASE n \notin tree.group /\ stack' = saved /\ UNCHANGED tree
    <2>1. \A m \in tree.live : tree.parent[m] # n
      BY <1>1, <1>11, FieldTypes, NullAssumption DEF LinksOK, LibraryAgrees
    <2> QED
      BY <1>6, <1>7, <1>11, <2>1
  <1> QED
    BY <1>2, <1>8, <1>9, <1>10, <1>11 DEF Call

LEMMA NextCoverInv ==
  IInv /\ IInv' /\ WalkInv /\ WalkInv' /\ OnceInv /\ NonePaused /\ CoverInv
    /\ [CalcNext]_calcVars
  => CoverInv'
  <1> SUFFICES ASSUME IInv, IInv', WalkInv, WalkInv', OnceInv, NonePaused, CoverInv,
                      [CalcNext]_calcVars
               PROVE  CoverInv'
    OBVIOUS
  <1>0. tree \in Trees /\ LinksOK(tree)
    BY DEF IInv, TypeOK, ListsWhole
  <1>1. CASE Commands
    <2>1. visited' = {}
      BY <1>1 DEF Commands, ClientCommand, NRun, NTrace, GDumpTree, AtRest, OnceInv, walk
    <2> QED
      BY <2>1, NoneCovered DEF CoverInv
  <1>2. CASE DeepFreeLoop
    <2>1. UNCHANGED <<stack, visited>>
      BY <1>2 DEF DeepFreeLoop, walk
    <2>2. CASE DeepFreeEnd
      BY <2>1, <2>2, KeptCover DEF DeepFreeEnd
    <2>3. ASSUME NEW n \in Node, DeepFreeNext(n) PROVE CoverInv'
      <3>1. n \in tree.live \ tree.group /\ tree' = Delete(Remove(tree, n), n)
        BY <2>3 DEF DeepFreeNext, SynthsBelow, Below
      <3>2. n # Root
        BY <1>0, <3>1 DEF LinksOK, LibraryAgrees
      <3>3. Kept(tree, tree')
        BY <1>0, <3>1, <3>2, DeepFreeKept
      <3> QED
        BY <2>1, <3>3, KeptCover
    <2> QED
      BY <1>2, <2>2, <2>3 DEF DeepFreeLoop
  <1>3. CASE BlockBegin
    BY <1>3, BeginCover
  <1>4. ASSUME NEW n \in Node, Visit(n) PROVE CoverInv'
    BY <1>4, VisitCover
  <1>5. CASE Leave
    BY <1>5, LeaveCover
  <1>6. CASE CtorsEnd \/ UnitsEnd
    BY <1>6, KeptCover DEF CtorsEnd, UnitsEnd
  <1>7. ASSUME NEW a \in 1 .. 14, DoneAction(a) PROVE CoverInv'
    <2> DEFINE m == IF a % 2 = 1 THEN tree.prev[running.node] ELSE tree.next[running.node]
    <2>1. /\ UNCHANGED <<stack, visited>>
          /\ (m \in tree.group /\ GFreeAll(m)) \/ UNCHANGED tree
      BY <1>7 DEF DoneAction, EmptyNeighbour, DeepFreeBegin, walk
    <2> HIDE DEF m
    <2>2. m \in tree.group => m \in Node
      BY <1>0, FieldTypes
    <2>3. UNCHANGED tree \/ Kept(tree, tree')
      BY <1>0, <2>1, <2>2, DeleteAllKept DEF GFreeAll
    <2> QED
      BY <2>1, <2>3, KeptCover
  <1>8. ASSUME NEW act, NEW n \in Node, UnitAct(act, n) PROVE CoverInv'
    BY <1>8, KeptCover DEF UnitAct, walk
  <1>9. CASE UNCHANGED calcVars
    BY <1>9, KeptCover DEF calcVars
  <1> QED
    BY <1>1, <1>2, <1>3, <1>4, <1>5, <1>6, <1>7, <1>8, <1>9 DEF CalcNext, Block

\* The end of the block: the root group is left.
LEMMA EndCovers ==
  ASSUME IInv, IInv', WalkInv, WalkInv', OnceInv, NonePaused, CoverInv, Rooted(tree),
         [CalcNext]_calcVars, stack # <<>>, stack' = <<>>
  PROVE  tree.live \subseteq visited
  <1>1. ~AtRest /\ stack' # stack
    BY DEF AtRest
  <1>2. Leave
    <2>1. ~Commands /\ ~BlockBegin
      BY <1>1 DEF Commands, ClientCommand, NRun, NTrace, GDumpTree, BlockBegin
    <2>2. ~DeepFreeLoop /\ ~CtorsEnd /\ ~UnitsEnd
      BY <1>1 DEF DeepFreeLoop, CtorsEnd, UnitsEnd, walk
    <2>3. ASSUME NEW n \in Node PROVE ~Visit(n)
      BY VisitCover
    <2>4. ASSUME NEW a PROVE ~DoneAction(a)
      BY <1>1 DEF DoneAction, walk
    <2>5. ASSUME NEW act, NEW n PROVE ~UnitAct(act, n)
      BY <1>1 DEF UnitAct, walk
    <2> QED
      BY <1>1, <2>1, <2>2, <2>3, <2>4, <2>5 DEF CalcNext, Block, calcVars
  <1>3. Covered(tree, <<>>, visited, visited)
    BY <1>2, LeaveCover
  <1>4. Root \in visited
    <2>1. stack \in Seq(Frame) /\ 1 \in 1 .. Len(stack)
      BY TopIndex DEF WalkInv, Path
    <2> QED
      BY <2>1 DEF WalkInv, Path, OnPath, OnceInv, Ordered
  <1>5. tree \in Trees
    BY DEF IInv, TypeOK
  <1> QED
    BY <1>3, <1>4, <1>5, NothingLeftOut

\* Group_Calc leaves no node out: at the end of a block each node that still exists was
\* called in it, whatever was freed and ended meanwhile, for clients whose placements make
\* sense and if nothing pauses nodes.
THEOREM BlocksCoverAll ==
  ASSUME Careful, NothingPauses
  PROVE  CalcSpec => BlockCoversAll
  <1> DEFINE Inv == IInv /\ RootInv /\ WalkInv /\ OnceInv /\ NonePaused /\ CoverInv
  <1>1. CalcSpec => []RootInv
    <2>1. CalcInit => RootInv
      BY InitRootInv DEF CalcInit
    <2>2. IInv /\ RootInv /\ [CalcNext]_calcVars => RootInv'
      BY StepIsNext, NextRootInv
    <2> QED
      BY <2>1, <2>2, TreeInvariance, PTL DEF CalcSpec
  <1>2. CalcSpec => []NonePaused
    <2>1. CalcInit => NonePaused
      BY DEF CalcInit, NonePaused, PausedFuncs, Nobody
    <2>2. WalkInv /\ NonePaused /\ IInv /\ [CalcNext]_calcVars => NonePaused'
      BY NextNonePaused
    <2> QED
      BY <2>1, <2>2, TreeInvariance, WalkInvariance, PTL DEF CalcSpec
  <1>3. CalcSpec => []CoverInv
    <2>1. CalcInit => CoverInv
      BY NoneCovered DEF CalcInit, CoverInv
    <2> QED
      BY <2>1, <1>2, NextCoverInv, OnceInvariance, TreeInvariance, WalkInvariance, PTL DEF CalcSpec
  <1>4. Inv /\ Inv' /\ [CalcNext]_calcVars =>
          [stack # <<>> /\ stack' = <<>> => tree.live \subseteq visited]_calcVars
    BY EndCovers DEF RootInv
  <1> QED
    BY <1>1, <1>2, <1>3, <1>4, OnceInvariance, TreeInvariance, WalkInvariance, PTL
    DEF BlockCoversAll, CalcSpec
=============================================================================

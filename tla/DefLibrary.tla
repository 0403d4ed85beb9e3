------------------------------ MODULE DefLibrary ------------------------------
(***************************************************************************)
(* The library of synth definitions and the lifetime of their memory.      *)
(* Definitions are read on the non-real-time thread, entered, looked up    *)
(* and counted on the real-time thread, and freed by the non-real-time     *)
(* thread when a DeleteGraphDefMsg reaches it through a FIFO; d_freeAll    *)
(* frees on the real-time thread.  A definition may have variants, which   *)
(* are entered under names of their own but lie in its memory.             *)
(*                                                                         *)
(* With Careful no synth is made from a variant, and d_freeAll is only     *)
(* sent when no definition in the library plays or has variants.           *)
(***************************************************************************)
EXTENDS HashTable

CONSTANTS VariantsOf,   \* mVariants
          Lists,        \* which definitions arrive together, in a file or a message
          FifoRoom,     \* what mDeleteGraphDefs holds
          MaxSynths,    \* bound: synths at a time
          Careful       \* see above

Original == {d \in Item : \A o \in Item : d \notin ToSet(VariantsOf[o])}
OriginalOf(d) == CHOOSE o \in Original : d = o \/ d \in ToSet(VariantsOf[o])
Family(d) == {d} \union ToSet(VariantsOf[d])

ASSUME DefAssumption ==
  /\ \A d \in Item : VariantsOf[d] \in Seq(Item)
  /\ \A d \in Item : d \notin Original => VariantsOf[d] = << >>
  /\ \A d \in Item \ Original : \E o \in Original : d \in ToSet(VariantsOf[o])
  /\ \A o, p \in Item : o # p => ToSet(VariantsOf[o]) \intersect ToSet(VariantsOf[p]) = {}
  /\ \A list \in Lists : list \in Seq(Original) /\ IsInjective(list)
  /\ FifoRoom \in Nat /\ MaxSynths \in Nat /\ Careful \in BOOLEAN

VARIABLES lib,       \* mGraphDefLib
          refs,      \* mRefCount of each definition
          live,      \* the original definitions whose memory is allocated
          playing,   \* how many synths have each definition as their mDef
          deletes    \* mDeleteGraphDefs

vars == <<lib, refs, live, playing, deletes>>

Init ==
  /\ lib = EmptyTable
  /\ refs = [d \in Item |-> 0]
  /\ live = {}
  /\ playing = [d \in Item |-> 0]
  /\ deletes = << >>

\* GraphDef_DeleteMsg: a full FIFO refuses the message, which nobody looks at.
DeleteMsg(q, d) == IF Len(q) < FifoRoom THEN Append(q, d) ELSE q

-----------------------------------------------------------------------------
(* The library, the counts and the FIFO, as one record that the commands   *)
(* with lists take from one element to the next.                           *)

Now == [lib |-> lib, refs |-> refs, deletes |-> deletes]

Becomes(s) == lib' = s.lib /\ refs' = s.refs /\ deletes' = s.deletes

AddGraphDef(T, d) ==
  LET list == <<d>> \o VariantsOf[d]
      added[k \in 0 .. Len(list)] == IF k = 0 THEN T ELSE AddItem(added[k - 1], list[k])
  IN  added[Len(list)]

RemoveGraphDef(T, d) ==
  LET list == VariantsOf[d] \o <<d>>
      removed[k \in 0 .. Len(list)] == IF k = 0 THEN T ELSE RemoveItem(removed[k - 1], list[k])
  IN  removed[Len(list)]

\* Taken out of the library; the last reference frees it.
Dropped(s, d) ==
  [lib |-> RemoveGraphDef(s.lib, d),
   refs |-> [s.refs EXCEPT ![d] = @ - 1],
   deletes |-> IF s.refs[d] = 1 THEN DeleteMsg(s.deletes, d) ELSE s.deletes]

\* One turn of the loop of GraphDef_Define.
Entered(s, d) ==
  LET previous == Get(s.lib, KeyOf[d])
      t == IF previous # Empty THEN Dropped(s, previous) ELSE s
  IN  [t EXCEPT !.lib = AddGraphDef(@, d)]

EnteredAll(s, list) ==
  LET after[k \in 0 .. Len(list)] == IF k = 0 THEN s ELSE Entered(after[k - 1], list[k])
  IN  after[Len(list)]

\* GraphDef_Define: the definitions have been read into fresh memory.
Define(list) ==
  /\ ToSet(list) \intersect live = {}
  /\ LET new == UNION {Family(d) : d \in ToSet(list)}
         counted == [d \in Item |-> IF d \in new THEN 1 ELSE refs[d]]
     IN  Becomes(EnteredAll([Now EXCEPT !.refs = counted], list))
  /\ live' = live \union ToSet(list)
  /\ UNCHANGED playing

\* d_free of one name.
Free(n) ==
  /\ Get(lib, n) # Empty
  /\ Becomes(Dropped(Now, Get(lib, n)))
  /\ UNCHANGED <<live, playing>>

\* The memory that FreeAll reads or frees is not in anybody's hands.
FreeAllMakesSense ==
  /\ \A d \in Kept(lib) : d \in Original /\ VariantsOf[d] = << >> /\ playing[d] = 0
  /\ \A i \in DOMAIN deletes : deletes[i] \in Original

\* d_freeAll: GraphDef_Free of each item of the table; a variant frees nothing.
FreeAll ==
  /\ Careful => FreeAllMakesSense
  /\ live' = live \ Kept(lib)
  /\ lib' = EmptyTable
  /\ UNCHANGED <<refs, playing, deletes>>

-----------------------------------------------------------------------------
(* Synths: Graph_Ctor and Graph_Dtor. *)

SNew(n) ==
  LET d == Get(lib, n)
  IN  /\ d # Empty
      /\ Careful => d \in Original
      /\ SumFunction(playing) < MaxSynths
      /\ playing' = [playing EXCEPT ![d] = @ + 1]
      /\ refs' = [refs EXCEPT ![d] = @ + 1]
      /\ UNCHANGED <<lib, live, deletes>>

\* Graph_Dtor that gives the definition up while another synth still uses it.
SynthEndsEarly(d) ==
  /\ playing[d] > 0
  /\ playing' = [playing EXCEPT ![d] = @ - 1]
  /\ refs' = [refs EXCEPT ![d] = @ - 1]
  /\ deletes' = IF refs[d] <= 2 THEN DeleteMsg(deletes, d) ELSE deletes
  /\ UNCHANGED <<lib, live>>

SynthEnds(d) ==
  /\ playing[d] > 0
  /\ playing' = [playing EXCEPT ![d] = @ - 1]
  /\ refs' = [refs EXCEPT ![d] = @ - 1]
  /\ deletes' = IF refs[d] <= 1 THEN DeleteMsg(deletes, d) ELSE deletes
  /\ UNCHANGED <<lib, live>>

\* DeleteGraphDefMsg::Perform; GraphDef_Free returns at once for a variant.
DeleteDef ==
  /\ deletes # << >>
  /\ live' = live \ {Head(deletes)}
  /\ deletes' = Tail(deletes)
  /\ UNCHANGED <<lib, refs, playing>>

Next ==
  \/ \E list \in Lists : Define(list)
  \/ \E n \in Key : Free(n) \/ SNew(n)
  \/ FreeAll
  \/ \E d \in Item : SynthEnds(d)
  \/ DeleteDef

Spec == Init /\ [][Next]_vars

-----------------------------------------------------------------------------
Alive(d) == OriginalOf(d) \in live

\* No definition is freed while it can be reached: by its name, from a synth, or
\* from a message that is about to free it; and none is to be freed twice.
DefsAlive ==
  /\ \A d \in Kept(lib) : Alive(d)
  /\ \A d \in Item : playing[d] > 0 => Alive(d)
  /\ \A i \in DOMAIN deletes : Alive(deletes[i]) /\ deletes[i] \notin Kept(lib)
  /\ IsInjective(deletes)

\* Whatever was added and removed in whatever order, names that collide included,
\* a lookup in the table finds what a map from names to definitions would.
Found == {n \in Key : Get(lib, n) # Empty}

AsNames == INSTANCE DefNames WITH
  NameOf <- KeyOf, defs <- [n \in Found |-> Get(lib, n)]

TableSpec == AsNames!Spec
=============================================================================

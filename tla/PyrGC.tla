------------------------------- MODULE PyrGC -------------------------------
(***************************************************************************)
(* PyrGC, the incremental collector of the language, and the operations of *)
(* the interpreter that it works against: an object is white (not          *)
(* reached), grey (reached), black (scanned) or free.  White objects are   *)
(* freed at a flip; black ones stay black at a minor flip and become white *)
(* at a major one.  A write into a black object greys what is written.     *)
(*                                                                         *)
(* The treadmill's lists are the sets of the objects of a colour.  How far *)
(* a collection gets before its budget (mNumToScan) is spent is left open. *)
(* A slot holds an object or Nil, which stands for every other value.  Of  *)
(* a frame the caller, the context and the home context are kept: its      *)
(* variables are written and scanned as the slots of an array are.  The    *)
(* frame that the process keeps for code outside of methods is Nil, too.   *)
(***************************************************************************)
EXTENDS Naturals, Sequences

CONSTANTS
  Process, Threads, Stacks,
  PlainFrames, HeapFrames,   \* the frames of code without and with needsHeapContext
  Arrays,
  Main, MainStack,           \* the main thread and its stack
  Large,                     \* the objects with too many slots for the budget of a collection
  Nil,
  MajorEvery,                \* every so many flips is a major one (4 in the code)
  MaxDepth, MaxSize,         \* bounds: the size of a stack and of an array
  Careful                    \* no array is shortened in the part that is already scanned

Frames == PlainFrames \union HeapFrames
Obj == {Process} \union Threads \union Stacks \union Frames \union Arrays

\* What a slot of a stack or of an array can hold; a closure stands for its frame.
Values == Arrays \union Threads \union HeapFrames

ASSUME KindsAssumption ==
  /\ Process \notin Large \union Threads \union Stacks \union Frames \union Arrays
  /\ Threads \intersect (Stacks \union Frames \union Arrays) = {}
  /\ Stacks \intersect (Frames \union Arrays) = {}
  /\ Frames \intersect Arrays = {}
  /\ PlainFrames \intersect HeapFrames = {}
  /\ Main \in Threads /\ MainStack \in Stacks /\ Large \subseteq Obj
  /\ Nil \notin Obj
  /\ MajorEvery \in Nat \ {0} /\ MaxDepth \in Nat /\ MaxSize \in Nat
  /\ Careful \in BOOLEAN

VARIABLES
  color, field,     \* gc_color, the slots that are in use
  thread, stack,    \* g->thread, mStack
  frame,            \* g->frame
  partialObj,       \* mPartialScanObj
  partialSlot,      \* mPartialScanSlot: the slots from here on are not scanned
  returning,        \* the home context of a ^ that goes on in the parent thread
  mode,             \* "run", or in Collect: "collect", and "scanned" once the stack is
  flips             \* mFlips modulo MajorEvery

heap == <<color, field>>
registers == <<thread, stack, frame, returning>>
scan == <<partialObj, partialSlot>>
collector == <<mode, flips>>
vars == <<color, field, thread, stack, frame, partialObj, partialSlot, returning, mode, flips>>

Slots(s) == {s[i] : i \in DOMAIN s}

----------------------------------------------------------------------------
\* Colours.

ToGrey(c, S) == [o \in Obj |-> IF o \in S /\ c[o] = "white" THEN "grey" ELSE c[o]]

\* Error caught by the runs: the barrier is forgotten.
NoBarrier(c, parent, child) == c

\* GCWrite, after child has been written into parent.
GCWrite(c, parent, child) == IF c[parent] = "black" THEN ToGrey(c, {child}) ELSE c

----------------------------------------------------------------------------
\* The interpreter.

Init ==
  /\ color = [o \in Obj |-> CASE o = Process -> "grey" [] o = MainStack -> "black"
                              [] o = Main -> "white" [] OTHER -> "free"]
  /\ field = [o \in Obj |-> CASE o = Process -> <<Main, Main>> [] o = Main -> <<Nil, Nil, Nil>>
                              [] OTHER -> <<>>]
  /\ thread = Main /\ stack = MainStack /\ frame = Nil
  /\ partialObj = Nil /\ partialSlot = 1 /\ returning = Nil
  /\ mode = "run" /\ flips = 0

Running == mode = "run" /\ returning = Nil /\ UNCHANGED <<collector, scan>>

OnStack == Slots(field[stack])

\* What the running code can name, its own function included.  The operands of an operation
\* are on the stack while it runs; they are pushed and popped with it here.
Named ==
  (OnStack \union {thread, Main, frame} \union (IF frame = Nil THEN {} ELSE {field[frame][2]})
     \union UNION {Slots(field[a]) : a \in OnStack \intersect Arrays}) \intersect Values

PushOn(f, v) == [f EXCEPT ![stack] = Append(@, v)]

\* The stack is written without a barrier: it is scanned again before every flip.  Bound:
\* what is held there already, or by the process, is not pushed.
Push(v) ==
  /\ Running
  /\ v \in Named \ (OnStack \union {thread, Main}) /\ Len(field[stack]) < MaxDepth
  /\ field' = PushOn(field, v)
  /\ UNCHANGED <<color, registers>>

Pop ==
  /\ Running
  /\ field[stack] # <<>>
  /\ field' = [field EXCEPT ![stack] = SubSeq(@, 1, Len(@) - 1)]
  /\ UNCHANGED <<color, registers>>

\* New, from the free objects or from the pool.
New(a) ==
  /\ Running
  /\ a \in Arrays /\ color[a] = "free" /\ Len(field[stack]) < MaxDepth
  /\ color' = [color EXCEPT ![a] = "white"]
  /\ field' = PushOn([field EXCEPT ![a] = <<>>], a)
  /\ UNCHANGED registers

\* prThreadInit: a thread with a stack of its own.
NewThread(t, s) ==
  /\ Running
  /\ t \in Threads /\ s \in Stacks /\ color[t] = "free" /\ color[s] = "free"
  /\ Len(field[stack]) < MaxDepth
  /\ color' = [color EXCEPT ![t] = "white", ![s] = "white"]
  /\ field' = PushOn([field EXCEPT ![t] = <<s, Nil, Nil>>, ![s] = <<>>], t)
  /\ UNCHANGED registers

\* basicPut.
Put(a, i, v) ==
  /\ Running
  /\ a \in Named \intersect Arrays /\ i \in DOMAIN field[a] /\ v \in Named
  /\ field' = [field EXCEPT ![a][i] = v]
  /\ color' = GCWrite(color, a, v)
  /\ UNCHANGED registers

\* prArrayAdd, in an array that has room.
Add(a, v) ==
  /\ Running
  /\ a \in Named \intersect Arrays /\ v \in Named /\ Len(field[a]) < MaxSize
  /\ field' = [field EXCEPT ![a] = Append(@, v)]
  /\ color' = GCWrite(color, a, v)
  /\ UNCHANGED registers

\* prArrayInsert, in an array that has room: the array is to be scanned again.
Insert(a, i, v) ==
  /\ Running
  /\ a \in Named \intersect Arrays /\ v \in Named /\ Len(field[a]) < MaxSize
  /\ i \in 1 .. Len(field[a]) + 1
  /\ field' = [field EXCEPT ![a] = SubSeq(@, 1, i - 1) \o <<v>> \o SubSeq(@, i, Len(@))]
  /\ color' = [color EXCEPT ![a] = "grey"]
  /\ UNCHANGED registers

\* Error caught by the runs: the last slot moves without a barrier.
TakeAtUnguarded(a, i) ==
  /\ Running
  /\ a \in Named \intersect Arrays /\ i \in DOMAIN field[a]
  /\ field' = [field EXCEPT ![a] = SubSeq([@ EXCEPT ![i] = field[a][Len(field[a])]], 1, Len(@) - 1)]
  /\ UNCHANGED <<color, registers>>

\* basicTakeAt: the last slot takes the place of the one that is removed.
TakeAt(a, i) ==
  /\ Running
  /\ a \in Named \intersect Arrays /\ i \in DOMAIN field[a]
  /\ field' = [field EXCEPT ![a] = SubSeq([@ EXCEPT ![i] = field[a][Len(field[a])]], 1, Len(@) - 1)]
  /\ color' = GCWrite(color, a, field[a][Len(field[a])])
  /\ UNCHANGED registers

\* basicRemoveAt: all slots behind move down, and the barrier sees the first of them.
RemoveAt(a, i) ==
  /\ Running
  /\ a \in Named \intersect Arrays /\ i \in DOMAIN field[a]
  /\ Careful => (a = partialObj => i + 1 >= partialSlot)
  /\ field' = [field EXCEPT ![a] = SubSeq(@, 1, i - 1) \o SubSeq(@, i + 1, Len(@))]
  /\ color' = IF i < Len(field[a]) THEN GCWrite(color, a, field[a][i + 1]) ELSE color
  /\ UNCHANGED registers

----------------------------------------------------------------------------
\* Calls and returns.

\* The frame f and its callers as far as r: what every set that holds f and, with a frame
\* other than r, its caller has in common.
CallersTo(f, r) ==
  {g \in Frames : f # Nil /\ \A S \in SUBSET Frames :
     (f \in S /\ \A k \in S \ {r} : field[k] # <<>> /\ field[k][1] # Nil => field[k][1] \in S)
       => g \in S}

\* The frames of the code that runs, from the innermost one.
Chain == CallersTo(frame, Nil)

\* A frame for code that is called, in the given context and home context.
NewFrame(f, context, home) ==
  /\ f \in Frames /\ color[f] = "free"
  /\ color' = [color EXCEPT ![f] = "white"]
  /\ field' = [field EXCEPT ![f] = <<frame, context, home>>]
  /\ frame' = f
  /\ UNCHANGED <<thread, stack>>

\* executeMethod.
Call(f) == Running /\ NewFrame(f, f, f) /\ UNCHANGED returning

\* blockValue: a function that was made in the frame h, or outside of methods.
CallBlock(f, h) ==
  /\ Running
  /\ frame # Nil /\ (h = Nil \/ h \in Named \intersect HeapFrames)
  /\ NewFrame(f, h, IF h = Nil THEN Nil ELSE field[h][3])
  /\ UNCHANGED returning

\* Error caught by the runs: the frames with a heap context are freed, too.
LeaveAll(S, kept) ==
  /\ color' = [o \in Obj |-> IF o \in S THEN "free" ELSE color[o]]
  /\ field' = [o \in Obj |-> IF o \in S THEN <<>> ELSE field[o]]

\* The frames of S are left: those without a heap context are freed, the others forget their
\* caller, except the one in kept.
Leave(S, kept) ==
  /\ color' = [o \in Obj |-> IF o \in S \intersect PlainFrames THEN "free" ELSE color[o]]
  /\ field' = [o \in Obj |-> IF o \in S \intersect PlainFrames THEN <<>>
                             ELSE IF o \in S \ {kept} THEN <<Nil, field[o][2], field[o][3]>>
                             ELSE field[o]]

\* returnFromBlock.
ReturnFromBlock ==
  /\ Running
  /\ frame # Nil /\ field[frame][1] # Nil /\ field[frame][2] # frame
  /\ Leave({frame}, Nil)
  /\ frame' = field[frame][1]
  /\ UNCHANGED <<thread, stack, returning>>

\* The method that a return leaves, and the frame that it goes to.
Home ==
  IF returning # Nil THEN returning
  ELSE IF field[frame][2] = Nil THEN Nil ELSE field[field[frame][2]][3]
ReturnFrame == IF Home = Nil THEN Nil ELSE field[Home][1]

\* returnFromMethod, to a caller.  The caller of the home context is left in place, which may
\* be a frame that is freed when it returns in its turn.
ReturnFromMethod ==
  /\ mode = "run" /\ frame # Nil
  /\ ReturnFrame \in Chain
  /\ Leave(CallersTo(frame, ReturnFrame) \ {ReturnFrame}, Home)
  /\ frame' = ReturnFrame /\ returning' = Nil
  /\ UNCHANGED <<thread, stack, collector, scan>>

\* returnFromMethod, from code that nothing has called; endInterpreter and the
\* initInterpreter of what the main thread runs next.
ReturnOut ==
  /\ Running
  /\ frame # Nil /\ ReturnFrame = Nil
  /\ field' = [field EXCEPT ![stack] = <<>>, ![Process] = <<Main, Main>>]
  /\ thread' = Main /\ frame' = Nil
  /\ UNCHANGED <<color, stack, returning>>

\* returnFromMethod, to a frame that is no caller: the message outOfContextReturn.
OutOfContextReturn(f) ==
  /\ mode = "run" /\ frame # Nil
  /\ thread = Main \/ field[thread][3] = Nil
  /\ color[f] = "free" /\ ReturnFrame \notin Chain \union {Nil}
  /\ NewFrame(f, f, f) /\ returning' = Nil
  /\ UNCHANGED <<collector, scan>>

----------------------------------------------------------------------------
\* Threads.

\* The old thread gets its stack back, and its frame unless it is done.
SaveThread(c, done) ==
  LET white == [c EXCEPT ![stack] = "white"]
  IN  IF c[thread] = "black" THEN ToGrey(white, {stack} \union (IF done THEN {} ELSE {frame})) ELSE white

\* switchToThread, after c and f have been written: the old thread is suspended, or it is done
\* (or reset) and its stack is emptied.  The new one gets the value v on its stack.
SwitchToThread(c, f, t, done, v) ==
  /\ v = Nil \/ (v \in Named \ Slots(field[field[t][1]]) /\ Len(field[field[t][1]]) < MaxDepth)
  /\ field' = [f EXCEPT ![stack] = IF done THEN <<>> ELSE @,
                        ![thread] = IF done THEN <<stack, Nil, Nil>> ELSE <<stack, frame, @[3]>>,
                        ![Process] = <<t, Main>>, ![t] = <<Nil, Nil, @[3]>>,
                        ![field[t][1]] = IF v = Nil THEN @ ELSE Append(@, v)]
  /\ color' = [GCWrite(SaveThread(c, done), Process, t) EXCEPT ![field[t][1]] = "black"]
  /\ thread' = t
  /\ stack' = field[t][1]
  /\ frame' = field[t][2]

\* A thread that waits with its stack, and one that waits in its code.
Waiting(t) == t \in Threads \ {thread} /\ field[t] # <<>> /\ field[t][1] # Nil
Suspended(t) == Waiting(t) /\ field[t][2] # Nil

\* prRoutineResume; the frame of prStart is the call of a thread that has none yet.
Resume(t, v) ==
  /\ Running
  /\ frame # Nil
  /\ t \in Named \ {Main} /\ Waiting(t)
  /\ SwitchToThread(GCWrite(color, t, thread),
                    [field EXCEPT ![t][3] = IF @ = Nil THEN thread ELSE @], t, FALSE, v)
  /\ UNCHANGED returning

\* prRoutineYield, prRoutineAlwaysYield, prRoutineYieldAndReset: back to the parent.
Yield(done, v) ==
  /\ Running
  /\ frame # Nil /\ thread # Main /\ Suspended(field[thread][3])
  /\ SwitchToThread(color, [field EXCEPT ![thread][3] = Nil], field[thread][3], done, v)
  /\ UNCHANGED returning

\* prRoutineReset.
Reset(t) ==
  /\ Running
  /\ t \in Named \ {Main} /\ Waiting(t)
  /\ field' = [field EXCEPT ![t] = <<@[1], Nil, Nil>>, ![field[t][1]] = <<>>]
  /\ UNCHANGED <<color, registers>>

\* returnFromMethod, when the frame is not found: the search goes on in the parent.
ReturnInParent(v) ==
  /\ mode = "run" /\ frame # Nil
  /\ thread # Main /\ Suspended(field[thread][3]) /\ ReturnFrame \notin Chain \union {Nil}
  /\ SwitchToThread(color, field, field[thread][3], FALSE, v)
  /\ returning' = Home
  /\ UNCHANGED <<collector, scan>>

----------------------------------------------------------------------------
\* The collector.

Grey == {o \in Obj : color[o] = "grey"}
Idle == Grey = {} /\ partialObj = Nil

\* New, when enough has been allocated since the last collection.
BeginCollect ==
  /\ mode = "run" /\ returning = Nil
  /\ mode' = "collect"
  /\ UNCHANGED <<heap, registers, scan, flips>>

\* The slots i to j of o are scanned; when they are not the last, the budget is spent.
ScanSlots(c, o, i, j) ==
  /\ color' = ToGrey(c, {field[o][k] : k \in (i .. j) \intersect DOMAIN field[o]})
  /\ IF j >= Len(field[o])
     THEN partialObj' = Nil /\ partialSlot' = 1 /\ UNCHANGED mode
     ELSE partialObj' = o /\ partialSlot' = j + 1 /\ mode' = "run"

ScanOneObj(o) ==
  /\ mode # "run" /\ partialObj = Nil /\ o \in Grey
  /\ \E j \in {Len(field[o])} \union (IF o \in Large THEN 1 .. Len(field[o]) ELSE {}) : ScanSlots([color EXCEPT ![o] = "black"], o, 1, j)
  /\ UNCHANGED <<field, registers, flips>>

DoPartialScan ==
  /\ mode # "run" /\ partialObj # Nil
  /\ \E j \in partialSlot .. partialSlot + Len(field[partialObj]) : ScanSlots(color, partialObj, partialSlot, j)
  /\ UNCHANGED <<field, registers, flips>>

\* ScanStack, ScanFrames.
ScanRoots ==
  /\ mode = "collect" /\ Idle
  /\ color' = ToGrey(color, OnStack \union Chain)
  /\ mode' = "scanned"
  /\ UNCHANGED <<field, registers, scan, flips>>

\* The budget is spent: Collect returns, and will scan the stack again.
StopCollect ==
  /\ mode # "run" /\ ~Idle
  /\ mode' = "run"
  /\ UNCHANGED <<heap, registers, scan, flips>>

\* The white objects become free, and at a major flip the black ones white.
Flipped(o) ==
  IF o = Process THEN "grey"
  ELSE IF o = stack THEN "black"
  ELSE IF color[o] \in {"white", "free"} THEN "free"
  ELSE IF flips = 0 THEN "white" ELSE "black"

Flip ==
  /\ mode = "scanned" /\ Idle
  /\ color' = [o \in Obj |-> Flipped(o)]
  /\ field' = [o \in Obj |-> IF color'[o] = "free" THEN <<>> ELSE field[o]]
  /\ flips' = (flips + 1) % MajorEvery
  /\ mode' = "run"
  /\ UNCHANGED <<registers, scan>>

Next ==
  \/ \E v \in Values : Push(v)
  \/ Pop
  \/ \E a \in Arrays : New(a)
  \/ \E t \in Threads, s \in Stacks : NewThread(t, s)
  \/ \E a \in Arrays, v \in Values : Add(a, v)
  \/ \E a \in Arrays, i \in 1 .. MaxSize :
       \/ TakeAt(a, i) \/ RemoveAt(a, i)
       \/ \E v \in Values : Put(a, i, v) \/ Insert(a, i, v)
  \/ \E f \in Frames : Call(f) \/ OutOfContextReturn(f) \/ \E h \in HeapFrames \union {Nil} : CallBlock(f, h)
  \/ ReturnFromBlock \/ ReturnFromMethod \/ ReturnOut
  \/ \E v \in Values \union {Nil} :
       \/ ReturnInParent(v)
       \/ \E t \in Threads : Resume(t, v)
       \/ \E done \in BOOLEAN : Yield(done, v)
  \/ \E t \in Threads : Reset(t)
  \/ BeginCollect
  \/ \E o \in Obj : ScanOneObj(o)
  \/ DoPartialScan \/ ScanRoots \/ StopCollect \/ Flip

Spec == Init /\ [][Next]_vars

----------------------------------------------------------------------------
\* Properties.

\* The type of every variable.
TypeOK ==
  /\ color \in [Obj -> {"white", "grey", "black", "free"}]
  /\ field \in [Obj -> Seq(Obj \union {Nil})]
  /\ thread \in Threads /\ stack \in Stacks /\ frame \in Frames \union {Nil}
  /\ partialObj \in Obj \union {Nil} /\ partialSlot \in Nat \ {0}
  /\ returning \in Frames \union {Nil}
  /\ mode \in {"run", "collect", "scanned"} /\ flips \in 0 .. MajorEvery - 1

\* The frames of the code that runs or waits in some thread.
Called == Chain \union UNION {CallersTo(field[t][2], Nil) : t \in {u \in Threads : field[u] # <<>>}}

\* The slots that lead the program to other objects: all but the callers of the frames that
\* have returned, which a ^ only compares with the frames of the code that runs.
Used(o, called) == IF o \in Frames \ called THEN DOMAIN field[o] \ {1} ELSE DOMAIN field[o]

\* What the program can still use is never free: neither its registers nor a slot of an
\* object that is not free refer to a free object, the callers of the frames that have
\* returned excepted.
NothingLost ==
  LET called == Called
  IN  /\ \A o \in Obj : color[o] # "free" =>
           \A i \in Used(o, called) : field[o][i] # Nil => color[field[o][i]] # "free"
      /\ \A o \in {Process, thread, stack, frame} \ {Nil} : color[o] # "free"

\* In the part that is scanned, a black object has no white one in its slot i.
Scanned(o, i) ==
  (o = partialObj => i < partialSlot) => (field[o][i] = Nil \/ color[field[o][i]] # "white")

\* The collector's contract: in the part that is scanned, a black object refers to no white
\* one.  The stack of the thread that runs is exempt, and so are the callers of the frames
\* that have returned.
NoBlackToWhite ==
  LET called == Called
  IN  \A o \in Obj \ {stack} : color[o] = "black" => \A i \in Used(o, called) : Scanned(o, i)

\* BlackToWhiteCheck, which has no second exception.
BlackToWhiteCheck ==
  \A o \in Obj \ {stack} : color[o] = "black" => \A i \in DOMAIN field[o] : Scanned(o, i)

\* A ^ that the code lets return, as it finds the frame that had called the method among the
\* callers, is in a method that has not returned yet.
ReturnsOnce == frame # Nil /\ ReturnFrame \in Chain => Home \in Chain

============================================================================

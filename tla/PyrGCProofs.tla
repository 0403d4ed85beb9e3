----------------------------- MODULE PyrGCProofs -----------------------------
(***************************************************************************)
(* What the program can still use is never freed, for any set of objects   *)
(* and however often the collector is interrupted, as long as no array is  *)
(* shortened in the part that is already scanned.                          *)
(*                                                                         *)
(* The invariant is about a set L of frames that have not returned: it     *)
(* holds the frames of the code that runs or waits, with their callers.    *)
(* The callers of the other frames may be anything.                        *)
(***************************************************************************)
EXTENDS PyrGC, SequenceTheorems, TLAPS

\* The first slot of a frame, the first two of a thread.
Caller(f) == IF field[f] = <<>> THEN Nil ELSE field[f][1]
SavedStack(t) == IF field[t] = <<>> THEN Nil ELSE field[t][1]
SavedFrame(t) == IF field[t] = <<>> THEN Nil ELSE field[t][2]

\* What a thread and a frame hold.
ThreadSlots == ((Stacks \ {stack}) \union {Nil}) \X (Frames \union {Nil}) \X (Threads \union {Nil})
FrameSlots(f) == (Frames \union {Nil}) \X (HeapFrames \union {f, Nil}) \X (HeapFrames \union {f, Nil})

\* What the objects of each kind hold.
Shape ==
  /\ \A o \in Obj : color[o] = "free" => field[o] = <<>>
  /\ field[Process] = <<thread, Main>>
  /\ color[Process] \in {"grey", "black"} /\ partialObj # Process
  /\ \A t \in Threads : color[t] # "free" => field[t] \in ThreadSlots
  /\ \A f \in Frames : color[f] # "free" => field[f] \in FrameSlots(f)
  /\ \A o \in Arrays \union Stacks : field[o] \in Seq(Values)

\* The frames of L are there, with their callers, and those of the threads are among them.
Lives(L) ==
  /\ \A f \in L : color[f] # "free" /\ (Caller(f) # Nil => Caller(f) \in L)
  /\ frame # Nil => frame \in L
  /\ \A t \in Threads : SavedFrame(t) # Nil => SavedFrame(t) \in L

\* No two threads have the same stack, and a frame of L is the caller of one other at most,
\* or waits in one thread, or runs.
Unshared(L) ==
  /\ \A t, u \in Threads : (t # u /\ SavedStack(t) # Nil) => SavedStack(t) # SavedStack(u)
  /\ frame # Nil => /\ \A g \in L : Caller(g) # frame
                    /\ \A t \in Threads : SavedFrame(t) # frame
  /\ \A g, h \in L : (g # h /\ Caller(g) # Nil) => Caller(g) # Caller(h)
  /\ \A g \in L, t \in Threads : Caller(g) # Nil => Caller(g) # SavedFrame(t)
  /\ \A t, u \in Threads : (t # u /\ SavedFrame(t) # Nil) => SavedFrame(t) # SavedFrame(u)

\* Between the scan of the stack and the flip, the registers refer to nothing white.
Rooted ==
  mode = "scanned" => /\ \A v \in OnStack : color[v] # "white"
                      /\ frame # Nil => color[frame] # "white"

\* The two properties, with L in the place of the frames that are called.
Kept(L) ==
  /\ \A o \in Obj : color[o] # "free" =>
       \A i \in Used(o, L) : field[o][i] # Nil => color[field[o][i]] # "free"
  /\ \A o \in {Process, thread, stack, frame} \ {Nil} : color[o] # "free"

Dark(L) ==
  \A o \in Obj \ {stack} : color[o] = "black" => \A i \in Used(o, L) : Scanned(o, i)

InvOf(L) == TypeOK /\ Shape /\ Lives(L) /\ Unshared(L) /\ Rooted /\ Kept(L) /\ Dark(L)

Inv == \E L \in SUBSET Frames : InvOf(L)

Color == {"white", "grey", "black", "free"}

----------------------------------------------------------------------------
\* Sequences.

\* What a stack or an array holds is a sequence of objects.
LEMMA ValuesAreObjects ==
  ASSUME NEW s \in Seq(Values)
  PROVE  s \in Seq(Obj \union {Nil}) /\ Slots(s) \subseteq Values
PROOF BY DEF Slots, Values, Obj, Frames

\* What is pushed is held with what was there.
LEMMA Pushed ==
  ASSUME NEW s \in Seq(Values), NEW v \in Values
  PROVE  Append(s, v) \in Seq(Values) /\ Slots(Append(s, v)) = Slots(s) \union {v}
PROOF
<1>1. Append(s, v) \in Seq(Values) OBVIOUS
<1>2. DOMAIN s = 1 .. Len(s) /\ DOMAIN Append(s, v) = 1 .. Len(s) + 1 /\ Len(s) \in Nat
  OBVIOUS
<1>3. \A i \in 1 .. Len(s) : Append(s, v)[i] = s[i]
  OBVIOUS
<1>4. Append(s, v)[Len(s) + 1] = v
  OBVIOUS
<1>5. Slots(s) \union {v} \subseteq Slots(Append(s, v))
  BY <1>2, <1>3, <1>4 DEF Slots
<1>6. Slots(Append(s, v)) \subseteq Slots(s) \union {v}
  BY <1>2, <1>3, <1>4 DEF Slots
<1> QED BY <1>1, <1>5, <1>6

\* What is popped leaves the rest.
LEMMA Popped ==
  ASSUME NEW s \in Seq(Values), s # <<>>
  PROVE  /\ SubSeq(s, 1, Len(s) - 1) \in Seq(Values)
         /\ Slots(SubSeq(s, 1, Len(s) - 1)) \subseteq Slots(s)
PROOF
<1>1. Len(s) \in Nat \ {0} BY EmptySeq
<1>2. SubSeq(s, 1, Len(s) - 1) \in Seq(Values) BY <1>1
<1>3. DOMAIN SubSeq(s, 1, Len(s) - 1) = 1 .. Len(s) - 1 BY <1>1
<1>4. \A i \in 1 .. Len(s) - 1 : SubSeq(s, 1, Len(s) - 1)[i] = s[i] /\ i \in DOMAIN s BY <1>1
<1> QED BY <1>2, <1>3, <1>4 DEF Slots

----------------------------------------------------------------------------
\* When one is removed, those behind it move down by one.
LEMMA Removed ==
  ASSUME NEW old \in Seq(Values), NEW i \in 1 .. Len(old)
  PROVE  LET s == SubSeq(old, 1, i - 1) \o SubSeq(old, i + 1, Len(old))
         IN  /\ s \in Seq(Values) /\ DOMAIN s = 1 .. Len(old) - 1
             /\ \A j \in 1 .. i - 1 : s[j] = old[j]
             /\ \A j \in i .. Len(old) - 1 : s[j] = old[j + 1]
PROOF
<1> DEFINE front == SubSeq(old, 1, i - 1)
           back == SubSeq(old, i + 1, Len(old))
<1>1. Len(old) \in Nat /\ i \in Nat OBVIOUS
<1>2. front \in Seq(Values) /\ Len(front) = i - 1 /\ \A j \in 1 .. i - 1 : front[j] = old[j]
  BY <1>1
<1>3. back \in Seq(Values) /\ Len(back) = Len(old) - i
      /\ \A j \in 1 .. Len(old) - i : back[j] = old[j + i]
  <2>1. CASE i = Len(old)
    <3>1. back = <<>> BY <1>1, <2>1
    <3> QED BY <1>1, <2>1, <3>1
  <2>2. CASE i < Len(old) BY <1>1, <2>2
  <2> QED BY <1>1, <2>1, <2>2
<1> HIDE DEF front, back
<1>4. front \o back \in Seq(Values) /\ Len(front \o back) = Len(old) - 1
  <2>1. front \in Seq(Values) /\ back \in Seq(Values) BY <1>2, <1>3
  <2>2. front \o back \in Seq(Values) /\ Len(front \o back) = Len(front) + Len(back) BY <2>1
  <2> QED BY <1>1, <1>2, <1>3, <2>2
<1>5. \A j \in 1 .. i - 1 : (front \o back)[j] = front[j] BY <1>1, <1>2, <1>3
<1>6. \A j \in i .. Len(old) - 1 : (front \o back)[j] = back[j - (i - 1)] BY <1>1, <1>2, <1>3
<1>7. DOMAIN (front \o back) = 1 .. Len(old) - 1 BY <1>1, <1>4
<1>8. \A j \in i .. Len(old) - 1 : back[j - (i - 1)] = old[j + 1]
  <2> SUFFICES ASSUME NEW j \in i .. Len(old) - 1 PROVE back[j - (i - 1)] = old[j + 1] OBVIOUS
  <2>1. j - (i - 1) \in 1 .. Len(old) - i /\ (j - (i - 1)) + i = j + 1 BY <1>1
  <2> QED BY <1>3, <2>1
<1> QED BY <1>2, <1>4, <1>5, <1>6, <1>7, <1>8 DEF front, back

\* What two sequences hold together.
LEMMA Joined ==
  ASSUME NEW s \in Seq(Values), NEW t \in Seq(Values)
  PROVE  s \o t \in Seq(Values) /\ Slots(s \o t) = Slots(s) \union Slots(t)
PROOF
<1>1. Len(s) \in Nat /\ Len(t) \in Nat /\ DOMAIN s = 1 .. Len(s) /\ DOMAIN t = 1 .. Len(t) OBVIOUS
<1>2. s \o t \in Seq(Values) /\ Len(s \o t) = Len(s) + Len(t) OBVIOUS
<1>3. \A i \in 1 .. Len(s) : (s \o t)[i] = s[i] OBVIOUS
<1>4. \A i \in 1 .. Len(t) : (s \o t)[Len(s) + i] = t[i] BY <1>1
<1>5. DOMAIN (s \o t) = 1 .. Len(s) + Len(t) BY <1>1, <1>2
<1> DEFINE u == s \o t
<1> HIDE DEF u
<1>6. \A i \in DOMAIN s : i \in DOMAIN u /\ u[i] = s[i] BY <1>1, <1>3, <1>5 DEF u
<1>7. \A i \in DOMAIN t : Len(s) + i \in DOMAIN u /\ u[Len(s) + i] = t[i] BY <1>1, <1>4, <1>5 DEF u
<1>8. \A i \in DOMAIN u : i \in DOMAIN s \/ (i - Len(s) \in DOMAIN t /\ i = Len(s) + (i - Len(s)))
  BY <1>1, <1>5 DEF u
<1>9. Slots(u) \subseteq Slots(s) \union Slots(t) BY <1>6, <1>7, <1>8 DEF Slots
<1>10. Slots(s) \union Slots(t) \subseteq Slots(u) BY <1>6, <1>7 DEF Slots
<1> QED BY <1>2, <1>9, <1>10 DEF u

\* When one is put in, those behind it move up by one.
LEMMA Inserted ==
  ASSUME NEW old \in Seq(Values), NEW i \in 1 .. Len(old) + 1, NEW v \in Values
  PROVE  LET s == SubSeq(old, 1, i - 1) \o <<v>> \o SubSeq(old, i, Len(old))
         IN  s \in Seq(Values) /\ Slots(s) \subseteq Slots(old) \union {v}
PROOF
<1> DEFINE front == SubSeq(old, 1, i - 1)
           back == SubSeq(old, i, Len(old))
<1>1. Len(old) \in Nat /\ i \in Nat /\ DOMAIN old = 1 .. Len(old) OBVIOUS
<1>2. front \in Seq(Values) /\ Slots(front) \subseteq Slots(old)
  <2>1. front \in Seq(Values) /\ Len(front) = i - 1 /\ \A j \in 1 .. i - 1 : front[j] = old[j]
    BY <1>1
  <2> HIDE DEF front
  <2>2. DOMAIN front = 1 .. i - 1 BY <1>1, <2>1
  <2> QED BY <1>1, <2>1, <2>2 DEF Slots
<1>3. back \in Seq(Values) /\ Slots(back) \subseteq Slots(old)
  <2>1. CASE i = Len(old) + 1
    <3>1. back = <<>> BY <1>1, <2>1
    <3>2. back \in Seq(Values) /\ DOMAIN back = {} BY <3>1
    <3> QED BY <3>2 DEF Slots
  <2>2. CASE i <= Len(old)
    <3>1. back \in Seq(Values) /\ Len(back) = Len(old) - (i - 1)
          /\ \A j \in 1 .. Len(old) - (i - 1) : back[j] = old[j + (i - 1)]
      BY <1>1, <2>2
    <3> HIDE DEF back
    <3>2. DOMAIN back = 1 .. Len(old) - (i - 1) BY <1>1, <3>1
    <3>3. \A j \in 1 .. Len(old) - (i - 1) : j + (i - 1) \in 1 .. Len(old) BY <1>1
    <3>4. \A j \in DOMAIN back : back[j] \in Slots(old)
      <4> SUFFICES ASSUME NEW j \in DOMAIN back PROVE back[j] \in Slots(old) OBVIOUS
      <4>1. back[j] = old[j + (i - 1)] BY <3>1, <3>2
      <4>2. j + (i - 1) \in DOMAIN old BY <1>1, <3>2, <3>3
      <4> QED BY <4>1, <4>2 DEF Slots
    <3>5. Slots(back) \subseteq Slots(old) BY <3>4 DEF Slots
    <3> QED BY <3>1, <3>5
  <2> QED BY <1>1, <2>1, <2>2
<1> HIDE DEF front, back
<1>4. <<v>> \in Seq(Values) /\ Slots(<<v>>) = {v}
  <2>1. <<v>> \in Seq(Values) /\ DOMAIN <<v>> = {1} /\ <<v>>[1] = v OBVIOUS
  <2> QED BY <2>1 DEF Slots
<1>5. (front \o <<v>>) \in Seq(Values) /\ Slots(front \o <<v>>) = Slots(front) \union Slots(<<v>>)
  BY <1>2, <1>4, Joined
<1>6. (front \o <<v>>) \o back \in Seq(Values)
      /\ Slots((front \o <<v>>) \o back) = Slots(front \o <<v>>) \union Slots(back)
  BY <1>3, <1>5, Joined
<1>7. Slots((front \o <<v>>) \o back) \subseteq Slots(old) \union {v} BY <1>2, <1>3, <1>4, <1>5, <1>6
<1>8. front \o <<v>> \o back = (front \o <<v>>) \o back OBVIOUS
<1> QED BY <1>6, <1>7, <1>8 DEF front, back

----------------------------------------------------------------------------
\* Objects and what they hold.

LEMMA Kinds ==
  /\ Process \in Obj /\ Threads \subseteq Obj /\ Stacks \subseteq Obj /\ Frames \subseteq Obj
  /\ Arrays \subseteq Obj /\ Obj = {Process} \union Threads \union Stacks \union Frames \union Arrays
  /\ Process \notin Threads \union Stacks \union Frames \union Arrays
  /\ Threads \intersect Stacks = {} /\ Threads \intersect Frames = {}
  /\ Threads \intersect Arrays = {} /\ Stacks \intersect Frames = {}
  /\ Stacks \intersect Arrays = {} /\ Frames \intersect Arrays = {}
  /\ Nil \notin Obj /\ Main \in Threads /\ Process \notin Large
PROOF BY KindsAssumption DEF Obj

LEMMA ValueKinds ==
  /\ Values \subseteq Obj /\ Threads \subseteq Values /\ Arrays \subseteq Values
  /\ HeapFrames \subseteq Values /\ HeapFrames \subseteq Frames /\ PlainFrames \subseteq Frames
  /\ Nil \notin Values /\ Values \intersect Stacks = {} /\ Values \intersect PlainFrames = {}
  /\ Process \notin Values /\ Values \intersect Frames = HeapFrames
PROOF BY KindsAssumption DEF Obj, Values, Frames

\* The registers refer to objects, and what an object refers to is there.
LEMMA Registers ==
  ASSUME NEW L \in SUBSET Frames, InvOf(L)
  PROVE  /\ thread \in Obj /\ stack \in Obj /\ Process \in Obj /\ thread # Nil /\ stack # Nil
         /\ thread \in Threads /\ stack \in Stacks /\ frame \in Frames \union {Nil}
         /\ color[thread] # "free" /\ color[stack] # "free" /\ color[Process] # "free"
         /\ frame # Nil => frame \in Frames /\ frame \in Obj /\ frame \in L /\ color[frame] # "free"
         /\ color \in [Obj -> Color] /\ field \in [Obj -> Seq(Obj \union {Nil})]
PROOF
<1>1. thread \in Threads /\ stack \in Stacks /\ frame \in Frames \union {Nil}
      /\ color \in [Obj -> Color] /\ field \in [Obj -> Seq(Obj \union {Nil})]
  BY DEF InvOf, TypeOK, Color
<1>2. \A o \in {Process, thread, stack, frame} \ {Nil} : color[o] # "free"
  BY DEF InvOf, Kept
<1>3. thread # Nil /\ stack # Nil /\ Process # Nil /\ thread \in Obj /\ stack \in Obj /\ Process \in Obj
  BY <1>1, Kinds
<1>4. color[thread] # "free" /\ color[stack] # "free" /\ color[Process] # "free"
  BY <1>2, <1>3
<1>5. frame # Nil => frame \in Frames /\ frame \in Obj /\ frame \in L /\ color[frame] # "free"
  BY <1>1, <1>2, Kinds DEF InvOf, Lives
<1> QED BY <1>1, <1>3, <1>4, <1>5

LEMMA Held ==
  ASSUME NEW L \in SUBSET Frames, InvOf(L), NEW o \in Obj, color[o] # "free",
         NEW i \in Used(o, L), field[o][i] # Nil
  PROVE  color[field[o][i]] # "free"
PROOF BY DEF InvOf, Kept

LEMMA Slot ==
  ASSUME NEW L \in SUBSET Frames, InvOf(L), NEW o \in Obj, NEW i \in DOMAIN field[o]
  PROVE  field[o][i] \in Obj \union {Nil} /\ color[o] # "free"
PROOF
<1>1. field[o] \in Seq(Obj \union {Nil}) BY Registers
<1>2. color[o] # "free"
  <2> SUFFICES ASSUME color[o] = "free" PROVE FALSE OBVIOUS
  <2>1. field[o] = <<>> BY DEF InvOf, Shape
  <2> QED BY <2>1
<1> QED BY <1>1, <1>2

\* The slots of a thread and of a frame.
LEMMA ThreadHolds ==
  ASSUME NEW L \in SUBSET Frames, InvOf(L), NEW t \in Threads, color[t] # "free"
  PROVE  /\ DOMAIN field[t] = 1 .. 3 /\ Used(t, L) = 1 .. 3 /\ field[t] # <<>>
         /\ field[t] = <<field[t][1], field[t][2], field[t][3]>>
         /\ field[t][1] = SavedStack(t) /\ field[t][2] = SavedFrame(t)
         /\ field[t][1] \in (Stacks \ {stack}) \union {Nil}
         /\ field[t][2] \in Frames \union {Nil} /\ field[t][3] \in Threads \union {Nil}
PROOF
<1>1. field[t] \in ThreadSlots BY DEF InvOf, Shape
<1>2. PICK s \in (Stacks \ {stack}) \union {Nil}, f \in Frames \union {Nil}, p \in Threads \union {Nil} :
        field[t] = <<s, f, p>>
  BY <1>1 DEF ThreadSlots
<1>3. DOMAIN field[t] = 1 .. 3 /\ field[t] # <<>> BY <1>2
<1>4. Used(t, L) = 1 .. 3 BY <1>3, Kinds DEF Used
<1> QED BY <1>2, <1>3, <1>4 DEF SavedStack, SavedFrame

LEMMA FrameHolds ==
  ASSUME NEW L \in SUBSET Frames, InvOf(L), NEW f \in Frames, color[f] # "free"
  PROVE  /\ DOMAIN field[f] = 1 .. 3 /\ 2 .. 3 \subseteq Used(f, L) /\ field[f] # <<>>
         /\ Used(f, L) = IF f \in L THEN 1 .. 3 ELSE 2 .. 3
         /\ field[f] = <<field[f][1], field[f][2], field[f][3]>>
         /\ field[f][1] = Caller(f) /\ field[f][1] \in Frames \union {Nil}
         /\ field[f][2] \in HeapFrames \union {f, Nil} /\ field[f][3] \in HeapFrames \union {f, Nil}
PROOF
<1>1. field[f] \in FrameSlots(f) BY DEF InvOf, Shape
<1>2. PICK c \in Frames \union {Nil}, x \in HeapFrames \union {f, Nil}, h \in HeapFrames \union {f, Nil} :
        field[f] = <<c, x, h>>
  BY <1>1 DEF FrameSlots
<1>3. DOMAIN field[f] = 1 .. 3 /\ field[f] # <<>> BY <1>2
<1>4. Used(f, L) = IF f \in L THEN 1 .. 3 ELSE 2 .. 3 BY <1>3 DEF Used
<1> QED BY <1>2, <1>3, <1>4 DEF Caller

LEMMA StackHolds ==
  ASSUME NEW L \in SUBSET Frames, InvOf(L), NEW s \in Stacks, color[s] # "free"
  PROVE  /\ field[s] \in Seq(Values) /\ s \in Obj
         /\ \A i \in DOMAIN field[s] : field[s][i] \in Obj /\ color[field[s][i]] # "free"
PROOF
<1>1. field[s] \in Seq(Values) /\ s \in Obj BY Kinds DEF InvOf, Shape
<1>2. \A i \in DOMAIN field[s] : field[s][i] \in Obj /\ field[s][i] # Nil
  BY <1>1, ValueKinds
<1>3. Used(s, L) = DOMAIN field[s] BY Kinds DEF Used
<1> QED BY <1>1, <1>2, <1>3, Held

LEMMA ArrayHolds ==
  ASSUME NEW L \in SUBSET Frames, InvOf(L), NEW a \in Arrays, color[a] # "free"
  PROVE  /\ field[a] \in Seq(Values) /\ a \in Obj /\ a # stack
         /\ \A i \in DOMAIN field[a] :
              /\ field[a][i] \in Obj /\ field[a][i] # Nil /\ color[field[a][i]] # "free"
              /\ (color[a] = "black" /\ (a = partialObj => i < partialSlot))
                   => color[field[a][i]] # "white"
PROOF
<1>1. field[a] \in Seq(Values) /\ a \in Obj /\ a # stack
  BY Kinds, Registers DEF InvOf, Shape
<1>2. \A i \in DOMAIN field[a] : field[a][i] \in Obj /\ field[a][i] # Nil
  BY <1>1, ValueKinds
<1>3. Used(a, L) = DOMAIN field[a] BY Kinds DEF Used
<1>4. \A i \in DOMAIN field[a] : color[field[a][i]] # "free" BY <1>1, <1>2, <1>3, Held
<1>5. \A i \in DOMAIN field[a] : (color[a] = "black" /\ (a = partialObj => i < partialSlot))
        => color[field[a][i]] # "white"
  BY <1>1, <1>2, <1>3 DEF InvOf, Dark, Scanned
<1> QED BY <1>1, <1>2, <1>4, <1>5

\* What the program can use of an object: values, but for the slots of threads and frames.
LEMMA Refers ==
  ASSUME NEW L \in SUBSET Frames, InvOf(L), NEW o \in Obj, NEW i \in Used(o, L),
         field[o][i] # Nil
  PROVE  \/ field[o][i] \in Values
         \/ o \in Threads /\ field[o][i] = SavedStack(o) /\ field[o][i] \in Stacks \ {stack}
         \/ o \in Threads /\ field[o][i] = SavedFrame(o) /\ field[o][i] \in Frames
         \/ o \in L /\ field[o][i] = Caller(o) /\ field[o][i] \in Frames
         \/ o \in Frames /\ field[o][i] = o
PROOF
<1>1. i \in DOMAIN field[o] BY DEF Used
<1>2. color[o] # "free" BY <1>1, Slot
<1>3. CASE o = Process
  <2>1. field[o] = <<thread, Main>> BY <1>3 DEF InvOf, Shape
  <2> QED BY <1>1, <2>1, Registers, Kinds, ValueKinds
<1>4. CASE o \in Threads
  <2>1. i \in {1, 2, 3} BY <1>1, <1>2, <1>4, ThreadHolds
  <2> QED BY <1>2, <1>4, <2>1, ThreadHolds, ValueKinds
<1>5. CASE o \in Frames
  <2>1. i \in {1, 2, 3} /\ (i = 1 => o \in L) BY <1>2, <1>5, FrameHolds
  <2> QED BY <1>2, <1>5, <2>1, FrameHolds, ValueKinds
<1>6. CASE o \in Arrays \union Stacks
  <2>1. field[o] \in Seq(Values) BY <1>6 DEF InvOf, Shape
  <2> QED BY <1>1, <2>1
<1> QED BY <1>3, <1>4, <1>5, <1>6, Kinds

\* What a thread or a frame of L keeps is there, and so is the thread or the frame.
LEMMA SavedIsThere ==
  ASSUME NEW L \in SUBSET Frames, InvOf(L)
  PROVE  /\ \A t \in Threads : SavedStack(t) # Nil =>
              color[t] # "free" /\ SavedStack(t) \in Stacks \ {stack} /\ color[SavedStack(t)] # "free"
         /\ \A t \in Threads : SavedFrame(t) # Nil =>
              color[t] # "free" /\ SavedFrame(t) \in L /\ color[SavedFrame(t)] # "free"
         /\ \A f \in L : Caller(f) # Nil => Caller(f) \in L /\ color[Caller(f)] # "free"
PROOF
<1>1. /\ \A f \in L : color[f] # "free" /\ (Caller(f) # Nil => Caller(f) \in L)
      /\ \A t \in Threads : SavedFrame(t) # Nil => SavedFrame(t) \in L
  BY DEF InvOf, Lives
<1>2. ASSUME NEW t \in Threads, SavedStack(t) # Nil \/ SavedFrame(t) # Nil PROVE color[t] # "free"
  <2> SUFFICES ASSUME color[t] = "free" PROVE FALSE OBVIOUS
  <2>1. field[t] = <<>> BY Kinds DEF InvOf, Shape
  <2> QED BY <1>2, <2>1 DEF SavedStack, SavedFrame
<1>3. ASSUME NEW t \in Threads, SavedStack(t) # Nil
      PROVE  SavedStack(t) \in Stacks \ {stack} /\ color[SavedStack(t)] # "free"
  <2>1. color[t] # "free" BY <1>2, <1>3
  <2>2. field[t][1] = SavedStack(t) /\ 1 \in Used(t, L) /\ SavedStack(t) \in (Stacks \ {stack}) \union {Nil}
    BY <2>1, ThreadHolds
  <2> QED BY <1>3, <2>1, <2>2, Held, Kinds
<1>4. \A t \in Threads : SavedFrame(t) # Nil =>
        color[t] # "free" /\ SavedFrame(t) \in L /\ color[SavedFrame(t)] # "free"
  BY <1>1, <1>2
<1>5. \A f \in L : Caller(f) # Nil => Caller(f) \in L /\ color[Caller(f)] # "free"
  BY <1>1
<1>6. \A t \in Threads : SavedStack(t) # Nil =>
        color[t] # "free" /\ SavedStack(t) \in Stacks \ {stack} /\ color[SavedStack(t)] # "free"
  BY <1>2, <1>3
<1> QED BY <1>4, <1>5, <1>6

\* What the running program names is there.
LEMMA NamedIsThere ==
  ASSUME NEW L \in SUBSET Frames, InvOf(L), NEW v \in Named
  PROVE  v \in Values /\ v \in Obj /\ v # Nil /\ color[v] # "free"
PROOF
<1>1. v \in Values /\ v \in Obj /\ v # Nil
  BY ValueKinds DEF Named
<1>2. \A a \in Slots(field[stack]) \intersect Arrays : color[a] # "free"
  BY Registers, StackHolds DEF Slots
<1>3. CASE v \in OnStack BY <1>1, <1>3, Registers, StackHolds DEF OnStack, Slots
<1>4. CASE v = thread BY <1>1, <1>4, Registers
<1>5. CASE v = Main
  <2>1. field[Process] = <<thread, Main>> BY DEF InvOf, Shape
  <2>2. 2 \in Used(Process, L) /\ field[Process][2] = Main BY <2>1, Kinds DEF Used
  <2> QED BY <1>1, <1>5, <2>2, Held, Registers
<1>6. CASE v = frame BY <1>1, <1>6, Registers
<1>7. CASE frame # Nil /\ v = field[frame][2]
  <2>1. frame \in Frames /\ color[frame] # "free" /\ frame \in Obj BY <1>7, Registers
  <2>2. 2 \in Used(frame, L) BY <2>1, FrameHolds
  <2> QED BY <1>1, <1>7, <2>1, <2>2, Held
<1>8. CASE \E a \in OnStack \intersect Arrays : v \in Slots(field[a])
  BY <1>2, <1>8, ArrayHolds DEF OnStack, Slots
<1> QED BY <1>3, <1>4, <1>5, <1>6, <1>7, <1>8 DEF Named


----------------------------------------------------------------------------
\* The steps of the interpreter that write an array or the stack.

\* Where no frame and no thread is written, the frames of L stay what they are.
LEMMA FramesKept ==
  ASSUME NEW L \in SUBSET Frames, InvOf(L), frame' = frame,
         \A f \in Frames : Caller(f)' = Caller(f),
         \A t \in Threads : SavedStack(t)' = SavedStack(t) /\ SavedFrame(t)' = SavedFrame(t),
         \A f \in Frames : color[f] # "free" => color'[f] # "free"
  PROVE  Lives(L)' /\ Unshared(L)'
PROOF
<1>1. Lives(L) /\ Unshared(L) BY DEF InvOf
<1>2. Lives(L)' BY <1>1 DEF Lives
<1>3. Unshared(L)' BY <1>1 DEF Unshared
<1> QED BY <1>2, <1>3

\* A write into an array keeps the invariant when, in an array that stays black, no slot
\* that is already scanned refers to a white object.
LEMMA ArrayWrite ==
  ASSUME NEW L \in SUBSET Frames, InvOf(L), mode = "run", NEW a \in Arrays, color[a] # "free",
         NEW s \in Seq(Values), \A i \in DOMAIN s : color[s[i]] # "free",
         field' = [field EXCEPT ![a] = s], UNCHANGED <<registers, collector, scan>>,
         color' \in [Obj -> Color],
         \A o \in Obj : color'[o] = color[o] \/ (color[o] # "free" /\ color'[o] = "grey"),
         color'[a] = "black" =>
           \A i \in DOMAIN s : (a = partialObj => i < partialSlot) => color'[s[i]] # "white"
  PROVE  InvOf(L)'
PROOF
<1>1. /\ thread' = thread /\ stack' = stack /\ frame' = frame /\ mode' = mode /\ flips' = flips
      /\ partialObj' = partialObj /\ partialSlot' = partialSlot /\ returning' = returning
  BY DEF registers, collector, scan
<1>2. field \in [Obj -> Seq(Obj \union {Nil})] BY Registers
<1>3. a \in Obj /\ a # Process /\ a \notin Threads /\ a \notin Frames /\ a \notin Stacks
  BY Kinds
<1>4. field'[a] = s /\ \A o \in Obj \ {a} : field'[o] = field[o] BY <1>2, <1>3
<1>5. \A o \in Obj : /\ color'[o] = "free" <=> color[o] = "free"
                     /\ color[o] # "white" => color'[o] # "white"
                     /\ color'[o] = "black" => color[o] = "black"
  OBVIOUS
<1>6. TypeOK'
  <2>1. TypeOK BY DEF InvOf
  <2>2. s \in Seq(Obj \union {Nil}) BY ValuesAreObjects
  <2>3. field' \in [Obj -> Seq(Obj \union {Nil})] BY <1>2, <2>2
  <2> QED BY <1>1, <2>1, <2>3 DEF TypeOK, Color
<1>7. Shape'
  <2>1. Shape BY DEF InvOf
  <2>2. \A o \in Obj : color'[o] = "free" => field'[o] = <<>> BY <1>4, <1>5, <2>1 DEF Shape
  <2>3. field'[Process] = <<thread', Main>> BY <1>1, <1>3, <1>4, <2>1, Kinds DEF Shape
  <2>4. color'[Process] \in {"grey", "black"} /\ partialObj' # Process BY <1>1, <2>1, Kinds DEF Shape
  <2>5. \A t \in Threads : color'[t] # "free" => field'[t] \in ThreadSlots'
    BY <1>1, <1>3, <1>4, <1>5, <2>1, Kinds DEF Shape, ThreadSlots
  <2>6. \A f \in Frames : color'[f] # "free" => field'[f] \in FrameSlots(f)
    BY <1>3, <1>4, <1>5, <2>1, Kinds DEF Shape
  <2>7. \A o \in Arrays \union Stacks : field'[o] \in Seq(Values) BY <1>3, <1>4, <2>1, Kinds DEF Shape
  <2> QED BY <2>2, <2>3, <2>4, <2>5, <2>6, <2>7 DEF Shape, FrameSlots
<1>8. Lives(L)' /\ Unshared(L)'
  <2>1. \A f \in Frames : Caller(f)' = Caller(f) BY <1>3, <1>4, Kinds DEF Caller
  <2>2. \A t \in Threads : SavedStack(t)' = SavedStack(t) /\ SavedFrame(t)' = SavedFrame(t)
    BY <1>3, <1>4, Kinds DEF SavedStack, SavedFrame
  <2> QED BY <1>1, <1>5, <2>1, <2>2, Kinds, FramesKept
<1>9. Rooted' BY <1>1 DEF Rooted
<1>10. \A o \in Obj \ {a} : Used(o, L)' = Used(o, L)
  BY <1>4 DEF Used
<1>11. Kept(L)'
  <2>1. ASSUME NEW o \in Obj, color'[o] # "free", NEW i \in Used(o, L)', field'[o][i] # Nil
        PROVE  color'[field'[o][i]] # "free"
    <3>1. CASE o = a
      <4>1. i \in DOMAIN s BY <1>4, <2>1, <3>1 DEF Used
      <4>2. s[i] \in Obj BY <4>1, ValueKinds
      <4> QED BY <1>4, <1>5, <3>1, <4>1, <4>2
    <3>2. CASE o # a
      <4>1. i \in Used(o, L) /\ field'[o] = field[o] /\ color[o] # "free" BY <1>4, <1>5, <1>10, <2>1, <3>2
      <4>2. i \in DOMAIN field[o] BY <4>1 DEF Used
      <4>3. field[o][i] \in Obj BY <2>1, <4>1, <4>2, Slot
      <4> QED BY <1>5, <2>1, <4>1, <4>3, Held
    <3> QED BY <3>1, <3>2
  <2>2. \A o \in {Process, thread', stack', frame'} \ {Nil} : color'[o] # "free"
    BY <1>1, <1>5, Registers
  <2> QED BY <2>1, <2>2 DEF Kept
<1>12. Dark(L)'
  <2> SUFFICES ASSUME NEW o \in Obj \ {stack'}, color'[o] = "black", NEW i \in Used(o, L)',
                      o = partialObj' => i < partialSlot', field'[o][i] # Nil
               PROVE  color'[field'[o][i]] # "white"
    BY DEF Dark, Scanned
  <2>1. CASE o = a
    <3>1. i \in DOMAIN s BY <1>4, <2>1 DEF Used
    <3> QED BY <1>1, <1>4, <2>1, <3>1
  <2>2. CASE o # a
    <3>1. i \in Used(o, L) /\ field'[o] = field[o] /\ color[o] = "black" BY <1>4, <1>5, <1>10, <2>2
    <3>2. i \in DOMAIN field[o] BY <3>1 DEF Used
    <3>3. field[o][i] \in Obj BY <3>1, <3>2, Slot
    <3>4. color[field[o][i]] # "white" BY <1>1, <3>1 DEF InvOf, Dark, Scanned
    <3> QED BY <1>5, <3>1, <3>3, <3>4
  <2> QED BY <2>1, <2>2
<1> QED BY <1>6, <1>7, <1>8, <1>9, <1>11, <1>12 DEF InvOf

\* A write into the stack, after an array may have been made.
LEMMA StackWrite ==
  ASSUME NEW L \in SUBSET Frames, InvOf(L), mode = "run",
         NEW s \in Seq(Values), \A i \in DOMAIN s : color'[s[i]] # "free",
         field' = [field EXCEPT ![stack] = s], UNCHANGED <<registers, collector, scan>>,
         color' \in [Obj -> Color],
         \A o \in Obj : color'[o] = color[o] \/ (o \in Arrays /\ color[o] = "free" /\ color'[o] = "white")
  PROVE  InvOf(L)'
PROOF
<1>1. /\ thread' = thread /\ stack' = stack /\ frame' = frame /\ mode' = mode /\ flips' = flips
      /\ partialObj' = partialObj /\ partialSlot' = partialSlot /\ returning' = returning
  BY DEF registers, collector, scan
<1>2. field \in [Obj -> Seq(Obj \union {Nil})] /\ stack \in Stacks BY Registers
<1>3. stack \in Obj /\ stack # Process /\ stack \notin Threads /\ stack \notin Frames /\ stack \notin Arrays
  BY <1>2, Kinds
<1>4. field'[stack] = s /\ \A o \in Obj \ {stack} : field'[o] = field[o] BY <1>2, <1>3
<1>5. \A o \in Obj : /\ color[o] # "free" => color'[o] = color[o]
                     /\ color'[o] = "free" => color[o] = "free"
                     /\ color'[o] = "black" => color[o] = "black"
                     /\ o \notin Arrays => color'[o] = color[o]
  OBVIOUS
<1>6. TypeOK'
  <2>1. TypeOK BY DEF InvOf
  <2>2. s \in Seq(Obj \union {Nil}) BY ValuesAreObjects
  <2>3. field' \in [Obj -> Seq(Obj \union {Nil})] BY <1>2, <2>2
  <2> QED BY <1>1, <2>1, <2>3 DEF TypeOK, Color
<1>7. Shape'
  <2>1. Shape BY DEF InvOf
  <2>2. \A o \in Obj : color'[o] = "free" => field'[o] = <<>>
    BY <1>3, <1>4, <1>5, <2>1, Registers DEF Shape
  <2>3. field'[Process] = <<thread', Main>> BY <1>1, <1>3, <1>4, <2>1, Kinds DEF Shape
  <2>4. color'[Process] \in {"grey", "black"} /\ partialObj' # Process BY <1>1, <1>5, <2>1, Kinds DEF Shape
  <2>5. \A t \in Threads : color'[t] # "free" => field'[t] \in ThreadSlots'
    BY <1>1, <1>3, <1>4, <1>5, <2>1, Kinds DEF Shape, ThreadSlots
  <2>6. \A f \in Frames : color'[f] # "free" => field'[f] \in FrameSlots(f)
    BY <1>3, <1>4, <1>5, <2>1, Kinds DEF Shape
  <2>7. \A o \in Arrays \union Stacks : field'[o] \in Seq(Values) BY <1>3, <1>4, <2>1, Kinds DEF Shape
  <2> QED BY <2>2, <2>3, <2>4, <2>5, <2>6, <2>7 DEF Shape, FrameSlots
<1>8. Lives(L)' /\ Unshared(L)'
  <2>1. \A f \in Frames : Caller(f)' = Caller(f) BY <1>3, <1>4, Kinds DEF Caller
  <2>2. \A t \in Threads : SavedStack(t)' = SavedStack(t) /\ SavedFrame(t)' = SavedFrame(t)
    BY <1>3, <1>4, Kinds DEF SavedStack, SavedFrame
  <2> QED BY <1>1, <1>5, <2>1, <2>2, Kinds, FramesKept
<1>9. Rooted' BY <1>1 DEF Rooted
<1>10. ASSUME NEW o \in Obj \ {stack}, NEW i \in Used(o, L)', field'[o][i] # Nil
       PROVE  /\ i \in Used(o, L) /\ field'[o] = field[o] /\ color[o] # "free"
              /\ field[o][i] \in Obj /\ color[field[o][i]] # "free"
  <2>1. i \in Used(o, L) /\ field'[o] = field[o] BY <1>4, <1>10 DEF Used
  <2>2. i \in DOMAIN field[o] BY <2>1 DEF Used
  <2>3. field[o][i] \in Obj /\ color[o] # "free" BY <1>10, <2>1, <2>2, Slot
  <2> QED BY <1>10, <2>1, <2>3, Held
<1>11. Kept(L)'
  <2>1. ASSUME NEW o \in Obj, color'[o] # "free", NEW i \in Used(o, L)', field'[o][i] # Nil
        PROVE  color'[field'[o][i]] # "free"
    <3>1. CASE o = stack
      <4>1. i \in DOMAIN s BY <1>4, <2>1, <3>1 DEF Used
      <4> QED BY <1>4, <3>1, <4>1
    <3>2. CASE o # stack BY <1>5, <1>10, <2>1, <3>2
    <3> QED BY <3>1, <3>2
  <2>2. \A o \in {Process, thread', stack', frame'} \ {Nil} : color'[o] # "free"
    BY <1>1, <1>5, Registers
  <2> QED BY <2>1, <2>2 DEF Kept
<1>12. Dark(L)'
  <2> SUFFICES ASSUME NEW o \in Obj \ {stack'}, color'[o] = "black", NEW i \in Used(o, L)',
                      o = partialObj' => i < partialSlot', field'[o][i] # Nil
               PROVE  color'[field'[o][i]] # "white"
    BY DEF Dark, Scanned
  <2>1. o # stack BY <1>1
  <2>2. /\ i \in Used(o, L) /\ field'[o] = field[o]
        /\ field[o][i] \in Obj /\ color[field[o][i]] # "free"
    BY <1>10, <2>1
  <2>3. color[field[o][i]] # "white" BY <1>1, <1>5, <2>1, <2>2 DEF InvOf, Dark, Scanned
  <2> QED BY <1>5, <2>2, <2>3
<1> QED BY <1>6, <1>7, <1>8, <1>9, <1>11, <1>12 DEF InvOf

----------------------------------------------------------------------------
\* The operations on the stack and on arrays.

LEMMA PushSafe == ASSUME NEW L \in SUBSET Frames, InvOf(L), NEW v \in Values, Push(v) PROVE InvOf(L)'
PROOF
<1> DEFINE s == Append(field[stack], v)
<1>1. /\ field' = [field EXCEPT ![stack] = s] /\ color' = color /\ mode = "run"
      /\ UNCHANGED <<registers, collector, scan>> /\ v \in Named
  BY DEF Push, PushOn, Running
<1>2. s \in Seq(Values) BY Registers, StackHolds
<1>3. \A i \in DOMAIN s : color'[s[i]] # "free"
  <2>1. Slots(s) = Slots(field[stack]) \union {v} BY Registers, StackHolds, Pushed
  <2> QED BY <1>1, <2>1, Registers, StackHolds, NamedIsThere DEF Slots
<1>4. color' \in [Obj -> Color] BY <1>1, Registers
<1> HIDE DEF s
<1> QED BY <1>1, <1>2, <1>3, <1>4, StackWrite

LEMMA PopSafe == ASSUME NEW L \in SUBSET Frames, InvOf(L), Pop PROVE InvOf(L)'
PROOF
<1> DEFINE s == SubSeq(field[stack], 1, Len(field[stack]) - 1)
<1>1. /\ field' = [field EXCEPT ![stack] = s] /\ color' = color /\ mode = "run"
      /\ UNCHANGED <<registers, collector, scan>> /\ field[stack] # <<>>
  BY DEF Pop, Running
<1>2. s \in Seq(Values) /\ Slots(s) \subseteq Slots(field[stack]) BY <1>1, Registers, StackHolds, Popped
<1>3. \A i \in DOMAIN s : color'[s[i]] # "free" BY <1>1, <1>2, Registers, StackHolds DEF Slots
<1>4. color' \in [Obj -> Color] BY <1>1, Registers
<1> HIDE DEF s
<1> QED BY <1>1, <1>2, <1>3, <1>4, StackWrite

LEMMA NewSafe == ASSUME NEW L \in SUBSET Frames, InvOf(L), NEW a \in Arrays, New(a) PROVE InvOf(L)'
PROOF
<1> DEFINE s == Append(field[stack], a)
<1>1. /\ color' = [color EXCEPT ![a] = "white"] /\ color[a] = "free" /\ mode = "run"
      /\ field' = [[field EXCEPT ![a] = <<>>] EXCEPT ![stack] = Append(@, a)]
      /\ UNCHANGED <<registers, collector, scan>>
  BY DEF New, PushOn, Running
<1>2. a \in Obj /\ a # stack /\ stack \in Obj /\ a \in Values
  BY KindsAssumption DEF InvOf, TypeOK, Obj, Values
<1>3. field' = [field EXCEPT ![stack] = s]
  <2>1. field[a] = <<>> BY <1>1, <1>2 DEF InvOf, Shape
  <2>2. field \in [Obj -> Seq(Obj \union {Nil})] BY DEF InvOf, TypeOK
  <2> QED BY <1>1, <1>2, <2>1, <2>2
<1>4. s \in Seq(Values) BY <1>2, Registers, StackHolds
<1>5. color' \in [Obj -> Color] /\ color'[a] = "white"
      /\ \A o \in Obj \ {a} : color'[o] = color[o]
  BY <1>1, <1>2, Registers DEF Color
<1>6. \A i \in DOMAIN s : color'[s[i]] # "free"
  <2>1. Slots(s) = Slots(field[stack]) \union {a} BY <1>2, Registers, StackHolds, Pushed
  <2>2. Slots(field[stack]) \subseteq Obj BY Registers, StackHolds, ValuesAreObjects DEF Values, Obj, Frames
  <2> QED BY <1>5, <2>1, <2>2, Registers, StackHolds DEF Slots
<1> HIDE DEF s
<1>7. \A o \in Obj : color'[o] = color[o] \/ (o \in Arrays /\ color[o] = "free" /\ color'[o] = "white")
  BY <1>1, <1>5
<1>8. mode = "run" /\ UNCHANGED <<registers, collector, scan>> BY <1>1
<1> QED BY <1>3, <1>4, <1>5, <1>6, <1>7, <1>8, StackWrite

\* The barrier only greys, and a parent that stays black has no white child.
LEMMA Barrier ==
  ASSUME NEW L \in SUBSET Frames, InvOf(L), NEW a \in Obj, NEW v \in Obj, color[v] # "free"
  PROVE  LET c == GCWrite(color, a, v)
         IN  /\ c \in [Obj -> Color]
             /\ \A o \in Obj : c[o] = color[o] \/ (color[o] # "free" /\ c[o] = "grey")
             /\ \A o \in Obj : color[o] # "white" => c[o] = color[o]
             /\ c[a] = "black" => color[a] = "black" /\ c[v] # "white"
PROOF
<1>1. color \in [Obj -> Color] BY Registers
<1>2. CASE color[a] = "black" BY <1>1, <1>2 DEF GCWrite, ToGrey, Color
<1>3. CASE color[a] # "black" BY <1>1, <1>3 DEF GCWrite
<1> QED BY <1>2, <1>3

LEMMA PutSafe == ASSUME NEW L \in SUBSET Frames, InvOf(L), NEW a, NEW i, NEW v \in Values, Put(a, i, v) PROVE InvOf(L)'
PROOF
<1> DEFINE s == [field[a] EXCEPT ![i] = v]
<1>1. /\ field' = [field EXCEPT ![a][i] = v] /\ color' = GCWrite(color, a, v) /\ mode = "run"
      /\ UNCHANGED <<registers, collector, scan>> /\ a \in Named /\ a \in Arrays
      /\ v \in Named /\ i \in DOMAIN field[a]
  BY DEF Put, Running
<1>2. color[a] # "free" /\ color[v] # "free" /\ v \in Obj BY <1>1, NamedIsThere
<1>3. field[a] \in Seq(Values) /\ a \in Obj BY <1>1, <1>2, ArrayHolds
<1>4. s \in Seq(Values) /\ DOMAIN s = DOMAIN field[a] /\ s[i] = v
      /\ \A j \in DOMAIN s \ {i} : s[j] = field[a][j]
  BY <1>1, <1>3
<1>5. field' = [field EXCEPT ![a] = s] BY <1>1
<1>6. \A j \in DOMAIN s : color[s[j]] # "free"
  BY <1>1, <1>2, <1>4, ArrayHolds
<1>7. /\ color' \in [Obj -> Color]
      /\ \A o \in Obj : color'[o] = color[o] \/ (color[o] # "free" /\ color'[o] = "grey")
      /\ \A o \in Obj : color[o] # "white" => color'[o] = color[o]
      /\ color'[a] = "black" => color[a] = "black" /\ color'[v] # "white"
  BY <1>1, <1>2, <1>3, Barrier
<1>8. color'[a] = "black" =>
        \A j \in DOMAIN s : (a = partialObj => j < partialSlot) => color'[s[j]] # "white"
  BY <1>1, <1>2, <1>4, <1>7, ArrayHolds
<1> HIDE DEF s
<1>9. /\ mode = "run" /\ a \in Arrays /\ color[a] # "free" /\ s \in Seq(Values)
      /\ UNCHANGED <<registers, collector, scan>>
  BY <1>1, <1>2, <1>4
<1>10. /\ color' \in [Obj -> Color]
       /\ \A o \in Obj : color'[o] = color[o] \/ (color[o] # "free" /\ color'[o] = "grey")
  BY <1>7
<1> QED BY <1>5, <1>6, <1>8, <1>9, <1>10, ArrayWrite

LEMMA AddSafe == ASSUME NEW L \in SUBSET Frames, InvOf(L), NEW a, NEW v \in Values, Add(a, v) PROVE InvOf(L)'
PROOF
<1> DEFINE s == Append(field[a], v)
<1>1. /\ field' = [field EXCEPT ![a] = s] /\ color' = GCWrite(color, a, v) /\ mode = "run"
      /\ UNCHANGED <<registers, collector, scan>> /\ a \in Named /\ a \in Arrays
      /\ v \in Named
  BY DEF Add, Running
<1>2. color[a] # "free" /\ color[v] # "free" /\ v \in Obj BY <1>1, NamedIsThere
<1>3. field[a] \in Seq(Values) /\ a \in Obj BY <1>1, <1>2, ArrayHolds
<1>4. s \in Seq(Values) /\ DOMAIN s = DOMAIN field[a] \union {Len(field[a]) + 1}
      /\ s[Len(field[a]) + 1] = v /\ \A j \in DOMAIN field[a] : s[j] = field[a][j]
  BY <1>3
<1>5. \A j \in DOMAIN s : color[s[j]] # "free"
  BY <1>1, <1>2, <1>4, ArrayHolds
<1>6. /\ color' \in [Obj -> Color]
      /\ \A o \in Obj : color'[o] = color[o] \/ (color[o] # "free" /\ color'[o] = "grey")
      /\ \A o \in Obj : color[o] # "white" => color'[o] = color[o]
      /\ color'[a] = "black" => color[a] = "black" /\ color'[v] # "white"
  BY <1>1, <1>2, <1>3, Barrier
<1>7. color'[a] = "black" =>
        \A j \in DOMAIN s : (a = partialObj => j < partialSlot) => color'[s[j]] # "white"
  BY <1>1, <1>2, <1>4, <1>6, ArrayHolds
<1> HIDE DEF s
<1>8. /\ mode = "run" /\ a \in Arrays /\ color[a] # "free" /\ s \in Seq(Values)
      /\ field' = [field EXCEPT ![a] = s] /\ UNCHANGED <<registers, collector, scan>>
  BY <1>1, <1>2, <1>4
<1>9. /\ color' \in [Obj -> Color]
      /\ \A o \in Obj : color'[o] = color[o] \/ (color[o] # "free" /\ color'[o] = "grey")
  BY <1>6
<1> QED BY <1>5, <1>7, <1>8, <1>9, ArrayWrite

LEMMA InsertSafe == ASSUME NEW L \in SUBSET Frames, InvOf(L), NEW a, NEW i, NEW v \in Values, Insert(a, i, v) PROVE InvOf(L)'
PROOF
<1> DEFINE old == field[a]
           s == SubSeq(old, 1, i - 1) \o <<v>> \o SubSeq(old, i, Len(old))
<1>1. /\ field' = [field EXCEPT ![a] = s] /\ color' = [color EXCEPT ![a] = "grey"]
      /\ mode = "run" /\ UNCHANGED <<registers, collector, scan>>
      /\ a \in Named /\ a \in Arrays /\ v \in Named /\ i \in 1 .. Len(old) + 1
  BY DEF Insert, Running
<1>2. color[a] # "free" /\ color[v] # "free" BY <1>1, NamedIsThere
<1>3. old \in Seq(Values) /\ a \in Obj BY <1>1, <1>2, ArrayHolds
<1>4. \A j \in DOMAIN old : color[old[j]] # "free" BY <1>1, <1>2, ArrayHolds
<1>5. s \in Seq(Values) /\ Slots(s) \subseteq Slots(old) \union {v}
  <2> HIDE DEF old
  <2> QED BY <1>1, <1>3, Inserted
<1> HIDE DEF s, old
<1>6. \A j \in DOMAIN s : color[s[j]] # "free" BY <1>2, <1>4, <1>5 DEF Slots
<1>7. /\ color' \in [Obj -> Color] /\ color'[a] = "grey"
      /\ \A o \in Obj : color'[o] = color[o] \/ (color[o] # "free" /\ color'[o] = "grey")
  BY <1>1, <1>2, <1>3, Registers DEF Color
<1> QED BY <1>1, <1>2, <1>5, <1>6, <1>7, ArrayWrite

LEMMA TakeAtSafe == ASSUME NEW L \in SUBSET Frames, InvOf(L), NEW a, NEW i, TakeAt(a, i) PROVE InvOf(L)'
PROOF
<1> DEFINE old == field[a]
           last == old[Len(old)]
           s == SubSeq([old EXCEPT ![i] = last], 1, Len(old) - 1)
<1>1. /\ field' = [field EXCEPT ![a] = SubSeq([@ EXCEPT ![i] = last], 1, Len(@) - 1)]
      /\ color' = GCWrite(color, a, last)
      /\ mode = "run" /\ UNCHANGED <<registers, collector, scan>>
      /\ a \in Named /\ a \in Arrays /\ i \in DOMAIN old
  BY DEF TakeAt, Running
<1>2. color[a] # "free" BY <1>1, NamedIsThere
<1>3. old \in Seq(Values) /\ a \in Obj BY <1>1, <1>2, ArrayHolds
<1>4. i \in 1 .. Len(old) /\ Len(old) \in Nat \ {0} BY <1>1, <1>3
<1>5. Len(old) \in DOMAIN old BY <1>3, <1>4
<1>6. last \in Obj /\ color[last] # "free" BY <1>1, <1>2, <1>5, ArrayHolds
<1>7. field' = [field EXCEPT ![a] = s] BY <1>1
<1>8. s \in Seq(Values) /\ \A j \in DOMAIN s : j \in DOMAIN old /\ s[j] = IF j = i THEN last ELSE old[j]
  <2> HIDE DEF old
  <2> DEFINE w == [old EXCEPT ![i] = last]
  <2>1. w \in Seq(Values) /\ Len(w) = Len(old) /\ \A j \in 1 .. Len(old) : w[j] = IF j = i THEN last ELSE old[j]
    BY <1>3, <1>4, <1>5
  <2> HIDE DEF w, last
  <2>2. SubSeq(w, 1, Len(old) - 1) \in Seq(Values) /\ DOMAIN SubSeq(w, 1, Len(old) - 1) = 1 .. Len(old) - 1
        /\ \A j \in 1 .. Len(old) - 1 : SubSeq(w, 1, Len(old) - 1)[j] = w[j]
    BY <1>4, <2>1
  <2> QED BY <1>3, <1>4, <2>1, <2>2 DEF w
<1>9. /\ color' \in [Obj -> Color]
      /\ \A o \in Obj : color'[o] = color[o] \/ (color[o] # "free" /\ color'[o] = "grey")
      /\ \A o \in Obj : color[o] # "white" => color'[o] = color[o]
      /\ color'[a] = "black" => color[a] = "black" /\ color'[last] # "white"
  BY <1>1, <1>3, <1>6, Barrier
<1> HIDE DEF s, last
<1>10. \A j \in DOMAIN s : color[s[j]] # "free" BY <1>1, <1>2, <1>6, <1>8, ArrayHolds
<1>11. color'[a] = "black" =>
        \A j \in DOMAIN s : (a = partialObj => j < partialSlot) => color'[s[j]] # "white"
  BY <1>1, <1>2, <1>8, <1>9, ArrayHolds
<1>12. /\ mode = "run" /\ a \in Arrays /\ color[a] # "free" /\ s \in Seq(Values)
       /\ UNCHANGED <<registers, collector, scan>>
  BY <1>1, <1>2, <1>8
<1>13. /\ color' \in [Obj -> Color]
       /\ \A o \in Obj : color'[o] = color[o] \/ (color[o] # "free" /\ color'[o] = "grey")
  BY <1>9
<1> QED BY <1>7, <1>10, <1>11, <1>12, <1>13, ArrayWrite

\* Where the scan of the array has passed, no slot but the one that the barrier sees moves.
LEMMA RemoveAtSafe == ASSUME NEW L \in SUBSET Frames, InvOf(L), Careful, NEW a, NEW i, RemoveAt(a, i) PROVE InvOf(L)'
PROOF
<1> DEFINE old == field[a]
           s == SubSeq(old, 1, i - 1) \o SubSeq(old, i + 1, Len(old))
<1>1. /\ field' = [field EXCEPT ![a] = s]
      /\ color' = IF i < Len(old) THEN GCWrite(color, a, old[i + 1]) ELSE color
      /\ mode = "run" /\ UNCHANGED <<registers, collector, scan>>
      /\ a \in Named /\ a \in Arrays /\ i \in DOMAIN old
      /\ a = partialObj => i + 1 >= partialSlot
  BY DEF RemoveAt, Running
<1>2. color[a] # "free" BY <1>1, NamedIsThere
<1>3. old \in Seq(Values) /\ a \in Obj BY <1>1, <1>2, ArrayHolds
<1>4. i \in 1 .. Len(old) /\ Len(old) \in Nat \ {0} BY <1>1, <1>3
<1>5. s \in Seq(Values)
      /\ \A j \in DOMAIN s : /\ j \in Nat /\ j \in DOMAIN old
                             /\ j < i => s[j] = old[j]
                             /\ j >= i => j + 1 \in DOMAIN old /\ s[j] = old[j + 1]
  <2> HIDE DEF old
  <2>1. /\ s \in Seq(Values) /\ DOMAIN s = 1 .. Len(old) - 1
        /\ \A j \in 1 .. i - 1 : s[j] = old[j]
        /\ \A j \in i .. Len(old) - 1 : s[j] = old[j + 1]
    BY <1>3, <1>4, Removed
  <2>2. DOMAIN old = 1 .. Len(old) BY <1>3
  <2> HIDE DEF s
  <2> QED BY <1>4, <2>1, <2>2
<1>6. /\ color' \in [Obj -> Color]
      /\ \A o \in Obj : color'[o] = color[o] \/ (color[o] # "free" /\ color'[o] = "grey")
      /\ \A o \in Obj : color[o] # "white" => color'[o] = color[o]
      /\ color'[a] = "black" => color[a] = "black"
      /\ color'[a] = "black" /\ i < Len(old) => color'[old[i + 1]] # "white"
  <2>1. CASE i < Len(old)
    <3>1. i + 1 \in DOMAIN old BY <1>3, <1>4, <2>1
    <3>2. old[i + 1] \in Obj /\ color[old[i + 1]] # "free" BY <1>1, <1>2, <3>1, ArrayHolds
    <3>3. color' = GCWrite(color, a, old[i + 1]) BY <1>1, <2>1
    <3> HIDE DEF old
    <3> QED BY <1>3, <3>2, <3>3, Barrier
  <2>2. CASE ~(i < Len(old)) BY <1>1, <2>2, Registers
  <2> QED BY <2>1, <2>2
<1>7. \A k \in DOMAIN old : /\ old[k] \in Obj /\ color[old[k]] # "free"
                            /\ (color[a] = "black" /\ (a = partialObj => k < partialSlot))
                                 => color[old[k]] # "white"
  BY <1>1, <1>2, ArrayHolds
<1>8. DOMAIN old = 1 .. Len(old) BY <1>3
<1>9. partialSlot \in Nat BY DEF InvOf, TypeOK
<1> HIDE DEF s, old
<1>10. \A j \in DOMAIN s : color[s[j]] # "free" BY <1>4, <1>5, <1>7, <1>8
<1>11. ASSUME color'[a] = "black", NEW j \in DOMAIN s, a = partialObj => j < partialSlot
       PROVE  color'[s[j]] # "white"
  <2>1. CASE j < i BY <1>5, <1>6, <1>7, <1>11, <2>1
  <2>2. CASE j = i BY <1>4, <1>5, <1>6, <1>8, <1>11, <2>2
  <2>3. CASE j > i
    <3>1. a # partialObj BY <1>1, <1>4, <1>5, <1>9, <1>11, <2>3
    <3>2. j + 1 \in DOMAIN old /\ s[j] = old[j + 1] BY <1>4, <1>5, <2>3
    <3> QED BY <1>6, <1>7, <1>11, <3>1, <3>2
  <2> QED BY <1>4, <1>5, <2>1, <2>2, <2>3
<1> QED BY <1>1, <1>2, <1>5, <1>6, <1>10, <1>11, ArrayWrite

----------------------------------------------------------------------------
\* Threads and frames that are made.

LEMMA NewThreadSafe ==
  ASSUME NEW L \in SUBSET Frames, InvOf(L), NEW t \in Threads, NEW s \in Stacks, NewThread(t, s)
  PROVE  InvOf(L)'
PROOF
<1> DEFINE q == Append(field[stack], t)
<1>1. /\ color[t] = "free" /\ color[s] = "free" /\ mode = "run"
      /\ color' = [color EXCEPT ![t] = "white", ![s] = "white"]
      /\ field' = PushOn([field EXCEPT ![t] = <<s, Nil, Nil>>, ![s] = <<>>], t)
  BY DEF NewThread, Running
<1>2. /\ thread' = thread /\ stack' = stack /\ frame' = frame /\ mode' = mode /\ flips' = flips
      /\ partialObj' = partialObj /\ partialSlot' = partialSlot /\ returning' = returning
  BY DEF NewThread, Running, registers, collector, scan
<1>3. field \in [Obj -> Seq(Obj \union {Nil})] /\ stack \in Stacks /\ thread \in Threads
      /\ color \in [Obj -> Color]
  BY Registers
<1>4. /\ t # thread /\ s # stack /\ t # s /\ t # stack /\ t # Process /\ s # Process
      /\ t \in Obj /\ s \in Obj /\ stack \in Obj
  BY <1>1, <1>3, Registers, Kinds
<1>5. field'[t] = <<s, Nil, Nil>> /\ field'[s] = <<>> /\ field'[stack] = q
      /\ \A o \in Obj \ {t, s, stack} : field'[o] = field[o]
  BY <1>1, <1>3, <1>4 DEF PushOn
<1>6. color' \in [Obj -> Color] /\ color'[t] = "white" /\ color'[s] = "white"
      /\ \A o \in Obj \ {t, s} : color'[o] = color[o]
  BY <1>1, <1>3, <1>4 DEF Color
<1>7. q \in Seq(Values) /\ Slots(q) = Slots(field[stack]) \union {t}
  BY Registers, StackHolds, ValueKinds, Pushed
<1> HIDE DEF q
<1>8. field[t] = <<>> /\ field[s] = <<>> BY <1>1, <1>4 DEF InvOf, Shape
<1>9. TypeOK'
  <2>1. TypeOK BY DEF InvOf
  <2>2. q \in Seq(Obj \union {Nil}) BY <1>7, ValuesAreObjects
  <2>3. <<s, Nil, Nil>> \in Seq(Obj \union {Nil}) /\ <<>> \in Seq(Obj \union {Nil}) BY <1>4
  <2>4. field' \in [Obj -> Seq(Obj \union {Nil})]
    <3>1. DOMAIN field' = Obj /\ field' = [o \in Obj |-> field'[o]] BY <1>1, <1>3 DEF PushOn
    <3>2. \A o \in Obj : field'[o] \in Seq(Obj \union {Nil}) BY <1>3, <1>5, <2>2, <2>3
    <3> QED BY <3>1, <3>2
  <2> QED BY <1>2, <1>6, <2>1, <2>4 DEF TypeOK, Color
<1>10. Shape'
  <2>1. Shape BY DEF InvOf
  <2>2. \A o \in Obj : color'[o] = "free" => field'[o] = <<>>
    BY <1>4, <1>5, <1>6, <2>1, Registers DEF Shape
  <2>3. field'[Process] = <<thread', Main>> BY <1>2, <1>3, <1>4, <1>5, <2>1, Kinds DEF Shape
  <2>4. color'[Process] \in {"grey", "black"} /\ partialObj' # Process
    BY <1>2, <1>4, <1>6, <2>1, Kinds DEF Shape
  <2>5. \A u \in Threads : color'[u] # "free" => field'[u] \in ThreadSlots'
    <3> TAKE u \in Threads
    <3>1. CASE u = t
      <4>1. <<s, Nil, Nil>> \in ThreadSlots' BY <1>2, <1>4 DEF ThreadSlots
      <4> QED BY <1>5, <3>1, <4>1
    <3>2. CASE u # t
      <4>1. u \in Obj \ {t, s, stack} BY <1>3, <3>2, Kinds
      <4>2. color'[u] = color[u] /\ field'[u] = field[u] BY <1>5, <1>6, <4>1
      <4> QED BY <1>2, <2>1, <4>2 DEF Shape, ThreadSlots
    <3> QED BY <3>1, <3>2
  <2>6. \A f \in Frames : color'[f] # "free" => field'[f] \in FrameSlots(f)
    <3> TAKE f \in Frames
    <3>1. f \in Obj \ {t, s, stack} BY <1>3, Kinds
    <3>2. color'[f] = color[f] /\ field'[f] = field[f] BY <1>5, <1>6, <3>1
    <3> QED BY <2>1, <3>2 DEF Shape
  <2>7. \A o \in Arrays \union Stacks : field'[o] \in Seq(Values)
    <3> TAKE o \in Arrays \union Stacks
    <3>1. <<>> \in Seq(Values) OBVIOUS
    <3>2. CASE o \in {s, stack} BY <1>5, <1>7, <3>1, <3>2
    <3>3. CASE o \notin {s, stack}
      <4>1. o \in Obj \ {t, s, stack} BY <3>3, Kinds
      <4> QED BY <1>5, <2>1, <4>1 DEF Shape
    <3> QED BY <3>2, <3>3
  <2> QED BY <2>2, <2>3, <2>4, <2>5, <2>6, <2>7 DEF Shape, FrameSlots
<1>11. Lives(L)' /\ Unshared(L)'
  <2>1. \A f \in Frames : Caller(f)' = Caller(f) /\ color'[f] = color[f]
    <3>1. \A f \in Frames : f \in Obj \ {t, s, stack} BY <1>3, Kinds
    <3> QED BY <1>5, <1>6, <3>1 DEF Caller
  <2>2. \A u \in Threads \ {t} : SavedStack(u)' = SavedStack(u) /\ SavedFrame(u)' = SavedFrame(u)
    <3>1. \A u \in Threads \ {t} : u \in Obj \ {t, s, stack} BY <1>3, Kinds
    <3>2. \A u \in Threads \ {t} : field'[u] = field[u] BY <1>5, <3>1
    <3> QED BY <3>2 DEF SavedStack, SavedFrame
  <2>3. SavedStack(t)' = s /\ SavedFrame(t)' = Nil BY <1>5 DEF SavedStack, SavedFrame
  <2>4. SavedStack(t) = Nil /\ SavedFrame(t) = Nil BY <1>8 DEF SavedStack, SavedFrame
  <2>5. \A u \in Threads : SavedStack(u) # s BY <1>1, <1>4, SavedIsThere, Kinds
  <2>6. \A u \in Threads : SavedFrame(u)' = SavedFrame(u) BY <2>2, <2>3, <2>4
  <2>7. \A u, v \in Threads : (u # v /\ SavedStack(u)' # Nil) => SavedStack(u)' # SavedStack(v)'
    <3>1. \A u, v \in Threads : (u # v /\ SavedStack(u) # Nil) => SavedStack(u) # SavedStack(v)
      BY DEF InvOf, Unshared
    <3> QED BY <2>2, <2>3, <2>5, <3>1
  <2>8. Lives(L) /\ Unshared(L) BY DEF InvOf
  <2>9. Lives(L)' BY <1>2, <2>1, <2>6, <2>8 DEF Lives
  <2>10. Unshared(L)' BY <1>2, <2>1, <2>6, <2>7, <2>8 DEF Unshared
  <2> QED BY <2>9, <2>10
<1>12. Rooted' BY <1>1, <1>2 DEF Rooted
<1>13. ASSUME NEW o \in Obj \ {t, s, stack}, NEW i \in Used(o, L)', field'[o][i] # Nil
       PROVE  /\ i \in Used(o, L) /\ field'[o] = field[o] /\ color[o] # "free"
              /\ field[o][i] \in Obj /\ color[field[o][i]] # "free"
  <2>1. i \in Used(o, L) /\ field'[o] = field[o] BY <1>5, <1>13 DEF Used
  <2>2. i \in DOMAIN field[o] BY <2>1 DEF Used
  <2>3. field[o][i] \in Obj /\ color[o] # "free" BY <1>13, <2>1, <2>2, Slot
  <2> QED BY <1>13, <2>1, <2>3, Held
<1>14. Kept(L)'
  <2>1. ASSUME NEW o \in Obj, color'[o] # "free", NEW i \in Used(o, L)', field'[o][i] # Nil
        PROVE  color'[field'[o][i]] # "free"
    <3>1. i \in DOMAIN field'[o] BY <2>1 DEF Used
    <3>2. CASE o = t
      <4>1. field'[o][i] = s BY <1>5, <2>1, <3>1, <3>2
      <4> QED BY <1>6, <4>1
    <3>3. CASE o = s BY <1>5, <3>1, <3>3
    <3>4. CASE o = stack
      <4>1. field'[o][i] \in Slots(field[stack]) \union {t} BY <1>5, <1>7, <3>1, <3>4 DEF Slots
      <4>2. \A v \in Slots(field[stack]) : v \in Obj /\ color[v] # "free"
        BY Registers, StackHolds DEF Slots
      <4> QED BY <1>6, <4>1, <4>2
    <3>5. CASE o \notin {t, s, stack}
      <4>1. field'[o] = field[o] /\ field[o][i] \in Obj /\ color[field[o][i]] # "free"
        BY <1>13, <2>1, <3>5
      <4> QED BY <1>6, <4>1
    <3> QED BY <3>2, <3>3, <3>4, <3>5
  <2>2. \A o \in {Process, thread', stack', frame'} \ {Nil} : color'[o] # "free"
    BY <1>2, <1>6, Registers
  <2> QED BY <2>1, <2>2 DEF Kept
<1>15. Dark(L)'
  <2> SUFFICES ASSUME NEW o \in Obj \ {stack'}, color'[o] = "black", NEW i \in Used(o, L)',
                      o = partialObj' => i < partialSlot', field'[o][i] # Nil
               PROVE  color'[field'[o][i]] # "white"
    BY DEF Dark, Scanned
  <2>1. o \notin {t, s, stack} /\ color[o] = "black" BY <1>2, <1>6
  <2>2. i \in Used(o, L) /\ field'[o] = field[o] /\ field[o][i] \in Obj /\ color[field[o][i]] # "free"
    BY <1>13, <2>1
  <2>3. color[field[o][i]] # "white" BY <1>2, <2>1, <2>2 DEF InvOf, Dark, Scanned
  <2> QED BY <1>1, <1>6, <2>2, <2>3
<1> QED BY <1>9, <1>10, <1>11, <1>12, <1>14, <1>15 DEF InvOf

\* A frame that is made has not returned.  Its context and its home are its own, or heap
\* frames that are there.
LEMMA NewFrameSafe ==
  ASSUME NEW L \in SUBSET Frames, InvOf(L), mode = "run",
         NEW f \in Frames, NEW x \in HeapFrames \union {f, Nil}, NEW h \in HeapFrames \union {f, Nil},
         x \in {f, Nil} \/ color[x] # "free", h \in {f, Nil} \/ color[h] # "free",
         NewFrame(f, x, h), returning' \in Frames \union {Nil}, UNCHANGED <<collector, scan>>
  PROVE  InvOf(L \union {f})'
PROOF
<1>1. /\ color[f] = "free" /\ frame' = f /\ color' = [color EXCEPT ![f] = "white"]
      /\ field' = [field EXCEPT ![f] = <<frame, x, h>>] /\ thread' = thread /\ stack' = stack
  BY DEF NewFrame
<1>2. mode' = mode /\ flips' = flips /\ partialObj' = partialObj /\ partialSlot' = partialSlot
  BY DEF collector, scan
<1>3. field \in [Obj -> Seq(Obj \union {Nil})] /\ stack \in Stacks /\ thread \in Threads
      /\ frame \in Frames \union {Nil} /\ color \in [Obj -> Color]
  BY Registers
<1>4. /\ f \in Obj /\ f # stack /\ f # thread /\ f # Process /\ f # Nil /\ f # frame
      /\ frame \in Obj \union {Nil}
  BY <1>1, <1>3, Registers, Kinds
<1>5. field'[f] = <<frame, x, h>> /\ \A o \in Obj \ {f} : field'[o] = field[o] BY <1>1, <1>3, <1>4
<1>6. color' \in [Obj -> Color] /\ color'[f] = "white" /\ \A o \in Obj \ {f} : color'[o] = color[o]
  BY <1>1, <1>3, <1>4 DEF Color
<1>7. TypeOK'
  <2>1. TypeOK BY DEF InvOf
  <2>2. x \in Obj \union {Nil} /\ h \in Obj \union {Nil} BY <1>4, ValueKinds
  <2>3. <<frame, x, h>> \in Seq(Obj \union {Nil}) BY <1>4, <2>2
  <2>4. field' \in [Obj -> Seq(Obj \union {Nil})] BY <1>1, <1>3, <2>3
  <2> QED BY <1>1, <1>2, <1>6, <2>1, <2>4 DEF TypeOK, Color
<1>8. Shape'
  <2>1. Shape BY DEF InvOf
  <2>2. \A o \in Obj : color'[o] = "free" => field'[o] = <<>> BY <1>5, <1>6, <2>1 DEF Shape
  <2>3. field'[Process] = <<thread', Main>> BY <1>1, <1>4, <1>5, <2>1, Kinds DEF Shape
  <2>4. color'[Process] \in {"grey", "black"} /\ partialObj' # Process
    BY <1>2, <1>4, <1>6, <2>1, Kinds DEF Shape
  <2>5. \A t \in Threads : color'[t] # "free" => field'[t] \in ThreadSlots'
    <3> TAKE t \in Threads
    <3>1. color'[t] = color[t] /\ field'[t] = field[t] BY <1>5, <1>6, Kinds
    <3> QED BY <1>1, <2>1, <3>1 DEF Shape, ThreadSlots
  <2>6. \A g \in Frames : color'[g] # "free" => field'[g] \in FrameSlots(g)
    <3> TAKE g \in Frames
    <3>1. CASE g = f
      <4>1. <<frame, x, h>> \in FrameSlots(f) BY <1>3 DEF FrameSlots
      <4> QED BY <1>5, <3>1, <4>1
    <3>2. CASE g # f
      <4>1. color'[g] = color[g] /\ field'[g] = field[g] BY <1>5, <1>6, <3>2, Kinds
      <4> QED BY <2>1, <4>1 DEF Shape
    <3> QED BY <3>1, <3>2
  <2>7. \A o \in Arrays \union Stacks : field'[o] \in Seq(Values) BY <1>5, <2>1, Kinds DEF Shape
  <2> QED BY <2>2, <2>3, <2>4, <2>5, <2>6, <2>7 DEF Shape, FrameSlots
<1> DEFINE L2 == L \union {f}
<1>9. f \notin L BY <1>1 DEF InvOf, Lives
<1>10. /\ \A g \in L : Caller(g)' = Caller(g) /\ color'[g] = color[g]
       /\ Caller(f)' = frame
  <2>1. \A g \in L : g \in Obj \ {f} BY <1>9, Kinds
  <2> QED BY <1>5, <1>6, <2>1 DEF Caller
<1>11. \A t \in Threads : SavedStack(t)' = SavedStack(t) /\ SavedFrame(t)' = SavedFrame(t)
  <2>1. \A t \in Threads : t \in Obj \ {f} BY Kinds
  <2> QED BY <1>5, <2>1 DEF SavedStack, SavedFrame
<1>12. (\A g \in L : Caller(g) # f) /\ \A t \in Threads : SavedFrame(t) # f
  BY <1>4, <1>9, SavedIsThere
<1>13. Lives(L2)'
  <2>1. Lives(L) BY DEF InvOf
  <2> QED BY <1>1, <1>4, <1>6, <1>10, <1>11, <2>1 DEF Lives
<1>14. Unshared(L2)'
  <2>1. Unshared(L) BY DEF InvOf
  <2>2. \A t, u \in Threads : (t # u /\ SavedStack(t)' # Nil) => SavedStack(t)' # SavedStack(u)'
    BY <1>11, <2>1 DEF Unshared
  <2>3. (\A g \in L2 : Caller(g)' # f) /\ \A t \in Threads : SavedFrame(t)' # f
    BY <1>4, <1>10, <1>11, <1>12
  <2>4. \A g, k \in L2 : (g # k /\ Caller(g)' # Nil) => Caller(g)' # Caller(k)'
    BY <1>10, <2>1 DEF Unshared
  <2>5. \A g \in L2, t \in Threads : Caller(g)' # Nil => Caller(g)' # SavedFrame(t)'
    BY <1>10, <1>11, <2>1 DEF Unshared
  <2>6. \A t, u \in Threads : (t # u /\ SavedFrame(t)' # Nil) => SavedFrame(t)' # SavedFrame(u)'
    BY <1>11, <2>1 DEF Unshared
  <2> QED BY <1>1, <2>2, <2>3, <2>4, <2>5, <2>6 DEF Unshared
<1>15. Rooted' BY <1>2 DEF Rooted
<1>16. ASSUME NEW o \in Obj \ {f}, NEW i \in Used(o, L2)', field'[o][i] # Nil
       PROVE  /\ i \in Used(o, L) /\ field'[o] = field[o] /\ color[o] # "free"
              /\ field[o][i] \in Obj \ {f} /\ color[field[o][i]] # "free"
  <2>1. i \in Used(o, L) /\ field'[o] = field[o] BY <1>5, <1>16 DEF Used
  <2>2. i \in DOMAIN field[o] BY <2>1 DEF Used
  <2>3. field[o][i] \in Obj /\ color[o] # "free" BY <1>16, <2>1, <2>2, Slot
  <2>4. color[field[o][i]] # "free" BY <1>16, <2>1, <2>3, Held
  <2> QED BY <1>1, <2>1, <2>3, <2>4
<1> HIDE DEF L2
<1>17. Kept(L2)'
  <2>1. ASSUME NEW o \in Obj, color'[o] # "free", NEW i \in Used(o, L2)', field'[o][i] # Nil
        PROVE  color'[field'[o][i]] # "free"
    <3>1. CASE o = f
      <4>1. i \in {1, 2, 3}
        <5>1. i \in DOMAIN field'[o] BY <2>1 DEF Used
        <5> QED BY <1>5, <3>1, <5>1
      <4>2. field'[o][i] \in {frame, x, h} BY <1>5, <3>1, <4>1
      <4>3. \A v \in {frame, x, h} : v \in {f, Nil} \/ (v \in Obj \ {f} /\ color[v] # "free")
        BY <1>1, <1>4, Registers, ValueKinds
      <4> QED BY <1>6, <2>1, <4>2, <4>3
    <3>2. CASE o # f
      <4>1. field'[o] = field[o] /\ field[o][i] \in Obj \ {f} /\ color[field[o][i]] # "free"
        BY <1>16, <2>1, <3>2
      <4> QED BY <1>6, <4>1
    <3> QED BY <3>1, <3>2
  <2>2. \A o \in {Process, thread', stack', frame'} \ {Nil} : color'[o] # "free"
    BY <1>1, <1>6, Registers
  <2> QED BY <2>1, <2>2 DEF Kept
<1>18. Dark(L2)'
  <2> SUFFICES ASSUME NEW o \in Obj \ {stack'}, color'[o] = "black", NEW i \in Used(o, L2)',
                      o = partialObj' => i < partialSlot', field'[o][i] # Nil
               PROVE  color'[field'[o][i]] # "white"
    BY DEF Dark, Scanned
  <2>1. o # f /\ o # stack /\ color[o] = "black" BY <1>1, <1>6
  <2>2. i \in Used(o, L) /\ field'[o] = field[o] /\ field[o][i] \in Obj \ {f}
    BY <1>16, <2>1
  <2>3. color[field[o][i]] # "white" BY <1>2, <2>1, <2>2 DEF InvOf, Dark, Scanned
  <2> QED BY <1>6, <2>2, <2>3
<1>19. InvOf(L2)' BY <1>7, <1>8, <1>13, <1>14, <1>15, <1>17, <1>18 DEF InvOf
<1> QED BY <1>19 DEF L2

LEMMA CallSafe ==
  ASSUME NEW L \in SUBSET Frames, InvOf(L), NEW f \in Frames, Call(f) PROVE InvOf(L \union {f})'
PROOF
<1>1. mode = "run" /\ NewFrame(f, f, f) /\ returning' = returning /\ UNCHANGED <<collector, scan>>
  BY DEF Call, Running
<1>2. returning' \in Frames \union {Nil} BY <1>1 DEF InvOf, TypeOK
<1> QED BY <1>1, <1>2, NewFrameSafe

LEMMA CallBlockSafe ==
  ASSUME NEW L \in SUBSET Frames, InvOf(L), NEW f \in Frames, NEW h \in HeapFrames \union {Nil},
         CallBlock(f, h)
  PROVE  InvOf(L \union {f})'
PROOF
<1> DEFINE home == IF h = Nil THEN Nil ELSE field[h][3]
<1>1. /\ mode = "run" /\ NewFrame(f, h, home) /\ returning' = returning
      /\ UNCHANGED <<collector, scan>> /\ (h = Nil \/ h \in Named)
  BY DEF CallBlock, Running
<1>2. returning' \in Frames \union {Nil} BY <1>1 DEF InvOf, TypeOK
<1>3. home \in HeapFrames \union {f, Nil} /\ (h \in {f, Nil} \/ color[h] # "free")
      /\ (home \in {f, Nil} \/ color[home] # "free")
  <2>1. CASE h = Nil BY <2>1
  <2>2. CASE h # Nil
    <3>1. color[h] # "free" /\ h \in HeapFrames /\ h \in Frames /\ h \in Obj
      BY <1>1, <2>2, NamedIsThere, ValueKinds
    <3>2. field[h][3] \in HeapFrames \union {Nil} /\ 3 \in Used(h, L) BY <3>1, FrameHolds
    <3>3. field[h][3] # Nil => color[field[h][3]] # "free" BY <3>1, <3>2, Held
    <3> QED BY <2>2, <3>1, <3>2, <3>3
  <2> QED BY <2>1, <2>2
<1> HIDE DEF home
<1> QED BY <1>1, <1>2, <1>3, NewFrameSafe

LEMMA OutOfContextReturnSafe ==
  ASSUME NEW L \in SUBSET Frames, InvOf(L), NEW f \in Frames, OutOfContextReturn(f)
  PROVE  InvOf(L \union {f})'
PROOF
<1>1. mode = "run" /\ NewFrame(f, f, f) /\ returning' = Nil /\ UNCHANGED <<collector, scan>>
  BY DEF OutOfContextReturn
<1> QED BY <1>1, NewFrameSafe

----------------------------------------------------------------------------
\* Frames that return.

\* What the running code returns from is a frame.
LEMMA HomeIsFrame ==
  ASSUME NEW L \in SUBSET Frames, InvOf(L), frame # Nil PROVE Home \in Frames \union {Nil}
PROOF
<1>1. returning \in Frames \union {Nil} BY DEF InvOf, TypeOK
<1>2. frame \in Frames /\ frame \in Obj /\ color[frame] # "free" BY Registers
<1> DEFINE x == field[frame][2]
<1>3. x \in HeapFrames \union {frame, Nil} /\ 2 \in Used(frame, L) BY <1>2, FrameHolds
<1>4. x # Nil => x \in Frames /\ color[x] # "free" BY <1>2, <1>3, Held, ValueKinds
<1>5. x # Nil => field[x][3] \in Frames \union {Nil} BY <1>4, FrameHolds, ValueKinds
<1> QED BY <1>1, <1>5 DEF Home

\* The frames up to r are called by one another: each but the first has called another that
\* is not r.
LEMMA CallersAreCalled ==
  ASSUME \A k \in Frames : Caller(k) \in Frames \union {Nil},
         NEW f \in Frames, NEW r, NEW c \in CallersTo(f, r), c # f
  PROVE  \E k \in CallersTo(f, r) \ {r} : Caller(k) = c
PROOF
<1> DEFINE C == CallersTo(f, r)
           Closed(S) == f \in S /\ \A k \in S \ {r} : Caller(k) # Nil => Caller(k) \in S
<1>1. f # Nil BY Kinds
<1>2. C = {g \in Frames : \A S \in SUBSET Frames : Closed(S) => g \in S}
  <2>1. \A S : Closed(S) <=>
          (f \in S /\ \A k \in S \ {r} : field[k] # <<>> /\ field[k][1] # Nil => field[k][1] \in S)
    BY DEF Caller
  <2> QED BY <1>1, <2>1 DEF CallersTo
<1> HIDE DEF C
<1> SUFFICES ASSUME \A k \in C \ {r} : Caller(k) # c PROVE FALSE BY DEF C
<1>3. c \in C /\ C \in SUBSET Frames BY <1>2 DEF C
<1>4. \A S \in SUBSET Frames : Closed(S) => C \subseteq S BY <1>2
<1>5. f \in C BY <1>2
<1>6. C \ {c} \in SUBSET Frames /\ f \in C \ {c} BY <1>3, <1>5
<1>7. \A k \in (C \ {c}) \ {r} : Caller(k) # Nil => Caller(k) \in C \ {c}
  <2> SUFFICES ASSUME NEW k \in C \ {r}, Caller(k) # Nil PROVE Caller(k) \in C
    OBVIOUS
  <2>1. \A S \in SUBSET Frames : Closed(S) => Caller(k) \in S BY <1>4
  <2>2. Caller(k) \in Frames BY <1>3
  <2> QED BY <1>2, <2>1, <2>2
<1>8. Closed(C \ {c}) BY <1>6, <1>7
<1>9. c \notin C BY <1>4, <1>6, <1>8
<1> QED BY <1>3, <1>9

\* They are among the frames that have not returned, and r, when it is a caller, is one of them.
LEMMA CallersHaveNotReturned ==
  ASSUME NEW L \in SUBSET Frames, \A k \in L : Caller(k) # Nil => Caller(k) \in L, NEW r,
         NEW f, f \in L \union {Nil}
  PROVE  CallersTo(f, r) \subseteq L
PROOF
<1> SUFFICES ASSUME NEW g \in CallersTo(f, r) PROVE g \in L OBVIOUS
<1>1. f # Nil /\ f \in L BY DEF CallersTo
<1>2. \A k \in L \ {r} : field[k] # <<>> /\ field[k][1] # Nil => field[k][1] \in L
  BY DEF Caller
<1> QED BY <1>1, <1>2 DEF CallersTo

LEMMA CallerIsReached ==
  ASSUME NEW f, NEW r \in CallersTo(f, Nil) PROVE r \in CallersTo(f, r)
PROOF
<1>1. r \in Frames /\ f # Nil BY DEF CallersTo
<1> DEFINE Closed(S, q) ==
      f \in S /\ \A k \in S \ {q} : field[k] # <<>> /\ field[k][1] # Nil => field[k][1] \in S
<1>2. \A S \in SUBSET Frames : Closed(S, Nil) => r \in S BY DEF CallersTo
<1>3. \A S \in SUBSET Frames : Closed(S, r) => r \in S
  <2> SUFFICES ASSUME NEW S \in SUBSET Frames, Closed(S, r), r \notin S PROVE FALSE OBVIOUS
  <2>1. Closed(S, Nil) OBVIOUS
  <2> QED BY <1>2, <2>1
<1> QED BY <1>1, <1>3 DEF CallersTo

\* The frames of S return to r.  Nobody else refers to those that are freed: no frame that
\* stays has called into them, no thread waits in them.
LEMMA LeaveSafe ==
  ASSUME NEW L \in SUBSET Frames, InvOf(L), mode = "run", NEW S \in SUBSET L, NEW kept,
         Leave(S, kept), NEW r \in L \ S, frame' = r, returning' = Nil, UNCHANGED <<thread, stack, collector, scan>>,
         \A g \in L \ S : Caller(g) \notin S \union {r},
         \A t \in Threads : SavedFrame(t) \notin S \union {r}
  PROVE  InvOf(L \ S)'
PROOF
<1>1. /\ color' = [o \in Obj |-> IF o \in S \intersect PlainFrames THEN "free" ELSE color[o]]
      /\ field' = [o \in Obj |-> IF o \in S \intersect PlainFrames THEN <<>>
                                 ELSE IF o \in S \ {kept} THEN <<Nil, field[o][2], field[o][3]>>
                                 ELSE field[o]]
  BY DEF Leave
<1>2. /\ thread' = thread /\ stack' = stack /\ mode' = mode /\ flips' = flips
      /\ partialObj' = partialObj /\ partialSlot' = partialSlot
  BY DEF collector, scan
<1>3. field \in [Obj -> Seq(Obj \union {Nil})] /\ stack \in Stacks /\ thread \in Threads
      /\ color \in [Obj -> Color]
  BY Registers
<1>4. S \subseteq Frames /\ r \in Frames /\ r \in Obj /\ r # Nil /\ Nil \notin Frames BY Kinds
<1>5. \A g \in S : /\ g \in Frames /\ g \in Obj /\ color[g] # "free"
                    /\ field[g][2] \in HeapFrames \union {g, Nil}
                    /\ field[g][3] \in HeapFrames \union {g, Nil}
                    /\ Used(g, L) = 1 .. 3 /\ field[g] = <<field[g][1], field[g][2], field[g][3]>>
  BY <1>4, Kinds, FrameHolds DEF InvOf, Lives
<1>6. \A o \in Obj \ S : field'[o] = field[o] /\ color'[o] = color[o] BY <1>1
<1>7. \A o \in S : o \in PlainFrames => field'[o] = <<>> /\ color'[o] = "free" BY <1>1, <1>5
<1>8. \A o \in S : o \notin PlainFrames =>
        color'[o] = color[o] /\ field'[o] \in {field[o], <<Nil, field[o][2], field[o][3]>>}
  BY <1>1, <1>5
<1>9. \A o \in Obj : color'[o] # "free" => color'[o] = color[o] BY <1>6, <1>7, <1>8
<1>10. \A o \in Obj : color'[o] = "free" => color[o] = "free" \/ o \in S \intersect PlainFrames
  BY <1>6, <1>8
<1>11. \A o \in S : <<Nil, field[o][2], field[o][3]>> \in FrameSlots(o)
  <2> SUFFICES ASSUME NEW o \in S PROVE <<Nil, field[o][2], field[o][3]>> \in FrameSlots(o) OBVIOUS
  <2> QED BY <1>5 DEF FrameSlots
<1>12. \A t \in Threads : field'[t] = field[t] /\ color'[t] = color[t] BY <1>4, <1>6, Kinds
<1>13. \A t \in Threads : SavedStack(t)' = SavedStack(t) /\ SavedFrame(t)' = SavedFrame(t)
  BY <1>12 DEF SavedStack, SavedFrame
<1>14. \A g \in L \ S : Caller(g)' = Caller(g) /\ color'[g] = color[g] BY <1>6, Kinds DEF Caller
<1>15. TypeOK'
  <2>1. TypeOK BY DEF InvOf
  <2>2. color' \in [Obj -> Color]
    <3>1. \A o \in Obj : color'[o] \in Color BY <1>1, <1>3 DEF Color
    <3> QED BY <1>1, <3>1
  <2>3. \A o \in Obj : field'[o] \in Seq(Obj \union {Nil})
    <3> TAKE o \in Obj
    <3>1. CASE o \notin S BY <1>3, <1>6, <3>1
    <3>2. CASE o \in S
      <4>1. field[o][2] \in Obj \union {Nil} /\ field[o][3] \in Obj \union {Nil}
        BY <1>5, <3>2, ValueKinds
      <4>2. <<Nil, field[o][2], field[o][3]>> \in Seq(Obj \union {Nil}) /\ <<>> \in Seq(Obj \union {Nil})
        BY <4>1
      <4> QED BY <1>3, <1>7, <1>8, <3>2, <4>2
    <3> QED BY <3>1, <3>2
  <2>4. field' \in [Obj -> Seq(Obj \union {Nil})] BY <1>1, <2>3
  <2> QED BY <1>2, <1>4, <2>1, <2>2, <2>4 DEF TypeOK, Color
<1>16. Shape'
  <2>1. Shape BY DEF InvOf
  <2>2. \A o \in Obj : color'[o] = "free" => field'[o] = <<>>
    <3> TAKE o \in Obj
    <3>1. CASE o \notin S BY <1>6, <2>1, <3>1 DEF Shape
    <3>2. CASE o \in S BY <1>5, <1>7, <1>8, <3>2
    <3> QED BY <3>1, <3>2
  <2>3. field'[Process] = <<thread', Main>> BY <1>2, <1>4, <1>6, <2>1, Kinds DEF Shape
  <2>4. color'[Process] \in {"grey", "black"} /\ partialObj' # Process
    BY <1>2, <1>4, <1>6, <2>1, Kinds DEF Shape
  <2>5. \A t \in Threads : color'[t] # "free" => field'[t] \in ThreadSlots'
    BY <1>2, <1>12, <2>1 DEF Shape, ThreadSlots
  <2>6. \A g \in Frames : color'[g] # "free" => field'[g] \in FrameSlots(g)
    <3> TAKE g \in Frames
    <3>1. CASE g \notin S
      <4>1. color'[g] = color[g] /\ field'[g] = field[g] BY <1>6, <3>1, Kinds
      <4> QED BY <2>1, <4>1 DEF Shape
    <3>2. CASE g \in S
      <4>1. field[g] \in FrameSlots(g) BY <1>5, <2>1, <3>2 DEF Shape
      <4> QED BY <1>7, <1>8, <1>11, <3>2, <4>1
    <3> QED BY <3>1, <3>2
  <2>7. \A o \in Arrays \union Stacks : field'[o] \in Seq(Values) BY <1>4, <1>6, <2>1, Kinds DEF Shape
  <2> QED BY <2>2, <2>3, <2>4, <2>5, <2>6, <2>7 DEF Shape, FrameSlots
<1> DEFINE L2 == L \ S
<1>17. Lives(L2)'
  <2>1. Lives(L) BY DEF InvOf
  <2>2. \A g \in L2 : color'[g] # "free" /\ (Caller(g)' # Nil => Caller(g)' \in L2)
    BY <1>14, <2>1 DEF Lives
  <2>3. \A t \in Threads : SavedFrame(t)' # Nil => SavedFrame(t)' \in L2 BY <1>13, <2>1 DEF Lives
  <2> QED BY <2>2, <2>3 DEF Lives
<1>18. Unshared(L2)'
  <2>1. Unshared(L) BY DEF InvOf
  <2>2. (\A g \in L2 : Caller(g)' # r) /\ \A t \in Threads : SavedFrame(t)' # r BY <1>13, <1>14
  <2>3. \A t, u \in Threads : (t # u /\ SavedStack(t)' # Nil) => SavedStack(t)' # SavedStack(u)'
    BY <1>13, <2>1 DEF Unshared
  <2>4. \A g, k \in L2 : (g # k /\ Caller(g)' # Nil) => Caller(g)' # Caller(k)'
    BY <1>14, <2>1 DEF Unshared
  <2>5. \A g \in L2, t \in Threads : Caller(g)' # Nil => Caller(g)' # SavedFrame(t)'
    BY <1>13, <1>14, <2>1 DEF Unshared
  <2>6. \A t, u \in Threads : (t # u /\ SavedFrame(t)' # Nil) => SavedFrame(t)' # SavedFrame(u)'
    BY <1>13, <2>1 DEF Unshared
  <2> QED BY <2>2, <2>3, <2>4, <2>5, <2>6 DEF Unshared
<1>19. Rooted' BY <1>2 DEF Rooted
<1>20. ASSUME NEW o \in Obj, color'[o] # "free", NEW i \in Used(o, L2)', field'[o][i] # Nil
       PROVE  /\ i \in Used(o, L) /\ field'[o][i] = field[o][i] /\ color[o] = color'[o]
              /\ field[o][i] \in Obj /\ color[field[o][i]] # "free"
              /\ field[o][i] \notin S \intersect PlainFrames
  <2>1. color[o] = color'[o] BY <1>9, <1>20
  <2>2. i \in Used(o, L) /\ field'[o][i] = field[o][i]
    <3>1. CASE o \in S
      <4>1. i \in DOMAIN field'[o] \ {1} BY <1>4, <1>20, <3>1 DEF Used
      <4>2. DOMAIN field'[o] = 1 .. 3 BY <1>5, <1>7, <1>8, <1>20, <3>1
      <4>3. i \in {2, 3} BY <4>1, <4>2
      <4> QED BY <1>5, <1>7, <1>8, <1>20, <3>1, <4>3
    <3>2. CASE o \notin S
      <4>1. field'[o] = field[o] BY <1>6, <3>2
      <4> QED BY <1>20, <3>2, <4>1 DEF Used
    <3> QED BY <3>1, <3>2
  <2>3. i \in DOMAIN field[o] BY <2>2 DEF Used
  <2>4. field[o][i] \in Obj /\ color[field[o][i]] # "free" BY <1>20, <2>1, <2>2, <2>3, Slot, Held
  <2>5. field[o][i] \notin S \intersect PlainFrames
    <3> SUFFICES ASSUME field[o][i] \in S, field[o][i] \in PlainFrames PROVE FALSE OBVIOUS
    <3>1. field[o][i] \notin Values /\ field[o][i] \notin Stacks BY <1>4, ValueKinds, Kinds
    <3>2. \/ o \in Threads /\ field[o][i] = SavedFrame(o)
          \/ o \in L /\ field[o][i] = Caller(o)
          \/ o \in Frames /\ field[o][i] = o
      BY <2>2, <2>4, <3>1, Refers, Kinds
    <3>3. CASE o \in Threads /\ field[o][i] = SavedFrame(o) BY <3>3
    <3>4. CASE o \in L /\ field[o][i] = Caller(o) /\ o \notin S BY <3>4
    <3>5. CASE o \in S /\ field[o][i] = Caller(o) /\ field[o][i] # o
      <4>1. i \in {2, 3}
        <5>1. i \in DOMAIN field'[o] \ {1} BY <1>4, <1>20, <3>5 DEF Used
        <5>2. DOMAIN field'[o] = 1 .. 3 BY <1>5, <1>7, <1>8, <1>20, <3>5
        <5> QED BY <5>1, <5>2
      <4>2. field[o][i] \in HeapFrames \union {o, Nil} BY <1>5, <3>5, <4>1
      <4> QED BY <2>4, <3>1, <3>5, <4>2, Kinds, ValueKinds
    <3>6. CASE field[o][i] = o BY <1>7, <1>20, <3>6
    <3> QED BY <3>2, <3>3, <3>4, <3>5, <3>6
  <2> QED BY <2>1, <2>2, <2>4, <2>5
<1> HIDE DEF L2
<1>21. Kept(L2)'
  <2>1. \A o \in Obj : color'[o] # "free" =>
          \A i \in Used(o, L2)' : field'[o][i] # Nil => color'[field'[o][i]] # "free"
    BY <1>10, <1>20
  <2>2. \A o \in {Process, thread', stack'} : color'[o] # "free"
    <3>1. {Process, thread, stack} \subseteq Obj \ S BY <1>3, <1>4, Kinds
    <3> QED BY <1>2, <1>6, <3>1, Registers
  <2>3. color'[r] # "free" BY <1>6, <1>4 DEF InvOf, Lives
  <2> QED BY <2>1, <2>2, <2>3 DEF Kept
<1>22. Dark(L2)'
  <2> SUFFICES ASSUME NEW o \in Obj \ {stack'}, color'[o] = "black", NEW i \in Used(o, L2)',
                      o = partialObj' => i < partialSlot', field'[o][i] # Nil
               PROVE  color'[field'[o][i]] # "white"
    BY DEF Dark, Scanned
  <2>1. /\ i \in Used(o, L) /\ field'[o][i] = field[o][i] /\ color[o] = "black"
        /\ field[o][i] \in Obj /\ o # stack
    BY <1>2, <1>20
  <2>2. color[field[o][i]] # "white" BY <1>2, <2>1 DEF InvOf, Dark, Scanned
  <2> QED BY <1>9, <2>1, <2>2
<1>23. InvOf(L2)' BY <1>15, <1>16, <1>17, <1>18, <1>19, <1>21, <1>22 DEF InvOf
<1> QED BY <1>23 DEF L2

LEMMA ReturnFromBlockSafe ==
  ASSUME NEW L \in SUBSET Frames, InvOf(L), ReturnFromBlock
  PROVE  \E S \in SUBSET L : InvOf(L \ S)'
PROOF
<1> DEFINE r == field[frame][1]
<1>1. /\ mode = "run" /\ returning = Nil /\ UNCHANGED <<collector, scan>> /\ frame # Nil /\ r # Nil
      /\ Leave({frame}, Nil) /\ frame' = r /\ UNCHANGED <<thread, stack, returning>>
  BY DEF ReturnFromBlock, Running
<1>2. frame \in Frames /\ frame \in L /\ color[frame] # "free" BY <1>1, Registers
<1>3. Caller(frame) = r BY <1>2, FrameHolds
<1> HIDE DEF r
<1>4. r \in L BY <1>1, <1>2, <1>3, SavedIsThere
<1>5. Unshared(L) BY DEF InvOf
<1>6. \A g \in L : Caller(g) # frame BY <1>1, <1>5 DEF Unshared
<1>7. r # frame BY <1>2, <1>3, <1>6
<1>8. \A g \in L \ {frame} : Caller(g) # r BY <1>1, <1>2, <1>3, <1>5 DEF Unshared
<1>9. \A t \in Threads : SavedFrame(t) # frame /\ SavedFrame(t) # r
  BY <1>1, <1>2, <1>3, <1>5 DEF Unshared
<1>10. PICK S \in SUBSET L : S = {frame} BY <1>2
<1>11. r \in L \ S BY <1>4, <1>7, <1>10
<1>12. \A g \in L \ S : Caller(g) \notin S \union {r} BY <1>6, <1>8, <1>10
<1>13. \A t \in Threads : SavedFrame(t) \notin S \union {r} BY <1>9, <1>10
<1>14. Leave(S, Nil) /\ frame' = r BY <1>1, <1>10
<1>15. InvOf(L \ S)' BY <1>1, <1>11, <1>12, <1>13, <1>14, LeaveSafe
<1> QED BY <1>15

\* A frame that a frame of L has called is called by no other, so that nothing refers to the
\* frames that are left: they have called one another, up to the frame that is returned to.
LEMMA ReturnFromMethodSafe ==
  ASSUME NEW L \in SUBSET Frames, InvOf(L), ReturnFromMethod
  PROVE  \E S \in SUBSET L : InvOf(L \ S)'
PROOF
<1>1. /\ mode = "run" /\ frame # Nil /\ ReturnFrame \in Chain
      /\ Leave(CallersTo(frame, ReturnFrame) \ {ReturnFrame}, Home)
      /\ frame' = ReturnFrame /\ returning' = Nil
      /\ UNCHANGED <<thread, stack, collector, scan>>
  BY DEF ReturnFromMethod
<1>2. PICK r \in Frames : r = ReturnFrame BY <1>1 DEF Chain, CallersTo
<1>3. PICK C \in SUBSET Frames : C = CallersTo(frame, r) BY DEF CallersTo
<1>4. Lives(L) /\ Unshared(L) BY DEF InvOf
<1>5. frame \in L /\ frame \in Frames BY <1>1, Registers
<1>6. \A g \in L : Caller(g) # Nil => Caller(g) \in L BY <1>4 DEF Lives
<1>7. C \subseteq L BY <1>3, <1>5, <1>6, CallersHaveNotReturned
<1>8. r \in C BY <1>1, <1>2, <1>3, CallerIsReached DEF Chain
<1>9. \A k \in Frames : Caller(k) \in Frames \union {Nil}
  <2> SUFFICES ASSUME NEW k \in Frames PROVE Caller(k) \in Frames \union {Nil} OBVIOUS
  <2>1. CASE color[k] = "free"
    <3>1. field[k] = <<>> BY <2>1, Kinds DEF InvOf, Shape
    <3> QED BY <3>1 DEF Caller
  <2>2. CASE color[k] # "free" BY <2>2, FrameHolds
  <2> QED BY <2>1, <2>2
<1>10. \A c \in C : c # frame => \E k \in C \ {r} : Caller(k) = c
  BY <1>3, <1>5, <1>9, CallersAreCalled
<1>11. PICK S \in SUBSET L : S = C \ {r} BY <1>7
<1>12. r \in L \ S BY <1>7, <1>8, <1>11
<1>13. \A c \in C : c # Nil BY Kinds
<1>14. \A c \in C : /\ \A g \in L \ S : Caller(g) # c
                    /\ \A t \in Threads : SavedFrame(t) # c
  <2> SUFFICES ASSUME NEW c \in C
               PROVE  (\A g \in L \ S : Caller(g) # c) /\ \A t \in Threads : SavedFrame(t) # c
    OBVIOUS
  <2>1. CASE c = frame BY <1>1, <1>4, <2>1 DEF Unshared
  <2>2. CASE c # frame
    <3>1. PICK k \in C \ {r} : Caller(k) = c BY <1>10, <2>2
    <3>2. k \in L /\ k \in S /\ c # Nil BY <1>7, <1>11, <1>13
    <3>3. \A g \in L \ S : Caller(g) # c BY <1>4, <3>1, <3>2 DEF Unshared
    <3>4. \A t \in Threads : SavedFrame(t) # c BY <1>4, <3>1, <3>2 DEF Unshared
    <3> QED BY <3>3, <3>4
  <2> QED BY <2>1, <2>2
<1>15. \A g \in L \ S : Caller(g) \notin S \union {r} BY <1>8, <1>11, <1>14
<1>16. \A t \in Threads : SavedFrame(t) \notin S \union {r} BY <1>8, <1>11, <1>14
<1>17. Leave(S, Home) /\ frame' = r BY <1>1, <1>2, <1>3, <1>11
<1>18. InvOf(L \ S)' BY <1>1, <1>12, <1>15, <1>16, <1>17, LeaveSafe
<1> QED BY <1>18

\* What the interpreter did is over: its frames are left to the collector.
LEMMA ReturnOutSafe == ASSUME NEW L \in SUBSET Frames, InvOf(L), ReturnOut PROVE InvOf(L)'
PROOF
<1>1. /\ mode = "run" /\ field' = [field EXCEPT ![stack] = <<>>, ![Process] = <<Main, Main>>]
      /\ thread' = Main /\ frame' = Nil /\ color' = color /\ stack' = stack /\ returning' = returning
      /\ UNCHANGED <<collector, scan>>
  BY DEF ReturnOut, Running
<1>2. mode' = mode /\ flips' = flips /\ partialObj' = partialObj /\ partialSlot' = partialSlot
  BY <1>1 DEF collector, scan
<1>3. field \in [Obj -> Seq(Obj \union {Nil})] /\ stack \in Stacks /\ Main \in Threads
  BY Registers, Kinds
<1>4. stack \in Obj /\ stack # Process /\ Process \in Obj /\ Main \in Obj /\ Main # Nil
  BY <1>3, Kinds
<1>5. field'[stack] = <<>> /\ field'[Process] = <<Main, Main>>
      /\ \A o \in Obj \ {stack, Process} : field'[o] = field[o]
  BY <1>1, <1>3, <1>4
<1>6. field[Process] = <<thread, Main>> BY DEF InvOf, Shape
<1>7. 2 \in Used(Process, L) /\ field[Process][2] = Main BY <1>6, Kinds DEF Used
<1>8. color[Main] # "free" BY <1>4, <1>7, Held, Registers
<1>9. TypeOK'
  <2>1. TypeOK BY DEF InvOf
  <2>2. <<Main, Main>> \in Seq(Obj \union {Nil}) /\ <<>> \in Seq(Obj \union {Nil}) BY <1>4
  <2>3. field' \in [Obj -> Seq(Obj \union {Nil})] BY <1>1, <1>3, <2>2
  <2> QED BY <1>1, <1>2, <1>3, <2>1, <2>3 DEF TypeOK
<1>10. \A t \in Threads \union Frames : field'[t] = field[t] BY <1>3, <1>5, Kinds
<1>11. Shape'
  <2>1. Shape BY DEF InvOf
  <2>2. \A o \in Obj : color'[o] = "free" => field'[o] = <<>>
    BY <1>1, <1>5, <2>1, Registers DEF Shape
  <2>3. field'[Process] = <<thread', Main>> BY <1>1, <1>5
  <2>4. color'[Process] \in {"grey", "black"} /\ partialObj' # Process BY <1>1, <1>2, <2>1 DEF Shape
  <2>5. \A t \in Threads : color'[t] # "free" => field'[t] \in ThreadSlots'
    BY <1>1, <1>10, <2>1 DEF Shape, ThreadSlots
  <2>6. \A f \in Frames : color'[f] # "free" => field'[f] \in FrameSlots(f)
    BY <1>1, <1>10, <2>1 DEF Shape
  <2>7. \A o \in Arrays \union Stacks : field'[o] \in Seq(Values)
    <3>1. <<>> \in Seq(Values) OBVIOUS
    <3> QED BY <1>5, <2>1, <3>1, Kinds DEF Shape
  <2> QED BY <2>2, <2>3, <2>4, <2>5, <2>6, <2>7 DEF Shape, FrameSlots
<1>12. \A f \in Frames : Caller(f)' = Caller(f) BY <1>10 DEF Caller
<1>13. \A t \in Threads : SavedStack(t)' = SavedStack(t) /\ SavedFrame(t)' = SavedFrame(t)
  BY <1>10 DEF SavedStack, SavedFrame
<1>14. Lives(L)' BY <1>1, <1>12, <1>13 DEF InvOf, Lives
<1>15. Unshared(L)' BY <1>1, <1>12, <1>13 DEF InvOf, Unshared
<1>16. Rooted' BY <1>1, <1>2 DEF Rooted
<1>17. ASSUME NEW o \in Obj \ {Process}, NEW i \in Used(o, L)', field'[o][i] # Nil
       PROVE  /\ i \in Used(o, L) /\ field'[o] = field[o] /\ color[o] # "free"
              /\ color[field[o][i]] # "free"
  <2>1. i \in DOMAIN field'[o] BY <1>17 DEF Used
  <2>2. o # stack BY <1>5, <2>1
  <2>3. i \in Used(o, L) /\ field'[o] = field[o] BY <1>5, <1>17, <2>2 DEF Used
  <2>4. i \in DOMAIN field[o] BY <2>3 DEF Used
  <2>5. color[o] # "free" BY <2>4, Slot
  <2> QED BY <1>17, <2>3, <2>5, Held
<1>18. \A i \in Used(Process, L)' : field'[Process][i] = Main
  <2>1. \A i \in Used(Process, L)' : i \in DOMAIN field'[Process] BY DEF Used
  <2> QED BY <1>5, <2>1
<1>19. Kept(L)'
  <2>1. ASSUME NEW o \in Obj, color'[o] # "free", NEW i \in Used(o, L)', field'[o][i] # Nil
        PROVE  color'[field'[o][i]] # "free"
    <3>1. CASE o = Process BY <1>1, <1>8, <1>18, <2>1, <3>1
    <3>2. CASE o # Process BY <1>1, <1>17, <2>1, <3>2
    <3> QED BY <3>1, <3>2
  <2>2. \A o \in {Process, thread', stack', frame'} \ {Nil} : color'[o] # "free"
    BY <1>1, <1>8, Registers
  <2> QED BY <2>1, <2>2 DEF Kept
<1>20. Dark(L)'
  <2> SUFFICES ASSUME NEW o \in Obj \ {stack'}, color'[o] = "black", NEW i \in Used(o, L)',
                      o = partialObj' => i < partialSlot', field'[o][i] # Nil
               PROVE  color'[field'[o][i]] # "white"
    BY DEF Dark, Scanned
  <2>1. CASE o = Process
    <3>1. partialObj # Process BY DEF InvOf, Shape
    <3>2. color[Main] # "white" BY <1>1, <1>4, <1>7, <2>1, <3>1 DEF InvOf, Dark, Scanned
    <3> QED BY <1>1, <1>18, <2>1, <3>2
  <2>2. CASE o # Process
    <3>1. i \in Used(o, L) /\ field'[o] = field[o] BY <1>17, <2>2
    <3> QED BY <1>1, <1>2, <3>1 DEF InvOf, Dark, Scanned
  <2> QED BY <2>1, <2>2
<1> QED BY <1>9, <1>11, <1>14, <1>15, <1>16, <1>19, <1>20 DEF InvOf

\* A thread that waits forgets its frame, its parent and what its stack holds.
LEMMA ResetSafe == ASSUME NEW L \in SUBSET Frames, InvOf(L), NEW t \in Threads, Reset(t) PROVE InvOf(L)'
PROOF
<1> DEFINE r == field[t][1]
<1>1. /\ mode = "run" /\ t \in Named /\ t # thread /\ r # Nil
      /\ field' = [field EXCEPT ![t] = <<@[1], Nil, Nil>>, ![r] = <<>>]
      /\ color' = color /\ UNCHANGED <<registers, collector, scan>>
  BY DEF Reset, Running, Waiting
<1>2. /\ thread' = thread /\ stack' = stack /\ frame' = frame /\ mode' = mode /\ flips' = flips
      /\ partialObj' = partialObj /\ partialSlot' = partialSlot /\ returning' = returning
  BY <1>1 DEF registers, collector, scan
<1>3. color[t] # "free" BY <1>1, NamedIsThere
<1>4. r \in Stacks \ {stack} /\ SavedStack(t) = r /\ Used(t, L) = 1 .. 3 BY <1>1, <1>3, ThreadHolds
<1>5. color[r] # "free" BY <1>1, <1>4, SavedIsThere
<1>6. field \in [Obj -> Seq(Obj \union {Nil})] /\ stack \in Stacks /\ thread \in Threads
  BY Registers
<1>7. t \in Obj /\ r \in Obj /\ t # r /\ Process \notin {t, r} /\ t # stack BY <1>4, <1>6, Kinds
<1>8. field'[t] = <<r, Nil, Nil>> /\ field'[r] = <<>>
      /\ \A o \in Obj \ {t, r} : field'[o] = field[o]
  BY <1>1, <1>6, <1>7
<1> HIDE DEF r
<1>9. TypeOK'
  <2>1. TypeOK BY DEF InvOf
  <2>2. <<r, Nil, Nil>> \in Seq(Obj \union {Nil}) /\ <<>> \in Seq(Obj \union {Nil}) BY <1>7
  <2>3. \A o \in Obj : field'[o] \in Seq(Obj \union {Nil}) BY <1>6, <1>8, <2>2
  <2>4. DOMAIN field' = Obj /\ field' = [o \in Obj |-> field'[o]] BY <1>1, <1>6
  <2>5. field' \in [Obj -> Seq(Obj \union {Nil})] BY <2>3, <2>4
  <2> QED BY <1>1, <1>2, <2>1, <2>5 DEF TypeOK
<1>10. Shape'
  <2>1. Shape BY DEF InvOf
  <2>2. \A o \in Obj : color'[o] = "free" => field'[o] = <<>>
    BY <1>1, <1>3, <1>5, <1>8, <2>1 DEF Shape
  <2>3. field'[Process] = <<thread', Main>> BY <1>2, <1>7, <1>8, <2>1, Kinds DEF Shape
  <2>4. color'[Process] \in {"grey", "black"} /\ partialObj' # Process BY <1>1, <1>2, <2>1 DEF Shape
  <2>5. \A u \in Threads : color'[u] # "free" => field'[u] \in ThreadSlots'
    <3> TAKE u \in Threads
    <3>1. CASE u = t
      <4>1. <<r, Nil, Nil>> \in ThreadSlots' BY <1>2, <1>4 DEF ThreadSlots
      <4> QED BY <1>8, <3>1, <4>1
    <3>2. CASE u # t
      <4>1. field'[u] = field[u] BY <1>4, <1>8, <3>2, Kinds
      <4> QED BY <1>1, <1>2, <2>1, <4>1 DEF Shape, ThreadSlots
    <3> QED BY <3>1, <3>2
  <2>6. \A f \in Frames : color'[f] # "free" => field'[f] \in FrameSlots(f)
    <3> TAKE f \in Frames
    <3>1. field'[f] = field[f] BY <1>4, <1>8, Kinds
    <3> QED BY <1>1, <2>1, <3>1 DEF Shape
  <2>7. \A o \in Arrays \union Stacks : field'[o] \in Seq(Values)
    <3>1. <<>> \in Seq(Values) OBVIOUS
    <3> QED BY <1>8, <2>1, <3>1, Kinds DEF Shape
  <2> QED BY <2>2, <2>3, <2>4, <2>5, <2>6, <2>7 DEF Shape, FrameSlots
<1>11. \A f \in Frames : Caller(f)' = Caller(f)
  <2>1. \A f \in Frames : f \in Obj \ {t, r} BY <1>4, Kinds
  <2> QED BY <1>8, <2>1 DEF Caller
<1>12. /\ SavedStack(t)' = SavedStack(t) /\ SavedFrame(t)' = Nil
       /\ \A u \in Threads \ {t} : SavedStack(u)' = SavedStack(u) /\ SavedFrame(u)' = SavedFrame(u)
  <2>1. \A u \in Threads \ {t} : u \in Obj \ {t, r} BY <1>4, Kinds
  <2>2. \A u \in Threads \ {t} : SavedStack(u)' = SavedStack(u) /\ SavedFrame(u)' = SavedFrame(u)
    BY <1>8, <2>1 DEF SavedStack, SavedFrame
  <2>3. SavedStack(t)' = r /\ SavedFrame(t)' = Nil BY <1>8 DEF SavedStack, SavedFrame
  <2> QED BY <1>4, <2>2, <2>3
<1>13. Lives(L)'
  <2>1. Lives(L) BY DEF InvOf
  <2> QED BY <1>1, <1>2, <1>11, <1>12, <2>1 DEF Lives
<1>14. Unshared(L)'
  <2>1. Unshared(L) BY DEF InvOf
  <2>2. \A u \in Threads : SavedStack(u)' = SavedStack(u) /\ SavedFrame(u)' \in {SavedFrame(u), Nil}
    BY <1>12
  <2>3. \A u, v \in Threads : (u # v /\ SavedStack(u)' # Nil) => SavedStack(u)' # SavedStack(v)'
    BY <2>1, <2>2 DEF Unshared
  <2>4. frame' # Nil => /\ \A g \in L : Caller(g)' # frame'
                        /\ \A u \in Threads : SavedFrame(u)' # frame'
    BY <1>2, <1>11, <2>1, <2>2 DEF Unshared
  <2>5. \A g, h \in L : (g # h /\ Caller(g)' # Nil) => Caller(g)' # Caller(h)'
    BY <1>11, <2>1 DEF Unshared
  <2>6. \A g \in L, u \in Threads : Caller(g)' # Nil => Caller(g)' # SavedFrame(u)'
    BY <1>11, <2>1, <2>2 DEF Unshared
  <2>7. \A u, v \in Threads : (u # v /\ SavedFrame(u)' # Nil) => SavedFrame(u)' # SavedFrame(v)'
    BY <2>1, <2>2 DEF Unshared
  <2> QED BY <2>3, <2>4, <2>5, <2>6, <2>7 DEF Unshared
<1>15. Rooted' BY <1>1, <1>2 DEF Rooted
<1>16. ASSUME NEW o \in Obj, NEW i \in Used(o, L)', field'[o][i] # Nil
       PROVE  /\ i \in Used(o, L) /\ field'[o][i] = field[o][i] /\ color[o] # "free"
              /\ color[field[o][i]] # "free"
  <2>1. i \in DOMAIN field'[o] BY <1>16 DEF Used
  <2>2. o # r BY <1>8, <2>1
  <2>3. i \in Used(o, L) /\ field'[o][i] = field[o][i]
    <3>1. CASE o = t
      <4>1. i = 1 /\ field'[o][i] = r BY <1>8, <1>16, <2>1, <3>1
      <4> QED BY <1>4, <3>1, <4>1 DEF r
    <3>2. CASE o # t BY <1>8, <1>16, <2>2, <3>2 DEF Used
    <3> QED BY <3>1, <3>2
  <2>4. i \in DOMAIN field[o] BY <2>3 DEF Used
  <2>5. color[o] # "free" BY <2>4, Slot
  <2> QED BY <1>16, <2>3, <2>5, Held
<1>17. Kept(L)'
  <2>1. \A o \in {Process, thread', stack', frame'} \ {Nil} : color'[o] # "free"
    BY <1>1, <1>2, Registers
  <2> QED BY <1>1, <1>16, <2>1 DEF Kept
<1>18. Dark(L)'
  <2> SUFFICES ASSUME NEW o \in Obj \ {stack'}, color'[o] = "black", NEW i \in Used(o, L)',
                      o = partialObj' => i < partialSlot', field'[o][i] # Nil
               PROVE  color'[field'[o][i]] # "white"
    BY DEF Dark, Scanned
  <2>1. i \in Used(o, L) /\ field'[o][i] = field[o][i] BY <1>16
  <2> QED BY <1>1, <1>2, <2>1 DEF InvOf, Dark, Scanned
<1> QED BY <1>9, <1>10, <1>13, <1>14, <1>15, <1>17, <1>18 DEF InvOf

----------------------------------------------------------------------------
\* The switch of threads.

\* The colours after a switch from a thread that keeps a frame to t, whose stack is r, when c
\* were the colours before.
Recolored(c, t, r, kept) ==
  /\ color' \in [Obj -> Color] /\ color'[r] = "black" /\ color'[stack] \in {"white", "grey"}
  /\ \A o \in Obj \ {stack, r} : color'[o] = c[o] \/ (c[o] = "white" /\ color'[o] = "grey")
  /\ c[thread] = "black" => color'[stack] = "grey" /\ (kept # Nil => color'[kept] # "white")
  /\ c[Process] = "black" => color'[t] # "white"

\* What a switch of threads does to the colours: the old stack is no longer black, the new
\* one is; a black thread or process has greyed what it gets.
LEMMA SwitchColors ==
  ASSUME NEW L \in SUBSET Frames, InvOf(L), NEW c \in [Obj -> Color], NEW t \in Threads,
         NEW r \in Stacks, NEW done \in BOOLEAN, r # stack,
         color' = [GCWrite(SaveThread(c, done), Process, t) EXCEPT ![r] = "black"]
  PROVE  Recolored(c, t, r, IF done THEN Nil ELSE frame)
PROOF
<1> DEFINE b == SaveThread(c, done)
           d == GCWrite(b, Process, t)
<1>1. /\ stack \in Stacks /\ thread \in Threads /\ stack \in Obj /\ r \in Obj /\ t \in Obj
      /\ Process \in Obj /\ thread \in Obj
      /\ Process \notin {stack, r} /\ t \notin {stack, r} /\ thread \notin {stack, r}
      /\ frame # Nil => frame \in Obj \ {stack, r}
      /\ frame # stack
  BY Registers, Kinds
<1>2. /\ b \in [Obj -> Color] /\ b[stack] \in {"white", "grey"}
      /\ \A o \in Obj \ {stack} : b[o] = c[o] \/ (c[o] = "white" /\ b[o] = "grey")
      /\ c[thread] = "black" => b[stack] = "grey" /\ (frame # Nil /\ ~done => b[frame] # "white")
  <2> DEFINE w == [c EXCEPT ![stack] = "white"]
             S == {stack} \union (IF done THEN {} ELSE {frame})
  <2>1. w \in [Obj -> Color] /\ w[stack] = "white" /\ \A o \in Obj \ {stack} : w[o] = c[o]
    BY <1>1 DEF Color
  <2>2. b = IF c[thread] = "black" THEN ToGrey(w, S) ELSE w BY DEF SaveThread
  <2>3. stack \in S /\ (~done => frame \in S) OBVIOUS
  <2> HIDE DEF w, b, S
  <2>4. CASE c[thread] = "black"
    <3>1. b = [o \in Obj |-> IF o \in S /\ w[o] = "white" THEN "grey" ELSE w[o]]
      BY <2>2, <2>4 DEF ToGrey
    <3>2. b \in [Obj -> Color] BY <2>1, <3>1 DEF Color
    <3>3. b[stack] = "grey" BY <1>1, <2>1, <2>3, <3>1
    <3>4. \A o \in Obj \ {stack} : b[o] = c[o] \/ (c[o] = "white" /\ b[o] = "grey")
      BY <2>1, <3>1
    <3>5. frame # Nil /\ ~done => b[frame] # "white" BY <1>1, <2>3, <3>1
    <3> QED BY <3>2, <3>3, <3>4, <3>5
  <2>5. CASE c[thread] # "black" BY <2>1, <2>2, <2>5
  <2> QED BY <2>4, <2>5
<1> HIDE DEF b
<1>3. /\ d \in [Obj -> Color] /\ d[stack] = b[stack]
      /\ \A o \in Obj : d[o] = b[o] \/ (o = t /\ b[o] = "white" /\ d[o] = "grey")
      /\ b[Process] = "black" => d[t] # "white"
  <2>1. CASE b[Process] = "black" BY <1>1, <1>2, <2>1 DEF GCWrite, ToGrey, Color
  <2>2. CASE b[Process] # "black" BY <1>1, <1>2, <2>2 DEF GCWrite, Color
  <2> QED BY <2>1, <2>2
<1>4. color' = [d EXCEPT ![r] = "black"] BY DEF b
<1> HIDE DEF d
<1>5. color' \in [Obj -> Color] /\ color'[r] = "black" /\ \A o \in Obj \ {r} : color'[o] = d[o]
  BY <1>1, <1>3, <1>4 DEF Color
<1>6. color'[stack] = b[stack] BY <1>1, <1>3, <1>5
<1>7. \A o \in Obj \ {stack, r} : color'[o] = c[o] \/ (c[o] = "white" /\ color'[o] = "grey")
  BY <1>2, <1>3, <1>5
<1>8. c[thread] = "black" => /\ color'[stack] = "grey"
                             /\ frame # Nil /\ ~done => color'[frame] # "white"
  BY <1>1, <1>2, <1>3, <1>5, <1>6
<1>9. c[Process] = "black" => color'[t] # "white" BY <1>1, <1>2, <1>3, <1>5
<1> QED BY <1>2, <1>5, <1>6, <1>7, <1>8, <1>9 DEF Recolored

\* The slots after such a switch: the old thread keeps a frame and the parent p, the new one
\* the parent q, and v is pushed on its stack r.
Switched(t, r, kept, p, q, v) ==
  /\ field' = [o \in Obj |-> field'[o]]
  /\ field'[stack] \in {<<>>, field[stack]}
  /\ field'[thread] = <<stack, kept, p>> /\ field'[Process] = <<t, Main>>
  /\ field'[t] = <<Nil, Nil, q>>
  /\ field'[r] = IF v = Nil THEN field[r] ELSE Append(field[r], v)
  /\ \A o \in Obj \ {stack, thread, Process, t, r} : field'[o] = field[o]
  /\ thread' = t /\ stack' = r /\ frame' = SavedFrame(t)

\* A switch hands the frames and stacks of two threads over to each other.
LEMMA SwitchSafe ==
  ASSUME NEW L \in SUBSET Frames, InvOf(L), mode = "run", NEW t \in Threads \ {thread}, color[t] # "free",
         NEW r, r = SavedStack(t), r # Nil, NEW kept \in {frame, Nil},
         NEW p \in {field[thread][3], Nil}, NEW q, NEW v \in Named \union {Nil},
         NEW c \in [Obj -> Color], \A o \in Obj : c[o] = color[o] \/ (color[o] = "white" /\ c[o] = "grey"),
         q = field[t][3] \/ (q = thread /\ (color[t] = "black" => c[thread] # "white")),
         Recolored(c, t, r, kept), Switched(t, r, kept, p, q, v),
         returning' \in Frames \union {Nil}, UNCHANGED <<collector, scan>>
  PROVE  InvOf(L)'
PROOF
<1>1. mode' = mode /\ flips' = flips /\ partialObj' = partialObj /\ partialSlot' = partialSlot
  BY DEF collector, scan
<1>2. /\ thread' = t /\ stack' = r /\ frame' = SavedFrame(t)
      /\ field' = [o \in Obj |-> field'[o]]
      /\ field'[stack] \in {<<>>, field[stack]}
      /\ field'[thread] = <<stack, kept, p>> /\ field'[Process] = <<t, Main>>
      /\ field'[t] = <<Nil, Nil, q>>
      /\ field'[r] = IF v = Nil THEN field[r] ELSE Append(field[r], v)
      /\ \A o \in Obj \ {stack, thread, Process, t, r} : field'[o] = field[o]
  BY DEF Switched
<1>3. field \in [Obj -> Seq(Obj \union {Nil})] /\ stack \in Stacks /\ thread \in Threads
      /\ frame \in Frames \union {Nil} /\ color[stack] # "free" /\ color[thread] # "free"
      /\ color[Process] # "free" /\ (frame # Nil => frame \in L /\ color[frame] # "free")
  BY Registers
<1>4. /\ Used(t, L) = 1 .. 3 /\ field[t][3] \in Threads \union {Nil}
      /\ r \in Stacks \ {stack} /\ color[r] # "free"
  BY ThreadHolds, SavedIsThere
<1>5. Used(thread, L) = 1 .. 3 /\ field[thread][3] \in Threads \union {Nil}
  BY <1>3, ThreadHolds
<1>6. frame' # Nil => frame' \in L /\ frame' \in Frames /\ color[frame'] # "free"
  BY <1>2, SavedIsThere
<1>7. /\ {stack, r, t, thread, Process, Main} \subseteq Obj
      /\ Process \notin {stack, r, t, thread} /\ t \notin {stack, r} /\ thread \notin {stack, r}
      /\ Main \notin {stack, r} /\ Main # Nil /\ stack # Nil /\ stack \notin Threads
  BY <1>3, <1>4, Kinds
<1>8. /\ color' \in [Obj -> Color] /\ color'[r] = "black" /\ color'[stack] \in {"white", "grey"}
      /\ \A o \in Obj \ {stack, r} : color'[o] = color[o] \/ (color[o] = "white" /\ color'[o] = "grey")
      /\ color[thread] = "black" => color'[stack] = "grey" /\ (kept # Nil => color'[kept] # "white")
      /\ color[Process] = "black" => color'[t] # "white"
      /\ c[thread] # "white" => color'[thread] # "white"
  BY <1>7 DEF Recolored
<1>9. \A o \in Obj : color'[o] = "free" <=> color[o] = "free" BY <1>3, <1>4, <1>7, <1>8
<1>10. \A o \in Obj \ {stack} : color[o] # "white" => color'[o] # "white" BY <1>4, <1>7, <1>8
<1>11. q \in Threads \union {Nil} /\ (q # Nil => color[q] # "free")
  <2>1. CASE q = thread BY <1>3, <2>1
  <2>2. CASE q # thread
    <3>1. q = field[t][3] /\ 3 \in Used(t, L) BY <1>4, <2>2
    <3> QED BY <1>4, <1>7, <3>1, Held
  <2> QED BY <2>1, <2>2
<1>12. p \in Threads \union {Nil} /\ (p # Nil => color[p] # "free")
  <2>1. CASE p = Nil BY <2>1
  <2>2. CASE p # Nil
    <3>1. p = field[thread][3] /\ 3 \in Used(thread, L) BY <1>5, <2>2
    <3> QED BY <1>3, <1>5, <1>7, <2>2, <3>1, Held
  <2> QED BY <2>1, <2>2
<1>13. kept # Nil => kept = frame /\ kept \in L /\ kept \in Frames /\ color[kept] # "free" BY <1>3
<1>14. v # Nil => v \in Values /\ v \in Obj /\ color[v] # "free" BY NamedIsThere
<1>15. field[stack] \in Seq(Values) /\ field[r] \in Seq(Values) BY <1>3, <1>4, StackHolds
<1>16. field'[r] \in Seq(Values) /\ Slots(field'[r]) \subseteq Slots(field[r]) \union ({v} \ {Nil})
  <2>1. CASE v = Nil BY <1>2, <1>15, <2>1
  <2>2. CASE v # Nil
    <3>1. field'[r] = Append(field[r], v) BY <1>2, <2>2
    <3> QED BY <1>14, <1>15, <2>2, <3>1, Pushed
  <2> QED BY <2>1, <2>2
<1>17. field'[stack] \in Seq(Values)
  <2>1. <<>> \in Seq(Values) OBVIOUS
  <2> QED BY <1>2, <1>15, <2>1
<1>18. TypeOK'
  <2>1. TypeOK BY DEF InvOf
  <2>2. field'[r] \in Seq(Obj \union {Nil}) /\ field'[stack] \in Seq(Obj \union {Nil})
    BY <1>16, <1>17, ValuesAreObjects
  <2>3. kept \in Obj \union {Nil} /\ p \in Obj \union {Nil} /\ q \in Obj \union {Nil}
    BY <1>11, <1>12, <1>13, Kinds
  <2>4. <<stack, kept, p>> \in Seq(Obj \union {Nil}) BY <1>7, <2>3
  <2>5. <<t, Main>> \in Seq(Obj \union {Nil}) BY <1>7
  <2>6. <<Nil, Nil, q>> \in Seq(Obj \union {Nil}) BY <2>3
  <2>7. \A o \in Obj : field'[o] \in Seq(Obj \union {Nil})
    <3> TAKE o \in Obj
    <3>1. CASE o \in {stack, thread, Process, t, r} BY <1>2, <2>2, <2>4, <2>5, <2>6, <3>1
    <3>2. CASE o \notin {stack, thread, Process, t, r} BY <1>2, <1>3, <3>2
    <3> QED BY <3>1, <3>2
  <2>8. field' \in [Obj -> Seq(Obj \union {Nil})] BY <1>2, <2>7
  <2>9. frame' \in Frames \union {Nil} BY <1>6
  <2> QED BY <1>1, <1>2, <1>4, <1>8, <2>1, <2>8, <2>9 DEF TypeOK, Color
<1>19. \A f \in Frames : field'[f] = field[f]
  <2>1. \A f \in Frames : f \in Obj \ {stack, thread, Process, t, r} BY <1>3, <1>4, Kinds
  <2> QED BY <1>2, <2>1
<1>20. \A f \in Frames : Caller(f)' = Caller(f) BY <1>19 DEF Caller
<1>21. \A u \in Threads \ {t, thread} : field'[u] = field[u]
  <2>1. \A u \in Threads \ {t, thread} : u \in Obj \ {stack, thread, Process, t, r} BY <1>3, <1>4, Kinds
  <2> QED BY <1>2, <2>1
<1>22. /\ \A u \in Threads \ {t, thread} : SavedStack(u)' = SavedStack(u) /\ SavedFrame(u)' = SavedFrame(u)
       /\ SavedStack(t)' = Nil /\ SavedFrame(t)' = Nil
       /\ \A u \in Threads : u = thread => SavedStack(u)' = stack /\ SavedFrame(u)' = kept
  BY <1>2, <1>21 DEF SavedStack, SavedFrame
<1>23. Unshared(L) /\ Lives(L) BY DEF InvOf
<1>24. \A u \in Threads \ {t} : SavedStack(u) # r BY <1>23 DEF Unshared
<1>25. \A u \in Threads : SavedStack(u) # stack BY <1>7, SavedIsThere
<1>26. Lives(L)'
  <2>1. \A f \in L : color'[f] # "free" /\ (Caller(f)' # Nil => Caller(f)' \in L)
    BY <1>9, <1>20, <1>23, Kinds DEF Lives
  <2>2. \A u \in Threads : SavedFrame(u)' # Nil => SavedFrame(u)' \in L
    BY <1>13, <1>22, <1>23 DEF Lives
  <2> QED BY <1>6, <2>1, <2>2 DEF Lives
<1>27. Unshared(L)'
  <2>1. \A u, w \in Threads : (u # w /\ SavedStack(u)' # Nil) => SavedStack(u)' # SavedStack(w)'
    <3>1. \A u, w \in Threads : (u # w /\ SavedStack(u) # Nil) => SavedStack(u) # SavedStack(w)
      BY <1>23 DEF Unshared
    <3> QED BY <1>22, <1>25, <3>1
  <2>2. /\ frame # Nil => (\A g \in L : Caller(g) # frame) /\ \A u \in Threads : SavedFrame(u) # frame
        /\ \A g, h \in L : (g # h /\ Caller(g) # Nil) => Caller(g) # Caller(h)
        /\ \A g \in L, u \in Threads : Caller(g) # Nil => Caller(g) # SavedFrame(u)
        /\ \A u, w \in Threads : (u # w /\ SavedFrame(u) # Nil) => SavedFrame(u) # SavedFrame(w)
    BY <1>23 DEF Unshared
  <2>3. \A u \in Threads : SavedFrame(u)' # Nil =>
          u # t /\ ((u = thread /\ SavedFrame(u)' = frame) \/ (u # thread /\ SavedFrame(u)' = SavedFrame(u)))
    BY <1>13, <1>22
  <2>4. frame' # Nil => (\A g \in L : Caller(g)' # frame') /\ \A u \in Threads : SavedFrame(u)' # frame'
    <3>1. frame' # Nil => frame' = SavedFrame(t) BY <1>2
    <3> QED BY <1>20, <2>2, <2>3, <3>1
  <2>5. \A g, h \in L : (g # h /\ Caller(g)' # Nil) => Caller(g)' # Caller(h)' BY <1>20, <2>2
  <2>6. \A g \in L, u \in Threads : Caller(g)' # Nil => Caller(g)' # SavedFrame(u)'
    BY <1>20, <2>2, <2>3
  <2>7. \A u, w \in Threads : (u # w /\ SavedFrame(u)' # Nil) => SavedFrame(u)' # SavedFrame(w)'
    BY <2>2, <2>3
  <2> QED BY <2>1, <2>4, <2>5, <2>6, <2>7 DEF Unshared
<1>28. Shape'
  <2>1. Shape BY DEF InvOf
  <2>2. \A o \in Obj : color'[o] = "free" => field'[o] = <<>>
    <3> TAKE o \in Obj
    <3>1. CASE o \in {stack, thread, Process, t, r} BY <1>3, <1>4, <1>9, <3>1
    <3>2. CASE o \notin {stack, thread, Process, t, r} BY <1>2, <1>9, <2>1, <3>2 DEF Shape
    <3> QED BY <3>1, <3>2
  <2>3. field'[Process] = <<thread', Main>> BY <1>2
  <2>4. color'[Process] \in {"grey", "black"} /\ partialObj' # Process BY <1>1, <1>7, <1>8, <2>1 DEF Shape
  <2>5. \A u \in Threads : color'[u] # "free" => field'[u] \in ThreadSlots'
    <3> SUFFICES ASSUME NEW u \in Threads, color'[u] # "free" PROVE field'[u] \in ThreadSlots'
      OBVIOUS
    <3>1. CASE u = thread
      <4>1. <<stack, kept, p>> \in ThreadSlots' BY <1>2, <1>3, <1>4, <1>12 DEF ThreadSlots
      <4> QED BY <1>2, <3>1, <4>1
    <3>2. CASE u = t
      <4>1. <<Nil, Nil, q>> \in ThreadSlots' BY <1>11 DEF ThreadSlots
      <4> QED BY <1>2, <3>2, <4>1
    <3>3. CASE u \notin {t, thread}
      <4>1. color[u] # "free" BY <1>9, Kinds
      <4>2. /\ field[u] = <<field[u][1], field[u][2], field[u][3]>>
            /\ field[u][1] = SavedStack(u) /\ field[u][1] \in (Stacks \ {stack}) \union {Nil}
            /\ field[u][2] \in Frames \union {Nil} /\ field[u][3] \in Threads \union {Nil}
        BY <4>1, ThreadHolds
      <4>3. field[u][1] # r BY <1>24, <3>3, <4>2
      <4>4. <<field[u][1], field[u][2], field[u][3]>> \in ThreadSlots' BY <1>2, <4>2, <4>3 DEF ThreadSlots
      <4> QED BY <1>21, <3>3, <4>2, <4>4
    <3> QED BY <3>1, <3>2, <3>3
  <2>6. \A f \in Frames : color'[f] # "free" => field'[f] \in FrameSlots(f)
    BY <1>9, <1>19, <2>1, Kinds DEF Shape
  <2>7. \A o \in Arrays \union Stacks : field'[o] \in Seq(Values)
    <3> TAKE o \in Arrays \union Stacks
    <3>1. CASE o \in {stack, r} BY <1>16, <1>17, <3>1
    <3>2. CASE o \notin {stack, r}
      <4>1. o \in Obj \ {stack, thread, Process, t, r} BY <1>3, <3>2, Kinds
      <4> QED BY <1>2, <2>1, <4>1 DEF Shape
    <3> QED BY <3>1, <3>2
  <2> QED BY <2>2, <2>3, <2>4, <2>5, <2>6, <2>7 DEF Shape, FrameSlots
<1>29. Rooted' BY <1>1 DEF Rooted
<1>30. \A o \in Obj \ {stack, thread, Process, t, r} : field'[o] = field[o] /\ Used(o, L)' = Used(o, L)
  BY <1>2 DEF Used
<1>31. color[Main] # "free" /\ 2 \in Used(Process, L) /\ field[Process][2] = Main
  <2>1. field[Process] = <<thread, Main>> BY DEF InvOf, Shape
  <2>2. 2 \in Used(Process, L) /\ field[Process][2] = Main BY <2>1, Kinds DEF Used
  <2> QED BY <1>3, <1>7, <2>2, Held
<1>32. \A o \in Obj : \A i \in Used(o, L)' : i \in DOMAIN field'[o] BY DEF Used
<1>33. Kept(L)'
  <2>1. ASSUME NEW o \in Obj, color'[o] # "free", NEW i \in Used(o, L)', field'[o][i] # Nil
        PROVE  color'[field'[o][i]] # "free"
    <3>1. i \in DOMAIN field'[o] BY <1>32
    <3>2. CASE o = stack
      <4>1. i \in DOMAIN field[stack] /\ field'[o][i] = field[stack][i] BY <1>2, <3>1, <3>2
      <4>2. field[stack][i] \in Obj /\ color[field[stack][i]] # "free" BY <1>3, <4>1, StackHolds
      <4> QED BY <1>9, <4>1, <4>2
    <3>3. CASE o = r
      <4>1. field'[o][i] \in Slots(field[r]) \union ({v} \ {Nil}) BY <1>16, <3>1, <3>3 DEF Slots
      <4>2. \A x \in Slots(field[r]) : x \in Obj /\ color[x] # "free" BY <1>4, StackHolds DEF Slots
      <4>3. field'[o][i] \in Obj /\ color[field'[o][i]] # "free" BY <1>14, <4>1, <4>2
      <4> QED BY <1>9, <4>3
    <3>4. CASE o = thread
      <4>1. field'[o][i] \in {stack, kept, p} BY <1>2, <3>1, <3>4
      <4> QED BY <1>3, <1>7, <1>9, <1>12, <1>13, <2>1, <4>1, Kinds
    <3>5. CASE o = Process
      <4>1. field'[o][i] \in {t, Main} BY <1>2, <3>1, <3>5
      <4> QED BY <1>7, <1>9, <1>31, <4>1
    <3>6. CASE o = t
      <4>1. field'[o][i] \in {Nil, q} BY <1>2, <3>1, <3>6
      <4> QED BY <1>9, <1>11, <2>1, <4>1, Kinds
    <3>7. CASE o \notin {stack, thread, Process, t, r}
      <4>1. field'[o] = field[o] /\ i \in Used(o, L) /\ color[o] # "free" BY <1>9, <1>30, <2>1, <3>7
      <4>2. i \in DOMAIN field[o] BY <3>1, <4>1
      <4>3. field[o][i] \in Obj BY <2>1, <4>1, <4>2, Slot
      <4> QED BY <1>9, <2>1, <4>1, <4>3, Held
    <3> QED BY <3>2, <3>3, <3>4, <3>5, <3>6, <3>7
  <2>2. \A o \in {Process, thread', stack', frame'} \ {Nil} : color'[o] # "free"
    BY <1>2, <1>3, <1>4, <1>6, <1>7, <1>9, Kinds
  <2> QED BY <2>1, <2>2 DEF Kept
<1>34. Dark(L)'
  <2> SUFFICES ASSUME NEW o \in Obj \ {r}, color'[o] = "black", NEW i \in Used(o, L)',
                      o = partialObj => i < partialSlot, field'[o][i] # Nil
               PROVE  color'[field'[o][i]] # "white"
    BY <1>1, <1>2 DEF Dark, Scanned
  <2>1. o # stack /\ color[o] = "black" /\ i \in DOMAIN field'[o] BY <1>8, <1>32
  <2>2. \A j \in Used(o, L) : (o = partialObj => j < partialSlot) =>
          field[o][j] = Nil \/ color[field[o][j]] # "white"
    BY <2>1 DEF InvOf, Dark, Scanned
  <2>3. CASE o = thread
    <3>1. field'[o] = <<stack, kept, p>> BY <1>2, <2>3
    <3>2. CASE i \in {1, 2}
      <4>1. field'[o][i] \in {stack, kept} BY <3>1, <3>2
      <4> QED BY <1>8, <2>1, <2>3, <4>1
    <3>3. CASE i \notin {1, 2}
      <4>1. i = 3 /\ field'[o][i] = p BY <2>1, <3>1, <3>3
      <4>2. p # Nil /\ p = field[thread][3] BY <2>1, <4>1
      <4>3. p \in Obj /\ p # stack BY <1>7, <1>12, <4>2, Kinds
      <4>4. color[p] # "white" BY <1>5, <2>2, <2>3, <4>1, <4>2
      <4> QED BY <1>10, <4>1, <4>3, <4>4
    <3> QED BY <3>2, <3>3
  <2>4. CASE o = Process
    <3>1. field'[o] = <<t, Main>> BY <1>2, <2>4
    <3>2. CASE i = 1 BY <1>8, <2>1, <2>4, <3>1, <3>2
    <3>3. CASE i # 1
      <4>1. i = 2 /\ field'[o][i] = Main BY <2>1, <3>1, <3>3
      <4>2. color[Main] # "white" BY <1>7, <1>31, <2>2, <2>4, <4>1
      <4> QED BY <1>7, <1>10, <4>1, <4>2
    <3> QED BY <3>2, <3>3
  <2>5. CASE o = t
    <3>1. field'[o] = <<Nil, Nil, q>> BY <1>2, <2>5
    <3>2. i = 3 /\ field'[o][i] = q BY <2>1, <3>1
    <3>3. CASE q = field[t][3]
      <4>1. color[q] # "white" BY <1>4, <2>2, <2>5, <3>2, <3>3
      <4>2. q \in Obj \ {stack} BY <1>11, <3>2, <1>3, Kinds
      <4> QED BY <1>10, <3>2, <4>1, <4>2
    <3>4. CASE q # field[t][3]
      <4>1. q = thread /\ c[thread] # "white" BY <2>1, <2>5, <3>4
      <4> QED BY <1>8, <3>2, <4>1
    <3> QED BY <3>3, <3>4
  <2>6. CASE o \notin {stack, thread, Process, t, r}
    <3>1. field'[o] = field[o] /\ i \in Used(o, L) BY <1>30, <2>6
    <3>2. i \in DOMAIN field[o] BY <2>1, <3>1
    <3>3. field[o][i] \in Obj BY <3>1, <3>2, Slot
    <3>4. color[field[o][i]] # "white" BY <2>2, <3>1
    <3>5. field[o][i] # stack
      <4> SUFFICES ASSUME field[o][i] = stack PROVE FALSE OBVIOUS
      <4>1. stack \notin Values /\ stack \notin Frames BY <1>3, ValueKinds, Kinds
      <4>2. field[o][i] # Nil BY <3>1
      <4>3. field[o][i] \in Values \union (Stacks \ {stack}) \union Frames BY <3>1, <4>2, Refers
      <4> QED BY <4>1, <4>3
    <3> QED BY <1>10, <3>1, <3>3, <3>4, <3>5
  <2> QED BY <2>1, <2>3, <2>4, <2>5, <2>6
<1> QED BY <1>18, <1>26, <1>27, <1>28, <1>29, <1>33, <1>34 DEF InvOf

LEMMA SwitchToThreadSafe ==
  ASSUME NEW L \in SUBSET Frames, InvOf(L), mode = "run", NEW t \in Threads \ {thread}, color[t] # "free",
         SavedStack(t) # Nil, NEW done \in BOOLEAN, NEW v,
         NEW c \in [Obj -> Color], \A o \in Obj : c[o] = color[o] \/ (color[o] = "white" /\ c[o] = "grey"),
         NEW f, DOMAIN f = Obj, \A o \in Obj \ {t, thread} : f[o] = field[o],
         f[thread][3] \in {field[thread][3], Nil},
         f[t][3] = field[t][3] \/ (f[t][3] = thread /\ (color[t] = "black" => c[thread] # "white")),
         SwitchToThread(c, f, t, done, v),
         returning' \in Frames \union {Nil}, UNCHANGED <<collector, scan>>
  PROVE  InvOf(L)'
PROOF
<1>1. PICK r : r = SavedStack(t) OBVIOUS
<1>2. r \in Stacks \ {stack} /\ field[t][1] = r /\ field[t][2] = SavedFrame(t)
  BY <1>1, SavedIsThere, ThreadHolds
<1>3. /\ v \in Named \union {Nil}
      /\ field' = [f EXCEPT ![stack] = IF done THEN <<>> ELSE @,
                            ![thread] = IF done THEN <<stack, Nil, Nil>> ELSE <<stack, frame, @[3]>>,
                            ![Process] = <<t, Main>>, ![t] = <<Nil, Nil, @[3]>>,
                            ![r] = IF v = Nil THEN @ ELSE Append(@, v)]
      /\ color' = [GCWrite(SaveThread(c, done), Process, t) EXCEPT ![r] = "black"]
      /\ thread' = t /\ stack' = r /\ frame' = SavedFrame(t)
  BY <1>2 DEF SwitchToThread
<1>4. /\ {stack, r, t, thread, Process} \subseteq Obj
      /\ Process \notin {stack, r, t, thread} /\ t \notin {stack, r} /\ thread \notin {stack, r}
      /\ t # thread /\ r # stack
  BY <1>2, Registers, Kinds
<1>5. PICK kept \in {frame, Nil} : kept = IF done THEN Nil ELSE frame OBVIOUS
<1>6. PICK p \in {field[thread][3], Nil} : p = IF done THEN Nil ELSE f[thread][3] OBVIOUS
<1>7. PICK q : q = f[t][3] OBVIOUS
<1>8. Recolored(c, t, r, kept)
  <2>1. Recolored(c, t, r, IF done THEN Nil ELSE frame) BY <1>2, <1>3, SwitchColors
  <2> QED BY <1>5, <2>1
<1>9. f[stack] = field[stack] /\ f[r] = field[r] /\ f[Process] = field[Process] BY <1>4
<1>10. field'[stack] = (IF done THEN <<>> ELSE f[stack])
       /\ field'[thread] = (IF done THEN <<stack, Nil, Nil>> ELSE <<stack, frame, f[thread][3]>>)
       /\ field'[Process] = <<t, Main>> /\ field'[t] = <<Nil, Nil, f[t][3]>>
       /\ field'[r] = (IF v = Nil THEN f[r] ELSE Append(f[r], v))
       /\ \A o \in Obj \ {stack, thread, Process, t, r} : field'[o] = f[o]
  BY <1>3, <1>4
<1>11. field' = [o \in Obj |-> field'[o]] BY <1>3
<1>12. field'[thread] = <<stack, kept, p>> BY <1>5, <1>6, <1>10
<1>13. Switched(t, r, kept, p, q, v) BY <1>3, <1>7, <1>9, <1>10, <1>11, <1>12 DEF Switched
<1>14. q = field[t][3] \/ (q = thread /\ (color[t] = "black" => c[thread] # "white")) BY <1>7
<1>15. r = SavedStack(t) /\ r # Nil /\ v \in Named \union {Nil} BY <1>1, <1>3
<1> QED BY <1>8, <1>13, <1>14, <1>15, SwitchSafe

\* A thread goes on under the one that resumes it.
LEMMA ResumeSafe ==
  ASSUME NEW L \in SUBSET Frames, InvOf(L), NEW t \in Threads, NEW v, Resume(t, v) PROVE InvOf(L)'
PROOF
<1> DEFINE c == GCWrite(color, t, thread)
           f == [field EXCEPT ![t][3] = IF @ = Nil THEN thread ELSE @]
<1>1. /\ mode = "run" /\ returning = Nil /\ t \in Named /\ t # thread
      /\ field[t] # <<>> /\ field[t][1] # Nil
      /\ SwitchToThread(c, f, t, FALSE, v)
      /\ UNCHANGED <<collector, scan>> /\ returning' = returning
  BY DEF Resume, Running, Waiting
<1>2. color[t] # "free" /\ SavedStack(t) # Nil /\ t \in Obj /\ thread \in Obj /\ t \in Threads \ {thread}
  BY <1>1, NamedIsThere, Registers DEF SavedStack
<1>3. color \in [Obj -> Color] /\ field \in [Obj -> Seq(Obj \union {Nil})] BY Registers
<1>4. c \in [Obj -> Color] /\ (\A o \in Obj : c[o] = color[o] \/ (color[o] = "white" /\ c[o] = "grey"))
      /\ (color[t] = "black" => c[thread] # "white")
  BY <1>2, <1>3 DEF GCWrite, ToGrey, Color
<1>5. DOMAIN f = Obj /\ \A o \in Obj \ {t} : f[o] = field[o] BY <1>2, <1>3
<1>6. f[t][3] = IF field[t][3] = Nil THEN thread ELSE field[t][3]
  <2>1. 3 \in DOMAIN field[t] BY <1>2, ThreadHolds
  <2> QED BY <1>2, <1>3, <2>1
<1> HIDE DEF c, f
<1>7. f[thread][3] = field[thread][3] /\ \A o \in Obj \ {t, thread} : f[o] = field[o]
  BY <1>2, <1>5
<1>8. returning' \in Frames \union {Nil} BY <1>1
<1>9. FALSE \in BOOLEAN OBVIOUS
<1> QED BY <1>1, <1>2, <1>4, <1>5, <1>6, <1>7, <1>8, <1>9, SwitchToThreadSafe

\* A thread goes back to its parent, which it forgets.
LEMMA YieldSafe ==
  ASSUME NEW L \in SUBSET Frames, InvOf(L), NEW done \in BOOLEAN, NEW v, Yield(done, v) PROVE InvOf(L)'
PROOF
<1> DEFINE f == [field EXCEPT ![thread][3] = Nil]
<1>1. /\ mode = "run" /\ returning = Nil /\ Suspended(field[thread][3])
      /\ SwitchToThread(color, f, field[thread][3], done, v)
      /\ UNCHANGED <<collector, scan>> /\ returning' = returning
  BY DEF Yield, Running
<1>2. PICK t \in Threads : t = field[thread][3] BY <1>1 DEF Suspended, Waiting
<1>3. t # thread /\ field[t] # <<>> /\ field[t][1] # Nil BY <1>1, <1>2 DEF Suspended, Waiting
<1>4. color[t] # "free" /\ SavedStack(t) # Nil /\ t \in Threads \ {thread} /\ thread \in Obj
  BY <1>3, Kinds, Registers DEF SavedStack, InvOf, Shape
<1>5. color \in [Obj -> Color] /\ field \in [Obj -> Seq(Obj \union {Nil})] BY Registers
<1>6. DOMAIN f = Obj /\ (\A o \in Obj \ {thread} : f[o] = field[o]) /\ f[thread][3] = Nil
  <2>1. 3 \in DOMAIN field[thread] BY Registers, ThreadHolds
  <2> QED BY <1>4, <1>5, <2>1
<1> HIDE DEF f
<1>7. f[t] = field[t] BY <1>2, <1>3, <1>6, Kinds
<1>8. returning' \in Frames \union {Nil} BY <1>1
<1> QED BY <1>1, <1>2, <1>4, <1>5, <1>6, <1>7, <1>8, SwitchToThreadSafe

\* The search for the frame goes on in the parent, which is not forgotten.
LEMMA ReturnInParentSafe ==
  ASSUME NEW L \in SUBSET Frames, InvOf(L), NEW v, ReturnInParent(v) PROVE InvOf(L)'
PROOF
<1>1. /\ mode = "run" /\ frame # Nil /\ Suspended(field[thread][3])
      /\ SwitchToThread(color, field, field[thread][3], FALSE, v)
      /\ UNCHANGED <<collector, scan>> /\ returning' = Home
  BY DEF ReturnInParent
<1>2. PICK t \in Threads : t = field[thread][3] BY <1>1 DEF Suspended, Waiting
<1>3. t # thread /\ field[t] # <<>> /\ field[t][1] # Nil BY <1>1, <1>2 DEF Suspended, Waiting
<1>4. color[t] # "free" /\ SavedStack(t) # Nil /\ t \in Threads \ {thread}
  BY <1>3, Kinds DEF SavedStack, InvOf, Shape
<1>5. color \in [Obj -> Color] /\ DOMAIN field = Obj BY Registers
<1>6. returning' \in Frames \union {Nil} BY <1>1, HomeIsFrame
<1>7. FALSE \in BOOLEAN OBVIOUS
<1> QED BY <1>1, <1>2, <1>4, <1>5, <1>6, <1>7, SwitchToThreadSafe

----------------------------------------------------------------------------
\* The steps of the collector.

\* A step that only greys white objects and blackens grey ones.
LEMMA Advance ==
  ASSUME NEW L \in SUBSET Frames, InvOf(L), UNCHANGED <<field, registers, flips>>,
         color' \in [Obj -> Color],
         \A o \in Obj :
           \/ color'[o] = color[o]
           \/ color[o] = "white" /\ color'[o] = "grey"
           \/ color[o] # "free" /\ color'[o] = "black",
         partialObj' \in (Obj \union {Nil}) \ {Process}, partialSlot' \in Nat \ {0},
         mode' \in {"run", "collect", "scanned"},
         Dark(L)', Rooted'
  PROVE  InvOf(L)'
PROOF
<1>1. field' = field /\ thread' = thread /\ stack' = stack /\ frame' = frame /\ flips' = flips
      /\ returning' = returning
  BY DEF registers
<1>2. \A o \in Obj : color'[o] = "free" <=> color[o] = "free" OBVIOUS
<1>3. TypeOK' BY <1>1 DEF InvOf, TypeOK, Color
<1>4. Shape'
  <2>1. color'[Process] \in {"grey", "black"} /\ partialObj' # Process
    <3>1. color[Process] \in {"grey", "black"} BY DEF InvOf, Shape
    <3> QED BY <3>1, Kinds
  <2>2. \A o \in Obj : color'[o] = "free" => field'[o] = <<>> BY <1>1, <1>2 DEF InvOf, Shape
  <2>3. field'[Process] = <<thread', Main>> BY <1>1 DEF InvOf, Shape
  <2>4. \A t \in Threads : color'[t] # "free" => field'[t] \in ThreadSlots'
    BY <1>1, <1>2, Kinds DEF InvOf, Shape, ThreadSlots
  <2>5. \A f \in Frames : color'[f] # "free" => field'[f] \in FrameSlots(f)
    BY <1>1, <1>2, Kinds DEF InvOf, Shape
  <2>6. \A o \in Arrays \union Stacks : field'[o] \in Seq(Values) BY <1>1 DEF InvOf, Shape
  <2> QED BY <2>1, <2>2, <2>3, <2>4, <2>5, <2>6 DEF Shape, FrameSlots
<1>5. \A f \in Frames : Caller(f)' = Caller(f) BY <1>1 DEF Caller
<1>6. \A t \in Threads : SavedStack(t)' = SavedStack(t) /\ SavedFrame(t)' = SavedFrame(t)
  BY <1>1 DEF SavedStack, SavedFrame
<1>7. Unshared(L)' BY <1>1, <1>5, <1>6 DEF InvOf, Unshared
<1>8. Lives(L)' BY <1>1, <1>2, <1>5, <1>6, Kinds DEF InvOf, Lives
<1>9. Kept(L)'
  <2>1. ASSUME NEW o \in Obj, color'[o] # "free", NEW i \in Used(o, L)', field'[o][i] # Nil
        PROVE  color'[field'[o][i]] # "free"
    <3>1. i \in Used(o, L) BY <1>1, <2>1 DEF Used
    <3>2. i \in DOMAIN field[o] BY <3>1 DEF Used
    <3>3. field[o][i] \in Obj BY <1>1, <2>1, <3>2, Slot
    <3> QED BY <1>1, <1>2, <2>1, <3>1, <3>3, Held
  <2>2. \A o \in {Process, thread', stack', frame'} \ {Nil} : color'[o] # "free"
    BY <1>1, <1>2, Registers
  <2> QED BY <2>1, <2>2 DEF Kept
<1> QED BY <1>3, <1>4, <1>7, <1>8, <1>9 DEF InvOf

\* What is scanned is not white afterwards.
LEMMA Greyed ==
  ASSUME NEW c \in [Obj -> Color], NEW S
  PROVE  /\ ToGrey(c, S) \in [Obj -> Color]
         /\ \A o \in Obj : ToGrey(c, S)[o] = IF o \in S /\ c[o] = "white" THEN "grey" ELSE c[o]
PROOF BY DEF ToGrey, Color

\* The roots stay scanned while nothing becomes white.
LEMMA StillRooted ==
  ASSUME NEW L \in SUBSET Frames, InvOf(L), field' = field, stack' = stack, frame' = frame,
         mode' \in {"run", mode}, \A o \in Obj : color[o] # "white" => color'[o] # "white"
  PROVE  Rooted'
PROOF
<1> SUFFICES ASSUME mode = "scanned"
             PROVE  /\ \A v \in OnStack : color'[v] # "white"
                    /\ frame # Nil => color'[frame] # "white"
  BY DEF Rooted, OnStack
<1>1. OnStack \subseteq Obj BY Registers, StackHolds, ValuesAreObjects, ValueKinds DEF OnStack
<1> QED BY <1>1, Registers DEF InvOf, Rooted

LEMMA ScanOneObjSafe == ASSUME NEW L \in SUBSET Frames, InvOf(L), NEW o \in Obj, ScanOneObj(o) PROVE InvOf(L)'
PROOF
<1> DEFINE c == [color EXCEPT ![o] = "black"]
           n == Len(field[o])
<1>1. /\ mode # "run" /\ partialObj = Nil /\ color[o] = "grey" /\ UNCHANGED <<field, registers, flips>>
      /\ \E j \in {n} \union (IF o \in Large THEN 1 .. n ELSE {}) : ScanSlots(c, o, 1, j)
  BY DEF ScanOneObj, Grey
<1>2. field \in [Obj -> Seq(Obj \union {Nil})] /\ mode \in {"run", "collect", "scanned"}
      /\ color \in [Obj -> Color] /\ stack \in Stacks
  BY DEF InvOf, TypeOK, Color
<1>3. n \in Nat /\ DOMAIN field[o] = 1 .. n BY <1>2
<1>4. PICK j \in Nat : ScanSlots(c, o, 1, j) /\ (j < n => o \in Large) BY <1>1, <1>3
<1> DEFINE S == {field[o][k] : k \in (1 .. j) \intersect DOMAIN field[o]}
<1>5. /\ color' = ToGrey(c, S)
      /\ IF j >= n
         THEN partialObj' = Nil /\ partialSlot' = 1 /\ UNCHANGED mode
         ELSE partialObj' = o /\ partialSlot' = j + 1 /\ mode' = "run"
  BY <1>4 DEF ScanSlots
<1>6. c \in [Obj -> Color] /\ c[o] = "black" /\ \A p \in Obj \ {o} : c[p] = color[p]
  BY <1>2 DEF Color
<1>7. \A k \in 1 .. n : k <= j => field[o][k] \in S BY <1>3, <1>4
<1> HIDE DEF c, S, n
<1>8. /\ color' \in [Obj -> Color]
      /\ \A p \in Obj : color'[p] = IF p \in S /\ c[p] = "white" THEN "grey" ELSE c[p]
  BY <1>5, <1>6, Greyed
<1>9. \A p \in Obj : /\ \/ color'[p] = color[p]
                        \/ color[p] = "white" /\ color'[p] = "grey"
                        \/ color[p] # "free" /\ color'[p] = "black"
                     /\ color[p] # "white" => color'[p] # "white"
                     /\ color'[p] = "black" => p = o \/ color[p] = "black"
                     /\ p \in S => color'[p] # "white"
  BY <1>1, <1>6, <1>8
<1>10. partialObj' \in (Obj \union {Nil}) \ {Process} /\ partialSlot' \in Nat \ {0}
       /\ mode' \in {"run", "collect", "scanned"} /\ mode' \in {"run", mode}
  BY <1>2, <1>3, <1>4, <1>5, Kinds
<1>11. field' = field /\ stack' = stack /\ frame' = frame BY <1>1 DEF registers
<1>12. Dark(L)'
  <2> SUFFICES ASSUME NEW p \in Obj \ {stack}, color'[p] = "black", NEW i \in Used(p, L),
                      p = partialObj' => i < partialSlot', field[p][i] # Nil
               PROVE  color'[field[p][i]] # "white"
    BY <1>11 DEF Dark, Scanned, Used
  <2>1. i \in DOMAIN field[p] BY DEF Used
  <2>2. field[p][i] \in Obj BY <2>1, Slot
  <2>3. CASE p = o
    <3>1. i \in 1 .. n /\ i <= j BY <1>3, <1>4, <1>5, <2>1, <2>3
    <3>2. field[p][i] \in S BY <1>7, <2>3, <3>1
    <3> QED BY <1>9, <2>2, <3>2
  <2>4. CASE p # o
    <3>1. color[p] = "black" /\ p # partialObj BY <1>1, <1>9, <2>4, Kinds
    <3>2. color[field[p][i]] # "white" BY <3>1 DEF InvOf, Dark, Scanned
    <3> QED BY <1>9, <2>2, <3>2
  <2> QED BY <2>3, <2>4
<1>13. Rooted'
  <2>1. \A p \in Obj : color[p] # "white" => color'[p] # "white" BY <1>9
  <2> QED BY <1>10, <1>11, <2>1, StillRooted
<1>14. \A p \in Obj :
         \/ color'[p] = color[p]
         \/ color[p] = "white" /\ color'[p] = "grey"
         \/ color[p] # "free" /\ color'[p] = "black"
  BY <1>9
<1> QED BY <1>1, <1>8, <1>10, <1>12, <1>13, <1>14, Advance

LEMMA DoPartialScanSafe == ASSUME NEW L \in SUBSET Frames, InvOf(L), DoPartialScan PROVE InvOf(L)'
PROOF
<1> DEFINE o == partialObj
           n == Len(field[o])
<1>1. /\ mode # "run" /\ o # Nil /\ UNCHANGED <<field, registers, flips>>
      /\ \E j \in partialSlot .. partialSlot + n : ScanSlots(color, o, partialSlot, j)
  BY DEF DoPartialScan
<1>2. field \in [Obj -> Seq(Obj \union {Nil})] /\ mode \in {"run", "collect", "scanned"}
      /\ color \in [Obj -> Color] /\ stack \in Stacks /\ o \in Obj /\ partialSlot \in Nat \ {0}
      /\ o # Process
  BY <1>1 DEF InvOf, TypeOK, Shape, Color
<1>3. n \in Nat /\ DOMAIN field[o] = 1 .. n BY <1>2
<1>4. PICK j \in Nat : j >= partialSlot /\ ScanSlots(color, o, partialSlot, j) BY <1>1, <1>2, <1>3
<1> DEFINE S == {field[o][k] : k \in (partialSlot .. j) \intersect DOMAIN field[o]}
<1>5. /\ color' = ToGrey(color, S)
      /\ IF j >= n
         THEN partialObj' = Nil /\ partialSlot' = 1 /\ UNCHANGED mode
         ELSE partialObj' = o /\ partialSlot' = j + 1 /\ mode' = "run"
  BY <1>4 DEF ScanSlots
<1>6. \A k \in 1 .. n : (partialSlot <= k /\ k <= j) => field[o][k] \in S BY <1>2, <1>3, <1>4
<1> HIDE DEF S, n
<1>7. /\ color' \in [Obj -> Color]
      /\ \A p \in Obj : color'[p] = IF p \in S /\ color[p] = "white" THEN "grey" ELSE color[p]
  BY <1>2, <1>5, Greyed
<1>8. \A p \in Obj : /\ \/ color'[p] = color[p]
                        \/ color[p] = "white" /\ color'[p] = "grey"
                        \/ color[p] # "free" /\ color'[p] = "black"
                     /\ color[p] # "white" => color'[p] # "white"
                     /\ color'[p] = "black" => color[p] = "black"
                     /\ p \in S => color'[p] # "white"
  BY <1>7
<1>9. partialObj' \in (Obj \union {Nil}) \ {Process} /\ partialSlot' \in Nat \ {0}
       /\ mode' \in {"run", "collect", "scanned"} /\ mode' \in {"run", mode}
  BY <1>2, <1>4, <1>5, Kinds
<1>10. field' = field /\ stack' = stack /\ frame' = frame BY <1>1 DEF registers
<1>11. Dark(L)'
  <2> SUFFICES ASSUME NEW p \in Obj \ {stack}, color'[p] = "black", NEW i \in Used(p, L),
                      p = partialObj' => i < partialSlot', field[p][i] # Nil
               PROVE  color'[field[p][i]] # "white"
    BY <1>10 DEF Dark, Scanned, Used
  <2>1. i \in DOMAIN field[p] /\ color[p] = "black" BY <1>8 DEF Used
  <2>2. field[p][i] \in Obj BY <2>1, Slot
  <2>3. CASE p = o /\ i >= partialSlot
    <3>1. i \in 1 .. n /\ i <= j BY <1>2, <1>3, <1>4, <1>5, <2>1, <2>3
    <3>2. field[p][i] \in S BY <1>2, <1>6, <2>3, <3>1
    <3> QED BY <1>8, <2>2, <3>2
  <2>4. CASE p = o => i < partialSlot
    <3>1. color[field[p][i]] # "white" BY <2>1, <2>4 DEF InvOf, Dark, Scanned
    <3> QED BY <1>8, <2>2, <3>1
  <2>5. p = o => i \in Nat BY <1>3, <2>1
  <2> QED BY <1>2, <2>3, <2>4, <2>5
<1>12. Rooted'
  <2>1. \A p \in Obj : color[p] # "white" => color'[p] # "white" BY <1>8
  <2> QED BY <1>9, <1>10, <2>1, StillRooted
<1>13. \A p \in Obj :
         \/ color'[p] = color[p]
         \/ color[p] = "white" /\ color'[p] = "grey"
         \/ color[p] # "free" /\ color'[p] = "black"
  BY <1>8
<1> QED BY <1>1, <1>7, <1>9, <1>11, <1>12, <1>13, Advance

LEMMA ScanRootsSafe == ASSUME NEW L \in SUBSET Frames, InvOf(L), ScanRoots PROVE InvOf(L)'
PROOF
<1> DEFINE S == OnStack \union Chain
<1>1. /\ color' = ToGrey(color, S) /\ mode' = "scanned" /\ UNCHANGED <<field, registers, scan, flips>>
  BY DEF ScanRoots
<1>2. color \in [Obj -> Color] /\ partialObj \in (Obj \union {Nil}) \ {Process}
      /\ partialSlot \in Nat \ {0}
  BY DEF InvOf, TypeOK, Shape, Color
<1>3. frame # Nil => frame \in S BY Registers DEF Chain, CallersTo
<1>4. OnStack \subseteq S OBVIOUS
<1> HIDE DEF S
<1>5. /\ color' \in [Obj -> Color]
      /\ \A p \in Obj : color'[p] = IF p \in S /\ color[p] = "white" THEN "grey" ELSE color[p]
  BY <1>1, <1>2, Greyed
<1>6. partialObj' = partialObj /\ partialSlot' = partialSlot /\ field' = field /\ stack' = stack
      /\ frame' = frame
  BY <1>1 DEF scan, registers
<1>7. Dark(L)'
  <2> SUFFICES ASSUME NEW p \in Obj \ {stack}, color'[p] = "black", NEW i \in Used(p, L),
                      p = partialObj => i < partialSlot, field[p][i] # Nil
               PROVE  color'[field[p][i]] # "white"
    BY <1>6 DEF Dark, Scanned, Used
  <2>1. i \in DOMAIN field[p] /\ color[p] = "black" BY <1>5 DEF Used
  <2>2. field[p][i] \in Obj BY <2>1, Slot
  <2>3. color[field[p][i]] # "white" BY <2>1 DEF InvOf, Dark, Scanned
  <2> QED BY <1>5, <2>2, <2>3
<1>8. Rooted'
  <2>1. OnStack \subseteq Obj BY Registers, StackHolds, ValuesAreObjects, ValueKinds DEF OnStack
  <2>2. OnStack' = OnStack BY <1>6 DEF OnStack
  <2> QED BY <1>3, <1>4, <1>5, <1>6, <2>1, <2>2, Registers DEF Rooted
<1>9. \A p \in Obj :
         \/ color'[p] = color[p]
         \/ color[p] = "white" /\ color'[p] = "grey"
         \/ color[p] # "free" /\ color'[p] = "black"
  BY <1>5
<1>10. partialObj' \in (Obj \union {Nil}) \ {Process} /\ partialSlot' \in Nat \ {0} BY <1>2, <1>6
<1> QED BY <1>1, <1>5, <1>7, <1>8, <1>9, <1>10, Advance

\* Only the mode changes, and not to "scanned".
LEMMA ModeSafe == ASSUME NEW L \in SUBSET Frames, InvOf(L), BeginCollect \/ StopCollect PROVE InvOf(L)'
PROOF
<1>1. UNCHANGED <<heap, registers, scan, flips>> /\ mode' \in {"run", "collect"}
  BY DEF BeginCollect, StopCollect
<1>2. color' = color /\ field' = field /\ stack' = stack /\ partialObj' = partialObj
      /\ partialSlot' = partialSlot /\ UNCHANGED <<field, registers, flips>>
  BY <1>1 DEF heap, registers, scan
<1>3. TypeOK /\ partialObj # Process BY DEF InvOf, Shape
<1>4. /\ color' \in [Obj -> Color] /\ partialObj' \in (Obj \union {Nil}) \ {Process}
      /\ partialSlot' \in Nat \ {0} /\ mode' \in {"run", "collect", "scanned"}
  BY <1>1, <1>2, <1>3 DEF TypeOK, Color
<1>5. \A p \in Obj :
        \/ color'[p] = color[p]
        \/ color[p] = "white" /\ color'[p] = "grey"
        \/ color[p] # "free" /\ color'[p] = "black"
  BY <1>2
<1>6. Dark(L)' BY <1>2 DEF InvOf, Dark, Scanned, Used
<1>7. Rooted' BY <1>1 DEF Rooted
<1> QED BY <1>2, <1>4, <1>5, <1>6, <1>7, Advance

\* The white objects are freed.  What is not freed was black, so it refers to no white
\* object; the process, the stack and the registers refer to none either.
LEMMA FlipSafe ==
  ASSUME NEW L \in SUBSET Frames, InvOf(L), Flip PROVE \E M \in SUBSET L : InvOf(M)'
PROOF
<1>1. /\ mode = "scanned" /\ Grey = {} /\ partialObj = Nil /\ mode' = "run"
      /\ color' = [o \in Obj |-> Flipped(o)]
      /\ field' = [o \in Obj |-> IF color'[o] = "free" THEN <<>> ELSE field[o]]
      /\ flips' = (flips + 1) % MajorEvery
  BY DEF Flip, Idle
<1>2. thread' = thread /\ stack' = stack /\ frame' = frame /\ partialObj' = partialObj
      /\ partialSlot' = partialSlot /\ returning' = returning
  BY DEF Flip, registers, scan
<1>3. field \in [Obj -> Seq(Obj \union {Nil})] /\ color \in [Obj -> Color] /\ flips \in Nat
      /\ stack \in Stacks /\ thread \in Threads
  BY KindsAssumption DEF InvOf, TypeOK, Color
<1>4. Process # stack /\ Process \in Obj /\ stack \in Obj /\ thread \in Obj /\ thread \notin {Process, stack}
  BY <1>3, Kinds
<1>5. \A o \in Obj : color[o] \in {"white", "black", "free"} BY <1>1, <1>3 DEF Grey, Color
<1>6. color[Process] = "black" BY <1>4, <1>5 DEF InvOf, Shape
<1>7. /\ color'[Process] = "grey" /\ color'[stack] = "black"
      /\ \A o \in Obj \ {Process, stack} :
           /\ color[o] = "black" => color'[o] = IF flips = 0 THEN "white" ELSE "black"
           /\ color[o] # "black" => color'[o] = "free"
  BY <1>1, <1>3, <1>4, <1>5 DEF Flipped
<1>8. color' \in [Obj -> Color]
  <2>1. \A o \in Obj : color'[o] \in Color BY <1>7 DEF Color
  <2> QED BY <1>1, <2>1
<1>9. \A o \in Obj : color'[o] # "free" => field'[o] = field[o] /\ (o = stack \/ color[o] = "black")
  BY <1>1, <1>6, <1>7
<1>10. \A o \in Obj : color'[o] = "free" => field'[o] = <<>> BY <1>1
<1>11. \A o \in Obj : color[o] = "black" => color'[o] # "free" BY <1>6, <1>7
<1>12. PICK M \in SUBSET L : M = {f \in L : color'[f] # "free"} OBVIOUS
<1>13. ASSUME NEW o \in Obj, color'[o] # "free", NEW i \in Used(o, L), field[o][i] # Nil
       PROVE  field[o][i] \in Obj /\ color[field[o][i]] = "black"
  <2>1. i \in DOMAIN field[o] BY DEF Used
  <2>2. field[o][i] \in Obj BY <1>13, <2>1, Slot
  <2>3. color[field[o][i]] # "free"
    <3>1. color[o] # "free" BY <2>1, Slot
    <3> QED BY <1>13, <3>1, Held
  <2>4. color[field[o][i]] # "white"
    <3>1. CASE o = stack
      <4>1. field[o][i] \in OnStack BY <2>1, <3>1 DEF OnStack, Slots
      <4> QED BY <1>1, <4>1 DEF InvOf, Rooted
    <3>2. CASE o # stack
      <4>1. color[o] = "black" /\ o # partialObj BY <1>1, <1>9, <1>13, <3>2, Kinds
      <4> QED BY <1>13, <3>2, <4>1 DEF InvOf, Dark, Scanned
    <3> QED BY <3>1, <3>2
  <2> QED BY <1>5, <2>2, <2>3, <2>4
<1>14. TypeOK'
  <2>1. TypeOK BY DEF InvOf
  <2>2. \A o \in Obj : field'[o] \in Seq(Obj \union {Nil})
    <3>1. <<>> \in Seq(Obj \union {Nil}) OBVIOUS
    <3> QED BY <1>3, <1>9, <1>10, <3>1
  <2>3. field' \in [Obj -> Seq(Obj \union {Nil})] BY <1>1, <2>2
  <2>4. flips' \in 0 .. MajorEvery - 1 BY <1>1, <1>3, KindsAssumption
  <2> QED BY <1>1, <1>2, <1>8, <2>1, <2>3, <2>4 DEF TypeOK, Color
<1>15. color'[thread] # "free"
  <2>1. field[Process] = <<thread, Main>> BY DEF InvOf, Shape
  <2>2. 1 \in Used(Process, L) /\ field[Process][1] = thread BY <2>1, Kinds DEF Used
  <2>3. color[thread] = "black" BY <1>4, <1>7, <1>13, <2>2, Registers
  <2> QED BY <1>4, <1>11, <2>3
<1>16. frame # Nil => color'[frame] # "free"
  <2>1. frame # Nil => color[frame] = "black" BY <1>1, <1>5, Registers DEF InvOf, Rooted
  <2> QED BY <1>11, <2>1, Registers
<1>17. Shape'
  <2>1. Shape BY DEF InvOf
  <2>2. field'[Process] = <<thread', Main>> /\ color'[Process] \in {"grey", "black"}
        /\ partialObj' # Process
    BY <1>2, <1>4, <1>7, <1>9, <2>1 DEF Shape
  <2>3. \A t \in Threads : color'[t] # "free" => field'[t] \in ThreadSlots'
    <3> TAKE t \in Threads
    <3>1. t \in Obj /\ t # stack BY <1>3, Kinds
    <3>2. color'[t] # "free" => field'[t] = field[t] /\ color[t] # "free" BY <1>9, <3>1
    <3> QED BY <1>2, <2>1, <3>2 DEF Shape, ThreadSlots
  <2>4. \A f \in Frames : color'[f] # "free" => field'[f] \in FrameSlots(f)
    <3> TAKE f \in Frames
    <3>1. f \in Obj /\ f # stack BY <1>3, Kinds
    <3>2. color'[f] # "free" => field'[f] = field[f] /\ color[f] # "free" BY <1>9, <3>1
    <3> QED BY <2>1, <3>2 DEF Shape
  <2>5. \A o \in Arrays \union Stacks : field'[o] \in Seq(Values)
    <3>1. <<>> \in Seq(Values) OBVIOUS
    <3> QED BY <1>9, <1>10, <2>1, <3>1, Kinds DEF Shape
  <2> QED BY <1>10, <2>2, <2>3, <2>4, <2>5 DEF Shape, FrameSlots
<1>18. \A o \in Obj : field'[o] = field[o] \/ field'[o] = <<>> BY <1>9, <1>10
<1>19. \A f \in Frames : Caller(f)' \in {Caller(f), Nil} BY <1>18, Kinds DEF Caller
<1>20. \A t \in Threads : SavedStack(t)' \in {SavedStack(t), Nil} /\ SavedFrame(t)' \in {SavedFrame(t), Nil}
  BY <1>18, Kinds DEF SavedStack, SavedFrame
<1>21. Lives(M)'
  <2>1. ASSUME NEW f \in M, Caller(f)' # Nil PROVE Caller(f)' \in M
    <3>1. f \in L /\ f \in Frames /\ f \in Obj /\ color'[f] # "free" BY <1>12, Kinds
    <3>2. Caller(f)' = Caller(f) BY <1>19, <2>1, <3>1
    <3>3. color[f] # "free" /\ Caller(f) \in L BY <2>1, <3>1, <3>2, SavedIsThere DEF InvOf, Lives
    <3>4. 1 \in Used(f, L) /\ field[f][1] = Caller(f) BY <3>1, <3>3, FrameHolds
    <3>5. color[Caller(f)] = "black" /\ Caller(f) \in Obj BY <1>13, <2>1, <3>1, <3>2, <3>4
    <3> QED BY <1>11, <1>12, <3>2, <3>3, <3>5
  <2>2. ASSUME NEW t \in Threads, SavedFrame(t)' # Nil PROVE SavedFrame(t)' \in M
    <3>1. SavedFrame(t)' = SavedFrame(t) /\ SavedFrame(t) # Nil BY <1>20, <2>2
    <3>2. color[t] # "free" /\ SavedFrame(t) \in L /\ t \in Obj BY <3>1, SavedIsThere, Kinds
    <3>3. 2 \in Used(t, L) /\ field[t][2] = SavedFrame(t) BY <3>2, ThreadHolds
    <3>4. color'[t] # "free"
      <4> SUFFICES ASSUME color'[t] = "free" PROVE FALSE OBVIOUS
      <4>1. field'[t] = <<>> BY <1>10, <3>2
      <4> QED BY <2>2, <4>1 DEF SavedFrame
    <3>5. color[SavedFrame(t)] = "black" /\ SavedFrame(t) \in Obj BY <1>13, <3>1, <3>2, <3>3, <3>4
    <3> QED BY <1>11, <1>12, <3>1, <3>2, <3>5
  <2>3. frame' # Nil => frame' \in M BY <1>2, <1>12, <1>16, Registers
  <2>4. \A f \in M : color'[f] # "free" BY <1>12
  <2> QED BY <2>1, <2>2, <2>3, <2>4 DEF Lives
<1>22. Unshared(M)'
  <2>1. Unshared(L) BY DEF InvOf
  <2>2. \A t, u \in Threads : (t # u /\ SavedStack(t)' # Nil) => SavedStack(t)' # SavedStack(u)'
    BY <1>20, <2>1 DEF Unshared
  <2>3. frame' # Nil => /\ \A g \in M : Caller(g)' # frame'
                        /\ \A t \in Threads : SavedFrame(t)' # frame'
    BY <1>2, <1>19, <1>20, <2>1 DEF Unshared
  <2>4. \A g, h \in M : (g # h /\ Caller(g)' # Nil) => Caller(g)' # Caller(h)'
    BY <1>19, <2>1 DEF Unshared
  <2>5. \A g \in M, t \in Threads : Caller(g)' # Nil => Caller(g)' # SavedFrame(t)'
    BY <1>19, <1>20, <2>1 DEF Unshared
  <2>6. \A t, u \in Threads : (t # u /\ SavedFrame(t)' # Nil) => SavedFrame(t)' # SavedFrame(u)'
    BY <1>20, <2>1 DEF Unshared
  <2> QED BY <2>2, <2>3, <2>4, <2>5, <2>6 DEF Unshared
<1>23. Rooted' BY <1>1 DEF Rooted
<1>24. ASSUME NEW o \in Obj, color'[o] # "free", NEW i \in Used(o, M)', field'[o][i] # Nil
       PROVE  field'[o][i] \in Obj /\ color[field'[o][i]] = "black"
  <2>1. field'[o] = field[o] /\ i \in DOMAIN field'[o] BY <1>9, <1>24 DEF Used
  <2>2. i \in Used(o, L)
    <3>1. CASE o \in Frames \ M
      <4>1. i \in DOMAIN field'[o] \ {1} BY <1>24, <3>1 DEF Used
      <4> QED BY <2>1, <4>1 DEF Used
    <3>2. CASE o \notin Frames \ M BY <1>12, <2>1, <3>2 DEF Used
    <3> QED BY <3>1, <3>2
  <2> QED BY <1>13, <1>24, <2>1, <2>2
<1>25. Kept(M)'
  <2>1. \A o \in Obj : color'[o] # "free" =>
          \A i \in Used(o, M)' : field'[o][i] # Nil => color'[field'[o][i]] # "free"
    BY <1>11, <1>24
  <2>2. \A o \in {Process, thread', stack', frame'} \ {Nil} : color'[o] # "free"
    BY <1>2, <1>7, <1>15, <1>16
  <2> QED BY <2>1, <2>2 DEF Kept
<1>26. Dark(M)'
  <2> SUFFICES ASSUME NEW o \in Obj \ {stack}, color'[o] = "black", NEW i \in Used(o, M)',
                      field'[o][i] # Nil
               PROVE  color'[field'[o][i]] # "white"
    BY <1>2 DEF Dark, Scanned
  <2>1. o # Process /\ flips # 0 BY <1>7
  <2>2. \A p \in Obj : color'[p] # "white" BY <1>7, <2>1
  <2> QED BY <1>24, <2>2
<1>27. InvOf(M)' BY <1>14, <1>17, <1>21, <1>22, <1>23, <1>25, <1>26 DEF InvOf
<1> QED BY <1>27

----------------------------------------------------------------------------
\* The theorems.

\* At first, no frame is there.
LEMMA InitSafe == Init => Inv
PROOF
<1> SUFFICES ASSUME Init PROVE Inv OBVIOUS
<1>1. MainStack \in Stacks /\ Main # Process /\ MainStack # Process /\ Main # MainStack
      /\ Main \in Obj /\ MainStack \in Obj /\ Main \in Threads /\ Process \in Obj
      /\ thread = Main /\ stack = MainStack /\ frame = Nil /\ partialObj = Nil /\ partialSlot = 1
      /\ returning = Nil /\ mode = "run" /\ flips = 0
  BY KindsAssumption, Kinds DEF Init
<1>2. /\ color[Process] = "grey" /\ color[MainStack] = "black" /\ color[Main] = "white"
      /\ \A o \in Obj \ {Process, MainStack, Main} : color[o] = "free"
      /\ color \in [Obj -> Color]
  <2>1. color = [o \in Obj |-> CASE o = Process -> "grey" [] o = MainStack -> "black"
                                 [] o = Main -> "white" [] OTHER -> "free"]
    BY DEF Init
  <2> QED BY <1>1, <2>1 DEF Color
<1>3. /\ field[Process] = <<Main, Main>> /\ field[Main] = <<Nil, Nil, Nil>>
      /\ \A o \in Obj \ {Process, Main} : field[o] = <<>>
  <2>1. field = [o \in Obj |-> CASE o = Process -> <<Main, Main>> [] o = Main -> <<Nil, Nil, Nil>>
                                 [] OTHER -> <<>>]
    BY DEF Init
  <2> QED BY <1>1, <2>1
<1>4. TypeOK
  <2>1. <<Main, Main>> \in Seq(Obj \union {Nil}) /\ <<Nil, Nil, Nil>> \in Seq(Obj \union {Nil})
        /\ <<>> \in Seq(Obj \union {Nil})
    BY <1>1
  <2>2. \A o \in Obj : field[o] \in Seq(Obj \union {Nil}) BY <1>3, <2>1
  <2>3. field \in [Obj -> Seq(Obj \union {Nil})] BY <2>2 DEF Init
  <2>4. flips \in 0 .. MajorEvery - 1 BY <1>1, KindsAssumption
  <2> QED BY <1>1, <1>2, <2>3, <2>4, Kinds DEF TypeOK, Color
<1>5. Shape
  <2>1. \A o \in Arrays \union Stacks : field[o] \in Seq(Values)
    <3>1. <<>> \in Seq(Values) OBVIOUS
    <3> QED BY <1>1, <1>3, <3>1, Kinds
  <2>2. \A o \in Obj : color[o] = "free" => field[o] = <<>> BY <1>1, <1>2, <1>3
  <2>3. \A t \in Threads : color[t] # "free" => field[t] \in ThreadSlots
    <3>1. \A t \in Threads : color[t] # "free" => t = Main BY <1>1, <1>2, Kinds
    <3>2. <<Nil, Nil, Nil>> \in ThreadSlots BY DEF ThreadSlots
    <3> QED BY <1>3, <3>1, <3>2
  <2>4. \A f \in Frames : color[f] # "free" => field[f] \in FrameSlots(f) BY <1>1, <1>2, Kinds
  <2>5. field[Process] = <<thread, Main>> /\ color[Process] \in {"grey", "black"} /\ partialObj # Process
    BY <1>1, <1>2, <1>3, Kinds
  <2> QED BY <2>1, <2>2, <2>3, <2>4, <2>5 DEF Shape, FrameSlots
<1>6. PICK L \in SUBSET Frames : L = {}
  <2> WITNESS {} \in SUBSET Frames
  <2> QED OBVIOUS
<1>7. \A t \in Threads : SavedStack(t) = Nil /\ SavedFrame(t) = Nil
  <2>1. \A t \in Threads : field[t] = <<>> \/ field[t] = <<Nil, Nil, Nil>>
    BY <1>1, <1>3, Kinds
  <2> QED BY <2>1 DEF SavedStack, SavedFrame
<1>8. Lives(L) BY <1>1, <1>6, <1>7 DEF Lives
<1>9. Unshared(L) BY <1>1, <1>6, <1>7 DEF Unshared
<1>10. Rooted BY <1>1 DEF Rooted
<1>11. Kept(L)
  <2>1. ASSUME NEW o \in Obj, NEW i \in Used(o, L), field[o][i] # Nil
        PROVE  color[field[o][i]] # "free"
    <3>1. i \in DOMAIN field[o] BY DEF Used
    <3>2. o = Process BY <1>3, <2>1, <3>1
    <3>3. field[o][i] = Main BY <1>3, <3>1, <3>2
    <3> QED BY <1>2, <3>3
  <2> QED BY <1>1, <1>2, <2>1 DEF Kept
<1>12. Dark(L) BY <1>1, <1>2 DEF Dark
<1>13. InvOf(L) BY <1>4, <1>5, <1>8, <1>9, <1>10, <1>11, <1>12 DEF InvOf
<1> QED BY <1>13 DEF Inv

LEMMA NextSafe == ASSUME Careful, Inv, [Next]_vars PROVE Inv'
PROOF
<1>1. PICK L \in SUBSET Frames : InvOf(L) BY DEF Inv
<1> DEFINE Safe == \E M \in SUBSET Frames : InvOf(M)'
<1>2. \A M \in SUBSET Frames : InvOf(M)' => Safe OBVIOUS
<1>3. \A f \in Frames : L \union {f} \in SUBSET Frames OBVIOUS
<1>4. \A M \in SUBSET L : M \in SUBSET Frames /\ L \ M \in SUBSET Frames OBVIOUS
<1> SUFFICES Safe BY DEF Inv
<1> HIDE DEF Safe
<1>5. ASSUME NEW v \in Values, Push(v) PROVE Safe BY <1>1, <1>2, <1>5, PushSafe
<1>6. CASE Pop BY <1>1, <1>2, <1>6, PopSafe
<1>7. ASSUME NEW a \in Arrays, New(a) PROVE Safe BY <1>1, <1>2, <1>7, NewSafe
<1>8. ASSUME NEW t \in Threads, NEW s \in Stacks, NewThread(t, s) PROVE Safe
  BY <1>1, <1>2, <1>8, NewThreadSafe
<1>9. ASSUME NEW a \in Arrays, NEW v \in Values, Add(a, v) PROVE Safe BY <1>1, <1>2, <1>9, AddSafe
<1>10. ASSUME NEW a \in Arrays, NEW i \in 1 .. MaxSize, TakeAt(a, i) PROVE Safe
  BY <1>1, <1>2, <1>10, TakeAtSafe
<1>11. ASSUME NEW a \in Arrays, NEW i \in 1 .. MaxSize, RemoveAt(a, i) PROVE Safe
  BY <1>1, <1>2, <1>11, RemoveAtSafe
<1>12. ASSUME NEW a \in Arrays, NEW i \in 1 .. MaxSize, NEW v \in Values, Put(a, i, v) PROVE Safe
  BY <1>1, <1>2, <1>12, PutSafe
<1>13. ASSUME NEW a \in Arrays, NEW i \in 1 .. MaxSize, NEW v \in Values, Insert(a, i, v) PROVE Safe
  BY <1>1, <1>2, <1>13, InsertSafe
<1>14. ASSUME NEW f \in Frames, Call(f) PROVE Safe
  <2>1. InvOf(L \union {f})' BY <1>1, <1>14, CallSafe
  <2> QED BY <1>2, <1>3, <2>1
<1>15. ASSUME NEW f \in Frames, OutOfContextReturn(f) PROVE Safe
  <2>1. InvOf(L \union {f})' BY <1>1, <1>15, OutOfContextReturnSafe
  <2> QED BY <1>2, <1>3, <2>1
<1>16. ASSUME NEW f \in Frames, NEW h \in HeapFrames \union {Nil}, CallBlock(f, h) PROVE Safe
  <2>1. InvOf(L \union {f})' BY <1>1, <1>16, CallBlockSafe
  <2> QED BY <1>2, <1>3, <2>1
<1>17. CASE ReturnFromBlock
  <2>1. PICK S \in SUBSET L : InvOf(L \ S)' BY <1>1, <1>17, ReturnFromBlockSafe
  <2> QED BY <1>2, <1>4, <2>1
<1>18. CASE ReturnFromMethod
  <2>1. PICK S \in SUBSET L : InvOf(L \ S)' BY <1>1, <1>18, ReturnFromMethodSafe
  <2> QED BY <1>2, <1>4, <2>1
<1>19. CASE ReturnOut BY <1>1, <1>2, <1>19, ReturnOutSafe
<1>20. ASSUME NEW v, ReturnInParent(v) PROVE Safe BY <1>1, <1>2, <1>20, ReturnInParentSafe
<1>21. ASSUME NEW v, NEW t \in Threads, Resume(t, v) PROVE Safe BY <1>1, <1>2, <1>21, ResumeSafe
<1>22. ASSUME NEW v, NEW done \in BOOLEAN, Yield(done, v) PROVE Safe BY <1>1, <1>2, <1>22, YieldSafe
<1>23. ASSUME NEW t \in Threads, Reset(t) PROVE Safe BY <1>1, <1>2, <1>23, ResetSafe
<1>24. CASE BeginCollect \/ StopCollect BY <1>1, <1>2, <1>24, ModeSafe
<1>25. ASSUME NEW o \in Obj, ScanOneObj(o) PROVE Safe BY <1>1, <1>2, <1>25, ScanOneObjSafe
<1>26. CASE DoPartialScan BY <1>1, <1>2, <1>26, DoPartialScanSafe
<1>27. CASE ScanRoots BY <1>1, <1>2, <1>27, ScanRootsSafe
<1>28. CASE Flip
  <2>1. PICK M \in SUBSET L : InvOf(M)' BY <1>1, <1>28, FlipSafe
  <2> QED BY <1>2, <1>4, <2>1
<1>29. CASE UNCHANGED vars
  <2>1. UNCHANGED <<color, field, thread, stack, frame, partialObj, partialSlot, returning, mode, flips>>
    BY <1>29 DEF vars
  <2>2. TypeOK' BY <1>1, <2>1 DEF InvOf, TypeOK
  <2>3. Shape' BY <1>1, <2>1 DEF InvOf, Shape, ThreadSlots, FrameSlots
  <2>4. Lives(L)' BY <1>1, <2>1 DEF InvOf, Lives, Caller, SavedFrame
  <2>5. Unshared(L)' BY <1>1, <2>1 DEF InvOf, Unshared, Caller, SavedStack, SavedFrame
  <2>6. Rooted' BY <1>1, <2>1 DEF InvOf, Rooted, OnStack
  <2>7. Kept(L)' BY <1>1, <2>1 DEF InvOf, Kept, Used
  <2>8. Dark(L)' BY <1>1, <2>1 DEF InvOf, Dark, Scanned, Used
  <2>9. InvOf(L)' BY <2>2, <2>3, <2>4, <2>5, <2>6, <2>7, <2>8 DEF InvOf
  <2> QED BY <1>2, <2>9
<1>30. Safe
  BY <1>5, <1>6, <1>7, <1>8, <1>9, <1>10, <1>11, <1>12, <1>13, <1>14, <1>15, <1>16, <1>17, <1>18,
     <1>19, <1>20, <1>21, <1>22, <1>23, <1>24, <1>25, <1>26, <1>27, <1>28, <1>29 DEF Next
<1> QED BY <1>30

LEMMA Invariant == ASSUME Careful PROVE Spec => []Inv
PROOF
<1>1. Init => Inv BY InitSafe
<1>2. Inv /\ [Next]_vars => Inv' BY NextSafe
<1> QED BY <1>1, <1>2, PTL DEF Spec

\* The frames of the code that runs or waits are among those of L.
LEMMA CalledLive == ASSUME NEW L \in SUBSET Frames, InvOf(L) PROVE Called \subseteq L
PROOF
<1>1. \A k \in L : Caller(k) # Nil => Caller(k) \in L BY DEF InvOf, Lives
<1>2. Chain \subseteq L
  <2>1. frame \in L \union {Nil} BY Registers
  <2> QED BY <1>1, <2>1, CallersHaveNotReturned DEF Chain
<1>3. ASSUME NEW t \in Threads, field[t] # <<>> PROVE CallersTo(field[t][2], Nil) \subseteq L
  <2>1. field[t][2] \in L \union {Nil} BY <1>3 DEF InvOf, Lives, SavedFrame
  <2> QED BY <1>1, <2>1, CallersHaveNotReturned
<1> QED BY <1>2, <1>3 DEF Called

\* The colours, the slots and the registers have their types.
THEOREM TypeCorrect == ASSUME Careful PROVE Spec => []TypeOK
PROOF
<1>1. Inv => TypeOK BY DEF Inv, InvOf
<1> QED BY <1>1, Invariant, PTL

\* Nothing that the program can still use is freed, neither at a flip nor at a return.
THEOREM NothingIsLost == ASSUME Careful PROVE Spec => []NothingLost
PROOF
<1>1. Inv => NothingLost
  <2> SUFFICES ASSUME NEW L \in SUBSET Frames, InvOf(L) PROVE NothingLost BY DEF Inv
  <2>1. Called \subseteq L BY CalledLive
  <2>2. \A o \in Obj : Used(o, Called) \subseteq Used(o, L) BY <2>1 DEF Used
  <2>3. Kept(L) BY DEF InvOf
  <2> QED BY <2>2, <2>3 DEF NothingLost, Kept
<1> QED BY <1>1, Invariant, PTL

\* What is scanned refers to nothing white, but for the callers of frames that have returned.
THEOREM BlackToWhiteChecked == ASSUME Careful PROVE Spec => []NoBlackToWhite
PROOF
<1>1. Inv => NoBlackToWhite
  <2> SUFFICES ASSUME NEW L \in SUBSET Frames, InvOf(L) PROVE NoBlackToWhite BY DEF Inv
  <2>1. Called \subseteq L BY CalledLive
  <2>2. \A o \in Obj : Used(o, Called) \subseteq Used(o, L) BY <2>1 DEF Used
  <2>3. Dark(L) BY DEF InvOf
  <2> QED BY <2>2, <2>3 DEF NoBlackToWhite, Dark
<1> QED BY <1>1, Invariant, PTL
=============================================================================

----------------------- MODULE SequencedCommandsProofs -----------------------
(***************************************************************************)
(* Proofs about SequencedCommands, for every number of commands and        *)
(* buffers and every capacity of the FIFOs.  MsgInv says where the         *)
(* messages of a command can be.  On it rest four invariants, one for each *)
(* question: OwnInv, which commands still own which sample data; OrderInv, *)
(* in which order the commands come through; AgreeInv, what the rt thread  *)
(* has yet to learn of the buffers; and CopyInv, what the language knows.  *)
(***************************************************************************)
EXTENDS SequencedCommands, FiniteSetTheorems, TLAPS

\* What was received is an initial segment of the commands.
InOrder == Received = 1 .. Cardinality(Received)

\* The messages of mFromEngine ask for even stages, those of mToEngine for the
\* third or for deletion.
FromEngineOK ==
  \A i \in DOMAIN fromEngine : /\ fromEngine[i].do = "stage"
                               /\ cmds[fromEngine[i].cmd].next \in {2, 4}
ToEngineOK ==
  \A i \in DOMAIN toEngine :
    /\ toEngine[i].do = "stage" => cmds[toEngine[i].cmd].next = 3
    /\ cmds[toEngine[i].cmd].next \in {3, 5}

\* OneMessageEach, by indices.
Distinct(q) == \A i, j \in DOMAIN q : q[i].cmd = q[j].cmd => i = j
Alive(q) == \A i \in DOMAIN q : q[i].cmd \notin deleted

MsgInv ==
  /\ TypeOK
  /\ InOrder
  /\ deleted \subseteq Received
  /\ FromEngineOK /\ ToEngineOK
  /\ Distinct(fromEngine) /\ Distinct(toEngine)
  /\ Alive(fromEngine) /\ Alive(toEngine)

\* What is in a FIFO after a Write: what was in it, and perhaps the message.
LEMMA Written ==
  ASSUME NEW q \in Seq(Message), NEW m \in Message, NEW r, r = q \/ r = Append(q, m)
  PROVE  /\ r \in Seq(Message)
         /\ \A i \in DOMAIN r : (i \in DOMAIN q /\ r[i] = q[i]) \/ (i = Len(q) + 1 /\ r[i] = m)
         /\ \A i \in DOMAIN r : i \in Nat
         /\ DOMAIN q = 1 .. Len(q)
  OBVIOUS

\* What is in a FIFO after its first message was performed.
LEMMA Performed ==
  ASSUME NEW q \in Seq(Message), q # <<>>
  PROVE  /\ Tail(q) \in Seq(Message) /\ Head(q) \in Message
         /\ 1 \in DOMAIN q /\ q[1] = Head(q)
         /\ \A i \in DOMAIN Tail(q) : i \in Nat /\ i + 1 \in DOMAIN q /\ Tail(q)[i] = q[i + 1] /\ i + 1 # 1
  OBVIOUS

LEMMA InFifos ==
  ASSUME TypeOK
  PROVE  /\ \A i \in DOMAIN fromEngine : fromEngine[i] \in Message /\ fromEngine[i].cmd \in Cmd
         /\ \A i \in DOMAIN toEngine : toEngine[i] \in Message /\ toEngine[i].cmd \in Cmd
  <1>1. \A q \in Seq(Message) : \A i \in DOMAIN q : q[i] \in Message
    OBVIOUS
  <1>2. \A m \in Message : m.cmd \in Cmd
    BY DEF Message
  <1> QED
    BY <1>1, <1>2 DEF TypeOK

LEMMA PutEither ==
  ASSUME NEW q, NEW m
  PROVE  /\ PutFromEngine(q, m) = q \/ PutFromEngine(q, m) = Append(q, m)
         /\ PutToEngine(m) = toEngine \/ PutToEngine(m) = Append(toEngine, m)
  BY DEF PutFromEngine, PutToEngine

\* A command that is received next has not been received.
LEMMA NextIsUnborn ==
  ASSUME TypeOK, InOrder
  PROVE  /\ Cardinality(Received) \in Nat
         /\ NextCmd \in Nat /\ NextCmd \notin Received
  <1>1. Received \subseteq Cmd /\ IsFiniteSet(Cmd)
    BY FS_Interval, BoundsAssumption DEF Received, Cmd
  <1>2. Cardinality(Received) \in Nat
    BY <1>1, FS_Subset, FS_CardinalityType
  <1> QED
    BY <1>2 DEF InOrder, NextCmd

\* Receiving one more command keeps the segment.
LEMMA NewInOrder ==
  ASSUME TypeOK, InOrder, NextCmd \in Cmd, Received' = Received \cup {NextCmd}
  PROVE  InOrder'
  <1> DEFINE k == Cardinality(Received)
  <1>1. k \in Nat /\ Received = 1 .. k /\ Received' = 1 .. k + 1
    BY NextIsUnborn DEF InOrder, NextCmd
  <1>2. Cardinality(1 .. k + 1) = k + 1
    BY <1>1, FS_Interval
  <1> QED
    BY <1>1, <1>2 DEF InOrder

LEMMA InitMsgInv == Init => MsgInv
  <1> SUFFICES ASSUME Init PROVE MsgInv
    OBVIOUS
  <1>a. Unborn \in Command
    BY DEF Unborn, Command, Data, OnBuffer
  <1>b. /\ [data |-> None, text |-> None] \in [data : Data, text : Data]
        /\ [at |-> "idle"] \in [at : {"idle"}]
    BY DEF Data
  <1>c. /\ cmds \in [Cmd -> Command]
        /\ rtBuf \in [Buf -> Data] /\ nrtBuf \in [Buf -> Data] /\ text \in [Cmd -> Data]
        /\ copied \in [Buf -> [data : Data, text : Data]]
    BY <1>a, <1>b DEF Init, Data
  <1>d. fromEngine \in Seq(Message) /\ toEngine \in Seq(Message) /\ spent \in Nat
    BY DEF Init
  <1>e. copier \in [at : {"idle"}] \cup [at : {"copied"}, buf : Buf]
    BY <1>b DEF Init
  <1>1. TypeOK
    BY <1>c, <1>d, <1>e DEF Init, TypeOK
  <1>2. Received = {} /\ Cardinality({}) = 0
    BY FS_EmptySet DEF Init, Received, Unborn
  <1> QED
    BY <1>1, <1>2 DEF Init, MsgInv, InOrder, FromEngineOK, ToEngineOK, Distinct, Alive

\* mFromEngine after one command is received or sent on.
LEMMA FromEngineWritten ==
  ASSUME MsgInv, NEW q \in Seq(Message), NEW r, NEW c \in Cmd,
         r = PutFromEngine(q, Stage(c)),
         Distinct(q), \A i \in DOMAIN q : q[i].do = "stage" /\ q[i].cmd # c
  PROVE  /\ r \in Seq(Message)
         /\ Distinct(r)
         /\ \A i \in DOMAIN r : /\ r[i].do = "stage"
                                /\ r[i].cmd = c \/ \E j \in DOMAIN q : r[i].cmd = q[j].cmd
  <1>1. Stage(c) \in Message /\ Stage(c).cmd = c /\ Stage(c).do = "stage"
    BY DEF Stage, Message
  <1>2. r = q \/ r = Append(q, Stage(c))
    BY PutEither
  <1> QED
    BY <1>1, <1>2, Written DEF Distinct

\* A command in mToEngine awaits its third stage or its deletion, so it is not in mFromEngine.
LEMMA MsgInvReceive ==
  ASSUME MsgInv, NEW r \in Requests, Receive(r)
  PROVE  MsgInv'
  <1> DEFINE c == NextCmd
  <1> USE DEF MsgInv
  <1>1. c \in Cmd /\ c \notin Received /\ cmds[c].next = 0
    BY NextIsUnborn DEF Receive, Received
  <1>2. New(r) \in Command /\ New(r).next = 2
    BY DEF New, Command, Data, Requests, OnBuffer, TypeOK
  <1>3. cmds' = [cmds EXCEPT ![c] = New(r)] /\ cmds \in [Cmd -> Command]
    BY DEF Receive, TypeOK
  <1>4. Received' = Received \cup {c}
    BY <1>1, <1>2, <1>3 DEF Received
  <1>5. InOrder'
    BY <1>1, <1>4, NewInOrder
  <1>6. \A i \in DOMAIN fromEngine : fromEngine[i].do = "stage" /\ fromEngine[i].cmd # c
    BY <1>1 DEF FromEngineOK
  <1>7. /\ fromEngine' \in Seq(Message) /\ Distinct(fromEngine')
        /\ \A i \in DOMAIN fromEngine' :
             /\ fromEngine'[i].do = "stage"
             /\ \/ fromEngine'[i].cmd = c
                \/ \E j \in DOMAIN fromEngine : fromEngine'[i].cmd = fromEngine[j].cmd
    BY <1>1, <1>6, FromEngineWritten DEF Receive, TypeOK
  <1>8. /\ \A i \in DOMAIN toEngine : toEngine[i].cmd # c /\ toEngine[i].cmd \in Cmd
        /\ \A i \in DOMAIN fromEngine : fromEngine[i].cmd \in Cmd
    BY <1>1, InFifos DEF ToEngineOK
  <1>9. TypeOK'
    BY <1>1, <1>2, <1>3, <1>7 DEF TypeOK, Receive, buffers, threads, language, Command, Data, Message
  <1>10. FromEngineOK' /\ ToEngineOK'
    BY <1>1, <1>2, <1>3, <1>7, <1>8 DEF FromEngineOK, ToEngineOK, Receive
  <1>11. Alive(fromEngine)' /\ Alive(toEngine)' /\ deleted' \subseteq Received'
    BY <1>1, <1>4, <1>7 DEF Alive, Receive
  <1> QED
    BY <1>5, <1>7, <1>9, <1>10, <1>11 DEF Receive, Distinct

\* The first message of mToEngine is taken out.
LEMMA ToEnginePopped ==
  ASSUME MsgInv, toEngine # <<>>, toEngine' = Tail(toEngine)
  PROVE  /\ toEngine' \in Seq(Message)
         /\ Head(toEngine) \in Message /\ Head(toEngine).cmd \in Cmd
         /\ Distinct(toEngine')
         /\ \A i \in DOMAIN toEngine' : /\ toEngine'[i].cmd # Head(toEngine).cmd
                                        /\ i + 1 \in DOMAIN toEngine /\ toEngine'[i] = toEngine[i + 1]
                                        /\ toEngine'[i].cmd \in Cmd
         /\ 1 \in DOMAIN toEngine /\ toEngine[1] = Head(toEngine)
  <1>1. toEngine \in Seq(Message)
    BY DEF MsgInv, TypeOK
  <1>2. /\ Tail(toEngine) \in Seq(Message) /\ Head(toEngine) \in Message
        /\ 1 \in DOMAIN toEngine /\ toEngine[1] = Head(toEngine)
        /\ \A i \in DOMAIN Tail(toEngine) : /\ i \in Nat /\ i + 1 \in DOMAIN toEngine
                                            /\ Tail(toEngine)[i] = toEngine[i + 1] /\ i + 1 # 1
    BY <1>1, Performed
  <1>3. \A i, j \in DOMAIN toEngine' : i + 1 = j + 1 => i = j
    BY <1>2
  <1>4. Distinct(toEngine')
    BY <1>2, <1>3 DEF MsgInv, Distinct
  <1>5. \A i \in DOMAIN toEngine : toEngine[i].cmd \in Cmd
    BY InFifos DEF MsgInv
  <1> QED
    BY <1>2, <1>4, <1>5 DEF MsgInv, Distinct

\* A command leaves mToEngine and goes to its fourth stage.
LEMMA MsgInvToFour ==
  ASSUME MsgInv, toEngine # <<>>, toEngine' = Tail(toEngine),
         Head(toEngine).do = "stage", SendToStageFour(Head(toEngine).cmd),
         UNCHANGED deleted
  PROVE  /\ InOrder' /\ deleted' \subseteq Received'
         /\ cmds' \in [Cmd -> Command] /\ fromEngine' \in Seq(Message) /\ lost' \subseteq Cmd
         /\ FromEngineOK' /\ ToEngineOK'
         /\ Distinct(fromEngine') /\ Alive(fromEngine')
  <1> DEFINE c == Head(toEngine).cmd
  <1> USE DEF MsgInv
  <1>1. /\ c \in Cmd /\ cmds[c].next = 3 /\ c \notin deleted
        /\ \A i \in DOMAIN toEngine' : /\ toEngine'[i].cmd # c
                                       /\ i + 1 \in DOMAIN toEngine /\ toEngine'[i] = toEngine[i + 1]
                                       /\ toEngine'[i].cmd \in Cmd
    BY ToEnginePopped DEF ToEngineOK, Alive
  <1>2. /\ [cmds EXCEPT ![c].next = 4] \in [Cmd -> Command]
        /\ \A d \in Cmd : [cmds EXCEPT ![c].next = 4][d].next = IF d = c THEN 4 ELSE cmds[d].next
    <2> HIDE DEF c, MsgInv
    <2>1. c \in Cmd /\ cmds \in [Cmd -> Command] /\ cmds[c] \in Command
      BY <1>1 DEF TypeOK, MsgInv
    <2>2. [cmds[c] EXCEPT !.next = 4] \in Command /\ [cmds[c] EXCEPT !.next = 4].next = 4
      BY <2>1 DEF Command
    <2> QED
      BY <2>1, <2>2
  <1>3. /\ \A i \in DOMAIN fromEngine : fromEngine[i].do = "stage" /\ fromEngine[i].cmd # c
        /\ \A i \in DOMAIN fromEngine : fromEngine[i].cmd \in Cmd
        /\ fromEngine \in Seq(Message)
    <2>1. \A i \in DOMAIN fromEngine : fromEngine[i].cmd \in Cmd
      BY InFifos
    <2>2. fromEngine \in Seq(Message)
      BY DEF TypeOK
    <2>3. \A i \in DOMAIN fromEngine : cmds[fromEngine[i].cmd].next # 3 /\ fromEngine[i].do = "stage"
      BY DEF FromEngineOK
    <2> QED
      BY <1>1, <2>1, <2>2, <2>3
  <1>4. /\ cmds' = [cmds EXCEPT ![c].next = 4]
        /\ fromEngine' = PutFromEngine(fromEngine, Stage(c))
        /\ lost' = IF FromEngineFull(fromEngine) THEN lost \cup {c} ELSE lost
    BY DEF SendToStageFour
  <1>5. /\ fromEngine' \in Seq(Message) /\ Distinct(fromEngine')
        /\ \A i \in DOMAIN fromEngine' :
             /\ fromEngine'[i].do = "stage"
             /\ \/ fromEngine'[i].cmd = c
                \/ \E j \in DOMAIN fromEngine : fromEngine'[i].cmd = fromEngine[j].cmd
    BY <1>1, <1>3, <1>4, FromEngineWritten
  <1>6. Received' = Received
    BY <1>1, <1>2, <1>4 DEF Received
  <1>7. FromEngineOK' /\ ToEngineOK'
    BY <1>1, <1>2, <1>3, <1>4, <1>5 DEF FromEngineOK, ToEngineOK
  <1>8. Alive(fromEngine')
    BY <1>1, <1>5 DEF Alive
  <1> QED
    BY <1>1, <1>2, <1>4, <1>5, <1>6, <1>7, <1>8 DEF InOrder, Alive, TypeOK

LEMMA MsgInvRtPerform ==
  ASSUME MsgInv, RtPerform
  PROVE  MsgInv'
  <1> DEFINE c == Head(toEngine).cmd
  <1> USE DEF MsgInv
  <1>1. /\ toEngine # <<>> /\ toEngine' = Tail(toEngine)
        /\ c \in Cmd /\ c \notin deleted /\ cmds[c].next \in {3, 5}
        /\ toEngine' \in Seq(Message) /\ Distinct(toEngine')
        /\ \A i \in DOMAIN toEngine' : /\ toEngine'[i].cmd # c
                                       /\ i + 1 \in DOMAIN toEngine /\ toEngine'[i] = toEngine[i + 1]
                                       /\ toEngine'[i].cmd \in Cmd
    BY ToEnginePopped DEF RtPerform, ToEngineOK, Alive
  <1>2. /\ \A i \in DOMAIN fromEngine : fromEngine[i].cmd # c /\ fromEngine[i].cmd \in Cmd
        /\ fromEngine \in Seq(Message)
    <2>1. \A i \in DOMAIN fromEngine : fromEngine[i].cmd \in Cmd
      BY InFifos
    <2>2. fromEngine \in Seq(Message)
      BY DEF TypeOK
    <2>3. \A i \in DOMAIN fromEngine : cmds[fromEngine[i].cmd].next \in {2, 4}
      BY DEF FromEngineOK
    <2>4. cmds[c].next \in {3, 5}
      BY <1>1
    <2> HIDE DEF c, MsgInv
    <2>5. \A i \in DOMAIN fromEngine : fromEngine[i].cmd # c
      BY <2>3, <2>4
    <2> QED
      BY <2>1, <2>2, <2>5
  <1>3. UNCHANGED <<answered, spent, nrtBuf, text, freed, rt, nrt, signalled, runFlag, main, copier, copied>>
    BY DEF RtPerform, threads, language
  <1>4. CASE Head(toEngine).do = "free" /\ deleted' = deleted \cup {c}
             /\ UNCHANGED <<cmds, lost, fromEngine, rtBuf, dirty>>
    <2>1. Received' = Received /\ c \in Received
      BY <1>1, <1>4 DEF Received
    <2>2. TypeOK'
      BY <1>1, <1>3, <1>4 DEF TypeOK
    <2>3. FromEngineOK' /\ ToEngineOK'
      BY <1>1, <1>4 DEF FromEngineOK, ToEngineOK
    <2>4. Alive(fromEngine)' /\ Alive(toEngine)'
      BY <1>1, <1>2, <1>4 DEF Alive
    <2> QED
      BY <1>1, <1>4, <2>1, <2>2, <2>3, <2>4 DEF InOrder, Distinct
  <1>5. CASE Head(toEngine).do = "stage" /\ StageThree(c)
    <2>1. cmds[c].next = 3
      <3>1. 1 \in DOMAIN toEngine /\ toEngine[1] = Head(toEngine)
        BY <1>1, ToEnginePopped
      <3> QED
        BY <1>5, <3>1 DEF ToEngineOK
    <2>2. cmds[c] \in Command
      BY <1>1 DEF TypeOK
    <2>3. rtBuf' \in [Buf -> Data] /\ dirty' \in [Buf -> BOOLEAN]
      BY <1>5, <2>2 DEF StageThree, StageThreeSwap, TypeOK, Command, Data
    <2>4. CASE /\ cmds' = [cmds EXCEPT ![c].next = 4]
               /\ deleted' = deleted \cup {c}
               /\ UNCHANGED <<fromEngine, lost>>
      <3>1. [cmds[c] EXCEPT !.next = 4] \in Command /\ [cmds[c] EXCEPT !.next = 4].next = 4
        BY <2>2 DEF Command
      <3>2. /\ cmds' \in [Cmd -> Command]
            /\ \A d \in Cmd : cmds'[d].next = IF d = c THEN 4 ELSE cmds[d].next
        BY <1>1, <2>4, <3>1 DEF TypeOK
      <3>3. Received' = Received /\ c \in Received
        BY <1>1, <3>2, <2>1 DEF Received
      <3>4. TypeOK'
        BY <1>1, <1>3, <2>3, <2>4, <3>2 DEF TypeOK
      <3>5. FromEngineOK' /\ ToEngineOK'
        BY <1>1, <1>2, <2>4, <3>2 DEF FromEngineOK, ToEngineOK
      <3>6. Alive(fromEngine)' /\ Alive(toEngine)'
        BY <1>1, <1>2, <2>4 DEF Alive
      <3> QED
        BY <1>1, <2>4, <3>3, <3>4, <3>5, <3>6 DEF InOrder, Distinct
    <2>5. CASE SendToStageFour(c) /\ UNCHANGED deleted
      <3>1. /\ InOrder' /\ deleted' \subseteq Received'
            /\ cmds' \in [Cmd -> Command] /\ fromEngine' \in Seq(Message) /\ lost' \subseteq Cmd
            /\ FromEngineOK' /\ ToEngineOK'
            /\ Distinct(fromEngine') /\ Alive(fromEngine')
        BY <1>1, <1>5, <2>5, MsgInvToFour
      <3>2. TypeOK'
        BY <1>1, <1>3, <2>3, <2>5, <3>1 DEF TypeOK
      <3>3. Alive(toEngine)' /\ Alive(fromEngine)'
        BY <1>1, <2>5, <3>1 DEF Alive
      <3> QED
        BY <1>1, <3>1, <3>2, <3>3 DEF Distinct
    <2> QED
      BY <1>5, <2>4, <2>5 DEF StageThree
  <1> QED
    BY <1>4, <1>5 DEF RtPerform

\* The first message of mFromEngine is performed, and its command goes on to
\* the third stage or is done.
LEMMA MsgInvSendBack ==
  ASSUME MsgInv, fromEngine # <<>>, fromEngine' = Tail(fromEngine), UNCHANGED deleted,
         NEW m \in Message, m.cmd = Head(fromEngine).cmd,
         toEngine' = PutToEngine(m), cmds' \in [Cmd -> Command],
         \A d \in Cmd : d # m.cmd => cmds'[d].next = cmds[d].next,
         cmds'[m.cmd].next \in {3, 5}, m.do = "stage" => cmds'[m.cmd].next = 3
  PROVE  /\ InOrder' /\ deleted' \subseteq Received'
         /\ fromEngine' \in Seq(Message) /\ toEngine' \in Seq(Message)
         /\ FromEngineOK' /\ ToEngineOK'
         /\ Distinct(fromEngine') /\ Distinct(toEngine')
         /\ Alive(fromEngine') /\ Alive(toEngine')
  <1> DEFINE c == m.cmd
  <1> USE DEF MsgInv
  <1>1. fromEngine \in Seq(Message) /\ toEngine \in Seq(Message)
    BY DEF TypeOK
  <1>2. /\ Tail(fromEngine) \in Seq(Message) /\ 1 \in DOMAIN fromEngine /\ fromEngine[1] = Head(fromEngine)
        /\ \A i \in DOMAIN Tail(fromEngine) :
             /\ i \in Nat /\ i + 1 \in DOMAIN fromEngine
             /\ Tail(fromEngine)[i] = fromEngine[i + 1] /\ i + 1 # 1
    BY <1>1, Performed
  <1>3. /\ \A i \in DOMAIN fromEngine : fromEngine[i].cmd \in Cmd
        /\ \A i \in DOMAIN toEngine : toEngine[i].cmd \in Cmd
    BY InFifos
  <1>4. c \in Cmd /\ cmds[c].next \in {2, 4} /\ c \notin deleted /\ c \in Received
    BY <1>2, <1>3 DEF FromEngineOK, Alive, Received
  <1>5. \A i \in DOMAIN fromEngine' : fromEngine'[i].cmd # c
    BY <1>2 DEF Distinct
  <1>6. \A i \in DOMAIN toEngine : toEngine[i].cmd # c
    BY <1>4 DEF ToEngineOK
  <1>7. /\ toEngine' \in Seq(Message)
        /\ \A i \in DOMAIN toEngine' : /\ i \in Nat
                                       /\ \/ i \in DOMAIN toEngine /\ toEngine'[i] = toEngine[i]
                                          \/ i = Len(toEngine) + 1 /\ toEngine'[i] = m
        /\ DOMAIN toEngine = 1 .. Len(toEngine) /\ Len(toEngine) \in Nat
    <2>1. toEngine' = toEngine \/ toEngine' = Append(toEngine, m)
      BY PutEither
    <2>2. Len(toEngine) \in Nat
      BY <1>1
    <2> HIDE DEF MsgInv
    <2> QED
      BY <1>1, <2>1, <2>2, Written
  <1>8. Received' = Received
    BY <1>4 DEF Received
  <1>9. Distinct(fromEngine')
    <2>1. \A i, j \in DOMAIN fromEngine' : i + 1 = j + 1 => i = j
      BY <1>2
    <2> QED
      BY <1>2, <2>1 DEF Distinct
  <1>10. Distinct(toEngine')
    BY <1>6, <1>7 DEF Distinct
  <1>11. FromEngineOK'
    BY <1>2, <1>3, <1>5 DEF FromEngineOK
  <1>12. ToEngineOK'
    BY <1>3, <1>6, <1>7 DEF ToEngineOK
  <1>13. Alive(fromEngine') /\ Alive(toEngine')
    BY <1>2, <1>4, <1>7 DEF Alive
  <1> QED
    BY <1>2, <1>7, <1>8, <1>9, <1>10, <1>11, <1>12, <1>13 DEF InOrder

LEMMA MsgInvNrtPerform ==
  ASSUME MsgInv, NrtPerform
  PROVE  MsgInv'
  <1> DEFINE c == Head(fromEngine).cmd
  <1>1. /\ fromEngine # <<>> /\ fromEngine' = Tail(fromEngine) /\ spent' = spent + 1
        /\ lost' = IF ToEngineFull THEN lost \cup {c} ELSE lost
        /\ \/ cmds[c].next = 2 /\ StageTwo(c)
           \/ cmds[c].next = 4 /\ StageFour(c)
        /\ UNCHANGED <<deleted, rtBuf, rt, nrt, signalled, runFlag, dirty, language>>
    BY DEF NrtPerform
  <1>2. c \in Cmd /\ TypeOK /\ cmds[c] \in Command /\ c \notin deleted
    <2>1. fromEngine \in Seq(Message) /\ TypeOK
      BY DEF MsgInv, TypeOK
    <2>2. 1 \in DOMAIN fromEngine /\ fromEngine[1] = Head(fromEngine)
      BY <1>1, <2>1, Performed
    <2>3. c \in Cmd
      BY <2>1, <2>2, InFifos
    <2> QED
      BY <2>1, <2>2, <2>3 DEF TypeOK, MsgInv, Alive
  <1> HIDE DEF c
  <1>3. Stage(c) \in Message /\ Free(c) \in Message /\ Stage(c).cmd = c /\ Free(c).cmd = c /\ Free(c).do = "free"
    BY <1>2 DEF Stage, Free, Message
  <1>4. cmds[c].kind \in OnBuffer => NewData(c) \in Data /\ OldData(c) \in Data
    <2> SUFFICES ASSUME cmds[c].kind \in OnBuffer PROVE NewData(c) \in Data /\ OldData(c) \in Data
      OBVIOUS
    <2>1. cmds[c].buf \in Buf
      BY <1>2 DEF Command, OnBuffer
    <2>2. nrtBuf[cmds[c].buf] \in Data
      BY <1>2, <2>1 DEF TypeOK
    <2> QED
      BY <1>2, <2>2 DEF NewData, OldData, Data
  <1>5. CASE cmds[c].next = 2 /\ StageTwo(c)
    <2>1. /\ cmds' \in [Cmd -> Command] /\ cmds'[c].next = 3
          /\ \A d \in Cmd : d # c => cmds'[d].next = cmds[d].next
          /\ nrtBuf' \in [Buf -> Data] /\ text' \in [Cmd -> Data]
      <3>1. CASE cmds[c].kind \in OnBuffer
        <4>1. /\ cmds' = [cmds EXCEPT ![c].next = 3, ![c].free = OldData(c), ![c].snd = NewData(c)]
              /\ nrtBuf' = [nrtBuf EXCEPT ![cmds[c].buf] = NewData(c)]
          BY <1>5, <3>1 DEF StageTwo, StageTwoBuffer
        <4>2. text' \in [Cmd -> Data]
          <5>1. \E w : text' = [d \in Cmd |-> IF d \in w THEN c ELSE text[d]]
            BY <1>5, <3>1 DEF StageTwo, StageTwoBuffer
          <5>2. c \in Data /\ text \in [Cmd -> Data]
            BY <1>2 DEF TypeOK, Data
          <5> QED
            BY <5>1, <5>2
        <4>3. OldData(c) \in Data /\ NewData(c) \in Data /\ cmds \in [Cmd -> Command] /\ nrtBuf \in [Buf -> Data]
          BY <1>2, <1>4, <3>1 DEF TypeOK
        <4>4. /\ [cmds[c] EXCEPT !.next = 3, !.free = OldData(c), !.snd = NewData(c)] \in Command
              /\ [cmds[c] EXCEPT !.next = 3, !.free = OldData(c), !.snd = NewData(c)].next = 3
          <5> DEFINE o == OldData(c)
                     n == NewData(c)
          <5>1. o \in Data /\ n \in Data
            BY <4>3
          <5> HIDE DEF o, n
          <5>2. [cmds[c] EXCEPT !.next = 3, !.free = o, !.snd = n].next = 3
            BY <1>2 DEF Command
          <5>3. [cmds[c] EXCEPT !.next = 3] \in Command
            BY <1>2 DEF Command
          <5>4. [[cmds[c] EXCEPT !.next = 3] EXCEPT !.free = o] \in Command
            BY <5>1, <5>3 DEF Command
          <5>5. [[[cmds[c] EXCEPT !.next = 3] EXCEPT !.free = o] EXCEPT !.snd = n] \in Command
            BY <5>1, <5>4 DEF Command
          <5>6. [cmds[c] EXCEPT !.next = 3, !.free = o, !.snd = n]
                = [[[cmds[c] EXCEPT !.next = 3] EXCEPT !.free = o] EXCEPT !.snd = n]
            BY <1>2 DEF Command
          <5> QED
            BY <5>2, <5>5, <5>6 DEF o, n
        <4>5. /\ cmds' \in [Cmd -> Command] /\ cmds'[c].next = 3
              /\ \A d \in Cmd : d # c => cmds'[d].next = cmds[d].next
          BY <1>2, <4>1, <4>3, <4>4
        <4> QED
          BY <4>1, <4>2, <4>3, <4>5
      <3>2. CASE cmds[c].kind \notin OnBuffer
        <4>1. cmds' = [cmds EXCEPT ![c].next = 3] /\ UNCHANGED <<nrtBuf, text>>
          BY <1>5, <3>2 DEF StageTwo
        <4>2. [cmds[c] EXCEPT !.next = 3] \in Command /\ [cmds[c] EXCEPT !.next = 3].next = 3
          BY <1>2 DEF Command
        <4> QED
          BY <1>2, <4>1, <4>2 DEF TypeOK
      <3> QED
        BY <3>1, <3>2
    <2>2. PICK m \in {Stage(c), Free(c)} : toEngine' = PutToEngine(m)
      BY <1>5 DEF StageTwo
    <2>3. m \in Message /\ m.cmd = c
      BY <1>3
    <2>4. /\ InOrder' /\ deleted' \subseteq Received'
          /\ fromEngine' \in Seq(Message) /\ toEngine' \in Seq(Message)
          /\ FromEngineOK' /\ ToEngineOK'
          /\ Distinct(fromEngine') /\ Distinct(toEngine')
          /\ Alive(fromEngine') /\ Alive(toEngine')
      BY <1>1, <2>1, <2>2, <2>3, MsgInvSendBack DEF c
    <2>5. answered' \subseteq Cmd /\ UNCHANGED <<freed, main>>
      BY <1>2, <1>5 DEF StageTwo, TypeOK
    <2>6. TypeOK'
      <3>1. lost' \subseteq Cmd /\ spent' \in Nat
        BY <1>1, <1>2 DEF TypeOK
      <3>2. UNCHANGED <<deleted, rtBuf, rt, nrt, signalled, runFlag, dirty, copier, copied>>
        BY <1>1 DEF language
      <3> QED
        BY <1>2, <2>1, <2>4, <2>5, <3>1, <3>2 DEF TypeOK
    <2> QED
      BY <1>1, <2>4, <2>6 DEF MsgInv, Alive
  <1>6. CASE cmds[c].next = 4 /\ StageFour(c)
    <2>1. [cmds[c] EXCEPT !.next = 5] \in Command /\ [cmds[c] EXCEPT !.next = 5].next = 5
      BY <1>2 DEF Command
    <2>2. cmds' = [cmds EXCEPT ![c].next = 5] /\ toEngine' = PutToEngine(Free(c))
      BY <1>6 DEF StageFour
    <2>3. /\ cmds' \in [Cmd -> Command] /\ cmds'[c].next = 5
          /\ \A d \in Cmd : d # c => cmds'[d].next = cmds[d].next
      BY <1>2, <2>1, <2>2 DEF TypeOK
    <2>4. /\ InOrder' /\ deleted' \subseteq Received'
          /\ fromEngine' \in Seq(Message) /\ toEngine' \in Seq(Message)
          /\ FromEngineOK' /\ ToEngineOK'
          /\ Distinct(fromEngine') /\ Distinct(toEngine')
          /\ Alive(fromEngine') /\ Alive(toEngine')
      BY <1>1, <1>3, <2>2, <2>3, MsgInvSendBack DEF c
    <2>5. /\ answered' \subseteq Cmd /\ freed' \subseteq Cmd
          /\ main' \in {"waiting", "cleanup", "stopped", "cleared", "joining", "exited"}
          /\ UNCHANGED <<nrtBuf, text>>
      BY <1>2, <1>6 DEF StageFour, TypeOK, Command, Data
    <2>6. TypeOK'
      <3>1. lost' \subseteq Cmd /\ spent' \in Nat
        BY <1>1, <1>2 DEF TypeOK
      <3>2. UNCHANGED <<deleted, rtBuf, rt, nrt, signalled, runFlag, dirty, copier, copied>>
        BY <1>1 DEF language
      <3> QED
        BY <1>2, <2>3, <2>4, <2>5, <3>1, <3>2 DEF TypeOK
    <2> QED
      BY <1>1, <2>4, <2>6 DEF MsgInv, Alive
  <1> QED
    BY <1>1, <1>5, <1>6

\* Steps that touch neither the commands nor the FIFOs.
LEMMA MsgInvOther ==
  ASSUME MsgInv, UNCHANGED <<cmds, deleted, fromEngine, toEngine>>, TypeOK'
  PROVE  MsgInv'
  BY DEF MsgInv, InOrder, Received, FromEngineOK, ToEngineOK, Distinct, Alive

\* The rt thread writes samples: only the contents of data and marks are changed,
\* and no mark is taken back.
LEMMA SamplesWritten ==
  ASSUME TypeOK, NEW b \in Buf, WriteSamples(b)
  PROVE  /\ UNCHANGED <<cmds, deleted, answered, lost, fromEngine, spent, toEngine, rtBuf, nrtBuf,
                       freed, rt, nrt, signalled, runFlag, main, copier, copied>>
         /\ text' \in [Cmd -> Data] /\ \A x \in Cmd : text'[x] \in {text[x], None}
         /\ dirty' \in [Buf -> BOOLEAN] /\ \A d \in Buf : dirty[d] => dirty'[d]
  <1>1. UNCHANGED <<cmds, deleted, answered, lost, fromEngine, spent, toEngine, rtBuf, nrtBuf,
                    freed, rt, nrt, signalled, runFlag, main, copier, copied>>
    BY DEF WriteSamples, fifos, threads, language
  <1>2. text' \in [Cmd -> Data] /\ \A x \in Cmd : text'[x] \in {text[x], None}
    <2>1. text \in [Cmd -> Data] /\ None \in Data
      BY DEF TypeOK, Data
    <2>2. text' = [text EXCEPT ![rtBuf[b]] = None]
      BY DEF WriteSamples
    <2> QED
      BY <2>1, <2>2
  <1>3. dirty' \in [Buf -> BOOLEAN] /\ \A d \in Buf : dirty[d] => dirty'[d]
    <2>1. dirty \in [Buf -> BOOLEAN] /\ dirty' \in {dirty, [dirty EXCEPT ![b] = TRUE]}
      BY DEF WriteSamples, TypeOK
    <2> QED
      BY <2>1
  <1> QED
    BY <1>1, <1>2, <1>3

LEMMA NextMsgInv == MsgInv /\ [Next]_vars => MsgInv'
  <1> SUFFICES ASSUME MsgInv, [Next]_vars PROVE MsgInv'
    OBVIOUS
  <1>a. TypeOK
    BY DEF MsgInv
  <1>1. ASSUME NEW r \in Requests, Receive(r) PROVE MsgInv'
    BY <1>1, MsgInvReceive
  <1>2. CASE CallbackBegin
    BY <1>a, <1>2, MsgInvOther DEF CallbackBegin, FreeFromEngine, TypeOK, buffers, language
  <1>3. CASE RtPerform
    BY <1>3, MsgInvRtPerform
  <1>4. CASE RtPerformed
    BY <1>a, <1>4, MsgInvOther DEF RtPerformed, TypeOK, fifos, buffers, language
  <1>5. CASE CallbackEnd
    BY <1>a, <1>5, MsgInvOther DEF CallbackEnd, Signal, TypeOK, fifos, buffers, language
  <1>6. CASE Nrt
    <2>1. CASE NrtPerform
      BY <2>1, MsgInvNrtPerform
    <2>2. CASE Nrt /\ ~NrtPerform
      <3>1. /\ UNCHANGED <<cmds, deleted, answered, lost, fifos, buffers, rt, runFlag, main, dirty, language>>
            /\ nrt' \in {"flag", "wait", "test", "blocking", "asleep", "lock", "perform", "exited"}
            /\ signalled' \in BOOLEAN
        BY <1>a, <2>2 DEF Nrt, NrtCheckFlag, NrtCatchUp, NrtTest, NrtSleep, NrtLock, NrtUnlock, NrtMove, TypeOK
      <3> QED
        BY <1>a, <3>1, MsgInvOther DEF TypeOK, fifos, buffers, language
    <2> QED
      BY <1>6, <2>1, <2>2
  <1>7. CASE Main
    <2>1. /\ UNCHANGED <<cmds, deleted, answered, lost, fifos, rtBuf, nrtBuf, text, rt, dirty, language>>
          /\ nrt' \in {"flag", "wait", "test", "blocking", "asleep", "lock", "perform", "exited"}
          /\ signalled' \in BOOLEAN /\ runFlag' \in BOOLEAN /\ freed' \subseteq Cmd
          /\ main' \in {"waiting", "cleanup", "stopped", "cleared", "joining", "exited"}
      <3>1. MainJoin => freed' \subseteq Cmd
        BY <1>a DEF MainJoin, TypeOK, Data
      <3> QED
        BY <1>a, <1>7, <3>1 DEF Main, MainStop, MainClearFlag, MainSignal, MainJoin, MainMove, Signal, TypeOK
    <2> QED
      BY <1>a, <2>1, MsgInvOther DEF TypeOK, fifos, language
  <1>8. CASE Copier
    <2>1. /\ UNCHANGED <<cmds, deleted, answered, lost, fifos, buffers, threads>>
          /\ dirty' \in [Buf -> BOOLEAN]
          /\ copier' \in [at : {"idle"}] \cup [at : {"copied"}, buf : Buf]
          /\ copied' \in [Buf -> [data : Data, text : Data]]
      <3>1. ASSUME NEW b \in Buf PROVE Now(b) \in [data : Data, text : Data]
        BY <1>a, NoneAssumption DEF Now, TypeOK, Data
      <3>2. ASSUME NEW b \in Buf, Copy(b)
            PROVE  /\ dirty' = dirty /\ copier' \in [at : {"copied"}, buf : Buf]
                   /\ copied' \in [Buf -> [data : Data, text : Data]]
        BY <1>a, <3>1, <3>2 DEF Copy, TypeOK
      <3>3. ASSUME CopyEnd
            PROVE  /\ dirty' \in [Buf -> BOOLEAN] /\ copier' \in [at : {"idle"}] /\ copied' = copied
        BY <1>a, <3>3 DEF CopyEnd, TypeOK
      <3>4. UNCHANGED <<cmds, deleted, answered, lost, fifos, buffers, threads>>
        BY <1>8 DEF Copier, Copy, CopyEnd, CopierMove
      <3>5. dirty \in [Buf -> BOOLEAN] /\ copied \in [Buf -> [data : Data, text : Data]]
        BY <1>a DEF TypeOK
      <3> QED
        BY <1>8, <3>2, <3>3, <3>4, <3>5 DEF Copier
    <2> QED
      BY <1>a, <2>1, MsgInvOther DEF TypeOK, fifos, buffers, threads
  <1>9. ASSUME NEW b \in Buf, WriteSamples(b) PROVE MsgInv'
    BY <1>a, <1>9, SamplesWritten, MsgInvOther DEF TypeOK
  <1>10. CASE UNCHANGED vars
    BY <1>a, <1>10, MsgInvOther DEF vars, TypeOK, fifos, buffers, threads, language
  <1> QED
    BY <1>1, <1>2, <1>3, <1>4, <1>5, <1>6, <1>7, <1>8, <1>9, <1>10 DEF Next, Rt

\* The type of every variable holds in every reachable state.
THEOREM TypeCorrect == Spec => []TypeOK
  <1>1. MsgInv => TypeOK
    BY DEF MsgInv
  <1> QED
    BY InitMsgInv, NextMsgInv, <1>1, PTL DEF Spec

\* A command in flight is in one message only, and is not deleted: no thread
\* works on a command that the other one works on (CallNextStage).
THEOREM InOneMessage == Spec => []OneMessageEach
  <1>1. MsgInv => OneMessageEach
    <2> SUFFICES ASSUME MsgInv PROVE OneMessageEach
      OBVIOUS
    <2>1. \A m \in InFlight : m.cmd \notin deleted
      BY DEF InFlight, MsgInv, Alive
    <2>2. \A i \in DOMAIN fromEngine, j \in DOMAIN toEngine : fromEngine[i].cmd # toEngine[j].cmd
      BY DEF MsgInv, FromEngineOK, ToEngineOK
    <2> QED
      BY <2>1, <2>2 DEF OneMessageEach, MsgInv, Distinct
  <1> QED
    BY InitMsgInv, NextMsgInv, <1>1, PTL DEF Spec

\* The pool of the real-time thread gets the memory of a command back only from
\* the audio callback (FreeSequencedCommand, DoSequencedCommand).
THEOREM DeletedInCallback == Spec => DeletedByRt
  <1>1. [Next]_vars => [deleted' # deleted => rt = "perform"]_vars
    BY DEF Next, Receive, WriteSamples, Rt, CallbackBegin, RtPerform, RtPerformed, CallbackEnd, Nrt,
           NrtCheckFlag, NrtCatchUp, NrtTest, NrtSleep, NrtLock, NrtUnlock, NrtMove, NrtPerform,
           Main, MainStop, MainClearFlag, MainSignal, MainJoin, MainMove,
           Copier, Copy, CopyEnd, CopierMove, vars
  <1> QED
    BY <1>1, PTL DEF Spec, DeletedByRt

-----------------------------------------------------------------------------
(* Which commands own which sample data. *)

\* Data of buffer b that a second stage has allocated.
Owned(x, b) == x \in Cmd /\ cmds[x].buf = b /\ cmds[x].next \in {3, 4, 5}

\* The same after a step, for the data and the buffer of before.
OwnedNext(x, b) == x \in Cmd /\ cmds'[x].buf = b /\ cmds'[x].next \in {3, 4, 5}

\* Command c is going to free data.
Pending(c) == cmds[c].next \in {3, 4} /\ cmds[c].free # None

Sent(i) == cmds[toEngine[i].cmd]
IsStage(i) == toEngine[i].do = "stage"

Fresh ==
  \A c \in Cmd : /\ cmds[c].next \in {0, 2} => cmds[c].free = None /\ cmds[c].snd = None
                 /\ cmds[c].kind \notin Swaps => cmds[c].free = None
CopiesOwned ==
  \A b \in Buf :
    /\ nrtBuf[b] # None => Owned(nrtBuf[b], b) /\ nrtBuf[b] \notin freed
    /\ rtBuf[b] # None => Owned(rtBuf[b], b) /\ rtBuf[b] \notin freed
FreedOwned == \A x \in freed : cmds[x].next \in {3, 4, 5}
PendingOwned ==
  \A c \in Cmd : Pending(c) =>
    /\ Owned(cmds[c].free, cmds[c].buf) /\ cmds[c].free \notin freed
    /\ cmds[c].buf \in Buf => nrtBuf[cmds[c].buf] # cmds[c].free
PendingDistinct ==
  \A c, d \in Cmd : Pending(c) /\ Pending(d) /\ cmds[c].free = cmds[d].free => c = d
FourSwapped ==
  \A c \in Cmd : Pending(c) /\ cmds[c].next = 4 /\ cmds[c].buf \in Buf =>
    rtBuf[cmds[c].buf] # cmds[c].free
SendsOwned ==
  \A i \in DOMAIN toEngine : IsStage(i) /\ Sent(i).snd # None =>
    Owned(Sent(i).snd, Sent(i).buf) /\ Sent(i).snd \notin freed
SendsOrdered ==
  \A i, j \in DOMAIN toEngine : i <= j /\ IsStage(i) /\ IsStage(j) /\ Sent(j).snd # None =>
    Sent(j).snd # Sent(i).free
FourOrdered ==
  \A c \in Cmd, i \in DOMAIN toEngine :
    Pending(c) /\ cmds[c].next = 4 /\ IsStage(i) => Sent(i).snd # cmds[c].free

Own == /\ Fresh /\ CopiesOwned /\ FreedOwned /\ PendingOwned /\ PendingDistinct
       /\ FourSwapped /\ SendsOwned /\ SendsOrdered /\ FourOrdered

\* Until the buffers are freed at the end of the program.
OwnInv == main = "exited" \/ Own

LEMMA InitOwn == Init => Own
  <1> SUFFICES ASSUME Init PROVE Own
    OBVIOUS
  <1>1. /\ \A c \in Cmd : cmds[c] = Unborn
        /\ \A b \in Buf : rtBuf[b] = None /\ nrtBuf[b] = None
        /\ freed = {} /\ toEngine = <<>>
    BY DEF Init
  <1> QED
    BY <1>1 DEF Own, Fresh, CopiesOwned, FreedOwned, PendingOwned, PendingDistinct,
                FourSwapped, SendsOwned, SendsOrdered, FourOrdered, Pending, Unborn

\* Steps that touch neither the commands nor the buffers.
LEMMA OwnSame ==
  ASSUME Own, UNCHANGED <<cmds, toEngine, rtBuf, nrtBuf, freed>>
  PROVE  Own'
  BY DEF Own, Fresh, CopiesOwned, FreedOwned, PendingOwned, PendingDistinct,
         FourSwapped, SendsOwned, SendsOrdered, FourOrdered, Pending, Owned, Sent, IsStage

\* A received command owns nothing, and owes nothing.
LEMMA OwnReceive ==
  ASSUME MsgInv, Own, NEW r \in Requests, Receive(r)
  PROVE  Own'
  <1> DEFINE d == NextCmd
  <1>1. TypeOK /\ d \in Cmd /\ cmds[d].next = 0
    BY NextIsUnborn DEF Receive, Received, MsgInv
  <1>2. /\ cmds' = [cmds EXCEPT ![d] = New(r)] /\ cmds \in [Cmd -> Command]
        /\ UNCHANGED <<toEngine, rtBuf, nrtBuf, freed>>
    BY <1>1 DEF Receive, TypeOK, buffers
  <1>3. New(r).next = 2 /\ New(r).free = None /\ New(r).snd = None
    BY DEF New
  <1>4. \A e \in Cmd : e # d => cmds'[e] = cmds[e]
    BY <1>2
  <1>5. cmds'[d].next = 2 /\ cmds'[d].free = None /\ cmds'[d].snd = None
    BY <1>1, <1>2, <1>3
  <1>6. \A i \in DOMAIN toEngine : toEngine[i].cmd \in Cmd /\ toEngine[i].cmd # d
    BY <1>1, InFifos DEF MsgInv, ToEngineOK
  <1> HIDE DEF d
  <1>7. \A x, b : Owned(x, b) => Owned(x, b)'
    BY <1>1, <1>4 DEF Owned
  <1>8. \A c \in Cmd : Pending(c)' => Pending(c) /\ cmds'[c] = cmds[c] /\ c # d
    BY <1>4, <1>5 DEF Pending
  <1>9. \A i \in DOMAIN toEngine : Sent(i)' = Sent(i) /\ IsStage(i)' = IsStage(i)
    BY <1>2, <1>4, <1>6 DEF Sent, IsStage
  <1>10. Fresh'
    BY <1>4, <1>5 DEF Fresh, Own
  <1>11. CopiesOwned' /\ SendsOwned'
    BY <1>2, <1>7, <1>9 DEF CopiesOwned, SendsOwned, Own
  <1>12. FreedOwned'
    <2>1. freed \subseteq Cmd
      BY <1>1 DEF TypeOK
    <2> QED
      BY <1>1, <1>2, <1>4, <2>1 DEF FreedOwned, Own
  <1>13. PendingOwned' /\ PendingDistinct' /\ FourSwapped'
    BY <1>2, <1>7, <1>8 DEF PendingOwned, PendingDistinct, FourSwapped, Own
  <1>14. SendsOrdered' /\ FourOrdered'
    BY <1>2, <1>8, <1>9 DEF SendsOrdered, FourOrdered, Own
  <1> QED
    BY <1>10, <1>11, <1>12, <1>13, <1>14 DEF Own

\* The command of the first message of mToEngine goes on to its fourth stage, and
\* perhaps another one is received.
MovedToFour(c) ==
  /\ \A e \in Cmd : e # c =>
       \/ cmds'[e] = cmds[e]
       \/ cmds[e].next = 0 /\ cmds'[e].next = 2 /\ cmds'[e].free = None /\ cmds'[e].snd = None
  /\ cmds'[c].next = 4
  /\ cmds'[c].kind = cmds[c].kind /\ cmds'[c].buf = cmds[c].buf
  /\ cmds'[c].free = cmds[c].free /\ cmds'[c].snd = cmds[c].snd

LEMMA StageThreeMoves ==
  ASSUME MsgInv, NEW c \in Cmd, cmds[c].next = 3, StageThree(c)
  PROVE  MovedToFour(c)
  <1>1. TypeOK /\ cmds \in [Cmd -> Command] /\ cmds[c] \in Command
    BY DEF MsgInv, TypeOK
  <1>2. /\ [cmds[c] EXCEPT !.next = 4].next = 4
        /\ [cmds[c] EXCEPT !.next = 4].kind = cmds[c].kind
        /\ [cmds[c] EXCEPT !.next = 4].buf = cmds[c].buf
        /\ [cmds[c] EXCEPT !.next = 4].free = cmds[c].free
        /\ [cmds[c] EXCEPT !.next = 4].snd = cmds[c].snd
    BY <1>1 DEF Command
  <1>3. cmds' = [cmds EXCEPT ![c].next = 4]
    BY DEF StageThree, SendToStageFour
  <1> QED
    BY <1>1, <1>2, <1>3 DEF MovedToFour

LEMMA OwnRtPerform ==
  ASSUME MsgInv, Own, RtPerform
  PROVE  Own'
  <1> DEFINE c == Head(toEngine).cmd
  <1>1. /\ TypeOK /\ toEngine # <<>> /\ toEngine' = Tail(toEngine)
        /\ UNCHANGED <<nrtBuf, freed>>
        /\ c \in Cmd /\ cmds[c] \in Command
        /\ 1 \in DOMAIN toEngine /\ toEngine[1] = Head(toEngine)
        /\ \A i \in DOMAIN toEngine' : /\ toEngine'[i].cmd # c
                                       /\ i + 1 \in DOMAIN toEngine /\ toEngine'[i] = toEngine[i + 1]
                                       /\ toEngine'[i].cmd \in Cmd
    BY ToEnginePopped DEF RtPerform, MsgInv, TypeOK
  <1>2. \A i \in DOMAIN toEngine' : i \in Nat /\ 1 <= i + 1
    BY <1>1 DEF TypeOK
  <1>3. CASE UNCHANGED <<cmds, rtBuf>>
    <2>1. \A i \in DOMAIN toEngine' : Sent(i)' = Sent(i + 1) /\ IsStage(i)' = IsStage(i + 1)
      BY <1>1, <1>3 DEF Sent, IsStage
    <2>2. SendsOwned' /\ FourOrdered'
      BY <1>1, <1>3, <2>1 DEF SendsOwned, FourOrdered, Own, Pending, Owned
    <2>3. SendsOrdered'
      <3>1. \A i, j \in DOMAIN toEngine' : i <= j => i + 1 <= j + 1
        BY <1>2
      <3> QED
        BY <1>1, <2>1, <3>1 DEF SendsOrdered, Own
    <2> QED
      BY <1>1, <1>3, <2>2, <2>3
      DEF Own, Fresh, CopiesOwned, FreedOwned, PendingOwned, PendingDistinct, FourSwapped, Pending, Owned
  <1>4. CASE Head(toEngine).do = "stage" /\ StageThree(c)
    <2>1. cmds[c].next = 3 /\ IsStage(1) /\ Sent(1) = cmds[c]
      BY <1>1, <1>4 DEF MsgInv, ToEngineOK, IsStage, Sent
    <2>2. MovedToFour(c)
      BY <1>1, <1>4, <2>1, StageThreeMoves
    <2>3. /\ cmds[c].kind \in Swaps => rtBuf' = [rtBuf EXCEPT ![cmds[c].buf] = cmds[c].snd]
          /\ cmds[c].kind \notin Swaps => rtBuf' = rtBuf
          /\ cmds[c].kind \in Swaps => cmds[c].buf \in Buf
          /\ rtBuf \in [Buf -> Data]
      BY <1>1, <1>4 DEF StageThree, StageThreeSwap, TypeOK, Command, Swaps, OnBuffer
    <2> HIDE DEF c
    <2>4. \A x, b : Owned(x, b) => Owned(x, b)'
      BY <2>1, <2>2 DEF Owned, MovedToFour
    <2>5. \A e \in Cmd : Pending(e)' =>
            /\ Pending(e)
            /\ cmds'[e].free = cmds[e].free /\ cmds'[e].buf = cmds[e].buf
            /\ cmds'[e].next = 4 => e = c \/ cmds[e].next = 4
      BY <2>1, <2>2 DEF Pending, MovedToFour
    <2>6. \A i \in DOMAIN toEngine' :
            /\ IsStage(i)' = IsStage(i + 1)
            /\ Sent(i)' = Sent(i + 1)
      <3>1. \A i \in DOMAIN toEngine : cmds[toEngine[i].cmd].next # 0
        BY DEF MsgInv, ToEngineOK
      <3> QED
        BY <1>1, <2>2, <3>1 DEF IsStage, Sent, MovedToFour
    <2>7. Fresh'
      BY <2>1, <2>2 DEF Fresh, Own, MovedToFour
    <2>8. CopiesOwned'
      <3>1. \A b \in Buf : nrtBuf'[b] # None => Owned(nrtBuf'[b], b) /\ nrtBuf'[b] \notin freed
        BY <1>1 DEF CopiesOwned, Own
      <3>2. ASSUME NEW b \in Buf, rtBuf'[b] # None
            PROVE  Owned(rtBuf'[b], b) /\ rtBuf'[b] \notin freed
        <4>1. CASE rtBuf'[b] = rtBuf[b]
          BY <3>2, <4>1 DEF CopiesOwned, Own
        <4>2. CASE rtBuf'[b] # rtBuf[b]
          <5>1. rtBuf'[b] = cmds[c].snd /\ b = cmds[c].buf
            BY <2>3, <4>2
          <5> QED
            BY <1>1, <2>1, <3>2, <5>1 DEF SendsOwned, Own
        <4> QED
          BY <4>1, <4>2
      <3> QED
        BY <1>1, <2>4, <3>1, <3>2 DEF CopiesOwned, Owned
    <2>9. FreedOwned'
      <3>1. freed \subseteq Cmd
        BY <1>1 DEF TypeOK
      <3> QED
        BY <1>1, <2>1, <2>2, <3>1 DEF FreedOwned, Own, MovedToFour
    <2>10. PendingOwned' /\ PendingDistinct'
      BY <1>1, <2>4, <2>5 DEF PendingOwned, PendingDistinct, Own
    <2>11. FourSwapped'
      <3> SUFFICES ASSUME NEW e \in Cmd, Pending(e)', cmds'[e].next = 4, cmds[e].buf \in Buf
                   PROVE  rtBuf'[cmds[e].buf] # cmds[e].free
        BY <2>5 DEF FourSwapped
      <3>1. Pending(e) /\ cmds[e].free # None
        BY <2>5 DEF Pending
      <3>2. CASE rtBuf'[cmds[e].buf] = cmds[c].snd
        <4>1. CASE e = c
          BY <1>1, <2>1, <3>1, <3>2, <4>1 DEF SendsOrdered, Own
        <4>2. CASE e # c
          <5>1. cmds[e].next = 4
            BY <2>5, <4>2
          <5> QED
            BY <1>1, <2>1, <3>1, <3>2, <5>1 DEF FourOrdered, Own
        <4> QED
          BY <4>1, <4>2
      <3>3. CASE rtBuf'[cmds[e].buf] # cmds[c].snd
        <4>1. rtBuf'[cmds[e].buf] = rtBuf[cmds[e].buf]
          BY <2>3, <3>3
        <4>2. CASE e # c
          <5>1. cmds[e].next = 4
            BY <2>5, <4>2
          <5> QED
            BY <3>1, <4>1, <5>1 DEF FourSwapped, Own
        <4>3. CASE e = c
          BY <2>3, <3>1, <3>3, <4>3 DEF Fresh, Own
        <4> QED
          BY <4>2, <4>3
      <3> QED
        BY <3>2, <3>3
    <2>12. SendsOwned'
      BY <1>1, <2>4, <2>6 DEF SendsOwned, Own
    <2>13. SendsOrdered'
      <3>1. \A i, j \in DOMAIN toEngine' : i <= j => i + 1 <= j + 1
        BY <1>2
      <3> QED
        BY <1>1, <2>6, <3>1 DEF SendsOrdered, Own
    <2>14. FourOrdered'
      <3> SUFFICES ASSUME NEW e \in Cmd, NEW i \in DOMAIN toEngine',
                          Pending(e)', cmds'[e].next = 4, IsStage(i + 1)
                   PROVE  Sent(i + 1).snd # cmds[e].free
        BY <2>5, <2>6 DEF FourOrdered
      <3>1. i + 1 \in DOMAIN toEngine /\ 1 <= i + 1
        BY <1>1, <1>2
      <3>2. CASE e = c
        <4>1. cmds[c].free # None
          BY <2>5, <3>2 DEF Pending
        <4> QED
          BY <1>1, <2>1, <3>1, <3>2, <4>1 DEF SendsOrdered, Own
      <3>3. CASE e # c
        BY <2>5, <3>1, <3>3 DEF FourOrdered, Own
      <3> QED
        BY <3>2, <3>3
    <2> QED
      BY <2>7, <2>8, <2>9, <2>10, <2>11, <2>12, <2>13, <2>14 DEF Own
  <1> QED
    BY <1>3, <1>4 DEF RtPerform

\* The command of the first message of mFromEngine: what both even stages leave alone.
LEMMA FirstOfFromEngine ==
  ASSUME MsgInv, fromEngine # <<>>
  PROVE  /\ TypeOK
         /\ Head(fromEngine).cmd \in Cmd /\ cmds[Head(fromEngine).cmd] \in Command
         /\ cmds[Head(fromEngine).cmd].next \in {2, 4}
         /\ \A i \in DOMAIN toEngine : toEngine[i].cmd \in Cmd /\ toEngine[i].cmd # Head(fromEngine).cmd
  <1> DEFINE c == Head(fromEngine).cmd
  <1>1. fromEngine \in Seq(Message) /\ TypeOK
    BY DEF MsgInv, TypeOK
  <1>2. 1 \in DOMAIN fromEngine /\ fromEngine[1] = Head(fromEngine)
    BY <1>1, Performed
  <1>3. c \in Cmd /\ \A i \in DOMAIN toEngine : toEngine[i].cmd \in Cmd
    BY <1>1, <1>2, InFifos
  <1>4. cmds[c] \in Command /\ cmds[c].next \in {2, 4}
    BY <1>1, <1>2, <1>3 DEF TypeOK, MsgInv, FromEngineOK
  <1>5. \A i \in DOMAIN toEngine : cmds[toEngine[i].cmd].next \in {3, 5}
    BY DEF MsgInv, ToEngineOK
  <1> HIDE DEF c
  <1>6. \A i \in DOMAIN toEngine : toEngine[i].cmd # c
    BY <1>4, <1>5
  <1> QED
    BY <1>1, <1>3, <1>4, <1>6 DEF c

\* mToEngine after the message of a command whose message it was not in.
LEMMA ToEngineAfter ==
  ASSUME TypeOK, NEW m \in Message, toEngine' = PutToEngine(m)
  PROVE  \A i \in DOMAIN toEngine' :
           /\ i \in Nat
           /\ \/ i \in DOMAIN toEngine /\ i <= Len(toEngine) /\ toEngine'[i] = toEngine[i]
              \/ i = Len(toEngine) + 1 /\ toEngine'[i] = m
  <1>1. toEngine \in Seq(Message) /\ Len(toEngine) \in Nat
    BY DEF TypeOK
  <1>2. toEngine' = toEngine \/ toEngine' = Append(toEngine, m)
    BY PutEither
  <1> QED
    BY <1>1, <1>2, Written

\* A fourth stage frees what no copy and no other command has.
LEMMA OwnStageFour ==
  ASSUME MsgInv, Own, NrtPerform,
         cmds[Head(fromEngine).cmd].next = 4, StageFour(Head(fromEngine).cmd)
  PROVE  Own'
  <1> DEFINE c == Head(fromEngine).cmd
             x == cmds[c].free
  <1>1. /\ TypeOK /\ c \in Cmd /\ cmds[c] \in Command /\ cmds[c].next = 4
        /\ \A i \in DOMAIN toEngine : toEngine[i].cmd \in Cmd /\ toEngine[i].cmd # c
    BY FirstOfFromEngine DEF NrtPerform
  <1>2. /\ cmds' = [cmds EXCEPT ![c].next = 5]
        /\ freed' = freed \cup ({x} \ {None})
        /\ toEngine' = PutToEngine(Free(c))
        /\ UNCHANGED <<nrtBuf, rtBuf>>
    BY DEF StageFour, NrtPerform
  <1> HIDE DEF c
  <1>3. /\ cmds'[c].next = 5 /\ cmds'[c].buf = cmds[c].buf /\ cmds'[c].kind = cmds[c].kind
        /\ cmds'[c].free = cmds[c].free
        /\ \A e \in Cmd : e # c => cmds'[e] = cmds[e]
    BY <1>1, <1>2 DEF TypeOK, Command
  <1>4. \A i \in DOMAIN toEngine' : IsStage(i)' =>
          i \in DOMAIN toEngine /\ IsStage(i) /\ toEngine'[i] = toEngine[i] /\ Sent(i)' = Sent(i)
    <2>1. Free(c) \in Message /\ Free(c).do = "free"
      BY <1>1 DEF Free, Message
    <2>2. \A i \in DOMAIN toEngine' :
            (i \in DOMAIN toEngine /\ toEngine'[i] = toEngine[i]) \/ toEngine'[i] = Free(c)
      BY <1>1, <1>2, <2>1, ToEngineAfter
    <2> QED
      BY <1>1, <1>3, <2>1, <2>2 DEF IsStage, Sent
  <1>5. \A y, b : Owned(y, b) => Owned(y, b)'
    BY <1>1, <1>3 DEF Owned
  <1>6. \A e \in Cmd : Pending(e)' => Pending(e) /\ e # c /\ cmds'[e] = cmds[e]
    BY <1>3 DEF Pending
  <1>7. x # None => Pending(c) /\ Owned(x, cmds[c].buf)
    BY <1>1 DEF Pending, PendingOwned, Own
  <1>8. Fresh'
    BY <1>3 DEF Fresh, Own
  <1>9. CopiesOwned'
    <2>1. ASSUME NEW b \in Buf, nrtBuf[b] # None
          PROVE  Owned(nrtBuf[b], b) /\ nrtBuf[b] \notin freed'
      <3>1. Owned(nrtBuf[b], b) /\ nrtBuf[b] \notin freed
        BY <2>1 DEF CopiesOwned, Own
      <3>2. nrtBuf[b] = x => b = cmds[c].buf /\ nrtBuf[b] # x
        BY <1>1, <1>7, <2>1, <3>1 DEF Owned, PendingOwned, Own
      <3> QED
        BY <1>2, <3>1, <3>2
    <2>2. ASSUME NEW b \in Buf, rtBuf[b] # None
          PROVE  Owned(rtBuf[b], b) /\ rtBuf[b] \notin freed'
      <3>1. Owned(rtBuf[b], b) /\ rtBuf[b] \notin freed
        BY <2>2 DEF CopiesOwned, Own
      <3>2. rtBuf[b] = x => b = cmds[c].buf /\ rtBuf[b] # x
        BY <1>1, <1>7, <2>2, <3>1 DEF Owned, FourSwapped, Own
      <3> QED
        BY <1>2, <3>1, <3>2
    <2> QED
      BY <1>2, <1>5, <2>1, <2>2 DEF CopiesOwned, Owned
  <1>10. FreedOwned'
    <2>1. freed \subseteq Cmd
      BY <1>1 DEF TypeOK
    <2>2. \A y \in freed' : y \in Cmd /\ cmds[y].next \in {3, 4, 5}
      BY <1>2, <1>7, <2>1 DEF FreedOwned, Own, Owned
    <2> QED
      BY <1>3, <2>2 DEF FreedOwned
  <1>11. PendingOwned'
    <2> SUFFICES ASSUME NEW e \in Cmd, Pending(e)'
                 PROVE  /\ Owned(cmds[e].free, cmds[e].buf) /\ cmds[e].free \notin freed'
                        /\ cmds[e].buf \in Buf => nrtBuf[cmds[e].buf] # cmds[e].free
      BY <1>2, <1>5, <1>6 DEF PendingOwned, Owned
    <2>1. Pending(e) /\ e # c
      BY <1>6
    <2>2. cmds[e].free # x
      BY <1>1, <1>7, <2>1 DEF PendingDistinct, Own, Pending
    <2> QED
      BY <1>2, <2>1, <2>2 DEF PendingOwned, Own
  <1>12. PendingDistinct' /\ FourSwapped'
    BY <1>2, <1>6 DEF PendingDistinct, FourSwapped, Own
  <1>13. SendsOwned'
    <2>1. ASSUME NEW i \in DOMAIN toEngine', IsStage(i)', Sent(i).snd # None
          PROVE  Owned(Sent(i).snd, Sent(i).buf) /\ Sent(i).snd \notin freed'
      <3>1. i \in DOMAIN toEngine /\ IsStage(i)
        BY <1>4, <2>1
      <3>2. Owned(Sent(i).snd, Sent(i).buf) /\ Sent(i).snd \notin freed
        BY <2>1, <3>1 DEF SendsOwned, Own
      <3>3. Sent(i).snd # x
        BY <1>1, <1>7, <2>1, <3>1 DEF FourOrdered, Own
      <3> QED
        BY <1>2, <3>2, <3>3
    <2> QED
      BY <1>4, <1>5, <2>1 DEF SendsOwned, Owned
  <1>14. SendsOrdered' /\ FourOrdered'
    BY <1>4, <1>6 DEF SendsOrdered, FourOrdered, Own
  <1> QED
    BY <1>8, <1>9, <1>10, <1>11, <1>12, <1>13, <1>14 DEF Own

\* What a second stage does with the data of its buffer: of two pieces of data,
\* one that it promises to free and one that it hands on.
LEMMA StageTwoData ==
  ASSUME TypeOK, Own, "empty" \notin Kinds,
         NEW c \in Cmd, cmds[c].next = 2, StageTwo(c)
  PROVE  /\ cmds'[c].next = 3 /\ cmds'[c].buf = cmds[c].buf /\ cmds'[c].kind = cmds[c].kind
         /\ \A e \in Cmd : e # c => cmds'[e] = cmds[e]
         /\ cmds'[c].free # None =>
              /\ cmds[c].buf \in Buf /\ cmds'[c].free = nrtBuf[cmds[c].buf]
              /\ cmds'[c].snd # cmds'[c].free /\ nrtBuf'[cmds[c].buf] = cmds'[c].snd
         /\ cmds'[c].snd # None => cmds[c].buf \in Buf /\ cmds'[c].snd \in {c, nrtBuf[cmds[c].buf]}
         /\ \A d \in Buf : nrtBuf'[d] = nrtBuf[d] \/ (d = cmds[c].buf /\ nrtBuf'[d] = cmds'[c].snd)
         /\ cmds[c].kind \notin Swaps => cmds'[c].free = None
  <1> DEFINE b == cmds[c].buf
  <1>1. cmds \in [Cmd -> Command] /\ cmds[c] \in Command /\ nrtBuf \in [Buf -> Data]
    BY DEF TypeOK
  <1>2. CASE cmds[c].kind \in OnBuffer
    <2> DEFINE o == OldData(c)
               n == NewData(c)
    <2>1. /\ cmds' = [cmds EXCEPT ![c].next = 3, ![c].free = o, ![c].snd = n]
          /\ nrtBuf' = [nrtBuf EXCEPT ![b] = n]
      BY <1>2 DEF StageTwo, StageTwoBuffer
    <2>2. b \in Buf
      BY <1>1, <1>2 DEF Command
    <2>3. cmds[c].kind # "empty" /\ c # None
      BY <1>1, <1>2, NoneAssumption DEF Command, OnBuffer
    <2>4. nrtBuf[b] # c
      BY <2>2, <2>3 DEF Own, CopiesOwned, Owned
    <2>5. /\ o # None => o = nrtBuf[b] /\ n # o
          /\ cmds[c].kind \notin Swaps => o = None
      BY <2>3, <2>4 DEF OldData, NewData, Swaps
    <2>6. n # None => n \in {c, nrtBuf[b]}
      BY DEF NewData
    <2> HIDE DEF o, n
    <2>7. /\ cmds'[c].next = 3 /\ cmds'[c].buf = b /\ cmds'[c].kind = cmds[c].kind
          /\ cmds'[c].free = o /\ cmds'[c].snd = n
          /\ \A e \in Cmd : e # c => cmds'[e] = cmds[e]
      BY <1>1, <2>1 DEF Command
    <2>8. nrtBuf'[b] = n /\ \A d \in Buf : nrtBuf'[d] = nrtBuf[d] \/ (d = b /\ nrtBuf'[d] = n)
      BY <1>1, <2>1, <2>2
    <2> QED
      BY <2>2, <2>5, <2>6, <2>7, <2>8
  <1>3. CASE cmds[c].kind \notin OnBuffer
    <2>1. cmds' = [cmds EXCEPT ![c].next = 3] /\ nrtBuf' = nrtBuf
      BY <1>3 DEF StageTwo
    <2>2. cmds[c].free = None /\ cmds[c].snd = None
      BY DEF Own, Fresh
    <2>3. /\ cmds'[c].next = 3 /\ cmds'[c].buf = b /\ cmds'[c].kind = cmds[c].kind
          /\ cmds'[c].free = None /\ cmds'[c].snd = None
          /\ \A e \in Cmd : e # c => cmds'[e] = cmds[e]
      BY <1>1, <2>1, <2>2 DEF Command
    <2> QED
      BY <2>1, <2>3
  <1> QED
    BY <1>2, <1>3

\* A second stage promises to free only what was in its buffer until then, and
\* what it hands on nobody has promised to free.
LEMMA OwnStageTwo ==
  ASSUME MsgInv, Own, NrtPerform, "empty" \notin Kinds,
         cmds[Head(fromEngine).cmd].next = 2, StageTwo(Head(fromEngine).cmd)
  PROVE  Own'
  <1> DEFINE c == Head(fromEngine).cmd
             b == cmds[c].buf
             o == cmds'[c].free
             n == cmds'[c].snd
  <1>1. /\ TypeOK /\ c \in Cmd /\ cmds[c] \in Command /\ cmds[c].next = 2
        /\ \A i \in DOMAIN toEngine : toEngine[i].cmd \in Cmd /\ toEngine[i].cmd # c
    BY FirstOfFromEngine DEF NrtPerform
  <1>2. /\ toEngine' = PutToEngine(Free(c)) \/ toEngine' = PutToEngine(Stage(c))
        /\ UNCHANGED <<freed, rtBuf>>
    BY DEF StageTwo, NrtPerform
  <1>3. /\ cmds'[c].next = 3 /\ cmds'[c].buf = b /\ cmds'[c].kind = cmds[c].kind
        /\ \A e \in Cmd : e # c => cmds'[e] = cmds[e]
        /\ o # None => b \in Buf /\ o = nrtBuf[b] /\ n # o /\ nrtBuf'[b] = n
        /\ n # None => b \in Buf /\ n \in {c, nrtBuf[b]}
        /\ \A d \in Buf : nrtBuf'[d] = nrtBuf[d] \/ (d = b /\ nrtBuf'[d] = n)
        /\ cmds[c].kind \notin Swaps => o = None
    BY <1>1, StageTwoData
  <1> HIDE DEF c, b, o, n
  <1>4. \A i \in DOMAIN toEngine' : IsStage(i)' =>
          /\ i \in Nat
          /\ \/ /\ i \in DOMAIN toEngine /\ i <= Len(toEngine)
                /\ IsStage(i) /\ Sent(i)' = Sent(i) /\ toEngine[i].cmd \in Cmd
                /\ Sent(i) = cmds[toEngine[i].cmd]
             \/ i = Len(toEngine) + 1 /\ Sent(i)' = cmds'[c]
    <2>1. PICK m \in {Free(c), Stage(c)} : toEngine' = PutToEngine(m)
      BY <1>2
    <2>2. m \in Message /\ m.cmd = c
      BY <1>1 DEF Free, Stage, Message
    <2>3. \A i \in DOMAIN toEngine' :
            /\ i \in Nat
            /\ \/ i \in DOMAIN toEngine /\ i <= Len(toEngine) /\ toEngine'[i] = toEngine[i]
               \/ i = Len(toEngine) + 1 /\ toEngine'[i] = m
      BY <1>1, <2>1, <2>2, ToEngineAfter
    <2> QED
      BY <1>1, <1>3, <2>2, <2>3 DEF IsStage, Sent
  <1>5. Len(toEngine) \in Nat
    BY <1>1 DEF TypeOK
  <1>6. /\ \A y, d : Owned(y, d) => OwnedNext(y, d) /\ y # c
        /\ OwnedNext(c, b)
    BY <1>1, <1>3 DEF Owned, OwnedNext
  <1>7. \A e \in Cmd : e # c => (Pending(e)' <=> Pending(e))
    BY <1>3 DEF Pending
  <1>8. n # None =>
          /\ OwnedNext(n, b) /\ n \notin freed
          /\ \A e \in Cmd : Pending(e) => n # cmds[e].free
    <2> SUFFICES ASSUME n # None
                 PROVE  /\ OwnedNext(n, b) /\ n \notin freed
                        /\ \A e \in Cmd : Pending(e) => n # cmds[e].free
      OBVIOUS
    <2>1. CASE n = c
      <3>1. c \notin freed
        BY <1>1 DEF FreedOwned, Own
      <3>2. \A e \in Cmd : Pending(e) => Owned(cmds[e].free, cmds[e].buf)
        BY DEF PendingOwned, Own
      <3> QED
        BY <1>6, <2>1, <3>1, <3>2
    <2>2. CASE n = nrtBuf[b]
      <3>1. Owned(n, b) /\ n \notin freed
        BY <1>3, <2>2 DEF CopiesOwned, Own
      <3>2. \A e \in Cmd : Pending(e) =>
              Owned(cmds[e].free, cmds[e].buf) /\ (cmds[e].buf = b => cmds[e].free # n)
        BY <1>3, <2>2 DEF PendingOwned, Own
      <3>3. \A e \in Cmd : Pending(e) /\ cmds[e].free = n => cmds[e].buf = b
        BY <3>1, <3>2 DEF Owned
      <3> QED
        BY <1>6, <3>1, <3>2, <3>3
    <2> QED
      BY <1>3, <2>1, <2>2
  <1>9. o # None =>
          /\ Owned(o, b) /\ o \notin freed
          /\ \A e \in Cmd : Pending(e) => o # cmds[e].free
    <2> SUFFICES ASSUME o # None
                 PROVE  /\ Owned(o, b) /\ o \notin freed
                        /\ \A e \in Cmd : Pending(e) => o # cmds[e].free
      OBVIOUS
    <2>1. b \in Buf /\ o = nrtBuf[b]
      BY <1>3
    <2>2. Owned(o, b) /\ o \notin freed
      BY <2>1 DEF CopiesOwned, Own
    <2>3. \A e \in Cmd : Pending(e) =>
            Owned(cmds[e].free, cmds[e].buf) /\ (cmds[e].buf = b => cmds[e].free # o)
      BY <2>1 DEF PendingOwned, Own
    <2> QED
      BY <2>2, <2>3 DEF Owned
  <1>10. Fresh'
    BY <1>3 DEF Fresh, Own, o
  <1>11. CopiesOwned'
    <2>1. ASSUME NEW d \in Buf, nrtBuf'[d] # None
          PROVE  Owned(nrtBuf'[d], d) \/ (nrtBuf'[d] = n /\ d = b)
      BY <1>3, <2>1 DEF CopiesOwned, Own
    <2>2. ASSUME NEW d \in Buf, nrtBuf'[d] # None
          PROVE  nrtBuf'[d] \notin freed
      BY <1>3, <1>8, <2>2 DEF CopiesOwned, Own
    <2>3. \A d \in Buf : rtBuf[d] # None => Owned(rtBuf[d], d) /\ rtBuf[d] \notin freed
      BY DEF CopiesOwned, Own
    <2> QED
      BY <1>2, <1>6, <1>8, <2>1, <2>2, <2>3 DEF CopiesOwned, Owned, OwnedNext
  <1>12. FreedOwned'
    BY <1>1, <1>2, <1>3 DEF FreedOwned, Own, TypeOK
  <1>13. PendingOwned'
    <2>1. CASE o # None
      <3> SUFFICES ASSUME NEW e \in Cmd, Pending(e)'
                   PROVE  /\ Owned(cmds'[e].free, cmds[e].buf) /\ cmds'[e].free \notin freed
                          /\ cmds[e].buf \in Buf => nrtBuf'[cmds[e].buf] # cmds'[e].free
        BY <1>2, <1>3, <1>6 DEF PendingOwned, Owned, OwnedNext, b
      <3>1. CASE e = c
        BY <1>3, <1>9, <2>1, <3>1 DEF o, b
      <3>2. CASE e # c
        <4>1. Pending(e) /\ cmds'[e] = cmds[e] /\ cmds[e].free # None
          BY <1>3, <1>7, <3>2 DEF Pending
        <4> QED
          BY <1>3, <1>8, <4>1 DEF PendingOwned, Own
      <3> QED
        BY <3>1, <3>2
    <2>2. CASE o = None
      <3> SUFFICES ASSUME NEW e \in Cmd, Pending(e)'
                   PROVE  /\ Owned(cmds'[e].free, cmds[e].buf) /\ cmds'[e].free \notin freed
                          /\ cmds[e].buf \in Buf => nrtBuf'[cmds[e].buf] # cmds'[e].free
        BY <1>2, <1>3, <1>6 DEF PendingOwned, Owned, OwnedNext, b
      <3>1. e # c
        BY <2>2 DEF Pending, o
      <3>2. Pending(e) /\ cmds'[e] = cmds[e] /\ cmds[e].free # None
        BY <1>3, <1>7, <3>1 DEF Pending
      <3> QED
        BY <1>3, <1>8, <3>2 DEF PendingOwned, Own
    <2> QED
      BY <2>1, <2>2
  <1>14. PendingDistinct'
    <2> SUFFICES ASSUME NEW e \in Cmd, NEW d \in Cmd, Pending(e)', Pending(d)',
                        cmds'[e].free = cmds'[d].free, e # d
                 PROVE  FALSE
      BY DEF PendingDistinct
    <2>1. CASE e # c /\ d # c
      BY <1>3, <1>7, <2>1 DEF PendingDistinct, Own
    <2>2. CASE e = c
      BY <1>3, <1>7, <1>9, <2>2 DEF Pending, o
    <2>3. CASE d = c
      BY <1>3, <1>7, <1>9, <2>3 DEF Pending, o
    <2> QED
      BY <2>1, <2>2, <2>3
  <1>15. FourSwapped'
    BY <1>2, <1>3, <1>7 DEF FourSwapped, Own, Pending
  <1>16. SendsOwned'
    <2>1. ASSUME NEW i \in DOMAIN toEngine', IsStage(i)', Sent(i) = cmds[toEngine[i].cmd],
                 i \in DOMAIN toEngine, IsStage(i), Sent(i).snd # None
          PROVE  Owned(Sent(i).snd, Sent(i).buf) /\ Sent(i).snd \notin freed
      BY <2>1 DEF SendsOwned, Own
    <2> QED
      BY <1>2, <1>3, <1>4, <1>6, <1>8, <2>1 DEF SendsOwned, Owned, OwnedNext, n
  <1>17. SendsOrdered'
    <2> SUFFICES ASSUME NEW i \in DOMAIN toEngine', NEW j \in DOMAIN toEngine',
                        i <= j, IsStage(i)', IsStage(j)', (Sent(j).snd)' # None
                 PROVE  (Sent(j).snd)' # (Sent(i).free)'
      BY DEF SendsOrdered
    <2>1. CASE j \in DOMAIN toEngine /\ IsStage(j) /\ Sent(j)' = Sent(j) /\ j <= Len(toEngine)
      <3>1. i \in DOMAIN toEngine /\ IsStage(i) /\ Sent(i)' = Sent(i)
        BY <1>4, <1>5, <2>1
      <3> QED
        BY <2>1, <3>1 DEF SendsOrdered, Own
    <2>2. CASE Sent(j)' = cmds'[c]
      <3>1. CASE Sent(i)' = cmds'[c]
        BY <1>3, <2>2, <3>1 DEF o, n
      <3>2. CASE /\ i \in DOMAIN toEngine /\ IsStage(i) /\ Sent(i)' = Sent(i)
                 /\ toEngine[i].cmd \in Cmd /\ Sent(i) = cmds[toEngine[i].cmd]
        <4>1. cmds[toEngine[i].cmd].next = 3
          BY <3>2 DEF MsgInv, ToEngineOK, IsStage
        <4> QED
          BY <1>8, <2>2, <3>2, <4>1 DEF Pending, n
      <3> QED
        BY <1>4, <3>1, <3>2
    <2> QED
      BY <1>4, <2>1, <2>2
  <1>18. FourOrdered'
    <2> SUFFICES ASSUME NEW e \in Cmd, NEW i \in DOMAIN toEngine',
                        Pending(e)', cmds'[e].next = 4, IsStage(i)'
                 PROVE  (Sent(i).snd)' # cmds'[e].free
      BY DEF FourOrdered
    <2>1. e # c /\ Pending(e) /\ cmds'[e] = cmds[e] /\ cmds[e].free # None
      BY <1>3, <1>7 DEF Pending
    <2>2. CASE Sent(i)' = cmds'[c]
      BY <1>8, <2>1, <2>2 DEF n
    <2>3. CASE i \in DOMAIN toEngine /\ IsStage(i) /\ Sent(i)' = Sent(i)
      BY <2>1, <2>3 DEF FourOrdered, Own
    <2> QED
      BY <1>4, <2>2, <2>3
  <1> QED
    BY <1>10, <1>11, <1>12, <1>13, <1>14, <1>15, <1>16, <1>17, <1>18 DEF Own

LEMMA NextOwnInv ==
  ASSUME "empty" \notin Kinds, MsgInv, OwnInv, [Next]_vars
  PROVE  OwnInv'
  <1>1. CASE main = "exited"
    <2>1. main' = "exited"
      BY <1>1 DEF Next, Receive, WriteSamples, Rt, CallbackBegin, RtPerform, RtPerformed, CallbackEnd, Nrt,
           NrtCheckFlag, NrtCatchUp, NrtTest, NrtSleep, NrtLock, NrtUnlock, NrtMove, NrtPerform,
           StageTwo, StageFour, Main, MainStop, MainClearFlag, MainSignal, MainJoin, MainMove,
           Copier, Copy, CopyEnd, CopierMove, vars, threads
    <2> QED
      BY <2>1 DEF OwnInv
  <1>2. CASE Own
    <2>1. ASSUME NEW r \in Requests, Receive(r) PROVE Own'
      BY <1>2, <2>1, OwnReceive
    <2>2. CASE RtPerform
      BY <1>2, <2>2, OwnRtPerform DEF OwnInv
    <2>3. CASE NrtPerform
      BY <1>2, <2>3, OwnStageTwo, OwnStageFour DEF NrtPerform, OwnInv
    <2>4. CASE MainJoin
      BY <2>4 DEF MainJoin, MainMove, OwnInv
    <2>5. CASE CallbackBegin \/ RtPerformed \/ CallbackEnd
      BY <1>2, <2>5, OwnSame DEF OwnInv, CallbackBegin, RtPerformed, CallbackEnd, buffers, fifos
    <2>6. CASE NrtCheckFlag \/ NrtCatchUp \/ NrtTest \/ NrtSleep \/ NrtLock \/ NrtUnlock
      BY <1>2, <2>6, OwnSame DEF OwnInv, NrtCheckFlag, NrtCatchUp, NrtTest, NrtSleep, NrtLock,
                                 NrtUnlock, NrtMove, buffers, fifos
    <2>7. CASE MainStop \/ MainClearFlag \/ MainSignal
      BY <1>2, <2>7, OwnSame DEF OwnInv, MainStop, MainClearFlag, MainSignal, MainMove, fifos
    <2>8. CASE Copier
      BY <1>2, <2>8, OwnSame DEF OwnInv, Copier, Copy, CopyEnd, CopierMove, buffers, fifos
    <2>9. ASSUME NEW b \in Buf, WriteSamples(b) PROVE Own'
      BY <1>2, <2>9, SamplesWritten, OwnSame DEF MsgInv
    <2>10. CASE UNCHANGED vars
      BY <1>2, <2>10, OwnSame DEF OwnInv, vars, buffers, fifos
    <2> QED
      BY <2>1, <2>2, <2>3, <2>4, <2>5, <2>6, <2>7, <2>8, <2>9, <2>10 DEF Next, Rt, Nrt, Main, OwnInv
  <1> QED
    BY <1>1, <1>2 DEF OwnInv

\* Unless a buffer is allocated without samples, no copy of a buffer points to
\* freed data, whatever is in flight and whatever is lost (BufAllocCmd and the others).
THEOREM BuffersStayAlive == ASSUME "empty" \notin Kinds PROVE Spec => []BuffersAlive
  <1>1. MsgInv /\ OwnInv => BuffersAlive
    <2> SUFFICES ASSUME TypeOK, Own PROVE \A b \in Buf : {rtBuf[b], nrtBuf[b]} \cap freed = {}
      BY DEF OwnInv, BuffersAlive, MsgInv
    <2> QED
      BY NoneAssumption DEF Own, CopiesOwned, TypeOK
  <1>2. Init => MsgInv /\ OwnInv
    BY InitMsgInv, InitOwn DEF OwnInv
  <1>3. MsgInv /\ OwnInv /\ [Next]_vars => MsgInv' /\ OwnInv'
    BY NextMsgInv, NextOwnInv
  <1> QED
    BY <1>1, <1>2, <1>3, PTL DEF Spec

\* Nor is any sample data freed twice, nor promised to two fourth stages.
THEOREM FreedOnce ==
  ASSUME "empty" \notin Kinds PROVE Spec => []PendingFreesDistinct
  <1>1. MsgInv /\ OwnInv => PendingFreesDistinct
    BY DEF OwnInv, Own, PendingOwned, PendingDistinct, Pending, PendingFreesDistinct
  <1>2. Init => MsgInv /\ OwnInv
    BY InitMsgInv, InitOwn DEF OwnInv
  <1>3. MsgInv /\ OwnInv /\ [Next]_vars => MsgInv' /\ OwnInv'
    BY NextMsgInv, NextOwnInv
  <1> QED
    BY <1>1, <1>2, <1>3, PTL DEF Spec

-----------------------------------------------------------------------------
(* In which order the commands come through.  A command is gone when it has *)
(* been answered or deleted, or when one of its messages was lost.  Every   *)
(* other one is in one of the FIFOs, at each stage in the order in which    *)
(* they were received, and none is a stage ahead of an earlier one.         *)

Gone == answered \cup deleted \cup lost
Stages == [c \in Cmd |-> cmds[c].next]

\* These are said of any stages n, commands g that are gone, and FIFOs f and t.
Somewhere(n, g, f, t) ==
  \A c \in Cmd : n[c] # 0 /\ c \notin g =>
    \/ n[c] \in {2, 4} /\ \E i \in DOMAIN f : f[i].cmd = c
    \/ n[c] = 3 /\ \E i \in DOMAIN t : t[i].cmd = c /\ t[i].do = "stage"
FromLive(n, g, f) == \A i \in DOMAIN f : n[f[i].cmd] \in {2, 4} /\ f[i].cmd \notin g
ToLive(n, g, t) ==
  \A i \in DOMAIN t : /\ t[i].do = "stage" => n[t[i].cmd] = 3 /\ t[i].cmd \notin g
                      /\ t[i].do # "stage" => t[i].cmd \in g
InStep(n, g) == \A c, d \in Cmd : c < d /\ n[c] # 0 /\ c \notin g => n[d] <= n[c]
FromSorted(n, f) ==
  \A i, j \in DOMAIN f : i < j /\ n[f[i].cmd] = n[f[j].cmd] => f[i].cmd < f[j].cmd
ToSorted(t) ==
  \A i, j \in DOMAIN t : i < j /\ t[i].do = "stage" /\ t[j].do = "stage" => t[i].cmd < t[j].cmd

Order(n, g, f, t) ==
  /\ n \in [Cmd -> 0 .. 5] /\ g \subseteq {c \in Cmd : n[c] # 0}
  /\ f \in Seq(Message) /\ t \in Seq(Message)
  /\ Somewhere(n, g, f, t) /\ FromLive(n, g, f) /\ ToLive(n, g, t)
  /\ InStep(n, g) /\ FromSorted(n, f) /\ ToSorted(t)

\* A FIFO before and after a Write that found room.
LEMMA Appended ==
  ASSUME NEW q \in Seq(Message), NEW m \in Message
  PROVE  /\ Append(q, m) \in Seq(Message) /\ Len(q) \in Nat
         /\ \A i \in DOMAIN q : i \in Nat /\ i <= Len(q) /\ i \in DOMAIN Append(q, m) /\ Append(q, m)[i] = q[i]
         /\ \A i \in DOMAIN Append(q, m) : i \in DOMAIN q \/ i = Len(q) + 1
         /\ Len(q) + 1 \in DOMAIN Append(q, m) /\ Append(q, m)[Len(q) + 1] = m
  OBVIOUS

\* A FIFO before and after its first message was taken.
LEMMA Popped ==
  ASSUME NEW q \in Seq(Message), q # <<>>
  PROVE  /\ Tail(q) \in Seq(Message) /\ Head(q) = q[1] /\ Head(q) \in Message
         /\ 1 \in DOMAIN q
         /\ \A i \in DOMAIN Tail(q) : i \in Nat /\ i + 1 \in DOMAIN q /\ Tail(q)[i] = q[i + 1] /\ 1 < i + 1
         /\ \A i \in DOMAIN q : i \in Nat /\ (i # 1 => 1 < i /\ i - 1 \in DOMAIN Tail(q) /\ Tail(q)[i - 1] = q[i])
  OBVIOUS

LEMMA CmdOfMessage ==
  ASSUME NEW q \in Seq(Message)
  PROVE  \A i \in DOMAIN q : q[i] \in Message /\ q[i].cmd \in Cmd /\ q[i].do \in {"stage", "free"}
  <1>1. \A i \in DOMAIN q : q[i] \in Message
    OBVIOUS
  <1> QED
    BY <1>1 DEF Message

\* The message is written, or it is lost and its command is gone.
WrittenOrLost(q, m, g, r, h) == (r = Append(q, m) /\ h = g) \/ (r = q /\ h = g \cup {m.cmd})

LEMMA OrderFacts ==
  ASSUME NEW n, NEW g, NEW f, NEW t, Order(n, g, f, t)
  PROVE  /\ \A c \in Cmd : c \in Nat /\ n[c] \in 0 .. 5
         /\ \A i \in DOMAIN f : /\ i \in Nat /\ f[i].cmd \in Cmd
                                /\ n[f[i].cmd] \in {2, 4} /\ f[i].cmd \notin g
         /\ \A i \in DOMAIN t : /\ i \in Nat /\ t[i].cmd \in Cmd
                                /\ t[i].do = "stage" => n[t[i].cmd] = 3 /\ t[i].cmd \notin g
                                /\ t[i].do # "stage" => t[i].cmd \in g
         /\ \A c \in g : c \in Cmd /\ n[c] # 0
         /\ \A c \in Cmd : n[c] # 0 /\ c \notin g => n[c] \in {2, 3, 4}
  <1>1. n \in [Cmd -> 0 .. 5] /\ f \in Seq(Message) /\ t \in Seq(Message)
    BY DEF Order
  <1>2. /\ \A i \in DOMAIN f : i \in Nat /\ f[i].cmd \in Cmd
        /\ \A i \in DOMAIN t : i \in Nat /\ t[i].cmd \in Cmd
    BY <1>1, CmdOfMessage
  <1>3. /\ \A c \in Cmd : c \in Nat /\ n[c] \in 0 .. 5
        /\ \A c \in g : c \in Cmd /\ n[c] # 0
    <2>1. \A c \in Cmd : c \in Nat /\ n[c] \in 0 .. 5
      <3>1. \A c \in Cmd : c \in Nat
        BY DEF Cmd
      <3>2. \A c \in Cmd : n[c] \in 0 .. 5
        BY <1>1
      <3> QED
        BY <3>1, <3>2
    <2>2. g \subseteq {c \in Cmd : n[c] # 0}
      BY DEF Order
    <2> QED
      BY <2>1, <2>2
  <1>4. \A i \in DOMAIN f : n[f[i].cmd] \in {2, 4} /\ f[i].cmd \notin g
    BY DEF Order, FromLive
  <1>5. \A i \in DOMAIN t : /\ t[i].do = "stage" => n[t[i].cmd] = 3 /\ t[i].cmd \notin g
                            /\ t[i].do # "stage" => t[i].cmd \in g
    BY DEF Order, ToLive
  <1>6. \A c \in Cmd : n[c] # 0 /\ c \notin g => n[c] \in {2, 3, 4}
    BY DEF Order, Somewhere
  <1> QED
    BY <1>2, <1>3, <1>4, <1>5, <1>6

\* A command that is received comes after all others.
LEMMA OrderReceive ==
  ASSUME NEW n, NEW g, NEW f, NEW t, Order(n, g, f, t),
         NEW d \in Cmd, \A c \in Cmd : c >= d <=> n[c] = 0,
         NEW h, NEW r, WrittenOrLost(f, Stage(d), g, r, h)
  PROVE  Order([n EXCEPT ![d] = 2], h, r, t)
  <1> DEFINE m == [n EXCEPT ![d] = 2]
  <1>1. /\ f \in Seq(Message) /\ t \in Seq(Message)
        /\ Stage(d) \in Message /\ Stage(d).cmd = d /\ Stage(d).do = "stage"
        /\ n[d] = 0 /\ d \in Nat
    BY DEF Order, Stage, Message, Cmd
  <1>2. m \in [Cmd -> 0 .. 5] /\ m[d] = 2 /\ \A c \in Cmd : c # d => m[c] = n[c]
    BY DEF Order
  <1> HIDE DEF m
  <1>3. \A c \in Cmd : n[c] # 0 => c < d /\ c # d /\ m[c] = n[c]
    <2> SUFFICES ASSUME NEW c \in Cmd, n[c] # 0 PROVE c < d /\ c # d /\ m[c] = n[c]
      OBVIOUS
    <2>1. ~(c >= d)
      OBVIOUS
    <2>2. c \in Nat
      BY DEF Cmd
    <2>3. c < d /\ c # d
      BY <1>1, <2>1, <2>2
    <2> QED
      BY <1>2, <2>3
  <1>4. /\ \A i \in DOMAIN f : /\ f[i].cmd < d /\ f[i].cmd # d
                               /\ m[f[i].cmd] = n[f[i].cmd]
        /\ \A i \in DOMAIN t : t[i].do = "stage" => t[i].cmd # d /\ m[t[i].cmd] = 3
        /\ d \notin g
    <2>1. \A i \in DOMAIN f : f[i].cmd \in Cmd /\ n[f[i].cmd] # 0
      BY OrderFacts
    <2>2. \A i \in DOMAIN t : t[i].do = "stage" => t[i].cmd \in Cmd /\ n[t[i].cmd] = 3 /\ n[t[i].cmd] # 0
      BY OrderFacts
    <2>3. d \notin g
      BY <1>1, OrderFacts
    <2> QED
      BY <1>3, <2>1, <2>2, <2>3
  <1>5. h \subseteq {c \in Cmd : m[c] # 0} /\ g \subseteq h
    <2>1. \A c \in g : c \in Cmd /\ m[c] # 0
      BY <1>3, OrderFacts
    <2>2. h = g \/ h = g \cup {d}
      BY <1>1 DEF WrittenOrLost
    <2> QED
      BY <1>2, <2>1, <2>2
  <1>6. InStep(m, h)
    <2> SUFFICES ASSUME NEW c \in Cmd, NEW e \in Cmd, c < e, m[c] # 0, c \notin h
                 PROVE  m[e] <= m[c]
      BY DEF InStep
    <2>1. c \in Nat /\ e \in Nat /\ n[e] \in 0 .. 5 /\ c \notin g
      BY <1>5, OrderFacts
    <2>2. CASE c = d
      BY <1>1, <1>2, <2>1, <2>2
    <2>3. CASE c # d
      <3>1. n[c] # 0 /\ m[c] = n[c] /\ n[c] \in {2, 3, 4}
        BY <1>2, <2>1, <2>3, OrderFacts
      <3>2. n[e] <= n[c]
        BY <2>1, <3>1 DEF Order, InStep
      <3> QED
        BY <1>2, <3>1, <3>2
    <2> QED
      BY <2>2, <2>3
  <1>7. CASE r = Append(f, Stage(d)) /\ h = g
    <2>1. /\ r \in Seq(Message) /\ Len(f) \in Nat
          /\ \A i \in DOMAIN f : i \in Nat /\ i <= Len(f) /\ i \in DOMAIN r /\ r[i] = f[i]
          /\ \A i \in DOMAIN r : i \in DOMAIN f \/ i = Len(f) + 1
          /\ Len(f) + 1 \in DOMAIN r /\ r[Len(f) + 1] = Stage(d)
      BY <1>1, <1>7, Appended
    <2>2. FromLive(m, h, r)
      BY <1>1, <1>2, <1>4, <1>7, <2>1, OrderFacts DEF FromLive
    <2>3. ToLive(m, h, t)
      BY <1>4, <1>7, OrderFacts DEF ToLive
    <2>4. Somewhere(m, h, r, t)
      <3> SUFFICES ASSUME NEW c \in Cmd, m[c] # 0, c \notin h
                   PROVE  \/ m[c] \in {2, 4} /\ \E i \in DOMAIN r : r[i].cmd = c
                          \/ m[c] = 3 /\ \E i \in DOMAIN t : t[i].cmd = c /\ t[i].do = "stage"
        BY DEF Somewhere
      <3>1. CASE c = d
        BY <1>1, <1>2, <2>1, <3>1
      <3>2. CASE c # d
        <4>1. m[c] = n[c] /\ n[c] # 0 /\ c \notin g
          BY <1>2, <1>7, <3>2
        <4> QED
          BY <2>1, <4>1 DEF Order, Somewhere
      <3> QED
        BY <3>1, <3>2
    <2>5. FromSorted(m, r)
      <3> SUFFICES ASSUME NEW i \in DOMAIN r, NEW j \in DOMAIN r, i < j, m[r[i].cmd] = m[r[j].cmd]
                   PROVE  r[i].cmd < r[j].cmd
        BY DEF FromSorted
      <3>1. i \in DOMAIN f
        BY <2>1
      <3>2. CASE j \in DOMAIN f
        BY <1>4, <2>1, <3>1, <3>2 DEF Order, FromSorted
      <3>3. CASE j = Len(f) + 1
        BY <1>1, <1>4, <2>1, <3>1, <3>3
      <3> QED
        BY <2>1, <3>2, <3>3
    <2> QED
      BY <1>1, <1>2, <1>5, <1>6, <2>1, <2>2, <2>3, <2>4, <2>5 DEF Order, m
  <1>8. CASE r = f /\ h = g \cup {d}
    <2>1. FromLive(m, h, r)
      BY <1>4, <1>8, OrderFacts DEF FromLive
    <2>2. ToLive(m, h, t)
      BY <1>4, <1>8, OrderFacts DEF ToLive
    <2>3. Somewhere(m, h, r, t)
      <3> SUFFICES ASSUME NEW c \in Cmd, m[c] # 0, c \notin h
                   PROVE  \/ m[c] \in {2, 4} /\ \E i \in DOMAIN f : f[i].cmd = c
                          \/ m[c] = 3 /\ \E i \in DOMAIN t : t[i].cmd = c /\ t[i].do = "stage"
        BY <1>8 DEF Somewhere
      <3>1. m[c] = n[c] /\ n[c] # 0 /\ c \notin g
        BY <1>2, <1>8
      <3> QED
        BY <3>1 DEF Order, Somewhere
    <2>4. FromSorted(m, r)
      BY <1>4, <1>8 DEF Order, FromSorted
    <2> QED
      BY <1>1, <1>2, <1>5, <1>6, <1>8, <2>1, <2>2, <2>3, <2>4 DEF Order, m
  <1> QED
    BY <1>1, <1>7, <1>8 DEF WrittenOrLost

\* A command whose third stage is over was the first of those that await it.
LEMMA OrderFour ==
  ASSUME NEW n, NEW g, NEW f, NEW t, Order(n, g, f, t),
         t # <<>>, Head(t).do = "stage",
         NEW c, c = Head(t).cmd,
         NEW h, NEW r, WrittenOrLost(f, Stage(c), g, r, h)
  PROVE  Order([n EXCEPT ![c] = 4], h, r, Tail(t))
  <1> DEFINE m == [n EXCEPT ![c] = 4]
             u == Tail(t)
  <1>1. /\ f \in Seq(Message) /\ t \in Seq(Message) /\ u \in Seq(Message)
        /\ 1 \in DOMAIN t /\ t[1].do = "stage" /\ t[1].cmd = c
        /\ \A i \in DOMAIN u : i \in Nat /\ i + 1 \in DOMAIN t /\ u[i] = t[i + 1] /\ 1 < i + 1
        /\ \A i \in DOMAIN t : i # 1 => 1 < i /\ i - 1 \in DOMAIN u /\ u[i - 1] = t[i]
    BY Popped DEF Order
  <1>2. c \in Cmd /\ n[c] = 3 /\ c \notin g /\ c \in Nat
    BY <1>1, OrderFacts
  <1>3. m \in [Cmd -> 0 .. 5] /\ m[c] = 4 /\ \A e \in Cmd : e # c => m[e] = n[e]
    BY <1>2 DEF Order
  <1>4. Stage(c) \in Message /\ Stage(c).cmd = c
    BY <1>2 DEF Stage, Message
  <1> HIDE DEF m, u
  <1>5. \A i \in DOMAIN t : i # 1 /\ t[i].do = "stage" => c < t[i].cmd
    BY <1>1 DEF Order, ToSorted
  <1>6. h \subseteq {e \in Cmd : m[e] # 0} /\ g \subseteq h /\ h \subseteq g \cup {c}
    <2>1. \A e \in g : e \in Cmd /\ m[e] # 0
      <3>1. \A e \in g : e \in Cmd /\ n[e] # 0
        BY OrderFacts
      <3> QED
        BY <1>3, <3>1
    <2>2. h = g \/ h = g \cup {c}
      BY <1>4 DEF WrittenOrLost
    <2> QED
      BY <1>2, <1>3, <2>1, <2>2
  <1>7. /\ \A i \in DOMAIN f : f[i].cmd # c /\ m[f[i].cmd] = n[f[i].cmd]
        /\ \A i \in DOMAIN u : u[i].do = "stage" => u[i].cmd \in Cmd /\ u[i].cmd # c /\ m[u[i].cmd] = 3
    <2>1. \A i \in DOMAIN f : f[i].cmd \in Cmd /\ f[i].cmd # c
      BY <1>2, OrderFacts
    <2>2. \A i \in DOMAIN u : u[i].do = "stage" =>
            u[i].cmd \in Cmd /\ u[i].cmd # c /\ n[u[i].cmd] = 3
      <3> SUFFICES ASSUME NEW i \in DOMAIN u, u[i].do = "stage"
                   PROVE  u[i].cmd \in Cmd /\ u[i].cmd # c /\ n[u[i].cmd] = 3
        OBVIOUS
      <3>1. i + 1 \in DOMAIN t /\ u[i] = t[i + 1] /\ i + 1 # 1
        BY <1>1
      <3>2. u[i].cmd \in Cmd /\ u[i].cmd \in Nat /\ n[u[i].cmd] = 3
        BY <3>1, OrderFacts
      <3>3. c < u[i].cmd
        BY <1>5, <3>1
      <3> QED
        BY <1>2, <3>2, <3>3
    <2> QED
      BY <1>3, <2>1, <2>2
  <1>8. ToLive(m, h, u)
    <2> SUFFICES ASSUME NEW i \in DOMAIN u
                 PROVE  /\ u[i].do = "stage" => m[u[i].cmd] = 3 /\ u[i].cmd \notin h
                        /\ u[i].do # "stage" => u[i].cmd \in h
      BY DEF ToLive
    <2>1. /\ u[i].do = "stage" => u[i].cmd \notin g
          /\ u[i].do # "stage" => u[i].cmd \in g
      BY <1>1, OrderFacts
    <2> QED
      BY <1>6, <1>7, <2>1
  <1>9. ToSorted(u)
    <2> SUFFICES ASSUME NEW i \in DOMAIN u, NEW j \in DOMAIN u, i < j,
                        u[i].do = "stage", u[j].do = "stage"
                 PROVE  u[i].cmd < u[j].cmd
      BY DEF ToSorted
    <2>1. i + 1 \in DOMAIN t /\ j + 1 \in DOMAIN t /\ i + 1 < j + 1 /\ u[i] = t[i + 1] /\ u[j] = t[j + 1]
      BY <1>1
    <2> QED
      BY <2>1 DEF Order, ToSorted
  <1>10. InStep(m, h)
    <2> SUFFICES ASSUME NEW x \in Cmd, NEW y \in Cmd, x < y, m[x] # 0, x \notin h
                 PROVE  m[y] <= m[x]
      BY DEF InStep
    <2>1. x \in Nat /\ y \in Nat /\ x \notin g /\ n[x] \in 0 .. 5 /\ n[y] \in 0 .. 5
      BY <1>6, OrderFacts
    <2>2. n[x] # 0
      BY <1>2, <1>3, <2>1
    <2>3. n[y] <= n[x]
      BY <2>1, <2>2 DEF Order, InStep
    <2>4. CASE x = c
      BY <1>2, <1>3, <2>1, <2>3, <2>4
    <2>5. CASE x # c /\ y # c
      BY <1>3, <2>3, <2>5
    <2>6. CASE x # c /\ y = c
      <3>1. n[x] \in {2, 3, 4}
        BY <2>1, <2>2, OrderFacts
      <3>2. ASSUME n[x] = 3 PROVE FALSE
        <4>1. PICK i \in DOMAIN t : t[i].cmd = x /\ t[i].do = "stage"
          BY <2>1, <3>2 DEF Order, Somewhere
        <4> QED
          BY <1>1, <1>5, <2>1, <2>6, <4>1
      <3> QED
        BY <1>2, <1>3, <2>3, <2>6, <3>1, <3>2
    <2> QED
      BY <2>4, <2>5, <2>6
  <1>11. CASE r = Append(f, Stage(c)) /\ h = g
    <2>1. /\ r \in Seq(Message) /\ Len(f) \in Nat
          /\ \A i \in DOMAIN f : i \in Nat /\ i <= Len(f) /\ i \in DOMAIN r /\ r[i] = f[i]
          /\ \A i \in DOMAIN r : i \in DOMAIN f \/ i = Len(f) + 1
          /\ Len(f) + 1 \in DOMAIN r /\ r[Len(f) + 1] = Stage(c)
      BY <1>1, <1>4, <1>11, Appended
    <2>2. FromLive(m, h, r)
      BY <1>2, <1>3, <1>4, <1>7, <1>11, <2>1, OrderFacts DEF FromLive
    <2>3. Somewhere(m, h, r, u)
      <3> SUFFICES ASSUME NEW e \in Cmd, m[e] # 0, e \notin h
                   PROVE  \/ m[e] \in {2, 4} /\ \E i \in DOMAIN r : r[i].cmd = e
                          \/ m[e] = 3 /\ \E i \in DOMAIN u : u[i].cmd = e /\ u[i].do = "stage"
        BY DEF Somewhere
      <3>1. CASE e = c
        BY <1>3, <1>4, <2>1, <3>1
      <3>2. CASE e # c
        <4>1. m[e] = n[e] /\ n[e] # 0 /\ e \notin g
          BY <1>3, <1>11, <3>2
        <4>2. CASE n[e] \in {2, 4} /\ \E i \in DOMAIN f : f[i].cmd = e
          BY <2>1, <4>1, <4>2
        <4>3. CASE n[e] = 3 /\ \E i \in DOMAIN t : t[i].cmd = e /\ t[i].do = "stage"
          <5>1. PICK i \in DOMAIN t : t[i].cmd = e /\ t[i].do = "stage"
            BY <4>3
          <5>2. i - 1 \in DOMAIN u /\ u[i - 1] = t[i]
            BY <1>1, <3>2, <5>1
          <5> QED
            BY <4>1, <4>3, <5>1, <5>2
        <4> QED
          BY <4>1, <4>2, <4>3 DEF Order, Somewhere
      <3> QED
        BY <3>1, <3>2
    <2>4. FromSorted(m, r)
      <3> SUFFICES ASSUME NEW i \in DOMAIN r, NEW j \in DOMAIN r, i < j, m[r[i].cmd] = m[r[j].cmd]
                   PROVE  r[i].cmd < r[j].cmd
        BY DEF FromSorted
      <3>1. i \in DOMAIN f
        BY <2>1
      <3>2. CASE j \in DOMAIN f
        BY <1>7, <2>1, <3>1, <3>2 DEF Order, FromSorted
      <3>3. CASE j = Len(f) + 1
        <4>1. f[i].cmd \in Cmd /\ f[i].cmd \in Nat /\ f[i].cmd # c /\ n[f[i].cmd] = 4
          <5>1. m[f[i].cmd] = 4 /\ m[f[i].cmd] = n[f[i].cmd] /\ f[i].cmd # c
            BY <1>3, <1>4, <1>7, <2>1, <3>1, <3>3
          <5>2. f[i].cmd \in Cmd /\ f[i].cmd \in Nat
            BY <3>1, OrderFacts
          <5> QED
            BY <5>1, <5>2
        <4>2. ~(c < f[i].cmd)
          <5>1. c < f[i].cmd => n[f[i].cmd] <= n[c]
            BY <1>2, <4>1 DEF Order, InStep
          <5> QED
            BY <1>2, <4>1, <5>1
        <4> QED
          BY <1>2, <1>4, <2>1, <3>1, <3>3, <4>1, <4>2
      <3> QED
        BY <2>1, <3>2, <3>3
    <2> QED
      BY <1>1, <1>3, <1>6, <1>8, <1>9, <1>10, <2>1, <2>2, <2>3, <2>4 DEF Order, m, u
  <1>12. CASE r = f /\ h = g \cup {c}
    <2>1. FromLive(m, h, r)
      BY <1>7, <1>12, OrderFacts DEF FromLive
    <2>2. Somewhere(m, h, r, u)
      <3> SUFFICES ASSUME NEW e \in Cmd, m[e] # 0, e \notin h
                   PROVE  \/ m[e] \in {2, 4} /\ \E i \in DOMAIN f : f[i].cmd = e
                          \/ m[e] = 3 /\ \E i \in DOMAIN u : u[i].cmd = e /\ u[i].do = "stage"
        BY <1>12 DEF Somewhere
      <3>1. e # c /\ m[e] = n[e] /\ n[e] # 0 /\ e \notin g
        BY <1>3, <1>12
      <3>2. CASE n[e] \in {2, 4} /\ \E i \in DOMAIN f : f[i].cmd = e
        BY <3>1, <3>2
      <3>3. CASE n[e] = 3 /\ \E i \in DOMAIN t : t[i].cmd = e /\ t[i].do = "stage"
        <4>1. PICK i \in DOMAIN t : t[i].cmd = e /\ t[i].do = "stage"
          BY <3>3
        <4>2. i - 1 \in DOMAIN u /\ u[i - 1] = t[i]
          BY <1>1, <3>1, <4>1
        <4> QED
          BY <3>1, <3>3, <4>1, <4>2
      <3> QED
        BY <3>1, <3>2, <3>3 DEF Order, Somewhere
    <2>3. FromSorted(m, r)
      BY <1>7, <1>12 DEF Order, FromSorted
    <2> QED
      BY <1>1, <1>3, <1>6, <1>8, <1>9, <1>10, <1>12, <2>1, <2>2, <2>3 DEF Order, m, u
  <1> QED
    BY <1>4, <1>11, <1>12 DEF WrittenOrLost

\* A command whose second or fourth stage is over was the first of those that
\* await it; after the fourth, and after a second that failed, it is gone.
LEMMA OrderEven ==
  ASSUME NEW n, NEW g, NEW f, NEW t, Order(n, g, f, t), f # <<>>,
         NEW c, c = Head(f).cmd,
         NEW h, NEW r,
         \/ n[c] = 2 /\ r = Append(t, Stage(c)) /\ h = g
         \/ h = g \cup {c} /\ (r = t \/ r = Append(t, Free(c)))
  PROVE  Order([n EXCEPT ![c] = n[c] + 1], h, Tail(f), r)
  <1> DEFINE m == [n EXCEPT ![c] = n[c] + 1]
             u == Tail(f)
  <1>1. /\ f \in Seq(Message) /\ t \in Seq(Message) /\ u \in Seq(Message)
        /\ 1 \in DOMAIN f /\ f[1].cmd = c
        /\ \A i \in DOMAIN u : i \in Nat /\ i + 1 \in DOMAIN f /\ u[i] = f[i + 1] /\ 1 < i + 1
        /\ \A i \in DOMAIN f : i # 1 => 1 < i /\ i - 1 \in DOMAIN u /\ u[i - 1] = f[i]
    BY Popped DEF Order
  <1>2. c \in Cmd /\ n[c] \in {2, 4} /\ c \notin g /\ c \in Nat
    BY <1>1, OrderFacts
  <1>3. m \in [Cmd -> 0 .. 5] /\ m[c] = n[c] + 1 /\ \A e \in Cmd : e # c => m[e] = n[e]
    BY <1>2 DEF Order
  <1>4. /\ Stage(c) \in Message /\ Stage(c).cmd = c /\ Stage(c).do = "stage"
        /\ Free(c) \in Message /\ Free(c).cmd = c /\ Free(c).do = "free"
    BY <1>2 DEF Stage, Free, Message
  <1>5. /\ h = g \/ h = g \cup {c}
        /\ h = g => n[c] = 2 /\ r = Append(t, Stage(c))
        /\ h # g => c \in h /\ (r = t \/ r = Append(t, Free(c)))
    BY <1>2
  <1> HIDE DEF m, u
  <1>6. \A i \in DOMAIN f : i # 1 /\ n[f[i].cmd] = n[c] => c < f[i].cmd
    BY <1>1 DEF Order, FromSorted
  <1>7. h \subseteq {e \in Cmd : m[e] # 0} /\ g \subseteq h
    <2>1. \A e \in g : e \in Cmd /\ m[e] # 0
      <3>1. \A e \in g : e \in Cmd /\ n[e] # 0
        BY OrderFacts
      <3>2. m[c] # 0
        BY <1>2, <1>3
      <3> QED
        BY <1>3, <3>1, <3>2
    <2> QED
      BY <1>2, <1>3, <1>5, <2>1
  <1>8. \A i \in DOMAIN u : u[i].cmd \in Cmd /\ u[i].cmd # c /\ m[u[i].cmd] = n[u[i].cmd]
    <2> SUFFICES ASSUME NEW i \in DOMAIN u
                 PROVE  u[i].cmd \in Cmd /\ u[i].cmd # c
      BY <1>3
    <2>1. i + 1 \in DOMAIN f /\ u[i] = f[i + 1] /\ i + 1 # 1
      BY <1>1
    <2>2. u[i].cmd \in Cmd /\ u[i].cmd \in Nat
      BY <2>1, OrderFacts
    <2>3. n[u[i].cmd] = n[c] => c < u[i].cmd
      BY <1>6, <2>1
    <2> QED
      BY <1>2, <2>2, <2>3
  <1>9. \A i \in DOMAIN t : t[i].do = "stage" => t[i].cmd # c /\ m[t[i].cmd] = 3
    <2>1. \A i \in DOMAIN t : t[i].do = "stage" => t[i].cmd \in Cmd /\ t[i].cmd # c /\ n[t[i].cmd] = 3
      BY <1>2, OrderFacts
    <2> QED
      BY <1>3, <2>1
  <1>10. FromLive(m, h, u)
    <2> SUFFICES ASSUME NEW i \in DOMAIN u
                 PROVE  n[u[i].cmd] \in {2, 4} /\ u[i].cmd \notin g
      BY <1>5, <1>8 DEF FromLive
    <2>1. i + 1 \in DOMAIN f /\ u[i] = f[i + 1]
      BY <1>1
    <2> QED
      BY <2>1, OrderFacts
  <1>11. FromSorted(m, u)
    <2> SUFFICES ASSUME NEW i \in DOMAIN u, NEW j \in DOMAIN u, i < j, m[u[i].cmd] = m[u[j].cmd]
                 PROVE  u[i].cmd < u[j].cmd
      BY DEF FromSorted
    <2>1. i + 1 \in DOMAIN f /\ j + 1 \in DOMAIN f /\ i + 1 < j + 1 /\ u[i] = f[i + 1] /\ u[j] = f[j + 1]
      BY <1>1
    <2>2. n[f[i + 1].cmd] = n[f[j + 1].cmd]
      BY <1>8, <2>1
    <2> QED
      BY <2>1, <2>2 DEF Order, FromSorted
  <1>12. InStep(m, h)
    <2> SUFFICES ASSUME NEW x \in Cmd, NEW y \in Cmd, x < y, m[x] # 0, x \notin h
                 PROVE  m[y] <= m[x]
      BY DEF InStep
    <2>1. x \in Nat /\ y \in Nat /\ x \notin g /\ n[x] \in 0 .. 5 /\ n[y] \in 0 .. 5
      BY <1>7, OrderFacts
    <2>2. n[x] # 0
      BY <1>2, <1>3, <2>1
    <2>3. n[y] <= n[x]
      BY <2>1, <2>2 DEF Order, InStep
    <2>4. CASE x = c
      BY <1>2, <1>3, <2>1, <2>3, <2>4
    <2>5. CASE x # c /\ y # c
      BY <1>3, <2>3, <2>5
    <2>6. CASE x # c /\ y = c
      <3>1. ASSUME n[x] = n[c] PROVE FALSE
        <4>1. PICK i \in DOMAIN f : f[i].cmd = x
          BY <1>2, <2>1, <2>2, <3>1 DEF Order, Somewhere
        <4>2. i # 1
          BY <1>1, <2>6, <4>1
        <4>3. c < x
          BY <1>6, <3>1, <4>1, <4>2
        <4> QED
          BY <1>2, <2>1, <2>6, <4>3
      <3>2. n[c] + 1 <= n[x]
        BY <1>2, <2>1, <2>3, <2>6, <3>1
      <3> QED
        BY <1>3, <2>6, <3>2
    <2> QED
      BY <2>4, <2>5, <2>6
  <1>13. Somewhere(m, h, u, t) \/ (h = g /\ \A e \in Cmd \ {c} : m[e] # 0 /\ e \notin h =>
           \/ m[e] \in {2, 4} /\ \E i \in DOMAIN u : u[i].cmd = e
           \/ m[e] = 3 /\ \E i \in DOMAIN t : t[i].cmd = e /\ t[i].do = "stage")
    <2>1. ASSUME NEW e \in Cmd, e # c, m[e] # 0, e \notin h
          PROVE  \/ m[e] \in {2, 4} /\ \E i \in DOMAIN u : u[i].cmd = e
                 \/ m[e] = 3 /\ \E i \in DOMAIN t : t[i].cmd = e /\ t[i].do = "stage"
      <3>1. m[e] = n[e] /\ n[e] # 0 /\ e \notin g
        BY <1>3, <1>7, <2>1
      <3>2. CASE n[e] \in {2, 4} /\ \E i \in DOMAIN f : f[i].cmd = e
        <4>1. PICK i \in DOMAIN f : f[i].cmd = e
          BY <3>2
        <4>2. i - 1 \in DOMAIN u /\ u[i - 1] = f[i]
          BY <1>1, <2>1, <4>1
        <4> QED
          BY <3>1, <3>2, <4>1, <4>2
      <3>3. CASE n[e] = 3 /\ \E i \in DOMAIN t : t[i].cmd = e /\ t[i].do = "stage"
        BY <3>1, <3>3
      <3> QED
        BY <3>1, <3>2, <3>3 DEF Order, Somewhere
    <2> QED
      BY <1>5, <2>1 DEF Somewhere
  <1>14. CASE r = t /\ h # g
    <2>1. ToLive(m, h, r)
      <3> SUFFICES ASSUME NEW i \in DOMAIN t
                   PROVE  /\ t[i].do = "stage" => m[t[i].cmd] = 3 /\ t[i].cmd \notin h
                          /\ t[i].do # "stage" => t[i].cmd \in h
        BY <1>14 DEF ToLive
      <3> QED
        BY <1>5, <1>7, <1>9, OrderFacts
    <2>2. Somewhere(m, h, u, r)
      BY <1>13, <1>14
    <2>3. ToSorted(r)
      BY <1>14 DEF Order
    <2> QED
      BY <1>1, <1>3, <1>7, <1>10, <1>11, <1>12, <1>14, <2>1, <2>2, <2>3 DEF Order, m, u
  <1>15. CASE \E b \in {Stage(c), Free(c)} : r = Append(t, b) /\ (h = g <=> b = Stage(c))
    <2>1. PICK b \in {Stage(c), Free(c)} : r = Append(t, b) /\ (h = g <=> b = Stage(c))
      BY <1>15
    <2>2. /\ b \in Message /\ b.cmd = c
          /\ h = g <=> b.do = "stage"
      BY <1>4, <2>1
    <2>3. /\ r \in Seq(Message) /\ Len(t) \in Nat
          /\ \A i \in DOMAIN t : i \in Nat /\ i <= Len(t) /\ i \in DOMAIN r /\ r[i] = t[i]
          /\ \A i \in DOMAIN r : i \in DOMAIN t \/ i = Len(t) + 1
          /\ Len(t) + 1 \in DOMAIN r /\ r[Len(t) + 1] = b
      BY <1>1, <2>1, <2>2, Appended
    <2>4. ToLive(m, h, r)
      <3> SUFFICES ASSUME NEW i \in DOMAIN r
                   PROVE  /\ r[i].do = "stage" => m[r[i].cmd] = 3 /\ r[i].cmd \notin h
                          /\ r[i].do # "stage" => r[i].cmd \in h
        BY DEF ToLive
      <3>1. CASE i \in DOMAIN t
        <4>1. r[i] = t[i]
          BY <2>3, <3>1
        <4>2. /\ t[i].do = "stage" => m[t[i].cmd] = 3 /\ t[i].cmd # c /\ t[i].cmd \notin g
              /\ t[i].do # "stage" => t[i].cmd \in g
          BY <1>9, <3>1, OrderFacts
        <4> QED
          BY <1>5, <1>7, <4>1, <4>2
      <3>2. CASE i = Len(t) + 1
        BY <1>2, <1>3, <1>5, <2>2, <2>3, <3>2
      <3> QED
        BY <2>3, <3>1, <3>2
    <2>5. Somewhere(m, h, u, r)
      <3> SUFFICES ASSUME NEW e \in Cmd, m[e] # 0, e \notin h
                   PROVE  \/ m[e] \in {2, 4} /\ \E i \in DOMAIN u : u[i].cmd = e
                          \/ m[e] = 3 /\ \E i \in DOMAIN r : r[i].cmd = e /\ r[i].do = "stage"
        BY DEF Somewhere
      <3>1. CASE e = c
        <4>1. h = g /\ n[c] = 2 /\ m[e] = 3
          BY <1>3, <1>5, <3>1
        <4> QED
          BY <2>2, <2>3, <3>1, <4>1
      <3>2. CASE e # c
        <4>1. \/ m[e] \in {2, 4} /\ \E i \in DOMAIN u : u[i].cmd = e
              \/ m[e] = 3 /\ \E i \in DOMAIN t : t[i].cmd = e /\ t[i].do = "stage"
          BY <1>13, <3>2 DEF Somewhere
        <4> QED
          BY <2>3, <4>1
      <3> QED
        BY <3>1, <3>2
    <2>6. ToSorted(r)
      <3> SUFFICES ASSUME NEW i \in DOMAIN r, NEW j \in DOMAIN r, i < j,
                          r[i].do = "stage", r[j].do = "stage"
                   PROVE  r[i].cmd < r[j].cmd
        BY DEF ToSorted
      <3>1. i \in DOMAIN t
        BY <2>3
      <3>2. CASE j \in DOMAIN t
        BY <2>3, <3>1, <3>2 DEF Order, ToSorted
      <3>3. CASE j = Len(t) + 1
        <4> DEFINE x == t[i].cmd
        <4>1. x \in Cmd /\ x \in Nat /\ n[x] = 3 /\ x # c
          BY <1>9, <2>3, <3>1, OrderFacts
        <4>2. n[c] = 2
          BY <1>5, <2>2, <2>3, <3>3
        <4>3. c < x => n[x] <= n[c]
          BY <1>2, <4>1 DEF Order, InStep
        <4>4. x < c
          BY <1>2, <4>1, <4>2, <4>3
        <4> QED
          BY <2>2, <2>3, <3>1, <3>3, <4>4
      <3> QED
        BY <2>3, <3>2, <3>3
    <2> QED
      BY <1>1, <1>3, <1>7, <1>10, <1>11, <1>12, <2>3, <2>4, <2>5, <2>6 DEF Order, m, u
  <1>16. Stage(c) # Free(c)
    BY <1>4
  <1> QED
    BY <1>5, <1>14, <1>15, <1>16

\* The command of a message that asks for deletion was gone already.
LEMMA OrderFree ==
  ASSUME NEW n, NEW g, NEW f, NEW t, Order(n, g, f, t), t # <<>>, Head(t).do = "free"
  PROVE  Order(n, g, f, Tail(t)) /\ Head(t).cmd \in g
  <1> DEFINE u == Tail(t)
  <1>1. /\ u \in Seq(Message) /\ 1 \in DOMAIN t /\ Head(t) = t[1]
        /\ \A i \in DOMAIN u : i \in Nat /\ i + 1 \in DOMAIN t /\ u[i] = t[i + 1]
        /\ \A i \in DOMAIN t : i # 1 => i - 1 \in DOMAIN u /\ u[i - 1] = t[i]
    BY Popped DEF Order
  <1>2. t[1].cmd \in g
    BY <1>1 DEF Order, ToLive
  <1> HIDE DEF u
  <1>3. ToLive(n, g, u)
    <2> SUFFICES ASSUME NEW i \in DOMAIN u
                 PROVE  /\ u[i].do = "stage" => n[u[i].cmd] = 3 /\ u[i].cmd \notin g
                        /\ u[i].do # "stage" => u[i].cmd \in g
      BY DEF ToLive
    <2> QED
      BY <1>1, OrderFacts
  <1>4. ToSorted(u)
    <2> SUFFICES ASSUME NEW i \in DOMAIN u, NEW j \in DOMAIN u, i < j,
                        u[i].do = "stage", u[j].do = "stage"
                 PROVE  u[i].cmd < u[j].cmd
      BY DEF ToSorted
    <2>1. i + 1 \in DOMAIN t /\ j + 1 \in DOMAIN t /\ i + 1 < j + 1 /\ u[i] = t[i + 1] /\ u[j] = t[j + 1]
      BY <1>1
    <2> QED
      BY <2>1 DEF Order, ToSorted
  <1>5. Somewhere(n, g, f, u)
    <2> SUFFICES ASSUME NEW c \in Cmd, c \notin g, n[c] = 3,
                        \E i \in DOMAIN t : t[i].cmd = c /\ t[i].do = "stage"
                 PROVE  \E i \in DOMAIN u : u[i].cmd = c /\ u[i].do = "stage"
      BY DEF Order, Somewhere
    <2>1. PICK i \in DOMAIN t : t[i].cmd = c /\ t[i].do = "stage"
      OBVIOUS
    <2>2. i - 1 \in DOMAIN u /\ u[i - 1] = t[i]
      BY <1>1, <1>2, <2>1
    <2> QED
      BY <2>1, <2>2
  <1> QED
    BY <1>1, <1>2, <1>3, <1>4, <1>5 DEF Order, u

\* Only commands that failed are answered before their fourth stage.
AnsweredOK == \A c \in answered : cmds[c].next # 0 /\ (cmds[c].next = 5 \/ cmds[c].kind = "fail")

OrderInv == Order(Stages, Gone, fromEngine, toEngine) /\ AnsweredOK

LEMMA InitOrderInv == Init => OrderInv
  <1> SUFFICES ASSUME Init PROVE OrderInv
    OBVIOUS
  <1>1. Gone = {} /\ fromEngine = <<>> /\ toEngine = <<>> /\ answered = {}
    BY DEF Init, Gone
  <1>2. Stages = [c \in Cmd |-> 0]
    BY DEF Init, Stages, Unborn
  <1> QED
    BY <1>1, <1>2 DEF OrderInv, AnsweredOK, Order, Somewhere, FromLive, ToLive, InStep, FromSorted, ToSorted

\* Steps that touch neither the commands nor the FIFOs.
LEMMA OrderSame ==
  ASSUME OrderInv, UNCHANGED <<cmds, deleted, answered, lost, fromEngine, toEngine>>
  PROVE  OrderInv'
  BY DEF OrderInv, AnsweredOK, Gone, Stages

\* The commands not received yet are those from the next one on.
LEMMA NextIsFirst ==
  ASSUME MsgInv, NextCmd \in Cmd
  PROVE  \A c \in Cmd : c >= NextCmd <=> Stages[c] = 0
  <1>1. /\ Received = 1 .. Cardinality(Received) /\ Cardinality(Received) \in Nat
        /\ NextCmd = Cardinality(Received) + 1
    BY NextIsUnborn DEF MsgInv, InOrder, NextCmd
  <1>2. \A c \in Cmd : c \in Nat /\ 1 <= c /\ (Stages[c] = 0 <=> c \notin Received)
    BY DEF Cmd, Stages, Received
  <1> QED
    BY <1>1, <1>2

LEMMA OrderInvReceive ==
  ASSUME MsgInv, OrderInv, NEW r \in Requests, Receive(r)
  PROVE  OrderInv'
  <1> DEFINE d == NextCmd
  <1>1. /\ d \in Cmd /\ cmds' = [cmds EXCEPT ![d] = New(r)] /\ cmds \in [Cmd -> Command]
        /\ fromEngine' = PutFromEngine(fromEngine, Stage(d))
        /\ lost' = IF FromEngineFull(fromEngine) THEN lost \cup {d} ELSE lost
        /\ UNCHANGED <<deleted, answered, toEngine>>
    BY DEF Receive, MsgInv, TypeOK
  <1>2. \A c \in Cmd : c >= d <=> Stages[c] = 0
    BY <1>1, NextIsFirst
  <1>3. New(r).next = 2
    BY DEF New
  <1> HIDE DEF d
  <1>4. Stages' = [Stages EXCEPT ![d] = 2]
    BY <1>1, <1>3 DEF Stages
  <1>5. WrittenOrLost(fromEngine, Stage(d), Gone, fromEngine', Gone')
    BY <1>1 DEF WrittenOrLost, Gone, PutFromEngine, Stage
  <1>6. Order(Stages', Gone', fromEngine', toEngine')
    <2>1. Order(Stages, Gone, fromEngine, toEngine)
      BY DEF OrderInv
    <2> QED
      BY <1>1, <1>2, <1>4, <1>5, <2>1, OrderReceive
  <1>7. AnsweredOK'
    <2>1. \A c \in answered : c \in Cmd /\ c # d /\ cmds'[c] = cmds[c]
      <3>1. answered \subseteq Cmd
        BY DEF MsgInv, TypeOK
      <3>2. d \notin answered
        BY <1>1, <1>2 DEF OrderInv, AnsweredOK, Stages, Cmd
      <3> QED
        BY <1>1, <3>1, <3>2
    <2> QED
      BY <1>1, <2>1 DEF AnsweredOK, OrderInv
  <1> QED
    BY <1>6, <1>7 DEF OrderInv

\* The first message of mToEngine asked for a third stage, and the command was sent on.
LEMMA OrderSendToStageFour ==
  ASSUME MsgInv, OrderInv, toEngine # <<>>, toEngine' = Tail(toEngine),
         Head(toEngine).do = "stage",
         NEW c, c = Head(toEngine).cmd, SendToStageFour(c), UNCHANGED <<deleted, answered>>
  PROVE  Order(Stages', Gone', fromEngine', toEngine')
  <1>1. cmds \in [Cmd -> Command] /\ c \in Cmd /\ cmds[c] \in Command /\ cmds[c].next = 3
    <2>1. c \in Cmd /\ 1 \in DOMAIN toEngine /\ toEngine[1] = Head(toEngine)
      BY ToEnginePopped
    <2> QED
      BY <2>1 DEF MsgInv, TypeOK, ToEngineOK
  <1>2. [cmds[c] EXCEPT !.next = 4].next = 4
    BY <1>1 DEF Command
  <1>3. Order(Stages, Gone, fromEngine, toEngine)
    BY DEF OrderInv
  <1>4. /\ cmds' = [cmds EXCEPT ![c].next = 4]
        /\ fromEngine' = PutFromEngine(fromEngine, Stage(c))
        /\ lost' = IF FromEngineFull(fromEngine) THEN lost \cup {c} ELSE lost
    BY DEF SendToStageFour
  <1>5. Stages' = [Stages EXCEPT ![c] = 4]
    BY <1>1, <1>2, <1>4 DEF Stages
  <1>6. WrittenOrLost(fromEngine, Stage(c), Gone, fromEngine', Gone')
    BY <1>4 DEF WrittenOrLost, Gone, PutFromEngine, Stage
  <1> QED
    BY <1>3, <1>5, <1>6, OrderFour

LEMMA OrderInvRtPerform ==
  ASSUME MsgInv, OrderInv, RtPerform
  PROVE  OrderInv'
  <1> DEFINE c == Head(toEngine).cmd
  <1>1. /\ toEngine # <<>> /\ toEngine' = Tail(toEngine) /\ answered' = answered
        /\ c \in Cmd /\ cmds \in [Cmd -> Command] /\ cmds[c] \in Command
        /\ 1 \in DOMAIN toEngine /\ toEngine[1] = Head(toEngine)
    BY ToEnginePopped DEF RtPerform, MsgInv, TypeOK
  <1>2. Order(Stages, Gone, fromEngine, toEngine)
    BY DEF OrderInv
  <1>3. CASE Head(toEngine).do = "free" /\ deleted' = deleted \cup {c} /\ UNCHANGED <<cmds, lost, fromEngine>>
    <2>1. Order(Stages, Gone, fromEngine, Tail(toEngine)) /\ c \in Gone
      BY <1>1, <1>2, <1>3, OrderFree
    <2>2. Stages' = Stages /\ Gone' = Gone
      BY <1>1, <1>3, <2>1 DEF Stages, Gone
    <2> QED
      BY <1>1, <1>3, <2>1, <2>2 DEF OrderInv, AnsweredOK
  <1>4. CASE Head(toEngine).do = "stage" /\ StageThree(c)
    <2>1. cmds[c].next = 3
      BY <1>1, <1>4 DEF MsgInv, ToEngineOK
    <2>2. Order(Stages', Gone', fromEngine', toEngine')
      <3>1. CASE SendToStageFour(c) /\ UNCHANGED deleted
        BY <1>1, <1>4, <3>1, OrderSendToStageFour
      <3>2. CASE /\ cmds' = [cmds EXCEPT ![c].next = 4]
                 /\ deleted' = deleted \cup {c}
                 /\ UNCHANGED <<fromEngine, lost>>
        <4>1. [cmds[c] EXCEPT !.next = 4].next = 4
          BY <1>1 DEF Command
        <4> HIDE DEF c
        <4>2. Stages' = [Stages EXCEPT ![c] = 4]
          BY <1>1, <3>2, <4>1 DEF Stages
        <4>3. WrittenOrLost(fromEngine, Stage(c), Gone, fromEngine', Gone')
          BY <1>1, <3>2 DEF WrittenOrLost, Gone, Stage
        <4> QED
          BY <1>1, <1>2, <1>4, <4>2, <4>3, OrderFour DEF c
      <3> QED
        BY <1>4, <3>1, <3>2 DEF StageThree
    <2>3. AnsweredOK'
      <3>1. MovedToFour(c)
        BY <1>1, <1>4, <2>1, StageThreeMoves
      <3>2. answered \subseteq Cmd
        BY DEF MsgInv, TypeOK
      <3> HIDE DEF c
      <3> QED
        BY <1>1, <2>1, <3>1, <3>2 DEF AnsweredOK, OrderInv, MovedToFour
    <2> QED
      BY <2>2, <2>3 DEF OrderInv
  <1> QED
    BY <1>3, <1>4 DEF RtPerform

LEMMA OrderInvNrtPerform ==
  ASSUME MsgInv, OrderInv, NrtPerform
  PROVE  OrderInv'
  <1> DEFINE c == Head(fromEngine).cmd
  <1>1. /\ fromEngine # <<>> /\ fromEngine' = Tail(fromEngine) /\ deleted' = deleted
        /\ lost' = IF ToEngineFull THEN lost \cup {c} ELSE lost
        /\ c \in Cmd /\ cmds \in [Cmd -> Command] /\ cmds[c] \in Command /\ answered \subseteq Cmd
        /\ Order(Stages, Gone, fromEngine, toEngine)
    BY FirstOfFromEngine DEF NrtPerform, TypeOK, OrderInv
  <1>2. /\ \/ cmds[c].next = 2 /\ StageTwo(c)
           \/ cmds[c].next = 4 /\ StageFour(c)
    BY DEF NrtPerform
  <1> HIDE DEF c
  <1>3. CASE cmds[c].next = 2 /\ StageTwo(c)
    <2>1. /\ toEngine' = PutToEngine(IF cmds[c].kind = "fail" THEN Free(c) ELSE Stage(c))
          /\ answered' = IF cmds[c].kind = "fail" THEN answered \cup {c} ELSE answered
      BY <1>3 DEF StageTwo, AnswersAtTwo
    <2>2. /\ cmds'[c].next = 3 /\ cmds'[c].kind = cmds[c].kind
          /\ \A e \in Cmd : e # c => cmds'[e] = cmds[e]
      <3>1. CASE cmds[c].kind \in OnBuffer
        <4> DEFINE o == OldData(c)
                   n == NewData(c)
        <4>1. cmds' = [cmds EXCEPT ![c].next = 3, ![c].free = o, ![c].snd = n]
          BY <1>3, <3>1 DEF StageTwo, StageTwoBuffer
        <4> HIDE DEF o, n
        <4> QED
          BY <1>1, <4>1 DEF Command
      <3>2. CASE cmds[c].kind \notin OnBuffer
        <4>1. cmds' = [cmds EXCEPT ![c].next = 3]
          BY <1>3, <3>2 DEF StageTwo
        <4> QED
          BY <1>1, <4>1 DEF Command
      <3> QED
        BY <3>1, <3>2
    <2>3. Stages' = [Stages EXCEPT ![c] = Stages[c] + 1] /\ Stages[c] = 2
      BY <1>1, <1>3, <2>2 DEF Stages
    <2>4. \/ toEngine' = Append(toEngine, Stage(c)) /\ Gone' = Gone
          \/ /\ Gone' = Gone \cup {c}
             /\ toEngine' = toEngine \/ toEngine' = Append(toEngine, Free(c))
      BY <1>1, <2>1 DEF Gone, PutToEngine
    <2>5. Order(Stages', Gone', fromEngine', toEngine')
      BY <1>1, <2>3, <2>4, OrderEven DEF c
    <2>6. AnsweredOK'
      <3>1. \A e \in answered : e \in Cmd /\ cmds[e].next # 0 /\ (cmds[e].next = 5 \/ cmds[e].kind = "fail")
        BY <1>1 DEF AnsweredOK, OrderInv
      <3>2. c \in answered => cmds[c].kind = "fail"
        BY <1>3, <3>1
      <3>3. c \in answered' => cmds'[c].next # 0 /\ cmds'[c].kind = "fail"
        BY <2>1, <2>2, <3>2
      <3> QED
        BY <2>1, <2>2, <3>1, <3>3 DEF AnsweredOK
    <2> QED
      BY <2>5, <2>6 DEF OrderInv
  <1>4. CASE cmds[c].next = 4 /\ StageFour(c)
    <2>1. /\ cmds' = [cmds EXCEPT ![c].next = 5] /\ answered' = answered \cup {c}
          /\ toEngine' = PutToEngine(Free(c))
      BY <1>4 DEF StageFour
    <2>2. /\ cmds'[c].next = 5 /\ cmds'[c].kind = cmds[c].kind
          /\ \A e \in Cmd : e # c => cmds'[e] = cmds[e]
      BY <1>1, <2>1 DEF Command
    <2>3. Stages' = [Stages EXCEPT ![c] = Stages[c] + 1] /\ Stages[c] = 4
      BY <1>1, <1>4, <2>1, <2>2 DEF Stages
    <2>4. /\ Gone' = Gone \cup {c}
          /\ toEngine' = toEngine \/ toEngine' = Append(toEngine, Free(c))
      BY <1>1, <2>1 DEF Gone, PutToEngine
    <2>5. Order(Stages', Gone', fromEngine', toEngine')
      BY <1>1, <2>3, <2>4, OrderEven DEF c
    <2>6. AnsweredOK'
      BY <1>1, <2>1, <2>2 DEF AnsweredOK, OrderInv
    <2> QED
      BY <2>5, <2>6 DEF OrderInv
  <1> QED
    BY <1>2, <1>3, <1>4

\* All other steps leave the commands and the FIFOs between the threads alone.
LEMMA OtherSteps ==
  ASSUME [Next]_vars, \A r \in Requests : ~Receive(r), ~RtPerform, ~NrtPerform
  PROVE  UNCHANGED <<cmds, deleted, answered, lost, fromEngine, toEngine, rtBuf, nrtBuf>>
  BY DEF Next, WriteSamples, Rt, CallbackBegin, RtPerformed, CallbackEnd, Nrt,
         NrtCheckFlag, NrtCatchUp, NrtTest, NrtSleep, NrtLock, NrtUnlock, NrtMove,
         Main, MainStop, MainClearFlag, MainSignal, MainJoin, MainMove,
         Copier, Copy, CopyEnd, CopierMove, vars, fifos, buffers

LEMMA NextOrderInv == MsgInv /\ OrderInv /\ [Next]_vars => OrderInv'
  BY OrderInvReceive, OrderInvRtPerform, OrderInvNrtPerform, OrderSame, OtherSteps

\* When a client gets /synced, all commands received before have been answered or
\* deleted, except those of which a full FIFO lost a message (SyncCmd::Stage4).
THEOREM SyncedWhenDone == Spec => []SyncedMeansDone
  <1>1. MsgInv /\ OrderInv => SyncedMeansDone
    <2> SUFFICES ASSUME MsgInv, OrderInv, NEW s \in answered, cmds[s].kind = "sync",
                        NEW c \in 1 .. s - 1, c \notin Gone
                 PROVE  FALSE
      BY DEF SyncedMeansDone, Gone
    <2>1. s \in Cmd /\ cmds[s].next = 5
      BY DEF OrderInv, AnsweredOK, MsgInv, TypeOK
    <2>2. c \in Cmd /\ c < s
      BY <2>1, BoundsAssumption DEF Cmd
    <2>3. s \in 1 .. Cardinality(Received) /\ Cardinality(Received) \in Nat
      BY <2>1, NextIsUnborn DEF MsgInv, InOrder, Received
    <2>4. c \in Received
      BY <2>2, <2>3 DEF MsgInv, InOrder, Cmd
    <2>5. Stages[s] = 5 /\ Stages[c] # 0 /\ Order(Stages, Gone, fromEngine, toEngine)
      BY <2>1, <2>2, <2>4 DEF Stages, Received, OrderInv
    <2>6. 5 <= Stages[c]
      BY <2>1, <2>2, <2>5 DEF Order, InStep
    <2>7. Stages[c] \in {2, 3, 4}
      BY <2>2, <2>5, OrderFacts
    <2> QED
      BY <2>6, <2>7
  <1>2. Init => MsgInv /\ OrderInv
    BY InitMsgInv, InitOrderInv
  <1>3. MsgInv /\ OrderInv /\ [Next]_vars => MsgInv' /\ OrderInv'
    BY NextMsgInv, NextOrderInv
  <1> QED
    BY <1>1, <1>2, <1>3, PTL DEF Spec

-----------------------------------------------------------------------------
(* The two copies of a buffer.  The data that the last swap in mToEngine    *)
(* hands to the rt thread is what the nrt thread has; data that is in no    *)
(* copy and not freed is owed by a command that has its fourth stage to do. *)

SwapAt(i, b) == IsStage(i) /\ Sent(i).buf = b /\ Sent(i).kind \in Swaps
LastSwap(i, b) == SwapAt(i, b) /\ \A j \in DOMAIN toEngine : SwapAt(j, b) => j <= i

CopiesAgree ==
  lost = {} =>
    \A b \in Buf :
      /\ (\A i \in DOMAIN toEngine : ~SwapAt(i, b)) => rtBuf[b] = nrtBuf[b]
      /\ \A i \in DOMAIN toEngine : LastSwap(i, b) => Sent(i).snd = nrtBuf[b]
NoneForgotten ==
  \A c \in Cmd : cmds[c].kind = "alloc" /\ cmds[c].next \in {3, 4, 5} =>
    \/ c \in freed
    \/ \E b \in Buf : nrtBuf[b] = c
    \/ \E e \in Cmd : Pending(e) /\ cmds[e].free = c
DeletedOweNothing ==
  /\ \A c \in deleted : cmds[c].next = 5 \/ cmds[c].kind \in {"drop", "fail"}
  /\ \A i \in DOMAIN toEngine : ~IsStage(i) => Sent(i).next = 5 \/ Sent(i).kind = "fail"

AgreeInv == Fresh /\ CopiesAgree /\ NoneForgotten /\ DeletedOweNothing

\* What a second stage does, for every kind of command.
LEMMA StageTwoDoes ==
  ASSUME TypeOK, NEW c \in Cmd, cmds[c].next = 2, StageTwo(c)
  PROVE  /\ cmds'[c].next = 3 /\ cmds'[c].buf = cmds[c].buf /\ cmds'[c].kind = cmds[c].kind
         /\ \A e \in Cmd : e # c => cmds'[e] = cmds[e]
         /\ cmds[c].kind \in OnBuffer =>
              /\ cmds[c].buf \in Buf /\ nrtBuf'[cmds[c].buf] = NewData(c)
              /\ cmds'[c].free = OldData(c) /\ cmds'[c].snd = NewData(c)
         /\ cmds[c].kind \notin OnBuffer =>
              cmds'[c].free = cmds[c].free /\ cmds'[c].snd = cmds[c].snd
         /\ \A b \in Buf : nrtBuf'[b] # nrtBuf[b] => b = cmds[c].buf /\ cmds[c].kind \in {"alloc", "free"}
         /\ \A x \in Cmd : text'[x] # text[x] =>
              \/ cmds[c].kind = "alloc" /\ x = c
              \/ cmds[c].kind \in {"gen", "read"} /\ x = nrtBuf[cmds[c].buf]
  <1>1. cmds \in [Cmd -> Command] /\ cmds[c] \in Command /\ nrtBuf \in [Buf -> Data] /\ text \in [Cmd -> Data]
    BY DEF TypeOK
  <1>2. CASE cmds[c].kind \in OnBuffer
    <2> DEFINE o == OldData(c)
               n == NewData(c)
               b == cmds[c].buf
               w == CASE cmds[c].kind = "alloc" -> {c}
                      [] cmds[c].kind \in {"gen", "read"} -> {nrtBuf[b]} \ {None}
                      [] OTHER -> {}
    <2>1. /\ cmds' = [cmds EXCEPT ![c].next = 3, ![c].free = o, ![c].snd = n]
          /\ nrtBuf' = [nrtBuf EXCEPT ![b] = n]
          /\ text' = [d \in Cmd |-> IF d \in w THEN c ELSE text[d]]
      BY <1>2 DEF StageTwo, StageTwoBuffer
    <2>2. b \in Buf
      BY <1>1, <1>2 DEF Command
    <2>3. cmds[c].kind \notin {"alloc", "free"} => n = nrtBuf[b]
      BY DEF NewData
    <2>4. \A x \in w : \/ cmds[c].kind = "alloc" /\ x = c
                       \/ cmds[c].kind \in {"gen", "read"} /\ x = nrtBuf[b]
      OBVIOUS
    <2> HIDE DEF o, n, w
    <2>5. \A x \in Cmd : text'[x] # text[x] => x \in w
      BY <2>1
    <2>6. /\ cmds'[c].next = 3 /\ cmds'[c].buf = b /\ cmds'[c].kind = cmds[c].kind
          /\ cmds'[c].free = o /\ cmds'[c].snd = n
          /\ \A e \in Cmd : e # c => cmds'[e] = cmds[e]
      BY <1>1, <2>1 DEF Command
    <2>7. nrtBuf'[b] = n /\ \A d \in Buf : d # b => nrtBuf'[d] = nrtBuf[d]
      BY <1>1, <2>1, <2>2
    <2>8. \A d \in Buf : nrtBuf'[d] # nrtBuf[d] => d = b /\ cmds[c].kind \in {"alloc", "free"}
      BY <2>3, <2>7
    <2> QED
      BY <1>2, <2>2, <2>4, <2>5, <2>6, <2>7, <2>8 DEF o, n
  <1>3. CASE cmds[c].kind \notin OnBuffer
    <2>1. cmds' = [cmds EXCEPT ![c].next = 3] /\ nrtBuf' = nrtBuf /\ text' = text
      BY <1>3 DEF StageTwo
    <2>2. /\ cmds'[c].next = 3 /\ cmds'[c].buf = cmds[c].buf /\ cmds'[c].kind = cmds[c].kind
          /\ cmds'[c].free = cmds[c].free /\ cmds'[c].snd = cmds[c].snd
          /\ \A e \in Cmd : e # c => cmds'[e] = cmds[e]
      BY <1>1, <2>1 DEF Command
    <2> QED
      BY <1>3, <2>1, <2>2
  <1> QED
    BY <1>2, <1>3

LEMMA InitAgree == Init => AgreeInv
  <1> SUFFICES ASSUME Init PROVE AgreeInv
    OBVIOUS
  <1>1. /\ \A c \in Cmd : cmds[c] = Unborn
        /\ \A b \in Buf : rtBuf[b] = None /\ nrtBuf[b] = None
        /\ toEngine = <<>> /\ deleted = {}
    BY DEF Init
  <1> QED
    BY <1>1 DEF AgreeInv, Fresh, CopiesAgree, NoneForgotten, DeletedOweNothing, LastSwap, Unborn

\* Steps that touch no command and no copy, and take back nothing from what was freed.
LEMMA AgreeSame ==
  ASSUME AgreeInv, UNCHANGED <<cmds, deleted, lost, toEngine, rtBuf, nrtBuf>>, freed \subseteq freed'
  PROVE  AgreeInv'
  BY DEF AgreeInv, Fresh, CopiesAgree, NoneForgotten, DeletedOweNothing, LastSwap, SwapAt, Pending, Sent, IsStage

LEMMA AgreeReceive ==
  ASSUME MsgInv, AgreeInv, NEW r \in Requests, Receive(r)
  PROVE  AgreeInv'
  <1> DEFINE d == NextCmd
  <1>1. TypeOK /\ d \in Cmd /\ cmds[d].next = 0 /\ d \notin deleted /\ deleted \subseteq Cmd
    BY NextIsUnborn DEF Receive, Received, MsgInv, TypeOK
  <1>2. /\ cmds' = [cmds EXCEPT ![d] = New(r)] /\ cmds \in [Cmd -> Command]
        /\ UNCHANGED <<toEngine, rtBuf, nrtBuf, freed, deleted>>
        /\ lost' = {} => lost = {}
    BY <1>1 DEF Receive, TypeOK, buffers
  <1>3. New(r).next = 2 /\ New(r).free = None /\ New(r).snd = None
    BY DEF New
  <1>4. \A e \in Cmd : e # d => cmds'[e] = cmds[e]
    BY <1>2
  <1>5. cmds'[d].next = 2 /\ cmds'[d].free = None /\ cmds'[d].snd = None
    BY <1>1, <1>2, <1>3
  <1>6. \A i \in DOMAIN toEngine : toEngine[i].cmd \in Cmd /\ toEngine[i].cmd # d
    BY <1>1, InFifos DEF MsgInv, ToEngineOK
  <1> HIDE DEF d
  <1>7. \A i \in DOMAIN toEngine : Sent(i)' = Sent(i) /\ IsStage(i)' = IsStage(i)
    BY <1>2, <1>4, <1>6 DEF Sent, IsStage
  <1>8. \A i \in DOMAIN toEngine, b \in Buf : LastSwap(i, b)' <=> LastSwap(i, b)
    BY <1>2, <1>7 DEF LastSwap, SwapAt
  <1>9. CopiesAgree'
    BY <1>2, <1>7, <1>8 DEF CopiesAgree, AgreeInv, SwapAt
  <1>10. \A e \in Cmd : Pending(e) => Pending(e)' /\ cmds'[e] = cmds[e]
    BY <1>1, <1>4 DEF Pending
  <1>11. NoneForgotten'
    BY <1>2, <1>4, <1>5, <1>10 DEF NoneForgotten, AgreeInv
  <1>12. DeletedOweNothing'
    BY <1>1, <1>2, <1>4, <1>7 DEF DeletedOweNothing, AgreeInv
  <1>13. Fresh'
    BY <1>4, <1>5 DEF Fresh, AgreeInv
  <1> QED
    BY <1>9, <1>11, <1>12, <1>13 DEF AgreeInv

LEMMA AgreeRtPerform ==
  ASSUME MsgInv, AgreeInv, RtPerform
  PROVE  AgreeInv'
  <1> DEFINE c == Head(toEngine).cmd
  <1>1. /\ TypeOK /\ toEngine # <<>> /\ toEngine' = Tail(toEngine)
        /\ UNCHANGED <<nrtBuf, freed>> /\ rtBuf \in [Buf -> Data]
        /\ c \in Cmd /\ cmds[c] \in Command
        /\ toEngine \in Seq(Message) /\ 1 \in DOMAIN toEngine /\ toEngine[1] = Head(toEngine)
        /\ \A i \in DOMAIN toEngine' : /\ toEngine'[i].cmd # c
                                       /\ i + 1 \in DOMAIN toEngine /\ toEngine'[i] = toEngine[i + 1]
                                       /\ toEngine'[i].cmd \in Cmd
    BY ToEnginePopped DEF RtPerform, MsgInv, TypeOK
  <1>2. /\ \A i \in DOMAIN toEngine' : i \in Nat
        /\ \A i \in DOMAIN toEngine : i \in Nat /\ (i # 1 => 1 < i /\ i - 1 \in DOMAIN toEngine')
    BY <1>1, Popped
  <1>3. /\ \A e \in Cmd : e # c =>
             \/ cmds'[e] = cmds[e]
             \/ cmds[e].next = 0 /\ cmds'[e].next = 2 /\ cmds'[e].free = None /\ cmds'[e].snd = None
        /\ cmds'[c].next = cmds[c].next \/ (cmds[c].next = 3 /\ cmds'[c].next = 4)
        /\ cmds'[c].kind = cmds[c].kind /\ cmds'[c].buf = cmds[c].buf
        /\ cmds'[c].free = cmds[c].free /\ cmds'[c].snd = cmds[c].snd
    <2> HIDE DEF c
    <2>1. CASE cmds' = cmds
      BY <2>1
    <2>2. CASE Head(toEngine).do = "stage" /\ StageThree(c)
      <3>1. cmds[c].next = 3
        BY <1>1, <2>2 DEF MsgInv, ToEngineOK, c
      <3>2. MovedToFour(c)
        BY <1>1, <2>2, <3>1, StageThreeMoves DEF c
      <3> QED
        BY <3>1, <3>2 DEF MovedToFour
    <2> QED
      BY <2>1, <2>2 DEF RtPerform, c
  <1>4. \A b \in Buf : rtBuf'[b] = IF SwapAt(1, b) THEN cmds[c].snd ELSE rtBuf[b]
    <2>1. CASE Head(toEngine).do = "free" /\ rtBuf' = rtBuf
      BY <1>1, <2>1 DEF SwapAt, IsStage
    <2>2. CASE Head(toEngine).do = "stage" /\ StageThree(c)
      BY <1>1, <2>2 DEF StageThree, StageThreeSwap, SwapAt, IsStage, Sent
    <2> QED
      BY <2>1, <2>2 DEF RtPerform
  <1>5. lost' = {} => lost = {}
    BY DEF RtPerform, StageThree, SendToStageFour
  <1>6. deleted' \subseteq deleted \cup {c}
        /\ (c \in deleted' /\ c \notin deleted => ~IsStage(1) \/ cmds[c].kind = "drop")
    BY <1>1 DEF RtPerform, StageThree, IsStage
  <1>7. Sent(1) = cmds[c]
    BY <1>1 DEF Sent
  <1> HIDE DEF c
  <1>8. \A i \in DOMAIN toEngine' : /\ IsStage(i)' = IsStage(i + 1)
                                    /\ Sent(i)' = Sent(i + 1)
    <2>1. \A i \in DOMAIN toEngine : cmds[toEngine[i].cmd].next # 0
      BY DEF MsgInv, ToEngineOK
    <2> QED
      BY <1>1, <1>3, <2>1 DEF IsStage, Sent
  <1>9. \A i \in DOMAIN toEngine', b \in Buf : SwapAt(i, b)' <=> SwapAt(i + 1, b)
    BY <1>8 DEF SwapAt
  <1>10. CopiesAgree'
    <2> SUFFICES ASSUME lost' = {}, NEW b \in Buf
                 PROVE  /\ (\A i \in DOMAIN toEngine' : ~SwapAt(i, b)') => rtBuf'[b] = nrtBuf[b]
                        /\ \A i \in DOMAIN toEngine' : LastSwap(i, b)' => (Sent(i).snd)' = nrtBuf[b]
      BY <1>1 DEF CopiesAgree
    <2>1. /\ (\A i \in DOMAIN toEngine : ~SwapAt(i, b)) => rtBuf[b] = nrtBuf[b]
          /\ \A i \in DOMAIN toEngine : LastSwap(i, b) => Sent(i).snd = nrtBuf[b]
      BY <1>5 DEF CopiesAgree, AgreeInv
    <2>2. ASSUME \A i \in DOMAIN toEngine' : ~SwapAt(i, b)'
          PROVE  rtBuf'[b] = nrtBuf[b]
      <3>1. \A i \in DOMAIN toEngine : SwapAt(i, b) => i = 1
        <4> SUFFICES ASSUME NEW i \in DOMAIN toEngine, i # 1, SwapAt(i, b) PROVE FALSE
          OBVIOUS
        <4>1. i - 1 \in DOMAIN toEngine' /\ (i - 1) + 1 = i
          BY <1>2
        <4> QED
          BY <1>9, <2>2, <4>1
      <3>2. CASE SwapAt(1, b)
        <4>1. LastSwap(1, b)
          BY <3>1, <3>2 DEF LastSwap
        <4> QED
          BY <1>1, <1>4, <1>7, <2>1, <3>2, <4>1
      <3>3. CASE ~SwapAt(1, b)
        BY <1>4, <2>1, <3>1, <3>3
      <3> QED
        BY <3>2, <3>3
    <2>3. ASSUME NEW i \in DOMAIN toEngine', LastSwap(i, b)'
          PROVE  (Sent(i).snd)' = nrtBuf[b]
      <3>1. SwapAt(i, b)' /\ \A j \in DOMAIN toEngine' : SwapAt(j, b)' => j <= i
        BY <2>3 DEF LastSwap
      <3>2. \A j \in DOMAIN toEngine : SwapAt(j, b) => j <= i + 1
        <4> SUFFICES ASSUME NEW j \in DOMAIN toEngine, j # 1, SwapAt(j, b) PROVE j <= i + 1
          BY <1>2
        <4>1. j - 1 \in DOMAIN toEngine' /\ (j - 1) + 1 = j /\ j \in Nat /\ i \in Nat
          BY <1>2
        <4>2. SwapAt(j - 1, b)'
          BY <1>9, <4>1
        <4>3. j - 1 <= i
          BY <3>1, <4>1, <4>2
        <4> QED
          BY <4>1, <4>3
      <3>3. i + 1 \in DOMAIN toEngine /\ LastSwap(i + 1, b)
        BY <1>1, <1>9, <3>1, <3>2 DEF LastSwap
      <3> QED
        BY <1>8, <2>1, <3>3
    <2> QED
      BY <2>2, <2>3
  <1>11. \A e \in Cmd : Pending(e) => Pending(e)' /\ cmds'[e].free = cmds[e].free
    BY <1>1, <1>3 DEF Pending
  <1>12. NoneForgotten'
    <2> SUFFICES ASSUME NEW e \in Cmd, cmds'[e].kind = "alloc", cmds'[e].next \in {3, 4, 5}
                 PROVE  \/ e \in freed
                        \/ \E b \in Buf : nrtBuf[b] = e
                        \/ \E d \in Cmd : Pending(d)' /\ cmds'[d].free = e
      BY <1>1 DEF NoneForgotten
    <2>1. cmds[e].kind = "alloc" /\ cmds[e].next \in {3, 4, 5}
      BY <1>3
    <2> QED
      BY <1>11, <2>1 DEF NoneForgotten, AgreeInv
  <1>13. DeletedOweNothing'
    <2>1. ASSUME NEW e \in deleted' PROVE cmds'[e].next = 5 \/ cmds'[e].kind \in {"drop", "fail"}
      <3>1. CASE e = c
        <4>1. cmds[c].next = 5 \/ cmds[c].kind \in {"drop", "fail"}
          BY <1>1, <1>6, <1>7, <2>1, <3>1 DEF DeletedOweNothing, AgreeInv
        <4> QED
          BY <1>3, <3>1, <4>1
      <3>2. CASE e # c
        <4>1. e \in deleted /\ e \in Cmd /\ cmds[e].next # 0
          BY <1>6, <2>1, <3>2 DEF MsgInv, TypeOK, Received
        <4>2. cmds'[e] = cmds[e]
          BY <1>3, <3>2, <4>1
        <4> QED
          BY <4>1, <4>2 DEF DeletedOweNothing, AgreeInv
      <3> QED
        BY <3>1, <3>2
    <2>2. ASSUME NEW i \in DOMAIN toEngine', ~IsStage(i)'
          PROVE  (Sent(i).next)' = 5 \/ (Sent(i).kind)' = "fail"
      BY <1>1, <1>8, <2>2 DEF DeletedOweNothing, AgreeInv
    <2> QED
      BY <2>1, <2>2 DEF DeletedOweNothing
  <1>14. Fresh'
    <2> SUFFICES ASSUME NEW e \in Cmd
                 PROVE  /\ cmds'[e].next \in {0, 2} => cmds'[e].free = None /\ cmds'[e].snd = None
                        /\ cmds'[e].kind \notin Swaps => cmds'[e].free = None
      BY DEF Fresh
    <2>1. /\ cmds[e].next \in {0, 2} => cmds[e].free = None /\ cmds[e].snd = None
          /\ cmds[e].kind \notin Swaps => cmds[e].free = None
      BY DEF Fresh, AgreeInv
    <2> QED
      BY <1>3, <2>1
  <1> QED
    BY <1>10, <1>12, <1>13, <1>14 DEF AgreeInv

LEMMA AgreeStageTwo ==
  ASSUME MsgInv, AgreeInv, NrtPerform,
         cmds[Head(fromEngine).cmd].next = 2, StageTwo(Head(fromEngine).cmd)
  PROVE  AgreeInv'
  <1> DEFINE c == Head(fromEngine).cmd
             b == cmds[c].buf
             k == cmds[c].kind
             m == IF k = "fail" THEN Free(c) ELSE Stage(c)
  <1>1. /\ TypeOK /\ c \in Cmd /\ cmds[c] \in Command /\ cmds[c].next = 2
        /\ toEngine \in Seq(Message)
        /\ \A i \in DOMAIN toEngine : toEngine[i].cmd \in Cmd /\ toEngine[i].cmd # c
    BY FirstOfFromEngine DEF NrtPerform, TypeOK
  <1>2. /\ toEngine' = PutToEngine(m)
        /\ UNCHANGED <<freed, rtBuf, deleted>>
        /\ lost' = IF ToEngineFull THEN lost \cup {c} ELSE lost
    BY DEF StageTwo, NrtPerform
  <1>3. /\ cmds'[c].next = 3 /\ cmds'[c].buf = b /\ cmds'[c].kind = k
        /\ \A e \in Cmd : e # c => cmds'[e] = cmds[e]
        /\ k \in OnBuffer => /\ b \in Buf /\ nrtBuf'[b] = NewData(c)
                             /\ cmds'[c].free = OldData(c) /\ cmds'[c].snd = NewData(c)
        /\ k \notin OnBuffer => cmds'[c].free = cmds[c].free
        /\ \A d \in Buf : nrtBuf'[d] # nrtBuf[d] => d = b /\ k \in {"alloc", "free"}
    BY <1>1, StageTwoDoes
  <1>4. /\ m \in Message /\ m.cmd = c
        /\ m.do = "stage" <=> k # "fail"
    BY <1>1 DEF Free, Stage, Message
  <1>5. /\ k = "alloc" => NewData(c) = c /\ OldData(c) = nrtBuf[b]
        /\ k = "free" => OldData(c) = nrtBuf[b]
        /\ k \notin Swaps => OldData(c) = None
        /\ Swaps \subseteq OnBuffer /\ "alloc" \in OnBuffer /\ "free" \in OnBuffer /\ "fail" \notin Swaps
    BY DEF NewData, OldData, Swaps, OnBuffer
  <1> DEFINE o == OldData(c)
             n == NewData(c)
  <1> HIDE DEF c, b, k, m, o, n
  <1>6. \A i \in DOMAIN toEngine : Sent(i) = cmds[toEngine[i].cmd] /\ cmds'[toEngine[i].cmd] = Sent(i)
    BY <1>1, <1>3 DEF Sent
  <1>7. /\ Len(toEngine) \in Nat
        /\ \A i \in DOMAIN toEngine' :
             /\ i \in Nat
             /\ \/ i \in DOMAIN toEngine /\ i <= Len(toEngine) /\ toEngine'[i] = toEngine[i]
                \/ i = Len(toEngine) + 1 /\ toEngine'[i] = m
    BY <1>1, <1>2, <1>4, ToEngineAfter
  <1>8. lost' = {} =>
          /\ lost = {}
          /\ \A i \in DOMAIN toEngine : i \in Nat /\ i <= Len(toEngine) /\ i \in DOMAIN toEngine'
          /\ Len(toEngine) + 1 \in DOMAIN toEngine' /\ toEngine'[Len(toEngine) + 1] = m
    <2> SUFFICES ASSUME lost' = {}
                 PROVE  /\ lost = {}
                        /\ \A i \in DOMAIN toEngine : i \in Nat /\ i <= Len(toEngine) /\ i \in DOMAIN toEngine'
                        /\ Len(toEngine) + 1 \in DOMAIN toEngine' /\ toEngine'[Len(toEngine) + 1] = m
      OBVIOUS
    <2>1. ~ToEngineFull /\ lost = {}
      BY <1>2
    <2>2. toEngine' = Append(toEngine, m)
      BY <1>2, <2>1 DEF PutToEngine
    <2> QED
      BY <1>1, <1>4, <2>1, <2>2, Appended
  <1>9. \A i \in DOMAIN toEngine' :
          \/ /\ i \in DOMAIN toEngine /\ i <= Len(toEngine)
             /\ Sent(i)' = Sent(i) /\ IsStage(i)' = IsStage(i)
          \/ /\ i = Len(toEngine) + 1
             /\ Sent(i)' = cmds'[c] /\ (IsStage(i)' <=> k # "fail")
    BY <1>4, <1>6, <1>7 DEF Sent, IsStage
  <1>10. CopiesAgree'
    <2> SUFFICES ASSUME lost' = {}, NEW d \in Buf
                 PROVE  /\ (\A i \in DOMAIN toEngine' : ~SwapAt(i, d)') => rtBuf[d] = nrtBuf'[d]
                        /\ \A i \in DOMAIN toEngine' : LastSwap(i, d)' => (Sent(i).snd)' = nrtBuf'[d]
      BY <1>2 DEF CopiesAgree
    <2>0. PICK l : l = Len(toEngine) + 1
      OBVIOUS
    <2>1. /\ (\A i \in DOMAIN toEngine : ~SwapAt(i, d)) => rtBuf[d] = nrtBuf[d]
          /\ \A i \in DOMAIN toEngine : LastSwap(i, d) => Sent(i).snd = nrtBuf[d]
      BY <1>8 DEF CopiesAgree, AgreeInv
    <2>2. /\ l \in DOMAIN toEngine' /\ l \notin DOMAIN toEngine
          /\ \A i \in DOMAIN toEngine : i \in DOMAIN toEngine' /\ i < l
      BY <1>7, <1>8, <2>0
    <2>3. /\ SwapAt(l, d)' <=> d = b /\ k \in Swaps
          /\ Sent(l)' = cmds'[c]
      <3>1. Sent(l)' = cmds'[c] /\ (IsStage(l)' <=> k # "fail")
        BY <1>9, <2>0, <2>2
      <3> QED
        BY <1>3, <1>5, <3>1 DEF SwapAt
    <2>4. \A i \in DOMAIN toEngine : /\ SwapAt(i, d)' <=> SwapAt(i, d)
                                     /\ Sent(i)' = Sent(i)
      <3> SUFFICES ASSUME NEW i \in DOMAIN toEngine
                   PROVE  Sent(i)' = Sent(i) /\ IsStage(i)' = IsStage(i)
        BY DEF SwapAt
      <3>1. i \in DOMAIN toEngine' /\ i # l
        BY <2>2
      <3> QED
        BY <1>9, <2>0, <3>1
    <2>5. \A i \in DOMAIN toEngine' : i \in DOMAIN toEngine \/ i = l
      BY <1>9, <2>0
    <2>6. CASE d = b /\ k \in Swaps
      <3>1. \A i \in DOMAIN toEngine' : LastSwap(i, d)' => i = l
        <4> SUFFICES ASSUME NEW i \in DOMAIN toEngine, LastSwap(i, d)' PROVE FALSE
          BY <2>5
        <4>1. l <= i
          BY <2>2, <2>3, <2>6 DEF LastSwap
        <4>2. i < l /\ i \in Nat /\ l \in Nat
          BY <1>7, <1>8, <2>0, <2>2
        <4> QED
          BY <4>1, <4>2
      <3>2. (Sent(l).snd)' = nrtBuf'[d]
        BY <1>3, <1>5, <2>3, <2>6
      <3> QED
        BY <2>2, <2>3, <2>6, <3>1, <3>2
    <2>7. CASE ~(d = b /\ k \in Swaps)
      <3>1. nrtBuf'[d] = nrtBuf[d]
        BY <1>3, <2>7 DEF Swaps
      <3>2. ASSUME \A i \in DOMAIN toEngine' : ~SwapAt(i, d)'
            PROVE  rtBuf[d] = nrtBuf'[d]
        BY <2>1, <2>2, <2>4, <3>1, <3>2
      <3>3. ASSUME NEW i \in DOMAIN toEngine', LastSwap(i, d)'
            PROVE  (Sent(i).snd)' = nrtBuf'[d]
        <4>1. i \in DOMAIN toEngine /\ SwapAt(i, d)
          BY <2>3, <2>4, <2>5, <2>7, <3>3 DEF LastSwap
        <4>2. \A j \in DOMAIN toEngine : SwapAt(j, d) => j <= i
          BY <2>2, <2>4, <3>3 DEF LastSwap
        <4>3. LastSwap(i, d)
          BY <4>1, <4>2 DEF LastSwap
        <4> QED
          BY <2>1, <2>4, <3>1, <4>1, <4>3
      <3> QED
        BY <3>2, <3>3
    <2> QED
      BY <2>6, <2>7
  <1>11. NoneForgotten'
    <2> SUFFICES ASSUME NEW e \in Cmd, cmds'[e].kind = "alloc", cmds'[e].next \in {3, 4, 5}
                 PROVE  \/ e \in freed
                        \/ \E d \in Buf : nrtBuf'[d] = e
                        \/ \E d \in Cmd : Pending(d)' /\ cmds'[d].free = e
      BY <1>2 DEF NoneForgotten
    <2>1. CASE e = c
      BY <1>3, <1>5, <2>1
    <2>2. CASE e # c
      <3>1. cmds[e].kind = "alloc" /\ cmds[e].next \in {3, 4, 5}
        BY <1>3, <2>2
      <3>2. CASE \E d \in Cmd : Pending(d) /\ cmds[d].free = e
        <4>1. PICK d \in Cmd : Pending(d) /\ cmds[d].free = e
          BY <3>2
        <4>2. d # c
          BY <1>1, <4>1 DEF Pending
        <4>3. cmds'[d] = cmds[d]
          BY <1>3, <4>2
        <4> QED
          BY <4>1, <4>3 DEF Pending
      <3>3. CASE \E d \in Buf : nrtBuf[d] = e
        <4>1. PICK d \in Buf : nrtBuf[d] = e
          BY <3>3
        <4>2. CASE nrtBuf'[d] = nrtBuf[d]
          BY <4>1, <4>2
        <4>3. CASE nrtBuf'[d] # nrtBuf[d]
          <5>1. d = b /\ k \in {"alloc", "free"}
            BY <1>3, <4>3
          <5>2. cmds'[c].free = e /\ e # None /\ cmds'[c].next = 3
            BY <1>3, <1>5, <4>1, <5>1, NoneAssumption
          <5> QED
            BY <1>1, <5>2 DEF Pending
        <4> QED
          BY <4>2, <4>3
      <3> QED
        BY <3>1, <3>2, <3>3 DEF NoneForgotten, AgreeInv
    <2> QED
      BY <2>1, <2>2
  <1>12. DeletedOweNothing'
    <2>1. ASSUME NEW e \in deleted PROVE cmds'[e].next = 5 \/ cmds'[e].kind \in {"drop", "fail"}
      <3>1. e \in Cmd /\ (cmds[e].next = 5 \/ cmds[e].kind \in {"drop", "fail"})
        BY <2>1 DEF DeletedOweNothing, AgreeInv, MsgInv, TypeOK
      <3>2. CASE e = c
        BY <1>1, <1>3, <3>1, <3>2 DEF k
      <3>3. CASE e # c
        BY <1>3, <3>1, <3>3
      <3> QED
        BY <3>2, <3>3
    <2>2. ASSUME NEW i \in DOMAIN toEngine', ~IsStage(i)'
          PROVE  (Sent(i).next)' = 5 \/ (Sent(i).kind)' = "fail"
      <3>1. CASE i \in DOMAIN toEngine /\ Sent(i)' = Sent(i) /\ IsStage(i)' = IsStage(i)
        BY <2>2, <3>1 DEF DeletedOweNothing, AgreeInv
      <3>2. CASE Sent(i)' = cmds'[c] /\ (IsStage(i)' <=> k # "fail")
        BY <1>3, <2>2, <3>2
      <3> QED
        BY <1>9, <3>1, <3>2
    <2> QED
      BY <1>2, <2>1, <2>2 DEF DeletedOweNothing
  <1>13. Fresh'
    <2>1. cmds'[c].kind \notin Swaps => cmds'[c].free = None
      BY <1>1, <1>3, <1>5 DEF Fresh, AgreeInv
    <2> QED
      BY <1>3, <2>1 DEF Fresh, AgreeInv
  <1> QED
    BY <1>10, <1>11, <1>12, <1>13 DEF AgreeInv

LEMMA AgreeStageFour ==
  ASSUME MsgInv, AgreeInv, NrtPerform,
         cmds[Head(fromEngine).cmd].next = 4, StageFour(Head(fromEngine).cmd)
  PROVE  AgreeInv'
  <1> DEFINE c == Head(fromEngine).cmd
  <1>1. /\ TypeOK /\ c \in Cmd /\ cmds[c] \in Command /\ cmds[c].next = 4
        /\ \A i \in DOMAIN toEngine : toEngine[i].cmd \in Cmd /\ toEngine[i].cmd # c
    BY FirstOfFromEngine DEF NrtPerform
  <1>2. /\ cmds' = [cmds EXCEPT ![c].next = 5]
        /\ freed' = freed \cup ({cmds[c].free} \ {None})
        /\ toEngine' = PutToEngine(Free(c))
        /\ UNCHANGED <<nrtBuf, rtBuf, deleted>>
        /\ lost' = IF ToEngineFull THEN lost \cup {c} ELSE lost
    BY DEF StageFour, NrtPerform
  <1> HIDE DEF c
  <1>3. /\ cmds'[c].next = 5 /\ cmds'[c].kind = cmds[c].kind /\ cmds'[c].free = cmds[c].free
        /\ \A e \in Cmd : e # c => cmds'[e] = cmds[e]
    BY <1>1, <1>2 DEF TypeOK, Command
  <1>4. Free(c) \in Message /\ Free(c).do = "free" /\ Free(c).cmd = c
    BY <1>1 DEF Free, Message
  <1>5. \A i \in DOMAIN toEngine' :
          /\ i \in Nat
          /\ \/ i \in DOMAIN toEngine /\ toEngine'[i] = toEngine[i]
             \/ toEngine'[i] = Free(c)
    BY <1>1, <1>2, <1>4, ToEngineAfter
  <1>6. lost' = {} => lost = {} /\ \A i \in DOMAIN toEngine : i \in DOMAIN toEngine' /\ toEngine'[i] = toEngine[i]
    <2>1. toEngine \in Seq(Message)
      BY <1>1 DEF TypeOK
    <2> QED
      BY <1>2, <1>4, <2>1, Appended DEF PutToEngine
  <1>7. \A i \in DOMAIN toEngine' :
          \/ i \in DOMAIN toEngine /\ Sent(i)' = Sent(i) /\ IsStage(i)' = IsStage(i)
          \/ Sent(i)' = cmds'[c] /\ ~IsStage(i)'
    <2>1. \A i \in DOMAIN toEngine : cmds'[toEngine[i].cmd] = cmds[toEngine[i].cmd]
      BY <1>1, <1>3
    <2> QED
      BY <1>4, <1>5, <2>1 DEF Sent, IsStage
  <1>8. CopiesAgree'
    <2> SUFFICES ASSUME lost' = {}, NEW b \in Buf
                 PROVE  /\ (\A i \in DOMAIN toEngine' : ~SwapAt(i, b)') => rtBuf[b] = nrtBuf[b]
                        /\ \A i \in DOMAIN toEngine' : LastSwap(i, b)' => (Sent(i).snd)' = nrtBuf[b]
      BY <1>2 DEF CopiesAgree
    <2>1. \A i \in DOMAIN toEngine : i \in DOMAIN toEngine' /\ (SwapAt(i, b) => SwapAt(i, b)')
      <3> SUFFICES ASSUME NEW i \in DOMAIN toEngine PROVE i \in DOMAIN toEngine' /\ (SwapAt(i, b) => SwapAt(i, b)')
        OBVIOUS
      <3>1. i \in DOMAIN toEngine' /\ toEngine'[i] = toEngine[i] /\ cmds'[toEngine[i].cmd] = cmds[toEngine[i].cmd]
        BY <1>1, <1>3, <1>6
      <3> QED
        BY <3>1 DEF SwapAt, Sent, IsStage
    <2>2. \A i \in DOMAIN toEngine' : SwapAt(i, b)' => i \in DOMAIN toEngine /\ SwapAt(i, b) /\ Sent(i)' = Sent(i)
      BY <1>7 DEF SwapAt
    <2>3. \A i \in DOMAIN toEngine' : LastSwap(i, b)' => i \in DOMAIN toEngine /\ LastSwap(i, b) /\ Sent(i)' = Sent(i)
      BY <2>1, <2>2 DEF LastSwap
    <2>4. /\ (\A i \in DOMAIN toEngine : ~SwapAt(i, b)) => rtBuf[b] = nrtBuf[b]
          /\ \A i \in DOMAIN toEngine : LastSwap(i, b) => Sent(i).snd = nrtBuf[b]
      BY <1>6 DEF CopiesAgree, AgreeInv
    <2>5. ASSUME \A i \in DOMAIN toEngine' : ~SwapAt(i, b)'
          PROVE  rtBuf[b] = nrtBuf[b]
      BY <2>1, <2>4, <2>5
    <2> QED
      BY <2>3, <2>4, <2>5
  <1>9. NoneForgotten'
    <2> SUFFICES ASSUME NEW e \in Cmd, cmds'[e].kind = "alloc", cmds'[e].next \in {3, 4, 5}
                 PROVE  \/ e \in freed'
                        \/ \E b \in Buf : nrtBuf[b] = e
                        \/ \E d \in Cmd : Pending(d)' /\ cmds'[d].free = e
      BY <1>2 DEF NoneForgotten
    <2>1. cmds[e].kind = "alloc" /\ cmds[e].next \in {3, 4, 5}
      BY <1>1, <1>3
    <2>2. CASE \E d \in Cmd : Pending(d) /\ cmds[d].free = e
      <3>1. PICK d \in Cmd : Pending(d) /\ cmds[d].free = e
        BY <2>2
      <3>2. CASE d = c
        BY <1>2, <3>1, <3>2 DEF Pending
      <3>3. CASE d # c
        <4>1. cmds'[d] = cmds[d]
          BY <1>3, <3>3
        <4> QED
          BY <3>1, <4>1 DEF Pending
      <3> QED
        BY <3>2, <3>3
    <2> QED
      BY <1>2, <2>1, <2>2 DEF NoneForgotten, AgreeInv
  <1>10. DeletedOweNothing'
    <2>1. \A e \in deleted : cmds'[e].next = 5 \/ cmds'[e].kind \in {"drop", "fail"}
      <3>1. \A e \in deleted : e \in Cmd /\ (cmds[e].next = 5 \/ cmds[e].kind \in {"drop", "fail"})
        BY DEF DeletedOweNothing, AgreeInv, MsgInv, TypeOK
      <3> QED
        BY <1>3, <3>1
    <2>2. ASSUME NEW i \in DOMAIN toEngine', ~IsStage(i)'
          PROVE  (Sent(i).next)' = 5 \/ (Sent(i).kind)' = "fail"
      <3>1. CASE i \in DOMAIN toEngine /\ Sent(i)' = Sent(i) /\ IsStage(i)' = IsStage(i)
        BY <2>2, <3>1 DEF DeletedOweNothing, AgreeInv
      <3>2. CASE Sent(i)' = cmds'[c]
        BY <1>3, <3>2
      <3> QED
        BY <1>7, <3>1, <3>2
    <2> QED
      BY <1>2, <2>1, <2>2 DEF DeletedOweNothing
  <1>11. Fresh'
    <2> SUFFICES ASSUME NEW e \in Cmd
                 PROVE  /\ cmds'[e].next \in {0, 2} => cmds'[e].free = None /\ cmds'[e].snd = None
                        /\ cmds'[e].kind \notin Swaps => cmds'[e].free = None
      BY DEF Fresh
    <2>1. /\ cmds[e].next \in {0, 2} => cmds[e].free = None /\ cmds[e].snd = None
          /\ cmds[e].kind \notin Swaps => cmds[e].free = None
      BY DEF Fresh, AgreeInv
    <2> QED
      BY <1>3, <2>1
  <1> QED
    BY <1>8, <1>9, <1>10, <1>11 DEF AgreeInv

LEMMA NextAgree == MsgInv /\ AgreeInv /\ [Next]_vars => AgreeInv'
  <1> SUFFICES ASSUME MsgInv, AgreeInv, [Next]_vars PROVE AgreeInv'
    OBVIOUS
  <1>1. ASSUME NEW r \in Requests, Receive(r) PROVE AgreeInv'
    BY <1>1, AgreeReceive
  <1>2. CASE RtPerform
    BY <1>2, AgreeRtPerform
  <1>3. CASE NrtPerform
    BY <1>3, AgreeStageTwo, AgreeStageFour DEF NrtPerform
  <1>4. CASE (\A r \in Requests : ~Receive(r)) /\ ~RtPerform /\ ~NrtPerform
    <2>1. UNCHANGED <<cmds, deleted, answered, lost, fromEngine, toEngine, rtBuf, nrtBuf>>
      BY <1>4, OtherSteps
    <2>2. freed \subseteq freed'
      BY <1>4 DEF Next, WriteSamples, Rt, CallbackBegin, RtPerformed, CallbackEnd, Nrt,
           NrtCheckFlag, NrtCatchUp, NrtTest, NrtSleep, NrtLock, NrtUnlock, NrtMove,
           Main, MainStop, MainClearFlag, MainSignal, MainJoin, MainMove,
           Copier, Copy, CopyEnd, CopierMove, vars, buffers
    <2> QED
      BY <2>1, <2>2, AgreeSame
  <1> QED
    BY <1>1, <1>2, <1>3, <1>4

\* When every command is through and no message was lost, the two copies of each
\* buffer are the same, and all sample data that is in no buffer has been freed
\* (BufAllocCmd, BufFreeCmd and the others, stages two to four).
THEOREM QuietCopiesAgree == Spec => []QuietMeansAgree
  <1>1. MsgInv /\ AgreeInv => QuietMeansAgree
    <2> SUFFICES ASSUME MsgInv, AgreeInv, Received = deleted, lost = {}
                 PROVE  /\ rtBuf = nrtBuf
                        /\ \A c \in deleted : cmds[c].kind = "alloc" =>
                             c \in freed \/ \E b \in Buf : rtBuf[b] = c
      BY DEF QuietMeansAgree
    <2>1. \A i \in DOMAIN toEngine : FALSE
      <3>1. \A i \in DOMAIN toEngine : toEngine[i].cmd \in Cmd
        BY InFifos DEF MsgInv
      <3>2. \A i \in DOMAIN toEngine : toEngine[i].cmd \in Received
        BY <3>1 DEF MsgInv, ToEngineOK, Received
      <3> QED
        BY <3>2 DEF MsgInv, Alive
    <2>2. \A b \in Buf : rtBuf[b] = nrtBuf[b]
      BY <2>1 DEF AgreeInv, CopiesAgree
    <2>3. rtBuf = nrtBuf
      BY <2>2 DEF MsgInv, TypeOK
    <2>4. \A e \in Cmd : ~Pending(e)
      <3> SUFFICES ASSUME NEW e \in Cmd, Pending(e) PROVE FALSE
        OBVIOUS
      <3>1. e \in deleted /\ cmds[e].next \in {3, 4} /\ cmds[e].free # None
        BY DEF Pending, Received
      <3>2. cmds[e].kind \in {"drop", "fail"}
        BY <3>1 DEF AgreeInv, DeletedOweNothing
      <3> QED
        BY <3>1, <3>2 DEF AgreeInv, Fresh, Swaps
    <2>5. ASSUME NEW c \in deleted, cmds[c].kind = "alloc"
          PROVE  c \in freed \/ \E b \in Buf : rtBuf[b] = c
      <3>1. c \in Cmd /\ cmds[c].next = 5
        BY <2>5 DEF AgreeInv, DeletedOweNothing, MsgInv, TypeOK
      <3> QED
        BY <2>3, <2>4, <2>5, <3>1 DEF AgreeInv, NoneForgotten
    <2> QED
      BY <2>3, <2>5
  <1>2. Init => MsgInv /\ AgreeInv
    BY InitMsgInv, InitAgree
  <1>3. MsgInv /\ AgreeInv /\ [Next]_vars => MsgInv' /\ AgreeInv'
    BY NextMsgInv, NextAgree
  <1> QED
    BY <1>1, <1>2, <1>3, PTL DEF Spec

-----------------------------------------------------------------------------
(* What the language copied.  A buffer that is not marked as changed is     *)
(* what was copied of it, but for the commands whose second stage is over   *)
(* and whose third, which marks the buffer, is not, and for the samples     *)
(* that the rt thread writes.                                               *)

Changing(c, b) == cmds[c].buf = b /\ Writes(cmds[c].kind) /\ cmds[c].next = 3

CleanCurrent ==
  \A b \in Buf : ~dirty[b] /\ (\A c \in Cmd : ~Changing(c, b)) => Current(b)
CopyUnderLock ==
  copier.at = "copied" => nrt # "perform" /\ Current(copier.buf)
DataAtHome == \A b \in Buf : nrtBuf[b] # None => Owned(nrtBuf[b], b)

CopyInv == CleanCurrent /\ CopyUnderLock /\ DataAtHome

LEMMA InitCopy == Init => CopyInv
  <1> SUFFICES ASSUME Init PROVE CopyInv
    OBVIOUS
  <1>1. /\ \A b \in Buf : nrtBuf[b] = None /\ copied[b] = [data |-> None, text |-> None]
        /\ copier.at = "idle"
    BY DEF Init
  <1> QED
    BY <1>1 DEF CopyInv, CleanCurrent, CopyUnderLock, DataAtHome, Now, Current

\* A buffer is as it was unless its data was replaced or written to.
LEMMA NowSame ==
  ASSUME TypeOK, NEW b \in Buf, nrtBuf'[b] = nrtBuf[b],
         nrtBuf[b] # None => text'[nrtBuf[b]] = text[nrtBuf[b]]
  PROVE  Now(b)' = Now(b)
  BY DEF Now

\* Steps that leave the commands and the data alone, and marks that are not taken back.
LEMMA CopySame ==
  ASSUME CopyInv, UNCHANGED <<cmds, nrtBuf, text, dirty, copier, copied>>,
         nrt' = "perform" => nrt = "perform" \/ copier.at # "copied"
  PROVE  CopyInv'
  BY DEF CopyInv, CleanCurrent, CopyUnderLock, DataAtHome, Owned, Now, Current, Changing

LEMMA CopyReceive ==
  ASSUME MsgInv, CopyInv, NEW r \in Requests, Receive(r)
  PROVE  CopyInv'
  <1> DEFINE d == NextCmd
  <1>1. TypeOK /\ d \in Cmd /\ cmds[d].next = 0
    BY NextIsUnborn DEF Receive, Received, MsgInv
  <1>2. /\ cmds' = [cmds EXCEPT ![d] = New(r)] /\ cmds \in [Cmd -> Command]
        /\ UNCHANGED <<nrtBuf, text, dirty, copier, copied, nrt>>
    BY <1>1 DEF Receive, TypeOK, buffers, language, threads
  <1>3. /\ \A e \in Cmd : e # d => cmds'[e] = cmds[e]
        /\ cmds'[d].next = 2
    BY <1>1, <1>2 DEF New
  <1> HIDE DEF d
  <1>4. \A c \in Cmd, b \in Buf : Changing(c, b) => Changing(c, b)'
    BY <1>1, <1>3 DEF Changing
  <1>5. \A b \in Buf : Now(b)' = Now(b)
    BY <1>2 DEF Now
  <1>6. CopyUnderLock'
    BY <1>2 DEF CopyUnderLock, CopyInv, Current, Now
  <1>7. CleanCurrent'
    BY <1>2, <1>4, <1>5 DEF CleanCurrent, CopyInv, Current
  <1>8. DataAtHome'
    BY <1>1, <1>2, <1>3 DEF DataAtHome, CopyInv, Owned
  <1> QED
    BY <1>6, <1>7, <1>8 DEF CopyInv

LEMMA CopyRtPerform ==
  ASSUME MsgInv, CopyInv, RtPerform
  PROVE  CopyInv'
  <1> DEFINE c == Head(toEngine).cmd
  <1>1. /\ TypeOK /\ c \in Cmd /\ cmds[c] \in Command
        /\ UNCHANGED <<nrtBuf, text, copier, copied, nrt>>
        /\ 1 \in DOMAIN toEngine /\ toEngine[1] = Head(toEngine)
    BY ToEnginePopped DEF RtPerform, MsgInv, TypeOK, threads, language
  <1>2. \A b \in Buf : Now(b)' = Now(b)
    BY <1>1 DEF Now
  <1>3. CopyUnderLock'
    BY <1>1 DEF CopyUnderLock, CopyInv, Current, Now
  <1>4. CASE UNCHANGED <<cmds, dirty>>
    <2>1. CleanCurrent'
      BY <1>1, <1>2, <1>4 DEF CleanCurrent, CopyInv, Changing, Current
    <2>2. DataAtHome'
      BY <1>1, <1>4 DEF DataAtHome, CopyInv, Owned
    <2> QED
      BY <1>3, <2>1, <2>2 DEF CopyInv
  <1>5. CASE Head(toEngine).do = "stage" /\ StageThree(c)
    <2>1. cmds[c].next = 3
      BY <1>1, <1>5 DEF MsgInv, ToEngineOK
    <2>2. MovedToFour(c)
      BY <1>1, <1>5, <2>1, StageThreeMoves
    <2>3. \A b \in Buf : dirty'[b] \in BOOLEAN /\ (dirty[b] => dirty'[b]) /\ (Changing(c, b) => dirty'[b])
      <3>1. dirty' = IF Writes(cmds[c].kind) THEN [dirty EXCEPT ![cmds[c].buf] = TRUE] ELSE dirty
        BY <1>5 DEF StageThree
      <3>2. dirty \in [Buf -> BOOLEAN]
        BY <1>1 DEF TypeOK
      <3> HIDE DEF c
      <3> QED
        BY <3>1, <3>2 DEF Changing
    <2> HIDE DEF c
    <2>4. \A e \in Cmd, b \in Buf : Changing(e, b) => Changing(e, b)' \/ e = c
      BY <2>2 DEF MovedToFour, Changing
    <2>5. CleanCurrent'
      <3> SUFFICES ASSUME NEW b \in Buf, ~dirty'[b], \A e \in Cmd : ~Changing(e, b)'
                   PROVE  Current(b)
        BY <1>1, <1>2 DEF CleanCurrent, Current
      <3>1. ~dirty[b] /\ ~Changing(c, b)
        BY <2>3
      <3>2. \A e \in Cmd : ~Changing(e, b)
        BY <2>4, <3>1
      <3> QED
        BY <3>1, <3>2 DEF CleanCurrent, CopyInv
    <2>6. \A x, b : Owned(x, b) => Owned(x, b)'
      BY <2>1, <2>2 DEF Owned, MovedToFour
    <2>7. DataAtHome'
      BY <1>1, <2>6 DEF DataAtHome, CopyInv
    <2> QED
      BY <1>3, <2>5, <2>7 DEF CopyInv
  <1> QED
    BY <1>4, <1>5 DEF RtPerform

LEMMA CopyNrtPerform ==
  ASSUME MsgInv, CopyInv, NrtPerform
  PROVE  CopyInv'
  <1> DEFINE c == Head(fromEngine).cmd
  <1>1. /\ TypeOK /\ c \in Cmd /\ cmds[c] \in Command /\ nrtBuf \in [Buf -> Data]
        /\ UNCHANGED <<copier, copied, nrt, dirty>> /\ nrt = "perform"
        /\ (cmds[c].next = 2 /\ StageTwo(c)) \/ (cmds[c].next = 4 /\ StageFour(c))
    BY FirstOfFromEngine DEF NrtPerform, language, TypeOK
  <1> HIDE DEF c
  <1>2. CopyUnderLock'
    BY <1>1 DEF CopyUnderLock, CopyInv
  <1>3. CASE cmds[c].next = 2 /\ StageTwo(c)
    <2> DEFINE k == cmds[c].kind
               h == cmds[c].buf
    <2>1. /\ cmds'[c].next = 3 /\ cmds'[c].buf = h /\ cmds'[c].kind = k
          /\ \A e \in Cmd : e # c => cmds'[e] = cmds[e]
          /\ k \in OnBuffer => h \in Buf /\ nrtBuf'[h] = NewData(c)
          /\ \A b \in Buf : nrtBuf'[b] # nrtBuf[b] => b = h /\ k \in {"alloc", "free"}
          /\ \A x \in Cmd : text'[x] # text[x] =>
               (k = "alloc" /\ x = c) \/ (k \in {"gen", "read"} /\ x = nrtBuf[h])
      BY <1>1, <1>3, StageTwoDoes
    <2>2. k \in {"alloc", "free", "gen", "read"} => Writes(k) /\ k \in OnBuffer
      BY DEF Writes, Swaps, OnBuffer
    <2>3. \A e \in Cmd, b \in Buf : Changing(e, b) => Changing(e, b)'
      BY <1>3, <2>1 DEF Changing
    <2>4. \A x, b : Owned(x, b) => Owned(x, b)' /\ x # c
      BY <1>3, <2>1 DEF Owned
    <2> HIDE DEF k, h
    <2>5. ASSUME NEW b \in Buf, \A e \in Cmd : ~Changing(e, b)'
          PROVE  Now(b)' = Now(b)
      <3>1. ~(h = b /\ Writes(k))
        BY <1>1, <2>1, <2>5 DEF Changing
      <3>2. nrtBuf'[b] = nrtBuf[b]
        BY <2>1, <2>2, <3>1
      <3>3. ASSUME nrtBuf[b] # None PROVE text'[nrtBuf[b]] = text[nrtBuf[b]]
        <4>1. Owned(nrtBuf[b], b)
          BY <3>3 DEF CopyInv, DataAtHome
        <4>2. nrtBuf[b] \in Cmd /\ nrtBuf[b] # c
          BY <2>4, <4>1 DEF Owned
        <4>3. k \in {"gen", "read"} => nrtBuf[b] # nrtBuf[h]
          <5> SUFFICES ASSUME k \in {"gen", "read"}, nrtBuf[b] = nrtBuf[h] PROVE FALSE
            OBVIOUS
          <5>1. h \in Buf /\ Owned(nrtBuf[h], h)
            BY <2>1, <2>2, <3>3 DEF CopyInv, DataAtHome
          <5>2. h = b
            BY <4>1, <5>1 DEF Owned
          <5> QED
            BY <2>2, <3>1, <5>2
        <4> QED
          BY <2>1, <4>2, <4>3
      <3> QED
        BY <1>1, <3>2, <3>3, NowSame
    <2>6. CleanCurrent'
      BY <1>1, <2>3, <2>5 DEF CleanCurrent, CopyInv, Current
    <2>7. DataAtHome'
      <3> SUFFICES ASSUME NEW b \in Buf, nrtBuf'[b] # None PROVE OwnedNext(nrtBuf'[b], b)
        BY DEF DataAtHome, Owned, OwnedNext
      <3>1. CASE nrtBuf'[b] = nrtBuf[b]
        <4>1. Owned(nrtBuf[b], b)
          BY <3>1 DEF CopyInv, DataAtHome
        <4> QED
          BY <2>4, <3>1, <4>1 DEF OwnedNext, Owned
      <3>2. CASE nrtBuf'[b] # nrtBuf[b]
        <4>1. b = h /\ k \in {"alloc", "free"} /\ nrtBuf'[b] = NewData(c)
          BY <2>1, <2>2, <3>2
        <4>2. nrtBuf'[b] = c
          BY <4>1 DEF NewData, k
        <4> QED
          BY <1>1, <2>1, <4>1, <4>2 DEF OwnedNext
      <3> QED
        BY <3>1, <3>2
    <2> QED
      BY <1>2, <2>6, <2>7 DEF CopyInv
  <1>4. CASE cmds[c].next = 4 /\ StageFour(c)
    <2>1. cmds' = [cmds EXCEPT ![c].next = 5] /\ UNCHANGED <<nrtBuf, text>>
      BY <1>4 DEF StageFour
    <2>2. /\ cmds'[c].next = 5 /\ cmds'[c].buf = cmds[c].buf
          /\ \A e \in Cmd : e # c => cmds'[e] = cmds[e]
      BY <1>1, <2>1 DEF TypeOK, Command
    <2>3. \A e \in Cmd, b \in Buf : Changing(e, b) => Changing(e, b)'
      BY <1>4, <2>2 DEF Changing
    <2>4. CleanCurrent'
      BY <1>1, <2>1, <2>3 DEF CleanCurrent, CopyInv, Now, Current
    <2>5. \A x, b : Owned(x, b) => Owned(x, b)'
      BY <1>1, <2>2 DEF Owned
    <2>6. DataAtHome'
      BY <2>1, <2>5 DEF DataAtHome, CopyInv
    <2> QED
      BY <1>2, <2>4, <2>6 DEF CopyInv
  <1> QED
    BY <1>1, <1>3, <1>4

LEMMA CopyCopier ==
  ASSUME MsgInv, CopyInv, Copier
  PROVE  CopyInv'
  <1>1. /\ dirty \in [Buf -> BOOLEAN] /\ copied \in [Buf -> [data : Data, text : Data]]
        /\ UNCHANGED <<cmds, nrtBuf, text, nrt>>
        /\ copier.at = "copied" => copier.buf \in Buf
    BY DEF MsgInv, TypeOK, Copier, Copy, CopyEnd, CopierMove, buffers, threads
  <1>2. /\ \A b : Now(b)' = Now(b)
        /\ \A c, b : Changing(c, b)' = Changing(c, b)
        /\ DataAtHome'
    BY <1>1 DEF Now, Changing, CopyInv, DataAtHome, Owned
  <1>3. ASSUME NEW b \in Buf, Copy(b) PROVE CopyInv'
    <2>1. /\ dirty' = dirty /\ nrt # "perform"
          /\ copied' = [copied EXCEPT ![b] = Now(b)]
          /\ copier'.at = "copied" /\ copier'.buf = b
      BY <1>3 DEF Copy
    <2>2. copied'[b] = Now(b) /\ \A d \in Buf : d # b => copied'[d] = copied[d]
      BY <1>1, <2>1
    <2>3. CleanCurrent'
      BY <1>2, <2>1, <2>2 DEF CleanCurrent, CopyInv, Current
    <2>4. CopyUnderLock'
      BY <1>1, <1>2, <2>1, <2>2 DEF CopyUnderLock, Current
    <2> QED
      BY <1>2, <2>3, <2>4 DEF CopyInv
  <1>4. CASE CopyEnd
    <2>1. /\ copier.at = "copied" /\ copier'.at = "idle" /\ copied' = copied
          /\ dirty' = [dirty EXCEPT ![copier.buf] = FALSE]
      BY <1>4 DEF CopyEnd
    <2>2. Current(copier.buf)
      BY <2>1 DEF CopyInv, CopyUnderLock
    <2>3. \A d \in Buf : d # copier.buf => dirty'[d] = dirty[d]
      BY <1>1, <2>1
    <2>4. CleanCurrent'
      BY <1>2, <2>1, <2>2, <2>3 DEF CleanCurrent, CopyInv, Current
    <2> QED
      BY <1>2, <2>1, <2>4 DEF CopyInv, CopyUnderLock
  <1> QED
    BY <1>3, <1>4 DEF Copier

\* Samples that the rt thread writes stay in their data, and count for no command.
LEMMA CopyWriteSamples ==
  ASSUME MsgInv, CopyInv, NEW w \in Buf, WriteSamples(w)
  PROVE  CopyInv'
  <1>1. /\ TypeOK /\ UNCHANGED <<cmds, nrtBuf, nrt, copier, copied>>
        /\ \A x \in Cmd : text'[x] \in {text[x], None}
        /\ \A b \in Buf : dirty[b] => dirty'[b]
    BY SamplesWritten DEF MsgInv
  <1>2. ASSUME NEW b \in Buf PROVE Now(b)'.data = Now(b).data /\ Now(b)'.text \in {Now(b).text, None}
    <2>1. nrtBuf[b] # None => nrtBuf[b] \in Cmd
      BY <1>1 DEF TypeOK, Data
    <2> QED
      BY <1>1, <2>1 DEF Now
  <1>3. \A b \in Buf : Current(b) => Current(b)'
    <2> SUFFICES ASSUME NEW b \in Buf, Current(b) PROVE Current(b)'
      OBVIOUS
    <2>1. copied'[b] = copied[b] /\ copied[b].data = Now(b)'.data
      BY <1>1, <1>2 DEF Current
    <2>2. CASE Now(b)'.text = None
      BY <2>1, <2>2 DEF Current
    <2>3. CASE Now(b)'.text # None
      <3>1. copied[b] = Now(b) /\ Now(b)'.text = Now(b).text
        BY <1>2, <2>3 DEF Current
      <3>2. Now(b)' = Now(b)
        BY <1>1, <1>2, <3>1 DEF Now
      <3> QED
        BY <2>1, <3>1, <3>2 DEF Current
    <2> QED
      BY <2>2, <2>3
  <1>4. CleanCurrent'
    BY <1>1, <1>3 DEF CleanCurrent, CopyInv, Changing
  <1>5. CopyUnderLock'
    <2>1. copier.at = "copied" => copier.buf \in Buf
      BY <1>1 DEF TypeOK
    <2> QED
      BY <1>1, <1>3, <2>1 DEF CopyUnderLock, CopyInv
  <1>6. DataAtHome'
    BY <1>1 DEF DataAtHome, CopyInv, Owned
  <1> QED
    BY <1>4, <1>5, <1>6 DEF CopyInv

LEMMA NextCopy == MsgInv /\ CopyInv /\ [Next]_vars => CopyInv'
  <1> SUFFICES ASSUME MsgInv, CopyInv, [Next]_vars PROVE CopyInv'
    OBVIOUS
  <1>1. ASSUME NEW r \in Requests, Receive(r) PROVE CopyInv'
    BY <1>1, CopyReceive
  <1>2. CASE RtPerform
    BY <1>2, CopyRtPerform
  <1>3. CASE NrtPerform
    BY <1>3, CopyNrtPerform
  <1>4. CASE Copier
    BY <1>4, CopyCopier
  <1>5. CASE CallbackBegin \/ RtPerformed \/ CallbackEnd
    BY <1>5, CopySame DEF CallbackBegin, RtPerformed, CallbackEnd, Signal, buffers, language
  <1>6. CASE NrtCheckFlag \/ NrtCatchUp \/ NrtTest \/ NrtSleep \/ NrtLock \/ NrtUnlock
    BY <1>6, CopySame DEF NrtCheckFlag, NrtCatchUp, NrtTest, NrtSleep, NrtLock, NrtUnlock, NrtMove,
                          buffers, language
  <1>7. CASE Main
    BY <1>7, CopySame DEF Main, MainStop, MainClearFlag, MainSignal, MainJoin, MainMove, Signal, language
  <1>8. ASSUME NEW b \in Buf, WriteSamples(b) PROVE CopyInv'
    BY <1>8, CopyWriteSamples
  <1>9. CASE UNCHANGED vars
    BY <1>9, CopySame DEF vars, buffers, threads, language
  <1> QED
    BY <1>1, <1>2, <1>3, <1>4, <1>5, <1>6, <1>7, <1>8, <1>9 DEF Next, Rt, Nrt

\* A buffer that is not marked as changed, and that no command is changing, has the
\* data that the language copied last, with what a command last wrote into it
\* (World_CopySndBuf, and the marks that the third stages set).
THEOREM CopyStaysCurrent == Spec => []CopyIsCurrent
  <1>1. CopyInv => CopyIsCurrent
    BY DEF CopyInv, CleanCurrent, CopyIsCurrent, Changing
  <1>2. Init => MsgInv /\ CopyInv
    BY InitMsgInv, InitCopy
  <1>3. MsgInv /\ CopyInv /\ [Next]_vars => MsgInv' /\ CopyInv'
    BY NextMsgInv, NextCopy
  <1> QED
    BY <1>1, <1>2, <1>3, PTL DEF Spec
=============================================================================

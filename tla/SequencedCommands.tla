-------------------------- MODULE SequencedCommands --------------------------
(***************************************************************************)
(* The asynchronous commands of the server and the two threads that carry  *)
(* them out.  A command goes through four stages, the odd ones on the      *)
(* real-time thread (rt, the audio callback) and the even ones on the      *)
(* non-real-time thread (nrt, RunThread), handed to and fro through two    *)
(* bounded FIFOs (BoundedQueue) whose refusals nobody looks at.  The nrt   *)
(* thread is woken at the end of every callback through SC_SyncCondition.  *)
(*                                                                         *)
(* Every buffer has two copies of its header, one per thread, that point   *)
(* to the same sample data when no command is at work.  A third thread,    *)
(* the language's, copies buffers with World_CopySndBuf.  Stages that      *)
(* write samples mark the buffer for it; b_set and most units do not.      *)
(*                                                                         *)
(* Sample data is named by the command that allocated it.  The kinds of    *)
(* commands, by what their stages do:                                      *)
(*   "alloc"  b_alloc, b_allocRead, b_allocReadChannel, a b_gen that       *)
(*            replaces the data                                            *)
(*   "empty"  the same with no samples to allocate: bufAlloc fails         *)
(*   "free"   b_free                                                       *)
(*   "gen"    b_gen that fills the data in place                           *)
(*   "read"   b_read, b_readChannel, b_zero                                *)
(*   "file"   b_write, b_close                                             *)
(*   "fail"   any command whose second stage fails, for instance because   *)
(*            a file is missing; also /notify and /status, which answer    *)
(*            in their second stage                                        *)
(*   "drop"   a command of a plugin whose third stage fails                *)
(*   "sync"   /sync                                                        *)
(*   "quit"   /quit                                                        *)
(***************************************************************************)
EXTENDS Naturals, Sequences, FiniteSets

CONSTANTS MaxCmds,    \* bound: how many commands are received in all
          Kinds,      \* the kinds of commands that are sent
          Buf,        \* the buffers
          None,       \* no sample data, the null pointer
          Capacity    \* messages one FIFO between the two threads holds

Cmd == 1 .. MaxCmds   \* in the order in which they are received

ASSUME BoundsAssumption == MaxCmds \in Nat /\ Capacity \in Nat
ASSUME NoneAssumption == None \notin Cmd
ASSUME KindsAssumption ==
  Kinds \subseteq {"alloc", "empty", "free", "gen", "read", "file",
                    "fail", "drop", "sync", "quit"}

VARIABLES cmds,        \* SC_SequencedCommand of each command
          deleted,     \* commands whose memory went back to the pool
          answered,    \* commands whose client got /done, /fail or /synced
          lost,        \* commands one of whose messages found a FIFO full
          fromEngine,  \* mFromEngine, messages not yet performed
          spent,       \* messages of mFromEngine performed and not yet freed
          toEngine,    \* mToEngine
          rtBuf,       \* data of the buffers of the rt thread
          nrtBuf,      \* data of the buffers of the nrt thread
          text,        \* the command that last wrote into each sample data;
                       \* None once the rt thread has written into it
          freed,       \* sample data given back to malloc
          rt,          \* where the audio callback is
          nrt,         \* where the nrt thread is
          signalled,   \* read # write in the SC_SyncCondition
          runFlag,     \* mRunThreadFlag
          main,        \* where the main thread is in World_WaitForQuit
          dirty,       \* reads # writes in SndBufUpdates
          copier,      \* where World_CopySndBuf is, and for which buffer
          copied       \* what the language last copied of each buffer

fifos == <<fromEngine, spent, toEngine>>
buffers == <<rtBuf, nrtBuf, text, freed>>
threads == <<rt, nrt, signalled, runFlag, main>>
language == <<copier, copied>>
vars == <<cmds, deleted, answered, lost, fifos, buffers, threads, dirty, language>>

Unborn == [kind |-> "none", buf |-> None, next |-> 0, free |-> None, snd |-> None]

Init ==
  /\ cmds = [c \in Cmd |-> Unborn]
  /\ deleted = {} /\ answered = {} /\ lost = {}
  /\ fromEngine = <<>> /\ spent = 0 /\ toEngine = <<>>
  /\ rtBuf = [b \in Buf |-> None] /\ nrtBuf = [b \in Buf |-> None]
  /\ text = [c \in Cmd |-> None]
  /\ freed = {}
  /\ rt = "idle" /\ nrt = "flag"
  /\ signalled = FALSE /\ runFlag = TRUE
  /\ main = "waiting"
  /\ dirty = [b \in Buf |-> FALSE]
  /\ copier = [at |-> "idle"]
  /\ copied = [b \in Buf |-> [data |-> None, text |-> None]]

Received == {c \in Cmd : cmds[c].next # 0}

NextCmd == Cardinality(Received) + 1

Stage(c) == [do |-> "stage", cmd |-> c]     \* DoSequencedCommand
Free(c) == [do |-> "free", cmd |-> c]       \* FreeSequencedCommand

\* mFromEngine.Write; the slots of performed messages are still taken.
FromEngineFull(q) == Len(q) + spent >= Capacity
PutFromEngine(q, m) == IF FromEngineFull(q) THEN q ELSE Append(q, m)

\* SendMsgToEngine frees the slots of the performed messages and writes.
ToEngineFull == Len(toEngine) >= Capacity
PutToEngine(m) == IF ToEngineFull THEN toEngine ELSE Append(toEngine, m)

\* SC_SyncCondition::Signal.  A thread that has not gone to sleep yet misses it.
Signal ==
  /\ signalled' = TRUE
  /\ nrt' = IF nrt = "asleep" THEN "test" ELSE nrt

-----------------------------------------------------------------------------
(* Commands: what a client may ask for, and the first and third stages. *)

OnBuffer == {"alloc", "empty", "free", "gen", "read", "file"}
WithCompletion == OnBuffer \ {"gen"}

\* The copy of the rt thread is replaced in the third stage.
Swaps == {"alloc", "empty", "free", "gen"}

Requests == (Kinds \cap OnBuffer) \X Buf \cup (Kinds \ OnBuffer) \X {None}

New(r) == [kind |-> r[1], buf |-> r[2], next |-> 2, free |-> None, snd |-> None]

\* A message or a bundle is performed: one of this callback, or the completion
\* message of the command whose third stage mToEngine holds next.
Performing ==
  \/ rt = "packets"
  \/ /\ rt = "perform" /\ toEngine # <<>>
     /\ Head(toEngine).do = "stage" /\ cmds[Head(toEngine).cmd].kind \in WithCompletion

\* CallSequencedCommand.
Receive(r) ==
  /\ Performing
  /\ NextCmd \in Cmd
  /\ cmds' = [cmds EXCEPT ![NextCmd] = New(r)]
  /\ fromEngine' = PutFromEngine(fromEngine, Stage(NextCmd))
  /\ lost' = IF FromEngineFull(fromEngine) THEN lost \cup {NextCmd} ELSE lost
  /\ UNCHANGED <<deleted, answered, spent, toEngine, buffers, threads, dirty, language>>

\* CallNextStage after a third stage that returned true.
SendToStageFour(c) ==
  /\ cmds' = [cmds EXCEPT ![c].next = 4]
  /\ fromEngine' = PutFromEngine(fromEngine, Stage(c))
  /\ lost' = IF FromEngineFull(fromEngine) THEN lost \cup {c} ELSE lost

Writes(k) == k \in Swaps \cup {"read"}

\* Error caught by the runs: b_free leaves the copy of the rt thread alone.
StageThreeKeepsFreed(c) ==
  IF cmds[c].kind \in Swaps \ {"free"}
  THEN rtBuf' = [rtBuf EXCEPT ![cmds[c].buf] = cmds[c].snd]
  ELSE UNCHANGED rtBuf

StageThreeSwap(c) ==
  IF cmds[c].kind \in Swaps
  THEN rtBuf' = [rtBuf EXCEPT ![cmds[c].buf] = cmds[c].snd]
  ELSE UNCHANGED rtBuf

\* Error caught by the runs: a command whose third stage failed is sent on.
StageThreeAlwaysSends(c) ==
  /\ StageThreeSwap(c)
  /\ dirty' = IF Writes(cmds[c].kind) THEN [dirty EXCEPT ![cmds[c].buf] = TRUE] ELSE dirty
  /\ deleted' = IF cmds[c].kind = "drop" THEN deleted \cup {c} ELSE deleted
  /\ SendToStageFour(c)

StageThree(c) ==
  /\ StageThreeSwap(c)
  /\ dirty' = IF Writes(cmds[c].kind) THEN [dirty EXCEPT ![cmds[c].buf] = TRUE] ELSE dirty
  /\ IF cmds[c].kind = "drop"
     THEN /\ cmds' = [cmds EXCEPT ![c].next = 4]
          /\ deleted' = deleted \cup {c}
          /\ UNCHANGED <<fromEngine, lost>>
     ELSE SendToStageFour(c) /\ UNCHANGED deleted

-----------------------------------------------------------------------------
(* The audio callback. *)

\* Error caught by the runs: one slot is freed, whether one needs it or not.
FreeOneFromEngine == spent - 1

\* mFromEngine.Free()
FreeFromEngine == 0

\* mFromEngine.Free(), and mToEngine.Perform() begins.
CallbackBegin ==
  /\ rt = "idle"
  /\ main \in {"waiting", "cleanup"}
  /\ rt' = "perform"
  /\ spent' = FreeFromEngine
  /\ UNCHANGED <<cmds, deleted, answered, lost, fromEngine, toEngine, buffers,
                 nrt, signalled, runFlag, main, dirty, language>>

RtPerform ==
  /\ rt = "perform"
  /\ toEngine # <<>>
  /\ toEngine' = Tail(toEngine)
  /\ LET c == Head(toEngine).cmd
     IN  \/ Head(toEngine).do = "stage" /\ StageThree(c)
         \/ /\ Head(toEngine).do = "free"
            /\ deleted' = deleted \cup {c}
            /\ UNCHANGED <<cmds, lost, fromEngine, rtBuf, dirty>>
  /\ UNCHANGED <<answered, spent, nrtBuf, text, freed, threads, language>>

RtPerformed ==
  /\ rt = "perform" /\ toEngine = <<>>
  /\ rt' = "packets"
  /\ UNCHANGED <<cmds, deleted, answered, lost, fifos, buffers,
                 nrt, signalled, runFlag, main, dirty, language>>

\* b_set, b_setn and b_fill, and units, write samples in place, without the
\* lock.  Of all of them only ScopeOut marks the buffer, when it has filled it.
WriteSamples(b) ==
  /\ rt # "idle"
  /\ rtBuf[b] # None
  /\ text' = [text EXCEPT ![rtBuf[b]] = None]
  /\ dirty' \in {dirty, [dirty EXCEPT ![b] = TRUE]}
  /\ UNCHANGED <<cmds, deleted, answered, lost, fifos, rtBuf, nrtBuf, freed, threads, language>>

\* Error caught by the runs: the callback does not signal.
CallbackEndSilent ==
  /\ rt = "packets"
  /\ rt' = "idle"
  /\ UNCHANGED <<cmds, deleted, answered, lost, fifos, buffers,
                 nrt, signalled, runFlag, main, dirty, language>>

\* The blocks have been calculated; mAudioSync.Signal().
CallbackEnd ==
  /\ rt = "packets"
  /\ rt' = "idle"
  /\ Signal
  /\ UNCHANGED <<cmds, deleted, answered, lost, fifos, buffers, runFlag, main, dirty, language>>

-----------------------------------------------------------------------------
(* RunThread: the loop of the nrt thread, with WaitNext inside. *)

NrtMove(from, to) ==
  /\ nrt = from
  /\ nrt' = to
  /\ UNCHANGED <<cmds, deleted, answered, lost, fifos, buffers,
                 rt, runFlag, main, dirty, language>>

\* while (mRunThreadFlag)
NrtCheckFlag == NrtMove("flag", IF runFlag THEN "wait" ELSE "exited") /\ UNCHANGED signalled

\* read = write
NrtCatchUp == NrtMove("wait", "test") /\ signalled' = FALSE

\* while (read == write)
NrtTest == NrtMove("test", IF signalled THEN "lock" ELSE "blocking") /\ UNCHANGED signalled

\* pthread_cond_wait puts the thread to sleep
NrtSleep == NrtMove("blocking", "asleep") /\ UNCHANGED signalled

\* mNRTLock->Lock(), held by World_CopySndBuf while it copies
NrtLock == copier.at # "copied" /\ NrtMove("lock", "perform") /\ UNCHANGED signalled

NrtUnlock == fromEngine = <<>> /\ NrtMove("perform", "flag") /\ UNCHANGED signalled

\* The data of the nrt thread's copy after the second stage.
NewData(c) ==
  CASE cmds[c].kind = "alloc" -> c
    [] cmds[c].kind = "free" -> None
    [] OTHER -> nrtBuf[cmds[c].buf]

\* Error caught by the runs: b_gen keeps the data it filled in place for freeing.
OldDataAlways(c) ==
  IF cmds[c].kind \in Swaps THEN nrtBuf[cmds[c].buf] ELSE None

\* Error caught by the runs: mFreeData is read when bufAlloc has replaced the data.
OldDataAfterAlloc(c) ==
  CASE cmds[c].kind = "alloc" -> c
    [] cmds[c].kind = "free" -> nrtBuf[cmds[c].buf]
    [] OTHER -> None

\* mFreeData
OldData(c) ==
  IF cmds[c].kind \in Swaps \ {"gen"} THEN nrtBuf[cmds[c].buf] ELSE None

StageTwoBuffer(c) ==
  LET b == cmds[c].buf
      written == CASE cmds[c].kind = "alloc" -> {c}
                   [] cmds[c].kind \in {"gen", "read"} -> {nrtBuf[b]} \ {None}
                   [] OTHER -> {}
  IN  /\ cmds' = [cmds EXCEPT ![c].next = 3, ![c].free = OldData(c), ![c].snd = NewData(c)]
      /\ nrtBuf' = [nrtBuf EXCEPT ![b] = NewData(c)]
      /\ text' = [d \in Cmd |-> IF d \in written THEN c ELSE text[d]]

\* Error caught by the runs: /synced is sent in the second stage.
AnswersAtTwoSync(k) == k \in {"fail", "sync"}

AnswersAtTwo(k) == k = "fail"

\* Second stages, and CallNextStage after them.
StageTwo(c) ==
  /\ IF cmds[c].kind \in OnBuffer
     THEN StageTwoBuffer(c)
     ELSE cmds' = [cmds EXCEPT ![c].next = 3] /\ UNCHANGED <<nrtBuf, text>>
  /\ toEngine' = PutToEngine(IF cmds[c].kind = "fail" THEN Free(c) ELSE Stage(c))
  /\ answered' = IF AnswersAtTwo(cmds[c].kind) THEN answered \cup {c} ELSE answered
  /\ UNCHANGED <<freed, main>>

\* Fourth stages, and CallNextStage after them: a command is never deleted here.
StageFour(c) ==
  /\ cmds' = [cmds EXCEPT ![c].next = 5]
  /\ freed' = freed \cup ({cmds[c].free} \ {None})
  /\ answered' = answered \cup {c}
  /\ toEngine' = PutToEngine(Free(c))
  /\ main' = IF cmds[c].kind = "quit" /\ main = "waiting" THEN "cleanup" ELSE main
  /\ UNCHANGED <<nrtBuf, text>>

\* Error caught by the runs: a command is deleted after its fourth stage.
NrtPerformDeletes ==
  /\ nrt = "perform"
  /\ fromEngine # <<>>
  /\ fromEngine' = Tail(fromEngine)
  /\ spent' = spent + 1
  /\ LET c == Head(fromEngine).cmd
     IN  /\ \/ cmds[c].next = 2 /\ StageTwo(c) /\ UNCHANGED deleted
            \/ cmds[c].next = 4 /\ StageFour(c) /\ deleted' = deleted \cup {c}
         /\ lost' = IF ToEngineFull THEN lost \cup {c} ELSE lost
  /\ UNCHANGED <<rtBuf, rt, nrt, signalled, runFlag, dirty, language>>

NrtPerform ==
  /\ nrt = "perform"
  /\ fromEngine # <<>>
  /\ fromEngine' = Tail(fromEngine)
  /\ spent' = spent + 1
  /\ LET c == Head(fromEngine).cmd
     IN  /\ \/ cmds[c].next = 2 /\ StageTwo(c)
            \/ cmds[c].next = 4 /\ StageFour(c)
         /\ lost' = IF ToEngineFull THEN lost \cup {c} ELSE lost
  /\ UNCHANGED <<deleted, rtBuf, rt, nrt, signalled, runFlag, dirty, language>>

-----------------------------------------------------------------------------
(* World_WaitForQuit and World_Cleanup on the main thread. *)

MainMove(from, to) ==
  /\ main = from
  /\ main' = to
  /\ UNCHANGED <<cmds, deleted, answered, lost, fifos, rtBuf, nrtBuf, text,
                 rt, dirty, language>>

\* mAudioDriver->Stop() returns when no callback is in progress.
MainStop == rt = "idle" /\ MainMove("cleanup", "stopped") /\ UNCHANGED <<freed, nrt, signalled, runFlag>>

\* ~SC_AudioDriver
MainClearFlag == MainMove("stopped", "cleared") /\ runFlag' = FALSE /\ UNCHANGED <<freed, nrt, signalled>>

MainSignal == MainMove("cleared", "joining") /\ Signal /\ UNCHANGED <<freed, runFlag>>

\* pthread_join, and the data of all buffers is freed.
MainJoin ==
  /\ nrt = "exited" /\ copier.at = "idle"
  /\ MainMove("joining", "exited")
  /\ freed' = freed \cup (({rtBuf[b] : b \in Buf} \cup {nrtBuf[b] : b \in Buf}) \ {None})
  /\ UNCHANGED <<nrt, signalled, runFlag>>

-----------------------------------------------------------------------------
(* World_CopySndBuf on a thread of the language. *)

CopierMove ==
  UNCHANGED <<cmds, deleted, answered, lost, fifos, buffers, threads>>

Now(b) ==
  IF nrtBuf[b] = None
  THEN [data |-> None, text |-> None]
  ELSE [data |-> nrtBuf[b], text |-> text[nrtBuf[b]]]

\* The language has copied the data of b, and what was last written into it by a
\* command.
Current(b) ==
  \/ copied[b] = Now(b)
  \/ copied[b].data = Now(b).data /\ Now(b).text = None

\* Error caught by the runs: the lock is not taken.
CopyUnlocked(b) ==
  /\ copier.at = "idle" /\ main = "waiting"
  /\ dirty[b]
  /\ copied' = [copied EXCEPT ![b] = Now(b)]
  /\ copier' = [at |-> "copied", buf |-> b]
  /\ UNCHANGED dirty
  /\ CopierMove

\* didChange is tested (only this thread makes it false again), and under
\* mNRTLock the nrt copy is copied ...
Copy(b) ==
  /\ copier.at = "idle" /\ main = "waiting"
  /\ dirty[b]
  /\ nrt # "perform"
  /\ copied' = [copied EXCEPT ![b] = Now(b)]
  /\ copier' = [at |-> "copied", buf |-> b]
  /\ UNCHANGED dirty
  /\ CopierMove

\* ... and updates->reads = updates->writes.
CopyEnd ==
  /\ copier.at = "copied"
  /\ dirty' = [dirty EXCEPT ![copier.buf] = FALSE]
  /\ copier' = [at |-> "idle"]
  /\ UNCHANGED copied
  /\ CopierMove

-----------------------------------------------------------------------------

Rt == CallbackBegin \/ RtPerform \/ RtPerformed \/ CallbackEnd
Nrt == \/ NrtCheckFlag \/ NrtCatchUp \/ NrtTest \/ NrtSleep \/ NrtLock \/ NrtUnlock
       \/ NrtPerform
Main == MainStop \/ MainClearFlag \/ MainSignal \/ MainJoin
Copier == (\E b \in Buf : Copy(b)) \/ CopyEnd

Next ==
  \/ \E r \in Requests : Receive(r)
  \/ \E b \in Buf : WriteSamples(b)
  \/ Rt
  \/ Nrt
  \/ Main
  \/ Copier

\* The audio callback comes again and again, and no thread stops for ever.  The
\* language may copy a scope's buffer over and over, but not so that the nrt
\* thread never finds the lock free.
Fairness ==
  WF_vars(Rt) /\ WF_vars(Nrt) /\ SF_vars(NrtLock) /\ WF_vars(Main) /\ WF_vars(CopyEnd)

Spec == Init /\ [][Next]_vars /\ Fairness

-----------------------------------------------------------------------------
(* Properties. *)

Data == Cmd \cup {None}
Message == [do : {"stage", "free"}, cmd : Cmd]
Command ==
  {r \in [kind : Kinds \cup {"none"}, buf : Buf \cup {None}, next : 0 .. 5, free : Data, snd : Data] :
     r.kind \in OnBuffer => r.buf \in Buf}

\* The type of every variable.
TypeOK ==
  /\ cmds \in [Cmd -> Command]
  /\ deleted \subseteq Cmd /\ answered \subseteq Cmd /\ lost \subseteq Cmd
  /\ fromEngine \in Seq(Message) /\ toEngine \in Seq(Message) /\ spent \in Nat
  /\ rtBuf \in [Buf -> Data] /\ nrtBuf \in [Buf -> Data]
  /\ text \in [Cmd -> Data] /\ freed \subseteq Cmd
  /\ rt \in {"idle", "perform", "packets"}
  /\ nrt \in {"flag", "wait", "test", "blocking", "asleep", "lock", "perform", "exited"}
  /\ signalled \in BOOLEAN /\ runFlag \in BOOLEAN
  /\ main \in {"waiting", "cleanup", "stopped", "cleared", "joining", "exited"}
  /\ dirty \in [Buf -> BOOLEAN]
  /\ copier \in [at : {"idle"}] \cup [at : {"copied"}, buf : Buf]
  /\ copied \in [Buf -> [data : Data, text : Data]]

\* However many commands for one buffer are in flight, and whichever of their
\* messages are lost, neither thread's copy of a buffer points to sample data
\* that a fourth stage freed, as long as the program runs (BufAllocCmd,
\* BufGenCmd and BufFreeCmd hand the data over in three stages).
BuffersAlive == main # "exited" => \A b \in Buf : {rtBuf[b], nrtBuf[b]} \cap freed = {}

\* The messages in flight, in both directions.
InFlight == {fromEngine[i] : i \in DOMAIN fromEngine} \cup {toEngine[i] : i \in DOMAIN toEngine}

\* Sample data that a fourth stage has yet to free is neither freed already
\* nor promised to another fourth stage: nothing is freed twice.
PendingFreesDistinct ==
  \A c \in Cmd : main # "exited" /\ cmds[c].next \in {3, 4} /\ cmds[c].free # None =>
    /\ cmds[c].free \notin freed
    /\ \A d \in Cmd \ {c} : cmds[d].next \in {3, 4} => cmds[d].free # cmds[c].free

\* When all commands are through and none of their messages was lost, both
\* copies of each buffer are the same, and all sample data that is in no
\* buffer has been freed.
QuietMeansAgree ==
  Received = deleted /\ lost = {} =>
    /\ rtBuf = nrtBuf
    /\ \A c \in deleted : cmds[c].kind = "alloc" => c \in freed \/ \E b \in Buf : rtBuf[b] = c

\* A command that was deleted is in no FIFO any more, and a command is in at
\* most one message: no thread works on a command the other one works on.
OneMessageEach ==
  /\ \A m \in InFlight : m.cmd \notin deleted
  /\ \A i, j \in DOMAIN fromEngine : fromEngine[i].cmd = fromEngine[j].cmd => i = j
  /\ \A i, j \in DOMAIN toEngine : toEngine[i].cmd = toEngine[j].cmd => i = j
  /\ \A i \in DOMAIN fromEngine, j \in DOMAIN toEngine : fromEngine[i].cmd # toEngine[j].cmd

\* Server-Command-Reference: /synced is sent "when all asynchronous commands
\* received before this one have completed"; except those that a full FIFO lost.
SyncedMeansDone ==
  \A s \in answered : cmds[s].kind = "sync" =>
    \A c \in 1 .. s - 1 : c \in answered \cup deleted \cup lost

\* A buffer that is not marked as changed, and that no command is changing, has
\* the data that the language copied last, and the contents too, unless the rt
\* thread has written samples since (World_CopySndBuf with onlyIfChanged).
CopyIsCurrent ==
  \A b \in Buf :
    ~dirty[b] /\ (\A c \in Cmd : cmds[c].buf = b => cmds[c].next # 3) => Current(b)

\* The same with the samples of the rt thread.  Violated: b_set marks nothing.
CopyIsExact ==
  \A b \in Buf :
    ~dirty[b] /\ (\A c \in Cmd : cmds[c].buf = b => cmds[c].next # 3) => copied[b] = Now(b)

\* The memory of commands belongs to the real-time pool, which has no lock:
\* it is given back only inside the audio callback.
DeletedByRt == [][deleted' # deleted => rt = "perform"]_vars

\* Every command comes to its end, unless one of its messages was lost or the
\* program quits: a wake-up that the nrt thread misses is made up for later.
CommandsEnd ==
  \A c \in Cmd : c \in Received ~> c \in deleted \/ c \in lost \/ main # "waiting"

\* /quit ends the program.  Violated: the last signal may be missed.
QuitReturns == main = "cleanup" ~> main = "exited"
=============================================================================

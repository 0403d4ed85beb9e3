# Verification of scsynth and of the collector of sclang

TLA+ models of the core of the SuperCollider synthesis server (`src/common/Source/server`), of the
memory pool it shares with the language, and of the language's incremental garbage collector
(`src/common/Source/lang`); the TLC configurations that check them on small instances; and TLAPS proofs
of the properties that matter most for every value of the constants. Paths below are relative to
`src/common` unless they start with `src/`.

## 1. The system

`scsynth` keeps a tree of *nodes*: groups, and synths that hold unit generators. Clients send OSC
messages that create, move, free and pause nodes; the audio driver asks for one block of samples
after another, and in each block the server walks the tree and calls every node. What may take time
(allocating buffers, reading files) is done by a second, non-real-time thread. `sclang` compiles and
interprets the language that clients are written in; here it matters for its collector, and where it
copies the buffers of an internal server.

| Component | State | Operations | Talks to |
|---|---|---|---|
| Message FIFOs (`Headers/server/MsgFifo.h`) | a ring of items, three heads | `Write`, `Perform`, `Free` | one thread writes and frees, another performs |
| Node tree (`Source/server/SC_Node.cpp`, `SC_Group.cpp`) | `mParent`, `mPrev`, `mNext`, `mHead`, `mTail`, the node library | link, remove, replace, delete, delete all, deep free | commands and the block calculation call it |
| Node commands (`SC_MiscCmds.cpp`) | locals of a command in progress | `s_new` ... `g_deepFree`, `n_run`, `n_trace`, `g_dumpTree` | the real-time thread calls them between two blocks |
| Block calculation (`SC_World.cpp`, `SC_Graph.cpp`, `SC_Group.cpp`, `SC_Node.cpp`) | `mCalcFunc` of each node, the activations of `Group_Calc` | `World_Run`, `Group_Calc`, `Graph_FirstCalc`, `Unit_DoneAction`, ... | units free and pause nodes while the walk is in progress |
| Driver and OSC scheduling (`SC_CoreAudio.cpp`, `PriorityQueue.h`) | packets in flight, the scheduler's heap | `ProcessOSCPacket`, `Perform_ToEngine_Msg`, `PerformOSCBundle` | network threads, real-time thread, non-real-time thread (frees memory) |
| Wake-up of the non-real-time thread (`SC_SyncCondition.cpp`) | two counters, a condition variable | `WaitNext`, `Signal`, `RunThread` | real-time thread signals, non-real-time thread waits |
| Sequenced commands and buffers (`SC_SequencedCommand.cpp`, `SC_World.cpp`) | a stage per command, two copies of every buffer, `SndBufUpdates` | `CallNextStage`, `Stage1` to `Stage4`, `World_CopySndBuf` | alternates between the two threads over the FIFOs |
| Notifications (`SC_Node.cpp:324`, `SC_World.cpp:1171`) | FIFOs of messages, the list of notified clients | `Node_StateMsg`, `NodeEndMsg::Perform`, `/notify` | real-time thread to clients |
| Synth definitions and node library (`SC_GraphDef.cpp`, `SC_Graph.cpp`, `HashTable.h`) | reference counts, hash tables, `mDeleteGraphDefs` | `GraphDef_Define`, remove, free, a synth's start and end | commands, both threads |
| Memory pool (`Source/common/SC_AllocPool.cpp`) | chunks with boundary tags, bins, areas | `Alloc`, `Free`, `Realloc`, `FreeAll`, `FreeAllInternal` | the real-time thread, the interpreter and the collector |
| Collector (`Source/lang/LangSource/GC.cpp`) with the parts of the interpreter that it works against | colours, the treadmill's lists, `mPartialScanObj`, `mFlips` | `Collect`, `ScanOneObj`, `DoPartialScan`, `Flip`, the write barriers | array primitives, calls and returns, switches of threads |
| Network, plugins, start-up, scheduler of the language, class library, editors | | | see section 7 |

What is hard here: two threads that share rings without locks; commands whose stages alternate
between two threads, in FIFOs that drop messages when they are full; two copies of every buffer, of
which a third thread takes a third; a wake-up without a mutex; commands over lists of
nodes that mean something only together; a recursive walk over a tree that is changed by
the nodes it calls; one function pointer (`mCalcFunc`) in which "first block", "paused", "to be
deleted" and "traced" overwrite each other; definitions that outlive their name; a pool that
keeps every size twice; a collector that is interrupted in the middle of an array, and frames
that are freed by hand beside it. The
correctness properties are listed with their runs in section 4;
`PROJECT.json` lists every hazard with its line and the properties aimed at it.

## 2. Modules

    BoundedQueue <--implements-- MsgFifo               <- MsgFifoProofs
    NodeLinks <- NodeTree <- NodeCalc                  <- MCNodeCalc
        |           |            `----------------------- NodeCalcProofs
        |            `- NodeTreeLists                  <- MCNodeTree, NodeTreeProofs
        |                   `--implements--> ChildLists
    SequencedCommands                                  <- SequencedCommandsProofs
    EventQueue <- OscScheduler --implements--> Timetable <- OscSchedulerProofs
    HashTable <- DefLibrary --implements--> DefNames   <- MCDefLibrary, DefLibraryProofs
    AllocPool                                          <- AllocPoolProofs
    PyrGC                                              <- MCPyrGC, PyrGCProofs

**`MsgFifo`.** A step is one load of the other thread's head, one copy of an item, or one
publication of a head; `writer` and `reader` say where the two threads are between two such steps.
A slot that is half copied holds `Torn`. The real-time and the non-real-time thread, and the
network threads (which write under `mProcessPacketLock`), use these rings, each with one writer and one
reader. `HasFree` selects the class. `N` is any number above 1; the code's power of two is only
needed for `& (N - 1)` to be the remainder that `NextPos` states. The compare-and-swap, interlocked
exchange and `__sync_synchronize` of the three platforms are the barrier that makes `WriteCopied`
precede `WritePublish`. A failed `Write` changes nothing and is not an action.

**`BoundedQueue`.** What the ring promises: accepted messages are performed once and in order, then
freed once and in order, and at most `N - 1` are held.

**`NodeLinks`.** The pointer functions of `SC_Node.cpp` and `SC_Group.cpp` as operators from the
tree before a call to the tree after it. Nodes are their IDs, since the library refuses a duplicate.
`Link` is the assignment block that `Node_AddBefore`, `Node_AddAfter`, `Group_AddHead` and
`Group_AddTail` share. `Below` is what the recursion of `Group_DeleteAll` reaches; it is defined
as a least set, so that no recursive operator stands in the way of the proofs.

**`NodeTree`.** The commands. Commands with a list of arguments are one action per element; `message`
holds the locals they keep between two elements (`prevNode` and `prevTarget` of `n_before` and
`n_after`, the previous node of `n_order`, the group of `g_deepFree`). With `Careful` the client
keeps to placements that make sense; without, it may name the moved node or a node below it as
target, which the server does not refuse and which makes rings of groups cut off from the root. On such a
ring `Group_DeleteAll` does not return; `Grounded` leaves freeing it out.

**`ChildLists`, `NodeTreeLists`.** The tree as sequences of child IDs, the commands as operations on
them, and the refinement from the pointers to the sequences.

**`NodeCalc`.** A block. `stack` holds the activations of `Group_Calc` with their local `next`,
`running` the synth whose units are being called, `calc` every `mCalcFunc`, `built` the synths
whose constructors ran, and `visited` (the only variable that is not in the code) the nodes called
in this block. `Visit` is one turn of the loop: `mNext` is read, the node is called. While a synth
runs, any number of `DoneAction` and `UnitAct` steps happen, as its units may take them;
`CtorsEnd` and `UnitsEnd` are the ends of `Graph_FirstCalc` and `Graph_Calc`. Commands are
executed at rest (`AtRest`), as the driver calls `World_Run` only when it has performed what was
due.

**`SequencedCommands`.** Commands that go through four stages, odd ones in the audio callback (`rt`),
even ones on the non-real-time thread (`nrt`). `fromEngine` and `toEngine` are the two rings, as
`BoundedQueue`s; `spent` are the slots of `mFromEngine` that only the next callback frees. Each
message performed is one action: the stage and `CallNextStage`. The completion message that a third stage
performs is any number of `Receive` and `WriteSamples` steps before it (`Performing`), as it may be a
bundle. `WriteSamples` is what `b_set`, `b_setn`, `b_fill` and recording units do to a buffer
without a mark for the language (only `ScopeOut` makes one). A `Write` that finds its ring full is lost and noted in `lost`,
which is not in the code. `kind` says what the stages of a command do (see the head of the
module); sample data is named by the command that allocated it. `Signal` and the steps of `nrt` from
`flag` to `lock` are `SC_SyncCondition` and the loop of `RunThread`, one load or store at a time;
`main` is `World_WaitForQuit`, the end of the driver and the join. `copier` is the thread of the
language in `World_CopySndBuf`, which holds the lock that `RunThread` takes while it performs.

**`EventQueue`, `OscScheduler`, `Timetable`.** `Add` and `Remove` are the two loops of
`PriorityQueue.h` on a heap, written as recursive functions over the position of the hole.
`OscScheduler` follows a packet from `ProcessOSCPacket` through `mOscPacketsToEngine` and the heap to
the block that performs it, and its memory to the thread that frees it. `handled` are the performed
messages of which the network thread frees the memory with the slots; 0 is a message whose `mData`
was taken away. `Timetable` is what is promised: in the right block, none before an earlier one,
none forgotten.

**`HashTable`, `DefLibrary`, `DefNames`.** The open-addressing table as operators from table to table;
`DefLibrary` has the commands that enter, find and free definitions, the synths that count them, and the
FIFO through which the last reference has them deleted. `Define` is the whole loop of
`GraphDef_Define`. `DefNames` is the map from names to definitions that clients believe in.
`MCDefLibrary` chooses names that collide at the end of the table, and variants.

**`AllocPool`.** `tag` and `prevTag` are the two copies of every size, `bins` and `marked` the free lists
with their bits, `areas` what the system has given. An operation is one action with all that it links,
splits and merges. `BinIndex` is the table of `BinIndex2` as a recursion: twice the size is `PerOctave` bins further. `FreeAllInternal` links
the areas one after the other in an order that is left open, since the model does not keep the list `mAreas`.
`live` is what the callers hold and `event` what the last call refused or
spoiled; neither is in the code.

**`PyrGC`.** An action of the collector is the scan of one object, of a part of one, of the roots, or
a flip; between any two of them `StopCollect` may return to the program, and the program goes on with one
operation of the interpreter. `color` stands for the lists of the treadmill, `field` for the slots
in use, `thread`, `stack` and `frame` for the registers of `PyrInterpreter`. Every operation is modelled
with the write barrier that the code has there. A frame has a caller, a context and a home context. `Call` and
`CallBlock` make one, for a method and for a function; `ReturnFromBlock` and `ReturnFromMethod` leave one or, after a `^`
in a function, several: plain frames are freed at once, those with a heap context forget their caller, and the home context
of a `^` keeps it (`PyrMessage.cpp:1282`). `CallersTo` is the walk along the callers, as a least set. A `^` that does not find its
method's caller goes on in the parent thread: `ReturnInParent` switches, with `returning` as the method that is searched for,
and then one of `ReturnFromMethod`, `ReturnInParent` and `OutOfContextReturn` follows before anything else does. `ReturnOut` is the return with no frame
left. `Resume`, `Yield` and `Reset` are the primitives of `Routine`, with all of `switchToThread`. `MCPyrGC` adds the symmetry.

## 3. Abstractions

* Samples, wires, controls, buses, unit data and the text of messages are left out.
* A synth's units are a nondeterministic sequence of acts. The sets `CtorActs`, `CalcActs`,
  `UnitActs` and `Requests` say which acts and commands an instance has.
* In the modules of the node tree, memory is not exhausted: the branches for
  `kSCErr_OutOfRealTimeMemory` are left out.
* `n_trace` and `g_dumpTree` are asked for only for nodes that run normally; on others they also
  overwrite `mCalcFunc`, which makes the divergences of section 5 worse but adds no new kind.
* `NodeTree` forgets deleted nodes in one step; what their end does to their definition is
  `SynthEnds` of `DefLibrary`.
* `SequencedCommands` does not model the memory of completion messages, the plugin's own functions
  in `AsyncPlugInCmd` beyond whether they succeed, nor the sockets of answers. Of samples it keeps who wrote
  them last: a command, or the real-time thread, whose writes are not told apart.
* `OscScheduler` leaves out sample offsets and how the driver computes NTP times, which it compares as signed 64-bit
  integers; time only has to be ordered here. The clock may be late or early against the blocks (`Drifts`).
* `AllocPool` counts in units of 16 bytes, a header being two of them. The bins are those of the
  code on a smaller scale: with `SmallBins = 4`, `PerOctave = 2`, `LastBin = 6` instead of 64, 8 and 127; the theorems are about any scale. Debugging counters
  change nothing.
* `PyrGC` has no size classes (each has lists of its own, with the same colours), no finalizers, no
  `SweepBigObjects`, no permanent objects and no growing stack. Of a frame the caller, the context and
  the home context are kept (its variables are slots like those of an array), of a thread the stack, the frame and the parent:
  a routine that is done and one that is reset are the same, and what `Yield` and `ReturnInParent` hand over is put on the
  other stack. A yield or a `^` into a parent that is itself done or missing, `prRoutineStop`, and tail calls (a
  return and a call) are left out. `ReturnOut` includes the `initInterpreter` of what is run next. `Process` is scanned in one go, as
  only objects with more slots than the budget and 32 are scanned in parts (`GC.cpp:589`). Objects that only a C variable of a primitive refers to are not named: the operands of an operation
  are on the stack.
* `DefLibrary` is the real-time server: `Graph_Dtor` sends the definition to the other thread, and the branch of
  `SC_Graph.cpp:71` that frees it at once, for scores rendered off line, is left out. It does not parse: which definitions arrive together is the constant `Lists`. Each definition has variants of its own
  (`DefAssumption`), since `GraphDef_ReadVariant` reads them into an array of that definition.

## 4. Runs

| Run | Asks | Bound |
|---|---|---|
| `fifo_free` | `NoSharedSlot`, `NoTornItem`, `RefusesOnlyWhenFull`, and that the ring implements `BoundedQueue`, liveness included | 4 slots, 2 messages |
| `tree_any` | `ListsWhole` and `ListsComplete` for a client that sends anything | root and 4 nodes |
| `tree_lists` | `OneTree`, and that each command does to the child lists what its name says | root and 3 nodes |
| `calc_walk` | `WalkSafe`, `CalledOnce`, `BlockCoversAll`, `CalcOnlyBuilt`, `EndedNodesFreed`, where nothing overwrites a pending end or makes the walk leave nodes out | root and 3 nodes |
| `calc_funcs` | `BuiltOnce`, and that blocks change the tree as commands do (`TreeSpec`), with all 14 done actions, pausing, tracing and moving | root and 2 nodes |
| `cmds` | each command is in one message at most and is deleted by the right thread (`OneMessageEach`, `DeletedByRt`); no buffer points to freed data and none is freed twice (`BuffersAlive`, `PendingFreesDistinct`); both copies agree when all is quiet (`QuietMeansAgree`), and the language has what commands put into a buffer (`CopyIsCurrent`); what `/synced` promises (`SyncedMeansDone`); every command ends (`CommandsEnd`) | 2 commands of 9 kinds, 1 buffer, FIFOs of 2 |
| `sched` | no packet is freed by two threads or while it waits (`FreedByOne`), none is forgotten (`ForgottenOnlyWhenFull`), and the heap implements `Timetable` | 5 packets, heap of 4, FIFOs of 2, 2 blocks per callback |
| `pool` | the assertions of `DoCheckPool` and more after every call (`PoolWhole`), the smallest chunk is taken (`BestFit`), areas go back to the system (`AreasGivenBack`) | an area of 9 units and one of 7 |
| `gc` | nothing that the program can still use is freed (`NothingLost`), no scanned black object refers to a white one (`NoBlackToWhite`) | 2 threads, an array of 2 slots, 2 frames |
| `gc_frames` | `NothingLost` with deeper calls: returns through several frames and threads (every flip is a major one, so that a white object that is in use is soon lost) | 2 threads, 3 plain frames and one heap frame, no array |
| `defs` | no definition is freed while a name, a synth or a message refers to it (`DefsAlive`), and the table implements `DefNames` | 7 definitions and variants with 5 names, a table of 8 slots for 4 |
| `gc_removeAt` | `NothingLost` when an array is shortened while it is being scanned (violated, section 5) | 1 thread, 2 arrays of 3 slots |

Some configurations belong to no run, and are there to be run by hand; they show what the code does at
the edges of what the runs assume:

| Configuration | Shows |
|---|---|
| `NodeCalc_four` | `WalkSafe`, `CalledOnce`, `BlockCoversAll` and `TreeSpec` with root and 4 nodes, and done actions in constructors (holds) |
| `MsgFifo_nofree` | `MsgFifoNoFree` implements `BoundedQueue` too (holds) |
| `SequencedCommands_buffers` | the properties of buffers with three commands (holds) |
| `NodeTree_self`, `NodeCalc_ctor`, `NodeCalc_dtors`, `NodeCalc_unbuilt`, `NodeCalc_root`, `SequencedCommands_quit`, `SequencedCommands_set`, `AllocPool_realloc`, `AllocPool_tails`, `DefLibrary_variants`, `PyrGC_return`, `PyrGC_callers` | section 5 (violated) |

Why the bounds are enough. Four slots hold a full ring, an empty one, and every order of the three
heads around it. With the root and four nodes there are lists with a first, an inner and a last
node, groups inside groups, and a node with neighbours of both kinds; three nodes have all
of it but not at the same time. All done actions involve a node, its two neighbours and its
group. Nodes other than the root are interchangeable, so symmetry is used where only safety is
checked (`TreeSpec` and the action properties among them) and not where liveness is: therefore `calc_walk` has three nodes
below the root, and `NodeCalc_four` checks its safety again with four.

Two commands in flight are enough for all pairs of kinds to meet on one buffer in every order of their
stages and with either message lost; a FIFO of two is sometimes full, since the slots of performed
messages stay taken. Four events fill a heap with two levels and a last node without a
brother, of even and odd size; five packets overfill it. In `sched` one
callback of two blocks runs, so an event waits for its block but not for a later callback; that is left to the theorem `HeapIsATable`. An area of nine units has room for three
chunks, so that a chunk is freed with a free neighbour before it, after it, on both sides and on neither,
and the bins in use are small ones and large ones with several sizes. A slot of the array in `gc` is before or behind
the point where the collector stopped, and with two threads a stack is the exempt one or an ordinary
object. Four frames in `gc_frames` let a `^` leave three frames of one thread, or search a routine with two and leave one of its parent, and let a frame that a function keeps
outlive its caller, whose memory is used again. In `defs` five names compete for four places, three of them hash to the last slots of the table,
so that removal moves items around its end.

Fairness. `MsgFifo`: the reader's loop runs on every block or wake-up, and a `Write` or
`Free` that has begun ends; nothing is assumed of when messages are written. `NodeCalc`:
the audio callback comes again and again whatever commands arrive in between (strong fairness of
`BlockBegin`); loops over finite lists go on; and the units of a synth are finitely many, so the
ends of `Graph_FirstCalc` and `Graph_Calc` come although any number of acts may
precede them (strong fairness of `CtorsEnd` and `UnitsEnd`). Commands and acts have no fairness.
`SequencedCommands`: the callback comes again and again and ends, and no thread stops for ever between two
steps (weak fairness of `Rt`, `Nrt`, `Main` and `CopyEnd`); the non-real-time thread gets its lock some time although
the language may take it again and again (strong fairness of `NrtLock`), which it does only while a scope's buffer is marked anew; nothing is assumed of when commands arrive or
when the language copies a buffer. The other modules state no liveness.

`EndedNodesFreed` is conditional on the root not being told to end, since `NodeCalc_root` shows what
happens then. `BlockCoversAll` is checked without pausing, which leaves a group's nodes out on
purpose.

## 5. Where the code and its documents differ

| Configuration | What happens |
|---|---|
| `PyrGC_removeAt` (run `gc_removeAt`) | `basicRemoveAt` moves all slots behind the removed one down and shows the first of them to the write barrier. In an array that is scanned in parts, a slot that is not scanned can move into the part that is, without any barrier; what it refers to is freed. The comment at `PyrArrayPrimitives.cpp:242`, "might be partial scan object", is about this case. |
| `PyrGC_return` | A function that is called after its method has returned may carry out its `^`: `returnFromMethod` (`PyrMessage.cpp:1242`) looks for the caller of the home context and not for the home context. If that caller still runs, the method returns a second time; if it does not, another frame may have got its memory. `Error.html:61` of the help promises an `OutOfContextReturnError`. |
| `PyrGC_callers` | The home context of a method keeps its `caller` when it returns (`PyrMessage.cpp:1282`). The caller may be freed (`GC.h:271`) and its memory be used again, and `BlackToWhiteCheck` (`GC.cpp:1024`) then finds a black frame that refers to a white object. |
| `NodeTree_self` | `n_after A A` takes A out of its group for good. `meth_n_before` tests for this case, `meth_n_after` (`SC_MiscCmds.cpp:1068`) does not. |
| `NodeCalc_ctor` | A done action 2 in a constructor is lost: `Graph_FirstCalc` (`SC_Graph.cpp:475`) installs `Graph_Calc` over the `Node_Delete` just installed. |
| `NodeCalc_dtors` | A new synth that a neighbour ends before its first block has destructors called for units never constructed; the comment at `SC_Graph.cpp:58` says this cannot be. |
| `NodeCalc_unbuilt` | `n_run` 0, 0, 1 before the first block makes units be calculated that were never constructed (`SC_Node.cpp:231`). |
| `NodeCalc_root` | Done action 14 in a synth of the root group makes the server stop calculating: the root is never deleted, and its calc function stays `Node_Delete` (`SC_Node.cpp:103`). |
| `SequencedCommands_quit` | `~SC_AudioDriver` signals once and joins (`SC_CoreAudio.cpp:412`). `Signal` does not take the mutex, so a thread between its test and its wait misses it, and no later signal comes: `/quit` may hang. While the callback runs, the same miss only costs one callback. |
| `SequencedCommands_set` | `b_set`, `b_setn`, `b_fill` (`SC_MiscCmds.cpp:1319`) and recording units write samples without counting in `SndBufUpdates`: the language keeps its old copy (`CopyIsExact`), while `b_zero`, `b_read` and `b_gen` make it copy again. |
| `AllocPool_realloc` | `Realloc` that grows into the chunk before it links the tail into its bin before it moves the contents down (`SC_AllocPool.cpp:507`): the links overwrite contents. Its callers are the lexer (`PyrLexer.cpp:442`, `470`, `1776`) and `World_Realloc`. |
| `AllocPool_tails` | A new area that is split for a request of nearly its size (`SC_AllocPool.cpp:398`) leaves a free chunk smaller than `kMinAllocSize`, which `DoCheckFreeChunk` asserts cannot be; such an area is never given back. |
| `DefLibrary_variants` | A synth of a variant counts the variant, not the definition whose memory it lies in (`SC_GraphDef.cpp:153`), and `d_freeAll` frees definitions that synths still use: `DefsAlive` is violated. `Careful` excludes both in `defs`. |

The stale callers are why `NothingLost` and `NoBlackToWhite` except the callers of frames that have returned. The collector follows such a pointer, too: it
greys what is white there, which at worst keeps an object one round longer, and leaves what is free. Frames too big for the pool's size classes may be given
back to the system by `SweepBigObjects`, which the model does not have; a stale pointer to one would then be read in memory that is no frame.

With `"empty"` among the `Kinds`, a `b_alloc` of no samples, `SequencedCommands` violates `BuffersAlive`: `bufAlloc` fails
without touching the buffer, and the fourth stage frees the data that the buffer goes on using.

Further facts that the models bring out without a property of their own: the answer of `AddEvent` is not
looked at, so a bundle that finds the scheduler full is dropped and its memory lost
(`SC_CoreAudio.cpp:355`), as are the waiting packets at `/clearSched` and the packet whose `Write` to
`mFromEngine` fails; bundles with equal time tags leave the heap in no particular order; the memory of a
packet that is performed at once is freed only when the next one arrives; a full `mDeleteGraphDefs` or
a full table leaks a definition; `GraphDef_LoadGlob` loads each file twice (`SC_GraphDef.cpp:333`);
`~AsyncPlugInCmd` frees `mMsgData`, and its base class frees it again (`SC_SequencedCommand.cpp:1618` and
`125`);
`IntHashTable::Resize`, which nobody calls, rehashes in the wrong order; and the internal server passes
the sizes of its tables on without rounding them to the powers of two that the mask needs.

Two more acts overwrite a pending `Node_Delete` in the same way as `NodeCalc_ctor`, and violate
`EndedNodesFreed` when they are allowed in `NodeCalc_walk.cfg`: pausing a node that has ended in the same
block (`UnitActs = {"pause"}`, `SC_Node.cpp:247`), and `n_trace` or `g_dumpTree` in the block in
which it ends (`Requests = {"trace"}`, `SC_Graph.cpp:567`). A single `n_run` 0 before the first
block is not undone by `n_run` 1 until a block has passed.

## 6. Proofs

All theorems hold for every value of the constants: sets of nodes, numbers of slots and commands, acts, objects; the
assumptions are the named `ASSUME`s of the modules (`Root \in Node`, `Null \notin Node`, `Node` finite,
`N > 1`, ...), which TLC evaluates in the runs. One is about numbers: `SchedulerAssumption` lets no clock come as far as
`Never`, the time `NextTime` gives for an empty heap (`kMaxInt64`, as a signed NTP time a moment in the year 2104).

| Module | Theorem | Property |
|---|---|---|
| `MsgFifoProofs` | `TypeCorrect`, `SlotsNeverShared`, `ItemsNeverTorn`, `RefusedExactlyWhenFull`, `RingRefinesQueue` | `TypeOK`, `NoSharedSlot`, `NoTornItem`, `RefusesOnlyWhenFull`, the safety part of `BoundedQueue` |
| `NodeTreeProofs` | `TypeCorrect`, `ListsStayWhole`, `ListsStayComplete`, `TreeStaysOne`, `ListsImplemented`, `CommandsDoAsAsked` | `TypeOK`, `ListsWhole`, `ListsComplete`; for careful clients `OneTree`, `ImplementsLists` and `CommandsAsAsked` |
| `NodeCalcProofs` | `WalkActsAsCommands`, `ListsWholeInBlock`, `WalkIsSafe`, `NodesCalledOnce`, `BlocksCoverAll`, `SynthsBuiltOnce`, `CalcTypeCorrect`, `UnitsBuiltFirst` | `TreeSpec`, `ListsWhole`, `WalkSafe`, `CalledOnce`, `BuiltOnce`, `CalcTypeOK`; `BlockCoversAll` for careful clients if nothing pauses nodes, and `CalcOnlyBuilt` if nothing takes a pause back |
| `SequencedCommandsProofs` | `TypeCorrect`, `InOneMessage`, `DeletedInCallback`, `BuffersStayAlive`, `FreedOnce`, `SyncedWhenDone`, `QuietCopiesAgree`, `CopyStaysCurrent` | `TypeOK`, `OneMessageEach`, `DeletedByRt`, `BuffersAlive`, `PendingFreesDistinct`, `SyncedMeansDone`, `QuietMeansAgree`, `CopyIsCurrent`, for any number of commands and buffers and any capacity |
| `OscSchedulerProofs` | `TypeCorrect`, `NoPacketFreedTwice`, `NoneForgotten`, `HeapIsATable` | `TypeOK`, `FreedByOne`, `ForgottenOnlyWhenFull`, `TableSpec`, for any sizes of the heap and the FIFOs, any number of packets and any clock |
| `DefLibraryProofs` | `DefsStayAlive`, `TableIsAMap` | `DefsAlive` for careful clients, and `TableSpec` for all clients, for any table, hash function, definitions and variants |
| `PyrGCProofs` | `TypeCorrect`, `NothingIsLost`, `BlackToWhiteChecked` | `TypeOK`, `NothingLost`, `NoBlackToWhite`, for any objects and sizes and wherever the collector stops |
| `AllocPoolProofs` | `PoolStaysWhole`, `CallersKeepApart`, `SmallestIsTaken`, `AreasAreGivenBack` | `PoolWhole`, `MemoryApart` (stated in the module), `BestFit`, `AreasGivenBack`, for any bins, areas and requests that do not leave less than a header of a new area |

*The ring.* `IInv` of `MsgFifo` adds to the properties that the three heads never lap each other
(`HeadsInOrder`) and what each thread knows about the slot it is about to use (`RoomToMove`): the
slot after `writeHead` stays free while the writer copies, since only the writer moves
`freeHead`; in the class without a free head the reader moves it, and only away from the slot.
`RefusesOnlyWhenFull` counts slots: the set between two heads has as many members as the distance of the heads
(`SlotsWithin`), so the three distances of `HeadsInOrder` are the three counts.

*The tree.* `LinksOK` is inductive by itself: next and previous pointers are inverse, the ends of
a list are the nodes without a neighbour, only live nodes are linked, and no set of nodes is
closed under `mNext` (`NoRings`, which says without induction that a walk ends). `NodeTreeProofs` shows
that each pointer function keeps it, given what its callers guarantee (a placed node is in no group, and what a command keeps between two elements of its list exists, `HeldLive`, as nothing else runs meanwhile).
`Below` being a least set, what is freed is characterised by two facts: it contains
the children of its members, and each member's parent is a member or the group itself.
`ListsComplete` is about the walk from `mHead` that code makes: since next and previous are inverse the walk visits no node
twice, so it ends within the finite set of nodes, and a child that it misses would, with all before it, be a set closed
under `mPrev`, which `LinksOK` excludes. `OneTree` rests on `Rooted`: each set of nodes without the root has one whose parent is
outside of it. This says of all depths at once that nodes are below the root; a move keeps it since a sensible
target is not below the moved node, and between two elements of `n_before` the pair kept stays sensible
(`PendingSensible`).

*The lists.* The child list of a group is defined by a choice, so the proof that commands do to it what `ChildLists` says starts from
uniqueness: two sequences that follow the same pointers from `mHead` to a node without `mNext` are equal (`ListUnique`, by the least
position at which they differ). So it suffices to exhibit the new list and to show that it follows the new pointers. Every command is made
of two changes: a node is put at one position (`Link`), or taken out from one (`Node_Remove`); `InsertAt` and `RemoveAt` of the list follow
the pointers afterwards. Lists that the change does not touch still follow their pointers. What is freed is the same least set in both models, `Below` along
`mParent` and `Under` along the lists. `ListsImplemented` then has one step of `ChildLists` per command, and
`CommandsDoAsAsked` says that it is the one of the command's name. Both assume `Careful`: `ChildLists` has no orphaned groups.

*The walk.* `WalkInv` strengthens `WalkSafe`: the groups on the stack are distinct and nested from
the root, and a `Group_DeepFreeGraphs` in progress is over a group of the innermost one.
Distinctness is needed since a step frees nodes below the innermost group: none
of them, and none of their descendants, is on the stack. Each of the acts that free nodes is shown to
free only such a set (`Freed`).

*Called once.* The walk goes from head to tail, so the visited nodes are closed under `mPrev` and `mParent`, and
each saved `next` is the first of its list that is not visited (`Ordered`). Freeing a node
makes its successor inherit its predecessor, which was visited if it was, so both facts survive every
act of a unit (`Kept`).

*None left out.* `Covered`: a node that was not called, of a group that was, is behind another such node or is the saved `next` of
that group's activation. When a loop has come to its end its group has no such node, since a finite set closed under `mPrev` would be a ring
(`NoPrevRing`). What frees a node in the middle hands its predecessor on to its successor (`Kept` again). At the end of the block there is no activation left,
so a node that was not called has a parent that was not called, which `Rooted` excludes. Two assumptions are needed and used: placements that make sense,
and `NothingPauses`, as a paused group is called but not walked.

*Built first.* `UnitsInv`: a synth whose calc function calls its units was constructed. What could break it
is a calc function that forgets that a synth is new: `Graph_NullFirstCalc` paused again is `Node_NullCalc`. Only `n_run`
and the `Pause` unit make `Graph_Calc` of that (`NodeCalc_unbuilt`), so `UnitsBuiltFirst` assumes that neither does; pausing,
ending, tracing, moving and all 14 done actions are allowed. It needs that no command makes a synth of a group's ID while that
lives (`KindsStay`).

*The buffers.* `MsgInv` says where the one message of a command can be, given the stage it waits for.
`OwnInv` rests on it and says who owns sample data: what a copy of a buffer points to was allocated
for this buffer and is not freed; what a command is going to free is in no other command and not in
the copy of the non-real-time thread, and once the third stage has run not in the other copy either. The
step that needs care is that third stage: it installs data in the real-time thread's copy which a later second
stage may already have promised to be freed. `SendsOrdered` and `FourOrdered` say why that is safe: the two commands
go through the same FIFO, so the command that frees is behind the one that installs. The same
holds with any messages lost, since losing one only removes an element. `BuffersStayAlive` and `FreedOnce` assume
`"empty" \notin Kinds` (section 5).

*The order of commands.* `OrderInv`: both FIFOs hold commands in the order in which they were received for each stage, so
a command never gets ahead of an earlier one, and a `/sync` whose fourth stage answers has seen all earlier
commands through theirs, or lost.

*The two copies.* `AgreeInv` says what the real-time thread has yet to learn: where a buffer's copies differ a command whose second
stage ran and whose third is to come, or was lost, explains it (`CopiesAgree`), and data in neither copy is freed or is going to be
(`NoneForgotten`). `CopyInv` adds the language's copy: a buffer not marked `dirty` is as it was copied (`Current`: but for
samples that the real-time thread wrote over it), unless a command is between the second stage and the third, which sets the mark.

*The heap.* `Add` and `Remove` are loops over a hole that moves through the heap. `AddIsRight` and `RemoveIsRight` say of any heap
that the result is one again and holds the same events with the one more or less (`Rearranged`, in terms of a permutation of
positions). The loops are recursive functions over the position of the hole, so the proofs go by the least position at which the
claim fails (`LeastNat`), not by induction over an operator. `FirstIsEarliest` uses the same device up the tree. `SInv` then
adds that the four queues a packet can be in are apart and hold no packet twice, and that a callback's blocks end before
`Never`. With that each step of the scheduler is shown to be a step of `Timetable` on the set of waiting events.

*The hash table.* A lookup finds an item if no slot from the one its name hashes to up to the one it is in is empty
(`Placed`). Distances are counted forwards round the table (`Dist`), and a table is `Whole` when every item is `Placed`, no two
have the same name, and it counts its items; as it keeps at most half of its slots, there always is an empty one (`EmptySlot`), and each
probe ends at the nearest slot that is empty or has the name (`ProbeEnds`). `RemoveItem` empties a slot in a run of items and `FixCollisionsFrom` puts the
items behind it where their probes end. Its loop invariant is `Turned`: an item outside of the rest of the run misses
no slot on the way to it, and the empty slots that the others miss are behind the one the loop has come to. `FixFacts` concludes that the table is whole again with the one item less.
`TableIsAMap` needs nothing else: no assumption on clients, and none on the names or their hashes, whose collisions are arbitrary.

*The definitions.* `Sane` counts: the count of a definition is at least the number of its synths, and one more while it is in the library;
a message that is to delete a definition is the last to refer to it (`Leaving`). A variant is in the library only together with the definition whose memory it
lies in, so its count never lets go of that. `DefsStayAlive` assumes `Careful`, without which
`DefLibrary_variants` shows it to be false. Counts above are inequalities since a definition that `FreeAll` takes out of the library keeps its count.

*The collector.* Which frames have returned cannot be read off a frame, so the invariant says that there is a set of frames that have not: `Inv` is
`\E L \in SUBSET Frames : InvOf(L)`, and each step's proof takes the set before it and names the one after it (a call adds a frame, a
return takes out those that it leaves). `InvOf(L)` joins the two properties, for `L` in the place of the frames that are called (`Kept`, `Dark`), with the shape of the
objects (`Shape`) and three facts. `Lives`: the running and the waiting frames are in `L`, and `L` has the callers of its members. `Unshared`: no two
threads share a stack, and a frame of `L` has called at most one other of `L`, or waits in one thread, or runs; so when a return leaves frames and frees the plain ones, nothing in use refers
to them (`LeaveSafe`), even if it unwinds many or has come from another thread. `Rooted`: between the scan of the stack and the flip the registers refer to nothing
white. A flip frees the white objects; nothing black refers to one (no object being grey or partially scanned), and neither do the registers. For the chain of frames, which no barrier
protects, `ScanRoots` reaches every caller. `Called` of the properties is a subset of every such `L`, so the theorems except exactly the
callers of frames that have returned. They assume `Careful`, that no array is shortened in its scanned part, without which `gc_removeAt` shows them to be false.

*The pool.* `IInv` of `AllocPoolProofs` says that the pool is `Sound` and that the chunks in use are those in `live`. `Sound` is three facts, besides the fields of the record. `Layout`:
each area begins and ends with a mark, every header lies in an area, a header's size leads to the next header (`Forward`), where the second copy
of the size leads back (`Backward`). `Coalesced`: the neighbours of a free chunk are in use. `Binned`: each bin holds exactly the free chunks whose size belongs there, once,
in descending order, and has its bit. All operations rearrange one span between two headers, so there is one lemma about the headers (`Graft`): if a span is divided anew into chunks whose copies agree, `Layout` holds again and the
headers outside of it are untouched. Its instances are a span that becomes one chunk (`Merge`) and one that becomes two (`Cut`).
Between an unlink and a link one free chunk is in no bin; `Loose` is `Sound` but for that chunk, and `LinkFreeBins` and `UnlinkFreeBins` lead from the one to the
other, whatever the position in the bin.

About `BinIndex` only this is used: it is monotone and a small bin has chunks of one size (`BinMonotone`, `BinIndexFacts`; `BinRecursion` unfolds the recursion, by the
least size for which no function exists). It follows that a fitting chunk in a lower bin is smaller than all in higher bins, and with the order within a bin
that the search finds the best chunk (`FirstFitBest`). An area goes back when one free chunk fills it, and in an area with nothing in use a
free chunk does, since it has no free neighbours (`UnusedArea`). `FreeAllInternal` builds the areas one by one in any order, with a claim for each position of the order (`AreasCleared`).

The theorems assume `NoShortTails`: no request equals `areaMore` or is smaller by less than `MinSize`. Without it a new area is cut into a chunk and a tail that has no room for a header,
which `AllocPool_tails` shows to violate `Consolidated`; the split of an old chunk is guarded in the code, the split of a new area is not. The sizes in the run `pool` satisfy
the assumption, with requests above, equal to (in the first area) and well below the area. `BinsAssumption` asks that `PerOctave` divides `SmallBins`; 64 and 8 in the code do.

Only model-checked: liveness (`ImplementsQueue` beyond its safety part, `EndedNodesFreed`, `CommandsEnd`), since
TLAPS does not reason about fairness here. All other properties of the passing runs are theorems, some under the
assumptions on clients and sizes that the table names.

## 7. Not modelled

Unit generators other than what they do to nodes, audio drivers and sample clocks, sockets, the
loading of plugins and definition files, the compiler and the bulk of the interpreter in `Source/lang`, the class
library, and the editors: signal processing, input and output, straight-line code over data, or
a language too large for a model. The unit generators alone are most of the lines of the
repository; they compute samples on the real-time thread, with no state that is shared with another
thread. The exception is `DiskIO_UGens.cpp`, whose units hand halves of a buffer to a thread that reads and
writes files (see the plan).

Of the modelled components: controls, maps and unit commands among the node commands; wires and unit
initialisation in the block calculation; the commands that only read or print; sample offsets; in the
collector what section 3 lists. `Reinit` of the pool is `FreeAll` and the constructor.

## 8. Plan

Done: the FIFOs, the node tree and its commands, the block calculation, the sequenced commands with
buffers and wake-up, the scheduler of bundles, definitions and hash table, the pool, the collector.

Next, in this order:

1. `Notifications`: node ends and triggers through their FIFOs to the list that `/notify` keeps.
2. `PyrSched.cpp`: the clocks of the language on the heap of `EventQueue`, the thread that waits for the next
   event, and what `clear` does to it.
3. The set of node IDs in `NodeLinks` as an instance of `HashTable`.
4. `DiskIO_UGens.cpp`: the halves of a buffer that `DiskIn` and `DiskOut` share with their thread.
5. The memory of completion messages in `SequencedCommands`.

# The OpenHT host interface, specified and checked

OpenHT (Convey Hybrid Threading) lets a C++ application on a host call *units*
of a coprocessor.  Its runtime library, `src/ht_lib/host`, carries calls, data
and messages between the application and each unit through host memory,
without locks between the two sides.  On the coprocessor the other end is
hardware, which the generator HTL (`src/src/htl`) prints.  This directory
holds TLA+ modules for the library and for that hardware, TLC configurations
that check them on small instances, and TLAPS proofs of what holds for every
size.

## 1. Inventory

### 1.1 The system's parts

| part | source | state | operations | what makes it correct |
|---|---|---|---|---|
| Host side of a unit, `CHtUnitLib` | `HtHifLib.cpp/.h` | block being filled (`m_inBlkIdx`, `m_inBlkWrIdx`), credit (`m_inBlkAvailCnt`), spin lock `m_inLock`, message queue `m_outMsgQue`, block being read (`m_outBlkIdx`, `m_outBlkRdIdx`, `m_outBlkDataSize`), `m_recvRtnArgc` | `SendCall`, `RecvReturn`, `SendHostMsg`, `RecvHostMsg`, `SendHostData`, `RecvHostData`, `PeekHostData`, `SendHostDataMarker`, `RecvHostDataMarker`, `FlushHostData`, `RecvPoll`, `SendHostHalt`, `HaltLoop`, `InBlkTimer` | everything sent arrives once and in order; no block is lost or used twice; no assert fails; everybody who waits is served |
| Coprocessor side, `CHtModelUnitLib` | `HtModelLib.cpp/.h` | the mirror image, plus block addresses that come as messages, `m_bHaltSeen` | the mirror image: `RecvCall`, `SendReturn`, ... | the same |
| Control queues and blocks | memory set up by `CHtHifMem` | two rings of 64-bit slots with a valid bit; two sets of blocks per unit | write a slot, clear a slot, `memcpy` | a slot is written only when clear, a block only with credit for it |
| Library object of the host, `CHtHifLib` | `HtHifLib.cpp`, `HtHif.cpp/.h` | units, `m_bCoprocBusy`, `m_bHaltSent`, the threads | set-up, `AllocUnit`, `FreeUnit`, dispatch, destructor | each unit has one user; deleting the library ends |
| Library object of the coprocessor, `CHtModelHifLib` | `HtModelLib.cpp` | `m_pHaltSeen`, `m_bTimerStarted`, `m_bTimerFinished` | `AllocUnit`, `StartTimer`, destructor | one timer thread, which ends before the object does |
| `CQueue` | `HtPlatform.h` | ring, two indices, an atomic count | `Push(N)`, `Pop(N)`, `Front(N)`, `Size`, `Space` | a bounded FIFO between two threads |
| SystemC memory types | `sysc/HtMemTypes.h` | clocked queues and RAMs | `push`, `pop`, `clock` | a FIFO with delayed status |
| SystemC memory model | `sysc/SyscMemLib.cpp` | lists of requests | issue, reorder, respond | requests that conflict stay in order |
| `CPersHif`, the unit's link in hardware | printed by `GenHifFiles.cpp` | four state machines (`r_iCtlState`, `r_oCtlState`, `r_iBlkState`, `r_oBlkState`), credits, fetch buffers, a line of words to be written, pending counts | the registers' `switch`es; memory requests and their answers | as the library, though the memory answers in any order; the reset of an idle unit loses nothing |
| `CPersHti`, calls and data for the modules | printed by `GenHtiFiles.cpp` | a call and a return state machine, queues, `r_callActiveCnt` | take an item, start a call, give out a return, answer the halt | no queue overflows; the halt is the last thing sent |
| barrier of a module | printed by `GenModBar.cpp` | lists of threads, counts, a controller where the module is replicated | `HtBarrier`, count, release, resume | whole groups go, every thread of them once |
| HTL itself, HTFE, HTV, HTC, Vex | `src/src` | parse trees | read a design, print a design | translation |

The components of `PROJECT.json` list the rest: platform files, applications,
tests, and tools around them.

### 1.2 How the two sides interact

The sender of a direction fills the blocks of that direction in turn.  It
hands a block over by writing a `BLK_RDY` message to the control queue; the
low three bits of the message say whether the block is data, an (empty) data
marker, an (empty) call followed by a block of arguments, or an (empty) halt.
The receiver gives the block back with a `BLK_AVL` message on the *other*
control queue.  User messages travel in the control queue itself.  The host
writes the parameters (addresses and sizes) and one `BLK_AVL` per out block
into the control queue before the coprocessor starts.

A unit in hardware does the same by memory requests: it polls the slots of its
control queue, fetches the lines of a block into buffers, writes the words of
its modules into a block by words or lines, and announces a block when every
write of it has been answered (on platforms that post writes: when a read of
each memory controller that followed them has been answered, too).

Four threads touch one unit of the software model: the two application threads, the host timer and
the coprocessor timer.  On each side a spin lock serialises the application
and the timer; between the sides there is nothing but the valid bit of a slot.

### 1.3 What is hard

* A timer can flush the block an application is filling, at any moment the
  lock is free - also in the middle of a call, in the window in which
  `SendDataInternal`, `SendCall`, ... drop the lock to take credits in.
* `SendMsgInternal` waits for its slot **with the lock held**.
* Credits are spread over counters, queues and messages on the way; a credit
  is counted before its slot is cleared.
* A call is two messages, and the receiver may see one without the other.
* Shutdown is a handshake of halts that must get through although there may
  be no credit and both applications have left things unread.
* `CQueue` updates its count after its indices, without a lock.
* In hardware nothing waits in place: four machines go on side by side, their
  requests are answered in any order, and only counts tell what is still out.
* A credit for a queue is taken by one machine and given back by another, in
  several states of it.
* The reset of an idle unit is triggered by a condition over a few registers
  and clears all of them.
* Between the controller of a replicated barrier and its copies lie some
  clocks, in which threads go on entering.

The hazards of `PROJECT.json` list these at their lines, each with the
properties that would catch it.

## 2. Modules

| module | models |
|---|---|
| `HifCommon` | messages, control queues, blocks, `memcpy`, and the *log* of what the applications sent and received |
| `HtHifUnit` | the host side: one action per critical section or waiting point of each call, the host timer, the steps of `~CHtHifLib` for one unit |
| `HtModelUnit` | the coprocessor side in the same way, with the parameters, the answer to the halt, and the end of `HtCoprocModel` |
| `HifLink` | the composition of the two, `Spec`, `FairSpec`, and the properties of a state |
| `HifChannel` | what one direction promises: a FIFO channel of items |
| `HifOrder` | the refinement mappings from `HifLink` to two channels, and liveness |
| `HtHifLib` | the host's library object: pool of units, dispatch, host timer thread, destructor |
| `HtModelHifLib` | the coprocessor's library object: worker threads, timer threads, destructor |
| `HifUnits` | the two library objects together, over several units |
| `BoundedFifo` | what a bounded queue promises |
| `CQueue` | the lock-free ring, step by step, and the mapping to `BoundedFifo` |
| `PersHif` | `CPersHif`: one action per `case` of its four state machines, the answers of the memory, the reset |
| `PersHti` | `CPersHti`, and the unit's modules as it sees them |
| `PersUnit` | the two with the host at the other end; the properties |
| `Barrier` | what a barrier promises |
| `HtBarrier`, `MCBarrier` | the barrier HTL prints, of one copy and of several with a controller, and the mapping to `Barrier`; its instances |
| `HifCommonProofs`, `HtHifUnitProofs`, `HtModelUnitProofs` | the proofs about the two sides of the link |
| `HifCreditProofs` | the proofs about the link: types, locks, streams and credit |
| `HifUnitsProofs` | the proofs about the library objects |
| `CQueueProofs` | the proofs about the ring |
| `PersUnitProofs` | the proofs about the hardware: outbound queues, blocks, memory requests, the halt and the reset |
| `PersOrderProofs` | the proofs that the hardware hands on the inbound items in order, that the queues to HTI have room, and of the types |

### 2.1 State

The variables have the source's names where only one side has them
(`inBlkAvailCnt` is `m_inBlkAvailCnt`); an index both sides keep for
themselves gets an `h` or an `m` in front (`hInBlkIdx`, `mInBlkIdx`).  Added to
the code's state are:

* `hPc`, `hThen`, `hOp`, `hN` (and `m...`): where the thread is inside a call,
  where it goes when it has written its messages, which call, and how much is
  still to be moved;
* `inPend` (`outPend`): the messages the lock holder has decided on but not
  written yet, since it may have to wait for a slot before each of them;
* `inSent`, `inRcvd`, `outSent`, `outRcvd`: the log.  It is written, and read
  only to give each word sent a value of its own.

A control queue is the sequence of its valid slots, at most `CtlQueSize` of
them: the writer's next slot is clear exactly when fewer than `CtlQueSize` are
valid, since both sides go round the ring in turn.

### 2.2 Actions

Each side's fields are touched only by its lock holder or only by its
application thread, so a critical section is one action up to the point where
it waits.  A call goes through these places (`hPc`):

    idle -> lock -> write ... -> idle                   a sending call
            lock -> (write) -> que ... -> relock -> ... without credit for it
            lock -> data -> write -> data ...           SendHostData
    idle -> que ... -> look -> idle                     a receiving call
                       look -> next -> write -> idle    ... that took a block
                       look -> copy -> next ...         RecvHostData

`que` is the loop of `QueOutMsgs`, one message a step, with a place `clear`
between counting a credit and clearing its slot; `look` is the rest of
`MsgLoop` with the caller's use of what it returns; `next` is `NextOutBlk`
waiting for the lock; `write` is `SendMsgInternal` waiting for a slot.  The
coprocessor side has the same places, and `halted`.

Abstractions, all on the data side: a word is the number of its place in the
stream (so a lost, repeated or swapped word is visible); the four parameter
messages in front of the credits and the one or two behind them are one
message `PARAM`; the debug-only `HT_AVL_TEST` code, the monitor's counters and
the printed deadlock warning are left out; `PeekHostData` is `RecvPoll` as far
as state goes.  `ASSERT` messages, which only hardware writes, are left out.

### 2.3 Several units

`HtHifLib` and `HtModelHifLib` are about what units share: the pool and its
lock, the memory regions, the flags by which the destructors learn that
threads have ended, and the threads themselves.  What a unit carries is in the
modules above; here a unit is a number, and of all messages only the
parameters (`params`: written by the constructor, wiped by clearing the
region) and the halt (`halts`) are left.

`aPc` says where an application thread is in a call of the library:

    lock -> scan ... -> reuse                          AllocUnit
                     -> init -> clear -> build -> publish -> take
    next -> (init -> clear -> build -> publish) -> send or halt -> next
                                                       SendAllHostMsg, ~CHtHifLib
    lock -> memory -> clear -> dispatch                StartCoproc
    ... -> wait -> timer -> deleted                    ~CHtHifLib

Each place is one look at, or one change of, what another thread may change:
the lock, an entry of `m_ppHtUnits`, `m_bFree`, `m_bCleared`.  `StartTimer` is
two steps, as its test and its assignment are not under a lock (`wPc`).  A
coprocessor timer thread is named after the worker that started it.  `built`,
`asked`, `full` are a log, which no guard reads.  Of the regions that
`InitHifMemory` clears only the control queues matter here.  The threads share
one heap (`HT_MODEL`); a thread that reads deleted memory goes on with the
values it had - the properties say that there is none.

### 2.4 The unit in hardware

HTL prints the same `CPersHif` and `CPersHti` for every design, but for
constants and for what the host call takes and returns; the modules are written from the
printed text (`fprintf(hifFile, ...)`).  The variables have the names of the
registers without `r_`.

The printed code is one clocked function: every register is read as the clock
before left it, and all machines step in one clock.  In the model a step of one
machine is an action.  That is faithful because a machine that has to wait -
for the timer of a poll, its turn at the memory port, the wire delay of a credit -
is one whose step comes later; a clock is then some of these steps, one after
another, and what two machines decide in one clock from the same old state they
can also decide in sequence: each variable that decides a step is written by
one machine, or counts up for one and down for the other.  Where two of them
*do* meet in one clock and it matters (`OcmWrite` chooses the next message in
the clock that sends one) the action does both.  So:

* timers, poll intervals and the round robin of the memory port are "any time";
* the wires to CPersHti are collapsed into its queues; what the code does about
  their delay, the margin of three credits in `IbkPush`, is kept;
* a memory request is an element of a set (`iCtlWr`, `oCtlWr`, `wrReqs`,
  `fetch[i].pend`, `rdPend`) until it is answered, in any order.  A read is
  answered with what is in memory then.  A posted write (`FlshEn`) is answered
  before it is in memory (`posted`), a read of the same controller comes after it;
* a block's write requests carry `tid`, the lowest bit of its index, by which the code
  counts them; so a count can be another block's, and `BlkWritten` sees that;
* at 240 outstanding writes (`WrPendFull`) the machine waits: left out, as
  waiting is.

`HifInit` is the state with the parameters read; the reading loop is not
modelled.  `CallIdleHalt` has `iCtlQue = <<>>` as a guard: a user message is
taken in every clock of that state, and one sent before the halt is in the
queue long before the halt's block has been handed on.  `HTI_IDLE` has no case for a data
marker, so that one before the first call or word is never taken;
`HostSpecial` does not send it.  The assertion message of the hardware
(`htaToHif_assert`) and its `assert`s are left out, but for the `ht_assert` of
the queue of items: once that is pushed when it is full (`DatQueFits` fails) the
model stops, as the program does.

The modules of the unit are the user's.  They take a call, send words, markers
and messages while they work on one, and return; HTI makes no other assumption.
The host is a short version of `HtHifUnit`, with one action per message, since
what its threads do to each other is the subject of `HifLink`.

### 2.5 Barriers

`HtBarrier` has the text of `GenModBar.cpp` for a module of one copy
(`EnterCounted`) and of several (`EnterTold`, `CtlCount`, `TakeRelease`,
`DoRelease`) and for any number of indices of a barrier; which design it is, is
`replCnt`, chosen at the start.  A list is what the code makes it: `rlsHead`
for each barrier and `rlsList`, one link per thread for all barriers.
Registers between two stages are collapsed; the wires between a copy and the
controller are queues.  `InitCnt`, the clocks after a reset that clear the
flags, are over in `Init`.  A module with one thread (`htIdW` = 0) needs no
list and is not modelled, nor is the instruction a thread resumes at.

In the mapping to `Barrier` a thread is *inside* while it is in the list of an
active barrier that has no release on its way to this copy, and *out* once its
list is to be resumed.

## 3. Properties and runs

Words, blocks and queues are small in every run: two blocks of two words each
way, so both indices wrap, credit runs out, and a block can be empty, partly
filled or full.  Control queues have 3 to 5 slots.  With two blocks each way,
a queue of 5 holds the parameters and everything the blocks can bring; 3, the
smallest that holds what the constructor writes, fills.  `MaxIn` and `MaxOut`
bound the items sent in a run (`HifData`: 5 words are more than the two blocks
together; `HifDelete`: 3 items, each of which can take a block of its own);
`MaxQw` the size of one call (3 words are more than a block).  `HostOps` and
`ModelOps` choose the calls the applications make; within them any order and
any interleaving is explored.

| run | calls | shows |
|---|---|---|
| `HifData` | host sends data, markers, messages, flushes on a queue of 3 slots; timer on | `TypeOK`, `LockDiscipline`, `CreditConserved`, `FlushHasCredit`, `InImplementsChannel` |
| `HifCall` | calls, data, returns | `InImplementsChannel`, `OutImplementsChannel`, `ReceiveAsserts`; `SlotWhenNeeded`: with a slot for every block and no user messages, nobody ever waits with a lock held |
| `HifDelete` | the coprocessor sends data, markers, returns, messages, flushes, timer on; the host receives, and deletes the library at any moment | `OutImplementsChannel`, `CreditConserved`: the halts cross, `HaltLoop` gives back what it discards |
| `HifLive` | data both ways, both timers, deletion; fairness | `InDelivered`, `OutDelivered`, `DeleteReturns` |
| `UnitsPool` | 3 units, 2 threads that allocate and free, before, while and after `StartCoproc` | `TypeOK`, `OneUser`, `AllocFailsOnlyWhenInUse`, `SetUpOnce`, `StartsZeroed` |
| `UnitsDelete` | deletion of 2 units in any state, a worker for each, both timers; fairness | `HostDeleteSafe`, `SoleTimerDeleteSafe`, `DeleteReturns` |
| `CQueue` | ring of 4 slots | `TypeOK`, `NeverOverReports`, `CountSettles`, `ImplementsFifo` |
| `PersIn` | words and markers from the host to the hardware, word by word | `QueuesFit`, `InBlocksConserved`, `InArrivesInOrder` |
| `PersOut` | a call; its modules send two words or messages and return; blocks closed by the timer | `TypeOK`, `NoConflict`, `OutBlocksConserved`, `IdleIsQuiet`, `NothingAfterHalt`, `OutQueueSafe`, `OutArrivesInOrder` |
| `PersLive` | a call with an argument, or messages; a return of two words; requests for lines, writes posted, no timer; fairness | `InArrivesInOrder`, `OutArrivesInOrder`, `UnitStops` |
| `BarThreads` | two barriers, in one copy with four threads and in two copies with a controller; fairness | `ImplementsBarrier` |
| `BarEarly` | a replicated barrier that takes two of four threads; violation | `ReleasesWholeGroups` fails |

* `InImplementsChannel`, `OutImplementsChannel` are the refinement: the items
  in the receiver's message queue, the control queue and `inPend`, with the
  blocks they hand over, followed by the block being filled, are a channel;
  every step is a send at its end, a receipt at its front, or invisible.
* `CreditConserved` counts every block in exactly one place: credit, `RDY` on
  the way, being given back, `AVL` on the way.
* `ReceiveAsserts` collects the receive path's assertions and what they
  silently rely on: the argument block follows its call and has its size, a
  block being read is the one at the front and the read index is in it.
* `FlushHasCredit` is the assertion of `NextInBlk` on the flush path, where
  the code does not look at the credit before.
* `NeverOverReports`: a thread between two calls never gets more room or more
  items from the lagging count than there are.

* `OneUser` relates the code's flags to who really has a unit: `FreeUnit` sets
  `m_bFree` without the lock, `AllocUnit` tests and resets it under the lock.
  Three units and two threads: one unit in use can be passed over, one freed
  behind the loop's back, one not constructed yet.  All share a
  region (in `UnitsDelete` each has its own); one NUMA set, so that
  `StartCoproc` comes late and all units are candidates.
* `AllocFailsOnlyWhenInUse` compares the end of the loop with who had the units
  when the lock was taken; units freed since may be missed.
* `SetUpOnce`: the memory of a control queue is cleared by whoever comes first,
  and never under parameters that are already there.
* `HostDeleteSafe`, `SoleTimerDeleteSafe`: the busy-waits on three flags imply that
  the threads they stand for have stopped.  `ModelDeleteSafe` alone fails with a
  worker for each unit, the default of `HtModel.h`: two of them can start a timer
  (3.2).  `SoleTimerDeleteSafe` says that nothing else can go wrong: as long as
  not more than one timer was started, it has ended when the object is deleted,
  whichever worker started it and however late.
* `NoConflict`: two requests the memory may reorder never touch the same
  address, which is what `CSyscMem::CheckMemReqOrdering` reports.
* `IdleIsQuiet`: where `c_idle` triggers the reset, everything it does not look at is at
  rest as well, so that nothing is lost with it.
* `InBlocksConserved`, `OutBlocksConserved`: as `CreditConserved`, with the
  states and flags of the hardware as places.  Each is checked until the reset
  (`busy`), which throws the counts away.
* `NothingAfterHalt`: returns, data and the halt go through three machines, and still
  the halt is last.
* `OutQueueSafe`: the `ht_assert`s of the outbound queues.
* `QueuesFit`: those of the inbound ones.  The one for items does fail (3.2), so
  `QueuesFit` says what it takes: three blocks without data in a row.  Two, however
  the words before them used the credit, always find room.
* `ImplementsBarrier`: every step of lists, counts and controller is an
  entry, the release of exactly `releaseCnt` threads, a resumption, or
  invisible, and all that are released are resumed.

The instances of the hardware are as small as let everything happen.  In
`PersIn` a line is two words and a block three lines, so that the two fetch
buffers wrap within a block and the next fetch waits for a buffer to empty;
four entries to HTI, of which the margin of 3 leaves words two; two blocks, so
that indices wrap; five items, so that two words and three markers can meet in
the queue.  In the others a block is a line of two words.  In `PersOut`
it is written word by word, and the timer may close it partly filled: the two words are in
one block, and their writes are answered in any order, or in two, and the write of each is
out and counted beside that of the other.  In `PersLive` a request is for a line, and the
writes are posted: answered before they are in memory, which they are only once the two
controllers have been read.  Words of different blocks never meet there, as a block is flushed before
the next is begun.  Markers of the modules are in no run; they take the path of a return.
`PersIn` and `PersLive` have some hundred thousand states, `PersOut` has two million.
`MaxRls` = 2 of `HtBarrier` is more than a barrier whose threads must
all come can be behind.

Each property is checked against at least one mutant of the code (a dropped
flush, a stale size, a missing lock, an index that is not masked, ...), listed
in `PROJECT.json`; the mutants are the operators with an underscore in their
name, before the definition they replace.

### 3.1 Fairness

`FairSpec` assumes weak fairness of a thread inside a library call, of both
timer threads and of the loops of `~CHtHifLib`: they are threads that run.  It
assumes strong fairness of each receiving call an application uses: the
applications poll, as every example does, and a call can only begin between
two others.  In `HifUnits` it is weak fairness of each thread of the two
libraries, and of the return of a worker once its units are halted.  No application has to send or delete.  Locks are spin locks
without a queue, so weak fairness of the holder is all that is used.

In `PersUnit` everything but the modules' sending and the host's sending is
hardware that is clocked, a memory that answers, modules that finish, and a
host that reads; each has a fairness of its own.  The model states the weaker
`WF_vars(Work)`: as long as any of them has work, some work is done.  A poll
that finds nothing is not work, and a run has only finitely much of the rest, so
that nobody's work is put off for ever; it is also much cheaper to check
than one condition for each machine.  In `HtBarrier` each condition is looked at
in every clock: weak fairness of each action but entering.  `BarThreads` and
`BarEarly` do not check for deadlock, as a program may stop with threads at a barrier
that never fills.

### 3.2 Where the code and its documents differ

* `BarEarly`.  The guide says how many threads have to enter a barrier before
  all are released, from two up to the threads of all copies, and that it can
  be reused at once.  A release sent by the controller takes the whole list of a
  copy as it is when it arrives; a thread that enters in between, with the next
  group, is let go with it.  With as many users as the barrier takes there is
  no such thread, and `BarThreads` shows that all is well.

Six more are not among the runs; each is reproduced by the configuration
named, with `tlc -config <name>.cfg` on `HifLink` (the first two), `PersUnit` (the
last) or `HifUnits`, which reports a violation.

* `HifMsgFull.cfg`, `SendHostMsgReturns`.  The guide says `SendHostMsg` returns false when
  the queue is full.  It is declared `void`, and waits for a slot in
  `SendMsgInternal` with the lock held and without looking at its own queue;
  when both queues are full of messages, both sides wait for ever.
* `HifHaltMarker.cfg`, `HaltLoopHandles`.  `HaltLoop`, which discards what is left when the library
  is deleted, handles data, returns and messages; a data marker runs into its
  `default: assert(0)`.
* `UnitsTimerRace.cfg`, `ModelDeleteSafe`.  By default (`HT_MODEL_UNIT_THREADS`,
  `HtModel.h:14-16`) each unit is served by a thread of its own.  Two of them read their parameters, find `m_bTimerStarted`
  false and start a timer thread each; when the first has ended,
  `~CHtModelHifLib` deletes what the second still reads.  No document says
  anything about it; the comparison is with what a destructor may do.
* `UnitsSendFirst.cfg`, `AllocFailsOnlyWhenInUse`.  `SendAllHostMsg` constructs the units nobody has allocated,
  neither free nor anybody's; `AllocUnit` then returns 0, which
  `CHtUnitBase` stores as its unit.
* `UnitsCallback.cfg`, `CallbackOnlyIfAsked`.  `AllocUnit` does not reset `m_bUsingCallback` of a unit it
  hands on; a class without callbacks ends in `CHtUnitBase::RecvCallback`,
  an `assert(0)`.
* `PersMarkers.cfg`, `DatQueFits`.  `ht_dist_que` asserts that it is not pushed when it is full
  (`HtMemTypes.h:93`).  `CPersHif` pushes words to HTI while there are three credits, but
  markers, calls and the halt (`special block`, `GenHifFiles.cpp:2301`) without a look at
  them.  When words have used what they may, and HTI takes nothing, the third of them finds
  the queue full.  It takes three in a row; with fewer there is room (`QueuesFit`, 4.6).
  Where the text is built for hardware the macro is empty and the queue is pushed
  all the same; what it holds then is not modelled.

## 4. Proofs

The first part of `HifCreditProofs` proves, for all values of the constants that satisfy
`ParamAssumption` and any set of calls:

* `TypeCorrect`: `Spec => []TypeOK`.  Indices stay in their rings and blocks;
  `inBlkAvailCnt` and `outBlkAvailCnt`, which the code only ever decrements
  under an `assert`, stay natural numbers.
* `LocksCorrect`: `Spec => []LockDiscipline`.
* `FlushCorrect`: `Spec => []FlushHasCredit`.

None of the three is inductive alone: that the subtraction in a flush stays
natural needs the credit of a partly filled block, which needs the lock (a
timer must not hand over a block while the application is between its
decisions), which needs to know where the holder goes after its last message.
Together with the types they are: `IInv == SharedTypeOK /\ HostInv /\ ModelInv`.

The argument is modular.  `HtHifUnitProofs` shows that each host step keeps
`HostInv` and the types of what is shared, and that it only ever *appends* to
`ctlIn` (`HostOnlyAppends`).  `HtModelUnitProofs` does the same for the
coprocessor.  The only fact a side keeps about the other side's queue is its
front message, which an append leaves alone (`HeadOfAppend`); so the other
side's steps keep it too (`OtherSideKeepsHost`, `OtherSideKeepsModel`), and
`NextIInv` follows by cases.

`ParamAssumption` is weaker than the constructor's range checks except that a
call's arguments are smaller than a block.

### 4.1 The ring

`CQueueProofs` proves, for every ring of at least two slots and a count that
wraps beyond four times the size of the ring:

* `FifoCorrect`: `Spec => ImplementsFifo`, the ring is a bounded FIFO;
* `CountSafe`, `CountExact`, `TypeCorrect`: the three invariants of the run.

The inductive invariant says what each thread knows although it holds no
lock.  `ProducerInv`: there is room for what is not stored yet - the consumer
can only make more.  `ConsumerInv`: what it has read are the first items of
the ring - the producer stores in none of their slots.  `CountInv`: the count
is the number of items held, plus what the consumer has taken without counting
it (`cLag`), minus what the producer has put in without counting it (`pLag`),
wrapped.  Both lags are less than the ring, so the sign of `Size` is not lost
in the wrap (`SizeIs`), and `Size` errs for each thread on its safe side.  In
the refinement the producer's index step is `Put` (`AdvanceWrPuts`), the
consumer's is `Take` (`AdvanceRdTakes`), and all others, the store into a slot
not yet in the ring included, are invisible (`OthersStutter`).

### 4.2 Streams and credit of the link

The rest of `HifCreditProofs` builds on `IInv` and proves, for the same constants:

* `CreditCorrect`: `Spec => []CreditConserved`;
* `ReceiveCorrect`: `Spec => []ReceiveAsserts`;
* `SlotCorrect`: `Spec => []SlotWhenNeeded`, where
  `CtlQueSize > InBlkCnt + OutBlkCnt` and neither application sends user
  messages.

The first two need each other: that a call's arguments are next in the queue
depends on the whole stream, and that a block given back is one that was
handed over depends on its being at the front.  The *stream* of a direction is
the receiver's message queue, the control queue and the messages the sender
has decided on (`InStream`, `OutStream`).  `Flow` says of it that a call or
return with arguments is followed by its block (`Paired`), that blocks have a
size that fits what they are (`Sized`), and, of the message being
read, where the reader is in it (`HostFlow`, `ModelFlow`).  `FlowInv` is
`IInv /\ Flow /\ CreditConserved`.  Messages are counted by lemmas on `Count`
over `Append`, `Tail` and concatenation; every step then has one of few effects on
streams and credit - nothing, a section that decides on messages, a write, a
credit counted, its slot cleared, a message or a block taken - stated as
`HQuiet`, `HSection`, `HPut`, ... and `M...` for the coprocessor, and the invariant is
shown for the effects, once for both directions.

The two hypotheses of `SlotCorrect` are what the code gives and what it needs.  The
constructor makes a control queue of at least 512 slots and at most 64 blocks
of a direction.  User messages share the queue and have no credit: with them
the queue does fill, which is the disagreement `HifMsgFull` of 3.2.

### 4.3 The library objects

`HifUnitsProofs` proves, for any number of units, NUMA sets, engines and
threads, with or without timers (`PoolAssumption`, `ModelPoolAssumption`):

* `TypeCorrect`, `OneUserCorrect`, `StartsZeroedCorrect`, `HostDeleteCorrect`,
  each as `Spec => []` of the property of that name;
* `ModelDeleteCorrect`: `Spec => []SoleTimerDeleteSafe`, with any workers;
* `SetUpOnceCorrect`, where `SendAllHostMsg` is not used or there is one thread;
* `AllocFailsCorrect`, where `SendAllHostMsg` is not used.

The hypotheses of the last two exclude known cases: `SendAllHostMsg` beside
`AllocUnit` (section 5), and `UnitsSendFirst` of 3.2.  `SoleTimer` in
`SoleTimerDeleteSafe` is a condition on the state, not on the constants: it
excludes the behaviours of `UnitsTimerRace` and no configuration of the library.

`TypeInv` has the types and, for each place of a thread, what the code before
it has established (`Control`).  `LockInv`: who is between `lock` and its
release is the holder.  `PoolInv`: a unit the holder has chosen is neither
free nor anybody's, though other threads go on freeing theirs without the lock; so
`take` makes it its own.  `StartInv` follows `m_bCleared` through set-up.
`EndInv` and `TimerInv` say what the flags the destructors wait for tell of the
threads that set them: a flag is set by the last step of a thread, and
without a dispatch, or a timer, there is no thread to wait for.  `TimerInv` needs
no hypothesis: it speaks of what the flags imply for *a* timer, and
`ModelDeleteCorrect` then takes it that there is no other.  `OneConstructs` and
`SetUpInv`: nobody else constructs a unit between the test of an entry and its
assignment, or clears the memory of its engine.  `ScanInv`: a search that
started when a unit was not in use has one still ahead of it.

### 4.4 The hardware

`PersUnitProofs` proves the following for every depth of queue, size of block
and line, number of blocks, slots, fetch buffers and controllers, with 8- or
64-byte writes, posted or not, every host and every module.  The assumptions
are the sizes: natural numbers, at least two where an index wraps, a block of
whole lines (`PersAssumption`, `HtiAssumption`, `UnitAssumption`).

* `OutQueueCorrect`: `Spec => []OutQueueSafe`.
* `InBlocksCorrect`, `OutBlocksCorrect`: no block is lost until the reset.
* `NoConflictCorrect`: no requests that conflict are out together.
* `NothingAfterHaltCorrect`: the halt is the last item sent.
* `IdleIsQuietCorrect`: the reset finds everything at rest.

**Queues.**  `OutQueueSafe` is not inductive: that a state may pop what an
earlier one looked at needs what each state of the machine knows of the two
queues.  `OutInv` says it: `Gathered` (less than a line waits in `oBlkWrDat`,
but for the states that write it, and those have something to write),
`ClosedFor` (a block without a word is being closed for an item that is still
at the front), `OutCredit`, and the types.  Only the block machine, HTI's
pushes and the reset touch any of this (`ObkKeeps`, `HtiKeeps`, `IdleKeeps`);
the others leave `outPart` alone (`OthersKeep`, `HostKeeps`).

**Blocks.**  `InRing` and `OutRing` say of each ring of control messages that
at most one slot is being cleared or written, the one before the index of the
hardware, and that a message is, or is not, where the machine stands.  With
them `BlkInv` keeps the two sums, and that each term is a natural number.  A
step takes from one term of a sum what it adds to another; how the number of
messages of a kind changes with one slot is a lemma on the cardinality of a
filtered set.

**Requests.**  The writes with the `tid` of the block being filled are of that
block, and of words before the next one (`OwnWrites`); no two overlap
(`Apart`); and where writes are posted, each is still to be passed by a read
of its controller (`Flushing`).  `NoConflict` follows with `OutRing` and
`InRing`.

**The halt.**  `InOrder` says that what has not been taken from the ring lies in
one piece before the next slot of the host.  On it `HaltInv` follows the
inbound halt: in the ring it is the last message but for blocks given back
(`LastInRing`), then the last block announced (`LastBlock`), then the last
item for HTI (`LastToHti`), and when HTI has it nothing is to come
(`NothingToCome`).  `Calls` ties the count of active calls to threads and
returns, and `OutEnds` puts the outbound halt behind all of them.
`OwnReqs` (a request is of the block being filled or the one to be
announced) and `LastSent` (no credit and no message is left behind the halt's
announcement) then give `IdleIsQuiet`.  `OutEnds`, `Calls`, `OwnReqs` and
`LastSent` were run through TLC on the instances of `PersIn` and `PersOut` before
they were proved.

After the reset no credit is asked for any more, but what is popped still is.

### 4.5 The inbound items of the hardware

`PersOrderProofs` proves `InArrivesInOrderCorrect`: `Spec => InArrivesInOrder`.
For the same constants as in 4.4, what the modules get from HTI is what the
host has sent, in that order, each item once: with `inSent` and `inRcvd` as the
two histories the hardware implements `HifChannel`.

On the way a word is in a block of the host, in one of the fetch buffers, and
in the queue to HTI, and it gets from one to the next by indices and counts that
are kept by different machines; the memory answers the requests for it in any
order, and the slots, blocks and buffers are used again.  `InFlow`, the
inductive invariant, says where each item is:

* `Delivered`: what HTI has had (`Handed` items, its queue included) is a prefix of
  `inSent`.
* `Coming(X)`: the items after the `X`-th are in the blocks announced.  The blocks get numbers
  `T..H-1` in the order they are handed over (`Sizes`); `InQue` says of those in
  `iBlkRdyQue`, and `InSlots` of those in the ring, that the message is of
  that block and that the block's words are the items it stands for (`Carries`).
  `InSlots` has the slots in the order of their numbers, by their distance from the reader.
* `InBlock(X)`: the items up to the `X`-th are in the block being read.  `InUse`
  says which of the fetch buffers are, `Starts` where in the block the line of each
  begins, and `Contents` that each word of a buffer is the word of the block at
  that place, or is still requested.

Each is quantified over numberings the code does not keep; so `InFlow` is proved without a run
of TLC on it, while `InArrivesInOrder` itself is a property of two runs.
The block machine moves items from `Coming` to `InBlock` when it takes a message
(`ComingNext`, `Begins`) and from there to `Delivered` word by word
(`InBlockPush`); the reader of the control queue moves messages from the ring
to the queue (`ComingTaken`); the host puts a block behind all others
(`ComingPut`).  That no block is overwritten while it is read is
`InSum` of `BlkInv`: the block of a message, and the one being read, are among
those the host has no credit for.  `FlowInvariance` is `Spec => []InFlow`.
In the refinement the host's action is `Send` (`SentMore`), a pop of HTI is
`Receive` (`RcvdMore`), and all else is invisible.

### 4.6 The queues to HTI, and the types

`QueuesFitCorrect` and `TypeCorrect` of `PersOrderProofs` prove `QueuesFit` and
`TypeOK` of `PersUnit` for the constants of 4.4, every host and every module.
`PersAssumption` has the depth of the queues between 4 and 63: it is 32, words
need a margin of three, and the credit is a register of six bits.

`CtlCredit` is the credit for user messages; a slot of the ring is read only when
there is one.  For items, `DatCredit` is the invariant.  Credit and entries add up to
the queue's size as long as the queue fits; one entry more and the credit is 63, its wrap.
And a *word* in the queue is never in the last two entries: it was pushed with three
credits, which put it at most there, and from then on the words before it only become fewer.
So when a push finds the queue full the last two entries are blocks without words,
and so is what is pushed (a word has its credits): the last three items handed to HTI.
That these are three items next to one another in what the host *sent* is `Delivered`
of 4.5, which turns the contents of the queue into `ThreeInARow`.

For `TypeOK` most is in the invariants before: indices and messages in
`BlkInv` and `WrInv`, counts of blocks in its sums, the words requested for a
buffer in `InFlow` (`FetchFits` counts them).  `RegInvariance` adds what is left:
that a block being filled has room for the word or the line written next (`Room`),
that only a block being read has words to be read (`ReadOnly`), and that the credit
of HTI stays in its bounds when the unit has stopped, as nobody gives or takes any (`Stopped`).

### 4.7 What is left to the runs

* The refinements `InImplementsChannel`, `OutImplementsChannel` of the link and
  `OutArrivesInOrder` of the hardware.  `FlowInv` and `OutInv` know the order of
  messages and blocks; that the words are the right ones needs the contents of
  each block, and for the link a fold over the stream.
* `ImplementsBarrier`, which follows linked lists of threads.
* Liveness (`InDelivered`, `OutDelivered`, `DeleteReturns`, `UnitStops`), which TLAPS
  cannot prove under fairness, as it has no `ENABLED`.

## 5. What is not modelled

* Callbacks (`RecvCallback`): `MsgLoop` calls the application instead of
  returning; the application then makes the same receiving calls.
* The coprocessor's use of a unit before the parameters have been read (its
  block pointers are null; the applications poll first), and an application
  that lets go of the library before the halt (`~CHtModelHifLib` asserts).
* The traffic of several units at once: units share no queue and no block, so
  the link is about one, `HifUnits` about what they share.  A deletion while
  another thread is still in a call of the library, or two threads in
  `SendAllHostMsg` and `AllocUnit` (`SetUpOnce` would fail: only one of them
  takes the lock; the guide does not promise it).
* The monitor thread (debugging), `FreeAllUnits`, `AllocAllUnits`.
* Weak memory order: `CQueue` and the valid bits rely on stores being seen in
  order, as on x86.
* Of the hardware: reading the parameters, `WrPendFull`, assertion messages,
  messages between modules, several calls of different modules, and a release
  queue of a barrier that overflows (`RlsIdQue` has 32 entries).  Also the rest of what HTL
  prints - global variables, memory interface, streams, messages and calls
  between modules - which depends on the design it is printed for.
* The translators themselves (HTL, HTFE, HTV, HTC, Vex: most of the
  repository's lines).  They are sequential programs that read a file and print another; what
  could be said of them is the meaning of what they print, which is what 2.4 and 2.5 do for a part.
* The SystemC library and the applications (see the notes of the components).

## 6. Plan

Done: both sides of a unit, their link, its refinement; `CQueue`; the library
objects over several units; the unit's link in hardware; barriers.  The
safety invariants of the passing runs are all proved.  Next, in this order:

1. `OutArrivesInOrder`, whose `WrInv` knows the requests but not yet their words.
2. `InImplementsChannel` and `OutImplementsChannel`, from `FlowInv` and the
   contents of the blocks of a stream.
3. `ImplementsBarrier`, with the lists as sets of threads.
4. `CtlQue`: a control queue as its ring of slots with valid bits and two
   private indices, refining the sequence used here.
5. `HtSyscQueue`: `ht_dist_que` and `ht_block_que` against a FIFO.
6. `SyscMem`: the memory model's reordering and its ordering check.

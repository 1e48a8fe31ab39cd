# A verification of ApraLinuxUtils

ApraLinuxUtils is a C++ library for embedded Linux boards: worker threads with
message queues, I2C transactions and periodic I2C events on top of them, PWM
channels, GPIO lines and USB storage. This directory holds TLA+ modules of the
parts of it that keep state, TLC configurations that check them on small
instances, and proofs, checked by TLAPS, that the most important properties
hold for every value of the constants.

    tlc -workers 2 -config ThreadRequests.cfg MCProcessThread    # one run
    tlapm ProcessThreadProofs.tla                                # one module's proofs

Paths such as `ProcessThread.cpp:204` are relative to `src/utils`,
`src/controllers`, `src/models`, `includes` or `examples` of the repository.
`PROJECT.json` maps every definition to the lines it models.

## 1. Inventory

| Component | State | Operations | Interacts with | What is hard |
|---|---|---|---|---|
| Worker threads: `ProcessThread`, `Message`, `Mutex`, `ScopeLock` | two queues of `Message*`, two locks, `m_shouldIquit`, `m_typeofThread`, a pthread; the messages on the heap | `setType`, `begin`, `end`, `enque`, `dequeue`; the worker's `mainLoop`, `someFunction`, `enqueResponse`, `trimQueue` | any number of clients; the subclass's `process`, which may throw | interleaving, who owns and deletes a message, full queues, stop and restart |
| I2C transactions: `I2C_Interface::process`, `I2C_Bus`, `I2C_Transaction_Message`, `I2C_Message` | the descriptor, `m_setupSuccess`, `m_processLock`; the transaction that is performed | `process`, `processMessage`, `processI2CTransaction`, `performRead/Write/CompareRead`, `reSetupI2CBus` | it is a `ProcessThread`; another thread may reset the bus; the kernel | retries, partial failure, a reset between two attempts |
| I2C events | `m_registeredEvents`, `m_processedEvents`, `m_lastProcessedEventTs` | `registerEvent`, `unregisterEvent`, `processEvents`, `processSingleEvent`, `performTransactionDelay` | callbacks; runs between and inside transactions | re-entrance, stale copies of the map, periods |
| PWM channels: `PWM` | three numbers, two flags; the kernel's four files | `setup`, `destroy`, `start`, `stop`, `updateDutyCycle`, `changeDutyCycle` | sysfs | any write may fail; a process that dies leaves the channel as it is |
| USB storage: `StorageUSB` | `m_state`, device node, partition node, mount point | `insertCheck`, `mountDevice`, `isUnsafeEject`, `ejectDevice` | lsblk, udev, mount, umount2, udisksctl; the user; the automounter; the monitor of the example | the stick comes, goes and is mounted between any two commands; sequences of calls |
| GPIO lines: `GPIO` | `m_fd`, `m_isRead`; the process's descriptors; the kernel's lines | `Init`, `Init4EdgeInterrupt`, `Open`, `Read`, `ReadWithInterrupt`, `Write`, `Close`, `UnInit`, `ReadOnce`, `WriteOnce` | sysfs; other objects and threads, through the lines and the descriptor numbers | stale and reused descriptors, static calls on a line in use, failing system calls |
| Conversions: `Utils`, `RealHexParser`, `Range` | none that outlives a call | `extractBytes`, `combineBytes`, `extractTo8Bytes`, `mergefrom8Bytes`, fixed-point conversions, ranges | | widths of integers, loop counters, order of bytes |
| Errors, values, `FileIO`, `ScopeFunction`, macros, tests, mocks, build files, documentation | none | | | |

What makes each modelled component correct:

- **Worker threads.** A queue never exceeds its bound, keeps its order, loses
  only what a full queue has to lose; a message has one owner at a time, is
  deleted once and not used afterwards; a running worker of the right type
  serves what it is sent, a waiting client is answered, `end()` returns.
- **I2C transactions.** A message is tried exactly as often as its
  `m_retryCount` says; the error of an answer is true; what is not dropped is
  answered; a reset of the bus does not fall into an attempt.
- **I2C events.** An event is performed once in a period, again and again, and
  not long after it was unregistered; calls do not nest without bound.
- **PWM.** An object that takes itself for running or set up is, and a call
  that returns true has done what it says, whatever the kernel refuses; a failed
  setup cleans up. While disables and enables are taken, a channel that runs is
  known to run, its output is driven without a glitch, and a destroyed one is quiet.
- **USB.** The object knows whether it has a device, reports a stick as mounted
  only with a path at which it was seen, and leaves that report alone until the
  stick is lost or ejected; ejecting unmounts where only the system mounts; a
  monitor finds the stick and tries to mount it.
- **I2C requests in batches.** `process` of an `I2C_Interface` takes the whole
  request queue: still every request has one owner, is answered in order and is
  lost only for want of a bus.
- **GPIO.** Open objects never share a descriptor, none leaks, and no call reads
  or sets another line than the one it was asked for, whatever other threads do.
- **Conversions.** A result stands for its argument as exactly as its width
  allows, there and back; bytes keep their order; loops end.

The hazards behind these properties are in `PROJECT.json` (`hazards`), each at
its line and with the properties that would catch it. Some are what the code does
in any case (a result that is forgotten, a failure that is not seen): there no
property can hold that denies them, and their entry says so and names none.

## 2. Modules

| Module | What it is |
|---|---|
| `ProcessThread` | the worker, its clients and its owner |
| `Mailbox` | the abstract specification of a queue, which both queues refine |
| `ProcessThreadProofs` | proofs: types, bounds, life and ownership of messages, both queues refine `Mailbox` |
| `PWM`, `PWMProofs` | one PWM channel; proofs about any kernel, and about one that takes what it can of the writes to `enable` |
| `Channel` | what may happen to a running output, which `PWM` implements |
| `StorageUSB`, `StorageUSBProofs` | one USB stick, the programs that use it, and the proofs |
| `Watch` | a stick as a careful program sees it, which `StorageUSB` implements |
| `I2CTransaction`, `I2CTransactionProofs` | one request at a time, against resets; and its proofs |
| `Exchange` | a request, its messages and its answer, which `I2CTransaction` implements |
| `I2CThread`, `I2CThreadProofs` | `ProcessThread` with the `process` of `I2C_Interface`, the two composed; and their proofs |
| `I2CEvents`, `I2CEventsProofs` | the registered events and the stack of calls, and their proofs |
| `GPIO`, `GPIOProofs` | GPIO objects on shared lines and descriptors, and their proofs |
| `Conversions`, `ConversionsProofs` | the loops of `Utils` and `RealHexParser`, and their proofs |
| `MC...` | the instances TLC checks |

Four small modules say what a component promises to those who use it, without
its locks, commands, retries and failures: `Mailbox`, `Channel`, `Watch` and
`Exchange`. Each is instantiated at the end of the module that implements it
(`RequestMailbox`, `Output`, `Watched`, `Promise`), where the refinement mapping
is written down; that the module does implement it is a property of a run and a theorem.

An operator named `Bug...` is a mistake one could make in the definition that
follows it. Nothing uses it; it is there to show, by replacing the definition,
that the properties notice that mistake.

### ProcessThread

The processes are the owner (`SetType`, `Begin`, `EndSignal`, `EndJoin`), any
number of clients and the worker. A step of the model is what happens between
two points where another thread can interfere: `enque` is `EnqueTrim` (the lock
is taken, `trimQueue`) and `EnquePush` (push, unlock), and the worker's round is
`WorkerCheck`, `WorkerSwitch`, `WorkerPop`, `WorkerProcess`, perhaps
`RespondTrim` and `RespondPush`, `WorkerGetType`. A queue holds pointers, and
`heap` tells for each object whether it is live, so that using a deleted
message is visible. `item` is `someFunction`'s local variable; `getType()` of a
deleted message may return anything.

What a subclass and its clients do with messages is a matter of convention, of
which the constants choose one: `ProcessKind` (`process` marks the message, or
deletes it, or marks it and hands a `REQUEST_RESPONSE` to `enqueResponse`) and `ClientKind` (the client forgets
a message, or keeps it and polls `isProcessed` as the compute example does, with or
without a timeout, or deletes what it dequeues at once or only after `end`).
`MayThrow` lets `process` throw.

### PWM

A call is a sequence of writes to sysfs and a step is one write, which may
succeed or be refused: `Setup` starts the call and `pc` names the next write.
`exported`, `enabled`, `hwPeriod` and `hwDuty` are what the kernel holds;
`faults`, chosen once per behaviour, says what may go wrong in it: to which of the
files a write may be refused that the kernel could carry out, whether directories
come and go late, whether the process may die, and whether clients ask for more than
the period. So one run covers every combination, and a property can say which it
needs. `Crash` replaces the object by a new one and leaves the kernel as it is.
`dutyTaken` is history: whether the call that last set the duty cycle returned true.

### StorageUSB

`InsertCheck` and `isUnsafeEject` run one command and are one step each. `mountDevice` and
`ejectDevice` run several and are one step per command: `MountDevice`,
`FindPartition`, `LookUp` with `skipMount`; else `CheckMounted`, `UnMount` (`umount2`,
and `udisksctl unmount` if that fails), `MountWithPrivilege`, `MountWithoutPrivilege`
and `LookAgain`, the `lsblk` that reads where `udisksctl` has mounted it; `ejectDevice`,
`EjectUnMount` (`umount2`, then `udisksctl`) and `Ejected`. Between any two of them the user plugs and
pulls, and the system mounts what nobody has mounted (`AutoMount`) and cleans up
after a pulled stick (`CleanUp`).

A stick is absent, supported, foreign (a file system outside `m_supportedTypes`) or
blank. `mounts` is the set of paths at which its partition is mounted: `mount(2)` after a
mount of the system's adds a second one. `stale` is where pulled sticks are still
mounted. `umount2` takes away a mount at `m_mountPoint` and no other, be it the stick's or a
stale one; `udisksctl` takes away some of the stick's.

`program` says who calls: *any* program, which calls anything at any time; a *careful* one,
which calls `mountDevice` only for a device it was told of and has not mounted, as the
examples do; or the *monitor*, `continuousMonitoringExample`: a round of its loop
(`MonitorRound`) calls `insertCheck`, then `mountDevice` if that has found a device which was
not there before (`MonitorMount`), and after the signal it ejects what is mounted (`MonitorStop`). The monitor's
constructor has `skipMount` false. `silent` is whether an unmount tool may fail without
printing "error", the only sign of failure that the code looks for.

### I2CTransaction

`Process` takes a request, `StartMessage` begins a message, `Attempt` is one pass
of the `do` loop of `performRead`, `performWrite` or `performCompareRead` (the lock
is held from the start to the end of the pass, so it is one step), `Answer` is
`setError` and `enqueResponse`. `ResetClose`, `ResetFlag`, `ResetOpen` are the three
steps of `reSetupI2CBus`, which holds the same lock throughout. The bytes are
reduced to what decides the control: an error, data equal to `m_compareData`, or
different; a comparison with data of another length is always different.
`Settles` copies the code's conditions, the one of `READ_COMPARE_NOT_EQUAL`
included, which stops when the data are *equal*.

### I2CThread

Extends `ProcessThread` and keeps all of its owner, clients and queues
(`ElsewhereStep`), and of the worker all but `process(item)`: `ProcessDrop` or
`ProcessFirst`, `RespondFirst` (after which `item` is both the worker's and in the
response queue), `Drain` under `m_requestLock`, and `BatchNext`, `BatchTrim`,
`BatchPush` for each request of the local queue; then `ProcessReturn`, which is
`item->getType()`. `tx` is `processMessage`'s argument, which it reads once more after
it has responded. `ReSetup` is all that this module has of `reSetupI2CBus`, and a
transaction is its answer: what happens inside is in `I2CTransaction`.

### I2CEvents

`process`, `processEvents`, transactions that idle (`performTransactionDelay`) and
`processSingleEvent` call each other; `stack` is the thread's stack of these
calls. `due` says whether `m_frequSec` has passed since `m_lastProcessedEventTs`.
A transaction is reduced to its delays. `size_t` subtraction is modelled as it
is: with more processed than registered events the difference is `Many`.
Registering and unregistering may happen between any two steps; the events in
the copies of the map stay there.

### GPIO

`todo[o]` is the rest of the call that object `o` is in, as a sequence of steps; a
step is one system call that others can see, and any of them may fail. `files` is
the process's descriptor table. `Open` may get any free number, as other threads'
files come and go; the descriptors that `Export`, `SetDirection` and `UnExport`
open and close themselves are left out, and so are the levels of the lines. A
value file is dead once its line was unexported. `Once` is the local object of
`ReadOnce` and `WriteOnce`; its call is `OnceSteps`. `Careful` is whether the
program uses an object's descriptor only between `Open` and `Close`: the class
leaves the number in `m_fd` after `Close` and does not check it. `misled` collects the
objects, `Once` among them, that have read or set another line than the one they were
asked for.

### Conversions

One action is one iteration of a loop. A real is an integer number of `1 / 2^Scale`:
all the doubles in these loops are exact, so nothing is lost by it. `Call` is a
function with its arguments; `convertToU12p4`, `convertTo10p6` and `convertToUFormat`
differ in the number of digits only, `toHex` in the width as well. `ConvertBack` is the
program that calls the inverse function on a result. A real outside the range of
the integer type is undefined behaviour in C++ and not an input. Neither is a format of
more than 30 digits (`MaxFormat`): `convertFromUFormat` does not check its format, and its `1 << format` is
undefined from 31 on (`Utils.cpp:368`); the 17 digits (`MaxDigits`) are `RealHexParser`'s alone.

## 3. Runs

Every run explores all reachable states of its instance; no run has a state
constraint. The bounds that are in the guards are `MaxBegins`, the number of
messages (each object is used once), `MaxResets`, `MaxMessages`, `MaxIdles` and
`MaxDepth`.

| Run | Instance | What it shows |
|---|---|---|
| `ThreadRequests` | 2 clients, 4 messages of both types, limit 1, all thread types, 2 starts; the worker answers one type and deletes the other | `QueueBounded`, `NoDangling`, `SingleOwner`, `NoLeak`, `LossOnlyWhenFull`; each of the two queues is a `Mailbox` |
| `ThreadLifecycle` | polling clients, exceptions, restarts | `RequestServed`, `WaiterAnswered`, `EndReturns` |
| `I2CRequests` | 2 clients, 4 requests, limit 1, 2 starts, any number of resets | `BatchPointersLive`, `BatchSingleOwner`, `LeaksOnlyDropped`, `BatchKeepsOrder`; the response queue is a `Mailbox` |
| `PWMCalls` | 2 periods, 4 duty cycles, 3 percentages; the largest sets of faults that each property's condition allows | the seven properties of `PWM`, among them that it drives its output as `Channel` allows (`GlitchFree`) |
| `USBPolling` | every mode of program, mount and tool; 2 nodes, 3 paths | `NodeKnown`, `EjectUnmounts`, `MonitorMounts`; the object keeps to `Watch` (`WatchesStick`) |
| `I2CTransactions` | up to 2 messages of each type, 0 or 1 retries, 2 resets | `GivesUpLate`, `AttemptsSeeSettledBus`, `RequestAnswered`; a request is an `Exchange` (`KeepsPromise`) |
| `I2CEventLoop` | 3 events, 2 delays per request | `NestingBounded`, `OncePerPeriod`, `LateOnce`, `EventsServed` |
| `GPIOLines` | 1 object and `Once`, 2 lines, descriptors 0 to 2 | `DescriptorsApart`, `NoDescriptorLeak`, `AnswersOwnLine` |
| `Conversions` | types of 6 and 12 bits, a counter of 3 bits, words of 4 one-bit bytes, up to 7 digits, formats up to 8 | `FixedPointExact`, `BytesInOrder`, `LoopsEnd` |
| `ThreadCompute`, `USBMount`, `I2CEventIdles` | the smallest that show it | the disagreements of section 6 |

**Why the bounds are enough.** *Threads*: with limit 1 a queue is full at two
messages, so four messages fill it, trim it and leave one to come afterwards;
two clients suffice to race for the lock and to be answered in the wrong order;
two starts give a restart with messages left over. *PWM*: two periods and duty
cycles of nothing, half, all and more of them distinguish every comparison the
kernel makes. *USB*: no count is
bounded, the state space is finite; two nodes let a stick come back as another, and with
the manual path two of the system's let a stick have three mounts, or a mount where another has
left one. *I2C
transactions*: one message that fails and another before or after it are all
the cases that the handling of errors distinguishes, and the proofs below lift
this to any number; two resets let one fail and another repair it. *I2C
events*: three handles allow one event to be performed, one to be waiting and
one to be unregistered; without idling events `NestingBounded` shows that the
stack never gets near `MaxDepth` 6, so this bound is never used there.
*I2C requests*: with limit 1 the queue, and so a batch, can have two requests, one more
than the limit, so that a batch trims the answer to the worker's own item.
*GPIO*: three descriptors are one more than the objects, so that a leaked one
still leaves numbers to reuse; the proofs lift this to any numbers.
*Conversions*: the widths stand in the proportions of the real ones (a short half
of a long, a fraction one digit longer than a short, formats longer than that, a counter that fails at the first
array it cannot count), and every argument of these types occurs, but for the
reals, which are those about 0, an overflowing shift and the largest integer.

`CHECK_DEADLOCK FALSE` stands where the system may stop: the thread runs end
when all messages are used and the owner has stopped the worker for the last
time, and in `Conversions` a conversion ends. `ThreadRequests` and `I2CRequests`
use symmetry of clients and messages; they check no liveness.

### Fairness

Fairness is assumed where a scheduler or a program's own loop gives it, and of
nobody who is free not to call.

- *Threads*: weak fairness of the worker, of a client inside `enque` or in its
  polling loop, and of the join. Locks are free again and again, but a
  client's lock is released by a step that is itself fair; weak fairness of
  the acquisition is enough in these instances because the clients have
  finitely many messages. `Begin`, `SetType`, `end()`, `NewMessage` and
  `dequeue` carry none.
- *I2C transactions*: weak fairness of the worker's steps and of a reset that
  has begun. A request whose message waits for the lock is served because
  resets are finite (`MaxResets`); a thread that resets without pause could
  starve the worker, as a pthread mutex promises no order.
- *I2C events*: the loop of `ProcessThread` calls `process` again and again (weak),
  functions go on (weak), time passes (weak), and a delay is over at last
  (strong: the loop in it could go on for ever only if time stood still).
- *USB*: weak fairness of the next command of a call that is under way (`MountStep`, `EjectStep`) and
  of the monitor's next call (`MonitorRound`, `MonitorMount`), which its loop
  (`usb_storage_example.cpp:241`) makes until it is stopped. That loop calls `mountDevice` once per
  insertion and `isUnsafeEject` never, so no other call has fairness; nor has the signal,
  the user or the system.
- *Conversions*: a loop that can go on does (weak).
- *PWM*, `I2CThread` and *GPIO* have no liveness property and no fairness.

### What the runs found to need a condition

A property that holds only under a condition says so, and each condition is a
statement about the code: `AttemptsSeeSettledBus` needs `m_shouldPrint`, since
`openBus` reports its failure only then (`I2CBus.cpp:54`); `NodeKnown` needs a careful
program, since `mountDevice` without a device leaves a state in which nobody looks
for one any more, and `WatchesStick` needs one, since `mountDevice` of a mounted stick can move
it away from the path that was reported; `EjectUnmounts` needs unmount tools that say "error",
`skipMount`, since without it `mount(2)` may have added a mount to the system's, of which
`ejectDevice` takes away one only (`StorageUSB.cpp:403`), and no leftover of a pulled stick at the same path,
since `umount2` takes that one for the stick's; `EnabledIsKnown`, `DestroyQuiesces` and `GlitchFree`
need a kernel that takes what it can of the writes to `enable` and a process that lives (`EnableTaken`): a
`start` that is refused on a running channel makes the object forget that it runs (`PWM.cpp:144`), and
`destroy` forgets the failure of `stop` and unexports the channel while it runs (`PWM.cpp:132`); the
other four properties of `PWM` hold whatever `enable` refuses, and `FailedSetupCleansUp` needs no
more than that the write to `unexport` is taken and seen in time; `OncePerPeriod` needs events that do
not idle; `BatchPointersLive` needs clients that keep what they dequeue, since `process` goes
on reading a request that it has answered, and excepts a batch longer than the limit,
whose answers push out and delete the worker's own item before its `getType()`;
the properties of GPIO need `Careful` programs, and `NoDescriptorLeak` excepts the two leaks of the code (`GPIO.cpp:199`, and `GPIO.cpp:207` if the
standard input is closed); `RequestAnswered` is about requests that were not dropped, since
`process` drops what it finds during a reset.

## 4. Proofs

All proofs are complete. They assume the named assumptions on the constants
(`BoundsAssumption`, `LimitAssumption`, ...) and nothing else, and hold for every
number of clients, messages, retries, resets, periods and so on.

| Theorem | Statement | Argument |
|---|---|---|
| `ProcessThreadProofs!Invariance` | `Spec => []IInv` | see below |
| `... TypeCorrect`, `QueuesBounded` | `[]TypeOK`, `[]QueueBounded` | from `IInv` |
| `... RequestQueueRefinesMailbox` | the request queue implements `Mailbox` | step simulation, from `IInv` |
| `... ResponseQueueRefinesMailbox` | the response queue does, if `Disciplined` | step simulation, from `IInv` and `OwnInv` |
| `... Ownership`, `NothingDangles`, `OneOwner`, `LostOnlyWhenFull`, `NothingLeaks` | `Disciplined => (Spec => ...)`, the last if `~ MayThrow` | see below |
| `PWMProofs!Invariance`, `NeverAhead`, `SetupMeansReady` | `[]IInv`, `[]RunningIsReal`, `[]SetupIsReal` | the properties with `SetupReady` and `Busy` |
| `... DutyIsTrue`, `FailureCleansUp` | `[]DutyIsReal`, whatever is refused; `FailedSetupCleansUp`, if `unexport` is taken and seen in time | see below |
| `... Quiet`, `NothingRunsUnknown`, `DestroyedMeansQuiet` | `[]QuietInv`, `[]EnabledIsKnown`, `DestroyQuiesces`, each of them under `EnableTaken` | see below |
| `... NoGlitch`, `ImplementsChannel` | `GlitchFree`, which is under `EnableTaken`; `EnableTaken => Output!Spec` | step simulation, from `QuietInv` |
| `StorageUSBProofs!Invariance`, `CarefulKnows`, `PathOfMounted`, `EjectedIsUnmounted` | `[]IInv`, `[]NodeKnown`, `[]MountedHasPath`, `EjectUnmounts` | the properties with `PlaceInv`, `MonitorInv` and `OneMount` |
| `... MountsAreKept`, `ImplementsWatch` | `WatchesStick`; `Careful => Watched!Spec` | step simulation, from `IInv` |
| `I2CEventsProofs!Invariance`, `NestingIsBounded`, `PerformedOnce` | `IdleHandles = {} => (Spec => ...)` of `[]IInv`, `[]NestingBounded`, `[]OncePerPeriod` | see below |
| `... OnceMoreAtMost` | `[]LateOnce` | from `IInv` |
| `I2CThreadProofs!BatchInvariance`, `BatchNothingDangles`, `BatchOneOwner`, `NothingElseLeaks`, `OrderKept` | `ClientKind = "defer" => (ISpec => ...)` of `[]WholeInv`, `[]BatchPointersLive`, `[]BatchSingleOwner`, `[]LeaksOnlyDropped`, `BatchKeepsOrder` | see below |
| `... ResponsesImplementMailbox` | the response queue implements `Mailbox` | step simulation, from `WholeInv` |
| `GPIOProofs!Invariance`, `NoSharedDescriptor`, `OnlyForgottenLeak`, `NobodyMisled` | `[]IInv`, `[]DescriptorsApart`, `[]NoDescriptorLeak`, `[]AnswersOwnLine` | see below |
| `I2CTransactionProofs!Invariance`, `RetriesAreUsed`, `AnswersAreTrue`, `ResetsAreAtomic` | `[]IInv`, `[]GivesUpLate`, `[]AnswerIsTrue`, `AttemptsSeeSettledBus` | see below |
| `... ImplementsExchange` | `KeepsPromise`: a request implements `Exchange` | step simulation, from `IInv` |
| `... WorkDescends` | each step of the worker answers the request or leaves less to do | a lexicographic measure, from `IInv` |
| `ConversionsProofs!LoopInvariance`, `FixedPoint`, `Bytes` | `[]IInv`, `[]FixedPointExact`, `[]BytesInOrder` | one invariant per loop, see below |
| `... LoopsDescend`, `WideArraysNeverEnd` | an iteration leaves fewer, if the counter can count them; otherwise the loop never ends | from `IInv` |

**Queues.** `QueueBounded` is not inductive: between `trimQueue` and `push` the queue
has room only because of who holds the lock. `RequestLockInv` and `ResponseLockInv` say that
a lock is held exactly between the two, by one thread, and `RoomInv` that its holder has made
room. `CoreInv` is `IInv` without `ResponseLockInv`, the one part that a subclass which calls
`enqueResponse` in another place does not keep. For the refinement a sender that has trimmed the queue and holds the lock
counts as having put its message: `EnqueTrim` is `Mailbox!Put`, `EnquePush` is a
stutter, `WorkerPop` is `Take`. That nothing enters twice needs `FreshInv`: a
message about to be enqueued is in no queue and in no other client's hands. An answer is the
worker's own item; that it is not in the response queue already is a matter of ownership (`ItemInv`).

**Ownership.** Messages are safe only if worker and clients agree on who
deletes what. `Disciplined` names the two agreements under which they are: the
clients send and forget `REQUEST_ONLY` messages, which the worker deletes; or they
send both types, the worker answers `REQUEST_RESPONSE` messages and deletes the
others, and the clients delete the answers after `end()`. `OwnInv` is then inductive (relative to `IInv`): everything that is still
used is live (`LiveInv`), queues, hands and messages on their way are disjoint
(`ApartInv`), and the worker's item is its own until it has responded (`ItemInv`). `OwnCore` is `OwnInv`
without `ItemLive`, that the item is alive up to `getType()`.
The delicate point is between `enqueResponse` and `getType`, where the item is both
the worker's and already in the response queue, or in a client's hands: this is why the
second discipline waits for `end()`. Other disciplines do fail, see section 6.
Two more facts are invariant under it: that someone is responsible for every live
message (`KeptInv`, if `process` does not throw, which would lose the item), and that
what left the request queue without being trimmed was processed (`DoneInv`); they give
`NothingLeaks` and `LostOnlyWhenFull`.

**I2C requests in batches.** `I2CThreadProofs` reuses the lemmas about the clients, the owner and
the worker's own loop, which rest on `CoreInv` and `OwnCore` only, and adds what `process` changes.
`EitherLockInv` is `ResponseLockInv` with two places instead of one; `BatchInv` says that the requests of the batch are alive and
nobody else has them (`Alone`), `DropInv` the same of those that were dropped; `TxInv`, that the request whose delay is
still to be read is in the response queue or a client's hands; `HeldInv`, that somebody is responsible for every live message that was not dropped.
`ItemLive` cannot be kept: the answers to a batch can push the answer to the worker's item out of the response queue. `BehindInv` counts how many
messages can be behind it (those behind it now and the rest of the batch are at most `taken`), so that it goes only if
`taken > m_queueSizeLimit`, the exception in `BatchPointersLive`. For the order, responses, the request in hand, the
batch and the request queue are one line (`BatchLine`): a step moves the border between two parts of it, takes messages
out of it (`Within`) or adds one behind it, and a line without duplicates (`LineFacts`) cannot be reversed by that. With clients
that delete at once, `TxInv` and with it the theorems fail: `tx` is then gone when its delay is read.

**PWM.** `SetupIsReal` is about an object whose setup is complete; during `setup` the
same must be carried from the write of the period to that of the duty cycle
(`SetupReady`), and `Busy` excludes the calls that could interfere. `DutyIsReal` needs to look at every
write, since a duty cycle that was taken must survive those that are refused afterwards. What depends on the
writes to `enable` rests on `QuietInv`: while they are taken, the `stop` at the head of `setup` and
`destroy` succeeds, because a running channel is exported and a disable is always carried
out, so that neither gets to its later writes, or to `UnExport`, with the channel running, whatever the
other files refuse. The same facts make every write a step of `Channel`, or no step of it: the proof looks at the
writes one by one (`WriteDrives`, `ToggleDrives`, `StagesDrive`, `CallsDrive`).
That a failed `setup` cleans up needs less and also holds of what a crash left behind.

**USB.** `NodeKnown` and `WatchesStick` speak of the state between calls but must
survive a `mountDevice` that takes several steps; `PlaceInv` carries through it
what was known when it began. In `Watch` each of its commands is an attempt to mount, which
may set a path but reports nothing, unless it finds the stick mounted; that the stick is
not reported as mounted already, and may be attempted, is `PlaceInv`. `MonitorInv` makes the monitor a careful program:
its `devicePresent` says whether the object has a node, so that it mounts only what `insertCheck` has just found.
`EjectUnmounts` rests on `OneMount`: with `skipMount` a stick has at most one mount, so that the one that `umount2` or
`udisksctl` takes away is the last.

**I2C events.** The functions call each other, but without events that idle only a
request does so: `Shape` lists the four stacks that are left, with `processEvents` only ever
alone. `PeriodInv` says that what was performed in this period is in `m_processedEvents`, or about to
enter it (`mark`), or has been passed by the loop of `processEvents`; `OverInv`, that
`m_processedEvents` is shorter than the map as long as something has been performed and the
period is not over, so that it is not cleared too early; this counts a list against a set, and is where the map
may change under the loop. `LateInv` says that what is still to be performed has not been
performed since it was unregistered.

**I2C transactions.** `CountInv` ties `attempts + retryCount` to `m_retryCount` while a message is
performed, `ErrorInv` says whose error `transactionError` is, and `StopInv` what a
failure has skipped: with `m_stopOnAnyTransactionFailure` everything after it is
untouched, otherwise everything before `messageIndex` was performed. The refinement counts a message as
performed when its last attempt was made, so that starts, retries and resets are stutters of `Exchange`. `WorkDescends`
is the part of `RequestAnswered` that is about single steps: messages left, then starts, then attempts left
descend, and resets are bounded; that the worker is scheduled and gets the lock is left to TLC.

**Conversions.** The provers know nothing of powers, so a power of two is the number of subsets
of a set (`PowerType`, `PowerSum`), and lemmas about division with remainder follow. There is one
invariant for each loop, which says what it has computed after `i` iterations: the digits of the fraction before the `i`-th are
in the result and the others in `value` (`ToInv`), the real is that of the digits read so far (`FromInv`), the bytes moved so
far are those of the number (`BytesInv`, `CombineInv`). `BackInv` ties the second conversion to the
first. At the end of the loop they are `FixedPointExact` and `BytesInOrder`, for every width. `LoopsEnd` excepts one
case, a `combineBytes` of more bytes than its `unsigned char` counter can count: `WideArraysNeverEnd` shows that nothing
is excepted that would end after all, and `LoopsDescend` that every other loop gets nearer to its end with each iteration.

**GPIO.** The three properties are nearly inductive together: that open objects have
descriptors of their own keeps one from closing or redirecting another's, and that every
number in use has an owner lets `Open` take a free one. That nobody is misled follows from the first
only for objects that are open when they read or write: `OnceInv` says that the object of
`ReadOnce` and `WriteOnce` keeps to the discipline by itself (its descriptor is open from `Open`
to `Close`), `PollInv` that an object is still open
when its poll has succeeded, and `TodoInv` lists the steps that can be left of a call.

**Only model-checked.** The liveness properties: `RequestServed`, `WaiterAnswered`, `EndReturns`,
`RequestAnswered`, `EventsServed`, `MonitorMounts`, `LoopsEnd`. Liveness under fairness is beyond the
prover used here. Of `RequestAnswered` and `LoopsEnd` what a step does is proved for all values
(`WorkDescends`, `LoopsDescend`), and TLC checks, on small ones, that fairness makes the steps happen. Every other
property of a passing run is also a theorem, under conditions on clients and programs that the theorem or the property states.

## 5. Not modelled, and why

- **GPIO**: the levels of the lines and which edge is set; that `ReadWithInterrupt` hands its
  microseconds to `poll` as milliseconds (`GPIO.cpp:278`); that `Close` returns the inverse
  of its success (`GPIO.cpp:94`); what a caller does with the reference that
  `GetGPIODescriptor` returns; programs that use one object in two threads.
  `gpio_example.cpp` calls `SetValue`, `GetValue` and `WaitForEdge`, which the class does not
  have, and `test_gpio.cpp` tests a mock.
- **Conversions**: `Utils`' wrappers of `popen`, `stat`, `mkdir` and directories, which keep nothing;
  `trim`, `inRange`, `caseInsensitiveSearch`, single expressions of the library;
  `Range`, whose `operator=` copies the bounds but not `m_isReversed` (`Range.cpp:29`), which nothing
  in the library reads. The byte functions' null pointers, for which they do nothing.
- **Threads**: `setFPS` and the pacing sleep, which only delay the worker
  (asynchrony covers every delay); `begin` called twice and `end` before `begin`
  (no client of the repository does so). The races on `m_shouldIquit`, `m_typeofThread` are
  modelled as atomic reads of the latest value.
- **I2C**: the bytes, sizes and their conversion, among them `setSize`'s truncation to eight
  bits; `writeOnce` and `readOnce`; `m_error` that a re-enqueued transaction
  would still carry; the 64-bit arithmetic of delays; builds for other processors, where
  `I2C_Bus` does nothing. Events and transactions are not composed in one module:
  `I2CThread` has the requests, `I2CEvents` the events between them.
- **PWM**: overflow of `period * percent` in 64 bits; the 10 ms pauses; the
  constructor's check for the chip's directory.
- **USB**: parsing, sizes and the choice among several partitions; `m_retryCount`,
  whose branch cannot be reached; several sticks at once, and several partitions of one;
  `getStorageInfo`, `isDeviceNodeConnected`, which change nothing.
- **Values, FileIO, ScopeFunction**: no state outlives a call.

## 6. Disagreements

Each is shown by a run that TLC refutes, with the line it contradicts in `PROJECT.json`.

1. `ThreadCompute`: a polling client deletes its message as soon as `isProcessed`
   is set; the worker still calls `getType()` on it (`ProcessThread.cpp:187`).
2. `USBMount`: the path that `mountDevice` returns for an already mounted stick is
   not the one it was mounted at (`StorageUSB.cpp:339`).
3. `I2CEventIdles`: an event whose message idles performs itself again inside its
   own delay, once for each delay, until the stack or the delay ends
   (`I2CInterface.cpp:168`).

Read in the code, without a run of their own: a thread is `FREERUNNING` until `setType`
is called and then never looks at its queue, so that the example's logger, which never calls it,
never "Receives messages and logs them" (`threading_example.cpp:94`); `setup` of a running PWM
channel takes the success of `stop` for its failure (`PWM.cpp:64`), prints "stop failed", unexports
the channel and returns false; a batch of I2C requests longer than `m_queueSizeLimit`
deletes the worker's own item before its `getType()` is evaluated, and a request's delay is read
after the request was handed to its client (`I2CInterface.cpp:182`); `WriteOnce`
(`GPIO.cpp:257`) makes the line an input and opens it read-only, so that it never writes, and
returns true when `Init` fails (no property takes that for right or wrong); `toReal` loses the highest of 17 digits that the constructor
allows (`RealHexParser.cpp:49`); the same deletion race by a client
that times out (`threading_example.cpp:343`) and by one that dequeues a
response at once; `getDutyCyclePercent` before the first `updateDutyCycle` returns
an uninitialised value; a stick that is pulled before it was mounted is never
reported as removed, and since without `skipMount` a stick is never reported as mounted
(`isSupportedFs` stays false, `StorageUSB.cpp:165`), the monitor waits for every removal in vain
(`usb_storage_example.cpp:264`), takes the next stick for the first, and does not eject at its end
(299); a stick that the system mounts after `mountDevice` has looked (`StorageUSB.cpp:327`) gets a second mount
(403), and the first stays when `ejectDevice` reports that it has ejected; the same report
follows an `umount2` of what a pulled stick has left at the same path; the refused `start` and `stop` of section 3;
`convertFromUFormat` with a format of 31 or more is undefined (`Utils.cpp:368`);
`READ_COMPARE_NOT_EQUAL` stops on equal data; a request dequeued during a reset is
silently dropped, while `i2c_example.cpp:152` waits for its answer; events ignore
their `m_transactionDelayUsec`, which `i2c_example.cpp:187` sets for "Read every 1 second".

## 7. Plan

Done, in this order: threads (the basis of everything that is concurrent), PWM
(partial failure and crashes), USB (a changing environment), I2C transactions,
I2C events, the composition of I2C requests with the threads, GPIO (shared lines
and descriptors), the conversions; the abstract specifications `Channel`, `Watch`
and `Exchange`; and the proofs above. What is left:

1. Events and requests of `I2C_Interface` on one stack.
2. Measures like `WorkDescends` for other liveness properties, first for the
   worker of `ProcessThread`, whose queue shrinks while nobody sends.

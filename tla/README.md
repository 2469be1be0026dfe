# A TLA+ verification of open62541-compat

open62541-compat gives programs written against the UA SDK's C++ interface a
server and a client on top of the open62541 C stack. This directory holds TLA+
models of its stateful parts, TLC configurations that check them on small
instances, and proofs for TLAPS. `PROJECT.json` is the index: components, runs,
mutants, the map from definitions to source lines, findings, hazards, theorems.

Paths below are relative to the repository (`src/` there is the C++ source,
`include/` the headers, `test/src/` the tests).

## 1. Inventory

| Component | State it keeps | Operations | What it shares, and with whom |
|---|---|---|---|
| **Deferral layer** `src/async_operations.cpp` | `m_pending` (slot address to block), `m_queue`, `m_inflight`, `m_serving`, `m_closed`; per block `m_phase`, `m_result`, `m_key`, `m_self` | `establishDeferral`, `push`, `drain`, `cancel`, `shutdown`, `clearRegistry`, `setServing`; handles' `complete`, destructors; `finishCall` | Server thread, the application's worker threads and the thread that stops the server. `m_queue`, `m_inflight` and the two flags are under `m_queueMutex`, `m_phase` is atomic, `m_pending` belongs to the server thread |
| **Read, write and call callbacks** `src/nodemanagerbase.cpp:66-198` | none of their own | `unifiedRead`, `unifiedWrite`, `unifiedCall` | Called by the stack, call the application's node, hand a block to the deferral layer |
| **Server** `src/uaserver.cpp` | `m_server`, `m_asyncOperations`, `m_nodeManager`, the thread, a pointer to the application's running flag | `linkRunningFlag`, `addNodeManager`, `start`, `runThread`, `stop` | Owns the stack's server, the layer and the node manager, and takes them down |
| **Node manager and nodes** `src/nodemanagerbase.cpp`, `include/uanode.h` | `m_listNodes`, each node's referenced targets | `addNodeAndReference` and its four cases, `linkServer`, `getNode`, the destructor | The stack holds raw pointers to listed nodes as node contexts |
| **Client session** `src/uaclient/uasession.cpp` | `m_client`, `m_accessMutex` | `connect`, `disconnect`, `read`, `write`, `call`, `browse`, `serverStatus` | Any number of application threads on one session |
| **Variant** `src/uavariant.cpp` | one `UA_Variant`: type, data, length, dimensions | setters, array and matrix setters, assignment, `clear`, `changeType`, getters, shape functions, `operator==` | Sequential; the stack's allocator may fail |
| **Data value** `src/uadatavalue.cpp`, `src/opcua_basedatavariabletype.cpp` | a pointer to a `UA_DataValue`, `m_lock` | `operator=`, setters, `clone`, copy, getters | A publishing thread and the server thread |
| **Bundled stack** `extern/open62541` | waiting operations, their deadline, the slot of each answer, per response a countdown, over all a count | the Read service, time-out, cancel, sending and release of answers | Calls the callbacks; third-party, only what the layer relies on is modelled |
| **Semaphore and thread** `include/uasemaphore.h`, `include/uathread.h` | a count, a mutex and a condition; a thread and two flags | `wait`, `timedWait`, `post`; `start`, `wait`, `running`, the destructors | Offered to applications; nothing in the library uses them |
| Small values, property caches, logging, schema | one C structure each | conversions | Sequential |

How they interact. `UaServer::start` creates the stack's server and the deferral
layer, lets the node manager fill the address space (`afterStartUp`), declares
the layer serving and starts a thread. That thread alternates
`UA_Server_run_iterate`, which calls `unifiedRead`, `unifiedWrite` or
`unifiedCall`, and `drain`. A node that handles its own I/O gives its work to a
thread of the application; whether the handler or that thread is first at the
block's `m_phase` decides if the answer is synchronous or goes through the queue.
`UaServer::stop` joins the thread, waits for what is in flight, and deletes the
node manager, the stack's server and the layer, in this order.

What is hard here:

* three kinds of threads around one block, with a lock that covers only part of
  the layer's state, and a registry keyed by addresses that are used again;
* operations that the stack times out or cancels while their result is under way;
* a shutdown that waits for completions that may never come;
* the order of construction and destruction of objects that hold raw pointers to
  each other, with failures in between;
* requests of several operations, some answered at once and some later, whose
  response must go out exactly when nothing is missing;
* a session and a data value that are locked in most methods and not in all;
* threads that are destroyed while they may still run, and waiters that one
  notification must not overlook;
* a C structure with four fields that a dozen setters must keep consistent,
  also when memory runs out.

What makes each part correct is stated in the modules, in the sections
"Properties", "Safety" and "Liveness"; section 3 summarises them.

## 2. Modules and their correspondence to the code

| Part | Model | Abstract specification | Theorems |
|---|---|---|---|
| Deferral layer and its callbacks | `AsyncOperations`, `AsyncService` (mapping and invariant) | `DeferredService` | `AsyncOperationsProofs` |
| Read requests across callbacks, layer and stack | `ReadRequest` | `ReadService` | `ReadRequestProofs` |
| Server, node manager, nodes | `UaServer` | | `UaServerProofs` |
| Session | `UaSession` | | `UaSessionProofs` |
| Variant | `UaVariant`, `MatrixDimensions`, `Products` (used by both) | | `UaVariantProofs`, `MatrixDimensionsProofs` |
| Data value | `UaDataValue` | `AtomicValue` | `UaDataValueProofs` |
| Semaphore and thread | `UaSemaphore`, `UaThread` | | `UaThreadProofs` |

`AsyncOperations` is the core. `UaServer` composes server, node manager and nodes
and sees the layer as one object; `AsyncOperations` in turn has the whole of
`stop()`, so that both ends of the shutdown are modelled in detail once.
`ReadRequest` composes the read callback, the layer's queue and registry and the
stack's bookkeeping; it leaves to `AsyncOperations` what happens inside one
deferral, and looks at many of them. `UaThread` composes threads with the
semaphore their `run()`s share. `UaVariant` uses the verdict whose arithmetic is
in `MatrixDimensions`, with the true product (`Products`) that the latter's loop is
compared with. `MC...` modules hold the instances for TLC.

### AsyncOperations

A *block* is one run of a handler. `stage[b]` is the server thread's place in
the handler, `completer[b]` the place of whoever holds the handle or callback,
`phase[b]` the atomic both exchange. The steps are those between which another
thread can see a difference:

| Code | Actions |
|---|---|
| `unifiedRead/Write/Call` up to the exchange | `Begin`, `AnswerSynchronously`, `RefuseCall` |
| `exchange(Deferred)` | `Defer` or `FinishInline` |
| `establishDeferral`, under the lock and after it | `CountInflight`, `Register` |
| the stack keeps the operation, cannot wait for it, or has too many waiting | `StackEnqueue`, `StackDeclines`, `StackRefuses` |
| `complete`, `finishCall` | `Store`, `Exchange`, `LockSelf`, `Push`, `UseDestroyed` |
| the stack's time-out, Cancel service, release | `Timeout`, `ClientCancel`, `Release` |
| `drain` | `DrainSwap`, `DrainFinish`, `DrainDrop` |
| `start`, `runThread`'s end, `stop` | `Start`, `LeaveLoop`, `ThreadEnds`, `CallStop`, `Close`, `ShutdownDone`, `ShutdownGivesUp`, `ClearRegistry`, `DeleteServer`, `DeleteOperations` |

`m_inflight` keeps its unsigned type: it is counted modulo `CounterSize` and
does pass below zero when a push overtakes the increment. Slot addresses are
`Keys`, fewer than blocks, so that they are reused. A handle owns its block; a
method's callback is a raw pointer (`Reachable`), which is the difference behind
the finding of `async_dangling`.

`asyncOperationTimeout` and `maxAsyncOperationQueueSize` are zero by default, which
is "no limit", and `UaServer::start` leaves them so. `TimeLimited` and `QueueLimited`
say whether the application has set them. The instances set both where it adds
behaviours: `Timeout` is not fair, so with `TimeLimited` the runs contain those of a
server without a time limit, and `StackRefuses` has no condition on how many
operations wait, so they contain those of every limit.

### ReadRequest, ReadService

The server thread is in one request at a time (`Begin`, then one `ReadOperation`
per node, then `Finish`); between requests it drains and sends.

| Code | Actions |
|---|---|
| `Service_Read`: the loop over `nodesToRead` | `Begin`, `Refuse`, `ReadUnknown`, `Finish` |
| `unifiedRead`, synchronous or completed within `beginRead` | `ReadAtOnce` |
| `unifiedRead` that defers; the stack's queue limit | `Defer` |
| `AsyncReadHandle::complete`, its destructor, `push` | `Complete` |
| `drain`, `finishDeferred`, `UA_Server_setAsyncReadResult` | `Drain` |
| time-outs, the Cancel service, the end of the server | `CheckTimeouts`, `ClientCancel`, `DeleteServer` |
| ready responses | `ProcessReady` |

A slot keeps the status, whether there is a value, whose it is, and whether there
are timestamps. Three things the code does that are easy to get wrong in a model:

* A deferred read never carries timestamps. The block takes its placeholder from
  the slot while it is still zeroed (`include/async_operations.h:72-80`), before
  the stack stamps it, so the branches of `async_operations.cpp:41-45` and `51-55`
  that keep a timestamp are never taken. `Policed` is what they come to.
* A handle dropped on a variable whose type may not be empty gives
  `BadWaitingForInitialData` when that happens within `beginRead`, and
  `BadInternalError` when it happens later: `Accepted` is applied by the stack to
  synchronous results only.
* `asyncOperationTimeout` and `maxAsyncOperationQueueSize` are zero, which is "no
  limit", unless the application sets them. `TimeLimited` and `QueueLimit` are
  constants, and no property relies on time-outs.

Each operation has a block and an address of its own here; reused addresses and
the race of a worker with its handler are in `AsyncOperations`. A session that is
closed before its response goes out is not distinguished: the response is
discarded where it would have been sent.

### UaServer

`app` is the place of the application's thread in `start` and `stop`, `thread`
that of `runThread`. `alive` is the set of allocated objects and `misuse`
collects uses of objects that are not in it; `Uses(...)` in an action names what
the code dereferences there. Every failure of `start` is there: no memory, a
wrong namespace index, an `afterStartUp` that throws, a stack that does not
start. Nodes come in six kinds; two of the instance ask for the same identifier.
Assumed of the application: `addNodeManager` before each `start`, and `stop`
between two starts. The code checks neither (see the hazards).

### UaSession

Each thread runs one method at a time. A service call is two steps, `Send` and
`Receive`: between them the stack uses the client the pointer had at `Send`.
The server answers with any status and with any number of results up to one more
than the longest request. The first use of a null or deleted client is recorded
and the model stops there, since nothing can be said of what follows.

### UaVariant, MatrixDimensions

A variant is the four fields of `UA_Variant`; `data` is null, the sentinel of an
empty array, or a block. What happens when memory runs out depends on the setter:

* most release, then allocate, so that a failure throws and leaves the variant empty
  (`Replaces`); those of strings release only if there is data (`Rewrites`);
* `set1DArrayComplexTypes` does not look at what `UA_Array_new` returns
  (`uavariant.cpp:428-431`), so that a non-empty array or matrix of strings is
  written through null; when the text of an element gets no memory, it throws
  (`ElementsFail`);
* a matrix may get its elements and not its dimensions, and is left an array
  (`SetMatrix`).

`Receive` is a `UA_Variant` from outside: `UaVariant(const UA_Variant&)` and
`operator=` copy it as it is, null arrays and any dimensions included, whether or
not they fit the elements (`ReceivedShapes`). `ArgumentsAssumption` states what the
arguments' types say and nothing else.

Reals are counted in halves, and `Nearest` says which of them a real type has.
`Fits` is the range check of `boost::numeric_cast`, whose limits `Below` and `Above`
are computed, and rounded, in the source type. It lets NaN pass, and what NaN becomes
as an integer is undefined: any value of the type. `RoundingAssumption` is what
C++'s types keep to: lowest - 1.0 is exact or rounds back to the lowest integer, and
highest + 1 is exact, being a power of two.

Text is abstracted to what is printed: an element and the name under which it
prints, since `changeType` stores it and `Equal` compares it. `Equal` is
`operator==` with the bytes it compares; `ReachesPointer` are the arrays of byte
strings so long that those bytes include a pointer. `MatrixDimensions` has the loop of
`validateMatrixDimensions` with the widths of its integers.

### UaDataValue, AtomicValue

A call is a script of steps (`Script`), with `lock` and `unlock` around the
calls that lock. `New` may return the block that was just deleted.
`setValueUpdating` is `setValue` with `updateTimeStamps`, which writes the time
stamps too. `AtomicValue` has one step per call; the mapping places it at the unlock.
`statusCode` stands for all getters, which take no lock. The copies do not check
what `UA_DataValue_new` returns: `OutOfMemory` writes through null and is the end of
the run, as of the process.

### UaSemaphore, UaThread

Each method of the semaphore is one critical section, except where it sleeps on
the condition: `Sleeps` gives the mutex up and joins `asleep` in one step, as
`condition_variable::wait` does, and `Wakes` may be spurious. `Sum` has the wrap
of the 32-bit addition in `post`. A thread's steps are `run()` (which uses the
semaphore), `ClearRunning` and `SetFinished`; an object is destroyed in two
parts, the derived class first (`Destroy`), then the base, whose destructor joins
(`DestroyEnds`). The owner keeps to what the class asks for: it joins before it
starts again, and destroys an object only when `running()` is false or nothing is
to be joined (`Quiet`).

## 3. Runs

| Run | Question | Properties | Distinct states |
|---|---|---|---|
| `async_mixed` | Do registry, queue, count and answers agree under every race of handlers, workers, time-outs, cancels, drain and stop, and does `drain` answer whom it should? | `RegistryAgrees` `NoLostCompletion` `InflightExact` `NoPushAfterShutdown` `LostOnlyWhenCancelled` `AnswerFinal` `DrainDecides` | 4,462,861 |
| `async_refines` | Does the layer implement the service? Is what a worker completes answered, does `stop` return? | `IInv` (with `TypeOK` and `AnswerIsOwn`) `RefinesService` `CompletionsArrive` `StopReturns` | 196,180 |
| `async_dangling` | Is the completion of a cancelled operation dropped, as `drain` logs? | `CancelledCompletionDropped`, violated | |
| `read_requests` | Is each request answered once, whole and with its own values, however its operations end? | `CountsAgree` `RefinesReadService` `EveryReadAnswered` | 118,916 |
| `server_lifecycle` | Are objects, lists and threads taken down in a safe order after any start? | `ServerInv` (with `TypeOK`) `NoUseAfterDelete` `ListMatchesSpace` `StopReleases` `NoReadLostInStart` `StopReturns` | 222,624 |
| `session_guarded` | Do the locking methods exclude each other, whatever the others do and the server answers? | `SessionInv` (with `TypeOK`) `NoDeletedClient` `OneLockedAtATime` `ResultsAligned` `MutexIsReleased` | 296,897 |
| `variant_values` | Do fields, shape functions, conversions and equality stay consistent through every setter and failure, and does the status tell what a call did? | `WellFormed` `ReadersAgree` `ConversionSound` `EqualIsEquivalence` `StatusTellsEffect` `FailureLeavesNoMixture` | 163,122 |
| `variant_assigns` | Does a setter set? | `SetAssigns`, violated | |
| `matrix_dimensions` | Is the verdict right and the product within its type? | `NoOverflow` `VerdictCorrect` | 120,439 |
| `datavalue_locked` | Are the calls that lock atomic? | `DataValueInv` (with `TypeOK`) `RefinesAtomic` | 432,056 |
| `datavalue_getter` | Can getters and copies be used from a second thread, as the header says? | `NoUseAfterDelete`, violated | |
| `threads` | Is no wake-up lost, no token invented, no object destroyed under its thread? Do joins end? | `NobodyOverlooked` `TokensNotInvented` `NoUseAfterDestroy` `JoinEnds` | 430,141 |

### Bounds, and why they are enough

* `AsyncMixed.cfg`: three blocks, one of them a call, two slots. Two operations
  that race plus one that reuses a slot are what the registry can confuse. The
  blocks that are not calls are interchangeable, and so are the slots
  (`MCSymmetry`); no liveness is checked under symmetry. `CounterSize` 4 is above
  the number of blocks, as 2^32 is, and small enough to wrap below zero.
* `AsyncRefines.cfg`: two blocks, one a call, for the temporal properties.
* `Reads.cfg`: two requests of two operations on a variable that may be empty, one
  that may not, and a node that does not exist. The first request mixes an
  operation that fails at once with one that may wait; three operations may wait
  and `QueueLimit` is two, so that a request is refused an operation while another
  one is waiting. Results with value and times, without, and what a dropped handle
  gives; source times and server times asked for.
* `Threads.cfg`: two threads and their owner, two starts each, two semaphore calls
  per run. Counts have three bits, the range is two; posts of one, of two (more
  tokens than one waiter takes) and of seven (whose sum wraps).
* `ServerLifecycle.cfg`: two starts and two managers, for what one life leaves to
  the next; one node of each kind that has a case of its own and a second
  variable with the same identifier. A plain object takes the same path as a
  variable. A node is listed twice at most before the model stops adding it.
* `SessionGuarded.cfg`: two threads, since all exclusions are pairwise; two client
  addresses, one of which may be allocated while the other is in use; requests of
  up to two nodes and answers of up to three results.
* `VariantValues.cfg`: two variants for assignment and comparison; Boolean, an
  integer of three bits, a real type, String and ByteString. The real type has a
  mantissa of two bits, so that lowest - 1.0 rounds back to the integer's lowest
  value as -2^63 does in double. A few values are passed in, and conversions make
  the others on both sides of the limits: -4 becomes -8 halves, NaN every integer.
  Arrays have up to two elements; shapes are a valid, an empty and a negative one;
  dimensions from outside are none or <<1>>, which fits arrays of one element and
  not those of none and two. A byte string has two bytes, one of which is the
  pointer's, so that an array of two has its pointer compared and an array of one
  has not.
* `Matrix.cfg`: all lists of up to three dimensions of a four-bit type, with a
  product of seven bits: products reach and pass every limit of the loop.
* `DataValueLocked.cfg`: two threads, two blocks (one freed while the other is
  allocated), two values. `setServerTimestamp` has the script of
  `setSourceTimestamp` and is left out of the instance.

`CHECK_DEADLOCK FALSE` stands where the system really may stop: a stopped server
whose operations are all used up, a session after a misuse, a variant after a
crash, a returned verdict.

### Fairness

* AsyncOperations (`Fairness`): weak fairness of the server thread's handlers,
  drain and end (an event loop that does not block), of the release of answers, of a
  worker that is inside `complete`, and of `stop`, whose wait has a limit of 60 s. Not
  fair: clients, the application's decision to complete, to lower the flag and to
  call `stop`, and time-outs, which are off by default. So `CompletionsArrive` begins
  where a worker completes, and an operation that nobody completes may wait for
  ever; `StopReturns` holds because `shutdown` gives up, and not because devices
  answer.
* UaServer: weak fairness of `start`, `stop` and the thread once begun;
  `UA_Server_run_iterate` returns within the 20 ms of the drain timer. The flag is
  the application's, so `StopReturns` asks for it to be down.
* ReadRequest: weak fairness of the server thread inside a request, of drain and of
  the sending of ready responses, and of each device, which completes its handle or
  drops it: the handle is an RAII object, so an answer is due when its owner ends.
  Not fair: time-outs and the Cancel service, which need not be configured or used.
* UaThread: weak fairness of a notified waiter, of `wait_for`'s time-out, of a
  `run()` that can return and of joins. Nobody has to post, so `JoinEnds` excepts
  the thread that sleeps in `wait()` for a token that does not come.
* UaSession: a thread inside a call goes on; the client's calls have time-outs. No
  fairness of the mutex is assumed: `MutexIsReleased` says that a holder lets go, not
  that a waiter gets it.
* UaVariant, MatrixDimensions and UaDataValue: none, and no liveness property.

## 4. What the violations show

Each is reported in `PROJECT.json` under "findings" with the lines.

1. `async_dangling`: a timed-out or cancelled call destroys its block while the
   application still holds a raw pointer to it; its late `finishCall` uses freed
   memory, and the count that `shutdown` waits for never reaches zero.
   `LostOnlyWhenCancelled` shows that this is the only way.
2. `variant_assigns`: a scalar setter on a one-dimensional array of the same type
   overwrites the first element and leaves an array; on an empty one it writes to
   the sentinel's address.
3. `datavalue_getter`: getters and copies read a pointer that an assignment
   deletes.

Met on the way and not stated as runs:

* `operator==` (`uavariant.cpp:147`) compares `arrayLength` bytes, so any two
  scalars of one numeric type are equal, and a scalar equals an empty array of its
  type. `EqualIsEquivalence` says what holds all the same: it is symmetric and
  transitive, and copies compare equal, except arrays of nine byte strings and more
  (`ReachesPointer`), whose ninth byte belongs to a pointer. An element compared in
  part counts as not compared.
* `browse` and `serverStatus` take no lock, although `include/uaclient/uasession.h:161`
  says that all methods are synchronized; `NoDeletedClient` and `OneLockedAtATime`
  say what holds in spite of it.
* `read`, `write` and `call` pass a null client to the stack on a session that is
  not connected (`uasession.cpp:210`), and `call` leaves the outputs of an earlier
  call when the service fails (line 364).
* `arraySize()` of an empty variant is 0 where `include/uavariant.h:206` says -1,
  `isArray()` of it is true and `arrayType()` calls it a scalar. `ReadersAgree` states
  this as it is.
* A real that is the lowest integer of a type is refused with `BadOutOfRange` where
  lowest - 1.0 is not exact: -2^31 in Float read as Int32, -2^63 in Float and Double
  read as Int64 (`LowestIsLost`; `uavariant.cpp:816-819`). NaN read as an integer is
  `Good` with an undefined value.
* `setStringArray`, `setByteStringArray` and their matrices write through null when
  there is no memory for their elements (`uavariant.cpp:428-431`), and so do the
  copies of a data value without memory for a `UA_DataValue`
  (`uadatavalue.cpp:125-127`).
* `toString` of a matrix without elements, which only a `UA_Variant` from outside can
  be, reads the sentinel's address (`TextCrashes`).
* A variable with `handlesIo()` that is added after `start` is read by the stack
  with deferral active, so its addition fails and its completion has nowhere to go
  (`NoReadLostInStart` holds for the nodes of `afterStartUp` only).
* Property nodes are given to the stack and never listed (`nodemanagerbase.cpp:333`).
* In the small value types, read and not modelled: `UaString`, `UaNodeId` and
  `UaByteString` assigned to themselves become empty; `UaString::operator=` leaves
  `m_impl` pointing to freed memory when its allocation fails;
  `UaPropertyMethodArgument::setArgument` copies the data type's identifier without
  what it points to.

## 5. Proofs

Theorems hold for every value of the constants that satisfies the assumptions;
TLC evaluates the assumptions of the instances.

### AsyncOperationsProofs

Under `ConstantsAssumption` (methods are blocks, the null values are not among
blocks and keys, the counter has a positive size). None of the properties is
inductive alone; `IInv`, which TLC checks in `async_refines`, has four layers,
each proved on top of those before:

* `SlotInv` (`SlotsAgree`): slots, registry, queue and answers. That a drained
  completion goes to its own operation needs that the registered block is the one
  the stack waits for (`RegistryExact`), that two waiting operations have different
  slots (`SlotsExclusive`), that what is queued was completed (`QueuedArePushed`)
  and has a result of its own (`CompletersAgree`), and that the server thread does
  one thing at a time (`OneAtATime`). `AnswersAreOwn`, `RegistryAgreement` and the
  action property `AnswersAreFinal` follow.
* `DeferralInv` (`RaceIsDecided`): the two exchanges of `m_phase`. The later one
  finds the earlier one's value (`RaceDecided`), so a deferral's completion is on
  its way to the queue or in it from the handler's exchange on (`CompletionComing`).
  `NoCompletionIsLost` follows.
* `QueueInv` (`QueuesAreSound`): each block is queued or drained once
  (`QueuedOnce`), what is queued or drained has not been answered but by the stack
  (`QueuedAreOpen`), and the server thread ends with an empty batch
  (`EmptiedAtExit`), so that a drain on the main thread has the registry still.
  `DrainIsRight` follows: the action property `DrainDecides`, that `drain` answers
  the one operation that waits for the completion at hand, and drops only what the
  stack has answered.
* `CountInv` (`Inductive`): the count. `InflightIsExact` is proved by an invariant
  of its own, `InflightWraps`: the wrapped counter differs from the number of
  deferrals not yet pushed by whole turns of the counter. It is stated with the
  multiplier as a witness, since that quotient and remainder exist is beyond the
  solver. `NothingPushedTooLate` and `LostAfterCancel` follow. Assumed in addition:
  finitely many blocks, and for what follows from `m_inflight == 0` fewer than the
  counter can hold, which is 2^32 operations at once in the code.

`LayerImplementsService`: `Spec => RefinesService`. Most steps are stutters of the
service; completions, answers and time-outs map to the step of their request.

### ReadRequestProofs

Under `ReadAssumption`. `ReadInvariant`: the two counters of the stack and
`m_pending` describe one set (`CountsAgree`, with the cardinality theorems), a
response waits exactly as long as one of its operations (`StagesAgree`), the loop
has not touched what it has not come to (`LoopAgrees`), and every slot is fit to be
sent (`SlotsFit`). `ReadsAreAService`: `Spec => RefinesReadService`; the sending of
responses, the end of a request that waits for nothing and the deletion of the
server are its answers.

### UaThreadProofs

Under `CountsAssumption` and `CallersAssumption`: `ThreadsInvariant`, and from it
`NobodyIsOverlooked`, `TokensAreReal` and `DestroyedUnderNobody`. The flags tell
where a thread is (`FlagsFollowRunner`), which with the owner's rule gives that the
parts of an object outlive what uses them (`PartsOutlive`). `SumWraps` has the
arithmetic of a post that wraps: the count goes down, never up.

### UaDataValueProofs

For threads that make calls of `LockingCalls` only. `LockedCallsAreSafe`:
`DataValueInv`, whose core says that nobody but the holder of `m_lock` is between
lock and unlock (`HolderIsInside`) and that what the holder has done so far to
the block and to its copy is what its script says (`HolderWorks`).
`LockedCallsAreAtomic`: `Spec => RefinesAtomic`, where every step before the
unlock is a stutter.

### MatrixDimensionsProofs

Under `WidthAssumption` (the square of the narrow limit fits the wide one, as 2^31
and 2^63 do). `Products` is a recursive function, and TLAPS proves nothing by the
library's induction theorems, which take a predicate. The module has an induction of
its own: a non-empty set of numbers has a least one (`LeastNumber`, from the
well-foundedness of `<`), so a set of numbers that holds 0 and the successor of each
member is `Nat` (`Induction`). `ProductsExist` and `ProductsUnfold` prove from it that
the function is what its definition says, `ProductsPositive` that positive dimensions
have a positive product, `ProductBound` that no prefix of them has a larger one.

`LoopInv` is the inductive invariant: inside the loop the product is below the narrow
limit (`BelowIntLimit`), so one more factor cannot carry it over the wide one
(`ProductNeverOverflows`), and it is the product of the dimensions passed, none below
one (`LoopAgrees`). With `ProductBound` the early return is right, and
`VerdictIsCorrect` follows: `VerdictCorrect`, for any number of dimensions.

### UaVariantProofs

Under `LimitsAssumption`, `RoundingAssumption` and `ArgumentsAssumption`, for types of
any limits, any values and arrays of any length. The invariant adds to `WellFormed`
that a variant has its fields (`IsVariant`). One lemma per constructor says that it
builds a sound variant, the matrix's with `PositiveProduct` of
`MatrixDimensionsProofs`; `ConvertedInType` says it of what a number is converted to.
`StepForms` sums up what any call does to the variants (it keeps them, reads the
sentinel, stores what it was asked to, fails cleanly, writes through null, or
overwrites the first element of an array), with the status it returns, and `NextForm`
proves it call by call, so that each theorem has one case per form: `FieldsAgree`,
`NoMixtureIsLeft`, `StatusIsTrue` and, for `CrashesHaveCauses`, which covers the
getters, `CrashesHaveTwoCauses`: memory that is not a variant's is used through the
sentinel or because an array of strings ran out of memory, and not otherwise.
`OneShape` and `ConversionsAreSound` follow from the invariant alone; the latter's
exception, the lowest integer, comes from `RoundingAssumption` and from nowhere else.
`EqualityIsSound` has `EqualIsEquivalence`; transitivity rests on the shape being
compared before the bytes.

`LoopDecidesValidMatrix` joins the two models: the loop returns `Good` exactly on the
arguments for which `UaVariant`'s `ValidMatrix` accepts an array of that length
(`LoopAgreesWithSetters`, defined beside the theorem).

### UaServerProofs, UaSessionProofs

`UaServerProofs`, under `NodesAssumption` (the null manager is no manager, the
root is no node, every node has a kind): `ServerInvariant`, and from it
`NothingUsedAfterDelete`, `StopRunsAlone`, `ListMatches` and
`EverythingReleased`. That nothing deleted is used depends on which pointers are
set at each place of `start` and `stop` (`PointersAgree`), on what they point to
being allocated (`PointersLive`), on the list being exact while a manager and a
server are there and empty otherwise (`ListIsExact`), on references leading to
listed nodes or to nodes that went with an earlier manager (`RefsAreListed`),
and on no thread running from the join on (`StopIsAlone`). The conjunction is
`ServerInv`, which TLC checks in `server_lifecycle`. `NoReadIsLostInStart` has an
invariant of its own, `QuietWhileBuilding`: the layer that `start` has just made does
not serve while `start` is at `afterStartUp`.

`UaSessionProofs`, under `OutsideAssumption` (the null client is no client, the
free mutex no thread, a request has one node at least): `SessionInvariant`, and
from it `OneClientAtATime`, `LockedMethodsUseLiveClients`,
`LockedMethodsExclude` and the action property `ResultsAreAligned`. The
invariant `SessionInv` says who may be inside a locking method (the holder of the
mutex alone, `LockedHold`), that the allocated clients are what `m_client` points
to (`LiveIsPointedTo`), that a locked service call works on that client
(`UsesPointedTo`), and what a thread's place implies (`PlacesAgree`). The lemma
`ReturnKeeps` covers the return of every method.

### Only model-checked

The liveness properties, which are out of the provers' reach: `CompletionsArrive`, the
two `StopReturns`, `EveryReadAnswered`, `MutexIsReleased` and `JoinEnds`. Every other
property of a passing run is a theorem. The other way round, `CrashesHaveCauses` and
`LoopAgreesWithSetters` are proved and belong to no run.

## 6. Mutants

Every property of a passing run has a mutant in `PROJECT.json`: a definition of
the model replaced by a `Bug...` operator that stands before it, such as a
forgotten erase (`BugErased`), a registry looked up by key alone
(`BugIsCurrent`), a `shutdown` that does not wait (`BugWaitIsOver`), a layer that
serves at once (`BugServingAtOnce`), a failed connect that keeps its pointer
(`BugConnectFailed`). TLC finds the property violated under the run's own
configuration.

## 7. Not modelled, and why

* The iterate thread of UaSession under `OPCUA_2603`, which the build leaves off.
* `UaServer::setServerConfig` and the schema: a parser that yields a port number.
* Attributes of nodes, wording, logging, the text variants print as.
* Arrays of variants (`setVariantArray`), which take the path of arrays of strings,
  and `toByteString`, a getter that looks at shape and type before it copies.
* The width of the product that `toMatrix` and `noOfMatrixElements` compute from
  dimensions that came from outside: `MatrixDimensions` has that of the setters only.
* Write and Call requests of several operations: they take the path that
  `ReadRequest` has for reads, and their blocks are in `AsyncOperations`. The
  conversion of call arguments is a copy.
* Small value types and property caches: sequential holders of one structure each,
  where no call depends on an earlier one. Section 4 lists what was seen in them.
* Failures to allocate the header of a variant, after which its destructor would
  delete the old one twice (a hazard in `PROJECT.json`).
* Data races as such: an unlocked read is modelled as seeing either value, or a
  deleted object; torn words are not.

## 8. Plan

Done, in this order: AsyncOperations with DeferredService, AsyncService and the
proofs; UaVariant and MatrixDimensions; UaDataValue and AtomicValue; UaSession;
UaServer with the node manager; UaSemaphore and UaThread; ReadRequest and
ReadService; the refinement, completion and count theorems of AsyncOperations;
the theorems about UaDataValue and UaVariant; induction, and with it the verdict on
matrix dimensions; the theorems about equality, statuses, the reads of `start` and
the decisions of `drain`.

Left: a second `start` without `stop`, once the class says what it should do;
`beginCall` that fails after it dispatched its work; the iterate thread if
`OPCUA_2603` is turned on; requests of several calls, with the conversion of
their arguments.

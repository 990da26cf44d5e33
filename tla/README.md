# TLA+ models of TensorFlow.js

This directory holds TLA+ models of parts of the TensorFlow.js monorepo, the
TLC configurations that check them, and proofs about them for the TLA+ proof
system. All paths below are relative to the repository's root.

    tlc -config MCBackendRegistry_calls.cfg MCBackendRegistry
    tlapm BackendRegistryProofs.tla   (and the other modules named *Proofs)

## 1. The system

TensorFlow.js is a set of npm packages around one object, the `Engine` of
`tfjs-core/src/engine.ts`: a process-wide singleton that chooses a backend,
owns the accounts of every tensor and runs every kernel.  Everything runs on
one JavaScript thread, so the only interleavings are at `await` points and in
callbacks; within them the code is a sequential, stateful program whose calls a
user may make in any order.

| component | state | operations | what is hard | correct when |
|---|---|---|---|---|
| engine: choice of backend (`engine.ts:168-422,1265`) | `registry`, `registryFactory`, `backendName`, `backendInstance`, `pendingBackendInit(Id)` | `ready`, `backend`, `findBackend`, `registerBackend`, `setBackend`, `removeBackend`, `reset` | factories may be asynchronous and fail; calls overlap at every `await`; a removal or a newer call must make a pending promise obsolete | the backend in use is the registered one of the name in use; nothing obsolete is registered; every call returns |
| engine: tensors and scopes (`engine.ts:424-1263`, `tensor.ts`) | `tensorInfo`, counters, `registeredVariables`, `scopeStack`, `activeTape`, `gradientDepth`; per tensor `dataId`, `kept`, `scopeId`, `isDisposed` | `makeTensor`, `runKernel`, `dispose`, `keep`, variables, `tidy`, `gradients` | data is shared; scopes nest; a tape keeps tensors past their scope; functions throw | a buffer lives exactly while it is shared; `memory()` is exact; nothing leaks |
| backends' data storage (`backends/backend.ts`, `backend_cpu.ts`, `backend_webgl.ts`) | `DataStorage`, `refCount`; webgl: `pendingRead`, `pendingDisposal`, `pendingDeletes`, textures | `write`, `read`, `readSync`, `incRef`, `disposeData`, `move` | asynchronous reads race with disposal and with moves between backends | a read answers with the data; what is disposed of is released, once |
| model io (`io/*.ts`) | local storage items, IndexedDB records | `save`, `load`, `copyModel`, `moveModel`, `removeModel` | each is several steps that may fail | no model is lost, none is half there |
| tfjs-data iterators (`lazy_iterator.ts`, `ring_buffer.ts`) | chains of promises, buffers | `next`, `prefetch`, `shuffle`, `zip`, ... | overlapping `next` calls, errors, end of stream | each element once, in order |
| tfjs-converter executor (`graph_executor.ts`, `model_analysis.ts`, `execution_context.ts`, tensor arrays and lists) | tensor map, frames, pending counts | `execute`, `executeAsync` | dynamic control flow, disposal of intermediates | a tensor is disposed of after its last consumer |
| webgpu data (`backend_webgpu.ts`, `buffer_manager.ts`, `texture_manager.ts`) | `tensorMap`, command encoder, `commandQueueOwnedIds`, lists that wait for a submission, free and used buffers | `write`, `read`, `uploadToGPU`, `runWebGPUProgram`, `submitQueue`, `disposeData`, `createTensorFromGPUData`, `readToGPU` | commands run long after they are recorded, other writes at once | no buffer is recycled while something needs what is in it; the pool loses nothing; `numDataIds` is exact |
| tfjs-layers training (`training.ts`, `base_callbacks.ts`) | model state, callbacks | `fit`, `stopTraining` | asynchronous callbacks | epochs and callbacks in order |

How they interact.  User code calls ops; an op opens a scope in the engine, and
runs a kernel, which asks the backend in use to write, read or share data; the
engine tracks the tensors it returns in the open scope and, under a tape, saves
clones of them.  A backend that meets data of another one calls back into the
engine (`DataMover.moveData`), which reads it there, disposes of it and moves it.
The io, data, layers and converter packages are clients of the ops.  The
remaining packages (op kernels, `tfjs-node`, `tfjs-vis`, `tfjs-tflite`, `e2e`
and so on) are listed in `PROJECT.json` with the reason they are left out:
numerical kernels, bindings to libraries outside the repository, user
interface, generated code or build scripts.

## 2. The modules

### BackendRegistry (`engine.ts:168-422, 1265-1281`)

The state is the engine's: `registryFactory` (names with a factory),
`registry` (the instance of a name), `backendName`, `backendInstance`,
`pendingBackendInit` and `pendingBackendInitId`.  Added to it are what the
JavaScript runtime keeps: `inits`, the factories' promises by initialisation
number, each pending, settled or consumed; and per caller the continuation at
which its `setBackend` or `ready` is suspended.  Ghost variables remember which
instances were disposed of and which initialisations made obsolete.

One action is what runs between two suspensions of the code.
`CallSetBackend` is `setBackend` up to its `await` (or to its return if the
factory is synchronous); `FactorySettles` is the `.then`/`.catch` callback of
`initializeBackend`, in which the instance is registered or dropped;
`ResumeSetBackend` is the rest of `setBackend`.  `CallReady`, `ResumeJoin` and
`ResumeTry` are `ready`, which joins a pending promise or tries the sorted
backends in turn.  `FindBackend`, `GetBackend`, `RegisterBackend`,
`RemoveBackend` and `Reset` are synchronous.  A factory may throw, yield an
instance or (for `AsyncBackends`) return a promise that fulfils or rejects.  Those
of `NullBackends` may also yield null, at once or through the promise, which
`initializeBackend` takes for a success: null is then entered in the registry
(`nullEntries`), and `dispose` of it throws, so that `RemoveBackendThrows` and
`ResetThrows` stop halfway.  `torn` says which of them have done so since the last
reset that ran to its end.  `Prompt` says whether a caller resumes in the microtask that
follows the settlement before anything else runs, or other code may run first.

### TensorMemory (`engine.ts:424-1255`, `tensor.ts`, `backend_cpu.ts`)

Tensors, data and scopes are the numbers the code's counters give them.  One
action is one call of the API, or the part of `tidy` or `gradients` before or
after the function that the program passes in, so that any sequence of calls
may run inside; exceptions are the actions `ForwardThrows` and `BackwardThrows`,
and `EndScope` with an empty result.  `RunKernel` is an op: the scope it opens
and closes has the net effect that its result is tracked in the caller's scope,
with clones saved on the tape if the tape is on.  The reference count is the
backend's, `numTensors`, `numDataBuffers` and `numBytes` the engine's, and
`holds` is a ghost: the tensors and variables that have a reference they have
not given back.  A buffer counts for one byte; that is enough to tell whether
additions and subtractions agree.

`DataLifetime` is the abstract specification of what reference counting
promises: a buffer is stored by its first holder, shared, and freed with its
last, and never comes back.  `TensorMemory` is checked to implement it under the
refinement mapping at its end.

### DataRouting and WebGLData (`engine.ts:424-439, 910-943, 1218-1227`, `backends/backend.ts`, `backend_webgl.ts`)

`DataRouting` has what the engine knows of data over two backends: the backend
in use, `tensorInfo[d]` (the backend each buffer is said to live in), the
number of tensors on each buffer, the cpu backend's reference counts, and the
calls of `data()` with what became of each.  `WebGLData` extends it with the
webgl backend: its entries (`texData`: count, whether values are cached,
whether there is a texture), `pendingRead`, `pendingDisposal` and
`pendingDeletes`.  An action is a call of the program (`MakeTensor`,
`RunKernel`, `Clone`, `Dispose`, `DataSync`, `Data`, `ChangeBackend`), with the
move of a buffer (`DataStorage.get`, `moveData`) inside the action that causes
it, or `FenceDone`, the rest of `read()` after its `await`.  Between the two
anything may run: the point is that the tensor may be disposed of, read again,
cloned or moved meanwhile.

`WebGLData` implements `DataLifetime` too, with reads under way counted among
the holders of a buffer: disposal under a read is delayed until the read is over.

### Tape (`tfjs-core/src/tape.ts`, `engine.ts:1004-1032, 1105-1154`)

`AddTapeNode` records a kernel; `Gradients` is `gradients()` once its function has
returned, with the two passes over the tape that keep the nodes between the xs
and y; `Accumulate` is a turn of the inner loop of `backpropagateGradients`,
`Throw` its two exceptions, and `Return` the end of the backward scope.  A
gradient is the bag of the paths it is the sum over, so a path that is lost or
counted twice shows.  A kernel may have a gradient for its first input only, or
none, or, as that of `Mod` has, one that passes its `dy` on as it is.

### ModelStore and AtomicModels (`tfjs-core/src/io/`)

A call of the program (`save`, `load`, `listModels`, `removeModel`, `copyModel`,
`moveModel`) is a program of operations on one store each (`Programs`); `Start`
makes it and `Resume` continues it when the promise of an operation settles.
Local storage answers at once (`LocalSave` and so on, with five items per
model); IndexedDB is two object stores with a queue of transactions each, and
one action per callback of `indexed_db.ts` (`AnswerInfo`, `AnswerPut`,
`AnswerFind`, ...).  The library is modelled by what the code relies on:
databases open in the order asked for, a transaction on a store starts when the
one before it has ended, its writes are lost if it aborts.  `Faults` says what
may fail: a request, an exception in a callback, a commit, the quota of local
storage, the put of a model, the page, which may be closed between any two
steps and in the middle of `LocalSave`, and is then opened again.

`AtomicModels` is the abstract specification: every operation takes effect at
one moment.  `ModelStore` implements it as long as nothing fails.  The refinement
mapping reads the abstract store off the info store and the first transaction
in its queue (`Stored`), so a save or a removal takes effect when its request
on the info store is answered; a load takes effect when it joins the queue of the
model store, where what it will find is settled (`InHand`).

### LazyIterators (`tfjs-data/src/iterators/lazy_iterator.ts`, `util/ring_buffer.ts`)

A pipeline is a source and a list of stages: `map`, `take`, `prefetch`,
`serial`, `skip`, `filter`, `batch` with and without the small last one,
`flatmap`, `handle` (`handleErrors`), `shuffle`, `chain` and `zip`.  Each
level has the results of the calls of its `next()`; `ConsumerNext` calls the last
one without waiting, `Settle` settles a promise of a source, `Pass` is the
continuation of a stage without a queue and `Serve` a step of the loop of one
that chains its calls through `lastRead`.  The handler of a `handle` stage ignores
errors, ends the stream or throws in its turn (`Ignore`, `Stop`, `Rethrow`).
`Ideal` is the stream a pipeline stands for, defined stage by stage on whole
sequences and without any order of events, as the interface documents it: a stream
that has ended stays so.

### GraphAnalysis and GraphExecution (`tfjs-converter/src/executor/`)

`GraphAnalysis` has the pure functions of `model_analysis.ts`: the nodes that
outputs need, their order, until which node a result is needed.
`GraphExecution` runs a graph.  `ExecuteOp` is a turn of the loop of `execute`.
For `executeAsync`, `Pop` takes a node off the stack and runs it (an op of control
flow or of dynamic shape has a promise, which joins `flight`), `Settle` or
`Reject` is the continuation of such a promise, and `Await` and `Resume` are the
`await Promise.all` between waves.  Contexts of loops are sequences of frames
and iterations, and `current` is the one that the last execution has left behind, in which the
outputs are looked up.  Values are numbers, so that a wrong iteration or operand shows
in the answer.  `Put` is an assignment to an entry of a map, `WellFramed` says of
a graph that its loops are as the converter makes them.  There is a layout of it, with
the loops around each node, which its inputs agree on, and a node in a loop
waits for something that is computed in it (`LaidOut`); and the switches of a loop
test its one `LoopCond`, such that what leads to a `NextIteration` needs a switch
that goes on, and an `Exit` takes from one that does not (`Guarded`).  `OutputsOutside`
says besides that the outputs asked for are left outside all loops (`Outside`).
`MCGraphExecution` gives the layout of its graphs, and `ASSUME`s, which TLC
evaluates, say that all have it but those of section 6 with a constant of a loop
that is a constant of a loop in it, and that those of the passing run have their
outputs outside.

### WebGPUData (`tfjs-backend-webgpu/src/`)

The state of the backend is one record with the fields of `WebGPUBackend` and
of the buffer and texture managers, since most of its methods call one another:
they are functions of that record (`Upload`, `Record`, `Submit`, ...), and an
action is a call of the engine or of a kernel (`Write`, `Run`, `FromPixels`,
`IncRef`, `Dispose`, `Read`, `ReadSync`, `ReadToGPU`,
`CreateTensorFromGPUData`), or `ReadDone`, the rest of a read once its buffer is
mapped.  `CreateTensorThrows` is the call whose buffer is too small or of another usage: it
throws when the entry of the data is made, and leaves it behind (`orphans`).  A buffer holds the number of the data in it; a recorded command
says what its inputs should hold when it is run, and leaves junk behind if they do not.
Acquiring and releasing spoil a buffer, so that any use after release shows.
`Release` and `Remove` are of sets: the loops of `submitQueue` release and
delete distinct things, in an order that does not matter.

## 3. What TLC checks

| run | checks | bounds |
|---|---|---|
| `MCBackendRegistry_calls` | types; the pending promise is that of the current number; the registry holds no obsolete instance; obsolete for ever; every call returns | 2 asynchronous backends, one of which may come to null, 2 callers, resumptions in any order with other calls |
| `MCBackendRegistry_serial` | the instance in use is the registered one of the name in use; it was not disposed of; a successful `setBackend` leaves its backend registered | a synchronous and an asynchronous backend, both of which may come to null, one caller at a time, prompt resumption, with find, register, remove and reset in between |
| `MCTensorMemory_variables` | types; reference counts and counters exact; data outlives its holders; `DataLifetime` is implemented | 3 tensors and variables, 2 names, 2 buffers, 2 scopes, functions that throw |
| `MCTensorMemory_tape` | closing a nested scope leaves nothing of it alive but what was kept; no saved clone outlives `gradients`; the tape's clones are alive during the forward function | 3 tensors, 2 buffers, 4 scopes: a gradient of a gradient |
| `MCTape_paths` | `gradients()` answers the sum over all paths for each x and throws only if a node on a path has no gradient or there is no path; no partial sum that was disposed of is used or answered | every tape of 3 nodes over 2 tensors with 6 kinds of kernels, every y, one or two xs |
| `MCWebGLData_reads` | held data is stored where the engine looks for it with an exact count; one copy; pending sets and `numDataIds` exact; `DataLifetime` is implemented; every `data()` answers | 3 buffers, 2 tensors on each, 2 reads |
| `MCModelStore_calls` | the stores agree except where a failure has just torn a model; what a save or a listing has answered for can be loaded; every call returns; `AtomicModels` is implemented | 3 calls with 4 operations, 3 URLs on both media, one failure |
| `MCModelStore_move` | violated: see section 6 | 1 call |
| `MCLazyIterators_pairs` | the k-th call gets the k-th answer of the stream; `shuffle` loses and repeats nothing and stays in its window; stages do not re-enter their source and run ahead by no more than their buffer; every call is answered | every pair of 16 stages, and a handler that ends the stream above each stage that rejects for ever after an error; a source of 4 elements of which the second may fail, a second source of 2, 5 overlapping calls |
| `MCGraphExecution_graphs` | no operand is used after it is disposed of; no result takes the place of another and nothing but what is returned is left; each node runs once per context; results go with their last use; the order passes its own validation; executions end with the right answers | all graphs of two known and three other nodes, with a fed intermediate node, dynamic ops and repeated operands; a conditional, a loop, nested loops |
| `MCGraphExecution_nested` | violated: see section 6 | |
| `MCWebGPUData_batches` | data of tensors and reads is intact; every buffer of the pool has one owner; `numDataIds` and reference counts exact | 4 data ids, 3 tensors at a time, one read, batches of 2 |

Why the bounds are enough.  Two backends and two callers are the least with
which a promise can be overtaken, and `MaxOps` lets several initialisations run, so that an
obsolete promise can be overtaken twice.  Three tensors are the least for a
buffer shared by two with a third apart; four scopes are two nested
`gradients`, each with its forward and backward scope.  Two reads are the least
with which one subscribes to the other.  In `MCWebGLData_reads`
(`ReturnEarly = FALSE`) the program brings webgl back into use only when no live
buffer has left an entry there that waits for a read; what happens
otherwise is in section 6.  Four operations are a copy or a move with two others around it, which overlap on
both object stores; two moves at a time need six and are not covered.  Three nodes on
a tape are the least for a tensor with two consumers whose paths join again.  Two stages
are the least for one that queues above one that does not, five calls on four
elements reach the end of the stream and go past it.  Three nodes are the least
for a result with two consumers that are themselves connected; the outer loop
of the nested loops runs twice.  Batches of two have a command that waits and one that
submits, and three tensors fill both with one more that is disposed of.
Every counter that
grows in the code (initialisation numbers, tensor, data and scope numbers) is
bounded by the constant in the guards of the actions that increase it.

`CHECK_DEADLOCK FALSE` is set where the bounds let every counter run out; the
real program then simply makes no further calls.

Fairness (`FairSpec` of BackendRegistry): a factory's promise settles
eventually, as the host's asynchronous operations do, and a caller whose promise
has settled is resumed, as the JavaScript microtask queue guarantees.  Nothing
is assumed of the program: it need not call anything.  `FairSpec` of WebGLData:
a fence that was issued is passed and its waiting reader resumed, as
`gpgpu_context.ts` polls until then.  `FairSpec` of ModelStore: the browser serves
requests and ends transactions, and callbacks run (`WF_vars(Work)`; failures and
the calls of the program are not in `Work`).  `FairSpec` of LazyIterators: the
promises of the sources settle, and what waits for a promise is resumed, each
weakly fair.  `FairSpec` of GraphExecution: the promises of ops settle and what
waits is resumed (`WF_vars(Next)`: nothing else is in `Next`).  WebGPUData has
no fairness, and no property that needs it.

## 4. What is proved

Every theorem holds for any values of the constants that satisfy their module's
`ASSUME`, and under the hypotheses in the table.  A hypothesis excludes
behaviour in which the property is false of the code; section 6 has what happens
without it.

| module | theorem | states | hypotheses |
|---|---|---|---|
| `BackendRegistryProofs` | `TypeCorrect`, `PendingPromiseIsCurrent`, `RegistryHoldsFreshBackends`, `ObsoletePromisesStaySo` | `TypeOK`, `PendingIsCurrent`, `RegistryIsFresh`, `ObsoleteForEver` | |
| | `InstanceMatchesName`, `ActiveBackendNotDisposed`, `SetBackendIsHonest` | `NameMatchesInstance`, `ActiveNotDisposed`, `SuccessIsRegistered` | `Serial` |
| `TensorMemoryProofs` | `TypeCorrect`, `ReferenceCountsExact`, `CountersExact`, `HoldersHaveData` | `TypeOK`, `RefCountExact`, `CountsExact`, `DataOutlivesHolders` | `~Redispose` |
| | `ImplementsLifetime`, `TapesAreAlive`, `ClosedScopesReclaim` | `ImplementsDataLifetime`, `TapeIsAlive`, `ClosingReclaims` | `~Redispose` |
| | `NoLeak` | `NoSavedLeak` | `~Redispose`, `~Throws`, `~NestInBackward` |
| `WebGLDataProofs` | `TensorsKeepTheirData`, `OneCopyOfData`, `PendingDisposalsExact`, `ImplementsLifetime` | `HeldDataIsStored`, `OneCopy`, `PendingIsExact`, `ImplementsDataLifetime` | `~ReturnEarly` |
| `ModelStoreProofs` | `StoresStayInAgreement` | `StoresAgree` | |
| | `LoadsFindWhatIsVouchedFor`, `StoresActAtomically` | `VouchedLoads`, `ActsAtomically` | |
| `TapeProofs` | `GradientsStayAlive` | `GradientsAlive` | `BinaryDy` |
| `WebGPUDataProofs` | `DataStaysIntact`, `BuffersStayOwned`, `CountsStayExact` | `DataIntact`, `BuffersOwned`, `CountsExact` | |
| `GraphExecutionProofs` | `PlanIsAlwaysValid`, `NothingRunsTwice` | `PlanIsValid`, `RunsOnce` | |
| | `NothingKeptLong` | `DisposedPromptly` | `LoopsAreFramed` |
| | `NothingDisposedEarly`, `NothingIsLeft` | `OperandsAlive`, `ReturnsCleanly` | `OutputsAreOutside` |
| | `AliveWithoutLoops` | all three | no graph has a loop |
| `LazyIteratorsProofs` | `UpstreamIsPaced` | `PacesUpstream` | |

### The choice of backend

The first four theorems of `BackendRegistryProofs` follow from `Invariant`: `IInv` is
inductive.  It is the conjunction of the four: none is inductive by itself,
since that a settling promise may register its instance depends on the pending
promise being that of the current number and on cancelled initialisations never
being current again.  The proof splits a step by what it does to the
initialisations: calls a factory (`OneFactoryStep`), settles one
(`SettleStep`), removes a backend (`RemoveStep`), resets (`ResetStep`), or
leaves them alone.

Its second part is about programs that await each call, are resumed as
soon as its promise settles, and run no op while no backend is in use
(`Serial`, the case of `MCBackendRegistry_serial`).  `SerialOK`
adds to `IInv` what the current initialisation is about.  One instance may
replace another under the name in use only if `ready()` tries a backend
that is there already; `RunsOK` says that it then still waits for it, and
`WaitsOK` that no instance is in use meanwhile, and that the name in use is that of
the backend a `setBackend` waits for unless the wait was made obsolete.

Null is among what a factory may come to in all of these.  A removal or a reset that throws
upon it has raised the number of promises and not cleared the pending one, so
`PendingIsCurrent` is stated for states in which none has, and a reset that throws may have
disposed of the backend in use, which `NameMatchesInstance` and `ActiveNotDisposed`
except.  `RegistryIsFresh` and `ObsoleteForEver` hold all the same.

### Tensors, scopes and tapes

`TensorMemoryProofs`: exact counts are not inductive by themselves.  Closing a
scope gives up the references of all that its list holds, so `IInv` also says
that what a scope or the tape lists is made and holds its data until it is
flagged (`ListsOK`), that numbers not given out stand for nothing (`FreshOK`),
and that `gradientDepth` is the number of forward scopes on the stack, which
have a tape (`GradientsOK`).  `DisposeExact`, `TrackExact` and `AssignExact` say
once what giving up, adding and moving references do to the accounts, by
counting finite sets; `CloseStep` does every action that closes a scope.

In the second part, `Moves` is what any step does to the buffers in use (one
that comes into use was in use before or has a new number), and a step of that
kind is a step of `DataLifetime`.  For the scopes, `SInv` adds that a tensor is
flagged exactly when it has given up its reference (`FlagOK`), that saved
clones are kept and those on the tape alive (`TapeOK`), and that open scopes have
different ids and list every live tensor that notes their id (`IdsOK`);
`Reclaims` is proved of every step together with it.  `NoLeak` needs one more
invariant, `LeakOK`: live clones are on the active tape, which is there only
while a `gradients()` runs, and a backward scope is the last one opened.  A function
that throws, or a `gradients()` in a gradient function, breaks it.

### The data of webgl

`PlaceOK` says where each buffer is: on the cpu, in webgl or freed, with which
counts on either side, and whether an entry waits there for the end of a read.
`WInv` is that of every buffer, with the types, `ReadsOK` (the reads that wait are
of different buffers, and `pendingRead` is theirs) and `DisposalOK`
(`pendingDisposal` is part of it, and `pendingDeletes` its size).  The
refinement of `DataLifetime` counts tensors and reads among the holders of a
buffer (`LifeOK`).  `~ReturnEarly` is needed for the reason in section 6; that
counts start at one asks for `MaxRefs >= 1`.

### The stores of models

`StoresStayInAgreement` has no hypothesis but the assumption on the constants:
any faults at any moments, any number of calls and of paths.  `MInv` describes
the order of events.  An operation is answered by the info store, which puts
its second half at the end of the queue of the model store, and no other
operation is answered there before its first half has ended.  So among the
writes that the model store has still to make, only the last can have its info
still to be written (`DueOK`, `HeadOK`), the last write of each path is of the
version that the info store has (`LatestOK`), and a path without writes to come
agrees (`AgreeOK`).  `ControlOK` is what ties transactions to calls: ids of
operations are used once (`SpentOK`, `UniqueOK`), a call waits for the
transaction it has queued (`WaitsOK`), and transactions have the shape their
operation gives them (`ShapeOK`).

The second part strengthens it, as long as nothing has failed, to `AInv`: no path
is damaged, every waiting transaction is of the operation its call is at
(`LinksOK`), what is vouched for is in the info store and no call is removing
it (`SureOK`), and a load that is vouched for will find a model where it stands
in the queue (`VouchOK`).  The lemma everything rests on is `SettledIsInfo`:
what the model store will hold of a path, once every write it has still to make is
made, is what the info store shows next.  So a load may be given its model when
it joins the queue; from then on nothing changes what it finds
(`SameReads`), and every step maps to a step of `AtomicModels` or a stutter.

### The data of webgpu

The theorems have no hypothesis but the assumption on the constants: a batch of
any size, any number of data, tensors and reads.  The record of the state goes
through intermediate states within one call, so what is inductive is a
predicate on records that each of the operations keeps,
`Good(t, C, L, O, D)`: `C` counts the tensors on each data, `L` are the
loose buffers (those in use that are not the buffer of data nor left to a
submission) with what each will hold, `O` are buffers that are named by
commands being recorded though the list of owned ids does not have their data
yet, and `D` is the data that must be whole.  Its parts:

- `PoolOK`: the buffers in use are those of data, the loose ones, and those that
  wait for a submission, with no overlap;
- `QueueOK`: recorded commands name only the buffers of the data that
  `commandQueueOwnedIds` lists, those that wait for the submission, and `O`.
  This is why nothing else needs care: a buffer that is not among them may be
  written, released or used again at once (`Unnamed`, `NotBusy`);
- `ResourcesOK`: no two data share a buffer;
- `CountOK`: what is stored without a tensor waits for the submission, once;
- `WholeOK` and `LooseOK`: what buffers hold once the recorded commands have run.

`DataIntact` speaks of buffers only after all commands; that it is not enough by
itself shows at `submitQueue`, which releases buffers, and at `uploadToGPU`, which writes
one at once.  `ExecutedSame`, `ExecutedKeeps` and `ExecutedAppend` say what
the result of the commands depends on, each by the least command at which it
would fail.  Elementary steps keep `Good` (`AcquiredGood`, `WroteGood`, `PlacedGood`,
`QueuedGood`, `CommandedGood`, `FreedGood`, ...), the methods follow
(`SubmitGood`, `CopyGood`, `UploadGood`, `RecordGood`, `DisposeGood`), and
`IInv`, with one lemma per action, says that between calls the loose buffers
are those that reads wait for, and that ids to come were never used
(`InvariantHolds`).  What a `createTensorFromGPUData` that threw has left is in no one's
hands: `numDataIds` counts it as `CountsExact` says, and nothing else sees it.

### Gradients

`GradientsStayAlive` is of any kernels, any tape and any xs.  That a partial sum is
disposed of is safe as long as no other tensor has it as its gradient, which is
false once a kernel passes its `dy` on.  `TapeOK` says that a node takes tensors
older than those it makes, so that what is still to be done reads gradients of
tensors older than the outputs of the current node; among these no two tensors
share a gradient and none has one that was disposed of (`BackwardOK`).  The outputs
of the current node may share theirs with its first input, but the node reads
them for the last time with its second (`HalfDone`): hence `BinaryDy`, which all
kernels of tfjs-core satisfy, a third input being the case of section 6.

### The execution of graphs

`PlanIsAlwaysValid` and `NothingRunsTwice` are of any graph, with cycles, results
taken twice or intermediate nodes that are fed.  The first needs the facts about the
folds of `model_analysis.ts`: a growing set of nodes is closed after as many rounds as
there are nodes (`GrowthEnds`, `UsedFacts`, `ReachedFacts`), and the nodes ordered
are always those all of whose inputs have been taken off the frontier
(`OrderingOK`, `OrderFacts`).  The second is the argument of `processChildNodes`,
which marks what it pushes (`OnceInv`).

For `execute`, `PlannedInv` says that what was run is what is before the rest of
the plan, and that a result is alive exactly until the position that
`getNodeLiveUntilMap` gives it.  For `executeAsync`, `AsyncInv` says that the count of
`checkTensorForDisposal` is the number of uses of a result whose nodes have not been
run in its context (`CountOK`, `Unspent`), so a node on the stack or with a pending
promise is among those its operands wait for (`ItemsOK`, `FlightOK`).  That
holds only if an operand is found in the context it was counted for, not in
that of another iteration: `MapOK` has every execution in a context as deep as the
loops of its node, which is where `WellFramed` is needed.  It fails for the graphs of the
finding `OutputsComputed`, which it excludes.

It also needs that no result takes the place of another in `tensorsMap`
(`StoredOnce`): one that is replaced is counted for, but cannot be found and is never
disposed of.  Only an `Exit` could replace one, since it stores its result in the context before
the loop whatever the iteration.  `LoopInv` says why it does not.  Each
execution, on the stack, pending or done, has seen the condition of its loops
hold in all the iterations before its own (`IterationsOK`), and that of its own as its place
in the loop asks for, true before a `NextIteration` and false before an `Exit`
(`GuardsOK`); the conditions it has seen are in the map for good (`WasStays`).  Two exits of one
loop in different iterations would have seen the earlier one's condition both hold and
fail (`NotBefore`, `SameKey`).  The values of the conditions do not matter, so the
theorems are of loops that never end as well.

`NothingIsLeft` follows: whatever is alive can be found in the map (`LiveOK`), so the
disposal at the end gets at it, and what is to be returned is alive (`KeptAlive`,
`EndInv`).  The outputs are looked up in the context that is current at the end, which is that
of some execution (`CurrentInv`); results outside loops are found from there as from anywhere
(`OutputsAre`), while an output inside a loop may be found disposed of, so
`OutputsAreOutside` is needed (`Asked`).  A graph without loops needs no hypothesis (`AliveWithoutLoops`), so of
conditionals, dynamic ops and pending promises all of this is proved outright.

### Pipelines of iterators

`UpstreamIsPaced` is of any number of stages, any sources and any order in which
promises settle.  Its invariant is local to a stage (`StageOK`): what a stage has
asked of its upstream is compared with what it has done with the answers.  A
stage that chains `lastRead` awaits the only call of its upstream without an answer
(`SerialOK`); every call that `prefetch` has made is answered or in its
buffer (`PrefetchOK`); every call that `shuffle` has made is served, in
its buffer or awaited, until it sees the end or an error (`ShuffleOK`).  A call
goes down through the stages that call their upstream at once (`AskedIs`); it adds
calls to what these levels have and answers at most one above them (`CallIs`).  The assumption that
buffers hold at least one element is that of the constructor of `RingBuffer`, which
throws otherwise.

### Only model-checked

- The liveness properties: the proof system has no rules for `ENABLED`.
- `GradientsRight`, `AnswersInOrder` and `ShuffleInWindow`, and that the answers of a graph
  are right (in `ExecutionReturns`).  They compare a run with a value defined by
  recursion over data (the sum over all paths, the ideal stream, the answers of a graph),
  which would need an induction over a formula that the installed provers cannot
  instantiate.

## 5. Plan

Done, in order of importance: `BackendRegistry` and `TensorMemory` with their
runs and proofs; `DataRouting` with `WebGLData`; `Tape`; `ModelStore` and
`AtomicModels`; `LazyIterators`; `GraphAnalysis` and `GraphExecution`;
`WebGPUData`; the proofs of `WebGLData`, `ModelStore` and `WebGPUData`, and of
both refinements of `DataLifetime` and the one of `AtomicModels`; the proofs of
`Tape`, `GraphExecution` and `LazyIterators`.

To prove next: the order of the answers of pipelines, which is an induction over their stages.

To model next: the textures that slices share in webgl (`dataRefCount`); the
training loop of tfjs-layers.

## 6. Where the code and what is said of it differ

Kept as runs that TLC must find violated:

- `FailedMoveKeepsSource`, `MCModelStore_move`: `sameMedium` compares the scheme of
  the source with itself, so a move between media removes the source before it
  saves (`model_management.ts:138`).
- `OutputsComputed`, `MCGraphExecution_nested`: a constant of an outer loop that
  is a constant of a loop in it is there in the first iteration of the
  outer loop only, and `executeAsync` throws for want of its outputs
  (`graph_executor.ts:618`).

Met while modelling, each with a counterexample of TLC on the model as it
stands or, where that is said, with one more node or constant:

- a buffer moved out of webgl during a read leaves an entry there that a kernel of
  webgl may take for the buffer (`engine.ts:431`): `HeldDataIsStored` with
  `ReturnEarly`;
- the gradient of `Mod` passes its `dy` on as it is (`gradients/Mod_grad.ts:41`),
  so `tf.grad(x => tf.mod(x, x))(x, dy)` makes the caller's `dy` a partial sum and
  disposes of it (`tape.ts:189`): gradient 1 of `Tape` is in `disposed`;
- a custom gradient that passes its `dy` on for two inputs makes one tensor the
  gradient of both, and `backpropagateGradients` may dispose of it as a partial sum
  of one before it is used for the other: `GradientsAlive` with a `PassesDy`
  for every input;
- an output inside a loop is not recognised as one, since the name that is compared
  has the context added to it (`graph_executor.ts:336`), and is disposed of with its last
  consumer; it is then found in the context that is current at the end, and returned
  disposed of, where `graph_executor.ts:450` says that intermediate nodes can be inspected by
  asking for them: `OutputsAlive` with `Graphs <- MCInspected`;
- after `handleErrors` has ended the stream as its handler asked, the next call goes on with
  it (`lazy_iterator.ts:768`), where the stream should terminate (`lazy_iterator.ts:240`) and
  answer `done` for ever (`lazy_iterator.ts:161`), and so do stages above it:
  `EndIsFinal`, and `AnswersInOrder`, with `Pipelines <- MCStopping`.  `Ideal` is of the
  documented stream, so a handler that ends it is in the passing run only where nothing but
  errors would follow;
- a factory that comes to null counts as a success (`engine.ts:334-362`): `setBackend`
  answers true and no backend is in use, and a later `removeBackend` or `reset` throws in
  the middle (`engine.ts:383`, `engine.ts:1275`): what `SuccessIsRegistered` and, by
  `torn`, three other properties except;
- between the settlement of a factory's promise and the resumption of `setBackend`, a microtask
  may remove the backend, or reset and find it again; `setBackend` then answers true with no
  backend, or with another instance: `SuccessIsRegistered`, `NameMatchesInstance` and
  `ActiveNotDisposed` with `Prompt = FALSE` in `MCBackendRegistry_serial`
  (`engine.ts:287`);
- of two overlapping `setBackend` calls, the one that resumes last installs its
  instance under the name of the other: `NameMatchesInstance` with two callers
  (`engine.ts:282-287`);
- a backend removed while `ready` is still trying it is registered when its
  promise settles (`engine.ts:374`);
- clones on the tape leak when the function given to `gradients` throws
  (`engine.ts:1110`) or when a gradient function calls `gradients`
  (`engine.ts:1142`): `NoSavedLeak` with `Throws` or `NestInBackward`;
- a variable disposed of twice takes another tensor's reference
  (`tensor.ts:599`): `CountsExact` with `Redispose`;
- bytes of shared string data are subtracted more often than added
  (`engine.ts:926`): `numBytes` with a buffer in `StringIds`;
- a put of a model that fails leaves its info behind and the save unanswered, since
  the handler uses a transaction that has ended (`indexed_db.ts:200`): with
  `"putModel"` among the `Faults`;
- a save or a removal answers before its transaction has committed, and its info is
  committed apart from the model, so that a failed commit or a closed page leaves one without
  the other (`indexed_db.ts:196`): `StoresAgree` without its exemption of paths
  that a failure has torn;
- `zip` that has ended with its shortest stream still reads the others, and a later call
  rejects if one of them fails then (`lazy_iterator.ts:1072`): `EndIsFinal` with such a `zip`
  and the fourth element of the source among the `Failures`, of which the passing run
  has the second only.  All its other pairs but those with a handler that ends the stream satisfy
  `EndIsFinal`, with either element failing;
- `handleErrors` that ignores errors, above a stage that chains its calls,
  calls its handler for ever after one error (`lazy_iterator.ts:763`): the calls
  that `NextAnswers` exempts;
- `Print` answers its operand, which `execute` then disposes of while the nodes
  after `Print` need it (`operations/executors/graph_executor.ts:87`): with a
  `Print` node among the graphs;
- `createTensorFromGPUData` that throws for the size or the usage of its buffer has made the
  entry of its data already (`backend_webgpu.ts:563-582`), which `numDataIds` counts from
  then on: `orphans`;
- `read` of webgpu rejects if the tensor is disposed of while it waits
  (`backend_webgpu.ts:536`); the test that says it should not is excluded for
  webgpu (`tfjs-backend-webgpu/src/setup_test.ts:160`).

## 7. Not modelled

- Numerical results of kernels, shaders and the C++ of the wasm backend: no
  control that TLC can say something about.
- Shapes and dtypes, but for strings; complex tensors (a tensor of two data
  buffers).
- In webgl, textures shared by slices and their recycling; in webgpu, timers,
  compilation ahead of use, movement of data to other backends and the disposal of
  the backend.
- `profile`, `time` and debug mode: they observe.  Two `profile()` calls that overlap share
  one `activeProfile` (`engine.ts:976`), which spoils what they report and nothing else.
- Gradients of gradients in `Tape` (the life of a nested tape is in
  `TensorMemory`), and the gradient functions of the kernels.
- `assign` of a variable to itself; scopes opened and closed by hand around an
  `await`, which the documentation of `tidy` excludes.
- Model io over http, files and the DOM: fetches and byte layout.  The purges of the stores
  (`deleteDatabase`, `purgeLocalStorageArtifacts`), which only tests call.
- In tfjs-data, the readers of files, text, urls, microphones and webcams, and
  the disposal of tensors inside elements.
- In tfjs-converter, functions (`If`, `While`), tensor lists and arrays, hash
  tables, and intermediate tensors kept for debugging.
- tfjs-layers: the arithmetic of layers is numerical; the training loop (`fit`,
  callbacks, `stopTraining`) is sequential code around `await` and is
  left for later.
- Bindings to libraries outside the repository (tfjs-node, tflite, tfdf,
  react-native), tfjs-vis, generated code, build scripts, benchmarks.

# A TLA+ model of PyTorch's concurrent runtime

This directory holds TLA+ specifications of the parts of this repository whose
correctness depends on the order in which threads, callbacks, messages,
collectives and kernels happen. TLC checks them on small instances; TLAPS proves
some of the results for every instance.

## The system, seen from its concurrency

| part | state | operations | what makes it hard |
|---|---|---|---|
| autograd engine, plan of a pass (`engine.cpp`: `compute_dependencies`, `init_to_execute`) | `dependencies_`, `exec_info_` | two graph searches before a pass starts | pruning by topological number; an iterative depth-first search |
| autograd engine, execution (`engine.cpp`, `engine.h`) | one `ReadyQueue` per device and user thread; `GraphTask` with counters, input buffers, future; thread-locals; reentrant pool | `execute`, `thread_main`, `evaluate_function`, `set_exception`, `mark_as_completed_and_run_post_processing`, `add_thread_pool_task` | several passes share device threads; reentrant passes; errors on one thread while others go on; waking a sleeping owner |
| RPC remote references (`rref_context.cpp`, `rref_impl.cpp`) | owners, forks, pending users and children | fork, accept, delete, confirm | messages reordered, lost, retried |
| RPC agent (`rpc_agent.cpp`, `tensorpipe_agent.cpp`, `agent_utils.cpp`) | pending calls, timeout map, retry map, call counts, four mutexes | `send`, `respond`, `pollTimeoutRpcs`, `retryExpiredRpcs`, `join`, `shutdown` | answers, timeouts and broken pipes race; calls made by functions, callbacks and retries while workers join |
| gradient reducer of DDP (`reducer.cpp`, `distributed.py`) | buckets, ready marks, used maps, hook counts | autograd hooks, `finalize_backward`, `rebuild_buckets`, `no_sync` | hooks in any order on every rank; collectives must match; state carried between iterations |
| CUDA caching allocator (`CUDACachingAllocator.cpp`, `CUDAGraph.cpp`) | blocks, pools, events, statistics, private pools | `malloc`, `free`, `recordStream`, `emptyCache`, captures | kernels run later than the host; two mutexes; graphs that share a pool |
| `LeftRight` (`LeftRight.h`), under the dispatcher's table | two instances, two counters, two indices | `read`, `write` | readers that take no lock; write functions that throw |
| distributed autograd (`container.cpp`, `context.cpp`, `dist_engine.cpp`) | contexts per pass | backward over several workers, clean-up | messages between engines |
| rendezvous stores (`TCPStore.cpp`, `FileStore.cpp`, `HashStore.cpp`, `PrefixStore.cpp`) | key-value map, waiters | `set`, `get`, `add`, `wait`, `compareSet` | time-outs, several clients |
| elastic rendezvous (`dynamic_rendezvous.py`) | rendezvous state with CAS | join, keep-alive, close | crashes, optimistic concurrency |
| data loaders, `c10::ThreadPool`, `ivalue::Future` | queues, counters, callbacks | prefetch, `waitWorkComplete`, `markCompleted` | workers finish out of order; callback added while completing |
| other allocators, CUDA IPC, libshm, `intrusive_ptr` | blocks, reference counts | allocate, free, retain | process exit, memory order |
| kernels, JIT passes, `nn`, `optim`, `onnx`, `fx`, `package` | mostly none shared | pure functions | not a state machine |

How they interact: the reducer is driven by hooks of the autograd engine, whose
callbacks at the end of a pass it uses; RRefs send their control messages with
the agent's `sendWithRetries`. Each model has the part of its neighbour that it
depends on: `Reducer` lets hooks fire in any order and runs the queued callback
after the last; `RRefProtocol` has one state per retried call, which
`TensorPipeAgent` refines into maps, threads and locks; the agent's pipes, the
process group and CUDA are external.

## Modules

| module | models |
|---|---|
| `BackwardGraph` | the autograd graph: which nodes a pass expands, what every node waits for, which nodes must run; mathematical definitions |
| `GraphTaskInit` | the two loops of `Engine::execute` that compute those sets, step by step, checked against `BackwardGraph` |
| `AutogradEngine` | the execution of passes by all threads |
| `AutogradEngineTypes`, `AutogradEngineCalls`, `AutogradEngineProofs` | the first inductive invariant; types, nesting of calls, the count of outstanding tasks, the pool: TLAPS proofs |
| `AutogradEngineGradients`, `AutogradEngineDelivery`, `AutogradEngineGradientProofs` | the second inductive invariant; complete gradients, one call per function: TLAPS proofs |
| `RRefLifetime` | what remote references promise: a shared pointer across workers |
| `RRefProtocol` | the RRef protocol: owner, users, control messages, retries, shutdown; shown to implement `RRefLifetime` |
| `TensorPipeAgent` | the RPC agents of a group: calls, timeouts, retries, join, shutdown |
| `Reducer` | the reducers of a DDP group, their collectives and gradients |
| `DeviceCachingAllocator` | the allocator of one GPU: its operations as functions of its state |
| `CUDACachingAllocator` | threads, streams, graphs and the pointer map on top of it |
| `AllocatorSizes` | the arithmetic of block sizes: TLAPS proofs |
| `AtomicCell` | what `LeftRight` promises: one value, read and written atomically |
| `LeftRight`, `LeftRightProofs` | the structure itself, and TLAPS proofs that it implements `AtomicCell` |
| `MC...` | instances for TLC |

### How AutogradEngine corresponds to the code

* A *frame* is an activation of `thread_main`: one per device thread, and one
  per graph task that a thread drives. Thread-locals (`worker_device`,
  `local_ready_queue`, `total_depth`, `current_depth`) are functions of the
  frame. A frame whose function called `backward` again is at `call` until that
  call returns.
* `pc[f]` names the place in `thread_main`/`evaluate_function`: `loop` (the
  `while` condition), `pop`, `eval`, `apply` (in `call_function`), `propagate`
  (the loop over the outputs, with `GraphTask::mutex_` held), `throw`/`signal`/
  `set_error` (`set_exception`), `decrement`, `check` (`completed()`),
  `mark`/`await`/`post` (`mark_as_completed_and_run_post_processing`) and
  `notify` (the dummy task). Every access to state that other threads can see is
  a step of its own, unless a lock is held around it.
* A gradient is the edge it came over; an `InputBuffer` is the set of edges
  accumulated in it. The value is not modelled.
* `NodeTask.base_` is a weak pointer: `IsAlive` says who still owns the
  `GraphTask`. When a task in a heap has expired, its key changes under the
  heap, so `Top` allows any entry.
* `execute()` computes the plan before any other thread can see the task, so
  `Enqueue` uses the sets of `BackwardGraph` in one step.
* Exceptions: a function in `throws` may raise in `call_function`; its final
  callback may raise too.

### How RRefProtocol corresponds to the code

* The model follows one RRef; the tables of `RRefContext` are keyed by `RRefId`
  and RRefs do not interact, except through the static handlers of
  `RRef::handleError` (see Further observations); the model is of the first RRef of a process
  that has an error.
* The owner's tables are `owners` (the instance in `owners_`), `forks`
  (`forks_`) and the pairs with instance 0 in `waiting` (`pendingOwners_`).
  `assigning` and `computing` are remote calls in `assignOwnerRRef`: before
  `addForkOfOwner`, and before the function's value is set.
* A `UserRRef` is its `ForkId`. `held`, `pendingUsers` and `pendingChildren` are
  the three kinds of owning pointers to it. `Release` gives them new values and
  runs the destructor (`tryDel`) of every UserRRef that lost its last one, in
  the same step.
* A message is `share` (an RRef in the arguments of some call), `remote`,
  `fetch` (`to_here`) or a control message. Delivery is in any order. Every
  attempt of a retried call is a message of its own; a late reply to an attempt
  that timed out is dropped, a late request is processed.
* One critical section of `RRefContext::mutex_` is one step. Handlers with two
  sections are split where another thread can make a difference in between
  (`ProcessRemoteCall` and `AddForkOfOwner`). In `prepareChildFork` and in
  `notifyOwnerAndParentOfFork` it cannot: the fork that the first section adds,
  or the second one removes, keeps `forks_` non-empty in between.
* User code: a call starts when its RRefs are confirmed
  (`waitForThreadLocalPendingRRefs`), so a received fork is `Usable` when it is
  not pending. The creator may use its RRef at once. `Leavers` take part in
  graceful shutdown, which starts when every worker has reached it.
* An error of `remote()` other than a timeout throws out of the callback
  (`RemoteFails`), as does a control call whose retries are exhausted: what the
  callback would have cleaned up stays.

### How TensorPipeAgent corresponds to the code

* A call is one `send()`. `cpc` is the place in it; between two places other
  threads run: the future is filed under the pipe (`pended`), counted in
  `clientActiveCalls_` (`counted`), put into `timeoutMap_` and written, and, in
  `sendWithRetries`, given its retry callback (`sent`, `returned`). The program of a scenario says who
  makes a call: the main thread, a function a worker serves, a callback of a
  future, or the retry thread.
* `wire` is what the client's pipe has seen of request and response. A pipe in
  `closed` ends every operation on it in an error callback.
* `markFutures` is the exchange of `AtomicJitFuture::isComplete`; the completion
  itself is a task of the caller's thread pool (`Complete`), which runs the
  callbacks and then takes the call off the count (`EndComplete`).
* The timeout thread is `check` / `decided` (with `timeoutMapMutex_`) / `waiting`
  / `dozing` / `marking`. Deadlines are a choice: any nonempty part of the map
  may have expired. The retry thread holds `rpcRetryMutex_` while it sends.
* `join` is its loop: wait for no active calls, barrier, vote with
  `callCountMutex_` held, decide, and the last barrier. A barrier is a counter in
  the store, keyed by `barrierId`.
* `shutdown` is four steps: the flag; the notification of the timeout thread once
  the retry thread is joined; closing the pipes once the timeout thread is
  joined; and `waitWorkComplete`.

### How Reducer corresponds to the code

* `reducer[r]` is the `Reducer` object; its fields have the names of the members.
  A bucket's contents are kept by parameter, and `alias` has the parameters whose
  gradient is a view of the bucket.
* Every method holds `mutex_`, so it is one step, up to where it waits for a
  collective. `finalize_backward` takes place when all it waits for is complete,
  or fails its assertions before it waits.
* The two broadcasts of `sync_bucket_indices` (`reducer.cpp:1611`, `1630`) are one
  collective: each rank starts the second right after the first, with nothing in
  between that another rank can see.
* A gradient is a number: every rank and iteration adds its own power, so that a
  sum tells which gradients are in it. Division by the world size is exact on
  the numbers used.
* The k-th collective of a rank meets the k-th of the others (`issued`).
* A graph says which hooks fire, how often, and which parameters get a gradient:
  a hook may fire with an undefined gradient.

### How the allocator modules correspond to the code

* `d` is `DeviceCachingAllocator`, whose `mutex` covers each operation, with the
  CUDA runtime beside it: segments given out, work queued on streams, captures.
  Blocks are records with the members of `Block`; the pools are one set
  (`pooled`), as each block names its pool.
* `THCCachingAllocator::malloc` and `free` are two steps each, since the pointer
  map has a mutex of its own.
* Kernels and events queue on streams and execute in stream order at any later
  time. The program follows the documented rule to `record_stream` a tensor used
  on another stream.
* `CUDAGraph::reset` and the destructor are separate operations, and `reset`
  leaves `has_graph_` and `has_graph_exec_` as the code does. When an assertion of
  `notifyCaptureDestroy` fails, `reset` raises and the graph stays as it is; in the
  destructor this ends the process, so there is no such step.
* cudaMalloc uses the lowest address that fits; it fails beyond `Capacity`.

### How LeftRight corresponds to the code

Each load, store or increment of an atomic is a step; so are the start and the
end of a write function, and what a reader sees of an instance in between is
`Torn`. A write function may throw in either call. The code uses the default,
sequentially consistent order for its atomics, so interleaving is the right
semantics.

## Runs

| run | question | distinct states |
|---|---|---|
| `graph_task_init` | on all graphs of four nodes (one or two edges per inner node, possibly invalid or doubled), all sets of up to two outputs, both modes: do the searches compute the right counts and the right `exec_info_`, and is the plan executable? | 422,400 |
| `engine_two_users` | two user threads, one graph over CPU and GPU, raising functions and callbacks: counts, complete gradients, one call, one result, everybody returns | 245,224 |
| `engine_nested` | `grad()` and `backward(inputs=)` as reentrant calls from a CPU and a GPU function, and two calls below them that are deep enough for the pool: the plan fits, nothing is left waiting, errors reach the outer pass, the pool has a thread for every task, everybody returns | 240,855 |
| `rref_faults` | RRefs made in every way and shared early; timeouts too soon, failing calls, exhausted retries, impatient shutdown of users: assertions, G2, value kept | 1,507,334 |
| `rref_live` | one control message lost, the owner may shut down: no leak, `to_here()` is answered, the owner forgets the RRef | 283,286 |
| `left_right` | three readers, two writers whose functions do not commute and may throw: an atomic cell, equal instances, every write returns | 518,760 |
| `rpc_agent` | nested and follow-up calls, a retried call; timeouts, broken pipes, device errors, a worker that quits: one completion, one place for a retry, join is a barrier; calls, retries and join end | 356,169 |
| `reducer` | two ranks, three parameters in two buckets, up to three iterations, 20 set-ups: matching collectives, right averages, no failing check, nobody stuck, no collective in `no_sync`, with the exceptions stated below | 906,297 |
| `cuda_allocator` | six programs: neighbours, several streams, full device, two threads, two graphs, capture beside other streams: the heap, the statistics, reuse, lookup, graph memory, release | 736,610 |
| `rpc_shutdown`, `reducer_no_sync`, `cuda_graph_reset` | see Findings | |

`OwnerKeepsValue` is a refinement: `RRefProtocol` implements `RRefLifetime`,
with `refs` the forks that were sent and not deleted, and `stored` that
`owners_` has an instance that has or will get the value. A creator whose
`remote()` timed out does not count (using it raises), nothing counts once the
owner shuts down, and nothing once the creator has shared an RRef that
`remote()` has not confirmed (`sharedEarly`): then the value can really be lost,
see Further observations. `ParentOutlivesPending` is G2 of the design notes in
`rref_impl.h`. `ReadsAreAtomic` is the refinement of `AtomicCell`.

`JoinIsABarrier` excuses what functions do whose call had ended without an answer
(a timeout, a broken pipe), and retries that are not due: the agent does not count them, so `join()` may return
before they end. `RetriesEnd` excuses a worker that is shut down: the futures of
RPCs that wait in `rpcRetryMap_` then are never completed. `GradIsAverage`
excuses the gradients of finding `reducer_no_sync`. `ChecksHold` and
`NobodyIsStuck` excuse a graph that leaves out parameters although
`find_unused_parameters` is not set, which the reducer reports.

`NoSyncStaysLocal` has one exception, `FirstIterationAgain`, and `no_sync` is not
local there. In Python `num_iterations` counts synchronized forwards only. With a
static graph, in a `no_sync` pass right after the first synchronized one it is
still 1, and the `_DDPSink` of that pass (`distributed.py:166`, `946`) queues
`delay_all_reduce` again. This starts the collectives of all buckets, and then
`finalize_backward` fails its assertion on `expect_autograd_hooks_`. That failure
is the other exception of `ChecksHold`. Three of the set-ups get there; without
the exceptions TLC reports both properties violated. The exception allows only
the `DelayAllReduce` step, at the end of such a pass.

### Bounds

`max_recursion_depth` is 1 instead of 60 in the run with reentrant calls, so that
two nested calls reach the pool. Two graph tasks suffice for interference between
passes, five give a reentrant call on each device and two in the pool; a
graph with a join over two devices has the races on a dependency count; one GPU
and one or two users give every pair of threads. The theorems about the engine
have no such bounds.

For RRefs, `MaxRetries` is 1 instead of 5, so that one retry and its exhaustion
both happen; `MaxLosses` and `MaxEarly` (a call that times out with its message
under way) are at most 1, since each can be the first copy of a message that
comes back late. `rref_faults` loses no message: for safety, a lost message is
one that stays under way after its call has timed out. Two forks on three workers
have a chain, two siblings and a fork back to the owner. Forks, and the workers
that are not the owner, are interchangeable in every definition and in the sets
of `rref_faults`, hence its symmetry set; `rref_live` does not use one. Larger
instances were checked once, with the same result: three forks (800,577 states),
and `rref_faults` with owner and users shutting down (2,985,053).

Two calls between two workers have each race of `TensorPipeAgent`: an answer
against a timeout and a broken pipe, a call made by a function, a callback or the
retry thread while both workers join. `MaxSync` is 6, and no behaviour uses it
up: a `join()` that needed another key would not return, against `JoinEnds`. Programs of three calls were checked for safety once (25.8
million states).

Two ranks and two buckets let ranks disagree about the order and about which
parameters are used; three iterations are a first one, one with rebuilt buckets,
and one that inherits state from `no_sync`.

The allocator's sizes are in units of 256 KiB with the code's ratios, so that
small, large and oversize blocks, splits and a full device all happen; active
blocks and queued kernels per stream are bounded by each program (`max_active`,
`max_work`).

`CHECK_DEADLOCK FALSE` is said of the agent, the reducer and the allocator:
their programs end.

### Fairness

Engine: weak fairness of each frame, of the calls and of the pool, that is, of
each thread. The operating system schedules every runnable thread, and functions
and callbacks are assumed to return. Nothing is assumed of a frame asleep in
`pop()` with an empty queue. `Execute` by a user thread is not fair: a program
need not call `backward`.

RRefs: messages that are not lost are delivered, the loss of one is noticed
(`pollTimeoutRpcs`) and its backoff ends (`retryExpiredRpcs`), functions return,
and user code drops its references in the end.

Agent: threads are scheduled and functions end; no answer has to arrive. Strong
fairness of `TimeoutTake` says that clocks advance: a thread that looks at the
map again and again finds an entry expired some time. The other steps are
finitely many in a behaviour, so one weak fairness condition on their disjunction
is weak fairness of each. Nobody has to call, join or shut down.

`LeftRight`: a thread inside `read` or `write` is scheduled, and the functions
they run end. Nobody has to start, and readers may come for ever.

## What is proved

### The engine

For every finite graph with a topological numbering, every finite set of graph
tasks, users and devices, and every maximal depth (`GraphAssumption`,
`CallAssumption`, `ThreadAssumption`, `NoTaskAssumption`):

* `TypeCorrect`: the type invariant. That `outstanding_tasks_` stays a natural
  number is not local to any step: it needs `Counted` (the tokens, that is the
  queue entries and the working threads of a pass, are never more than the
  counter), which needs `CallsNest` (a call returns to a frame that waits for
  exactly this call), `PoolQueue` and `Evaluation`. Their conjunction `IInv` is
  the inductive invariant.
* `PoolHasEnoughWorkers`: the pool never has more tasks than threads coming.
* `GradientsComplete`: a function is queued only with every gradient it waits
  for in its input buffer.
* `DependencyFound`: the checks of `evaluate_function` that raise "dependency
  not found" never fail.
* `FunctionCalledOnce`: no step calls a function that was already called for
  the same graph task.

The last three follow from a second inductive invariant, `GradInv`, that holds
together with `IInv`. None of them is inductive: to know that a count reaches
zero once, `Books` says that `dependencies_` is the number of edges not yet
handed on and that an input buffer in `not_ready_` has exactly the others;
`Origin` that only a called function hands gradients on; `HeldReady` how far the
loop over its outputs is; `Unique` that a function is in one queue entry or in
one thread's hands. With `Unique`, a function that two producers could both find
ready would have to be in two places. That the function at the end of an edge
is counted at all is a lemma about pruning: a needed function has a number not
below the smallest output's, and so has every function on the way to it
(`NeededIsNumbered`, by well-founded minimality). There is one lemma per kind of
step; the steps that change nothing `GradInv` speaks of share one
(`QuietStep`).

### LeftRight

For every finite set of readers, every set of writers and values, and all write
functions (`ReaderAssumption`, `ValueAssumption`):

* `TypeCorrect`, `InstancesEqual` (`InstancesAgree`) and `ReadsAtomic`: every
  behaviour of `LeftRight` is one of `AtomicCell` under the mapping `value` = the
  foreground instance, `seen` = what each reader sees.

The inductive invariant has three parts. `Counted`: a counter is the number of
readers between their increment and decrement. `Stragglers`: which readers may
be in the background instance: none before the data index is switched, any of
them during the first wait, after it only those that the foreground counter
counts, during the second wait only those that the counter now in the background
counts, and none after that. This is why both waits are needed, as a
reader may load the counter index before a switch and the data index after it.
`OneAhead`: at each place one instance is exactly one write ahead of the other.
A step on the background instance is then invisible, and the write takes effect
at `SwitchData`.

### Sizes of the allocator

For all constants in the ratios of the code (`SizeAssumption`): `RoundSize`,
`AllocationSize` and `PartsAreNotOversize`. A segment made for a request below
`max_split_size` can itself be as large as that; the last theorem says that when
`should_split` cuts it, neither part is. This is what allows
`release_available_cached_blocks` to free blocks of at least `max_split_size`
without asking whether they are split.

### Only model-checked

Liveness (`BackwardReturns`, `FetchIsAnswered`, `OwnerForgets`, `EveryCallEnds`,
`RetriesEnd`, `JoinEnds`, `WriteReturns`): the proof system has no support for
fairness and `ENABLED`. What the loops of `GraphTaskInit` compute, the RRef
protocol, the agent, the reducer and the rest of the allocator are also only
model-checked.

## Findings

`rpc_shutdown`: `shutdown()` clears `rpcAgentRunning_` under `rpcRetryMutex_`, and
`shutdownImpl` notifies `timeoutThreadCV_` without `timeoutMapMutex_`. A timeout
thread between its look at the flag and its `wait` misses the notification; when
its map is empty it sleeps for ever, and `shutdownImpl` waits for it.

`reducer_no_sync`: in `no_sync()`, `autograd_hook` returns before it marks the
parameter as used. With `find_unused_parameters`, a parameter used only there, and
by no rank in the next synchronized pass, counts as globally unused: the gradient
that each rank has accumulated for it is not synchronized, against what the
docstring of `no_sync` says.

`cuda_graph_reset`: `CUDAGraph::reset` does not clear `has_graph_exec_`,
and the destructor calls it again, so a graph that was reset
gives up its share of the private pool twice. With a second graph in the pool,
`emptyCache` then frees memory that graph replays on.

### Further observations

These come from the same models. Unless an item says otherwise, they need other
instances and have no run here.

* Engine: when a reentrant call was handed to the pool and its pass has work on a
  GPU, the pool thread and the owner pop from one queue, and the dummy task that
  should wake the owner (`engine.cpp:449-463`) can be taken by the pool thread,
  which then leaves. The owner sleeps for ever. `engine_nested` keeps the passes
  that the pool drives on the CPU.
* RRefs: `assignOwnerRRef` finds the `OwnerRRef` and registers its creator in two
  critical sections. The delete of an early fork in between erases the `OwnerRRef`
  of an RRef in use. The same happens, without this window, when a fork reaches
  the owner before the `remote()` call and another fork is registered and
  deleted: the call then makes a second `OwnerRRef`, and whoever holds the first
  one waits for ever.
* RRefs: control messages are idempotent only while the fork lives
  (`rref_context.cpp:741-745`). A fork request that was retried, and whose first
  copy arrives after the delete, registers the fork for ever. `rref_live`
  therefore loses messages but does not delay them past a timeout.
* RRefs: `RRef::handleError` keeps its handlers in a static map of lambdas that
  capture `this`, so only the first RRef of a process whose `remote()` times out
  is marked as such. `handleRRefDelete` of `RequestCallbackNoPython` dereferences
  the deleted RRef without a test, although `delForkOfOwner` returns none for a
  duplicate; `RequestCallbackImpl`, which Python processes use, does test it.
* Agent: `send()` files the future before `getDevicesForRemote` may throw. If the
  pipe breaks later, `handleClientError` completes a call that was never counted,
  `clientActiveCalls_` becomes -1 and `join()` does not return (scenario
  `DeviceErrorThenBreak` of `MCTensorPipeAgent`, property `JoinEnds`).
* Reducer: the exception of `NoSyncStaysLocal` (see Runs; the `reducer` run does
  contain it) is against the docstring of `no_sync`, a context manager "to disable
  gradient synchronizations across DDP processes" (`distributed.py:862`).
* Allocator: running out of memory during a capture ends in an internal assertion
  (`captures_underway == 0`) instead of the out-of-memory error, and the pool of a
  capture that CUDA finds invalid is never given back. (When only the
  instantiation fails, `has_graph_` is set and `reset` gives it back.)

## Not modelled, and the plan

* Engine: `stop` and `release_workers` (process shutdown), CUDA streams, the
  values of gradients and what hooks do to them, anomaly mode, final callbacks that
  install further callbacks (`engine.cpp:541-602`), `exit_on_error` and the
  queue of the distributed engine.
* RRefs: types, devices, Python objects, `destroyInstance`, `numPendingFutures_`,
  and any crash of a worker (which the code does not handle).
* Agent: metrics, device maps beyond the error of a missing one, streams, worker
  names, the accepting side of connections, calls without a timeout.
* Reducer: sparse gradients, several types or devices, communication hooks, join
  mode, `DDP_SET_LAST_BUCKET_CAP`, distributed autograd contexts, logging,
  `verify_params_across_processes`, buffers, and a rank whose output depends on no
  parameter.
* Allocator: `replay`, free-memory callbacks, several devices, snapshots and peak
  statistics, memory fractions, uncached mode, IPC, an unlimited `max_split_size`.
* `LeftRight`: the destructor and `RWSafeLeftRightWrapper`.

Next, in this order:

1. Proofs about `RRefProtocol`: its types and `ParentOutlivesPending`, then that
   it implements `RRefLifetime` while `sharedEarly` is empty. The invariant needed
   is that an unconfirmed fork has a confirmed ancestor that is not deleted.
2. `RRefProtocol` over `TensorPipeAgent`, instead of one backoff state per call.
3. `ivalue::Future` and `c10::ThreadPool`, on which the others rest.
4. Distributed autograd: contexts, their clean-up messages, and the distributed
   engine on top of `AutogradEngine`'s graph task.
5. The data loaders (order of batches, exceptions, `reset`), refining a
   sequential iterator.
6. Stores and elastic rendezvous: `compareSet` and the rendezvous state machine
   over it, with crashes and time-outs.
7. The host allocator, CUDA IPC counters and the dispatcher's registrations.

The modelled components are a small part of the repository by lines: most of it
is outside what this method can say something about. Out of scope for good are
kernels and generated code, compiler passes and serialization (sequential
programs over large data), and the Python front end.

# A TLA+ model of ETFW

ETFW is a C++ framework for embedded applications: services with a lifecycle, run by a thread or in their owner's
context, that talk through message routers, queues and a broker. This directory holds TLA+ modules that model its core,
the TLC configurations that check them on small instances, and proofs for the TLA+ proof system.

Paths below are relative to the repository. "TLC" marks what is checked on the instances listed under *Runs*,
"proved" what `tlapm` has proved for all values of the constants.

## The system

| Component | State | Operations | Talks to |
|---|---|---|---|
| Service lifecycle (`src/svcs/iSvc.cpp`, `inc/etfw/svcs/iSvc.hpp`) | `IsInit`, `IsStarted` | `init`, `start`, `stop`, `cleanup`; user hooks `app_init`, `pre_run_init`, `process`, `post_run_cleanup`, `app_cleanup` | forwards to the application, which forwards to its runner |
| Runners (`src/svcs/Runner.cpp`) | `State` (nine values) | `PassiveRunner::start/stop`; `iActiveRunnerExt::start/stop`, `task_sm` | shares `State` between the owner's thread and the service's thread, without a lock; stops children |
| OS thread (`src/os/posix/Task.cpp`) | `state_`, `handle_` | `start`, `join`, `runner` | `state_` is read by `start`, written by the new thread |
| Applications and children (`src/svcs/App.cpp`, `inc/etfw/svcs/App.hpp`, `AppChild.hpp`) | registry of children, static brokers | `register_child`, `start_child`, `send_cmd`, `subscribe_*` | parent starts children; a parent's runner stops them |
| Executor (`src/svcs/Executor.cpp`) | registry of applications | `register_app`, `start_all`, `start`, `stop_all`, `stop` | lifecycle calls on every application |
| Queue (`inc/etfw/msg/BlockingMsgQueue.hpp`, `src/os/posix/CountSem.cpp`) | ring with two indices, semaphore | `emplace`, `push`, `front` with and without timeout | sender's thread to component's thread |
| Queued router (`inc/etfw/msg/Router.hpp`) | the queue | `receive`, `process_msg_queue`, `receive_msgs` | called by `iApp::send_cmd`; hands messages to the component |
| Buffer pool (`src/msg/Pool.cpp`, `Pkt.hpp`) | `Stats`, reference counts in the buffers | `allocate` (three forms), `release` (two forms) | mutex `mut_`; last shared message returns the buffer |
| Broker (`src/msg/Broker.cpp`) | list of subscriptions, `lock_`, `Stats` | `send`, `send_buf`, `register_pipe`, `unregister_pipe`, `get_message_buf`, `return_message_buf` | pool, pipes |
| Pipes (`Pipe.hpp`, `Subscription.hpp`) | list of message IDs, handler or queue | `subscribe`, `unsubscribe`, `receive` | called by the broker under `lock_` |
| Files, sockets, select (`src/os/posix/File.cpp`, `Socket.cpp`, `Select.cpp`) | descriptor, mode and flags of each handle; the set of `Select` | `open`, `close`, `read`, `write`, `size`; `open`, `close`, `bind`, `send`, `receive`, `set_type`, `set_domain`; `add_fd`, `clear_set`, `read_wait` | the kernel's table of descriptors, which all handles share |
| Message IDs, telemetry requests (`Message.hpp`, `TlmReqHandler.hpp`) | - | packing, unpacking, conversion, search | whoever subscribes or asks |
| Statistics example (`examples/Messaging`) | `MsgTbl`, the scheduler's count, a dynamic subscription | `add_id`, `remove_id`, `notification`, `MsgScheduler::run`, `run_loop` | table -> observer -> subscription -> pipe -> application's thread |
| Programs with children (`examples/ActiveWithChildren`, `PassiveWithChildren`) | two command queues, a counter | `main`, hooks, handlers | an application and two children, over everything above |
| Mutex, logger, traits | - | one system call, formatting, compile time | used by the rest |

What is hard about it:

- **Two threads and one word.** The owner and the service's thread both test and write `iSvcRunner::State` without a lock,
  and `start()` returns before the thread has run. Every test may be stale when the write that depends on it happens.
- **Answers that are dropped.** `App::start_` and `stop_` return OK whatever the runner said, so `IsStarted` follows the
  calls and not the runner.
- **Nobody waits.** `stop()` only asks; restart and cleanup may come while the old thread is winding down.
- **Two counters for one queue.** Ring indices and semaphore change in separate steps on separate threads.
- **Shared buffers.** The last of several threads to drop a message must return it, exactly once.
- **Numbers that come back.** A descriptor that was closed is given out again; a `Select` keeps numbers, not handles.
- **Two lists to keep in step.** The message table changes in one object, the subscription that delivers in another, and
  the IDs in each can be overwritten, doubled and removed in any order.
- **Partial failure.** Hooks, thread creation, allocation and queues may each fail in the middle of an operation.

`PROJECT.json` lists the hazards line by line with the properties that cover them.

What makes each component correct: a service never has two threads, every launch and every accepted stop comes to an end,
and a runner that promises progress has somebody to make it; the queue is a bounded FIFO whose consumer sleeps only if
it is empty; a buffer lives as long as somebody holds it and then goes back to the pool; all pipes see one order; the
executor's loops pass nobody by, and an application cleans up after its children were told to stop, not before; a
descriptor has one handle, and what the handle says of it is true unless the handle was opened again while it was
open; what enters the message table at run time is subscribed, what was taken out is not.

## Modules

| Module | Models | How state and actions correspond |
|---|---|---|
| `RunnerContract` | what a runner promises (abstract) | `State` and whether a thread exists; one action per change a user of the runner can tell |
| `SvcRunner` | one active service: `iSvc`, `App`'s `init_`/`start_`/`stop_`/`cleanup_`, `iActiveRunnerExt`, `Os::Thread` | the fields keep their names; `ctl` is where the owner is in a call, `pc[t]` where thread `t` is in `Thread::runner` and `task_sm`. One step per access to a field the other side can see |
| `SvcRunnerProofs` | theorems about `SvcRunner` | |
| `BoundedFifo` | what a queue promises (abstract) | one FIFO, each call taking effect at one instant |
| `BlockingMsgQueue` | `BlockingMsgQueue`, `CountSem`, `QueuedRouter` | `slots`, `write`, `read` are the ring of `etl::queue_spsc_atomic`, `sem` the semaphore, `ppc` and `cpc` positions in `emplace` and `process_msg_queue` |
| `BlockingMsgQueueProofs` | theorems about `BlockingMsgQueue` | |
| `MsgBufPool` | the pool and its statistics | each operation is a critical section of `mut_` and one action |
| `MsgBroker` (extends `MsgBufPool`) | broker, reference counts, pipes, senders, consumers | `ref`, `size`, `id` are the fields of a buffer, `routers` the broker's list, `queue` the queues of shared messages, `pc` and `buf` where each thread is and what it holds |
| `SharedBuffer` | what the broker promises about a buffer (abstract) | the life of one buffer: in the pool, owned, shared by a number of copies, being deleted, or lost; one action per change, no thread named |
| `MsgBrokerProofs` | theorems about `MsgBroker` and the pool | |
| `MCMsgBroker` | symmetry of the instance for TLC | |
| `Services` | several services, active and passive, with children: `iSvc`, the runners at the grain of `RunnerContract`, `iApp`'s registry, `start_child`, `stop_children` | the fields of `iSvc` and `iSvcRunner` per service; `at` is where the thread that runs a service is in its runner, `i` the loop variable of `stop_children`, `pending` the calls between their test and their last write. `SvcSpec` is any program that calls the applications; `Executor` and `Examples` are shown to implement it |
| `ServicesProofs` | theorems about `SvcSpec`, and the lemmas the next two share | |
| `Executor` (extends `Services`) | `iExecutor` and the main thread | `Registered` is `iExecutor::Apps`; `op` and `left` are the call in progress and the part of the list its loop has before it. `InitTurn`, `StartTurn`, `StopTurn` are what the loop's body does to one application |
| `MCExecutor` | the program for TLC | |
| `ExecutorProofs` (extends `ServicesProofs`) | theorems about `Executor` | |
| `Examples` (extends `Services`) | the programs `ActiveWithChildren` and `PassiveWithChildren` | `main` counts the calls of `main()`, `cmds` and `local_cmds` are the queues of the two routers, `iters_left` the counter of the one-shot child. The hooks of `Services` are constrained to what those of the examples return |
| `MCExamples` | which child belongs to which program | |
| `ExamplesProofs` (extends `ServicesProofs`) | theorems about `Examples` | |
| `MsgIds` | identifiers and the search of `TlmReqHandler` | pure operators: shifts and masks as products and remainders |
| `StatsMon` (extends `MsgIds`) | the program `Messaging`: scheduler, message table, dynamic subscription, statistics application | `msg_tbl` is the vector of the table, `copies` how often an ID is in the subscription's list, `entry` how far `MsgScheduler::run` has come, `pc` where the application's thread is in `run_loop` |
| `MCStatsMon` | a table and a schedule for TLC; evaluates `MsgIds` on some bytes | |
| `StatsMonProofs` | theorems about `StatsMon` and about identifiers | |
| `OsHandles` | `Os::File`, `Os::Sock`, `Os::Select` over one table of descriptors | `kernel` is that table, `file` and `sock` the fields of the handles, `RdSet`, `RdSetIdx`, `MaxFd` those of `Select`. A method that changes state is an action, one that does not is the set of statuses it may return |
| `OsHandlesProofs` | theorems about `OsHandles` | |

Modelling decisions:

- *Memory.* Loads and stores of single words are atomic and in program order. `State` is neither `volatile` nor atomic, so
  this is more than C++ grants; but between any two accesses of the thread there is a call the compiler cannot see
  through, and the findings need no reordering to happen.
- *Hooks* are user code: a thread stands at a step named after the hook, and the step is the hook's return with any
  result of its type. A hook takes finite time; how long is open.
- *The owner* is the thread that makes lifecycle calls, one at a time and in any order. A call that the guards of `iSvc`
  refuse changes nothing and is no step. Calls from several threads on one service are not modelled.
- *Thread names* in `Threads` are used again when a thread has returned. Two are enough to see two threads of one
  service, which is what `AtMostOneRun` is about, and the proof covers any number.
- *Creation of a thread* may fail at any time. `validate_config` cannot fail for the runner's own configuration
  (`Runner.cpp:74-77`), so its errors are part of the same step.
- *ETL* (`deps/etl`) is not part of the source tree. The ring, `shared_message` and `message_broker` are modelled from
  their use and documented behaviour, and marked external in the map.
- *The broker's queued pipe* is the one of `test/test_msg_broker.cpp:213-260`; the queued pipes of `Pipe.hpp` are
  unfinished templates. Its queue is worked off by a thread of its own here, with each queue operation one step.
- *Counters* of the pool are of type `size_t` and wrap at `CounterLimit`; no bound cuts them off.
- *The broker's own statistics* (`RegisteredPipes`, `NumSendCalls`, `AllocateFailures`) are not modelled: only `stats()`
  reads them. So a `send` that finds the pool exhausted is no step.
- *Callers of the broker* keep to its documentation: no use of a buffer after `send_buf` or `return_message_buf`
  (`Broker.hpp:202`, `231-236`); handlers do not call the broker they are called from (its mutex is not recursive); a
  subscription's list of IDs is updated in one step.
- *Contents of deleted memory* are reset, so that states that differ only in them are one.
- *Services together.* `SvcRunner` has a step for each access to a shared field, which is too fine for several services.
  `Services` keeps the two gaps that others can step into: a `start()` or `stop()` tests `State` in one step and writes
  in a second (`pending`); the run loop's test and the finish that follows a stop request are one. That no service
  leaves the contract of `RunnerContract`, which `SvcRunner` implements, is checked and proved (`ServicesKeepTheContract`),
  for any program that calls the applications from one thread.
- *Children* are used as the repository's examples use them: initialised by their application's `app_init`, which does
  not look at the results, started with `start_child` from the application's own thread, cleaned up by its
  `app_cleanup`. Their IDs are distinct. A service may be child of one application only.
- *Passive applications* have no thread: `at` is where the main thread is inside their `start` or `stop`. Between calls
  the main thread may run them (`RunPassive`), as the examples do.
- *Calls of the executor* are the four loops and calls with an ID that is registered; the status they return is left
  out. `stop` with another ID uses a null pointer and is listed as a hazard.
- *The examples* order their calls by sleeps, which order nothing: in `Examples` a call of `main()` comes whenever it
  likes. The commands are queued only in the active program; the router of the passive one runs the handler in the
  caller. What is left out is the end of `main()`: it destroys the application object whatever its threads are doing,
  and after that the program is gone or undefined.
- *The statistics example* is in its main loop. App1 and App2 send nothing, so the scheduler's table of the instance has
  telemetry in it, in place of the senders the example was written for. Its queues have one sender and are
  bounded FIFOs, which is what `BlockingMsgQueue` is shown to be in that case. `MaxCopies` bounds the copies of one ID in the
  subscription's list, which the code lets grow.
- *Handles* belong to one thread and their methods make one system call, so a method is a step. They are not copied
  (`Sock` and `File` would let a program do that, and two copies would share a number). An object may end at any time
  without `close`, and a new one takes its name. The histories `lost` and `reopened` record what happened to
  descriptors and handles; no step depends on them. The kernel gives out the lowest free number; its calls may fail
  for reasons of their own, `select` and `recv` included. Contents, sizes and addresses are left out; ports are kept, as far as `receive` depends on
  them. Entries of `Select` that were never written hold any value.
- *Widths.* Identifiers are the 24 bits that their three fields fill.

## Runs

| Run | Instance | What it shows |
|---|---|---|
| `SvcRunner` | two thread names | `TypeOK`; `AtMostOneRun`: never two threads of a service; `RunOwnsItsState`, `OwnerActsOnFreshState`: how stale either side's knowledge of `State` can be; `BusyStateHasARun`: no dead runner in STARTING, ACTIVE or STOPPING; `ImplementsContract`: refinement of `RunnerContract`; `StartSettles`, `AcceptedStopEndsTheRun`: liveness |
| `SvcRunnerLostStop` | same | finding: `StopEndsTheRun` is violated |
| `SvcRunnerWedged` | same | finding: `StartReachesTheRunner` is violated |
| `BlockingMsgQueue` | one sender, two messages, depth 3 | `TypeOK`; `TokenMeansMessage`: the assertion in `front` holds; `TokensMatchMessages`: semaphore and ring agree; `ImplementsFifo`: refinement of `BoundedFifo`; `EveryMessageIsTaken`: liveness |
| `BlockingMsgQueueTwoSenders` | two senders, depth 2 | finding: `TokenMeansMessage` is violated |
| `MsgBroker` | two senders, two queued pipes of capacity 2, one direct pipe, two buffers of three addresses, counters modulo 3 | `TypeOK`; `HoldersKeepTheBuffer`, `NothingIsLost`: reference counts; `PoolAccounts`: statistics; `OneOrderForAll`: ordering |
| `MsgBrokerReturns` | two senders, one queued pipe of capacity 1, two message IDs, two buffers | `BuffersAreShared`: refinement of `SharedBuffer` by every buffer; `SentBuffersComeBack`: liveness, with full queues |
| `Executor` | an active application, a passive one with a child | `TypeOK`; `NobodyIsForgotten`: the loops of `start_all` and `stop_all`; `CleanupComesAfterTheStops`: order of `stop_children` and `post_run_cleanup`; `StartedIsInitialised`: start, stop and cleanup in any order; `ServicesKeepTheContract`: refinement of `RunnerContract` by every active service; `StopReachesActiveChildren`: liveness |
| `Examples` | the two programs, with their depths and iterations | `TypeOK`; `CommandsAreHandled`, `OneShotEnds`: liveness, in active and passive applications with two children |
| `StatsMon` | a table of two, three IDs, a schedule of three entries | `TypeOK`; `NoIdTwice`, `TableIsSubscribed`, `RemovedIsUnsubscribed`: table and subscription; `EveryStatsMessageIsHandled`: liveness, with wakeups that are dropped |
| `StatsMonOverwrite` | same | finding: `AddKeepsTheOthers` is violated |
| `OsHandles` | two files, a socket, two descriptors, a set of two | `TypeOK`; `NoSharedDescriptor`, `HandleKnowsItsDescriptor`, `DescriptorsAreHeldOrLost`: who has which descriptor, and which flags outlive one; `RefusalsAreTrue`: what methods answer; `WaitTellsTheTruth`: what `read_wait` answers |

Why the bounds are enough. `SvcRunner` has no counter at all: the instance is the whole behaviour of one service. Depth 3
lets the ring wrap, fill and empty with the indices in every relation; two messages tell order apart. Two buffers and two
pipes are what it takes for a last drop to race and for two orders to differ; a third address lets memory be reused
while another buffer is out and would let an over-generous pool hand out one too many; counters modulo 3 wrap after
three allocations. `Executor` has each kind of application, a loop of the executor over two and registries that get full;
`Examples` adds active applications with children and the loop of `stop_children` over two. Nothing in the code relates
children of different applications, and what `Executor` checks is proved for every number of them. `Examples` has the
programs' own depths (5 and 2) and iterations (5), and the whole of their behaviour. In `StatsMon` the queue of wakeups has
depth one as in the program; that of the statistics has two, so that it fills; the table has two entries, so that one
is overwritten while the other stays; counters modulo 6, a common multiple of the periods, lose nothing. `OsHandles` has
fewer descriptors than handles, so that numbers are given out again and `open` fails, and a `Select` that gets full. One
message ID is enough in `MsgBroker` because pipes subscribe and unsubscribe at any time; `MsgBrokerReturns` has two, so
that a message that is written over looks different. It has no direct pipe, which shares no buffers: the handler has
returned before the broker goes on. Symmetry is used in the run without liveness only.

Fairness. `SvcRunner`: weak fairness of each thread (the operating system schedules it, hooks return) and of the owner
inside a call; no call is ever owed. `BlockingMsgQueue`: the component keeps calling `process_msg_queue` from its run
loop, a sender inside `emplace` goes on. `MsgBroker`: a call goes on and a pipe's thread works off its queue; a thread
that waits for `lock_` is promised nothing, because a POSIX mutex may let others pass it for ever, and
`SentBuffersComeBack` therefore starts when routing has begun. `Executor`: the main thread finishes a call it has begun and
the thread of a service takes the steps it owes; no call and no `start_child` is ever owed. `Examples`: every thread is
scheduled, and `main()` goes on because its sleeps end. `StatsMon`: the main loop and the application's thread go on;
no change of the table is owed. `OsHandles` states none, because handles owe nothing. Deadlock is checked in every run but
`Examples`, whose programs end.

### What the findings mean

1. **Lost stop** (`Runner.cpp:117`). start, then stop before the new thread has stored ACTIVE: `Runner.stop()` answers DONE
   and does nothing, `App::stop_` returns OK, `IsStarted` becomes false, and the service runs until it ends by itself. A
   later `stop()` is refused because the service is not started.
2. **Wedged runner** (`Runner.cpp:117-119`). The service ends by itself between the test and the write of `stop()`.
   STOP_REQUESTED stays, there is no thread to see it, and `start()` does not accept STOP_REQUESTED.
   `OwnerActsOnFreshState` says precisely which states that write can hit.
3. **Two senders on one router** (`Router.hpp:117`). Nothing serialises senders; the ring is for one producer.
4. **An entry in use is overwritten** (`StatsMsgTbl.hpp:171`). The test in `find_unused_entry` is the wrong way round. `add_id`
   puts the new ID over the first one in use, which stays in the subscription, and a table that was emptied takes
   none. That the two lists fit together in every other respect is what the passing properties of `StatsMon` say: an
   overwritten ID is delivered, and counted by nobody, until it is added and removed again.

What the models show besides, without a run of its own:

- **Children outlive their parent** (`Runner.cpp:182`). A run that ends because a hook returned ERROR calls no
  `stop_children`, and a child that is STARTING when `stop_children` comes loses its stop as in 1. "Running child
  services are stopped by app runner automatically" (`PassiveWithChildren.cpp:130`) is true of neither.
  `StopReachesActiveChildren` says of which children it is true.
- **Cleanup during a run** (`iSvc.cpp:85`). `cleanup()` trusts `IsStarted`, which `stop()` clears without waiting. The
  main thread may clean up an active application, and in its `app_cleanup` a child, while the application's thread is
  inside `start_child`: the child runs uninitialised, and its `stop()` is refused (`iSvc.cpp:59`). `StartedIsInitialised`
  holds for everybody else, and is proved.
- **A child cannot be started again** (`App.cpp:35`). It stays registered, so that `start_child` is refused after the
  application was restarted.
- **Entries of construction are never subscribed** (`examples/Messaging/StatsMon/App.hpp:31`). The table tells its observer of changes
  only; `TableIsSubscribed` excuses what the table was constructed with.
- **Undersized buffers leak** (`Broker.cpp:28`). A buffer with no room for a message's header is neither sent nor returned by
  `send_buf`; `NothingIsLost` is about the others.
- **Handles lose descriptors** when they are opened while they are open (`File.cpp:94`, `Socket.cpp:76`), and when an
  object ends open: `~File()` is empty (`File.hpp:89`) and `Sock` has no destructor. `DescriptorsAreHeldOrLost` says
  that no other call loses one, as long as handles are not copied.
- **A reopened socket remembers too much** (`Socket.cpp:73-87`). `open` does not reset `is_bound_`, so that after open,
  bind, open `receive` waits on a socket without a port; nor does a failed `open` reset `is_open_`, so that
  `set_type` and `set_domain` refuse a socket that is not open. `HandleKnowsItsDescriptor` and `RefusalsAreTrue` claim
  the exact answer for handles that are closed before they are opened again, and say what is left of it for others.
- **Statuses that name another reason.** `read` of a file that is open for writing answers NOT_OPENED (`File.cpp:128-131`),
  which is "file hasn't been opened yet" in `File.hpp:42`; `write` has INVALID_MODE for the like. `read_wait` answers
  INVALID_FD, "One or more file descriptors is invalid" (`Select.hpp:33`), whenever `select` fails, a signal included
  (`Select.cpp:86-89`). `add_id` answers TBL_FULL also when it took the ID in (`StatsMsgTbl.hpp:114-142`). The
  properties take the first for what it does, conclude nothing from the second and leave out the third.

## Proofs

`SvcRunnerProofs`, for every set `Threads`:

- `TypeCorrect`: `TypeOK` is invariant.
- `InvHolds`: `IInv`, which ties each position of the owner and of a thread to the values `State` and `state_` can have
  there. Mutual exclusion is not inductive: it needs that a resting state means that no thread stands before its last
  write of `State`, and that one standing after it still has `state_ = "RUNNING"`, which is what stops
  `Os::Thread::start`. `IInv` says so, and that ctl's position keeps its state until the write.
- `MutualExclusion`, `DelayedWritesAreSafe`, `OwnerIsUpToDate`, `BusyStatesAreServed`: the invariants of the run, from `IInv`.
- `Refinement`: every step of `SvcRunner` is a step of `RunnerContract` or changes nothing of it.

`BlockingMsgQueueProofs`, for every `Depth > 0` and every set of messages:

- `TypeCorrect`, for any set of producers.
- `FrontNeverAborts` and `TokensAgree`, under the assumption that there is one producer. The invariant equates tokens
  (given, held by the consumer, owed by a producer between publish and give) with the messages in the ring, and says that
  the index a producer has loaded is still `write` and that its slot is free. With two producers it is false, as the
  run shows.
- `Refinement`: `ImplementsFifo`, under the same assumption. `MessagesAreInPlace` adds that a filled slot still has the producer's
  message when its token is given, and that the consumer's copy is of the slot it pops. What is seen of the ring
  is then left alone by filling and publishing (`SeenUnchanged`), grows by a token (`SeenGrows`) and shrinks by a
  pop (`SeenShrinks`), also where the indices wrap.

`ServicesProofs`, for all sets of applications and children, all capacities and every program of `SvcSpec`, which may call any
operation on any application at any time:

- `ServicesKeepTheirTypes`: the fields of services, with the capacity of each registry.
- `EveryServiceKeepsTheContract`: `ServicesKeepTheContract`. `ContractInv` does for every service what `IInv` does for one: it
  ties `at` and `pending` to `State`. A `start()` that has tested `State` still finds STARTING, and a `stop()` finds ACTIVE or a run
  that has ended by itself.
- `StopsAreCarriedOut`: while the thread of a service that was told to stop has not returned, its state never goes back to
  one from which it would run on (`StopsAreNotUndone`). This is the part of `AcceptedStopEndsTheRun` that is no liveness, for
  many services; it follows from the contract.

`ExecutorProofs`, under the same assumptions; every safety property of the run `Executor` is proved:

- `ExecutorRunsServices`: `Spec => SvcSpec`, so that what is proved in `ServicesProofs` holds here (`ContractIsKept`). The main
  thread has one call under way at most, or a `start()` could be begun twice.
- `TypeCorrect`: `TypeOK`, which includes the capacities of both registries and that an application is registered once.
- `NobodyForgotten`: `NobodyIsForgotten`. The invariant adds `PassiveTurn` to it: while a hook of a passive application runs, the
  loop stands at that application, in a `start` or in a `stop`. Without it a passive `start` could return and set
  `IsStarted` behind a loop of `stop_all`. The rest of the argument is that no thread but the main one changes an
  application's flags (`RunDisturbsOneApp`, `HooksDisturbNoApp`).
- `NothingStartedIsUninitialised`: `StartedIsInitialised`. Not inductive, because a call that was begun sets `IsStarted` later,
  when `IsInit` may have been cleared. `AppTurn` says that a call under way on an application is the one the executor's
  loop is in, so that the main thread cannot be cleaning up; for the children of a passive application the same
  follows from who makes the calls. For those of an active one nothing does, and they are left out.
- `CleanupIsLast`: `CleanupComesAfterTheStops`. `StopLoop` is the loop invariant of `stop_children`: every child before the index is
  not started, or its `stop()` is under way.

`ExamplesProofs`, for any depths of the queues and any number of iterations; every safety property of the run `Examples` is proved:

- `ExamplesRunServices` and `ContractIsKept`, as for the executor.
- `OneShotExitsWhenDone`: the counter of the one-shot child is zero when the child has ended by itself. `CountInv` follows
  the counter along the run loop: it is above zero while the child is ACTIVE and before `process`, untouched
  until the child is registered, and untouched again while it is STARTING, because a child is registered once
  (`App.cpp:35`) and so never launched a second time.
- `TypeCorrect`: `TypeOK`. That the counter stays in `Nat` is `OneShotInv`, the part of `CountInv` about it.
- `NothingStartedIsUninitialised` and `CleanupIsLast`: the same properties as for the executor, from `TurnInv`. Its parts are those
  of `ExecutorProofs`, with the position of `main()` in place of the executor's loop: a call under way on the
  application is `main()`'s `start` or `stop`, and a passive application runs its hooks inside one of them. What the
  step of a service keeps of them is proved once, in `ServicesProofs`.

`StatsMonProofs`, for every table, schedule, depth and set of IDs:

- `TypeCorrect`; `TableInvHolds`: the three properties of table and subscription together, for `remove_id`, which stops at the
  first entry it finds, relies on `NoIdTwice` to leave nothing of the ID behind. `NoDuplicates`,
  `AdditionSubscribes` and `RemovalUnsubscribes` follow.
- Of identifiers, for all bytes: `UnpackingInvertsPacking`, `ConversionGivesTelemetry`, `IdsAreUnique` and
  `RequestsNameTheirTelemetry`, from the arithmetic of quotients and remainders. What the recursive search of the
  handler finds is evaluated on examples in `MCStatsMon` and not proved.

`OsHandlesProofs`, for all sets of handles, numbers of descriptors and sizes of a `Select`; every property of the run is proved:

- `TypeCorrect`; `ReadWaitIsRight`: `WaitTellsTheTruth`. The invariant (`WrittenEntries`) says that the entries before `RdSetIdx` were
  written. `MaxFd` only grows, but the kernel looks at members of the set only; that the maximum exists is an argument
  by well-founded order.
- `DescInvHolds`: every open descriptor is in exactly one handle or lost for good (`Ownership`), and handles know what they have
  (`HandleKnowsItsDescriptor`): the flags that outlive a descriptor err on one side only, and those of handles that are
  not in `reopened` not at all.
  `DescriptorsAreNotShared`, `HandlesKnow`, `NoOtherLeak` and `RefusalsFollowTheKernel` follow.

`MsgBrokerProofs`, for all finite sets of senders and queued pipes, all direct pipes, buffers and IDs, any capacity of queues
and pool, and counters of any width; every safety property of the two runs is proved:

- `TypeCorrect`: no reference count goes below zero, no queue holds anything but buffers.
- `HoldersAreSafe` and `NoBufferIsLost`: `HoldersKeepTheBuffer`, `NothingIsLost`. `BufInv` says of each buffer that the threads and the
  queues that share it are as many as its count, or that one thread owns it, or that it is back. That a step moves the
  count with the holders needs more: a queue never has one buffer twice (`Lists`), or it would still hold
  the one it popped, and its thread pops what it processed (`Fronts`), as nobody else shortens a queue.
- `DeliveryIsInOneOrder`: `OneOrderForAll`. `Routing` is what makes it inductive: the pipes still to come in the list
  do not have the message being routed, and in the queues that have it, it is the last. That rests on the mutex
  (`Positions`: routing is holding `lock_`) and on the list not changing under it.
- `PoolIsAccountedFor`: `PoolAccounts`, from the arithmetic of counters that wrap (`Wraps`).
- `BuffersImplementTheirLife`: `BuffersAreShared`. The phase of a buffer is read off who holds it: threads that share it, queues,
  or the one thread that owns or deletes it. Each step of a thread moves itself to another of these
  (`EveryStepLives`, over the actions); that it moves the number of copies by one, and the phase along the arrows of
  `SharedBuffer` only, comes from the invariant of `HoldersAreSafe` before and after the step.
- `ReadersSeeOneMessage`: a message is not written while there is a copy of it. A consequence of the refinement:
  `SharedBuffer` writes a message in `Take`, `GiveBack` and `Delete` only.

The assumptions on constants are those of the modules: a positive depth, an empty-slot value that is no message, a pool
no larger than its memory, applications and children apart, positive capacities, IDs that are not the reserved one,
files that are no sockets, pipes that are no senders, finitely many threads. They are named there and TLC evaluates them.

Only model-checked is liveness, which the installed provers cannot treat under fairness: `StartSettles`,
`AcceptedStopEndsTheRun`, `EveryMessageIsTaken`, `SentBuffersComeBack`, `StopReachesActiveChildren`,
`EveryStatsMessageIsHandled`, `CommandsAreHandled`, `OneShotEnds`. Of three of them the safety half is proved
(`StopsAreCarriedOut`, `OneShotExitsWhenDone`, and `NoBufferIsLost` for `SentBuffersComeBack`). What the recursive search in
`MsgIds` computes for every list would need induction over data, and is evaluated on examples only.

## Not modelled

- The logger, configuration traits and compile-time dispatch have no behaviour of interest. `Mutex` is a system call each;
  the modules that use one model its lock and unlock.
- `iTask` and `Task<>` of `Task.hpp` and `SvcRegistry.hpp` are used by nothing; `Thread::join` is called by nobody and always
  answers INVALID_STATE. The queued pipes of `Pipe.hpp` are unfinished. The executor examples are applications with empty
  hooks under an executor, of which `MCExecutor` has more.
- The broker's own statistics, which only `stats()` reads.
- What the code leaves undefined without a set of outcomes: a subscription on the stack that outlives its function, a
  vector resized during iteration, a null application in `stop`, `IsInit` of a semaphore that was never set.
- What depends on the build or on the clock: `Sem.init()` inside an assertion, and the timeout of a semaphore, which is
  computed from the time of day.

All of these that can go wrong are listed as hazards.

## Plan

Done, in this order: `SvcRunner` with `RunnerContract`; `BlockingMsgQueue` with `BoundedFifo`; `MsgBufPool` and `MsgBroker`; `Services`
and `Executor`; `MsgIds`; `StatsMon`; `OsHandles`; `Examples`; the theorems above, with `SharedBuffer` for the broker and
`SvcSpec` for programs. Worth doing next:

1. Steps of progress for the liveness properties that are only checked: that the message at the front of a queue
   changes by a pop alone, and that a command accepted by a router is behind no more commands than were there.
2. What is left of the queue's guarantees with several producers, where ring and semaphore drift apart: types only,
   so far.
3. Callers of one service from several threads, in `SvcRunner`.

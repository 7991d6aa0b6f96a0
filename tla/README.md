# Verification of AsyncFw

TLA+ specifications of AsyncFw, a C++20 runtime of threads, event loops,
timers, sockets and connectors, with the TLC configurations that model-check
them and TLAPS proofs of the theorems that matter most. Everything is
translated from the code in `core/`, `main/` and `linux/`, in the default
Linux build (`epoll`, `eventfd`). Line numbers refer to the sources of this
commit; `PROJECT.json` gives for each definition the lines it stands for.

    tlc -workers 4 -config thread_queue.cfg MCAbstractThread     # a run
    tlapm AbstractThreadQueue_proofs.tla                         # a proof module

## 1. The system

### The core

**AbstractThread** (`core/AbstractThread.cpp`) is the heart of the library:
everything else is a task, a timer or a descriptor of one.

- *State.* Under `private_.mutex`: the state bits (`WaitStarted`, `Running`,
  `WaitInterrupted`, `Interrupted`, `WaitFinished`, `Finished`), the queue
  `tasks`, the flag `wake_`, the list of timers with the deadline `wakeup`, the
  list of poll descriptors, and `nested_`. Outside it: the batches the loop has
  taken (`process_tasks_`, `process_timer_tasks_`, `process_poll_tasks_`), the
  kernel's interest list, and the call stack of the thread.
- *Operations.* Any thread: `start`, `invokeTask`, synchronous `invoke`,
  `requestInterrupt`, `waitInterrupted`, `quit`, `waitFinished`, `appendTimer`,
  `modifyTimer`, `removeTimer`, `appendPollTask`, `modifyPollDescriptor`,
  `removePollDescriptor`, the destructor. The thread itself: `exec`, `processTasks` (a synchronous `invoke`
  on the own thread), `Waiter::wait` (a nested `exec`) and `Waiter::complete`.
- *Hard.* The wake-up protocol: the loop sleeps on the condition variable or in
  `epoll_wait`, the waker chooses by the number of descriptors at the time of the
  call. Nested executions that take over the batch of the execution below. The
  lifecycle, of which two nested loops, several `quit()` and an interrupt may be
  in the middle at once. Deletion of callbacks that are still in a batch.
- *Correct when* no wake-up is lost, tasks run once and in order, nothing is left
  behind by a thread that reports itself interrupted or finished, calls return,
  deadlines are kept and nothing deleted is called.

**AbstractSocket**, **AbstractTlsSocket**, **TlsContext** (`core/`), **ListenSocket**:
non-blocking sockets on a thread's descriptors. State: descriptor, state, read and
write buffers, event mask. Hard: partial writes, `close()` and `disconnect()` with
data still to be written, destruction from one of the socket's own callbacks.

**FunctionConnector** (`core/FunctionConnector.*`): lists of connections, called
in the emitter's thread, queued or synchronously in the thread of the connection;
**FunctionConnectionGuard** disconnects on destruction.

- *State.* Under the connector's mutex: the list. Outside it, and shared by threads:
  of a connection `thread_`, `connector_`, `guard_`, and the reference count of the
  function, which every posted call holds.
- *Operations.* `connect`, `operator()`, the end or assignment of a guard, the
  destructors of a connection and of the connector.
- *Hard.* The mutex is held during the whole emission, functions called in place and
  synchronous calls included; a guard clears `thread_` without it; deletion is posted to
  the connection's thread, or done at once, by the type and the thread of the caller.
- *Correct when* nothing deleted is used, calls arrive in the order of the emissions, the
  deletion of a connection comes after the calls posted to it, and nobody waits in a circle.

**Thread** (`core/Thread.*`): an AbstractThread with `started`/`finished`
connectors and the list of its sockets. **AnyData**, **DataArray**, **LogStream**:
values without behaviour over time.

### The library above it

- **ThreadPool** (`main/ThreadPool.*`): the list of threads of a pool, work
  threads created on demand and selected by `workLoad()`, results returned to the
  caller's thread, destruction through a task of the pool's thread. Hard: who
  deletes a worker, synchronous calls between the pool's thread and workers.
- **Coroutine**, **Timer**, **PollNotifier**, **Task**: owners of tasks, timers and
  descriptors.
- **DataArraySocket**, **DataArrayTcpClient**, **DataArrayTcpServer**
  (`main/DataArray*`): framing over a socket, the wait timers for connect, read and
  write, distribution of sockets over the threads of a pool, which are created for their
  first socket and destroyed with their last, and the client's synchronous exchange that
  parks a caller until an answer or a time-out. *State*: the sockets of each thread, the
  arrays a socket has received (counted until the users have seen them) and is to send.
  Hard: a connection accepted while the last one of its thread ends; pointers to sockets and
  buffers that travel between the pool's thread and the socket's in tasks; a late answer
  against the time-out of an exchange. Correct when nothing deleted is used, a connection keeps its
  thread, every buffer comes back once, and what was closed is deleted.
- **Rrd** (`main/Rrd.*`): a ring of records by index, with averages, a file it is saved to
  and reloaded from. Hard: the slots of indexes that are skipped, reading at the edges of
  what is left, a count kept apart from the items, serialising without the mutex, the end
  of the program in the middle of a save. Correct when the ring answers as a timeline of
  the last indexes would, before and after a restart.
- **RrdClient**, **RrdServer**: replication of rings by requests and answers over one
  connection, with one timer for all of them. Hard: requests repeated by the timer, answers
  that are late, the loss of the connection, `clear()` at the server. Correct when the
  client's items are the server's, at the same index, and it ends where the server ends.
- **Log**: the log stored in a Rrd, with its repetition filter.
- **HttpSocket**, **HttpServer**, **SystemProcess**, **FileSystemWatcher**,
  **MulticastDns**, **AddressResolver**, **MainThread**, **Instance**,
  **ApplicationNotifier**, **Cryptor**, **File**, **Version**: mostly wrappers of a
  protocol, a library or a system interface.

Components interact through calls on the own thread, `invokeTask` (asynchronous
messages between threads), synchronous `invoke` (a rendezvous), connectors, and
shared lists under a mutex each.

## 2. The modules

| module | models |
|---|---|
| `AbstractThread` | the queue, loop, sleep, nesting and lifecycle of one thread, with clients |
| `TaskQueue` | the abstract specification: what the thread promises about tasks |
| `AbstractThreadInvariants` | the inductive invariants |
| `AbstractThread_proofs` | type correctness; no wake-up is lost |
| `AbstractThreadQueue_proofs` | order, drain, announcement, interruption and waits; the thread implements `TaskQueue` |
| `Callbacks` | timers, poll descriptors, their batches and their deletion |
| `Callbacks_proofs` | an object has one owner, the kernel watches what is registered, what was collected lives, the loop sleeps to the first deadline |
| `ThreadPool` | workers, the routing of jobs and results, destruction |
| `ThreadPool_proofs` | type correctness; a job is in one place; a worker is destroyed once, and not while it is used |
| `Connector` | one FunctionConnector, its connections, emissions and guards in several threads |
| `Connector_proofs` | calls come in the order of the emissions, the deletion after them; no thread waits for itself; nothing deleted is used |
| `RrdRing` | the ring as operators: append, fill, read, the array, reload |
| `Timeline` | the abstract specification: what a persistent timeline of items promises |
| `Rrd` | the ring shared by threads, its averages, its file, failures and restarts |
| `Rrd_proofs` | the ring implements `Timeline` |
| `Replication` | RrdServer and RrdClient over a connection that may be lost; two `RrdRing` per ring |
| `Replication_proofs` | a replica has the server's items at their indexes, misses none, and is thrown away only for a reason |
| `TcpServer` | DataArrayTcpServer: its connections, threads, buffers, and their ends |
| `TcpServer_proofs` | no connection loses its thread, nothing deleted is used, buffers are held once |
| `MCAbstractThread`, `MCCallbacks`, `MCThreadPool`, `MCConnector`, `MCRrd`, `MCReplication`, `MCTcpServer` | instances for TLC |

### AbstractThread

A critical section of `private_.mutex` is one step, and so is every stretch of
unlocked code between two of them, so that every interleaving the mutex permits is
explored. The variables are the members of the same name; `depth` and `frame` are
the call stack of the managed thread: a frame is an execution of `exec()` (with the
`Waiter::wait()` that called it), of `processTasks()`, or of a callback, and `pc`
says where it is. `cv` is the set of threads asleep on the condition variable;
notifications are `notify_all`, spurious wake-ups are a step, and the eventfd is a
readable bit. `accepted`, `refused`, `ran`, `done` and `told` are history variables.

| code | actions |
|---|---|
| `invokeTask`, `invoke(f)` | `Invoke`, with `InvokeTask` and `Wake` |
| `invoke(f, true)` from another thread | `SyncInvoke`, `SyncInvokeReturn` |
| `invoke(f, true)` on the own thread, `processTasks` | `SelfInvoke`, `SelfInvokeSwap`, `SelfInvokeFunction` |
| `start`, thread function | `Start`, `StartReturn`, `ThreadBegins`, `ThreadEnds` |
| `requestInterrupt`, `waitInterrupted` | `RequestInterrupt`, `WaitInterrupted`, `WaitInterruptedWakes` |
| `quit`, `waitFinished` | `Quit`, `WaitFinished`, `WaitFinishedWakes` |
| `appendPollTask`, `removePollDescriptor` | `AppendPoll`, `RemovePoll`, `InvokeDelete` |
| `Waiter` | `Wait`, `WaitChecks`, `WaitQuits`, `Complete` |
| `exec` | `ExecBegins`, `LoopBegins`, `RunTask`, `RunCallback`, `BodyReturns`, `LoopContinues`, `OverloadDone`, `CvWakes`, `CvTimesOut`, `EpollWakes`, `EpollTimesOut`, `EpollReports`, `CallbacksDone`, `ExecEnds`, `LastTasks`, `ExecReturns` |
| `~AbstractThread` | `Destroy` |

The environment is the users of the thread: clients and callbacks make any of the
calls in the constant `Calls`, in any order, as long as the code permits it (a
destroyed object is not used, `wait()` and `complete()` are called on the thread
itself, as by all their callers but the client's `exchange()`, section 5). Three names in `Calls` stand for uses that are
separated because the code goes wrong under them: `syncUnstarted`, `stopStarting`
and `waitFinishing`.

### Callbacks

The second half of the same class, independent of the first: `timers` with their
ids, timeouts and expiry times, the deadline `wakeup`, `poll_tasks` against the
kernel's list `epoll`, what `epoll_wait` has reported, the three batches, and the
queue, of which only the tasks that delete an object matter. Time is a counter;
reading the clock and sleeping are separate steps. `appendTimer`, `modifyTimer`,
`removeTimer`, `appendPollDescriptor`, `modifyPollDescriptor`, `removePollDescriptor`,
`invoke`, the self-invocation and `wait()` are made by a client or by the callback that runs;
the operations that leave the mutex halfway (`AddDescriptor` then `InsertDescriptor`,
`FindDescriptor` then `ChangeDescriptor`, `DropDescriptor` then `EraseDescriptor` then
`InvokeDelete`) are several steps, between which other users may be in the middle of calls on
the same descriptor. Two crossings go wrong in the code, and the rules against them are
`MayAdd` (a descriptor is not added while another user removes or modifies it) and `MayDrop`
(it is not removed while another adds it); `appendInPassing` and `removeInPassing` in
`Calls` lift them, and section 5 says what happens then. Removals that cross each other, or a
modification, need no rule.
`Continue`, `Pass`, `Collect` are one pass of `exec()`: what it runs first, whether
it sleeps and until when, and what it collects.

### ThreadPool

Several threads, each of them an AbstractThread seen through what `TaskQueue`
promises: two queues (`tasks`, `batch`), a life (`phase`: none, made, open, closing,
finished, deleted) and a `stack` of what it is doing. `Main` is the thread the pool
was created in, `Worker` are the threads it may create, `Other` threads of the program.
`threads` and `workThreads` are the two lists. A step of a pool operation ends
wherever the code takes a lock, posts a message or blocks.

| code | actions |
|---|---|
| `async(f, r)`, `getThread` | `Async`, then `RunGet` (on Main, for another thread) or `Swap`, `Processed`, `GetOwn` (Main itself, after its queue), `StartThread`, `PostJob` |
| `async(thread, f, r)` | `AsyncOn`, `PostJob`; the job: `RunJob`, `JobReturns`, `RunResult` |
| `createThread` | `Create`, `StartThread` |
| `destroy` | `Destroy`, `RunErase` or `EraseOwn`, `Unlist`, `Tell`, `Hand`; the deletion: `RunDelete`, `Flush` |
| `quit`, the destructors | `Quit`, `QuitNext`, `QuitEnds`, `Teardown` |
| `MainThread::exit` | `Exit` |
| `exec`, `start` of a worker | `Take`, `Close`, `End`, `Callback`, `Return` |

A wrong use of the pool corrupts it, and nothing in the code prevents one. What the
model asks of the users is in one place: `MayAsk`, `MayCreate`, `MayDestroy`, `MayQuit`
and `MayExit` say that a worker is destroyed by one caller, that neither a worker nor
the pool is destroyed under another thread that is using it or that expects a result
in it, and that only `Main` uses the pool once `Main` was told to quit. The name
`uncoordinated` in `Calls` lifts all of them.

### Connector

One connector, of whose mutex the model follows every lock and unlock, because the code
leaves shared members outside it: `DestroyGuard` (which clears `thread_`), `Decide`,
`Release` (which lets go of the function), `Unlist` (the locked rest of `~Connection`) are
four steps, and so are the test of `thread_` and the use of the connection in an emission
(`EmitNext`, then `CallInPlace`, or `Prepare` and `Post` or `PostSync`: the task is made, and
`thread_` read for the last time, a step before it is in the queue of that thread). A thread is its queue and a stack of
frames (`Frame`): a call of a user's function, an emission, a deletion, the end of the
connector. `connect()` is one step: it is one critical section.

| code | actions |
|---|---|
| `connect` | `Connect` |
| `operator()` | `Emit`, `EmitLocks`, `EmitNext`, `EmitEnds`; `CallInPlace`, `ReturnInPlace`; `Prepare`, then `Post`, `Run`, `ReturnQueued` or `PostSync`, `Run`, `ReturnSync` |
| `destroyConnection` | `DestroyGuard`, `Decide` |
| `~Connection` | `Release`, `Unlist` |
| `~AbstractFunctionConnector` | `Destroy`, `DestroyLocks`, `DestroyNext`, `DestroyConnection`, `DestroyEnds` |
| the end of a thread | `Finish` |

As for the pool, the rules that users have to follow and no code enforces are in one place,
and a name in `Calls` lifts each: a guard is not destroyed while an emission of another thread
is at its connection (`disconnectInPassing`); the connector is not destroyed in use
(`destroyInUse`); a function called in place, or in a thread an emission may wait for, does not
use the connector (`useInCall`). Section 5 says what happens without each.

### Rrd

`RrdRing` is the arithmetic: a ring is a record of `last_`, `count_` and `dataBase`, and
`Appended`, `Extract`, `Written` and `Loaded` are what `append`, `read`, `writeToArray` and
`readFromFile` do to it. `Rrd` adds what happens over time: the ring's own thread and others,
the part of `append()` after the mutex was released (`ReadAverage`), a save in four steps
(`SaveLast`, `SaveData`, `OpenFile`, `WriteFile`), a save that fails (`SaveFails`), and the end
of the program between any two steps, with the reload (`Restart`). An append of any length is
one critical section and one step.

`Timeline` knows no slots: it holds a function from the last `Size` indexes to items, what is
being saved, and what a restart brings back. `RefinesTimeline` maps the ring to it by `View`.
`Timeline!Answer` is what `read()` is documented to return: items from the index asked for or
the oldest one left, and the index of the last of them. `AnswersOfTimeline` compares `read()` with
it from every index but one, `last - Size`, where the code goes wrong: `AnswerEndsAtItsIndex` states
`Rrd.h:42` for all of them, and the run `rrd_read` violates it (section 5). A second instance of
`Timeline`, `Filled`, fills every gap: it is what a ring does whose `Fill` is not less than `Size`
(`FillsEveryGap`).

### Replication

The server's owner appends, with gaps, and clears (`ServerAppends`, `ServerClears`); a request
is answered from the ring of that moment (`ServerAnswers`); `TcpRead` is the whole handler of
an answer: begin again, append, ask for more or start the timer; `Timeout` asks for all rings at
once. The link delivers in order, as the TCP socket below it does, and `Disconnect` loses what
is under way; `Connect` is the reconnection of the socket. The rest is history: `epoch` counts
the clearings of a ring, and `noticed` is the epoch the client has begun in. `overtaken` and
`crossed` mark the two situations the protocol cannot handle and the properties except: an answer of
another epoch is taken for news, because the indexes do not tell (a ring cleared and refilled past the
index of the client); the client begins again while a repeated request or its answer is
under way. Section 5 says what the second leads to.

### TcpServer

`Main` is the thread of the pool and of the listener. `tasks` are the queues of all threads, as
`TaskQueue` promises them; a task is a record of what it is for and of the pointers it carries.
`at` is `thread_` of a socket and at the same time the list of sockets of each thread. A step ends
where the code posts, waits, or reads a member another thread writes: `ReleaseBuffer` tests
`thread_`, `PostRelease` uses it.

| code | actions |
|---|---|
| `incomingConnection`, `findMinimalSocketsThread`, `createSocket` | `IncomingNewThread`, `IncomingToThread`, `IncomingRefused`, `RunCreate` |
| `readEvent`, `received` | `ReadBegins`, `ReadOverflows`, `ReadEnds`, `RunReceived` |
| `releaseBuffer` | `ReleaseBuffer`, `PostRelease`, `RunRelease` |
| `transmit`, `writeSocket` | `Transmit`, `RunTransmit`, `RunWrite` |
| `disconnectFromHost`, `disconnect`, the end of a connection | `DisconnectFromHost`, `RunDisconnect`, `ConnectionEnds`, with `Close` |
| `destroySocket`, `AbstractSocket::destroy` | `Close`, `RunDestroySocket`, `RunDeleteSocket` |
| `AbstractThreadPool::Thread::destroy`, `quit` | `RunDestroyThread`, `RunDeleteThread`, `Quit`, `QuitNext`, `QuitEnds`, `Finish` |

Again the code goes wrong in situations nothing excludes, and the rules are in one place:
`MayAccept` and `MayEnd` (the last connection of a thread does not end while one is being given to
the thread, and none comes in until the thread is destroyed), `MayQuit` and `Quiet` (the server quits
when no connection is being disconnected, and nothing happens on connections afterwards). The
names `acceptAtEnd` and `quitInTraffic` in `Calls` lift them. A task that finds its socket deleted, or
without a thread, does nothing in the model; section 5 says what it does in the code.


## 3. The runs

| run | asks | instance |
|---|---|---|
| `thread_queue` | wake-ups, order, drain | 3 tasks, 2 clients, a descriptor; 783k states |
| `thread_nested` | inductive invariant of the proofs, refinement | 3 tasks, 1 client, 2 waiters, limit 1; 704k |
| `thread_liveness` | waits that are completed; liveness under weak fairness | 2 tasks, 1 client, 1 waiter, a self-invocation, a premature `quit()`; 199k |
| `callbacks` | timers, descriptors and deletion; liveness | 2 objects, 1 descriptor, 2 users, time 0..2; 320k |
| `pool` | workers, jobs, results, destruction; liveness | 2 workers, 1 work thread, 1 other thread, 2 jobs, 3 calls; 86k |
| `connector` | use after deletion, order, circular waiting | 2 threads, 2 connections of all types, 2 emissions; 1.2M |
| `rrd` | the ring and its file implement the timeline | 3 slots, indexes to 5, 2 threads; 127k |
| `rrd_read` | divergence | as `rrd` |
| `replication` | the replica's items, when they are thrown away, and that it catches up | 2 rings of 2 slots, one in use, indexes to 4, 1 clear, 1 loss, 2 repeats; 254k |
| `server` | use after deletion, stranded connections, buffers; liveness | 2 threads, one at a time, 3 connections, one always accepted, 2 buffers; 327k |
| `overload_lost_wakeup` | divergence | limit 1 |
| `connection_freed` | divergence | as `connector`, with `disconnectInPassing` |

*Why the bounds are enough.* The loop treats tasks uniformly, so three suffice to
have one running, one in the batch and one in the queue. Two clients are needed for
one to act between two critical sections of the other. A stack of six frames holds
the outermost `exec()`, a task, a nested `exec()`, its task, a second nested
`exec()` and its task. `OverloadSize` is 128 in the code: 128 in a cfg makes the
branch unreachable, 1 makes it reachable with two tasks. `MaxPremature = 1` lets a
foreign `quit()` end a nested loop too early once, which makes `Waiter` restart and
owe a `quit()`. In `callbacks` an interval of 1 within three instants lets a timer
expire, be renewed and be overdue by more than one interval; two objects are
necessary for one to be deleted while the batch holds the other. In `pool` the callbacks
make `MaxCalls = 3` calls of any kind in any thread: enough for a job on a worker, the
destruction of that worker and a second thread's call between two of its steps, with
the end of the program after them. A worker per pool size and one more lets a work
thread be replaced; `Spare` keeps a worker for every `getThread()` under way, so that the
bound on workers never blocks one. `MaxDepth = 6` is a callback that calls, and the five
frames its call may need (`get`, `sync`, `start`, and a callback with a frame of its own
run from the queue).

In `connector` two emissions show an order, one of them overtaking or waiting for the other,
and two connections let one emission call in place and post, or wait at the first while the
second is being deleted; one thread may finish, so that posts and deletions are refused. Threads
are interchangeable (symmetry). In `rrd` three slots and steps of up to five indexes make every
case of an append: the next index, a gap that is filled, one that is cleared, one of a whole
round and one beyond it, each at any slot; one item besides the empty one tells where an item
went. In `replication` two slots and four indexes let the server be more than a ring ahead, an answer
(of one item) be one of several, and `clear()` lead the server behind the client; the second ring
stays empty: its answers are what makes the timer fire while the first is still being read, at most
twice (`MaxRepeats`). Rings of three slots, of different sizes at both ends, answers of two items,
steps of three and two clearings pass as well. In `server` a thread of two sockets and three
connections let the thread be full, one be refused and one be accepted all the same; a limit of one
buffer lets a second array be one too many; the second thread replaces the first after it was
destroyed. New sockets and buffers are taken in a fixed order (`AnyOf`): those of a kind differ in
nothing until they are used. Two threads at once, of one socket each, and three buffers, two of one
socket, pass the invariants as well (4.3M states, before answers were added).

*Fairness.* `FairSpec` gives weak fairness to what the managed thread does by itself
(the operating system runs it, its callbacks return) and to each client's blocking
call. Nothing obliges a user to make a call. In `thread_liveness` a task may wait
for something nobody completes: what is queued still runs in the nested loop, but the task itself does not
return, so that `CallsReturn` excepts a synchronous call while somebody waits; and `QuitFinishes` excepts a
`quit()` with a wait under way, which may forget the request (section 5, *A forgotten quit*). A nested
loop that was left too early, with its restart and the `quit()` calls that make up for it, is part of the run.
In `callbacks` time is weakly fair too. In `pool` each thread is weakly fair as a whole (one
of its own steps happens if one stays possible); calls and callbacks are never obliged.
In `replication` the server answers, the timer fires, the client reads and the socket reconnects,
each weakly fair: they are callbacks of running loops, and the socket of the client is one that
reconnects. Losses are bounded, and so are the times the timer, set to a second, fires with messages
under way (without that bound weak fairness admits a link that is slower than the timer for ever). The
server's owner is never obliged to append. In `server` the pool's thread and each other thread are
weakly fair: loops run tasks, the users of `received()` return, `quit()` goes on; peers are not
obliged to send or to close.

## 4. The proofs

TLAPS proves for every number of tasks, clients and waiters, and any bound:

- `TypeCorrect`: `Spec => []TypeOK`.
- `NoWakeupLost`: `Spec /\ []WithinLimit => []NoLostWakeup`, where `WithinLimit` says
  that no batch exceeds the overload limit. Without it the code does lose wake-ups
  (`overload_lost_wakeup`). The invariant is `WakeInv`: below the top of the stack
  frames are busy, a sleeping loop has `wake_` clear and sleeps the way `wake()`
  wakes it, so every step that gives it work also ends the sleep.
- `TasksRunInOrder` (`Fifo`), `FinishedDrained`, `OutermostAnnounced`, under
  `RegularUse`: nobody stops a thread that is starting, and no task of the last drain
  waits. The invariant is `QueueInv`. `Shape` describes the stack; `Lifecycle`
  relates it to the state bits; `Batch` says that an unfinished batch belongs to a
  frame that is draining, with nothing above that could swap the queues;
  `WaiterFrames` and `NestedBound` bound `nested_` by the nested executions that wait
  and the `quit()` calls that `Waiter::wait()` still owes (`Credits`), which is
  what keeps the outermost execution from being taken for a nested one. None of the
  properties is inductive without them: `Fifo` needs that `exec()` swaps the queues
  with an empty batch only, which needs `Batch`, which needs `Shape`.
- `ThreadImplementsTaskQueue`: `Spec => ImplementsTaskQueue`, and `FinishedStaysFinished`, under
  `RegularUse`: every step maps to a step of `TaskQueue` or to a stutter.
- `InterruptedDrained` (`InterruptedIsDrained`), under `RegularUse`, for a thread without Waiters
  (`Waiter = {}`) and as long as the queue stays within its limit (`WithinLimit`). All three are needed: with a
  waiter, `invokeTask` does not see the interruption; with an overload, it is acknowledged with tasks still
  queued (section 5 has both). The property is then inductive
  over `QueueInv` and `WakeInv`: the state becomes `Interrupted` alone only in the pass that has just found the
  queue empty with its batch done (`Batch`), and the next task makes it Running again (`InvokeTaskDrain`).
- `WaitsUntilComplete` (`SleepsOnlyWhileWaiting`), under `RegularUse` and `WithinLimit`, for one Waiter
  (`OneWaiter`); with two the code breaks it. `CompleteAt` and `NestedLoopPc` say at which places of the nested loop
  the wait may have completed without the loop having seen it, and `ToldInv` that the loop has then been told:
  `WaitFinished` is set, and nobody but that loop takes it back, because there is no other nested loop.

For the callbacks, for any number of timers, descriptors and users:

- `EachOwnedOnce` (`OwnedOnce`), whatever the users do, also when calls on a descriptor cross. The
  invariant `OwnedInv` makes the count of the property a matter of sets: each container has an object at most once (`OnceEach`), no two containers share one
  (`HandsDisjoint`), and together they hold all that were ever made (`HandsFull`).
- `KernelWatchesRegistered` (`WatchedAreRegistered`), for users that keep to `MayAdd` and `MayDrop`
  (`Coordinated`), and otherwise cross in any way. `FdInv` says which calls on a descriptor may be
  under way together, and what the kernel and the thread have of it then: one that adds is alone with it, and
  the object a modification is going to give the kernel is the one that is registered, if the kernel still watches
  the descriptor.
- `CollectedLive` (`CallsLive`) and `SleepsToDeadline` (`DeadlineKept`), for callbacks that do not invoke on their own
  thread while a batch is unfinished (`NoInvokeInBatch`; section 5 says what happens otherwise); the first
  also under `Coordinated`, without which the kernel itself reports what was deleted. `BatchInv`: an
  unfinished batch belongs to the frame on top that is running it; `NoneSleepsBelow`: only the top sleeps; so that
  between the deletion task of an object and the end of a batch which holds it there is always the end of the
  batch. `WakeupInv`: `wakeup` is no later than any running timer, and the sleep ends then or `wake_` is set.

For the pool, for any number of threads, workers and jobs, and whatever the users do (`uncoordinated` included):

- `TypeCorrect`, and `JobsNeverLost` (`JobInOnePlace`). A job is a value that queues, batches and stacks carry
  (`Carriers`): `JobInv` says that each carries it once, no two share one, and all of them, with the jobs that were
  delivered or refused, are those that were given. The same two operators serve `AskInv`: a call
  that waits for Main has one message in Main's queues, or one thread that is being started for it, never both;
  without it, an answer could reach a frame that is not waiting, and a job be handed out twice. `LifeInv`: a thread has
  tasks while it is open only, and a batch until it finishes, so that no job is left in a thread that has ended; and
  whoever may be posted to has begun.

For the pool with users that keep to the rules `MayAsk`, `MayCreate`, `MayDestroy`, `MayQuit` and `MayExit`
(`"uncoordinated" \notin Calls`; section 5 has what happens otherwise), which are asked once, when a call begins:

- `WorkersOwnedOnce` (`OwnedOnce`) and `UsedStaysAlive` (`UsedIsAlive`), from one invariant. `ClaimInv`: a worker
  lives as long as it is in `threads_` or claimed; a claim is a value carried by the frames of `destroy()` and by
  the deletions queued for Main, one of them at a time (`CarriedOnce`, the operator of `JobInv`), and from `Tell` on its
  worker is out of the list and told to quit. `UseInv` and `OwedInv`: who uses a worker, or expects a result in it,
  has it in the list and nobody is destroying it; `StartInv`: a worker that is being started is started by one, and
  counted against `workThreadsSize_` before it is a work thread (`WorkInv`). The rules speak of the moment of a call.
  That no step of anybody makes them false while the call lasts is `ApartInv` (no other thread asks for a worker while
  one is being destroyed or `quit()` runs), `QuitInv` (one `quit()`, below what it destroys on the same
  stack), `AloneInv` and `TeardownInv` (after Main was told to quit, and after the pool has gone, nobody else uses it).

For the ring, for every size, any items and any number of threads:

- `TypeCorrect`, `CountCorrect` (`CountInWindow`), `TimelineCorrect`
  (`RefinesTimeline`) and `AnswersCorrect` (`AnswersOfTimeline`), under
  `"appendWhileSaving" \notin Calls`: nobody else appends between the two halves of the
  serialisation. `TimelineCorrect` also needs `Fill < Size`, which the constructor does not see to
  (`Rrd.cpp:27`). For the other rings `EveryGapFilled` proves what the code does instead: the ring implements the
  timeline that fills every gap (`FillsEveryGap`, section 5). The others hold for any `Fill`. The invariant `IInv` joins types, `CountInWindow` and that an average starts within
  the ring; `ImageTidy` and `SameLast` carry a half-serialised image from `SaveLast` to
  `SaveData`. The work is in lemmas about slots: two indexes of a window
  have different slots (`SlotsDiffer`), an append writes exactly the slots of the indexes it passes
  (`AppendedSlots`), so that `View` of the new ring is the new timeline (`AppendedView`).

For the TCP server, for any number of threads, connections and buffers, and any limits:

- `ConnectionsKeepTheirThread` (`NoneStranded`), under `"acceptAtEnd" \notin Calls`: the rules
  `MayAccept` and `MayEnd` are kept; `quit()` may come in the middle of traffic. The property is about
  `at` and `threads`, but what breaks it travels in queues, and the invariant speaks of those. `DoomInv`: a
  thread whose destruction is queued has no socket and is given none. `GiveInv`: a thread that is
  given one is in the list, and is new or has a socket that stays. For both to be inductive, a disconnection
  that is queued must not be for a socket that comes in only later, or sits elsewhere (`PlaceInv`), and the
  socket that is given away must be the only one (`WaitInv`: Main waits for `createSocket()`).
  `ShrinkStep` covers in one lemma every step that gives no socket away, which most actions are.
- `NothingDeletedInUse` (`MainFindsItAlive`), under `Regular`: the rule above, and no `quit()` in the middle of traffic
  (section 5 has both violations). What Main finds depends on the order of its own queue. `OrderInv`: no task
  for a socket or a thread is behind the one that deletes it, and nothing received is behind the end of its socket
  unless the socket has left its thread; `UserInv`: what a user was given is not deleted under him, because Main
  itself deletes it; `LifeInv` and `QuitInv`: a socket in a thread is open, a listed thread is too, and no connection ends by
  itself once `quit()` has begun.
- `BuffersHeldOnce` (`BufferHeldOnce`), under `Regular`. `KeptOnce`: a buffer is in one place of one socket, being
  received, queued, with the users; `OwnerInv`, `GivenInv` and `CountedInv` tie these places to `receiveList` in both
  directions, as long as the thread of the socket still serves it; `UsedInv`: a buffer that is allocated is new; `HandInv`:
  a queue never has the same buffer twice.

For the connector, for any number of threads, connections and emissions:

- `EmissionsInOrder` (`InOrder`), with no assumption on `Calls`: the order survives even the uses that
  free what an emission still needs, or stop it for ever. The property speaks of calls that were made; the
  invariant follows a call from the mutex on. `HoldInv`: the emission that holds the mutex is the last
  one, nothing but a call it makes in place is above it, and no other is between lock and unlock.
  `AheadInv`: it has neither called nor posted to a connection still ahead of it. `PostInv`: what is
  posted to a connection is in the thread of the connection, in order, and none of it is by the thread of an Auto
  connection itself, whose calls in place may therefore overtake it. `CalledInv`: what was called is older than what
  is posted. `SyncInv`: at most one synchronous call exists, and its emission waits, so that
  nobody can hold the mutex and call meanwhile. `QuietStep` covers in one lemma
  the steps that post and call nothing.
- `DeletionAfterCalls` (`LastCallBeforeDeletion`), if no guard is destroyed while an emission of another thread
  is at its connection (`NoDisconnectInPassing`; section 5 has the call behind the deletion that is posted otherwise).
  `PassInv`: a task that was made and is not yet in a queue is for a connection that still has its thread, which is
  where the rule is needed. `DisconnectInv`: from the moment a guard has cleared `thread_`, nothing more is posted
  for the connection, and what was posted is in the thread it is being disconnected from; `BehindInv`: a deletion that is posted has all of it before it.
- `NobodyWaitsForItself` (`NoCircle`), if users keep the rules `useInCall` and `destroyInUse` (`NoUseInCall`); guards may
  be destroyed at any moment. `ClearInv`: who is going to lock the mutex does not hold it, and a connection
  disconnected by the holder is left to its own loop. `LayerInv`: what lies below the top of a stack are calls and the
  emissions that make them. `ApartInv`: while somebody emits, no other thread that uses the connector, or will because a
  deletion is on its way to it, is one an emission may wait for. The last is a rule on users at the moment of
  a call; the proof is that no later step, of anybody, makes it false.
- `InUseStaysLive` (`InUseIsLive`), if users keep all the rules (`Orderly`, no member of `Calls`). The references of a
  function are counted by what holds it: `RefInv` says that `ref_` is at least the number of queued calls,
  waiting or running, and one more while the connection has not let go, and one more while an emission has
  made a task for it that it has not handed over yet (`Hands`). A queued call is named by its
  emission, so that the calls of a connection are a set of numbers; `QueuedInv` says that no two are the same call, by
  the order proved before. A call in place and a synchronous one hold nothing: `BareInv` ties each to the
  emission that called it or waits for it, and `AtInv` says that the connection of that emission is whole and can
  be deleted by the loop of its own thread only, after the call. `SoleInv`: one frame or one posted task deletes a connection.
  `DestroyInv`: beside the destructor there are only calls; it has cleared `connector_` of what it
  passed, and what it has not passed and has a thread is whole. `WholeInv`: outside the destructor a listed connection is linked
  and not deleted, and one that is alive is listed. Of the steps only `Emit`, `Destroy`, `Connect` and
  `DestroyGuard`, where a user begins something, need the rules for this; every other keeps `LiveInv` by itself.

For the replication, for any number of rings, any sizes at both ends, any length of an answer and any number of
repeats and losses:

- `ItemsStayInPlace` (`ItemsInPlace`) and `NoneMissed` (`SameItems`), with no assumption on the users. The properties
  speak of the two ends; what breaks them is under way. `AnswersInv`: an answer is a part of the timeline of its
  epoch (`Part`), and, while that epoch lasts, what the server has, but for what was overwritten since (`Now`).
  `KnownInv`, by ring: what the client holds is of the epoch it was begun in (`Placed`); no request and no answer
  begins behind the next index, but for an answer that had to leave out what was overwritten (`Index`); the client is not ahead of
  the server, and what it left out when it began again is more than a ring old (`Gap`). `TcpRead` makes a loop over the items of an
  answer. The model writes it as a recursive function, and `AppendAllFills` says what the ring holds after
  k of them (`Filled`). The induction over k is done by hand: the library's theorem would need an operator as a parameter, but
  a set of natural numbers has a least element (`LeastNatural`, from the well-foundedness of `<`), so the first
  k at which it failed would have one before it at which it held (`UpTo`).
- `ThrownAwayForAReason` (`NotThrownAway`, an action property). Here the order of the messages matters, and `OrderInv`
  speaks of pairs, one `Earlier` than the other: the epochs of answers never go back (`Epochs`); requests ask
  for later and later indexes, and a request for nothing an answer before it has (`Sorted`, `Before`); so each answer ends
  where those before it end or later, and the client is `Behind` all of them, unless one was asked for an index
  that was gone. A ring that has crossed is out of this order, and that is why it is excepted.

*Only model-checked*: liveness (`TasksRun`, `QuitFinishes`, `CallsReturn`,
`CompletedWaitReturns`, `TimersRun`, `CatchesUp`, `NothingStuck`, and those of `pool`), which the prover does not reach.
Every invariant and every other property that a passing run checks is a theorem.

## 5. Where code and documents disagree

Three runs end with a violation (`overload_lost_wakeup`, `connection_freed`, `rrd_read`);
`PROJECT.json` quotes the lines. The first entry below describes the last of them; the others were met with
other constants and are not kept as runs:

- *One index too old* (`AnswerEndsAtItsIndex` of `Rrd`, run `rrd_read`): `Rrd.h:42` says that `read()`
  returns the index of the last record it extracted. For an index exactly `size` before the
  last (`Rrd.cpp:148` tests `>` where the oldest one left needs `>=`) the first record it extracts is
  the newest one, and with a count of one the index returned is one that was overwritten. An average of
  `aInterval = size` reads from there too when the index just reached a multiple of it.
- *A gap longer than the ring is filled* (`RefinesTimeline`, instance of `rrd` with `Fill = 3`): the step is
  cut to the size of the ring (`Rrd.cpp:79`) before it is compared with `fill` (91). With `fill >= size`, which
  the constructor accepts (27), every gap is filled, however long, although `Rrd.h:31` calls
  `fillInterval` the "Maximum allowed time window in milliseconds to auto-fill missed historical data gaps".
- *Calls on one descriptor that cross* (`CallsLive` and `WatchedAreRegistered` of `Callbacks`, instance of
  `callbacks` with `appendInPassing` or with `removeInPassing`): `epoll_ctl()` is called outside the mutex. An add
  between another user's `EPOLL_CTL_DEL` (1130) and its erase (1142) gives the kernel a new object, finds the old
  one still in the list, and deletes the new one (`goto ERR`, 1013), which the kernel goes on reporting. A removal
  between the two halves of an add takes the descriptor out of the kernel and finds nothing to erase; the add
  then inserts a descriptor nobody watches, and the next add of it ends as above. A modification
  (1069) that crosses a removal and an add gives the kernel the object that is being deleted.
- *A forgotten quit* (`QuitNotForgotten`, two tasks, a client, a waiter, `invoke`, `wait`, `quit`): a
  callback begins and completes a wait after the users have called `quit()`. The nested
  `exec()` that leaves clears `WaitFinished` (782), the users' request included, and the
  outermost loop sleeps again; `AbstractThread.h:157` says that `quit()` tells it to exit.
- *Stopped while starting* (`FinishedIsDrained`, with `stopStarting`): a `requestInterrupt()` or
  `quit()` before `exec()` begins makes it run as a nested execution (530), which ends without
  the last drain; tasks stay queued.
- *A timer deleted by its own callback* (`RunningIsAlive` of `Callbacks`, one timer,
  `selfInvokeInBatch`): `Timer::single()` removes its timer before it calls the function
  (`Timer.h:48`); a synchronous self-invocation in the function runs the deletion of the task
  that is running (971).
- *A stopped timer is called* (`StoppedIsSilent` of `Callbacks`, two timers due in one pass): the callback of
  the first stops the second, which was collected already (229-234, 758-767).
- *The pool waits for its worker and the worker for the pool* (`CallsReturn` in `pool`, with
  `uncoordinated`): the deletion of a worker blocks the pool's thread in `waitFinished()`
  (`ThreadPool.cpp:108`) while a job of the worker calls `async()`, which invokes synchronously on it.
- *A torn save* (`RefinesTimeline`, with `appendWhileSaving`): the index and the items are
  serialised one after the other without the mutex (`Rrd.cpp:199-201`); an append between them shifts
  the items of the saved ring.
- *A connector destroyed in use* (`InUseIsLive` of `Connector`, with `destroyInUse`): the destructor
  deletes a connection that its guard, or its thread, is deleting, and an emission that waits for the mutex
  finds no connector.
- *A call behind the deletion* (`LastCallBeforeDeletion` of `Connector`, with `disconnectInPassing`): an
  emission has made its task and read `thread_` for the last time (`FunctionConnector.h:106`); another thread destroys
  the guard and posts the deletion; the call comes into the queue behind it.
- *Use of a connector from a function it calls* (`NoCircle`, with `useInCall`): the mutex is held by
  the emission that called the function in place, or that waits for its thread; neither is ever let
  go. Calls queued to a thread still run after a guard of another thread was destroyed, by design of the count.
- *A replica thrown away* (`NotThrownAway` of `Replication` without its second exception): a server that is
  exactly a ring ahead of a request answers it with the index before the oldest it holds (see
  *One index too old*); after a repeated request the client takes that for a server that was cleared.
- *A hole in a replica* (`EndsEqual` of `Replication`, instance of `replication` with answers of two items,
  three indexes, steps of one and no loss): the timer repeats the request of a ring that is still being read
  (`RrdClient.cpp:41`), and the ring of the server is cleared. The answer to the first request makes the
  client begin again; the answer to the second, which asked for a later index, is taken for the next one, and
  the indexes before it, which arrive last, are refused as older. `RrdClient.h:20` calls the class one for
  synchronizing.
- *A stranded connection* (`NoneStranded` of `TcpServer`, with `acceptAtEnd`): the last socket of a thread
  closes and the thread posts its own destruction (`DataArrayAbstractTcp.cpp:94`); the connection that comes
  in before that task has run is given to this thread, the least loaded one, and is deleted with it,
  without `stateChanged`.
- *Deletion by quit()* (`MainFindsItAlive`, with `quitInTraffic`): the threads are deleted with the sockets
  they have, while arrays of these sockets are queued behind, and the users are given a deleted one.
- *A task for a socket that was deleted* (`AddressedIsAlive`, instance of `server`, `Calls` empty):
  `releaseBuffer()` posts `[this, da]` to the socket's thread (`DataArraySocket.cpp:353`); the connection ends
  before it runs, the pool's thread deletes the socket, and the task uses it.
  `DataArrayAbstractTcp.h:63` says that the cleanup of buffers is fully automated.
  The same holds of `disconnectFromHost()` and of the write event of `AbstractSocket::write_fd()`.
- *No thread any more* (`RunTransmit`, `DisconnectFromHost`): the task of `transmit()` calls
  `thread_->invoke()` (320) without asking whether the connection has ended since it was queued, and
  `disconnectFromHost()` calls it without asking at all. What was being received when a connection ends is taken
  out of the list and never freed (120).
- *The exchange* (`DataArrayTcpClient.cpp:60-96`, read, not modelled): an answer assigns to the parameter
  `rda`, a copy of the caller's pointer, so it never reaches the caller; it may resume the
  coroutine in the socket's thread while the caller is still suspending it or waiting; the periodic timer
  resumes a handle that is null when the answer came first.
- *A second wait clears the end of the first* (`SleepsOnlyWhileWaiting`, three tasks,
  two waiters, `invoke`, `wait`, `MaxDepth = 6`): a nested `exec()` that leaves clears
  `WaitFinished` (line 782) also for the execution that was told to leave before.
- *Interrupted with tasks queued* (`InterruptedIsDrained`, two tasks, a waiter,
  `invoke`, `wait`, `interrupt`, `MaxBatch = 1`): `invokeTask` compares the state with
  `Interrupted` alone (863) while `WaitFinished` is set as well. An overload has the same effect (a limit of one,
  three tasks, `invoke`, `interrupt`): the pass that ends because of it acknowledges the interruption with
  tasks still queued.
- *Started without announcement* (`OutermostIsAnnounced`, with `stopStarting`): the same
  cause as *Stopped while starting*.
- *Running again after the end* (`FinishedIsFinal`, with `waitFinishing`): a nested
  `exec()` begun by a task of the last drain starts the finished thread again.
- *Batches below a self-invocation* (`CallsLive`, `DeadlineKept` in `callbacks`, with
  `selfInvokeInBatch`): `processTasks()` runs the deletion of an object that a batch of
  the execution below still holds.
- *An uncoordinated pool* (`pool` with `uncoordinated`): `async()` from another thread after
  the pool's thread has finished dereferences the null that `getThread()` returns
  (`UsedIsAlive`); a worker destroyed twice, by two callers or by a caller and `quit()`,
  is deleted twice (`OwnedOnce`); a worker destroyed between `getThread()` and the post,
  or while a result is on its way to it, is used after its deletion (`UsedIsAlive`).
- *Least loaded* (`README.md:167`): `workLoad()` (901-907) counts the queue and `wake_`, not the batch the
  thread has taken; a worker busy with a long batch looks idle. The model keeps the
  definition; no property depends on the choice.

## 6. Not modelled

In `ThreadPool`: the static list of pools, names, `workThreadsSize_` of 0 (for which
`getThread()` returns null), and the Waiters and synchronous invocations users may add.
In `Connector`: the copying of arguments, and a guard that is moved or assigned. In `Rrd`:
a ring of size 0 and a read-only one, compression of the file, `append()` without an index
(the clock as the index), the offset of the average (`aOffset`) and an average over more indexes than
the ring has (`setAverage` does not bound it). In `Replication`: a transmission that
is refused because the buffer is full, an answer that cannot be decoded, a ring the server does not
have, and the timer id that is not set between the two constructor lines of `RrdClient` that
connect the socket and create the timer.
In `TcpServer`: the division of arrays into reads, limits in bytes, encryption, timers (their effect is
`ConnectionEnds`), the state `Closing` of a socket that still has data to send (it is closed at once),
answers from other threads than the pool's, and the client, whose `exchange()` was left aside because in all
but the simplest interleaving it goes wrong (section 5).

The `poll()` build, Windows and the Qt integration; the global list of threads and the
thread ids; log output. A thread's own destructor called while it is executing
(line 362) and the erasure of the end iterator (413) are undefined behaviour of one
statement and listed as hazards only. The other components are in `PROJECT.json` with
the reason or the place in the plan.

## 7. Plan

Done: the thread, its callbacks, the pool, the ring, the replication, the TCP server and
the connector (model, runs and proofs of all invariants the runs check). Left, in order, with what
each needs:

1. `AbstractSocket` and the rest of `DataArraySocket`: partial writes, framing over any division
   into reads, `close()` against `disconnect()` with data still to be written, reconnection.
2. `Coroutine` and the exchange of `DataArrayTcpClient`: a caller parked in a `Waiter` until an
   answer, a time-out or the removal of its socket.
3. The repetition filter of `Log`, as operators over a sequence of messages.

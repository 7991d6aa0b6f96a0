----------------------------- MODULE Callbacks -----------------------------
(***************************************************************************)
(* Timers and poll descriptors of AsyncFw::AbstractThread                   *)
(* (src/core/AbstractThread.cpp): how they are registered, changed and      *)
(* removed by the thread's own callbacks and by other threads, how exec()   *)
(* computes the time it may sleep until, collects the callbacks that are    *)
(* due or reported, and runs them, also in a nested exec(), and when the    *)
(* objects that hold them are deleted.                                      *)
(*                                                                         *)
(* The wake-up protocol itself is the subject of module AbstractThread:     *)
(* here a sleep ends when wake_ is set.  The thread runs all the time, and  *)
(* no batch of tasks exceeds the overload limit.                            *)
(***************************************************************************)
EXTENDS Integers, Sequences, FiniteSets, SequencesExt, Functions

CONSTANTS
  Callback,   \* the AbstractTask and PollTask objects, each registered at most once
  Client,     \* the other threads
  Loop,       \* the managed thread
  None,       \* no object, or a task of the queue that deletes none
  Descriptor, \* the file descriptors
  Interval,   \* the timeouts of timers, 0 for a timer that is stopped
  Calls,      \* what the users of the thread call, a subset of AllCalls
  MaxTime,    \* bound: the clock
  MaxTimers,  \* bound: registered timers
  MaxTasks,   \* bound: tasks other than deletions
  MaxDepth,   \* bound: frames on the stack
  MaxCalls    \* bound: calls one callback makes

(***************************************************************************)
(* The calls an instance may exercise.  "selfInvokeInBatch" stands for a    *)
(* synchronous invoke() on the own thread while timers or descriptors that  *)
(* were collected are still to be called; "appendInPassing" for adding a    *)
(* descriptor that another thread is in the middle of removing or           *)
(* modifying, "removeInPassing" for removing one that is being added.       *)
(***************************************************************************)
AllCalls == {"appendTimer", "modifyTimer", "removeTimer", "appendPoll", "modifyPoll", "removePoll",
             "appendInPassing", "removeInPassing", "invoke", "selfInvoke", "selfInvokeInBatch",
             "wait"}

ASSUME CallbacksAssumption ==
  /\ Loop \notin Client /\ None \notin Callback \cup Descriptor
  /\ IsFiniteSet(Callback) /\ IsFiniteSet(Interval)
  /\ Interval \subseteq Nat /\ Calls \subseteq AllCalls
  /\ MaxTime \in Nat /\ MaxTimers \in Nat /\ MaxTasks \in Nat
  /\ MaxDepth \in Nat \ {0} /\ MaxCalls \in Nat

VARIABLES
  clock,                 \* steady_clock
  timers,                \* private_.timers, by id
  wakeup,                \* private_.wakeup
  wake,                  \* private_.wake_
  until,                 \* the time the sleeping loop sleeps until
  now,                   \* the time the loop read before it slept
  poll_tasks,            \* private_.poll_tasks, by descriptor
  epoll,                 \* the interest list of private_.epoll_fd
  found,                 \* by user: the object modifyPollDescriptor() has found, or None
  reported,              \* the events epoll_wait() returned
  tasks, process_tasks,  \* the queues of tasks: an object to delete, or None
  process_timer_tasks,   \* private_.process_timer_tasks_
  process_poll_tasks,    \* private_.process_poll_tasks_
  stack,                 \* the frames of the thread
  op,                    \* the call a user is in the middle of
  used,                  \* history: the objects registered so far
  deleted,               \* history: the objects deleted
  invoked                \* history: number of tasks posted

timerVars == <<timers, wakeup>>
pollVars  == <<poll_tasks, epoll, found>>
sleepVars == <<wake, until, now>>
queueVars == <<tasks, process_tasks>>
batchVars == <<process_timer_tasks, process_poll_tasks>>
vars == <<clock, timerVars, pollVars, sleepVars, reported, queueVars, batchVars, stack, op,
          used, deleted, invoked>>

User == Client \cup {Loop}
Timer == [timeout : Nat, expire : Nat, task : Callback]
Never == MaxTime + 1000          \* time_point::max(), later than any deadline

Active(id) == timers[id].timeout > 0
Fresh == Callback \ used

(***************************************************************************)
(* The stack: executions of exec(), nested ones between the callbacks that  *)
(* wait, and of processTasks().                                             *)
(***************************************************************************)
ExecPc == {"tasks", "drainTasks", "drainPolls", "drainTimers", "timers", "polls",
           "cv", "epoll", "reported"}
Frame == [pc : ExecPc \cup {"body", "sync1", "sync2"}, task : Callback \cup {None},
          complete : BOOLEAN, calls : Nat]
NewFrame(pc, o) == [pc |-> pc, task |-> o, complete |-> FALSE, calls |-> 0]

At(pcs) == stack[Len(stack)].pc \in pcs
To(pc) == [stack EXCEPT ![Len(stack)].pc = pc]
Called == [stack EXCEPT ![Len(stack)].calls = @ + 1]
Push(s, pc) == Append(s, NewFrame(pc, None))
Call(o) == Append(stack, NewFrame("body", o))

Idle == [kind |-> "none", fd |-> None, task |-> None]

\* A call is made by another thread, or by the callback on top of the stack.
Callers(name) ==
  {p \in User :
     /\ name \in Calls /\ op[p] = Idle
     /\ p = Loop => At({"body"}) /\ stack[Len(stack)].calls < MaxCalls}

Spend(p) == stack' = IF p = Loop THEN Called ELSE stack

-----------------------------------------------------------------------------
(***************************************************************************)
(* Timers.  A timer gets the smallest free id.                              *)
(***************************************************************************)
Earlier(t) == /\ wakeup' = IF wakeup > t THEN t ELSE wakeup
              /\ wake' = (wake \/ wakeup > t)

SmallestFree(id) == id \notin DOMAIN timers /\ 0..(id - 1) \subseteq DOMAIN timers

AppendTimer(p, ms, o) ==
  /\ p \in Callers("appendTimer") /\ o \in Fresh
  /\ Cardinality(DOMAIN timers) < MaxTimers
  /\ IF ms > 0 THEN Earlier(clock + ms) ELSE UNCHANGED <<wakeup, wake>>
  /\ \E n \in 0..Cardinality(DOMAIN timers) :
       /\ SmallestFree(n)
       /\ timers' = [id \in DOMAIN timers \cup {n} |->
                       IF id = n
                       THEN [timeout |-> ms, expire |-> IF ms > 0 THEN clock + ms ELSE 0, task |-> o]
                       ELSE timers[id]]
  /\ used' = used \cup {o}
  /\ Spend(p)
  /\ UNCHANGED <<clock, pollVars, until, now, reported, queueVars, batchVars, op, deleted,
                 invoked>>

\* Mutant: the loop is not told that the timer is due earlier.
ModifyTimerQuietly(p, id, ms) ==
  /\ p \in Callers("modifyTimer") /\ id \in DOMAIN timers
  /\ timers' = [timers EXCEPT ![id].timeout = ms,
                              ![id].expire = IF ms > 0 THEN clock + ms ELSE @]
  /\ Spend(p)
  /\ UNCHANGED <<clock, wakeup, wake, pollVars, until, now, reported, queueVars, batchVars, op,
                 used, deleted, invoked>>

ModifyTimer(p, id, ms) ==
  /\ p \in Callers("modifyTimer") /\ id \in DOMAIN timers
  /\ timers' = [timers EXCEPT ![id].timeout = ms,
                              ![id].expire = IF ms > 0 THEN clock + ms ELSE @]
  /\ IF ms > 0 THEN Earlier(clock + ms) ELSE UNCHANGED <<wakeup, wake>>
  /\ Spend(p)
  /\ UNCHANGED <<clock, pollVars, until, now, reported, queueVars, batchVars, op, used, deleted,
                 invoked>>

\* Mutant: the timer stays in the list while its task is on the way to be deleted.
RemoveTimerLater(p, id) ==
  /\ p \in Callers("removeTimer") /\ id \in DOMAIN timers
  /\ op' = [op EXCEPT ![p] = [kind |-> "delete", fd |-> None, task |-> timers[id].task]]
  /\ Spend(p)
  /\ UNCHANGED <<clock, timerVars, pollVars, sleepVars, reported, queueVars, batchVars, used,
                 deleted, invoked>>

\* The timer is erased; its task is deleted by a task of the queue.
RemoveTimer(p, id) ==
  /\ p \in Callers("removeTimer") /\ id \in DOMAIN timers
  /\ op' = [op EXCEPT ![p] = [kind |-> "delete", fd |-> None, task |-> timers[id].task]]
  /\ timers' = Restrict(timers, DOMAIN timers \ {id})
  /\ Spend(p)
  /\ UNCHANGED <<clock, wakeup, pollVars, sleepVars, reported, queueVars, batchVars, used,
                 deleted, invoked>>

(***************************************************************************)
(* Poll descriptors.  The kernel's list is changed before the mutex is      *)
(* taken, by modifyPollDescriptor() after it was released, so that calls on *)
(* one descriptor may cross.                                                *)
(***************************************************************************)
InMiddle(fd, kinds) == \E p \in User : op[p].fd = fd /\ op[p].kind \in kinds

\* What users have to see to, as the code does not.
MayAdd(fd) == "appendInPassing" \in Calls \/ ~InMiddle(fd, {"erase", "modify"})
MayDrop(fd) == "removeInPassing" \in Calls \/ ~InMiddle(fd, {"insert"})

\* epoll_ctl(EPOLL_CTL_ADD), which refuses a descriptor that is there already.
AddDescriptor(p, fd, o) ==
  /\ p \in Callers("appendPoll") /\ o \in Fresh /\ MayAdd(fd)
  /\ used' = used \cup {o}
  /\ \/ /\ fd \in DOMAIN epoll
        /\ deleted' = deleted \cup {o}
        /\ UNCHANGED <<epoll, op>>
     \/ /\ fd \notin DOMAIN epoll
        /\ epoll' = [d \in DOMAIN epoll \cup {fd} |-> IF d = fd THEN o ELSE epoll[d]]
        /\ op' = [op EXCEPT ![p] = [kind |-> "insert", fd |-> fd, task |-> o]]
        /\ UNCHANGED deleted
  /\ Spend(p)
  /\ UNCHANGED <<clock, timerVars, poll_tasks, found, sleepVars, reported, queueVars, batchVars,
                 invoked>>

InsertDescriptor(p) ==
  /\ op[p].kind = "insert"
  /\ LET fd == op[p].fd
     IN \/ /\ fd \in DOMAIN poll_tasks
           /\ deleted' = deleted \cup {op[p].task}
           /\ UNCHANGED <<wake, poll_tasks>>
        \/ /\ fd \notin DOMAIN poll_tasks
           /\ wake' = (wake \/ DOMAIN poll_tasks = {})
           /\ poll_tasks' = [d \in DOMAIN poll_tasks \cup {fd} |->
                               IF d = fd THEN op[p].task ELSE poll_tasks[d]]
           /\ UNCHANGED deleted
  /\ op' = [op EXCEPT ![p] = Idle]
  /\ UNCHANGED <<clock, timerVars, epoll, found, until, now, reported, queueVars, batchVars, stack,
                 used, invoked>>

\* modifyPollDescriptor(): under the mutex, the object of the descriptor is looked up.
FindDescriptor(p, fd) ==
  /\ p \in Callers("modifyPoll")
  /\ \/ fd \notin DOMAIN poll_tasks /\ UNCHANGED <<op, found>>
     \/ /\ fd \in DOMAIN poll_tasks
        /\ op' = [op EXCEPT ![p] = [kind |-> "modify", fd |-> fd, task |-> None]]
        /\ found' = [found EXCEPT ![p] = poll_tasks[fd]]
  /\ Spend(p)
  /\ UNCHANGED <<clock, timerVars, poll_tasks, epoll, sleepVars, reported, queueVars, batchVars,
                 used, deleted, invoked>>

\* After it, epoll_ctl(EPOLL_CTL_MOD) gives the kernel the events and the object again.
ChangeDescriptor(p) ==
  /\ op[p].kind = "modify"
  /\ epoll' = [fd \in DOMAIN epoll |-> IF fd = op[p].fd THEN found[p] ELSE epoll[fd]]
  /\ op' = [op EXCEPT ![p] = Idle] /\ found' = [found EXCEPT ![p] = None]
  /\ UNCHANGED <<clock, timerVars, poll_tasks, sleepVars, reported, queueVars, batchVars, stack,
                 used, deleted, invoked>>

\* Mutant: the descriptor stays in the kernel's list.
DropDescriptorKeeps(p, fd) ==
  /\ p \in Callers("removePoll") /\ MayDrop(fd)
  /\ op' = [op EXCEPT ![p] = [kind |-> "erase", fd |-> fd, task |-> None]]
  /\ Spend(p)
  /\ UNCHANGED <<clock, timerVars, pollVars, sleepVars, reported, queueVars, batchVars, used,
                 deleted, invoked>>

\* epoll_ctl(EPOLL_CTL_DEL).
DropDescriptor(p, fd) ==
  /\ p \in Callers("removePoll") /\ MayDrop(fd)
  /\ epoll' = Restrict(epoll, DOMAIN epoll \ {fd})
  /\ op' = [op EXCEPT ![p] = [kind |-> "erase", fd |-> fd, task |-> None]]
  /\ Spend(p)
  /\ UNCHANGED <<clock, timerVars, poll_tasks, found, sleepVars, reported, queueVars, batchVars,
                 used, deleted, invoked>>

EraseDescriptor(p) ==
  /\ op[p].kind = "erase"
  /\ LET fd == op[p].fd
     IN \/ /\ fd \notin DOMAIN poll_tasks
           /\ op' = [op EXCEPT ![p] = Idle]
           /\ UNCHANGED <<wake, poll_tasks>>
        \/ /\ fd \in DOMAIN poll_tasks
           /\ wake' = (wake \/ DOMAIN poll_tasks = {fd})
           /\ poll_tasks' = Restrict(poll_tasks, DOMAIN poll_tasks \ {fd})
           /\ op' = [op EXCEPT ![p] = [kind |-> "delete", fd |-> None, task |-> poll_tasks[fd]]]
  /\ UNCHANGED <<clock, timerVars, epoll, found, until, now, reported, queueVars, batchVars, stack,
                 used, deleted, invoked>>

\* Mutant: the object is deleted on the spot.
InvokeDeleteAtOnce(p) ==
  /\ op[p].kind = "delete"
  /\ deleted' = deleted \cup {op[p].task}
  /\ op' = [op EXCEPT ![p] = Idle]
  /\ UNCHANGED <<clock, timerVars, pollVars, sleepVars, reported, queueVars, batchVars, stack,
                 used, invoked>>

\* invokeTask() of the task that deletes the removed object.
InvokeDelete(p) ==
  /\ op[p].kind = "delete"
  /\ tasks' = Append(tasks, op[p].task)
  /\ wake' = TRUE
  /\ op' = [op EXCEPT ![p] = Idle]
  /\ UNCHANGED <<clock, timerVars, pollVars, until, now, reported, process_tasks, batchVars, stack,
                 used, deleted, invoked>>

-----------------------------------------------------------------------------
(***************************************************************************)
(* Other calls: a task, a synchronous invoke() by a callback, a wait and    *)
(* its completion by a callback run by the nested loop.                     *)
(***************************************************************************)
Invoke(p) ==
  /\ p \in Callers("invoke") /\ invoked < MaxTasks
  /\ tasks' = Append(tasks, None)
  /\ wake' = TRUE
  /\ invoked' = invoked + 1
  /\ Spend(p)
  /\ UNCHANGED <<clock, timerVars, pollVars, until, now, reported, process_tasks, batchVars, op,
                 used, deleted>>

SelfInvoke ==
  /\ Loop \in Callers("selfInvoke") /\ Len(stack) + 1 < MaxDepth
  /\ process_timer_tasks # <<>> \/ process_poll_tasks # <<>> => "selfInvokeInBatch" \in Calls
  /\ stack' = Push(Called, "sync1")
  /\ UNCHANGED <<clock, timerVars, pollVars, sleepVars, reported, queueVars, batchVars, op, used,
                 deleted, invoked>>

\* exec() begins nested: one kind of unfinished callbacks is run before anything else.
Wait ==
  /\ Loop \in Callers("wait") /\ Len(stack) + 1 < MaxDepth
  /\ \/ /\ process_tasks # <<>>
        /\ stack' = Push(Called, "drainTasks") /\ UNCHANGED queueVars
     \/ /\ process_tasks = <<>> /\ process_poll_tasks # <<>>
        /\ stack' = Push(Called, "drainPolls") /\ UNCHANGED queueVars
     \/ /\ process_tasks = <<>> /\ process_poll_tasks = <<>> /\ process_timer_tasks # <<>>
        /\ stack' = Push(Called, "drainTimers") /\ UNCHANGED queueVars
     \/ /\ process_tasks = <<>> /\ process_poll_tasks = <<>> /\ process_timer_tasks = <<>>
        /\ stack' = Push(Called, "tasks")
        /\ process_tasks' = tasks /\ tasks' = <<>>
  /\ UNCHANGED <<clock, timerVars, pollVars, sleepVars, reported, batchVars, op, used, deleted,
                 invoked>>

Nested == {i \in 2..Len(stack) : stack[i].pc \in ExecPc}

Complete ==
  /\ Loop \in Callers("wait")
  /\ \E i \in Nested :
       /\ \A j \in Nested : j <= i
       /\ ~stack[i].complete
       /\ stack' = [Called EXCEPT ![i].complete = TRUE]
  /\ wake' = TRUE
  /\ UNCHANGED <<clock, timerVars, pollVars, until, now, reported, queueVars, batchVars, op, used,
                 deleted, invoked>>

-----------------------------------------------------------------------------
(***************************************************************************)
(* The managed thread: running what has been collected.                     *)
(***************************************************************************)
RunTask ==
  /\ At({"tasks", "drainTasks", "sync1", "sync2"}) /\ process_tasks # <<>>
  /\ process_tasks' = Tail(process_tasks)
  /\ \/ /\ Head(process_tasks) = None /\ Len(stack) < MaxDepth
        /\ stack' = Call(None)
        /\ UNCHANGED deleted
     \/ /\ Head(process_tasks) # None
        /\ deleted' = deleted \cup {Head(process_tasks)}
        /\ UNCHANGED stack
  /\ UNCHANGED <<clock, timerVars, pollVars, sleepVars, reported, tasks, batchVars, op, used,
                 invoked>>

RunTimer ==
  /\ At({"timers", "drainTimers"}) /\ process_timer_tasks # <<>> /\ Len(stack) < MaxDepth
  /\ process_timer_tasks' = Tail(process_timer_tasks)
  /\ stack' = Call(Head(process_timer_tasks))
  /\ UNCHANGED <<clock, timerVars, pollVars, sleepVars, reported, queueVars, process_poll_tasks,
                 op, used, deleted, invoked>>

RunPoll ==
  /\ At({"polls", "drainPolls"}) /\ process_poll_tasks # <<>> /\ Len(stack) < MaxDepth
  /\ process_poll_tasks' = Tail(process_poll_tasks)
  /\ stack' = Call(Head(process_poll_tasks))
  /\ UNCHANGED <<clock, timerVars, pollVars, sleepVars, reported, queueVars, process_timer_tasks,
                 op, used, deleted, invoked>>

BodyReturns ==
  /\ At({"body"}) /\ op[Loop] = Idle
  /\ stack' = Front(stack)
  /\ UNCHANGED <<clock, timerVars, pollVars, sleepVars, reported, queueVars, batchVars, op, used,
                 deleted, invoked>>

\* The queues are swapped: by processTasks(), and by a nested exec() before its loop.
SwapQueues ==
  /\ \/ At({"sync1", "drainTasks"}) /\ process_tasks = <<>>
     \/ At({"drainPolls"}) /\ process_poll_tasks = <<>>
     \/ At({"drainTimers"}) /\ process_timer_tasks = <<>>
  /\ process_tasks' = tasks /\ tasks' = process_tasks
  /\ stack' = To(IF At({"sync1"}) THEN "sync2" ELSE "tasks")
  /\ UNCHANGED <<clock, timerVars, pollVars, sleepVars, reported, batchVars, op, used, deleted,
                 invoked>>

SelfInvokeFunction ==
  /\ At({"sync2"}) /\ process_tasks = <<>>
  /\ stack' = To("body")
  /\ UNCHANGED <<clock, timerVars, pollVars, sleepVars, reported, queueVars, batchVars, op, used,
                 deleted, invoked>>

(***************************************************************************)
(* Timers due at time t are collected in the order of their ids; wakeup     *)
(* becomes the earliest deadline that is left.                              *)
(***************************************************************************)
Due(t) == {id \in DOMAIN timers : Active(id) /\ timers[id].expire <= t}

Renewed(r, t) == [r EXCEPT !.expire = IF r.expire + r.timeout <= t THEN t + r.timeout
                                      ELSE r.expire + r.timeout]

\* The deadlines of the timers ts that run, and the time without any.
Deadlines(ts) == {Never} \cup {ts[id].expire : id \in {i \in DOMAIN ts : ts[i].timeout > 0}}
IsEarliest(t, ts) == t \in Deadlines(ts) /\ \A u \in Deadlines(ts) : t <= u

\* The callbacks of the timers due at t, by id.
IsDueInOrder(batch, t) ==
  \E ids \in [1..Cardinality(Due(t)) -> Due(t)] :
    /\ \A i, j \in DOMAIN ids : i < j => ids[i] < ids[j]
    /\ batch = [i \in DOMAIN ids |-> timers[ids[i]].task]

\* Mutant: only the timers that stay are looked at for the next deadline.
CollectForgets(t) ==
  /\ timers' = [id \in DOMAIN timers |->
                  IF id \in Due(t) THEN Renewed(timers[id], t) ELSE timers[id]]
  /\ LET left == Restrict(timers, DOMAIN timers \ Due(t))
     IN \E w \in Deadlines(left) : IsEarliest(w, left) /\ wakeup' = w
  /\ \E batch \in SetToSeqs({timers[id].task : id \in Due(t)}) :
       IsDueInOrder(batch, t) /\ process_timer_tasks' = process_timer_tasks \o batch
  /\ \/ process_timer_tasks' = <<>> /\ stack' = To("tasks") /\ UNCHANGED wake
     \/ process_timer_tasks' # <<>> /\ stack' = To("timers") /\ wake' = TRUE

Collect(t) ==
  /\ timers' = [id \in DOMAIN timers |->
                  IF id \in Due(t) THEN Renewed(timers[id], t) ELSE timers[id]]
  /\ \E w \in Deadlines(timers') : IsEarliest(w, timers') /\ wakeup' = w
  /\ \E batch \in SetToSeqs({timers[id].task : id \in Due(t)}) :
       IsDueInOrder(batch, t) /\ process_timer_tasks' = process_timer_tasks \o batch
  /\ \/ process_timer_tasks' = <<>> /\ stack' = To("tasks") /\ UNCHANGED wake
     \/ process_timer_tasks' # <<>> /\ stack' = To("timers") /\ wake' = TRUE

(***************************************************************************)
(* exec() at the label CONTINUE: new tasks, the end of a nested execution,  *)
(* a sleep, or the timers.                                                  *)
(***************************************************************************)
Continue ==
  \/ /\ tasks # <<>>
     /\ process_tasks' = tasks /\ tasks' = process_tasks
     /\ stack' = To("tasks")
     /\ UNCHANGED <<timerVars, wake, until, now, process_timer_tasks>>
  \/ /\ tasks = <<>> /\ stack[Len(stack)].complete
     /\ stack' = Front(stack)
     /\ UNCHANGED <<timerVars, wake, until, now, queueVars, process_timer_tasks>>
  \/ /\ tasks = <<>> /\ ~stack[Len(stack)].complete /\ wakeup > clock
     /\ wake' = FALSE /\ until' = wakeup /\ now' = clock
     /\ stack' = To(IF DOMAIN poll_tasks = {} THEN "cv" ELSE "epoll")
     /\ UNCHANGED <<timerVars, queueVars, process_timer_tasks>>
  \/ /\ tasks = <<>> /\ ~stack[Len(stack)].complete /\ wakeup <= clock
     /\ Collect(clock)
     /\ UNCHANGED <<until, now, queueVars>>

Pass ==
  /\ \/ At({"tasks"}) /\ process_tasks = <<>>
     \/ At({"timers"}) /\ process_timer_tasks = <<>>
     \/ At({"polls"}) /\ process_poll_tasks = <<>>
  /\ Continue
  /\ UNCHANGED <<clock, pollVars, reported, process_poll_tasks, op, used, deleted, invoked>>

Awake == until' = 0 /\ now' = 0

CvWakes ==
  /\ At({"cv"}) /\ wake
  /\ Awake
  /\ stack' = To("tasks")
  /\ UNCHANGED <<clock, timerVars, pollVars, wake, reported, queueVars, batchVars, op, used,
                 deleted, invoked>>

\* The timers are looked at with the time read before the sleep.
CvTimesOut ==
  /\ At({"cv"}) /\ until <= clock
  /\ Collect(now)
  /\ Awake
  /\ UNCHANGED <<clock, pollVars, reported, queueVars, process_poll_tasks, op, used, deleted,
                 invoked>>

(***************************************************************************)
(* epoll_wait() returns: woken, with descriptors that are ready, or by      *)
(* time-out; an unlimited wait is cut to an int and may end at any time.    *)
(* The mutex is free until the events are looked at.                        *)
(***************************************************************************)
EpollReturns ==
  /\ At({"epoll"})
  /\ \/ reported' = <<>> /\ (wake \/ until <= clock \/ until = Never)
     \/ \E ready \in SUBSET DOMAIN epoll :
          ready # {} /\ reported' \in SetToSeqs({epoll[fd] : fd \in ready})
  /\ Awake
  /\ stack' = To("reported")
  /\ UNCHANGED <<clock, timerVars, pollVars, wake, queueVars, batchVars, op, used, deleted, invoked>>

EpollReports ==
  /\ At({"reported"})
  /\ process_poll_tasks' = process_poll_tasks \o reported
  /\ reported' = <<>>
  /\ \/ process_poll_tasks' = <<>> /\ stack' = To("tasks") /\ UNCHANGED wake
     \/ process_poll_tasks' # <<>> /\ stack' = To("polls") /\ wake' = TRUE
  /\ UNCHANGED <<clock, timerVars, pollVars, until, now, queueVars, process_timer_tasks, op, used,
                 deleted, invoked>>

Tick ==
  /\ clock < MaxTime
  /\ clock' = clock + 1
  /\ UNCHANGED <<timerVars, pollVars, sleepVars, reported, queueVars, batchVars, stack, op, used,
                 deleted, invoked>>

Init ==
  /\ clock = 0
  /\ timers = <<>> /\ wakeup = Never /\ wake = TRUE /\ until = 0 /\ now = 0
  /\ poll_tasks = <<>> /\ epoll = <<>> /\ reported = <<>>
  /\ found = [p \in User |-> None]
  /\ tasks = <<>> /\ process_tasks = <<>>
  /\ process_timer_tasks = <<>> /\ process_poll_tasks = <<>>
  /\ stack = <<NewFrame("tasks", None)>>
  /\ op = [p \in User |-> Idle]
  /\ used = {} /\ deleted = {} /\ invoked = 0

LoopStep ==
  \/ RunTask \/ RunTimer \/ RunPoll \/ BodyReturns \/ SwapQueues \/ SelfInvokeFunction
  \/ Pass \/ CvWakes \/ CvTimesOut \/ EpollReturns \/ EpollReports
  \/ InsertDescriptor(Loop) \/ ChangeDescriptor(Loop) \/ EraseDescriptor(Loop) \/ InvokeDelete(Loop)

ClientStep(c) ==
  InsertDescriptor(c) \/ ChangeDescriptor(c) \/ EraseDescriptor(c) \/ InvokeDelete(c)

CallStep ==
  \/ \E p \in User :
       \/ \E ms \in Interval, o \in Callback : AppendTimer(p, ms, o)
       \/ \E id \in DOMAIN timers : (\E ms \in Interval : ModifyTimer(p, id, ms)) \/ RemoveTimer(p, id)
       \/ \E fd \in Descriptor : (\E o \in Callback : AddDescriptor(p, fd, o)) \/ DropDescriptor(p, fd)
       \/ \E fd \in Descriptor : FindDescriptor(p, fd)
       \/ Invoke(p)
  \/ SelfInvoke \/ Wait \/ Complete

Next == LoopStep \/ (\E c \in Client : ClientStep(c)) \/ CallStep \/ Tick

Spec == Init /\ [][Next]_vars

FairSpec == /\ Spec /\ WF_vars(LoopStep) /\ WF_vars(Tick)
            /\ \A c \in Client : WF_vars(ClientStep(c))
-----------------------------------------------------------------------------
(***************************************************************************)
(* Properties.                                                              *)
(***************************************************************************)

(***************************************************************************)
(* Every object is in exactly one hand: registered, being added or removed  *)
(* by one user, queued for deletion once, or deleted (appendTimer(),        *)
(* removeTimer(), appendPollDescriptor(), removePollDescriptor()).          *)
(***************************************************************************)
Holders(o) ==
  {<<"timer", id>> : id \in {i \in DOMAIN timers : timers[i].task = o}} \cup
  {<<"poll", fd>> : fd \in {d \in DOMAIN poll_tasks : poll_tasks[d] = o}} \cup
  {<<"op", p>> : p \in {q \in User : op[q].task = o}} \cup
  {<<"tasks", i>> : i \in {j \in DOMAIN tasks : tasks[j] = o}} \cup
  {<<"process_tasks", i>> : i \in {j \in DOMAIN process_tasks : process_tasks[j] = o}} \cup
  {<<"deleted", o>> : x \in deleted \cap {o}}
OwnedOnce == \A o \in used : Cardinality(Holders(o)) = 1

(***************************************************************************)
(* What the loop has collected, or the kernel may still report, is alive:   *)
(* the deferred deletion (removeTimer(), removePollDescriptor()) never      *)
(* overtakes a batch that holds the object.                                 *)
(***************************************************************************)
CallsLive ==
  (ToSet(process_timer_tasks) \cup ToSet(process_poll_tasks) \cup ToSet(reported) \cup Range(epoll))
    \cap deleted = {}

(***************************************************************************)
(* The object whose callback is running is not deleted under it: a callback *)
(* may remove its own timer, as Timer::single() always does, and goes on.   *)
(***************************************************************************)
RunningIsAlive == \A i \in 1..Len(stack) : stack[i].task \notin deleted

(***************************************************************************)
(* The sleeping loop wakes in time: it sleeps no longer than to the first   *)
(* deadline of a running timer, whoever set it when, and leaves nothing it  *)
(* has collected waiting (exec(), appendTimer(), modifyTimer()).            *)
(***************************************************************************)
DeadlineKept ==
  At({"cv", "epoll"}) /\ ~wake =>
    /\ \A id \in DOMAIN timers : Active(id) => until <= timers[id].expire
    /\ process_timer_tasks = <<>> /\ process_poll_tasks = <<>> /\ process_tasks = <<>>

(***************************************************************************)
(* Whatever the kernel watches is registered for the same object, or about  *)
(* to be by the user who added it, and whatever is registered is watched,   *)
(* or about to be erased by a user who removed it -- also while several     *)
(* users add, modify and remove one descriptor                              *)
(* (appendPollDescriptor(), modifyPollDescriptor(), removePollDescriptor()). *)
(***************************************************************************)
WatchedAreRegistered ==
  \A fd \in Descriptor :
    /\ fd \in DOMAIN epoll =>
         \/ fd \in DOMAIN poll_tasks /\ epoll[fd] = poll_tasks[fd]
         \/ \E p \in User : op[p] = [kind |-> "insert", fd |-> fd, task |-> epoll[fd]]
    /\ fd \in DOMAIN poll_tasks \ DOMAIN epoll => InMiddle(fd, {"erase"})

(***************************************************************************)
(* A timer whose deadline has passed has its callback called, unless it is  *)
(* stopped, changed or removed first.                                       *)
(***************************************************************************)
IsDue(o) == o \in ToSet(process_timer_tasks) \/ \E id \in Due(clock) : timers[id].task = o
TimersRun == \A o \in Callback : IsDue(o) ~> ~IsDue(o)

(***************************************************************************)
(* A timer that has been stopped or removed is not called (Timer::stop()    *)
(* "Stops the timer", removeTimer() "Remove timer").                        *)
(***************************************************************************)
StoppedIsSilent ==
  [][\A o \in Callback :
       process_timer_tasks = <<o>> \o process_timer_tasks' =>
         \E id \in DOMAIN timers : timers[id].task = o /\ Active(id)]_vars
=============================================================================

--------------------------- MODULE AbstractThread ---------------------------
(***************************************************************************)
(* AsyncFw::AbstractThread (src/core/AbstractThread.cpp): one managed       *)
(* thread with its task queue, its event loop exec() with nested calls of   *)
(* it (Waiter), the sleep and wake-up protocol (wake_, condition variable,  *)
(* eventfd) and its lifecycle (start, requestInterrupt, quit, waitFinished, *)
(* destructor), used by other threads, the clients, and by the callbacks    *)
(* that run on the managed thread itself.                                   *)
(*                                                                         *)
(* Every critical section of private_.mutex is one step, and so is every    *)
(* stretch of unlocked code between two of them.  Timers and poll           *)
(* descriptors appear only by what they do to the loop: they end a sleep    *)
(* and make it run a batch of callbacks, and the number of registered       *)
(* descriptors selects how the loop sleeps.                                 *)
(***************************************************************************)
EXTENDS Integers, Sequences, FiniteSets, SequencesExt

CONSTANTS
  Task,          \* the task objects, each invoked at most once
  Client,        \* the other threads that use this one
  Waiter,        \* the AbstractThread::Waiter objects
  Loop,          \* the managed thread itself
  None,          \* the null pointer
  Calls,         \* what the users of the thread call, a subset of AllCalls
  OverloadSize,  \* QUEUE_TASKS_OVERLOAD_SIZE
  MaxDepth,      \* bound: frames on the managed thread's stack
  MaxCalls,      \* bound: calls one callback makes
  MaxPolls,      \* bound: registered poll descriptors
  MaxBatch,      \* bound: timers or descriptors due at once, 0 for none
  MaxPremature   \* bound: premature exits of a nested exec() by a foreign quit()

(***************************************************************************)
(* The calls an instance may exercise.  "syncUnstarted" stands for          *)
(* invoke(f, true) before start(), "stopStarting" for quit() and            *)
(* requestInterrupt() before exec() has begun, "waitFinishing" for          *)
(* Waiter::wait() in a task of the final drain.                             *)
(***************************************************************************)
AllCalls == {"invoke", "syncInvoke", "selfInvoke", "wait", "interrupt", "quit",
             "poll", "destroy", "syncUnstarted", "stopStarting", "waitFinishing"}

ASSUME ConstantsAssumption ==
  /\ Loop \notin Client /\ None \notin Task \cup Waiter
  /\ IsFiniteSet(Task)
  /\ Calls \subseteq AllCalls
  /\ OverloadSize \in Nat /\ MaxDepth \in Nat \ {0} /\ MaxCalls \in Nat
  /\ MaxPolls \in Nat /\ MaxBatch \in Nat /\ MaxPremature \in Nat

VARIABLES
  state,          \* the set of bits of private_.state
  nested,         \* private_.nested_
  tasks,          \* private_.tasks
  process_tasks,  \* private_.process_tasks_
  callbacks,      \* number of entries of process_poll_tasks_ and process_timer_tasks_
  polls,          \* number of entries of private_.poll_tasks
  wake,           \* private_.wake_
  cv,             \* the threads asleep on private_.condition_variable
  eventfd,        \* the eventfd is readable
  depth, frame,   \* the managed thread's call stack
  waiting,        \* Waiter::waiting() of each Waiter
  call,           \* the blocking call each client is in
  waitsFor,       \* the task a synchronous invoke() waits for
  removing,       \* the delete task a caller of removePollDescriptor() still has to invoke
  destroyed,      \* the destructor has run
  accepted,       \* history: the tasks invokeTask() took, in order
  refused,        \* history: the tasks invokeTask() returned false for
  ran,            \* history: the tasks run, in the order they were started
  done,           \* history: the tasks that have returned
  told            \* history: "quit" once quit() was called on the running thread by its
                  \* users, "waited" if a Waiter has waited then or since, or "no"

queueVars  == <<tasks, process_tasks>>
wakeVars   == <<wake, cv, eventfd>>
stackVars  == <<depth, frame>>
clientVars == <<call, waitsFor, removing>>
history    == <<accepted, refused, ran, done, told>>
vars == <<state, nested, queueVars, callbacks, polls, wakeVars, stackVars, waiting,
          clientVars, destroyed, history>>

Flag == {"WaitStarted", "Running", "WaitInterrupted", "Interrupted", "WaitFinished", "Finished"}

(***************************************************************************)
(* The comparisons the code makes on the integer state.                     *)
(***************************************************************************)
AtLeastRunning == state \ {"WaitStarted"} # {}                    \* state >= Running
AtLeastWaitFinished == state \cap {"WaitFinished", "Finished"} # {} \* state >= WaitFinished

(***************************************************************************)
(* The stack.  A frame is an execution of exec() (with the Waiter::wait()   *)
(* that called it, if any), of processTasks(), or of a callback.            *)
(***************************************************************************)
DrainPc == {"tasks", "drainTasks", "overload", "final", "sync1", "sync2"}
CallsPc == {"calls", "drainCalls"}
BodyPc  == {"body", "started", "finishing"}
Pc == DrainPc \cup CallsPc \cup BodyPc \cup
      {"none", "spawn", "entry", "sleepCv", "sleepPoll", "exit", "exited", "quits", "ended"}

Frame == [pc : Pc, nested : Nat, waiter : Waiter \cup {None}, q : Nat,
          task : Task \cup {None}, calls : Nat]

NewFrame(pc) == [pc |-> pc, nested |-> 0, waiter |-> None, q |-> 0, task |-> None, calls |-> 0]
NoFrame == NewFrame("none")

Top == frame[depth]
At(pc) == depth > 0 /\ Top.pc = pc
Goto(pc) == frame' = [frame EXCEPT ![depth].pc = pc] /\ UNCHANGED depth
Push(f) == /\ depth < MaxDepth
           /\ depth' = depth + 1
           /\ frame' = [frame EXCEPT ![depth + 1] = f]
Pop == depth' = depth - 1 /\ frame' = [frame EXCEPT ![depth] = NoFrame]

InCallback == depth > 0 /\ Top.pc \in BodyPc

Fresh == Task \ (ToSet(accepted) \cup refused \cup {removing[p] : p \in Client \cup {Loop}})
-----------------------------------------------------------------------------
(***************************************************************************)
(* The calling side.  A call is made by an idle client or by the callback   *)
(* on top of the managed thread's stack.                                    *)
(***************************************************************************)
Callers(name) ==
  {p \in Client \cup {Loop} :
     /\ name \in Calls /\ ~destroyed /\ removing[p] = None
     /\ IF p = Loop THEN InCallback /\ Top.calls < MaxCalls ELSE call[p] = "none"}

Starting == depth = 1 /\ Top.pc \in {"spawn", "entry"}
MayStop == Starting => "stopStarting" \in Calls
MayWait == (\E i \in 1..depth : frame[i].pc = "final") => "waitFinishing" \in Calls

\* The callback's budget of calls (bound MaxCalls).
Spend(p) == IF p = Loop
            THEN frame' = [frame EXCEPT ![depth].calls = @ + 1] /\ UNCHANGED depth
            ELSE UNCHANGED stackVars

(***************************************************************************)
(* private_.wake(): nothing while wake_ is set; otherwise it is set and the *)
(* sleeping loop is woken the way it sleeps.                                *)
(***************************************************************************)
Wake ==
  \/ wake /\ UNCHANGED wakeVars
  \/ ~wake /\ wake' = TRUE /\ polls = 0 /\ cv' = {} /\ UNCHANGED eventfd
  \/ ~wake /\ wake' = TRUE /\ polls > 0 /\ eventfd' = TRUE /\ UNCHANGED cv

\* Mutants of invokeTask(): no wake-up, no return from Interrupted, refused too late.
InvokeTaskSilently(t) ==
  /\ "Finished" \notin state
  /\ tasks' = Append(tasks, t) /\ accepted' = Append(accepted, t)
  /\ UNCHANGED <<state, refused, wakeVars>>

InvokeTaskStaysInterrupted(t) ==
  /\ "Finished" \notin state
  /\ tasks' = Append(tasks, t) /\ accepted' = Append(accepted, t)
  /\ Wake
  /\ UNCHANGED <<state, refused>>

InvokeTaskWhileClosing(t) ==
  /\ state # {"Finished"}
  /\ tasks' = Append(tasks, t) /\ accepted' = Append(accepted, t)
  /\ Wake
  /\ UNCHANGED <<state, refused>>

(***************************************************************************)
(* invokeTask(): refused once the thread has finished; an interrupted       *)
(* thread runs again.                                                       *)
(***************************************************************************)
InvokeTask(t) ==
  \/ /\ "Finished" \notin state
     /\ state' = IF state = {"Interrupted"} THEN {"Running"} ELSE state
     /\ tasks' = Append(tasks, t)
     /\ accepted' = Append(accepted, t)
     /\ Wake
     /\ UNCHANGED refused
  \/ /\ "Finished" \in state
     /\ refused' = refused \cup {t}
     /\ UNCHANGED <<state, tasks, accepted, wakeVars>>

\* Mutants of quit(): no wake-up, nested_ not tested against zero, nested_ left alone.
QuitThreadSilently ==
  /\ state # {} /\ "Finished" \notin state
  /\ nested' = IF nested > 0 THEN nested - 1 ELSE nested
  /\ state' = state \cup {"WaitFinished"}
  /\ UNCHANGED wakeVars

QuitThreadBelowZero ==
  /\ state # {} /\ "Finished" \notin state
  /\ nested' = nested - 1
  /\ state' = state \cup {"WaitFinished"}
  /\ Wake

QuitThreadOutermost ==
  /\ state # {} /\ "Finished" \notin state
  /\ state' = state \cup {"WaitFinished"}
  /\ Wake
  /\ UNCHANGED nested

\* quit(), which also takes one level off the count of nested executions.
QuitThread ==
  /\ state # {} /\ "Finished" \notin state
  /\ nested' = IF nested > 0 THEN nested - 1 ELSE nested
  /\ state' = state \cup {"WaitFinished"}
  /\ Wake

\* It does nothing to a thread that is finished or was never started.
QuitIfRunning == IF state # {} /\ "Finished" \notin state
                 THEN QuitThread
                 ELSE UNCHANGED <<state, nested, wakeVars>>

(***************************************************************************)
(* invoke(f): asynchronous, by anyone.                                      *)
(***************************************************************************)
Invoke(p, t) ==
  /\ p \in Callers("invoke") /\ t \in Fresh
  /\ InvokeTask(t)
  /\ Spend(p)
  /\ UNCHANGED <<nested, process_tasks, callbacks, polls, waiting, clientVars, destroyed,
                 ran, done, told>>

(***************************************************************************)
(* invoke(f, true) by another thread: it waits on an atomic flag that the   *)
(* task sets.                                                               *)
(***************************************************************************)
SyncInvoke(c, t) ==
  /\ c \in Callers("syncInvoke") \ {Loop} /\ t \in Fresh
  /\ state = {} => "syncUnstarted" \in Calls
  /\ InvokeTask(t)
  /\ IF "Finished" \in state
     THEN UNCHANGED <<call, waitsFor>>
     ELSE /\ call' = [call EXCEPT ![c] = "sync"]
          /\ waitsFor' = [waitsFor EXCEPT ![c] = t]
  /\ UNCHANGED <<nested, process_tasks, callbacks, polls, stackVars, waiting, removing,
                 destroyed, ran, done, told>>

SyncInvokeReturn(c) ==
  /\ call[c] = "sync" /\ waitsFor[c] \in done
  /\ call' = [call EXCEPT ![c] = "none"]
  /\ waitsFor' = [waitsFor EXCEPT ![c] = None]
  /\ UNCHANGED <<state, nested, queueVars, callbacks, polls, wakeVars, stackVars, waiting,
                 removing, destroyed, history>>

\* start(): spawns the thread, unless one has an id or a state that is not final, and
\* sleeps, once, on the condition variable.
Start(c) ==
  /\ call[c] = "none" /\ removing[c] = None /\ ~destroyed
  /\ state \in {{}, {"Finished"}} /\ depth = 0
  /\ state' = {"WaitStarted"}
  /\ Push(NewFrame("spawn"))
  /\ call' = [call EXCEPT ![c] = "start"]
  /\ cv' = cv \cup {c}
  /\ UNCHANGED <<nested, queueVars, callbacks, polls, wake, eventfd, waiting, waitsFor,
                 removing, destroyed, history>>

StartReturn(c) ==
  /\ call[c] = "start" /\ c \notin cv
  /\ call' = [call EXCEPT ![c] = "none"]
  /\ UNCHANGED <<state, nested, queueVars, callbacks, polls, wakeVars, stackVars, waiting,
                 waitsFor, removing, destroyed, history>>

\* Mutant: an interrupt request replaces a request to finish.
RequestInterruptAnyway(p) ==
  /\ p \in Callers("interrupt") /\ MayStop
  /\ state \notin {{}, {"Interrupted"}}
  /\ state' = {"WaitInterrupted"}
  /\ Wake
  /\ Spend(p)
  /\ UNCHANGED <<nested, queueVars, callbacks, polls, waiting, clientVars, destroyed, history>>

RequestInterrupt(p) ==
  /\ p \in Callers("interrupt") /\ MayStop
  /\ state \notin {{}, {"Interrupted"}} /\ ~AtLeastWaitFinished
  /\ state' = {"WaitInterrupted"}
  /\ Wake
  /\ Spend(p)
  /\ UNCHANGED <<nested, queueVars, callbacks, polls, waiting, clientVars, destroyed, history>>

(***************************************************************************)
(* waitInterrupted() and waitFinished() by another thread: the first sleep, *)
(* and what a wake-up of the condition variable leads to.                   *)
(***************************************************************************)
WaitInterrupted(c) ==
  /\ c \in Callers("interrupt") \ {Loop}
  /\ state = {"WaitInterrupted"}
  /\ call' = [call EXCEPT ![c] = "interrupted"]
  /\ cv' = cv \cup {c}
  /\ UNCHANGED <<state, nested, queueVars, callbacks, polls, wake, eventfd, stackVars,
                 waiting, waitsFor, removing, destroyed, history>>

WaitInterruptedWakes(c) ==
  /\ call[c] = "interrupted" /\ c \notin cv
  /\ IF state = {"WaitInterrupted"}
     THEN cv' = cv \cup {c} /\ UNCHANGED call
     ELSE call' = [call EXCEPT ![c] = "none"] /\ UNCHANGED cv
  /\ UNCHANGED <<state, nested, queueVars, callbacks, polls, wake, eventfd, stackVars,
                 waiting, waitsFor, removing, destroyed, history>>

WaitFinished(c) ==
  /\ c \in Callers("quit") \ {Loop}
  /\ state \notin {{}, {"Finished"}}
  /\ call' = [call EXCEPT ![c] = "finished"]
  /\ cv' = cv \cup {c}
  /\ UNCHANGED <<state, nested, queueVars, callbacks, polls, wake, eventfd, stackVars,
                 waiting, waitsFor, removing, destroyed, history>>

WaitFinishedWakes(c) ==
  /\ call[c] = "finished" /\ c \notin cv
  /\ IF state = {"Finished"}
     THEN call' = [call EXCEPT ![c] = "none"] /\ UNCHANGED cv
     ELSE cv' = cv \cup {c} /\ UNCHANGED call
  /\ UNCHANGED <<state, nested, queueVars, callbacks, polls, wake, eventfd, stackVars,
                 waiting, waitsFor, removing, destroyed, history>>

\* A Waiter::wait() is on the stack.
InWait == \E i \in 1..depth : frame[i].waiter # None

\* quit() by a user of the thread, from outside or from a callback.
Quit(p) ==
  /\ p \in Callers("quit") /\ MayStop
  /\ \A i \in 1..depth : frame[i].waiter # None => frame[i].q < MaxPremature
  /\ QuitThread
  /\ told' = IF depth = 0 THEN "no" ELSE IF InWait THEN "waited" ELSE "quit"
  /\ Spend(p)
  /\ UNCHANGED <<queueVars, callbacks, polls, waiting, clientVars, destroyed,
                 accepted, refused, ran, done>>

\* Mutant: the descriptor is inserted before the loop is woken.
AppendPollThenWake(p) ==
  /\ p \in Callers("poll")
  /\ polls < MaxPolls
  /\ polls' = polls + 1
  /\ wake' = TRUE
  /\ eventfd' = (eventfd \/ ~wake)
  /\ Spend(p)
  /\ UNCHANGED <<state, nested, queueVars, callbacks, cv, waiting, clientVars, destroyed, history>>

(***************************************************************************)
(* appendPollDescriptor(): the loop sleeps differently once there is a      *)
(* descriptor, so the first one wakes it, before it is inserted.            *)
(***************************************************************************)
AppendPoll(p) ==
  /\ p \in Callers("poll")
  /\ polls < MaxPolls
  /\ IF polls = 0 THEN Wake ELSE UNCHANGED wakeVars
  /\ polls' = polls + 1
  /\ Spend(p)
  /\ UNCHANGED <<state, nested, queueVars, callbacks, waiting, clientVars, destroyed, history>>

(***************************************************************************)
(* removePollDescriptor(): the last one wakes the loop before it is erased; *)
(* then, in a second critical section, the task that deletes the poll task  *)
(* is invoked.  t is that task.                                             *)
(***************************************************************************)
RemovePoll(p, t) ==
  /\ p \in Callers("poll") /\ t \in Fresh
  /\ polls > 0
  /\ IF polls = 1 THEN Wake ELSE UNCHANGED wakeVars
  /\ polls' = polls - 1
  /\ removing' = [removing EXCEPT ![p] = t]
  /\ Spend(p)
  /\ UNCHANGED <<state, nested, queueVars, callbacks, waiting, call, waitsFor, destroyed,
                 history>>

InvokeDelete(p) ==
  /\ removing[p] # None
  /\ InvokeTask(removing[p])
  /\ removing' = [removing EXCEPT ![p] = None]
  /\ UNCHANGED <<nested, process_tasks, callbacks, polls, stackVars, waiting, call, waitsFor,
                 destroyed, ran, done, told>>

(***************************************************************************)
(* The destructor of a thread that is not running: the tasks still queued   *)
(* run in the destroying thread.                                            *)
(***************************************************************************)
Destroy(c) ==
  /\ c \in Callers("destroy")
  /\ depth = 0 /\ \A d \in Client : call[d] = "none" /\ removing[d] = None
  /\ destroyed' = TRUE
  /\ tasks' = <<>>
  /\ ran' = ran \o tasks
  /\ done' = done \cup ToSet(tasks)
  /\ UNCHANGED <<state, nested, process_tasks, callbacks, polls, wakeVars, stackVars, waiting,
                 clientVars, accepted, refused, told>>

-----------------------------------------------------------------------------
(***************************************************************************)
(* Calls a callback makes on its own thread that open a frame.              *)
(***************************************************************************)

\* Waiter::wait(): the frame is the nested exec() it calls, about to begin.
Wait(w) ==
  /\ Loop \in Callers("wait") /\ MayWait
  /\ ~waiting[w] /\ \A i \in 1..depth : frame[i].waiter # w
  /\ depth + 2 <= MaxDepth
  /\ waiting' = [waiting EXCEPT ![w] = TRUE]
  /\ depth' = depth + 1
  /\ frame' = [frame EXCEPT ![depth].calls = @ + 1,
                            ![depth + 1] = [NewFrame("entry") EXCEPT !.waiter = w]]
  /\ told' = IF told = "quit" THEN "waited" ELSE told
  /\ UNCHANGED <<state, nested, queueVars, callbacks, polls, wakeVars, clientVars, destroyed,
                 accepted, refused, ran, done>>

\* Mutant: the wait is marked complete and the nested loop is not left.
CompleteWithoutQuit(w) ==
  /\ Loop \in Callers("wait")
  /\ waiting[w]
  /\ waiting' = [waiting EXCEPT ![w] = FALSE]
  /\ Spend(Loop)
  /\ UNCHANGED <<state, nested, queueVars, callbacks, polls, wakeVars, clientVars, destroyed,
                 history>>

\* Waiter::complete(), in a callback of the thread that waits.
Complete(w) ==
  /\ Loop \in Callers("wait")
  /\ waiting[w]
  /\ QuitIfRunning
  /\ waiting' = [waiting EXCEPT ![w] = FALSE]
  /\ Spend(Loop)
  /\ UNCHANGED <<queueVars, callbacks, polls, clientVars, destroyed, history>>

\* invoke(f, true) on the own thread: processTasks(), then the function.
SelfInvoke ==
  /\ Loop \in Callers("selfInvoke")
  /\ depth + 2 <= MaxDepth
  /\ depth' = depth + 1
  /\ frame' = [frame EXCEPT ![depth].calls = @ + 1, ![depth + 1] = NewFrame("sync1")]
  /\ UNCHANGED <<state, nested, queueVars, callbacks, polls, wakeVars, waiting, clientVars,
                 destroyed, history>>

\* Mutant: the queues are swapped before the batch being run is finished.
SelfInvokeSwapAtOnce ==
  /\ At("sync1")
  /\ process_tasks' = tasks /\ tasks' = process_tasks
  /\ Goto("sync2")
  /\ UNCHANGED <<state, nested, callbacks, polls, wakeVars, waiting, clientVars, destroyed,
                 history>>

SelfInvokeSwap ==
  /\ At("sync1") /\ process_tasks = <<>>
  /\ process_tasks' = tasks /\ tasks' = process_tasks
  /\ Goto("sync2")
  /\ UNCHANGED <<state, nested, callbacks, polls, wakeVars, waiting, clientVars, destroyed,
                 history>>

SelfInvokeFunction ==
  /\ At("sync2") /\ process_tasks = <<>>
  /\ Goto("body")
  /\ UNCHANGED <<state, nested, queueVars, callbacks, polls, wakeVars, waiting, clientVars,
                 destroyed, history>>

-----------------------------------------------------------------------------
(***************************************************************************)
(* The managed thread.                                                      *)
(***************************************************************************)

\* The first critical section of the spawned thread: setId() and the notification.
ThreadBegins ==
  /\ At("spawn")
  /\ cv' = {}
  /\ Goto("entry")
  /\ UNCHANGED <<state, nested, queueVars, callbacks, polls, wake, eventfd, waiting,
                 clientVars, destroyed, history>>

Swap == process_tasks' = tasks /\ tasks' = process_tasks

(***************************************************************************)
(* exec() begins.  It is nested when the thread already runs; a nested one  *)
(* first drains what the callback below it left, else it announces itself   *)
(* (startedEvent()).                                                        *)
(***************************************************************************)
ExecBegins ==
  /\ At("entry")
  /\ LET n == IF AtLeastRunning /\ "Finished" \notin state THEN nested + 1 ELSE nested
         enter(pc) == frame' = [frame EXCEPT ![depth].pc = pc, ![depth].nested = n]
     IN /\ nested' = n
        /\ \/ /\ n = 0
              /\ state' = {"Running"}
              /\ enter("started")
              /\ UNCHANGED queueVars
           \/ /\ n > 0 /\ process_tasks # <<>>
              /\ enter("drainTasks")
              /\ UNCHANGED <<state, queueVars>>
           \/ /\ n > 0 /\ process_tasks = <<>> /\ callbacks > 0
              /\ enter("drainCalls")
              /\ UNCHANGED <<state, queueVars>>
           \/ /\ n > 0 /\ process_tasks = <<>> /\ callbacks = 0
              /\ enter("tasks")
              /\ Swap
              /\ UNCHANGED state
  /\ UNCHANGED <<depth, callbacks, polls, wakeVars, waiting, clientVars, destroyed, history>>

\* The queues are swapped and the loop begins.
LoopBegins ==
  /\ \/ At("started") /\ removing[Loop] = None
     \/ At("drainTasks") /\ process_tasks = <<>>
     \/ At("drainCalls") /\ callbacks = 0
  /\ Swap
  /\ Goto("tasks")
  /\ UNCHANGED <<state, nested, callbacks, polls, wakeVars, waiting, clientVars, destroyed,
                 history>>

\* process_tasks(): the next task is taken and called.
RunTask ==
  /\ depth > 0 /\ Top.pc \in DrainPc
  /\ process_tasks # <<>>
  /\ process_tasks' = Tail(process_tasks)
  /\ ran' = Append(ran, Head(process_tasks))
  /\ Push([NewFrame("body") EXCEPT !.task = Head(process_tasks)])
  /\ UNCHANGED <<state, nested, tasks, callbacks, polls, wakeVars, waiting, clientVars,
                 destroyed, accepted, refused, done, told>>

\* process_polls() or process_timers(): the next callback is taken and called.
RunCallback ==
  /\ depth > 0 /\ Top.pc \in CallsPc
  /\ callbacks > 0
  /\ callbacks' = callbacks - 1
  /\ Push(NewFrame("body"))
  /\ UNCHANGED <<state, nested, queueVars, polls, wakeVars, waiting, clientVars, destroyed,
                 history>>

BodyReturns ==
  /\ At("body") /\ removing[Loop] = None
  /\ done' = IF Top.task = None THEN done ELSE done \cup {Top.task}
  /\ Pop
  /\ UNCHANGED <<state, nested, queueVars, callbacks, polls, wakeVars, waiting, clientVars,
                 destroyed, accepted, refused, ran, told>>

(***************************************************************************)
(* The rest of a pass of the loop once the queue has been looked at, in the *)
(* same critical section: leave, or acknowledge an interrupt request and    *)
(* then sleep, run the timers that are due, or start the next pass (the     *)
(* wake-up time of timers that are all gone).  w is the value of wake_.     *)
(***************************************************************************)
Idle(w) ==
  \/ /\ "WaitFinished" \in state
     /\ Goto("exit")
     /\ wake' = w /\ cv' = cv \ {Loop}
     /\ UNCHANGED <<state, callbacks>>
  \/ /\ "WaitFinished" \notin state
     /\ LET ack == state = {"WaitInterrupted"}
            awake == IF ack THEN {} ELSE cv \ {Loop}
        IN /\ state' = IF ack THEN {"Interrupted"} ELSE state
           /\ \/ /\ wake' = FALSE /\ UNCHANGED callbacks
                 /\ \/ polls = 0 /\ Goto("sleepCv") /\ cv' = awake \cup {Loop}
                    \/ polls > 0 /\ Goto("sleepPoll") /\ cv' = awake
              \/ /\ callbacks' \in 1..MaxBatch
                 /\ wake' = TRUE /\ Goto("calls") /\ cv' = awake
              \/ /\ MaxBatch > 0
                 /\ wake' = w /\ Goto("tasks") /\ cv' = awake
                 /\ UNCHANGED callbacks

(***************************************************************************)
(* The critical section of exec() at the label CONTINUE.  New tasks are     *)
(* taken; when they are more than the limit and wake_ is set, descriptors   *)
(* and timers get their turn after them instead of the tasks that follow.   *)
(***************************************************************************)
Continue(w) ==
  \/ /\ tasks # <<>>
     /\ Swap
     /\ Goto(IF w /\ Len(tasks) > OverloadSize THEN "overload" ELSE "tasks")
     /\ wake' = w /\ cv' = cv \ {Loop}
     /\ UNCHANGED <<state, callbacks>>
  \/ /\ tasks = <<>>
     /\ Idle(w)
     /\ UNCHANGED queueVars

LoopUnchanged == UNCHANGED <<nested, polls, waiting, clientVars, destroyed, history>>

\* process_tasks_ has been run: the next critical section.
LoopContinues ==
  /\ At("tasks") /\ process_tasks = <<>>
  /\ Continue(wake)
  /\ UNCHANGED eventfd
  /\ LoopUnchanged

\* The overlong batch has been run: the queue is not looked at again.
OverloadDone ==
  /\ At("overload") /\ process_tasks = <<>>
  /\ Idle(wake)
  /\ UNCHANGED <<queueVars, eventfd>>
  /\ LoopUnchanged

\* condition_variable.wait_until() returns no_timeout.
CvWakes ==
  /\ At("sleepCv") /\ Loop \notin cv
  /\ Continue(TRUE)
  /\ UNCHANGED eventfd
  /\ LoopUnchanged

(***************************************************************************)
(* condition_variable.wait_until() returns timeout: no timer is due at the  *)
(* time read before the sleep, so the loop continues, or begins its next    *)
(* pass when there is no timer any more.                                    *)
(***************************************************************************)
CvTimesOut ==
  /\ At("sleepCv") /\ MaxBatch > 0
  /\ \/ Continue(wake)
     \/ Goto("tasks") /\ cv' = cv \ {Loop} /\ UNCHANGED <<state, queueVars, callbacks, wake>>
  /\ UNCHANGED eventfd
  /\ LoopUnchanged

(***************************************************************************)
(* epoll_wait() returns and the mutex is taken again: the eventfd is read   *)
(* when it was reported; with ready descriptors their callbacks run, else   *)
(* (wake-up or timeout) the loop continues.                                 *)
(***************************************************************************)
EpollWakes ==
  /\ At("sleepPoll") /\ eventfd
  /\ eventfd' = FALSE
  /\ Continue(wake)
  /\ LoopUnchanged

EpollTimesOut ==
  /\ At("sleepPoll") /\ MaxBatch > 0
  /\ Continue(wake)
  /\ UNCHANGED eventfd
  /\ LoopUnchanged

EpollReports ==
  /\ At("sleepPoll")
  /\ eventfd' \in {eventfd, FALSE}
  /\ callbacks' \in 1..MaxBatch
  /\ wake' = TRUE /\ Goto("calls")
  /\ UNCHANGED <<state, queueVars, cv>>
  /\ LoopUnchanged

CallbacksDone ==
  /\ At("calls") /\ callbacks = 0
  /\ Continue(wake)
  /\ UNCHANGED eventfd
  /\ LoopUnchanged

(***************************************************************************)
(* exec() leaves its loop.  A nested one forgets the request to finish      *)
(* unless a quit() is still meant for the execution that called it.         *)
(***************************************************************************)
ExecEnds ==
  /\ At("exit")
  /\ \/ /\ Top.nested > 0
        /\ state' = IF Top.nested - 1 <= nested THEN state \ {"WaitFinished"} ELSE state
        /\ Goto(IF Top.waiter = None THEN "ended" ELSE "exited")
     \/ /\ Top.nested = 0
        /\ Goto("finishing")
        /\ UNCHANGED state
  /\ UNCHANGED <<nested, queueVars, callbacks, polls, wakeVars, waiting, clientVars, destroyed,
                 history>>

\* Mutant: the tasks queued by finishedEvent() are not taken.
LastTasksNotTaken ==
  /\ At("finishing") /\ removing[Loop] = None
  /\ state' = {"WaitFinished", "Finished"}
  /\ Goto("final")
  /\ UNCHANGED <<nested, queueVars, callbacks, polls, wakeVars, waiting, clientVars, destroyed,
                 history>>

\* After finishedEvent(): the thread is finished and the last tasks are taken.
LastTasks ==
  /\ At("finishing") /\ removing[Loop] = None
  /\ state' = {"WaitFinished", "Finished"}
  /\ Swap
  /\ Goto("final")
  /\ UNCHANGED <<nested, callbacks, polls, wakeVars, waiting, clientVars, destroyed, history>>

ExecReturns ==
  /\ At("final") /\ process_tasks = <<>>
  /\ Goto(IF Top.waiter = None THEN "ended" ELSE "exited")
  /\ UNCHANGED <<state, nested, queueVars, callbacks, polls, wakeVars, waiting, clientVars,
                 destroyed, history>>

\* Mutant: nobody is notified of the end.
ThreadEndsSilently ==
  /\ At("ended")
  /\ state' = {"Finished"}
  /\ Pop
  /\ told' = "no"
  /\ UNCHANGED <<nested, queueVars, callbacks, polls, wakeVars, waiting, clientVars,
                 destroyed, accepted, refused, ran, done>>

\* The last critical section of the spawned thread.
ThreadEnds ==
  /\ At("ended")
  /\ state' = {"Finished"}
  /\ cv' = {}
  /\ Pop
  /\ told' = "no"
  /\ UNCHANGED <<nested, queueVars, callbacks, polls, wake, eventfd, waiting, clientVars,
                 destroyed, accepted, refused, ran, done>>

(***************************************************************************)
(* Waiter::wait() after exec() returned: again while the wait is not        *)
(* complete, and one quit() for every time it had to, when it is.           *)
(***************************************************************************)
WaitChecks ==
  /\ At("exited")
  /\ \/ /\ waiting[Top.waiter]
        /\ frame' = [frame EXCEPT ![depth].pc = "entry", ![depth].q = @ + 1]
        /\ UNCHANGED depth
     \/ /\ ~waiting[Top.waiter] /\ Top.q > 0
        /\ Goto("quits")
     \/ /\ ~waiting[Top.waiter] /\ Top.q = 0
        /\ Pop
  /\ UNCHANGED <<state, nested, queueVars, callbacks, polls, wakeVars, waiting, clientVars,
                 destroyed, history>>

WaitQuits ==
  /\ At("quits")
  /\ QuitIfRunning
  /\ IF Top.q > 1
     THEN frame' = [frame EXCEPT ![depth].q = @ - 1] /\ UNCHANGED depth
     ELSE Pop
  /\ UNCHANGED <<queueVars, callbacks, polls, waiting, clientVars, destroyed, history>>

-----------------------------------------------------------------------------
\* A condition variable may wake any sleeper without a notification.
SpuriousWakeup(p) ==
  /\ p \in cv
  /\ cv' = cv \ {p}
  /\ UNCHANGED <<state, nested, queueVars, callbacks, polls, wake, eventfd, stackVars, waiting,
                 clientVars, destroyed, history>>

Init ==
  /\ state = {} /\ nested = 0
  /\ tasks = <<>> /\ process_tasks = <<>> /\ callbacks = 0 /\ polls = 0
  /\ wake = TRUE /\ cv = {} /\ eventfd = FALSE
  /\ depth = 0 /\ frame = [i \in 1..MaxDepth |-> NoFrame]
  /\ waiting = [w \in Waiter |-> FALSE]
  /\ call = [c \in Client |-> "none"]
  /\ waitsFor = [c \in Client |-> None]
  /\ removing = [p \in Client \cup {Loop} |-> None]
  /\ destroyed = FALSE
  /\ accepted = <<>> /\ refused = {} /\ ran = <<>> /\ done = {} /\ told = "no"

\* What the managed thread does by itself, its callbacks' returns included.
LoopStep ==
  \/ ThreadBegins \/ ExecBegins \/ LoopBegins \/ RunTask \/ RunCallback \/ BodyReturns
  \/ SelfInvokeSwap \/ SelfInvokeFunction
  \/ LoopContinues \/ OverloadDone \/ CvWakes \/ EpollWakes \/ CallbacksDone
  \/ ExecEnds \/ LastTasks \/ ExecReturns \/ ThreadEnds \/ WaitChecks \/ WaitQuits
  \/ InvokeDelete(Loop)

\* The events that end a sleep without a wake-up.
SleepEnds == CvTimesOut \/ EpollTimesOut \/ EpollReports

\* What a client does by itself once it has made a call.
ClientStep(c) ==
  \/ SyncInvokeReturn(c) \/ StartReturn(c) \/ InvokeDelete(c)
  \/ WaitInterruptedWakes(c) \/ WaitFinishedWakes(c)

\* The calls the users of the thread choose to make.
CallStep ==
  \/ \E p \in Client \cup {Loop} :
       \/ \E t \in Task : Invoke(p, t) \/ RemovePoll(p, t)
       \/ RequestInterrupt(p) \/ Quit(p) \/ AppendPoll(p)
  \/ \E c \in Client :
       \/ \E t \in Task : SyncInvoke(c, t)
       \/ Start(c) \/ WaitInterrupted(c) \/ WaitFinished(c) \/ Destroy(c)
  \/ \E w \in Waiter : Wait(w) \/ Complete(w)
  \/ SelfInvoke

\* The destroyed thread does nothing more.
Gone == destroyed /\ UNCHANGED vars

Next ==
  \/ LoopStep \/ SleepEnds \/ (\E c \in Client : ClientStep(c)) \/ CallStep
  \/ (\E p \in Client \cup {Loop} : SpuriousWakeup(p)) \/ Gone

Spec == Init /\ [][Next]_vars

FairSpec == Spec /\ WF_vars(LoopStep) /\ \A c \in Client : WF_vars(ClientStep(c))
-----------------------------------------------------------------------------
(***************************************************************************)
(* Properties.                                                              *)
(***************************************************************************)

\* The variables have the values their declarations in the code allow.
TypeOK ==
  /\ state \subseteq Flag /\ nested \in Nat
  /\ tasks \in Seq(Task) /\ process_tasks \in Seq(Task)
  /\ callbacks \in Nat /\ polls \in Nat
  /\ wake \in BOOLEAN /\ cv \subseteq Client \cup {Loop} /\ eventfd \in BOOLEAN
  /\ depth \in 0..MaxDepth /\ frame \in [1..MaxDepth -> Frame]
  /\ waiting \in [Waiter -> BOOLEAN]
  /\ call \in [Client -> {"none", "sync", "start", "interrupted", "finished"}]
  /\ waitsFor \in [Client -> Task \cup {None}]
  /\ removing \in [Client \cup {Loop} -> Task \cup {None}]
  /\ destroyed \in BOOLEAN
  /\ accepted \in Seq(Task) /\ ran \in Seq(Task)
  /\ refused \subseteq Task /\ done \subseteq Task /\ told \in {"no", "quit", "waited"}

\* The loop sleeps and nothing has been done to wake it.
Asleep == (At("sleepCv") /\ Loop \in cv) \/ (At("sleepPoll") /\ ~eventfd)

\* There is something for the loop to do.
Work == tasks # <<>> \/ "WaitFinished" \in state \/ state = {"WaitInterrupted"}

(***************************************************************************)
(* No wake-up is lost (exec(), wake()): the loop never sleeps while a task  *)
(* is queued, or while it has been told to finish or asked to interrupt,    *)
(* unless the wake-up is already on its way.                                *)
(***************************************************************************)
NoLostWakeup == ~(Asleep /\ Work)

(***************************************************************************)
(* Tasks run in the order invokeTask() accepted them, each exactly once,    *)
(* and none disappears between the two queues, whatever nested execution,   *)
(* processTasks() or final drain takes them (process_tasks(), the swaps).   *)
(***************************************************************************)
Fifo == ran \o process_tasks \o tasks = accepted

(***************************************************************************)
(* A thread that reports itself interrupted has no task queued              *)
(* (waitInterrupted(): "all queue tasks have completed").                   *)
(***************************************************************************)
InterruptedIsDrained == state = {"Interrupted"} => tasks = <<>> /\ process_tasks = <<>>

(***************************************************************************)
(* When waitFinished() may return every task the thread accepted has been   *)
(* run (the last drain of exec()).                                          *)
(***************************************************************************)
FinishedIsDrained == state = {"Finished"} => tasks = <<>> /\ process_tasks = <<>>

(***************************************************************************)
(* quit() is not forgotten: the outermost exec() does not go back to sleep  *)
(* once the users of the thread have told it to exit.                       *)
(***************************************************************************)
QuitNotForgotten == ~(told # "no" /\ Asleep /\ depth = 1)

(***************************************************************************)
(* A nested loop sleeps only while its wait is not complete (Waiter::wait() *)
(* runs the nested exec() "until completed").                               *)
(***************************************************************************)
SleepsOnlyWhileWaiting == Asleep /\ Top.waiter # None => waiting[Top.waiter]

(***************************************************************************)
(* The outermost exec() is never taken for a nested one: it announces       *)
(* startedEvent() and, at its end, finishedEvent() and the last drain.      *)
(***************************************************************************)
OutermostIsAnnounced ==
  depth > 0 /\ frame[1].pc \notin {"spawn", "entry"} => frame[1].nested = 0

(***************************************************************************)
(* A thread that has finished stays finished until it is started again.     *)
(***************************************************************************)
FinishedIsFinal == [][depth > 0 /\ "Finished" \in state => "Finished" \in state']_vars

(***************************************************************************)
(* A task accepted by a started thread runs (invokeTask(), exec()).         *)
(***************************************************************************)
TasksRun == \A t \in Task : depth > 0 /\ t \in ToSet(tasks) ~> t \in ToSet(ran)

(***************************************************************************)
(* quit() makes the thread finish, unless a Waiter waits meanwhile.         *)
(***************************************************************************)
QuitFinishes == told = "quit" ~> state = {"Finished"} \/ told = "waited"

(***************************************************************************)
(* start() and a synchronous invoke() return, and unless the thread is      *)
(* started again first, so does waitInterrupted(), and waitFinished() once  *)
(* the thread has been told to quit.  A wait that is not complete holds up  *)
(* the task that makes it.                                                  *)
(***************************************************************************)
Restarted == "WaitStarted" \in state
CallsReturn ==
  \A c \in Client :
    /\ call[c] = "start" ~> call[c] = "none"
    /\ call[c] = "sync" ~> call[c] = "none" \/ InWait
    /\ call[c] = "interrupted" ~> call[c] = "none" \/ Restarted
    /\ call[c] = "finished" /\ told = "quit" ~>
         call[c] = "none" \/ Restarted \/ told = "waited"

(***************************************************************************)
(* The thread implements the task queue it promises: whatever the loop,     *)
(* nested executions and the lifecycle do, tasks are accepted until the     *)
(* thread finishes, run in order, and have all run once it has finished.    *)
(***************************************************************************)
Phase == CASE destroyed -> "gone"
           [] ~destroyed /\ "Finished" \notin state -> "open"
           [] ~destroyed /\ state = {"Finished"} -> "closed"
           [] OTHER -> "closing"

Queue == INSTANCE TaskQueue WITH phase <- Phase
ImplementsTaskQueue == Queue!Spec

\* A wait that is complete returns to its caller.
CompletedWaitReturns ==
  \A w \in Waiter : ~waiting[w] ~> \A i \in 1..depth : frame[i].waiter # w \/ waiting[w]
=============================================================================

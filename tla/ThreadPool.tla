----------------------------- MODULE ThreadPool -----------------------------
(***************************************************************************)
(* AsyncFw::ThreadPool (src/main/ThreadPool.cpp, ThreadPool.h): workers     *)
(* created on demand, jobs routed to them with their results returned to    *)
(* the thread that asked, and workers destroyed by a task of the thread the *)
(* pool belongs to.                                                         *)
(*                                                                         *)
(* Every thread is an AbstractThread.  Here it is its two queues, the stack *)
(* of what it is doing, and the life that module TaskQueue promises: it     *)
(* accepts tasks until it finishes and has run them all by then.  Steps of  *)
(* different threads interleave at every queue, lock and blocking call.     *)
(***************************************************************************)
EXTENDS Integers, Sequences, FiniteSets, SequencesExt

CONSTANTS
  Worker,       \* the threads a pool may create in one run
  Other,        \* managed threads that are not the pool's
  Main,         \* thread_: the managed thread the pool was created in
  Job,          \* the functions given to async(), each at most once
  None,         \* no thread, no job
  Calls,        \* what callbacks call, a subset of AllCalls
  WorkThreads,  \* workThreadsSize_
  MaxDepth,     \* bound: frames on a stack, five of them above a callback that calls
  MaxCalls,     \* bound: calls made by callbacks
  MaxCallbacks  \* bound: callbacks of timers and descriptors

(***************************************************************************)
(* The calls an instance may exercise.  "uncoordinated" lifts the rules in  *)
(* MayAsk, MayCreate, MayDestroy, MayQuit and MayExit, which no code        *)
(* enforces.                                                                *)
(***************************************************************************)
AllCalls == {"async", "asyncOn", "create", "destroy", "quit", "exit", "uncoordinated"}

Thread == Worker \cup Other \cup {Main}

ASSUME PoolAssumption ==
  /\ Main \notin Worker \cup Other /\ Worker \cap Other = {}
  /\ None \notin Thread \cup Job
  /\ IsFiniteSet(Worker) /\ IsFiniteSet(Other) /\ IsFiniteSet(Job)
  /\ Calls \subseteq AllCalls
  /\ WorkThreads \in Nat \ {0}
  /\ MaxDepth \in Nat /\ MaxCalls \in Nat /\ MaxCallbacks \in Nat

VARIABLES
  phase,       \* the life of each thread
  told,        \* quit() has been called on the thread
  tasks,       \* the queue of each thread
  batch,       \* process_tasks_ of each thread
  stack,       \* what each thread is doing
  threads,     \* threads_
  workThreads, \* workThreads_
  gone,        \* the pool has been destroyed
  caller,      \* history: the thread that asked for the job
  ended,       \* history: jobs whose result was delivered
  dropped,     \* history: jobs, or their results, refused by a finished thread
  calls,       \* history: number of calls made by callbacks
  callbacks    \* history: number of callbacks of timers and descriptors

poolVars == <<threads, workThreads, gone>>
lifeVars == <<phase, told>>
jobVars  == <<caller, ended, dropped>>
bounds   == <<calls, callbacks>>
vars == <<lifeVars, tasks, batch, stack, poolVars, jobVars, bounds>>

-----------------------------------------------------------------------------
(***************************************************************************)
(* Stacks.  A frame is a callback ("body", or "job" for a function given to *)
(* async()), an operation of the pool it is in the middle of, or the        *)
(* processTasks() a synchronous invoke() of Main on itself runs first.      *)
(***************************************************************************)
Frame(pc, t, j) == [pc |-> pc, thread |-> t, job |-> j, for |-> None]
Message(kind, t, j) == [kind |-> kind, thread |-> t, job |-> j]

AskPc     == {"get", "post"}
DestroyPc == {"erase", "unlist", "tell", "hand"}
OpPc      == AskPc \cup DestroyPc \cup {"start", "flush", "quit"}

Top(p) == Last(stack[p])
At(p, pc) == stack[p] # <<>> /\ Top(p).pc = pc
Goto(p, pc) == [stack EXCEPT ![p][Len(stack[p])].pc = pc]
Push(p, f) == [stack EXCEPT ![p] = Append(@, f)]
Pop(p) == [stack EXCEPT ![p] = Front(@)]

Frames == UNION {{<<p, stack[p][i]>> : i \in 1..Len(stack[p])} : p \in Thread}
In(pcs) == {x \in Frames : x[2].pc \in pcs}
Queued == UNION {ToSet(tasks[t]) \cup ToSet(batch[t]) : t \in Thread}

Accepts(t) == phase[t] \in {"made", "open"}
Post(t, m) == tasks' = [tasks EXCEPT ![t] = Append(@, m)]

-----------------------------------------------------------------------------
(***************************************************************************)
(* What the users of a pool have to see to, since nothing else does: a      *)
(* worker is destroyed by one caller; a worker, or the pool, is not         *)
(* destroyed under another thread that is using it or still expects a       *)
(* result in it; and nobody but Main uses the pool once Main was told to    *)
(* quit.                                                                    *)
(***************************************************************************)
Uncoordinated == "uncoordinated" \in Calls
Foreign(pcs) == \E x \in In(pcs) : x[1] # Main
Leaving == {x[2].thread : x \in In(DestroyPc)}
Quitting == In({"quit"}) # {}
Owed(t) == \E j \in Job : caller[j] = t /\ j \notin ended \cup dropped
OwedToWorkers == \E w \in Worker : Owed(w)

MayAsk(p) == \/ p = Main \/ Uncoordinated
             \/ /\ ~told[Main] /\ ~told[p] /\ Leaving = {} /\ ~Quitting
MayCreate(p) == p = Main \/ Uncoordinated \/ (~told[Main] /\ ~Quitting)
MayDestroy(p, w) == \/ Uncoordinated
                    \/ /\ w \notin Leaving /\ ~Owed(w) /\ ~Quitting /\ ~Foreign(AskPc)
                       /\ p # Main => ~told[Main] /\ ~told[p]
MayQuit(p) == \/ Uncoordinated
              \/ /\ Leaving = {} /\ ~OwedToWorkers /\ ~Quitting /\ ~Foreign(AskPc \cup {"start"})
                 /\ p \notin Worker /\ (p # Main => ~told[Main])
MayExit == Uncoordinated \/ (~Foreign(OpPc) /\ ~OwedToWorkers)

\* The threads users have a pointer to: createThread() or getThread() has returned it.
Known == {w \in threads : phase[w] # "made"}

\* A call is made by the callback on top of a stack.
Call(p, name) ==
  /\ name \in Calls /\ ~gone
  /\ stack[p] # <<>> /\ Top(p).pc \in {"body", "job"} /\ Len(stack[p]) + 5 <= MaxDepth
  /\ calls < MaxCalls /\ calls' = calls + 1

Unborn == {w \in Worker : phase[w] = "none"}
\* Bound: there is a thread left for every getThread() that may need one.
Spare == Cardinality(Unborn) > Cardinality(In({"get"}))

(***************************************************************************)
(* thread_->invoke(f, true): on Main itself after the queue has been run;   *)
(* from another thread by a message, unless Main has finished, when it      *)
(* returns at once.                                                         *)
(***************************************************************************)
Invoke(p, s, f, refused) ==
  \/ /\ p = Main
     /\ stack' = [s EXCEPT ![p] = @ \o <<f, Frame("sync1", None, None)>>]
     /\ UNCHANGED tasks
  \/ /\ p # Main /\ Accepts(Main)
     /\ stack' = [s EXCEPT ![p] = Append(@, f)]
     /\ Post(Main, Message(f.pc, p, None))
  \/ /\ p # Main /\ ~Accepts(Main)
     /\ stack' = [s EXCEPT ![p] = Append(@, [f EXCEPT !.pc = refused])]
     /\ UNCHANGED tasks

-----------------------------------------------------------------------------
(***************************************************************************)
(* async(f, r): getThread(), then invoke() on the thread it returned.       *)
(***************************************************************************)
Async(p, j) ==
  /\ Call(p, "async") /\ MayAsk(p) /\ Spare /\ caller[j] = None
  /\ Invoke(p, stack, Frame("get", None, j), "post")
  /\ caller' = [caller EXCEPT ![j] = p]
  /\ UNCHANGED <<lifeVars, batch, poolVars, ended, dropped, callbacks>>

\* async(thread, f, r) with a thread of the pool.
AsyncOn(p, w, j) ==
  /\ Call(p, "asyncOn") /\ MayAsk(p) /\ caller[j] = None
  /\ w \in Known \ Leaving
  /\ stack' = Push(p, Frame("post", w, j))
  /\ caller' = [caller EXCEPT ![j] = p]
  /\ UNCHANGED <<lifeVars, tasks, batch, poolVars, ended, dropped, callbacks>>

\* The work threads that sleep with nothing queued may have wake_ cleared.
Resting == {w \in ToSet(workThreads) : tasks[w] = <<>> /\ batch[w] = <<>> /\ stack[w] = <<>>}

\* workLoad(): the queue, not the batch, and wake_.
WorkLoad(w, asleep) == IF w \in asleep THEN 0 ELSE Len(tasks[w]) + 1

(***************************************************************************)
(* The work threads getThread() chooses from: an idle one while there are   *)
(* less than workThreadsSize_, when it creates one if there is none, and    *)
(* any of the least loaded ones otherwise; it takes the first.              *)
(***************************************************************************)
Candidates(asleep) ==
  LET load(i) == WorkLoad(workThreads[i], asleep)
  IN {i \in DOMAIN workThreads : IF Len(workThreads) < WorkThreads THEN load(i) = 0
                                 ELSE \A k \in DOMAIN workThreads : load(i) <= load(k)}

\* The getThread() of q, which is all that q is doing, returns w.
Answered(s, q, w) == [s EXCEPT ![q][Len(s[q])] = [@ EXCEPT !.pc = "post", !.thread = w]]

\* A thread is constructed and appended to threads_ by p, which starts it next;
\* q is the thread whose getThread() it is for, or None.
NewThread(p, s, q) ==
  LET w == CHOOSE u \in Unborn : TRUE
  IN /\ Unborn # {}
     /\ phase' = [phase EXCEPT ![w] = "made"]
     /\ threads' = threads \cup {w}
     /\ stack' = [s EXCEPT ![p] = Append(@, [Frame("start", w, None) EXCEPT !.for = q])]

\* The function getThread() invokes on Main, for q.
SelectThread(q) ==
  \E asleep \in SUBSET Resting :
    \/ \E i \in Candidates(asleep) :
         /\ \A k \in Candidates(asleep) : i <= k
         /\ stack' = Answered(stack, q, workThreads[i])
         /\ UNCHANGED <<phase, threads>>
    \/ /\ Len(workThreads) < WorkThreads /\ Candidates(asleep) = {}
       /\ NewThread(Main, stack, q)

StartThread(p) ==
  /\ At(p, "start")
  /\ LET w == Top(p).thread
         q == Top(p).for
     IN /\ phase' = [phase EXCEPT ![w] = "open"]
        /\ \/ q = None /\ stack' = Pop(p) /\ UNCHANGED workThreads
           \/ /\ q # None
              /\ workThreads' = Append(workThreads, w)
              /\ stack' = Answered(Pop(p), q, w)
  /\ UNCHANGED <<told, tasks, batch, threads, gone, jobVars, bounds>>

\* createThread() called by a user.
Create(p) ==
  /\ Call(p, "create") /\ MayCreate(p) /\ Spare
  /\ NewThread(p, stack, None)
  /\ UNCHANGED <<told, tasks, batch, workThreads, gone, jobVars, callbacks>>

\* The synchronous invoke() of getThread() on Main itself.
GetOwn ==
  /\ At(Main, "get")
  /\ SelectThread(Main)
  /\ UNCHANGED <<told, tasks, batch, workThreads, gone, jobVars, bounds>>

\* invoke() on the thread that was chosen; a thread that has finished drops the job.
PostJob(p) ==
  /\ At(p, "post") /\ Top(p).thread # None
  /\ LET w == Top(p).thread
         j == Top(p).job
     IN \/ Accepts(w) /\ Post(w, Message("job", None, j)) /\ UNCHANGED dropped
        \/ ~Accepts(w) /\ dropped' = dropped \cup {j} /\ UNCHANGED tasks
  /\ stack' = Pop(p)
  /\ UNCHANGED <<lifeVars, batch, poolVars, caller, ended, bounds>>

-----------------------------------------------------------------------------
(***************************************************************************)
(* Thread::destroy(): out of workThreads_ on Main, out of threads_, told to *)
(* quit, and handed to Main, which waits for it and deletes it; by the      *)
(* caller if Main has finished.                                             *)
(***************************************************************************)
Destroy(p, w) ==
  /\ Call(p, "destroy") /\ w \in Known /\ MayDestroy(p, w)
  /\ Invoke(p, stack, Frame("erase", w, None), "unlist")
  /\ UNCHANGED <<lifeVars, batch, poolVars, jobVars, callbacks>>

\* Mutant of removeThread(): the thread stays a work thread.
WithoutNone(w) == workThreads

\* A thread is once in workThreads_ at most.
Without(w) ==
  IF w \in ToSet(workThreads)
  THEN RemoveAt(workThreads, CHOOSE i \in DOMAIN workThreads : workThreads[i] = w)
  ELSE workThreads

EraseOwn ==
  /\ At(Main, "erase")
  /\ workThreads' = Without(Top(Main).thread)
  /\ stack' = Goto(Main, "unlist")
  /\ UNCHANGED <<lifeVars, tasks, batch, threads, gone, jobVars, bounds>>

\* Mutant: the thread stays in threads_.
UnlistNothing(p) ==
  /\ At(p, "unlist")
  /\ stack' = Goto(p, "tell")
  /\ UNCHANGED <<lifeVars, tasks, batch, poolVars, jobVars, bounds>>

Unlist(p) ==
  /\ At(p, "unlist")
  /\ threads' = threads \ {Top(p).thread}
  /\ stack' = Goto(p, "tell")
  /\ UNCHANGED <<lifeVars, tasks, batch, workThreads, gone, jobVars, bounds>>

\* Mutant: the worker is not told to quit.
TellNothing(p) ==
  /\ At(p, "tell")
  /\ stack' = Goto(p, "hand")
  /\ UNCHANGED <<lifeVars, tasks, batch, poolVars, jobVars, bounds>>

Tell(p) ==
  /\ At(p, "tell")
  /\ told' = IF phase[Top(p).thread] = "open" THEN [told EXCEPT ![Top(p).thread] = TRUE] ELSE told
  /\ stack' = Goto(p, "hand")
  /\ UNCHANGED <<phase, tasks, batch, poolVars, jobVars, bounds>>

\* Mutant: nobody deletes the worker when Main has finished.
HandAway(p) ==
  /\ At(p, "hand")
  /\ IF Accepts(Main) THEN Post(Main, Message("delete", Top(p).thread, None)) ELSE UNCHANGED tasks
  /\ stack' = Pop(p)
  /\ UNCHANGED <<lifeVars, batch, poolVars, jobVars, bounds>>

Hand(p) ==
  /\ At(p, "hand")
  /\ \/ /\ Accepts(Main)
        /\ Post(Main, Message("delete", Top(p).thread, None))
        /\ stack' = Pop(p)
     \/ /\ ~Accepts(Main)
        /\ stack' = Goto(p, "flush")
        /\ UNCHANGED tasks
  /\ UNCHANGED <<lifeVars, batch, poolVars, jobVars, bounds>>

\* Mutant: the worker is deleted without waiting for it.
FlushAtOnce(p) ==
  /\ At(p, "flush")
  /\ phase' = [phase EXCEPT ![Top(p).thread] = "deleted"]
  /\ stack' = Pop(p)
  /\ UNCHANGED <<told, tasks, batch, poolVars, jobVars, bounds>>

\* waitFinished(), which returns at once if the worker was not started, and the deletion.
Flush(p) ==
  /\ At(p, "flush")
  /\ phase[Top(p).thread] \in {"made", "finished"}
  /\ phase' = [phase EXCEPT ![Top(p).thread] = "deleted"]
  /\ stack' = Pop(p)
  /\ UNCHANGED <<told, tasks, batch, poolVars, jobVars, bounds>>

\* quit(): one thread after the other is destroyed, until there is none.
Quit(p) ==
  /\ Call(p, "quit") /\ MayQuit(p)
  /\ stack' = Push(p, Frame("quit", None, None))
  /\ UNCHANGED <<lifeVars, tasks, batch, poolVars, jobVars, callbacks>>

QuitEnds(p) ==
  /\ At(p, "quit") /\ threads = {}
  /\ stack' = Pop(p)
  /\ UNCHANGED <<lifeVars, tasks, batch, poolVars, jobVars, bounds>>

QuitNext(p) ==
  /\ At(p, "quit")
  /\ \E w \in threads :
       \/ /\ gone
          /\ stack' = Push(p, Frame("unlist", w, None))
          /\ UNCHANGED tasks
       \/ ~gone /\ Invoke(p, stack, Frame("erase", w, None), "unlist")
  /\ UNCHANGED <<lifeVars, batch, poolVars, jobVars, bounds>>

(***************************************************************************)
(* The destructors, when the program ends: ~ThreadPool() first, so that     *)
(* removeThread() is that of the base class in the quit() that follows.     *)
(***************************************************************************)
Teardown ==
  /\ phase[Main] = "finished" /\ stack[Main] = <<>> /\ ~gone
  /\ gone' = TRUE
  /\ workThreads' = <<>>
  /\ stack' = Push(Main, Frame("quit", None, None))
  /\ UNCHANGED <<lifeVars, tasks, batch, threads, jobVars, bounds>>

\* MainThread::exit(): Main is told to quit.
Exit(p) ==
  /\ Call(p, "exit") /\ MayExit
  /\ told' = [told EXCEPT ![Main] = TRUE]
  /\ UNCHANGED <<phase, tasks, batch, stack, poolVars, jobVars, callbacks>>

-----------------------------------------------------------------------------
(***************************************************************************)
(* The threads: a loop that takes the queue when its batch is empty, a last *)
(* batch once it has been told to quit, and processTasks().                 *)
(***************************************************************************)
Free(t) == stack[t] = <<>> /\ batch[t] = <<>>

Take(t) ==
  /\ phase[t] = "open" /\ Free(t) /\ tasks[t] # <<>>
  /\ batch' = [batch EXCEPT ![t] = tasks[t]]
  /\ tasks' = [tasks EXCEPT ![t] = <<>>]
  /\ UNCHANGED <<lifeVars, stack, poolVars, jobVars, bounds>>

\* Mutant: what was queued last is not taken.
CloseAtOnce(t) ==
  /\ phase[t] = "open" /\ told[t] /\ Free(t)
  /\ phase' = [phase EXCEPT ![t] = "closing"]
  /\ UNCHANGED <<told, tasks, batch, stack, poolVars, jobVars, bounds>>

Close(t) ==
  /\ phase[t] = "open" /\ told[t] /\ Free(t)
  /\ phase' = [phase EXCEPT ![t] = "closing"]
  /\ batch' = [batch EXCEPT ![t] = tasks[t]]
  /\ tasks' = [tasks EXCEPT ![t] = <<>>]
  /\ UNCHANGED <<told, stack, poolVars, jobVars, bounds>>

End(t) ==
  /\ phase[t] = "closing" /\ Free(t)
  /\ phase' = [phase EXCEPT ![t] = "finished"]
  /\ UNCHANGED <<told, tasks, batch, stack, poolVars, jobVars, bounds>>

\* A timer or a descriptor of a thread has its callback called.
Callback(t) ==
  /\ phase[t] = "open" /\ Free(t) /\ callbacks < MaxCallbacks
  /\ stack' = Push(t, Frame("body", None, None))
  /\ callbacks' = callbacks + 1
  /\ UNCHANGED <<lifeVars, tasks, batch, poolVars, jobVars, calls>>

\* The next task of the batch is run, by the loop or by processTasks().
NextTask(t, kind) ==
  /\ stack[t] = <<>> \/ At(t, "sync1") \/ At(t, "sync2")
  /\ batch[t] # <<>> /\ Head(batch[t]).kind = kind
  /\ batch' = [batch EXCEPT ![t] = Tail(@)]

RunJob(t) ==
  /\ NextTask(t, "job")
  /\ stack' = Push(t, Frame("job", None, Head(batch[t]).job))
  /\ UNCHANGED <<lifeVars, tasks, poolVars, jobVars, bounds>>

RunResult(t) ==
  /\ NextTask(t, "result")
  /\ stack' = Push(t, Frame("body", None, None))
  /\ ended' = ended \cup {Head(batch[t]).job}
  /\ UNCHANGED <<lifeVars, tasks, poolVars, caller, dropped, bounds>>

RunGet ==
  /\ NextTask(Main, "get")
  /\ SelectThread(Head(batch[Main]).thread)
  /\ UNCHANGED <<told, tasks, workThreads, gone, jobVars, bounds>>

RunErase ==
  /\ NextTask(Main, "erase")
  /\ LET q == Head(batch[Main]).thread
     IN workThreads' = Without(Top(q).thread) /\ stack' = Goto(q, "unlist")
  /\ UNCHANGED <<lifeVars, tasks, threads, gone, jobVars, bounds>>

RunDelete ==
  /\ NextTask(Main, "delete")
  /\ stack' = Push(Main, Frame("flush", Head(batch[Main]).thread, None))
  /\ UNCHANGED <<lifeVars, tasks, poolVars, jobVars, bounds>>

Swap ==
  /\ At(Main, "sync1") /\ batch[Main] = <<>>
  /\ batch' = [batch EXCEPT ![Main] = tasks[Main]]
  /\ tasks' = [tasks EXCEPT ![Main] = <<>>]
  /\ stack' = Goto(Main, "sync2")
  /\ UNCHANGED <<lifeVars, poolVars, jobVars, bounds>>

Processed ==
  /\ At(Main, "sync2") /\ batch[Main] = <<>>
  /\ stack' = Pop(Main)
  /\ UNCHANGED <<lifeVars, tasks, batch, poolVars, jobVars, bounds>>

Return(p) ==
  /\ At(p, "body")
  /\ stack' = Pop(p)
  /\ UNCHANGED <<lifeVars, tasks, batch, poolVars, jobVars, bounds>>

\* The function has returned: its result is posted to the thread that asked.
JobReturns(p) ==
  /\ At(p, "job")
  /\ LET j == Top(p).job
     IN \/ Accepts(caller[j]) /\ Post(caller[j], Message("result", None, j)) /\ UNCHANGED dropped
        \/ ~Accepts(caller[j]) /\ dropped' = dropped \cup {j} /\ UNCHANGED tasks
  /\ stack' = Pop(p)
  /\ UNCHANGED <<lifeVars, batch, poolVars, caller, ended, bounds>>

-----------------------------------------------------------------------------
Init ==
  /\ phase = [t \in Thread |-> IF t \in Worker THEN "none" ELSE "open"]
  /\ told = [t \in Thread |-> FALSE]
  /\ tasks = [t \in Thread |-> <<>>] /\ batch = [t \in Thread |-> <<>>]
  /\ stack = [t \in Thread |-> <<>>]
  /\ threads = {} /\ workThreads = <<>> /\ gone = FALSE
  /\ caller = [j \in Job |-> None] /\ ended = {} /\ dropped = {}
  /\ calls = 0 /\ callbacks = 0

\* What a thread does by itself.
Step(t) ==
  \/ Take(t) \/ Close(t) \/ End(t) \/ RunJob(t) \/ RunResult(t) \/ Return(t) \/ JobReturns(t)
  \/ StartThread(t) \/ PostJob(t) \/ Unlist(t) \/ Tell(t) \/ Hand(t) \/ Flush(t)
  \/ QuitNext(t) \/ QuitEnds(t)

MainStep == \/ Step(Main) \/ GetOwn \/ EraseOwn \/ RunGet \/ RunErase \/ RunDelete
            \/ Swap \/ Processed \/ Teardown

CallStep ==
  \E p \in Thread :
    \/ \E j \in Job : Async(p, j) \/ \E w \in Worker : AsyncOn(p, w, j)
    \/ \E w \in Worker : Destroy(p, w)
    \/ Create(p) \/ Quit(p) \/ Exit(p)

\* Nobody calls anything any more, and nothing is left to do.
AtRest == (\A t \in Thread : Free(t) /\ tasks[t] = <<>>) /\ UNCHANGED vars

Next ==
  \/ MainStep \/ (\E t \in Worker \cup Other : Step(t)) \/ CallStep
  \/ (\E t \in Other \cup {Main} : Callback(t)) \/ AtRest

Spec == Init /\ [][Next]_vars

FairSpec == Spec /\ WF_vars(MainStep) /\ \A t \in Worker \cup Other : WF_vars(Step(t))
-----------------------------------------------------------------------------
(***************************************************************************)
(* Properties.                                                              *)
(***************************************************************************)

(***************************************************************************)
(* Nothing that will still be used has been deleted: neither the threads in *)
(* the two lists, nor those a call or a queued deletion refers to, nor the  *)
(* thread a job returns its result to (getThread(), destroy(), async()).    *)
(* A call that is about to use a thread has one.                            *)
(***************************************************************************)
Used == threads \cup ToSet(workThreads)
        \cup {x[2].thread : x \in In(OpPc \ {"get", "quit"})}
        \cup {m.thread : m \in {n \in Queued : n.kind = "delete"}}
        \cup {t \in Worker : Owed(t)}
UsedIsAlive == \A t \in Used : t # None /\ phase[t] \notin {"none", "deleted"}

(***************************************************************************)
(* A worker is destroyed once and never leaks: it is in threads_, or in the *)
(* hands of the one who destroys it, or deleted; a work thread is one of    *)
(* the threads (~ThreadPool(), quit(), destroy()).                          *)
(***************************************************************************)
Hands(w) ==
  {<<"list", w>> : v \in threads \cap {w}} \cup
  {<<"frame", x[1]>> : x \in {y \in In({"tell", "hand", "flush"}) : y[2].thread = w}} \cup
  UNION {{<<"tasks", t, i>> : i \in {k \in 1..Len(tasks[t]) : tasks[t][k].kind = "delete" /\ tasks[t][k].thread = w}}
         \cup {<<"batch", t, i>> : i \in {k \in 1..Len(batch[t]) : batch[t][k].kind = "delete" /\ batch[t][k].thread = w}}
         : t \in Thread}
OwnedOnce ==
  /\ \A w \in Worker : Cardinality(Hands(w)) = IF phase[w] \in {"none", "deleted"} THEN 0 ELSE 1
  /\ ToSet(workThreads) \subseteq threads /\ Len(workThreads) <= WorkThreads

(***************************************************************************)
(* A job is in one place: being routed, queued, running, its result queued, *)
(* delivered, or refused by a thread that has finished; none is lost with a *)
(* worker that is deleted ("ensuring all tasks are flushed") and no result  *)
(* comes twice.                                                             *)
(***************************************************************************)
Sites(name, s, j) == {name} \X UNION {{t} \X {i \in DOMAIN s[t] : s[t][i].job = j} : t \in DOMAIN s}
Alive == {t \in Thread : phase[t] # "deleted"}
Places(j) ==
  Sites("stack", stack, j)
  \cup Sites("tasks", [t \in Alive |-> tasks[t]], j) \cup Sites("batch", [t \in Alive |-> batch[t]], j)
  \cup ({"ended"} \X (ended \cap {j})) \cup ({"dropped"} \X (dropped \cap {j}))
JobInOnePlace == \A j \in Job : caller[j] # None => Cardinality(Places(j)) = 1

\* A job's result is delivered, unless a thread that has finished refuses it.
ResultsDelivered == \A j \in Job : caller[j] # None ~> j \in ended \cup dropped

\* A worker that has been told to quit is deleted, and the call that destroys it returns.
WorkersDeleted == \A w \in Worker : told[w] ~> phase[w] = "deleted"

\* The operations of the pool return, whatever they wait for.
InCall(t) == \E i \in 1..Len(stack[t]) : stack[t][i].pc \in OpPc
CallsReturn == \A t \in Thread : InCall(t) ~> ~InCall(t)
=============================================================================

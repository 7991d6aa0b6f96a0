---------------------- MODULE AbstractThreadInvariants ----------------------
(***************************************************************************)
(* The inductive invariants behind the theorems about AbstractThread: what  *)
(* the stack of the managed thread, the state bits, the two queues and      *)
(* nested_ have to do with each other.                                      *)
(***************************************************************************)
EXTENDS AbstractThread

(***************************************************************************)
(* How the thread is used: nobody asks it to stop before exec() has begun,  *)
(* and no task of the final drain waits.                                    *)
(***************************************************************************)
RegularUse == Calls \cap {"stopStarting", "waitFinishing"} = {}

-----------------------------------------------------------------------------
(***************************************************************************)
(* The stack: the exec() of the spawned thread at the bottom, above it the  *)
(* nested ones of the waiters and the callbacks and processTasks() between  *)
(* them; only what runs a callback, or is one, has a frame above it.        *)
(***************************************************************************)
OuterPc  == {"spawn", "entry", "started", "tasks", "overload", "sleepCv", "sleepPoll",
             "calls", "exit", "finishing", "final", "ended"}
NestedPc == {"entry", "drainTasks", "drainCalls", "tasks", "overload", "sleepCv", "sleepPoll",
             "calls", "exit", "exited", "quits"}
CalleePc == {"body", "sync1", "sync2"}
BusyPc   == DrainPc \cup CallsPc \cup BodyPc

OuterFrame(f)  == f.pc \in OuterPc /\ f.waiter = None /\ f.nested = 0
NestedFrame(f) == f.pc \in NestedPc /\ f.waiter \in Waiter /\ (f.pc # "entry" => f.nested > 0)
CalleeFrame(f) == f.pc \in CalleePc /\ f.waiter = None

BelowTop == \A i \in 1..depth - 1 : frame[i].pc \in BusyPc

Shape ==
  /\ depth > 0 => OuterFrame(frame[1])
  /\ \A i \in 2..depth : NestedFrame(frame[i]) \/ CalleeFrame(frame[i])
  /\ BelowTop

(***************************************************************************)
(* The state bits: the thread is marked finished exactly in the final       *)
(* drain, when nothing but tasks runs above the outermost exec().           *)
(***************************************************************************)
ActiveFlag == {"Running", "WaitInterrupted", "Interrupted", "Finished"}

Lifecycle ==
  /\ depth = 0 => state \in {{}, {"Finished"}}
  /\ depth > 0 /\ frame[1].pc \in {"spawn", "entry"} => state = {"WaitStarted"}
  /\ depth > 0 /\ frame[1].pc \notin {"spawn", "entry"} => state \cap ActiveFlag # {}
  /\ depth > 0 /\ frame[1].pc \in {"final", "ended"} => "Finished" \in state
  /\ depth > 0 /\ "Finished" \in state =>
       /\ state = {"WaitFinished", "Finished"}
       /\ frame[1].pc \in {"final", "ended"}
       /\ \A i \in 2..depth : frame[i].pc \in CalleePc

(***************************************************************************)
(* A batch that is not finished belongs to a frame that runs it, with       *)
(* nothing but its tasks, or a nested exec() about to take over, above.     *)
(***************************************************************************)
Batch ==
  process_tasks # <<>> =>
    \E j \in 1..depth :
      /\ frame[j].pc \in DrainPc
      /\ \A i \in j + 1..depth : frame[i].pc \in {"body", "entry"}

(***************************************************************************)
(* nested_ counts no more than the nested executions that wait and the      *)
(* quit() calls that Waiter::wait() still owes.                             *)
(***************************************************************************)
Credit(i) ==
  IF frame[i].waiter = None THEN 0
  ELSE IF frame[i].pc # "entry" /\ waiting[frame[i].waiter] THEN frame[i].q + 1
  ELSE frame[i].q
Credits == UNION {{i} \X (0..Credit(i) - 1) : i \in 1..depth}

WaiterFrames ==
  /\ \A i, j \in 1..depth :
       frame[i].waiter # None /\ frame[i].waiter = frame[j].waiter => i = j
  /\ \A w \in Waiter : waiting[w] => \E i \in 1..depth : frame[i].waiter = w
  /\ \A i \in 1..depth :
       /\ frame[i].pc = "entry" /\ frame[i].waiter # None => waiting[frame[i].waiter]
       /\ frame[i].pc = "quits" => ~waiting[frame[i].waiter] /\ frame[i].q > 0

NestedBound == IsFiniteSet(Credits) /\ nested <= Cardinality(Credits)

\* No task is taken once the thread is marked finished.
NothingTakenAtEnd == "Finished" \in state => tasks = <<>>

QueueInv ==
  /\ Shape /\ Lifecycle /\ Batch /\ WaiterFrames /\ NestedBound
  /\ NothingTakenAtEnd /\ Fifo

-----------------------------------------------------------------------------
(***************************************************************************)
(* The sleep: wake_ is clear, and the loop sleeps the way wake() wakes it.  *)
(***************************************************************************)
SleepInv ==
  Asleep => ~wake /\ (At("sleepCv") => polls = 0) /\ (At("sleepPoll") => polls > 0)

NoOverload == \A i \in 1..depth : frame[i].pc # "overload"

WakeInv == BelowTop /\ SleepInv /\ NoLostWakeup /\ NoOverload

-----------------------------------------------------------------------------
(***************************************************************************)
(* A single waiter: a nested exec() whose wait is complete has been told to *)
(* leave, and nobody takes that back before it does.                        *)
(***************************************************************************)
OneWaiter == \A v, w \in Waiter : v = w

NestedLoopPc == {"drainTasks", "drainCalls", "tasks", "overload", "sleepCv", "sleepPoll",
                 "calls", "exit"}

CompleteAt(i) == frame[i].waiter # None /\ frame[i].pc \in NestedLoopPc /\ ~waiting[frame[i].waiter]

ToldInv == \A i \in 1..depth : CompleteAt(i) => "WaitFinished" \in state
=============================================================================

--------------------- MODULE AbstractThreadQueue_proofs ---------------------
(***************************************************************************)
(* Every task is run once and in order, and all of them before the thread   *)
(* is reported as finished, for a thread in regular use; and such a thread  *)
(* implements the task queue of module TaskQueue: every step of the loop,   *)
(* of its users and of the lifecycle is a step of the queue or leaves it    *)
(* alone.                                                                   *)
(***************************************************************************)
EXTENDS AbstractThread_proofs, SequenceTheorems, FiniteSetTheorems

USE ConstantsAssumption DEF ConstantsAssumption

(***************************************************************************)
(* Consequences of the invariant in a given state.                          *)
(***************************************************************************)
LEMMA BelowTopPcs ==
  BusyPc \cap {"none", "spawn", "entry", "sleepCv", "sleepPoll", "exit", "exited", "quits", "ended"} = {}
BY DEF BusyPc, DrainPc, CallsPc, BodyPc

\* While the loop is at work the thread is neither being started nor finished.
LoopPc == {"started", "tasks", "drainTasks", "overload", "calls", "drainCalls", "sleepCv",
           "sleepPoll", "exit", "finishing", "exited", "quits"}

LEMMA LoopActive ==
  ASSUME StackType, Shape, Lifecycle, depth > 0, Top.pc \in LoopPc
  PROVE  /\ "Finished" \notin state /\ state \cap ActiveFlag # {}
         /\ frame[1].pc \notin {"spawn", "entry", "final", "ended"}
<1>1. depth \in 1..MaxDepth /\ 1 \in 1..depth
  BY DEF StackType
<1>2. frame[1].pc \notin {"spawn", "entry", "ended"}
  <2>1. CASE depth = 1
    BY <2>1 DEF Top, LoopPc
  <2>2. CASE depth > 1
    BY <1>1, <2>2, BelowTopPcs DEF Shape, BelowTop
  <2> QED
    BY <1>1, <2>1, <2>2
<1>3. "Finished" \notin state
  <2>1. CASE depth = 1
    BY <2>1 DEF Top, LoopPc, Lifecycle
  <2>2. CASE depth > 1
    BY <1>1, <2>2 DEF Top, LoopPc, Lifecycle, CalleePc
  <2> QED
    BY <1>1, <2>1, <2>2
<1> QED
  BY <1>1, <1>2, <1>3 DEF Lifecycle

\* A batch is unfinished only under the frame that runs it.
LEMMA NoBatch ==
  ASSUME StackType, Batch, depth > 0 => Top.pc \notin DrainPc \cup {"body", "entry"}
  PROVE  process_tasks = <<>>
<1> SUFFICES ASSUME process_tasks # <<>> PROVE FALSE
  OBVIOUS
<1>1. PICK j \in 1..depth : /\ frame[j].pc \in DrainPc
                            /\ \A i \in j + 1..depth : frame[i].pc \in {"body", "entry"}
  BY DEF Batch
<1>2. depth \in 1..MaxDepth
  BY <1>1 DEF StackType
<1>3. CASE j = depth
  BY <1>1, <1>2, <1>3 DEF Top
<1>4. CASE j < depth
  BY <1>1, <1>2, <1>4 DEF Top
<1> QED
  BY <1>1, <1>2, <1>3, <1>4

(***************************************************************************)
(* The stack: steps that replace, push or pop its top.                      *)
(***************************************************************************)
GoodFrame(f, i) == IF i = 1 THEN OuterFrame(f) ELSE NestedFrame(f) \/ CalleeFrame(f)

LEMMA SameFramesShape ==
  ASSUME StackType, Shape, SameFrames
  PROVE  Shape'
BY DEF StackType, Shape, SameFrames, SameFrame, OuterFrame, NestedFrame, CalleeFrame, BelowTop

LEMMA TopShape ==
  ASSUME StackType, Shape, depth > 0, depth' = depth, \A i \in 1..depth - 1 : SameFrame(i),
         GoodFrame(frame'[depth], depth)
  PROVE  Shape'
BY DEF StackType, Shape, SameFrame, GoodFrame, OuterFrame, NestedFrame, CalleeFrame, BelowTop

LEMMA PushShape ==
  ASSUME StackType, Shape, depth > 0 => Top.pc \in BusyPc, depth' = depth + 1,
         \A i \in 1..depth : SameFrame(i), GoodFrame(frame'[depth + 1], depth + 1)
  PROVE  Shape'
<1>1. BelowTop'
  BY DEF StackType, Shape, SameFrame, BelowTop, Top
<1>2. depth' > 0 => OuterFrame(frame'[1])
  BY DEF StackType, Shape, SameFrame, GoodFrame, OuterFrame
<1>3. \A i \in 2..depth' : NestedFrame(frame'[i]) \/ CalleeFrame(frame'[i])
  BY DEF StackType, Shape, SameFrame, GoodFrame, NestedFrame, CalleeFrame
<1> QED
  BY <1>1, <1>2, <1>3 DEF Shape

LEMMA PopShape ==
  ASSUME StackType, Shape, depth > 0, depth' = depth - 1,
         \A i \in 1..depth - 1 : frame'[i] = frame[i]
  PROVE  Shape'
BY DEF StackType, Shape, BelowTop

(***************************************************************************)
(* The state bits.                                                          *)
(***************************************************************************)
LEMMA SameLifecycle ==
  ASSUME StackType, Lifecycle, SameFrames, state' = state
  PROVE  Lifecycle'
BY DEF StackType, Lifecycle, SameFrames, SameFrame

LEMMA ActiveLifecycle ==
  ASSUME depth' > 0, frame'[1].pc \notin {"spawn", "entry", "final", "ended"},
         "Finished" \notin state', state' \cap ActiveFlag # {}
  PROVE  Lifecycle'
BY DEF Lifecycle

LEMMA FinalLifecycle ==
  ASSUME depth' > 0, frame'[1].pc \in {"final", "ended"}, state' = {"WaitFinished", "Finished"},
         \A i \in 2..depth' : frame'[i].pc \in CalleePc
  PROVE  Lifecycle'
BY DEF Lifecycle, ActiveFlag

\* A callback, or a processTasks() it calls, begins, goes on or returns.
LEMMA CalleeLifecycle ==
  ASSUME StackType, Lifecycle, state' = state, NEW n \in 1..depth, depth' \in {n, n + 1},
         \A i \in 1..n : frame'[i].pc = frame[i].pc,
         depth' = n + 1 => frame'[n + 1].pc \in CalleePc
  PROVE  Lifecycle'
<1>1. frame'[1].pc = frame[1].pc /\ depth > 0 /\ depth' > 0 /\ n \in Nat \ {0}
  BY DEF StackType
<1>2. "Finished" \in state => \A i \in 2..depth' : frame'[i].pc \in CalleePc
  BY <1>1 DEF StackType, Lifecycle
<1> QED
  BY <1>1, <1>2 DEF Lifecycle

(***************************************************************************)
(* Sequences: the three ways the code moves tasks between the queues.       *)
(***************************************************************************)
LEMMA AppendLast ==
  ASSUME NEW s \in Seq(Task), NEW p \in Seq(Task), NEW q \in Seq(Task), NEW t \in Task
  PROVE  s \o p \o Append(q, t) = Append(s \o p \o q, t)
<1>1. /\ Append(q, t) = q \o <<t>> /\ <<t>> \in Seq(Task)
      /\ s \o p \in Seq(Task) /\ s \o p \o q \in Seq(Task)
  BY AppendIsConcat
<1>2. Append(s \o p \o q, t) = (s \o p \o q) \o <<t>>
  BY <1>1, AppendIsConcat
<1> QED
  BY <1>1, <1>2, ConcatAssociative

LEMMA RunFirst ==
  ASSUME NEW s \in Seq(Task), NEW p \in Seq(Task), NEW q \in Seq(Task), p # <<>>
  PROVE  Append(s, Head(p)) \o Tail(p) \o q = s \o p \o q
<1>1. /\ Head(p) \in Task /\ Tail(p) \in Seq(Task) /\ <<Head(p)>> \in Seq(Task)
      /\ p = <<Head(p)>> \o Tail(p)
  OBVIOUS
<1>2. Append(s, Head(p)) = s \o <<Head(p)>>
  BY <1>1, AppendIsConcat
<1>3. Append(s, Head(p)) \o Tail(p) = s \o p
  BY <1>1, <1>2, ConcatAssociative
<1> QED
  BY <1>3

LEMMA SwapEmpty ==
  ASSUME NEW s \in Seq(Task), NEW q \in Seq(Task)
  PROVE  s \o q \o <<>> = s \o <<>> \o q
<1>1. s \o <<>> = s /\ s \o q \in Seq(Task)
  BY ConcatEmptySeq
<1>2. s \o q \o <<>> = s \o q
  BY <1>1, ConcatEmptySeq
<1> QED
  BY <1>1, <1>2

(***************************************************************************)
(* The batch being run.                                                     *)
(***************************************************************************)
LEMMA EmptyBatch == ASSUME process_tasks' = <<>> PROVE Batch'
BY DEF Batch

LEMMA TopBatch ==
  ASSUME NEW n \in Nat \ {0}, depth' = n, frame'[n].pc \in DrainPc
  PROVE  Batch'
<1>1. n \in 1..n /\ \A i \in n + 1..n : FALSE
  OBVIOUS
<1> QED
  BY <1>1 DEF Batch

LEMMA SameBatch ==
  ASSUME StackType, Batch, SameFrames, process_tasks' = process_tasks
  PROVE  Batch'
BY DEF StackType, Batch, SameFrames, SameFrame

\* A callback or a nested exec() begins.
LEMMA PushBatch ==
  ASSUME StackType, Batch, depth' = depth + 1, \A i \in 1..depth : frame'[i].pc = frame[i].pc,
         frame'[depth + 1].pc \in {"body", "entry"}, process_tasks' = process_tasks
  PROVE  Batch'
<1> SUFFICES ASSUME process_tasks # <<>> 
             PROVE  Batch'
  BY EmptyBatch
<1>1. PICK j \in 1..depth : /\ frame[j].pc \in DrainPc
                            /\ \A i \in j + 1..depth : frame[i].pc \in {"body", "entry"}
  BY DEF Batch
<1>2. j \in 1..depth' /\ frame'[j].pc \in DrainPc
  BY <1>1 DEF StackType
<1>3. \A i \in j + 1..depth' : frame'[i].pc \in {"body", "entry"}
  BY <1>1 DEF StackType
<1> QED
  BY <1>2, <1>3 DEF Batch

\* A callback returns.
LEMMA PopBatch ==
  ASSUME StackType, Batch, depth > 0, Top.pc \notin DrainPc, depth' = depth - 1,
         \A i \in 1..depth - 1 : frame'[i] = frame[i], process_tasks' = process_tasks
  PROVE  Batch'
<1> SUFFICES ASSUME process_tasks # <<>> 
             PROVE  Batch'
  BY EmptyBatch
<1>1. PICK j \in 1..depth : /\ frame[j].pc \in DrainPc
                            /\ \A i \in j + 1..depth : frame[i].pc \in {"body", "entry"}
  BY DEF Batch
<1>2. j \in 1..depth' /\ frame'[j].pc \in DrainPc
  BY <1>1 DEF StackType, Top
<1>3. \A i \in j + 1..depth' : frame'[i].pc \in {"body", "entry"}
  BY <1>1 DEF StackType
<1> QED
  BY <1>2, <1>3 DEF Batch

(***************************************************************************)
(* The waiters and what they are counted for.                               *)
(***************************************************************************)
\* Frames and waits that count the same.
LEMMA SameCredits ==
  ASSUME StackType, depth' = depth, \A i \in 1..depth : Credit(i)' = Credit(i)
  PROVE  Credits' = Credits
BY DEF Credits

LEMMA SameWaiters ==
  ASSUME StackType, WaiterFrames, NestedBound, SameFrames, waiting' = waiting,
         nested' \in Nat, nested' <= nested, nested \in Nat
  PROVE  WaiterFrames' /\ NestedBound'
<1>1. WaiterFrames'
  BY DEF StackType, WaiterFrames, SameFrames, SameFrame
<1>2. \A i \in 1..depth : Credit(i)' = Credit(i)
  BY DEF Credit, SameFrames, SameFrame
<1>3. Credits' = Credits
  BY <1>2, SameCredits DEF SameFrames
<1>4. Cardinality(Credits) \in Nat
  BY FS_CardinalityType DEF NestedBound
<1> QED
  BY <1>1, <1>3, <1>4 DEF NestedBound

\* The top frame changes and counts the same.
LEMMA TopWaiters ==
  ASSUME StackType, WaiterFrames, NestedBound, depth > 0, depth' = depth,
         \A i \in 1..depth - 1 : SameFrame(i), waiting' = waiting, nested' = nested,
         frame'[depth].waiter = frame[depth].waiter, frame'[depth].q = frame[depth].q,
         frame'[depth].pc \notin {"entry", "quits"}, frame[depth].pc # "entry"
  PROVE  WaiterFrames' /\ NestedBound'
<1>0. depth \in 1..depth /\ \A i \in 1..depth : i = depth \/ i \in 1..depth - 1
  BY DEF StackType
<1>1. WaiterFrames'
  BY <1>0 DEF StackType, WaiterFrames, SameFrame
<1>2. \A i \in 1..depth : Credit(i)' = Credit(i)
  BY <1>0 DEF Credit, SameFrame
<1>3. Credits' = Credits
  BY <1>2, SameCredits
<1> QED
  BY <1>1, <1>3 DEF NestedBound

\* A frame that counts nothing is pushed or popped.
LEMMA PushWaiters ==
  ASSUME StackType, WaiterFrames, NestedBound, depth' = depth + 1,
         \A i \in 1..depth : SameFrame(i), waiting' = waiting, nested' = nested,
         frame'[depth + 1].waiter = None, frame'[depth + 1].pc # "quits"
  PROVE  WaiterFrames' /\ NestedBound'
<1>0. depth + 1 \in 1..depth' /\ \A i \in 1..depth' : i = depth + 1 \/ i \in 1..depth
  BY DEF StackType
<1>1. WaiterFrames'
  BY <1>0 DEF StackType, WaiterFrames, SameFrame
<1>2. \A i \in 1..depth : Credit(i)' = Credit(i)
  BY <1>0 DEF Credit, SameFrame
<1>3. \A i \in 1..depth' : i = depth + 1 => Credit(i)' = 0
  BY DEF Credit
<1>4. Credits' = Credits
  <2>1. Credits' = UNION {{i} \X (0..Credit(i)' - 1) : i \in 1..depth'}
    BY DEF Credits
  <2>2. ASSUME NEW x \in Credits' PROVE x \in Credits
    BY <1>0, <1>2, <1>3, <2>1 DEF Credits
  <2>3. ASSUME NEW x \in Credits PROVE x \in Credits'
    BY <1>0, <1>2, <2>1 DEF Credits, StackType
  <2> QED
    BY <2>2, <2>3
<1> QED
  BY <1>1, <1>4 DEF NestedBound

LEMMA PopWaiters ==
  ASSUME StackType, WaiterFrames, NestedBound, depth > 0, depth' = depth - 1,
         \A i \in 1..depth - 1 : frame'[i] = frame[i], waiting' = waiting, nested' = nested,
         Credit(depth) = 0, frame[depth].waiter = None \/ ~waiting[frame[depth].waiter]
  PROVE  WaiterFrames' /\ NestedBound'
<1>0. depth \in 1..depth /\ \A i \in 1..depth : i = depth \/ i \in 1..depth'
  BY DEF StackType
<1>1. WaiterFrames'
  BY <1>0 DEF StackType, WaiterFrames
<1>2. \A i \in 1..depth' : Credit(i)' = Credit(i)
  BY <1>0 DEF Credit, StackType
<1>4. Credits' = Credits
  BY <1>0, <1>2 DEF Credits, StackType
<1> QED
  BY <1>1, <1>4 DEF NestedBound

(***************************************************************************)
(* The calls that leave the frames alone.                                   *)
(***************************************************************************)
LEMMA Parts ==
  ASSUME TypeOK, QueueInv
  PROVE  /\ StackType /\ QueueType /\ UserType /\ HistoryType
         /\ Shape /\ Lifecycle /\ Batch /\ WaiterFrames /\ NestedBound
         /\ NothingTakenAtEnd /\ Fifo
BY TypeParts DEF QueueInv

LEMMA QuietQueue ==
  ASSUME TypeOK, QueueInv, SameFrames, state' = state, nested' = nested, waiting' = waiting,
         tasks' = tasks, process_tasks' = process_tasks, ran' = ran, accepted' = accepted
  PROVE  QueueInv'
<1>0. /\ StackType /\ QueueType /\ Shape /\ Lifecycle /\ Batch /\ WaiterFrames /\ NestedBound
      /\ NothingTakenAtEnd /\ Fifo
  BY Parts
<1>1. Shape' /\ Lifecycle' /\ Batch'
  BY <1>0, SameFramesShape, SameLifecycle, SameBatch
<1>2. WaiterFrames' /\ NestedBound'
  BY <1>0, SameWaiters DEF QueueType
<1>3. NothingTakenAtEnd' /\ Fifo'
  BY <1>0 DEF NothingTakenAtEnd, Fifo
<1> QED
  BY <1>1, <1>2, <1>3 DEF QueueInv

\* A request to stop: the thread has begun and has not finished.
LEMMA StopQueue ==
  ASSUME TypeOK, QueueInv, SameFrames, depth > 0, frame[1].pc \notin {"spawn", "entry"},
         "Finished" \notin state, "Finished" \notin state', state' \cap ActiveFlag # {},
         nested' \in Nat, nested' <= nested, waiting' = waiting,
         tasks' = tasks, process_tasks' = process_tasks, ran' = ran, accepted' = accepted
  PROVE  QueueInv'
<1>0. /\ StackType /\ QueueType /\ Shape /\ Lifecycle /\ Batch /\ WaiterFrames /\ NestedBound
      /\ NothingTakenAtEnd /\ Fifo
  BY Parts
<1>1. depth' > 0 /\ frame'[1].pc = frame[1].pc /\ frame[1].pc \notin {"final", "ended"}
  BY <1>0 DEF SameFrames, SameFrame, StackType, Lifecycle
<1>2. Shape' /\ Lifecycle' /\ Batch'
  BY <1>0, <1>1, SameFramesShape, ActiveLifecycle, SameBatch
<1>3. WaiterFrames' /\ NestedBound'
  BY <1>0, SameWaiters DEF QueueType
<1>4. NothingTakenAtEnd' /\ Fifo'
  BY <1>0 DEF NothingTakenAtEnd, Fifo
<1> QED
  BY <1>2, <1>3, <1>4 DEF QueueInv

LEMMA InvokeTaskQueue ==
  ASSUME TypeOK, QueueInv, SameFrames, NEW t \in Task, InvokeTask(t), nested' = nested,
         waiting' = waiting, process_tasks' = process_tasks, ran' = ran
  PROVE  QueueInv'
<1>0. /\ StackType /\ QueueType /\ HistoryType
      /\ Shape /\ Lifecycle /\ Batch /\ WaiterFrames /\ NestedBound
      /\ NothingTakenAtEnd /\ Fifo
  BY Parts
<1>1. CASE "Finished" \in state
  BY <1>1, QuietQueue DEF InvokeTask
<1>2. CASE "Finished" \notin state
  <2>1. /\ state' = IF state = {"Interrupted"} THEN {"Running"} ELSE state
        /\ tasks' = Append(tasks, t) /\ accepted' = Append(accepted, t)
    BY <1>2 DEF InvokeTask
  <2>2. Shape' /\ Batch'
    BY <1>0, SameFramesShape, SameBatch
  <2>3. WaiterFrames' /\ NestedBound'
    BY <1>0, SameWaiters DEF QueueType
  <2>4. "Finished" \notin state'
    BY <1>2, <2>1
  <2>5. Lifecycle'
    <3>1. CASE state = {"Interrupted"}
      <4>0. /\ state' = {"Running"} /\ "Interrupted" \in state
            /\ "WaitStarted" \notin state /\ "Finished" \notin state
        BY <2>1, <3>1
      <4>1. depth > 0 /\ frame[1].pc \notin {"spawn", "entry", "final", "ended"}
        BY <1>0, <4>0 DEF Lifecycle, StackType
      <4>2. depth' > 0 /\ frame'[1].pc = frame[1].pc /\ state' \cap ActiveFlag # {}
        BY <1>0, <4>0, <4>1 DEF SameFrames, SameFrame, StackType, ActiveFlag
      <4> QED
        BY <2>4, <4>1, <4>2, ActiveLifecycle
    <3>2. CASE state # {"Interrupted"}
      BY <1>0, <2>1, <3>2, SameLifecycle
    <3> QED
      BY <3>1, <3>2
  <2>6. NothingTakenAtEnd'
    BY <2>4 DEF NothingTakenAtEnd
  <2>7. Fifo'
    <3>1. ran \in Seq(Task) /\ process_tasks \in Seq(Task) /\ tasks \in Seq(Task)
      BY <1>0 DEF QueueType, HistoryType
    <3>2. ran \o process_tasks \o Append(tasks, t) = Append(ran \o process_tasks \o tasks, t)
      BY <3>1, AppendLast
    <3> QED
      BY <1>0, <2>1, <3>2 DEF Fifo
  <2> QED
    BY <2>2, <2>3, <2>5, <2>6, <2>7 DEF QueueInv
<1> QED
  BY <1>1, <1>2

LEMMA InvokeQueue ==
  ASSUME TypeOK, QueueInv, NEW p \in Client \cup {Loop}, NEW t \in Task, Invoke(p, t)
  PROVE  QueueInv'
<1>1. SameFrames
  BY Parts, CallerTypes, SpendEffect DEF Invoke
<1> QED
  BY <1>1, InvokeTaskQueue DEF Invoke

LEMMA SyncInvokeQueue ==
  ASSUME TypeOK, QueueInv, NEW c \in Client, NEW t \in Task, SyncInvoke(c, t)
  PROVE  QueueInv'
<1>1. SameFrames
  BY DEF SyncInvoke, SameFrames, SameFrame, stackVars
<1> QED
  BY <1>1, InvokeTaskQueue DEF SyncInvoke

LEMMA InvokeDeleteQueue ==
  ASSUME TypeOK, QueueInv, NEW p \in Client \cup {Loop}, InvokeDelete(p)
  PROVE  QueueInv'
<1>1. SameFrames
  BY DEF InvokeDelete, SameFrames, SameFrame, stackVars
<1>2. removing[p] \in Task
  BY DEF InvokeDelete, TypeOK
<1> QED
  BY <1>1, <1>2, InvokeTaskQueue DEF InvokeDelete

LEMMA AppendPollQueue ==
  ASSUME TypeOK, QueueInv, NEW p \in Client \cup {Loop}, AppendPoll(p)
  PROVE  QueueInv'
<1>1. SameFrames
  BY Parts, CallerTypes, SpendEffect DEF AppendPoll
<1> QED
  BY <1>1, QuietQueue DEF AppendPoll, queueVars, history

LEMMA RemovePollQueue ==
  ASSUME TypeOK, QueueInv, NEW p \in Client \cup {Loop}, NEW t \in Task, RemovePoll(p, t)
  PROVE  QueueInv'
<1>1. SameFrames
  BY Parts, CallerTypes, SpendEffect DEF RemovePoll
<1> QED
  BY <1>1, QuietQueue DEF RemovePoll, queueVars, history

LEMMA SyncInvokeReturnQueue ==
  ASSUME TypeOK, QueueInv, NEW c \in Client, SyncInvokeReturn(c)
  PROVE  QueueInv'
<1>1. SameFrames
  BY DEF SyncInvokeReturn, SameFrames, SameFrame, stackVars
<1> QED
  BY <1>1, QuietQueue DEF SyncInvokeReturn, queueVars, history

LEMMA StartReturnQueue ==
  ASSUME TypeOK, QueueInv, NEW c \in Client, StartReturn(c)
  PROVE  QueueInv'
<1>1. SameFrames
  BY DEF StartReturn, SameFrames, SameFrame, stackVars
<1> QED
  BY <1>1, QuietQueue DEF StartReturn, queueVars, history

LEMMA WaitInterruptedQueue ==
  ASSUME TypeOK, QueueInv, NEW c \in Client, WaitInterrupted(c)
  PROVE  QueueInv'
<1>1. SameFrames
  BY DEF WaitInterrupted, SameFrames, SameFrame, stackVars
<1> QED
  BY <1>1, QuietQueue DEF WaitInterrupted, queueVars, history

LEMMA WaitInterruptedWakesQueue ==
  ASSUME TypeOK, QueueInv, NEW c \in Client, WaitInterruptedWakes(c)
  PROVE  QueueInv'
<1>1. SameFrames
  BY DEF WaitInterruptedWakes, SameFrames, SameFrame, stackVars
<1> QED
  BY <1>1, QuietQueue DEF WaitInterruptedWakes, queueVars, history

LEMMA WaitFinishedQueue ==
  ASSUME TypeOK, QueueInv, NEW c \in Client, WaitFinished(c)
  PROVE  QueueInv'
<1>1. SameFrames
  BY DEF WaitFinished, SameFrames, SameFrame, stackVars
<1> QED
  BY <1>1, QuietQueue DEF WaitFinished, queueVars, history

LEMMA WaitFinishedWakesQueue ==
  ASSUME TypeOK, QueueInv, NEW c \in Client, WaitFinishedWakes(c)
  PROVE  QueueInv'
<1>1. SameFrames
  BY DEF WaitFinishedWakes, SameFrames, SameFrame, stackVars
<1> QED
  BY <1>1, QuietQueue DEF WaitFinishedWakes, queueVars, history

LEMMA SpuriousWakeupQueue ==
  ASSUME TypeOK, QueueInv, NEW p \in Client \cup {Loop}, SpuriousWakeup(p)
  PROVE  QueueInv'
<1>1. SameFrames
  BY DEF SpuriousWakeup, SameFrames, SameFrame, stackVars
<1> QED
  BY <1>1, QuietQueue DEF SpuriousWakeup, queueVars, history

LEMMA RequestInterruptQueue ==
  ASSUME RegularUse, TypeOK, QueueInv, NEW p \in Client \cup {Loop}, RequestInterrupt(p)
  PROVE  QueueInv'
<1>1. SameFrames
  BY Parts, CallerTypes, SpendEffect DEF RequestInterrupt
<1>2. depth > 0 /\ frame[1].pc \notin {"spawn", "entry"} /\ "Finished" \notin state
  <2>1. depth > 0 /\ "Finished" \notin state
    BY Parts DEF RequestInterrupt, QuitThread, Lifecycle, StackType, AtLeastWaitFinished
  <2>2. depth > 1 => frame[1].pc \notin {"spawn", "entry"}
    BY Parts, <2>1, BelowTopPcs DEF Shape, BelowTop, StackType
  <2>3. ~Starting
    BY DEF RegularUse, RequestInterrupt, MayStop
  <2>4. depth = 1 => frame[1].pc \notin {"spawn", "entry"}
    BY <2>3 DEF Starting, Top
  <2> QED
    BY Parts, <2>1, <2>2, <2>4 DEF StackType
<1>3. "Finished" \notin state' /\ state' \cap ActiveFlag # {}
  BY Parts, <1>2 DEF RequestInterrupt, QuitThread, Lifecycle, ActiveFlag
<1>4. nested' \in Nat /\ nested' <= nested
  BY Parts DEF RequestInterrupt, QuitThread, QueueType
<1> QED
  BY <1>1, <1>2, <1>3, <1>4, StopQueue DEF RequestInterrupt, queueVars, history

LEMMA QuitQueue ==
  ASSUME RegularUse, TypeOK, QueueInv, NEW p \in Client \cup {Loop}, Quit(p)
  PROVE  QueueInv'
<1>1. SameFrames
  BY Parts, CallerTypes, SpendEffect DEF Quit
<1>2. depth > 0 /\ frame[1].pc \notin {"spawn", "entry"} /\ "Finished" \notin state
  <2>1. depth > 0 /\ "Finished" \notin state
    BY Parts DEF Quit, QuitThread, Lifecycle, StackType, AtLeastWaitFinished
  <2>2. depth > 1 => frame[1].pc \notin {"spawn", "entry"}
    BY Parts, <2>1, BelowTopPcs DEF Shape, BelowTop, StackType
  <2>3. ~Starting
    BY DEF RegularUse, Quit, MayStop
  <2>4. depth = 1 => frame[1].pc \notin {"spawn", "entry"}
    BY <2>3 DEF Starting, Top
  <2> QED
    BY Parts, <2>1, <2>2, <2>4 DEF StackType
<1>3. "Finished" \notin state' /\ state' \cap ActiveFlag # {}
  BY Parts, <1>2 DEF Quit, QuitThread, Lifecycle, ActiveFlag
<1>4. nested' \in Nat /\ nested' <= nested
  BY Parts DEF Quit, QuitThread, QueueType
<1> QED
  BY <1>1, <1>2, <1>3, <1>4, StopQueue DEF Quit, queueVars, history

(***************************************************************************)
(* Counting nested executions: complete() and the quit() calls wait() owes  *)
(* take one away, exec() adds one.                                          *)
(***************************************************************************)
LEMMA OneLess ==
  ASSUME NestedBound, nested \in Nat, NEW x \in Credits, Credits' = Credits \ {x},
         nested' = IF nested > 0 THEN nested - 1 ELSE nested
  PROVE  NestedBound'
<1>1. IsFiniteSet(Credits') /\ Cardinality(Credits') = Cardinality(Credits) - 1
  BY FS_RemoveElement DEF NestedBound
<1>2. Cardinality(Credits) \in Nat /\ Cardinality(Credits') \in Nat
  BY <1>1, FS_CardinalityType DEF NestedBound
<1> QED
  BY <1>1, <1>2 DEF NestedBound

LEMMA OneMore ==
  ASSUME NestedBound, nested \in Nat, NEW i \in Nat, NEW k \in Nat,
         <<i, k>> \notin Credits, Credits' = Credits \cup {<<i, k>>},
         nested' = nested + 1
  PROVE  NestedBound'
<1>1. IsFiniteSet(Credits') /\ Cardinality(Credits') = Cardinality(Credits) + 1
  BY FS_AddElement DEF NestedBound
<1>2. Cardinality(Credits) \in Nat
  BY FS_CardinalityType DEF NestedBound
<1> QED
  BY <1>1, <1>2 DEF NestedBound

LEMMA CreditLess ==
  ASSUME StackType, NEW i \in 1..depth, NEW k \in Nat, Credit(i) = k + 1, Credit(i)' = k,
         depth' = depth, \A j \in 1..depth : j # i => Credit(j)' = Credit(j)
  PROVE  <<i, k>> \in Credits /\ Credits' = Credits \ {<<i, k>>}
<1>1. k \in 0..(k + 1) - 1 /\ \A m : m \in 0..k - 1 <=> m \in 0..(k + 1) - 1 /\ m # k
  OBVIOUS
<1>2. <<i, k>> \in Credits
  BY <1>1 DEF Credits
<1>3. ASSUME NEW x \in Credits' PROVE x \in Credits \ {<<i, k>>}
  <2>1. PICK j \in 1..depth : x \in {j} \X (0..Credit(j)' - 1)
    BY <1>3 DEF Credits
  <2>2. CASE j = i
    BY <1>1, <2>1, <2>2 DEF Credits
  <2>3. CASE j # i
    BY <2>1, <2>3 DEF Credits
  <2> QED
    BY <2>2, <2>3
<1>4. ASSUME NEW x \in Credits \ {<<i, k>>} PROVE x \in Credits'
  <2>1. PICK j \in 1..depth : x \in {j} \X (0..Credit(j) - 1)
    BY <1>4 DEF Credits
  <2>2. CASE j = i
    BY <1>1, <1>4, <2>1, <2>2 DEF Credits
  <2>3. CASE j # i
    BY <2>1, <2>3 DEF Credits
  <2> QED
    BY <2>2, <2>3
<1> QED
  BY <1>2, <1>3, <1>4

LEMMA CreditMore ==
  ASSUME StackType, NEW i \in 1..depth, NEW k \in Nat, Credit(i) = k, Credit(i)' = k + 1,
         depth' = depth, \A j \in 1..depth : j # i => Credit(j)' = Credit(j)
  PROVE  <<i, k>> \notin Credits /\ Credits' = Credits \cup {<<i, k>>}
<1>1. k \in 0..(k + 1) - 1 /\ \A m : m \in 0..(k + 1) - 1 <=> m \in 0..k - 1 \/ m = k
  OBVIOUS
<1>2. k \notin 0..k - 1
  OBVIOUS
<1>3. <<i, k>> \notin Credits
  BY <1>2 DEF Credits
<1>4. ASSUME NEW x \in Credits' PROVE x \in Credits \cup {<<i, k>>}
  <2>1. PICK j \in 1..depth : x \in {j} \X (0..Credit(j)' - 1)
    BY <1>4 DEF Credits
  <2>2. CASE j = i
    BY <1>1, <2>1, <2>2 DEF Credits
  <2>3. CASE j # i
    BY <2>1, <2>3 DEF Credits
  <2> QED
    BY <2>2, <2>3
<1>5. ASSUME NEW x \in Credits \cup {<<i, k>>} PROVE x \in Credits'
  <2>1. CASE x = <<i, k>>
    BY <1>1, <2>1 DEF Credits
  <2>2. CASE x \in Credits
    <3>1. PICK j \in 1..depth : x \in {j} \X (0..Credit(j) - 1)
      BY <2>2 DEF Credits
    <3>2. CASE j = i
      BY <1>1, <3>1, <3>2 DEF Credits
    <3>3. CASE j # i
      BY <3>1, <3>3 DEF Credits
    <3> QED
      BY <3>2, <3>3
  <2> QED
    BY <1>5, <2>1, <2>2
<1> QED
  BY <1>3, <1>4, <1>5

(***************************************************************************)
(* The loop of exec().                                                      *)
(***************************************************************************)
PassPc == {"tasks", "overload", "sleepCv", "sleepPoll", "calls", "exit"}
PassFrom == LoopPc \ {"exited", "quits"}

LEMMA PassOrLeaveQueue ==
  ASSUME TypeOK, QueueInv, depth > 0, Top.pc \in PassFrom, Fifo',
         NEW pc \in PassPc \cup {"exited"}, Goto(pc), pc = "exited" => depth > 1,
         "Finished" \notin state', state' \cap ActiveFlag # {},
         nested' = nested, waiting' = waiting, process_tasks' = <<>> \/ pc \in DrainPc
  PROVE  QueueInv'
<1>0. /\ StackType /\ QueueType /\ Shape /\ Lifecycle /\ Batch /\ WaiterFrames /\ NestedBound
      /\ depth \in 1..MaxDepth /\ 1 \in 1..depth
  BY Parts DEF StackType
<1>1. /\ depth' = depth /\ frame'[depth].pc = pc
      /\ frame'[depth].nested = frame[depth].nested
      /\ frame'[depth].waiter = frame[depth].waiter
      /\ frame'[depth].q = frame[depth].q
      /\ \A i \in 1..MaxDepth \ {depth} : frame'[i] = frame[i]
  BY <1>0, GotoEffect
<1>2. \A i \in 1..depth - 1 : frame'[i] = frame[i] /\ SameFrame(i)
  BY <1>0, <1>1 DEF SameFrame
<1>3. /\ depth = 1 => pc \in OuterPc
      /\ pc \in NestedPc /\ pc \notin {"spawn", "entry", "final", "ended", "quits"}
  BY DEF PassPc, OuterPc, NestedPc
<1>4. Top.pc \notin CalleePc /\ Top.pc # "entry"
  BY DEF PassFrom, LoopPc, CalleePc
<1>5. GoodFrame(frame'[depth], depth)
  <2>1. CASE depth = 1
    BY <1>0, <1>1, <1>3, <2>1 DEF Shape, GoodFrame, OuterFrame
  <2>2. CASE depth > 1
    BY <1>0, <1>1, <1>3, <1>4, <2>2 DEF Shape, GoodFrame, NestedFrame, CalleeFrame, Top
  <2> QED
    BY <1>0, <2>1, <2>2
<1>6. Shape'
  BY <1>0, <1>1, <1>2, <1>5, TopShape
<1>7. frame[1].pc \notin {"spawn", "entry", "final", "ended"}
  BY <1>0, LoopActive DEF PassFrom
<1>8. Lifecycle'
  <2>1. frame'[1].pc \notin {"spawn", "entry", "final", "ended"}
    BY <1>0, <1>1, <1>3, <1>7
  <2> QED
    BY <1>0, <1>1, <2>1, ActiveLifecycle
<1>9. Batch'
  BY <1>0, <1>1, EmptyBatch, TopBatch
<1>10. WaiterFrames' /\ NestedBound'
  BY <1>0, <1>1, <1>2, <1>3, <1>4, TopWaiters DEF Top
<1>11. NothingTakenAtEnd'
  BY DEF NothingTakenAtEnd
<1> QED
  BY <1>6, <1>8, <1>9, <1>10, <1>11 DEF QueueInv

LEMMA PassQueue ==
  ASSUME TypeOK, QueueInv, depth > 0, Top.pc \in PassFrom, NEW pc \in PassPc, Goto(pc),
         "Finished" \notin state', state' \cap ActiveFlag # {},
         nested' = nested, waiting' = waiting,
         process_tasks' = <<>> \/ pc \in DrainPc, Fifo'
  PROVE  QueueInv'
<1>1. pc # "exited"
  BY DEF PassPc
<1> QED
  BY <1>1, PassOrLeaveQueue

LEMMA IdleQueue ==
  ASSUME TypeOK, QueueInv, depth > 0, Top.pc \in PassFrom, NEW w, Idle(w), process_tasks = <<>>,
         tasks' = tasks, process_tasks' = process_tasks, ran' = ran, accepted' = accepted,
         nested' = nested, waiting' = waiting
  PROVE  QueueInv'
<1>1. "Finished" \notin state /\ state \cap ActiveFlag # {}
  BY Parts, LoopActive DEF PassFrom
<1>2. PICK pc \in PassPc : Goto(pc)
  BY DEF Idle, PassPc
<1>3. state' = state \/ state' = {"Interrupted"}
  BY DEF Idle
<1>4. "Finished" \notin state' /\ state' \cap ActiveFlag # {}
  BY <1>1, <1>3 DEF ActiveFlag
<1>5. Fifo'
  BY Parts DEF Fifo
<1> QED
  BY <1>2, <1>4, <1>5, PassQueue

\* The queues are swapped with no batch left.
LEMMA SwapFifo ==
  ASSUME TypeOK, Fifo, Swap, process_tasks = <<>>, ran' = ran, accepted' = accepted
  PROVE  Fifo'
BY SwapEmpty DEF TypeOK, Fifo, Swap

LEMMA ContinueQueue ==
  ASSUME TypeOK, QueueInv, depth > 0, Top.pc \in PassFrom, NEW w, Continue(w),
         process_tasks = <<>>, LoopUnchanged
  PROVE  QueueInv'
<1>0. nested' = nested /\ waiting' = waiting /\ ran' = ran /\ accepted' = accepted
  BY DEF LoopUnchanged, history
<1>1. CASE tasks # <<>>
  <2>1. Swap /\ state' = state
    BY <1>1 DEF Continue
  <2>2. PICK pc \in {"overload", "tasks"} : Goto(pc)
    BY <1>1 DEF Continue
  <2>3. pc \in PassPc /\ pc \in DrainPc
    BY DEF PassPc, DrainPc
  <2>4. "Finished" \notin state' /\ state' \cap ActiveFlag # {}
    BY <2>1, Parts, LoopActive DEF PassFrom
  <2>5. Fifo'
    BY <1>0, <2>1, Parts, SwapFifo
  <2> QED
    BY <1>0, <2>2, <2>3, <2>4, <2>5, PassQueue
<1>2. CASE tasks = <<>>
  BY <1>0, <1>2, IdleQueue DEF Continue, queueVars
<1> QED
  BY <1>1, <1>2

LEMMA PassPcs ==
  /\ PassFrom \cap {"body", "entry"} = {}
  /\ \A pc \in {"sleepCv", "sleepPoll", "calls"} : pc \in PassFrom /\ pc \notin DrainPc
  /\ "tasks" \in PassFrom /\ "overload" \in PassFrom
BY DEF PassFrom, LoopPc, DrainPc

LEMMA LoopContinuesQueue ==
  ASSUME TypeOK, QueueInv, LoopContinues
  PROVE  QueueInv'
BY PassPcs, ContinueQueue DEF LoopContinues, At

LEMMA OverloadDoneQueue ==
  ASSUME TypeOK, QueueInv, OverloadDone
  PROVE  QueueInv'
BY PassPcs, IdleQueue DEF OverloadDone, At, queueVars, LoopUnchanged, history

LEMMA CvWakesQueue ==
  ASSUME TypeOK, QueueInv, CvWakes
  PROVE  QueueInv'
<1>1. process_tasks = <<>>
  BY Parts, PassPcs, NoBatch DEF CvWakes, At
<1> QED
  BY <1>1, PassPcs, ContinueQueue DEF CvWakes, At

LEMMA EpollWakesQueue ==
  ASSUME TypeOK, QueueInv, EpollWakes
  PROVE  QueueInv'
<1>1. process_tasks = <<>>
  BY Parts, PassPcs, NoBatch DEF EpollWakes, At
<1> QED
  BY <1>1, PassPcs, ContinueQueue DEF EpollWakes, At

LEMMA EpollTimesOutQueue ==
  ASSUME TypeOK, QueueInv, EpollTimesOut
  PROVE  QueueInv'
<1>1. process_tasks = <<>>
  BY Parts, PassPcs, NoBatch DEF EpollTimesOut, At
<1> QED
  BY <1>1, PassPcs, ContinueQueue DEF EpollTimesOut, At

LEMMA CallbacksDoneQueue ==
  ASSUME TypeOK, QueueInv, CallbacksDone
  PROVE  QueueInv'
<1>1. process_tasks = <<>>
  BY Parts, PassPcs, NoBatch DEF CallbacksDone, At
<1> QED
  BY <1>1, PassPcs, ContinueQueue DEF CallbacksDone, At

LEMMA CvTimesOutQueue ==
  ASSUME TypeOK, QueueInv, CvTimesOut
  PROVE  QueueInv'
<1>0. depth > 0 /\ Top.pc \in PassFrom
  BY PassPcs DEF CvTimesOut, At
<1>1. process_tasks = <<>>
  BY Parts, PassPcs, NoBatch DEF CvTimesOut, At
<1>2. CASE Continue(wake)
  BY <1>0, <1>1, <1>2, ContinueQueue DEF CvTimesOut
<1>3. CASE Goto("tasks") /\ UNCHANGED <<state, queueVars>>
  <2>1. "Finished" \notin state' /\ state' \cap ActiveFlag # {}
    BY <1>0, <1>3, Parts, LoopActive DEF PassFrom
  <2>2. Fifo' /\ process_tasks' = <<>> /\ nested' = nested /\ waiting' = waiting
    BY <1>1, <1>3, Parts DEF CvTimesOut, LoopUnchanged, queueVars, history, Fifo
  <2>3. "tasks" \in PassPc
    BY DEF PassPc
  <2> QED
    BY <1>0, <1>3, <2>1, <2>2, <2>3, PassQueue
<1> QED
  BY <1>2, <1>3 DEF CvTimesOut

LEMMA EpollReportsQueue ==
  ASSUME TypeOK, QueueInv, EpollReports
  PROVE  QueueInv'
<1>0. depth > 0 /\ Top.pc \in PassFrom
  BY PassPcs DEF EpollReports, At
<1>1. process_tasks = <<>>
  BY Parts, PassPcs, NoBatch DEF EpollReports, At
<1>2. "Finished" \notin state' /\ state' \cap ActiveFlag # {}
  BY <1>0, Parts, LoopActive DEF PassFrom, EpollReports
<1>3. Fifo' /\ process_tasks' = <<>> /\ nested' = nested /\ waiting' = waiting
  BY <1>1, Parts DEF EpollReports, LoopUnchanged, queueVars, history, Fifo
<1>4. "calls" \in PassPc
  BY DEF PassPc
<1> QED
  BY <1>0, <1>2, <1>3, <1>4, PassQueue DEF EpollReports

LEMMA LoopBeginsQueue ==
  ASSUME TypeOK, QueueInv, LoopBegins
  PROVE  QueueInv'
<1>0. depth > 0 /\ Top.pc \in {"started", "drainTasks", "drainCalls"} /\ Swap /\ Goto("tasks")
  BY DEF LoopBegins, At
<1>1. Top.pc \in PassFrom /\ "tasks" \in PassPc /\ "tasks" \in DrainPc
  BY <1>0 DEF PassFrom, LoopPc, PassPc, DrainPc
<1>2. process_tasks = <<>>
  <2>1. "started" \notin DrainPc \cup {"body", "entry"} /\ "drainCalls" \notin DrainPc \cup {"body", "entry"}
    BY DEF DrainPc
  <2> QED
    BY <1>0, <2>1, Parts, NoBatch DEF LoopBegins, At
<1>3. "Finished" \notin state' /\ state' \cap ActiveFlag # {}
  BY <1>0, <1>1, Parts, LoopActive DEF PassFrom, LoopBegins
<1>4. Fifo' /\ nested' = nested /\ waiting' = waiting
  BY <1>0, <1>2, Parts, SwapFifo DEF LoopBegins, history
<1> QED
  BY <1>0, <1>1, <1>3, <1>4, PassQueue

(***************************************************************************)
(* Steps of the outermost exec().                                           *)
(***************************************************************************)
LEMMA OuterAlone ==
  ASSUME StackType, Shape, depth > 0, Top.pc \in {"spawn", "finishing", "final", "ended"}
  PROVE  depth = 1 /\ depth \in 1..MaxDepth /\ frame[1].waiter = None /\ frame[1].nested = 0
<1>1. depth = 1
  BY DEF StackType, Shape, NestedFrame, CalleeFrame, NestedPc, CalleePc, Top
<1> QED
  BY <1>1 DEF StackType, Shape, OuterFrame

LEMMA OuterQueue ==
  ASSUME TypeOK, QueueInv, depth = 1, NEW pc \in OuterPc, Goto(pc), Lifecycle',
         nested' = nested, waiting' = waiting,
         process_tasks' = <<>> \/ pc \in DrainPc, NothingTakenAtEnd', Fifo'
  PROVE  QueueInv'
<1>0. StackType /\ Shape /\ WaiterFrames /\ NestedBound /\ 1 \in 1..MaxDepth
  BY Parts DEF StackType
<1>1. /\ depth' = 1 /\ frame'[1].pc = pc /\ frame'[1].nested = 0 /\ frame'[1].waiter = None
      /\ frame[1].waiter = None
  BY <1>0, GotoEffect DEF Shape, OuterFrame
<1>2. Shape'
  BY <1>1 DEF Shape, OuterFrame, BelowTop
<1>3. Batch'
  BY <1>1, EmptyBatch, TopBatch
<1>4. WaiterFrames'
  BY <1>0, <1>1 DEF WaiterFrames, OuterPc
<1>5. Credits' = Credits
  BY <1>0, <1>1, SameCredits DEF Credit
<1> QED
  BY <1>0, <1>2, <1>3, <1>4, <1>5 DEF QueueInv, NestedBound

LEMMA ThreadBeginsQueue ==
  ASSUME TypeOK, QueueInv, ThreadBegins
  PROVE  QueueInv'
<1>1. depth = 1 /\ Goto("entry") /\ frame[1].pc = "spawn" /\ StackType
  BY Parts, OuterAlone DEF ThreadBegins, At, Top
<1>2. process_tasks = <<>>
  BY <1>1, Parts, NoBatch DEF DrainPc, Top
<1>3. depth' = 1 /\ frame'[1].pc = "entry"
  BY <1>1, GotoEffect
<1>4. Lifecycle'
  BY <1>1, <1>3, Parts DEF Lifecycle, ThreadBegins
<1>5. "entry" \in OuterPc
  BY DEF OuterPc
<1>6. NothingTakenAtEnd' /\ Fifo'
  BY Parts DEF ThreadBegins, queueVars, history, NothingTakenAtEnd, Fifo
<1> QED
  BY <1>1, <1>2, <1>4, <1>5, <1>6, OuterQueue DEF ThreadBegins, queueVars

LEMMA ExecEndsQueue ==
  ASSUME TypeOK, QueueInv, ExecEnds
  PROVE  QueueInv'
<1>0. /\ depth > 0 /\ Top.pc = "exit" /\ "exit" \in PassFrom /\ "exit" \notin DrainPc
      /\ StackType /\ Shape
  BY Parts DEF ExecEnds, At, PassFrom, LoopPc, DrainPc
<1>1. process_tasks = <<>>
  BY <1>0, Parts, NoBatch
<1>2. /\ "Finished" \notin state /\ state \cap ActiveFlag # {}
      /\ frame[1].pc \notin {"spawn", "entry", "final", "ended"}
  BY <1>0, Parts, LoopActive DEF PassFrom
<1>3. Fifo' /\ process_tasks' = <<>> /\ nested' = nested /\ waiting' = waiting
  BY <1>1, Parts DEF ExecEnds, queueVars, history, Fifo
<1>4. CASE Top.nested > 0
  <2>1. depth > 1 /\ Top.waiter # None
    BY <1>0, <1>4 DEF StackType, Shape, OuterFrame, NestedFrame, CalleeFrame, CalleePc, Top
  <2>2. Goto("exited") /\ (state' = state \/ state' = state \ {"WaitFinished"})
    BY <1>4, <2>1 DEF ExecEnds
  <2>3. "Finished" \notin state' /\ state' \cap ActiveFlag # {}
    BY <1>2, <2>2 DEF ActiveFlag
  <2> QED
    BY <1>0, <1>3, <2>1, <2>2, <2>3, PassOrLeaveQueue
<1>5. CASE Top.nested = 0
  <2>1. depth = 1
    BY <1>0, <1>5 DEF StackType, Shape, NestedFrame, CalleeFrame, CalleePc, Top
  <2>2. Goto("finishing") /\ state' = state
    BY <1>5 DEF ExecEnds
  <2>3. depth' = 1 /\ frame'[1].pc = "finishing"
    BY <1>0, <2>1, <2>2, GotoEffect
  <2>4. Lifecycle'
    BY <1>2, <2>2, <2>3, ActiveLifecycle
  <2>5. "finishing" \in OuterPc /\ NothingTakenAtEnd'
    BY <1>2, <2>2 DEF OuterPc, NothingTakenAtEnd
  <2> QED
    BY <1>3, <2>1, <2>2, <2>4, <2>5, OuterQueue
<1> QED
  BY <1>4, <1>5 DEF ExecEnds

LEMMA LastTasksQueue ==
  ASSUME TypeOK, QueueInv, LastTasks
  PROVE  QueueInv'
<1>1. depth = 1 /\ Goto("final") /\ Swap /\ frame[1].pc = "finishing" /\ StackType
  BY Parts, OuterAlone DEF LastTasks, At, Top
<1>2. process_tasks = <<>>
  BY <1>1, Parts, NoBatch DEF DrainPc, Top
<1>3. depth' = 1 /\ frame'[1].pc = "final"
  BY <1>1, GotoEffect
<1>4. Lifecycle'
  BY <1>3, FinalLifecycle DEF LastTasks
<1>5. "final" \in OuterPc /\ "final" \in DrainPc
  BY DEF OuterPc, DrainPc
<1>6. NothingTakenAtEnd' /\ Fifo' /\ nested' = nested /\ waiting' = waiting
  BY <1>1, <1>2, Parts, SwapFifo DEF LastTasks, history, NothingTakenAtEnd, Swap
<1> QED
  BY <1>1, <1>4, <1>5, <1>6, OuterQueue

LEMMA ExecReturnsQueue ==
  ASSUME TypeOK, QueueInv, ExecReturns
  PROVE  QueueInv'
<1>1. depth = 1 /\ Goto("ended") /\ frame[1].pc = "final" /\ StackType
  BY Parts, OuterAlone DEF ExecReturns, At, Top
<1>2. depth' = 1 /\ frame'[1].pc = "ended"
  BY <1>1, GotoEffect
<1>3. Lifecycle'
  <2>1. state' = {"WaitFinished", "Finished"}
    BY <1>1, Parts DEF ExecReturns, Lifecycle
  <2> QED
    BY <1>2, <2>1, FinalLifecycle
<1>4. "ended" \in OuterPc
  BY DEF OuterPc
<1>5. /\ NothingTakenAtEnd' /\ Fifo' /\ process_tasks' = <<>>
      /\ nested' = nested /\ waiting' = waiting
  BY Parts DEF ExecReturns, queueVars, history, NothingTakenAtEnd, Fifo
<1> QED
  BY <1>1, <1>3, <1>4, <1>5, OuterQueue

LEMMA ThreadEndsQueue ==
  ASSUME TypeOK, QueueInv, ThreadEnds
  PROVE  QueueInv'
<1>1. depth = 1 /\ Pop /\ frame[1].pc = "ended" /\ frame[1].waiter = None /\ StackType
  BY Parts, OuterAlone DEF ThreadEnds, At, Top
<1>2. depth' = depth - 1 /\ \A i \in 1..depth - 1 : frame'[i] = frame[i]
  BY <1>1, PopEffect
<1>3. Shape'
  BY <1>1, <1>2, Parts, PopShape
<1>4. Lifecycle'
  BY <1>1, <1>2 DEF ThreadEnds, Lifecycle
<1>5. Batch'
  BY <1>1, <1>2, Parts, PopBatch DEF ThreadEnds, queueVars, DrainPc, Top
<1>6. WaiterFrames' /\ NestedBound'
  BY <1>1, <1>2, Parts, PopWaiters DEF ThreadEnds, Credit
<1>7. NothingTakenAtEnd' /\ Fifo'
  BY <1>1, Parts DEF ThreadEnds, queueVars, Lifecycle, NothingTakenAtEnd, Fifo
<1> QED
  BY <1>3, <1>4, <1>5, <1>6, <1>7 DEF QueueInv

LEMMA StartQueue ==
  ASSUME TypeOK, QueueInv, NEW c \in Client, Start(c)
  PROVE  QueueInv'
<1>1. depth = 0 /\ Push(NewFrame("spawn")) /\ state' = {"WaitStarted"} /\ StackType
  BY Parts DEF Start
<1>2. /\ depth' = depth + 1 /\ frame'[depth + 1] = NewFrame("spawn")
      /\ \A i \in 1..depth : frame'[i] = frame[i] /\ SameFrame(i)
  BY <1>1, PushEffect DEF SameFrame
<1>3. /\ frame'[depth + 1].pc = "spawn" /\ frame'[depth + 1].waiter = None
      /\ frame'[depth + 1].nested = 0
  BY <1>2 DEF NewFrame
<1>4. Shape'
  <2>1. GoodFrame(frame'[depth + 1], depth + 1)
    BY <1>1, <1>3 DEF GoodFrame, OuterFrame, OuterPc
  <2> QED
    BY <1>1, <1>2, <2>1, Parts, PushShape
<1>5. Lifecycle'
  BY <1>1, <1>2, <1>3 DEF Lifecycle
<1>6. Batch'
  <2>1. process_tasks = <<>>
    BY <1>1, Parts, NoBatch
  <2> QED
    BY <2>1, EmptyBatch DEF Start, queueVars
<1>7. WaiterFrames' /\ NestedBound'
  BY <1>2, <1>3, Parts, PushWaiters DEF Start
<1>8. NothingTakenAtEnd' /\ Fifo'
  BY <1>1, Parts DEF Start, queueVars, history, NothingTakenAtEnd, Fifo
<1> QED
  BY <1>4, <1>5, <1>6, <1>7, <1>8 DEF QueueInv

LEMMA DestroyQueue ==
  ASSUME TypeOK, QueueInv, NEW c \in Client, Destroy(c)
  PROVE  QueueInv'
<1>1. depth = 0 /\ depth' = depth /\ frame' = frame /\ StackType
  BY Parts DEF Destroy, stackVars
<1>2. SameFrames
  BY <1>1 DEF SameFrames, SameFrame
<1>3. process_tasks = <<>>
  BY <1>1, Parts, NoBatch
<1>4. Shape' /\ Lifecycle' /\ Batch'
  BY <1>2, Parts, SameFramesShape, SameLifecycle, SameBatch DEF Destroy
<1>5. WaiterFrames' /\ NestedBound'
  BY <1>2, Parts, SameWaiters DEF Destroy, QueueType
<1>6. NothingTakenAtEnd'
  BY DEF Destroy, NothingTakenAtEnd
<1>7. Fifo'
  <2>1. ran \in Seq(Task) /\ tasks \in Seq(Task) /\ ran \o tasks \in Seq(Task)
    BY DEF TypeOK
  <2>2. /\ ran \o <<>> = ran
        /\ (ran \o tasks) \o <<>> = ran \o tasks
    BY <2>1, ConcatEmptySeq
  <2> QED
    BY <1>3, <2>1, <2>2, Parts DEF Destroy, Fifo
<1> QED
  BY <1>4, <1>5, <1>6, <1>7 DEF QueueInv

(***************************************************************************)
(* Callbacks and the processTasks() they call.                              *)
(***************************************************************************)
LEMMA CalleePush ==
  ASSUME TypeOK, QueueInv, depth > 0, Top.pc \in BusyPc, depth' = depth + 1,
         \A i \in 1..depth : SameFrame(i), CalleeFrame(frame'[depth + 1]),
         state' = state, nested' = nested, waiting' = waiting
  PROVE  Shape' /\ Lifecycle' /\ WaiterFrames' /\ NestedBound'
<1>0. StackType /\ depth \in 1..MaxDepth
  BY Parts DEF StackType
<1>1. Shape'
  <2>1. GoodFrame(frame'[depth + 1], depth + 1)
    BY <1>0 DEF GoodFrame
  <2> QED
    BY <1>0, <2>1, Parts, PushShape
<1>2. Lifecycle'
  <2>1. depth \in 1..depth /\ \A i \in 1..depth : frame'[i].pc = frame[i].pc
    BY <1>0 DEF SameFrame
  <2> QED
    BY <1>0, <2>1, Parts, CalleeLifecycle DEF CalleeFrame
<1>3. WaiterFrames' /\ NestedBound'
  BY <1>0, Parts, PushWaiters DEF CalleeFrame, CalleePc
<1> QED
  BY <1>1, <1>2, <1>3

LEMMA RunTaskQueue ==
  ASSUME TypeOK, QueueInv, RunTask
  PROVE  QueueInv'
<1> DEFINE f == [NewFrame("body") EXCEPT !.task = Head(process_tasks)]
<1>0. /\ StackType /\ depth > 0 /\ Top.pc \in DrainPc /\ Top.pc \in BusyPc
      /\ f.pc = "body" /\ CalleeFrame(f) /\ Push(f)
  BY Parts DEF RunTask, BusyPc, NewFrame, CalleeFrame, CalleePc
<1> HIDE DEF f
<1>1. /\ depth' = depth + 1 /\ frame'[depth + 1] = f
      /\ \A i \in 1..depth : frame'[i] = frame[i] /\ SameFrame(i)
  BY <1>0, PushEffect DEF SameFrame
<1>2. Shape' /\ Lifecycle' /\ WaiterFrames' /\ NestedBound'
  BY <1>0, <1>1, CalleePush DEF RunTask
<1>3. Batch'
  <2>1. depth \in 1..depth' /\ frame'[depth].pc \in DrainPc
    BY <1>0, <1>1 DEF StackType, Top
  <2>2. \A i \in depth + 1..depth' : frame'[i].pc \in {"body", "entry"}
    BY <1>0, <1>1 DEF StackType
  <2> QED
    BY <2>1, <2>2 DEF Batch
<1>4. NothingTakenAtEnd'
  BY Parts DEF RunTask, NothingTakenAtEnd
<1>5. Fifo'
  BY Parts, RunFirst DEF RunTask, Fifo, QueueType, HistoryType
<1> QED
  BY <1>2, <1>3, <1>4, <1>5 DEF QueueInv

LEMMA RunCallbackQueue ==
  ASSUME TypeOK, QueueInv, RunCallback
  PROVE  QueueInv'
<1> DEFINE f == NewFrame("body")
<1>0. /\ StackType /\ depth > 0 /\ Top.pc \in BusyPc
      /\ f.pc = "body" /\ CalleeFrame(f) /\ Push(f)
  BY Parts DEF RunCallback, BusyPc, NewFrame, CalleeFrame, CalleePc
<1> HIDE DEF f
<1>1. /\ depth' = depth + 1 /\ frame'[depth + 1] = f
      /\ \A i \in 1..depth : frame'[i] = frame[i] /\ SameFrame(i)
  BY <1>0, PushEffect DEF SameFrame
<1>2. Shape' /\ Lifecycle' /\ WaiterFrames' /\ NestedBound'
  BY <1>0, <1>1, CalleePush DEF RunCallback
<1>3. Batch'
  BY <1>0, <1>1, Parts, PushBatch DEF RunCallback, queueVars
<1>4. NothingTakenAtEnd' /\ Fifo'
  BY Parts DEF RunCallback, queueVars, history, NothingTakenAtEnd, Fifo
<1> QED
  BY <1>2, <1>3, <1>4 DEF QueueInv

LEMMA SelfInvokeQueue ==
  ASSUME TypeOK, QueueInv, SelfInvoke
  PROVE  QueueInv'
<1> DEFINE g == NewFrame("sync1")
<1>0. /\ StackType /\ depth > 0 /\ Top.pc \in BusyPc
      /\ g.pc = "sync1" /\ CalleeFrame(g) /\ depth' = depth + 1 /\ depth + 1 <= MaxDepth
      /\ frame' = [frame EXCEPT ![depth].calls = @ + 1, ![depth + 1] = g]
  BY Parts, CallerTypes DEF SelfInvoke, Callers, InCallback, BusyPc, NewFrame, CalleeFrame,
                            CalleePc, StackType
<1> HIDE DEF g
<1>1. frame'[depth + 1] = g /\ \A i \in 1..depth : SameFrame(i)
  BY <1>0, CallFrameEffect
<1>2. Shape' /\ Lifecycle' /\ WaiterFrames' /\ NestedBound'
  BY <1>0, <1>1, CalleePush DEF SelfInvoke
<1>3. Batch'
  <2>1. depth + 1 \in Nat \ {0} /\ frame'[depth + 1].pc \in DrainPc
    BY <1>0, <1>1 DEF StackType, DrainPc
  <2> QED
    BY <1>0, <2>1, TopBatch
<1>4. NothingTakenAtEnd' /\ Fifo'
  BY Parts DEF SelfInvoke, queueVars, history, NothingTakenAtEnd, Fifo
<1> QED
  BY <1>2, <1>3, <1>4 DEF QueueInv

LEMMA CalleeGoto ==
  ASSUME TypeOK, QueueInv, depth > 0, Top.pc \in CalleePc, NEW pc \in CalleePc, Goto(pc),
         state' = state, nested' = nested, waiting' = waiting
  PROVE  /\ Shape' /\ Lifecycle' /\ WaiterFrames' /\ NestedBound'
         /\ depth' = depth /\ frame'[depth].pc = pc
<1>0. StackType /\ depth \in 1..MaxDepth
  BY Parts DEF StackType
<1>1. /\ depth' = depth /\ frame'[depth].pc = pc
      /\ frame'[depth].nested = frame[depth].nested
      /\ frame'[depth].waiter = frame[depth].waiter
      /\ frame'[depth].q = frame[depth].q
      /\ \A i \in 1..MaxDepth \ {depth} : frame'[i] = frame[i]
  BY <1>0, GotoEffect
<1>2. \A i \in 1..depth - 1 : frame'[i] = frame[i] /\ SameFrame(i)
  BY <1>0, <1>1 DEF SameFrame
<1>3. depth > 1 /\ frame[depth].waiter = None
  BY <1>0, Parts DEF Shape, OuterFrame, OuterPc, NestedFrame, NestedPc, CalleeFrame, CalleePc, Top
<1>4. Shape'
  <2>1. GoodFrame(frame'[depth], depth)
    BY <1>1, <1>3 DEF GoodFrame, CalleeFrame
  <2> QED
    BY <1>0, <1>1, <1>2, <2>1, Parts, TopShape
<1>5. Lifecycle'
  <2>1. depth - 1 \in 1..depth /\ depth' \in {depth - 1, (depth - 1) + 1}
    BY <1>0, <1>1, <1>3
  <2>2. \A i \in 1..depth - 1 : frame'[i].pc = frame[i].pc
    BY <1>2
  <2>3. depth' = (depth - 1) + 1 => frame'[(depth - 1) + 1].pc \in CalleePc
    BY <1>0, <1>1
  <2> QED
    BY <1>0, <2>1, <2>2, <2>3, Parts, CalleeLifecycle
<1>6. WaiterFrames' /\ NestedBound'
  BY <1>0, <1>1, <1>2, Parts, TopWaiters DEF CalleePc, Top
<1> QED
  BY <1>1, <1>4, <1>5, <1>6

LEMMA SelfInvokeSwapQueue ==
  ASSUME TypeOK, QueueInv, SelfInvokeSwap
  PROVE  QueueInv'
<1>0. depth > 0 /\ Top.pc \in CalleePc /\ "sync2" \in CalleePc /\ "sync2" \in DrainPc /\ Swap
  BY DEF SelfInvokeSwap, At, CalleePc, DrainPc, Swap
<1>1. /\ Shape' /\ Lifecycle' /\ WaiterFrames' /\ NestedBound'
      /\ depth' = depth /\ frame'[depth].pc = "sync2"
  BY <1>0, CalleeGoto DEF SelfInvokeSwap
<1>2. Batch'
  BY <1>0, <1>1, Parts, TopBatch DEF StackType
<1>3. NothingTakenAtEnd'
  BY DEF SelfInvokeSwap, NothingTakenAtEnd
<1>4. Fifo'
  BY <1>0, Parts, SwapFifo DEF SelfInvokeSwap, history
<1> QED
  BY <1>1, <1>2, <1>3, <1>4 DEF QueueInv

LEMMA SelfInvokeFunctionQueue ==
  ASSUME TypeOK, QueueInv, SelfInvokeFunction
  PROVE  QueueInv'
<1>0. depth > 0 /\ Top.pc \in CalleePc /\ "body" \in CalleePc
  BY DEF SelfInvokeFunction, At, CalleePc
<1>1. Shape' /\ Lifecycle' /\ WaiterFrames' /\ NestedBound'
  BY <1>0, CalleeGoto DEF SelfInvokeFunction
<1>2. Batch'
  BY EmptyBatch DEF SelfInvokeFunction, queueVars
<1>3. NothingTakenAtEnd' /\ Fifo'
  BY Parts DEF SelfInvokeFunction, queueVars, history, NothingTakenAtEnd, Fifo
<1> QED
  BY <1>1, <1>2, <1>3 DEF QueueInv

LEMMA BodyReturnsQueue ==
  ASSUME TypeOK, QueueInv, BodyReturns
  PROVE  QueueInv'
<1>0. StackType /\ depth \in 1..MaxDepth /\ frame[depth].pc = "body" /\ Pop
  BY Parts DEF BodyReturns, At, Top, StackType
<1>1. depth' = depth - 1 /\ \A i \in 1..depth - 1 : frame'[i] = frame[i]
  BY <1>0, PopEffect
<1>2. depth > 1 /\ frame[depth].waiter = None
  BY <1>0, Parts DEF Shape, OuterFrame, OuterPc, NestedFrame, NestedPc, CalleeFrame
<1>3. Shape'
  BY <1>0, <1>1, Parts, PopShape
<1>4. Lifecycle'
  <2>1. depth - 1 \in 1..depth /\ depth' \in {depth - 1, (depth - 1) + 1} /\ depth' # (depth - 1) + 1
    BY <1>0, <1>1, <1>2
  <2>2. \A i \in 1..depth - 1 : frame'[i].pc = frame[i].pc
    BY <1>1
  <2> QED
    BY <1>0, <2>1, <2>2, Parts, CalleeLifecycle DEF BodyReturns
<1>5. Batch'
  BY <1>0, <1>1, Parts, PopBatch DEF BodyReturns, queueVars, Top, DrainPc
<1>6. WaiterFrames' /\ NestedBound'
  BY <1>0, <1>1, <1>2, Parts, PopWaiters DEF BodyReturns, Credit
<1>7. NothingTakenAtEnd' /\ Fifo'
  BY Parts DEF BodyReturns, queueVars, NothingTakenAtEnd, Fifo
<1> QED
  BY <1>3, <1>4, <1>5, <1>6, <1>7 DEF QueueInv

(***************************************************************************)
(* Waiter::wait() and complete(), and the exec() that begins.               *)
(***************************************************************************)
LEMMA CompleteQueue ==
  ASSUME TypeOK, QueueInv, NEW w \in Waiter, Complete(w)
  PROVE  QueueInv'
<1>0. /\ StackType /\ depth \in 1..MaxDepth /\ Top.pc \in BodyPc
      /\ SameFrames /\ waiting \in [Waiter -> BOOLEAN] /\ waiting[w]
      /\ waiting' = [waiting EXCEPT ![w] = FALSE]
  BY Parts, CallerTypes, SpendEffect DEF Complete, Callers, InCallback, StackType, UserType
<1>1. PICK i \in 1..depth : frame[i].waiter = w
  BY <1>0, Parts DEF WaiterFrames
<1>2. frame[i].pc # "entry" /\ i > 1 /\ frame[i].pc \notin CalleePc \cup {"quits"}
  <2>1. CASE i = depth
    BY <1>0, <1>1, <2>1, Parts DEF Shape, OuterFrame, NestedFrame, CalleeFrame, NestedPc, BodyPc, Top
  <2>2. CASE i < depth
    BY <1>0, <1>1, <2>2, Parts DEF Shape, OuterFrame, NestedFrame, CalleeFrame, NestedPc, BelowTop,
                                   CalleePc, BusyPc, DrainPc, CallsPc, BodyPc
  <2> QED
    BY <1>0, <2>1, <2>2
<1>3. "Finished" \notin state /\ frame[1].pc \notin {"spawn", "entry", "final", "ended"}
  <2>1. "Finished" \notin state
    BY <1>0, <1>1, <1>2, Parts DEF Lifecycle
  <2>2. frame[1].pc \notin {"spawn", "entry"}
    <3>1. i > 1 /\ 1 \in 1..depth - 1
      BY <1>0, <1>1, <1>2
    <3> QED
      BY <3>1, Parts, BelowTopPcs DEF Shape, BelowTop
  <2> QED
    BY <1>0, <2>1, <2>2, Parts DEF Lifecycle
<1>4. /\ state' = state \/ state' = state \cup {"WaitFinished"}
      /\ nested' = IF nested > 0 THEN nested - 1 ELSE nested
  BY <1>0, <1>3, Parts DEF Complete, QuitIfRunning, QuitThread, Lifecycle
<1>5. Shape' /\ Batch'
  BY <1>0, Parts, SameFramesShape, SameBatch DEF Complete, queueVars
<1>6. Lifecycle'
  <2>1. depth' > 0 /\ frame'[1].pc = frame[1].pc
    BY <1>0 DEF SameFrames, SameFrame
  <2>2. "Finished" \notin state' /\ state' \cap ActiveFlag # {}
    BY <1>0, <1>3, <1>4, Parts DEF Lifecycle, ActiveFlag
  <2> QED
    BY <1>3, <2>1, <2>2, ActiveLifecycle
<1>7. WaiterFrames'
  <2>1. \A v \in Waiter : waiting'[v] => v # w /\ waiting[v]
    BY <1>0
  <2>2. \A j \in 1..depth : frame[j].waiter = w => j = i
    BY <1>1, Parts DEF WaiterFrames
  <2>3. \A j \in 1..depth : frame[j].pc = "entry" /\ frame[j].waiter # None =>
          frame[j].waiter \in Waiter /\ frame[j].waiter # w
    BY <1>0, <1>2, <2>2 DEF StackType, Frame
  <2>4. \A j \in 1..depth : frame[j].pc = "quits" => frame[j].waiter \in Waiter
    BY <1>0, Parts DEF StackType, Shape, OuterFrame, NestedFrame, CalleeFrame, OuterPc, CalleePc
  <2> QED
    BY <1>0, <2>1, <2>3, <2>4, Parts DEF WaiterFrames, SameFrames, SameFrame
<1>8. NestedBound'
  <2> DEFINE k == frame[i].q
  <2>1. k \in Nat
    BY <1>0, <1>1 DEF StackType, Frame
  <2>2. Credit(i) = k + 1
    BY <1>0, <1>1, <1>2 DEF Credit
  <2>3. Credit(i)' = k
    BY <1>0, <1>1 DEF Credit, SameFrames, SameFrame
  <2>4. ASSUME NEW j \in 1..depth, j # i PROVE Credit(j)' = Credit(j)
    <3>1. frame[j].waiter # w
      BY <1>1, <2>4, Parts DEF WaiterFrames
    <3>2. frame[j].waiter # None => waiting'[frame[j].waiter] = waiting[frame[j].waiter]
      BY <1>0, <3>1 DEF StackType, Frame
    <3> QED
      BY <1>0, <3>2 DEF Credit, SameFrames, SameFrame
  <2> HIDE DEF k
  <2>5. <<i, k>> \in Credits /\ Credits' = Credits \ {<<i, k>>}
    BY <1>0, <2>1, <2>2, <2>3, <2>4, CreditLess DEF SameFrames
  <2> QED
    BY <1>4, <2>5, Parts, OneLess DEF QueueType
<1>9. NothingTakenAtEnd' /\ Fifo'
  BY <1>3, <1>4, Parts DEF Complete, queueVars, history, NothingTakenAtEnd, Fifo
<1> QED
  BY <1>5, <1>6, <1>7, <1>8, <1>9 DEF QueueInv

LEMMA WaitQueue ==
  ASSUME RegularUse, TypeOK, QueueInv, NEW w \in Waiter, Wait(w)
  PROVE  QueueInv'
<1> DEFINE g == [NewFrame("entry") EXCEPT !.waiter = w]
<1>0. /\ StackType /\ depth > 0 /\ depth \in 1..MaxDepth /\ Top.pc \in BodyPc
      /\ g.pc = "entry" /\ g.waiter = w /\ g.q = 0 /\ g.nested = 0
      /\ depth' = depth + 1 /\ depth + 1 <= MaxDepth
      /\ waiting \in [Waiter -> BOOLEAN] /\ waiting' = [waiting EXCEPT ![w] = TRUE]
      /\ \A i \in 1..depth : frame[i].waiter # w
  BY Parts, CallerTypes DEF Wait, Callers, InCallback, StackType, NewFrame, UserType
<1>a. frame' = [frame EXCEPT ![depth].calls = @ + 1, ![depth + 1] = g]
  BY DEF Wait
<1> HIDE DEF g
<1>1. frame'[depth + 1] = g /\ \A i \in 1..depth : SameFrame(i)
  BY <1>0, <1>a, CallFrameEffect
<1>2. \A i \in 1..depth' : i \in 1..depth \/ i = depth + 1
  BY <1>0
<1>b. ASSUME NEW i \in 1..depth, frame[i].waiter # None
      PROVE  waiting'[frame[i].waiter] = waiting[frame[i].waiter]
  <2>1. frame[i] \in Frame
    BY <1>0 DEF StackType
  <2>2. frame[i].waiter \in Waiter /\ frame[i].waiter # w
    BY <1>0, <1>b, <2>1 DEF Frame
  <2> QED
    BY <1>0, <2>2
<1>3. Shape'
  <2>1. Top.pc \in BusyPc
    BY <1>0 DEF BusyPc
  <2>2. GoodFrame(frame'[depth + 1], depth + 1)
    BY <1>0, <1>1 DEF GoodFrame, NestedFrame, NestedPc
  <2> QED
    BY <1>0, <1>1, <2>1, <2>2, Parts, PushShape
<1>4. "Finished" \notin state /\ frame[1].pc \notin {"spawn", "entry", "final", "ended"}
  <2>1. frame[1].pc \notin {"spawn", "entry", "ended"}
    <3>1. CASE depth = 1
      BY <1>0, <3>1 DEF Top, BodyPc
    <3>2. CASE depth > 1
      BY <1>0, <3>2, Parts, BelowTopPcs DEF Shape, BelowTop
    <3> QED
      BY <1>0, <3>1, <3>2
  <2>2. frame[1].pc # "final"
    BY <1>0 DEF Wait, MayWait, RegularUse
  <2> QED
    BY <1>0, <2>1, <2>2, Parts DEF Lifecycle
<1>5. Lifecycle'
  <2>1. depth' > 0 /\ frame'[1].pc = frame[1].pc
    BY <1>0, <1>1 DEF SameFrame
  <2>2. "Finished" \notin state' /\ state' \cap ActiveFlag # {}
    BY <1>0, <1>4, Parts DEF Wait, Lifecycle
  <2> QED
    BY <1>4, <2>1, <2>2, ActiveLifecycle
<1>6. Batch'
  BY <1>0, <1>1, Parts, PushBatch DEF Wait, queueVars, SameFrame
<1>7. WaiterFrames'
  <2>1. \A i \in 1..depth : frame'[i].waiter # w
    BY <1>0, <1>1 DEF SameFrame
  <2>2. \A i, j \in 1..depth' : frame'[i].waiter # None /\ frame'[i].waiter = frame'[j].waiter => i = j
    BY <1>0, <1>1, <1>2, <2>1, Parts DEF WaiterFrames, SameFrame
  <2>3. \A v \in Waiter : waiting'[v] => \E i \in 1..depth' : frame'[i].waiter = v
    <3> SUFFICES ASSUME NEW v \in Waiter, waiting'[v] PROVE \E i \in 1..depth' : frame'[i].waiter = v
      OBVIOUS
    <3>1. CASE v = w
      BY <1>0, <1>1, <3>1
    <3>2. CASE v # w
      BY <1>0, <1>1, <3>2, Parts DEF WaiterFrames, SameFrame
    <3> QED
      BY <3>1, <3>2
  <2>5. \A i \in 1..depth : frame[i].pc = "quits" => frame[i].waiter # None
    BY <1>0, Parts DEF Shape, OuterFrame, NestedFrame, CalleeFrame, OuterPc, CalleePc
  <2>6. \A i \in 1..depth' :
          /\ frame'[i].pc = "entry" /\ frame'[i].waiter # None => waiting'[frame'[i].waiter]
          /\ frame'[i].pc = "quits" => ~waiting'[frame'[i].waiter] /\ frame'[i].q > 0
    BY <1>0, <1>1, <1>2, <1>b, <2>5, Parts DEF WaiterFrames, SameFrame
  <2> QED
    BY <2>2, <2>3, <2>6 DEF WaiterFrames
<1>8. NestedBound'
  <2>1. ASSUME NEW i \in 1..depth PROVE Credit(i)' = Credit(i)
    BY <1>1, <1>b DEF Credit, SameFrame
  <2>2. \A i \in 1..depth' : i = depth + 1 => Credit(i)' = 0
    BY <1>0, <1>1 DEF Credit
  <2>3. Credits' = UNION {{i} \X (0..Credit(i)' - 1) : i \in 1..depth'}
    BY DEF Credits
  <2>4. ASSUME NEW x \in Credits' PROVE x \in Credits
    BY <1>2, <2>1, <2>2, <2>3 DEF Credits
  <2>5. ASSUME NEW x \in Credits PROVE x \in Credits'
    BY <1>0, <2>1, <2>3 DEF Credits
  <2>6. Credits' = Credits
    BY <2>4, <2>5
  <2> QED
    BY <2>6, Parts DEF NestedBound, Wait
<1>9. NothingTakenAtEnd' /\ Fifo'
  BY Parts DEF Wait, queueVars, history, NothingTakenAtEnd, Fifo
<1> QED
  BY <1>3, <1>5, <1>6, <1>7, <1>8, <1>9 DEF QueueInv

\* The frame of a nested exec() goes on, and counts as much as before.
LEMMA NestedGoto ==
  ASSUME TypeOK, QueueInv, depth > 0, depth' = depth, Top.pc \in {"entry", "exited", "quits"},
         \A i \in 1..depth - 1 : frame'[i] = frame[i], NestedFrame(frame'[depth]),
         frame'[depth].waiter = frame[depth].waiter, waiting' = waiting, depth > 1,
         frame'[depth].pc = "entry" => waiting[frame[depth].waiter],
         frame'[depth].pc = "quits" => ~waiting[frame[depth].waiter] /\ frame'[depth].q > 0,
         "Finished" \notin state', state' \cap ActiveFlag # {}
  PROVE  Shape' /\ Lifecycle' /\ WaiterFrames'
<1>0. /\ StackType /\ depth \in 1..MaxDepth
      /\ \A i \in 1..depth : i = depth \/ i \in 1..depth - 1
  BY Parts DEF StackType
<1>1. Shape'
  <2>1. GoodFrame(frame'[depth], depth) /\ \A i \in 1..depth - 1 : SameFrame(i)
    BY <1>0 DEF GoodFrame, SameFrame
  <2> QED
    BY <1>0, <2>1, Parts, TopShape
<1>2. Lifecycle'
  <2>1. frame'[1].pc = frame[1].pc /\ frame[1].pc \in BusyPc /\ frame[1].pc # "final"
    <3>1. 1 \in 1..depth - 1 /\ depth \in 2..depth
      BY <1>0
    <3>2. frame[1].pc \in BusyPc
      BY <3>1, Parts DEF Shape, BelowTop
    <3>3. frame[depth].pc \notin CalleePc
      BY DEF Top, CalleePc
    <3>4. frame[1].pc # "final"
      BY <3>1, <3>3, Parts DEF Lifecycle
    <3> QED
      BY <3>1, <3>2, <3>4
  <2> QED
    BY <1>0, <2>1, BelowTopPcs, ActiveLifecycle
<1>3. WaiterFrames'
  BY <1>0, Parts DEF WaiterFrames, NestedFrame
<1> QED
  BY <1>1, <1>2, <1>3

LEMMA ExecBeginsQueue ==
  ASSUME TypeOK, QueueInv, ExecBegins
  PROVE  QueueInv'
<1>0. /\ StackType /\ depth \in 1..MaxDepth /\ frame[depth].pc = "entry" /\ depth' = depth
      /\ waiting' = waiting /\ nested \in Nat /\ Top.pc = "entry"
      /\ frame[depth] \in Frame
  BY Parts DEF ExecBegins, At, Top, StackType, QueueType
<1>a. nested' \in Nat
  BY <1>0 DEF ExecBegins
<1> DEFINE Enter(pc) == frame' = [frame EXCEPT ![depth].pc = pc, ![depth].nested = nested']
<1>b. \/ nested' = 0 /\ state' = {"Running"} /\ Enter("started") /\ UNCHANGED queueVars
      \/ nested' > 0 /\ state' = state /\ Enter("drainTasks") /\ UNCHANGED queueVars
      \/ /\ nested' > 0 /\ state' = state /\ Enter("drainCalls") /\ UNCHANGED queueVars
         /\ process_tasks = <<>>
      \/ nested' > 0 /\ state' = state /\ Enter("tasks") /\ Swap /\ process_tasks = <<>>
  BY DEF ExecBegins
<1>1. PICK pc \in {"started", "drainTasks", "drainCalls", "tasks"} :
        /\ Enter(pc)
        /\ pc = "started" <=> nested' = 0
        /\ pc = "started" => state' = {"Running"}
        /\ pc # "started" => state' = state
        /\ pc = "drainCalls" => process_tasks = <<>>
        /\ pc = "tasks" => Swap /\ process_tasks = <<>>
        /\ pc # "tasks" => UNCHANGED queueVars
  <2> HIDE DEF Enter
  <2> QED
    BY <1>a, <1>b
<1> DEFINE f == [frame[depth] EXCEPT !.pc = pc, !.nested = nested']
<1>2. /\ f.pc = pc /\ f.nested = nested' /\ f.waiter = frame[depth].waiter
      /\ f.q = frame[depth].q
  BY <1>0 DEF Frame
<1>3. frame'[depth] = f /\ \A i \in 1..depth - 1 : frame'[i] = frame[i]
  BY <1>0, <1>1 DEF StackType
<1> HIDE DEF f
<1>4. Fifo'
  <2>1. CASE pc = "tasks"
    BY <1>1, <2>1, Parts, SwapFifo DEF ExecBegins, history
  <2>2. CASE pc # "tasks"
    BY <1>1, <2>2, Parts DEF ExecBegins, queueVars, history, Fifo
  <2> QED
    BY <2>1, <2>2
<1>5. CASE depth = 1
  <2>1. state = {"WaitStarted"} /\ frame[1].waiter = None
    BY <1>0, <1>5, Parts DEF Lifecycle, Shape, OuterFrame
  <2>2. Credits = {}
    <3>1. Credit(1) = 0
      BY <2>1 DEF Credit
    <3>2. \A i \in 1..depth : i = 1
      BY <1>5
    <3> QED
      BY <3>1, <3>2 DEF Credits
  <2>3. nested' = 0
    <3>1. nested = 0
      BY <1>0, <2>2, Parts, FS_EmptySet DEF NestedBound
    <3>2. ~AtLeastRunning
      BY <2>1 DEF AtLeastRunning
    <3> QED
      BY <3>1, <3>2 DEF ExecBegins
  <2>4. pc = "started" /\ state' = {"Running"} /\ UNCHANGED queueVars
    BY <1>1, <2>3
  <2>5. process_tasks = <<>>
    <3>1. "entry" \notin DrainPc /\ \A j \in 1..depth : j = depth
      BY <1>5 DEF DrainPc
    <3> QED
      BY <1>0, <3>1, Parts DEF Batch
  <2>6. OuterFrame(frame'[1])
    BY <1>2, <1>3, <1>5, <2>1, <2>3, <2>4 DEF OuterFrame, OuterPc
  <2>7. Shape'
    BY <1>0, <1>5, <2>6 DEF Shape, BelowTop
  <2>8. Lifecycle'
    BY <1>0, <1>2, <1>3, <1>5, <2>4, ActiveLifecycle DEF ActiveFlag
  <2>9. Batch'
    BY <2>4, <2>5, EmptyBatch DEF queueVars
  <2>10. WaiterFrames'
    BY <1>0, <1>2, <1>3, <1>5, <2>1, <2>4, Parts DEF WaiterFrames
  <2>11. NestedBound'
    <3>1. \A i \in 1..depth : Credit(i)' = Credit(i)
      BY <1>2, <1>3, <1>5, <2>1 DEF Credit
    <3>2. Credits' = {}
      BY <1>0, <2>2, <3>1, SameCredits
    <3> QED
      BY <2>3, <3>2, FS_EmptySet DEF NestedBound
  <2>12. NothingTakenAtEnd'
    BY <2>4 DEF NothingTakenAtEnd
  <2> QED
    BY <1>4, <2>7, <2>8, <2>9, <2>10, <2>11, <2>12 DEF QueueInv
<1>6. CASE depth > 1
  <2>1. /\ NestedFrame(frame[depth]) /\ frame[depth].waiter \in Waiter
        /\ frame[depth].waiter # None /\ waiting[frame[depth].waiter]
    BY <1>0, <1>6, Parts DEF Shape, NestedFrame, CalleeFrame, CalleePc, WaiterFrames
  <2>2. "Finished" \notin state /\ state \cap ActiveFlag # {}
    <3>1. frame[depth].pc \notin CalleePc /\ depth \in 2..depth /\ 1 \in 1..depth - 1
      BY <1>0, <1>6 DEF CalleePc
    <3>2. frame[1].pc \notin {"spawn", "entry"}
      BY <3>1, Parts, BelowTopPcs DEF Shape, BelowTop
    <3> QED
      BY <1>0, <3>1, <3>2, Parts DEF Lifecycle
  <2>3. nested' = nested + 1
    BY <2>2 DEF ExecBegins, AtLeastRunning, ActiveFlag
  <2>4. pc # "started" /\ state' = state
    BY <1>0, <1>1, <2>3
  <2>5. NestedFrame(frame'[depth])
    BY <1>0, <1>2, <1>3, <2>1, <2>3, <2>4 DEF NestedFrame, NestedPc
  <2>6. Shape' /\ Lifecycle' /\ WaiterFrames'
    <3>1. frame'[depth].pc \notin {"entry", "quits"}
      BY <1>2, <1>3
    <3> QED
      BY <1>0, <1>2, <1>3, <1>6, <2>2, <2>4, <2>5, <3>1, NestedGoto
  <2>7. Batch'
    <3>1. CASE pc = "drainCalls"
      BY <1>1, <3>1, EmptyBatch DEF queueVars
    <3>2. CASE pc # "drainCalls"
      BY <1>0, <1>2, <1>3, <2>4, <3>2, TopBatch DEF DrainPc
    <3> QED
      BY <3>1, <3>2
  <2>8. NestedBound'
    <3> DEFINE k == frame[depth].q
    <3>1. k \in Nat
      BY <1>0 DEF Frame
    <3>2. Credit(depth) = k /\ Credit(depth)' = k + 1
      BY <1>0, <1>2, <1>3, <2>1 DEF Credit
    <3>3. \A j \in 1..depth : j # depth => Credit(j)' = Credit(j)
      BY <1>0, <1>3 DEF Credit
    <3> HIDE DEF k
    <3>4. <<depth, k>> \notin Credits /\ Credits' = Credits \cup {<<depth, k>>}
      BY <1>0, <3>1, <3>2, <3>3, CreditMore
    <3>5. depth \in Nat
      BY <1>0
    <3> QED
      BY <1>0, <2>3, <3>1, <3>4, <3>5, Parts, OneMore
  <2>9. NothingTakenAtEnd'
    BY <2>2, <2>4 DEF NothingTakenAtEnd
  <2> QED
    BY <1>4, <2>6, <2>7, <2>8, <2>9 DEF QueueInv
<1> QED
  BY <1>0, <1>5, <1>6

LEMMA WaitChecksQueue ==
  ASSUME TypeOK, QueueInv, WaitChecks
  PROVE  QueueInv'
<1>0. /\ StackType /\ depth \in 1..MaxDepth /\ frame[depth] \in Frame
      /\ depth > 0 /\ Top.pc = "exited" /\ Top.pc \in LoopPc /\ Top.pc \notin DrainPc
      /\ state' = state /\ waiting' = waiting /\ nested' = nested
  BY Parts DEF WaitChecks, At, StackType, LoopPc, DrainPc
<1>1. "Finished" \notin state' /\ state' \cap ActiveFlag # {}
  BY <1>0, Parts, LoopActive
<1>2. process_tasks = <<>> /\ process_tasks' = <<>>
  BY <1>0, Parts, NoBatch DEF WaitChecks, queueVars
<1>3. depth > 1 /\ NestedFrame(frame[depth]) /\ Top.waiter \in Waiter /\ Top.waiter # None
  BY <1>0, Parts DEF Shape, OuterFrame, OuterPc, NestedFrame, CalleeFrame, CalleePc, Top
<1>4. NothingTakenAtEnd' /\ Fifo' /\ Batch'
  BY <1>2, Parts, EmptyBatch DEF WaitChecks, queueVars, history, NothingTakenAtEnd, Fifo
<1>5. CASE /\ waiting[Top.waiter] /\ depth' = depth
           /\ frame' = [frame EXCEPT ![depth].pc = "entry", ![depth].q = @ + 1]
  <2> DEFINE f == [frame[depth] EXCEPT !.pc = "entry", !.q = frame[depth].q + 1]
  <2>1. /\ f.pc = "entry" /\ f.waiter = frame[depth].waiter /\ f.q = frame[depth].q + 1
    BY <1>0 DEF Frame
  <2>2. frame'[depth] = f /\ (\A i \in 1..depth - 1 : frame'[i] = frame[i]) /\ depth' = depth
    BY <1>0, <1>5 DEF StackType
  <2>3. waiting[Top.waiter]
    BY <1>5
  <2> HIDE DEF f
  <2>4. NestedFrame(frame'[depth])
    BY <1>3, <2>1, <2>2 DEF NestedFrame, NestedPc, Top
  <2>5. Shape' /\ Lifecycle' /\ WaiterFrames'
    BY <1>0, <1>1, <1>3, <2>1, <2>2, <2>3, <2>4, NestedGoto DEF Top
  <2>6. Credits' = Credits
    <3>1. Credit(depth) = frame[depth].q + 1 /\ Credit(depth)' = frame[depth].q + 1
      BY <1>0, <1>3, <2>1, <2>2, <2>3 DEF Credit, Top
    <3>2. \A i \in 1..depth : Credit(i)' = Credit(i)
      BY <1>0, <2>2, <3>1 DEF Credit
    <3> QED
      BY <1>0, <2>2, <3>2, SameCredits
  <2> QED
    BY <1>0, <1>4, <2>5, <2>6, Parts DEF QueueInv, NestedBound
<1>6. CASE ~waiting[Top.waiter] /\ Top.q > 0 /\ Goto("quits")
  <2>1. /\ depth' = depth /\ frame'[depth].pc = "quits"
        /\ frame'[depth].nested = frame[depth].nested
        /\ frame'[depth].waiter = frame[depth].waiter
        /\ frame'[depth].q = frame[depth].q
        /\ \A i \in 1..depth - 1 : frame'[i] = frame[i]
    BY <1>0, <1>6, GotoEffect
  <2>2. NestedFrame(frame'[depth])
    BY <1>0, <1>3, <2>1 DEF NestedFrame, NestedPc, Top
  <2>3. Shape' /\ Lifecycle' /\ WaiterFrames'
    BY <1>0, <1>1, <1>3, <1>6, <2>1, <2>2, NestedGoto DEF Top
  <2>4. \A i \in 1..depth : Credit(i)' = Credit(i)
    BY <1>0, <1>6, <2>1 DEF Credit, Top
  <2> QED
    BY <1>0, <1>4, <2>1, <2>3, <2>4, SameCredits, Parts DEF QueueInv, NestedBound
<1>7. CASE ~waiting[Top.waiter] /\ Top.q = 0 /\ Pop
  <2>1. depth' = depth - 1 /\ \A i \in 1..depth - 1 : frame'[i] = frame[i]
    BY <1>0, <1>7, PopEffect
  <2>2. Shape'
    BY <1>0, <2>1, Parts, PopShape
  <2>3. Lifecycle'
    <3>1. frame[1].pc \notin {"spawn", "entry", "final", "ended"}
      BY <1>0, Parts, LoopActive
    <3> QED
      BY <1>0, <1>1, <1>3, <2>1, <3>1, ActiveLifecycle
  <2>4. WaiterFrames' /\ NestedBound'
    <3>1. Credit(depth) = 0
      BY <1>0, <1>7 DEF Credit, Top
    <3> QED
      BY <1>0, <1>7, <2>1, <3>1, Parts, PopWaiters DEF Top
  <2> QED
    BY <1>4, <2>2, <2>3, <2>4 DEF QueueInv
<1> QED
  BY <1>5, <1>6, <1>7 DEF WaitChecks

\* A frame that counts one is popped.
LEMMA PopCredit ==
  ASSUME StackType, depth > 0, depth' = depth - 1, Credit(depth) = 1,
         \A i \in 1..depth - 1 : Credit(i)' = Credit(i)
  PROVE  <<depth, 0>> \in Credits /\ Credits' = Credits \ {<<depth, 0>>}
<1>0. depth \in 1..depth /\ \A i \in 1..depth : i = depth \/ i \in 1..depth'
  BY DEF StackType
<1>1. <<depth, 0>> \in Credits
  BY <1>0 DEF Credits
<1>2. ASSUME NEW x \in Credits' PROVE x \in Credits \ {<<depth, 0>>}
  <2>1. PICK j \in 1..depth' : x \in {j} \X (0..Credit(j)' - 1)
    BY <1>2 DEF Credits
  <2>2. j \in 1..depth /\ j # depth
    BY <2>1 DEF StackType
  <2> QED
    BY <2>1, <2>2 DEF Credits
<1>3. ASSUME NEW x \in Credits \ {<<depth, 0>>} PROVE x \in Credits'
  <2>1. PICK j \in 1..depth : x \in {j} \X (0..Credit(j) - 1)
    BY <1>3 DEF Credits
  <2>2. j # depth
    BY <1>3, <2>1
  <2> QED
    BY <1>0, <2>1, <2>2 DEF Credits
<1> QED
  BY <1>1, <1>2, <1>3

LEMMA WaitQuitsQueue ==
  ASSUME TypeOK, QueueInv, WaitQuits
  PROVE  QueueInv'
<1>0. /\ StackType /\ depth \in 1..MaxDepth /\ frame[depth] \in Frame
      /\ depth > 0 /\ Top.pc = "quits" /\ Top.pc \in LoopPc /\ Top.pc \notin DrainPc
      /\ waiting' = waiting /\ frame[depth].q \in Nat
  BY Parts DEF WaitQuits, At, StackType, LoopPc, DrainPc, Frame
<1>1. "Finished" \notin state /\ state \cap ActiveFlag # {}
  BY <1>0, Parts, LoopActive
<1>2. /\ nested' = IF nested > 0 THEN nested - 1 ELSE nested
      /\ "Finished" \notin state' /\ state' \cap ActiveFlag # {}
  BY <1>1 DEF WaitQuits, QuitIfRunning, QuitThread, ActiveFlag
<1>3. process_tasks = <<>> /\ process_tasks' = <<>>
  BY <1>0, Parts, NoBatch DEF WaitQuits, queueVars
<1>4. /\ depth > 1 /\ NestedFrame(frame[depth]) /\ Top.waiter \in Waiter /\ Top.waiter # None
      /\ ~waiting[Top.waiter] /\ frame[depth].q > 0
  BY <1>0, Parts DEF Shape, OuterFrame, OuterPc, NestedFrame, CalleeFrame, CalleePc, WaiterFrames, Top
<1>5. Credit(depth) = frame[depth].q
  BY <1>0, <1>4 DEF Credit, Top
<1>6. NothingTakenAtEnd' /\ Fifo' /\ Batch'
  BY <1>2, <1>3, Parts, EmptyBatch DEF WaitQuits, queueVars, history, NothingTakenAtEnd, Fifo
<1>7. CASE frame[depth].q > 1 /\ depth' = depth /\ frame' = [frame EXCEPT ![depth].q = @ - 1]
  <2> DEFINE k == frame[depth].q - 1
             f == [frame[depth] EXCEPT !.q = k]
  <2>1. /\ f.pc = "quits" /\ f.waiter = frame[depth].waiter /\ f.q = k
        /\ f.nested = frame[depth].nested
    BY <1>0 DEF Frame, Top
  <2>2. frame'[depth] = f /\ (\A i \in 1..depth - 1 : frame'[i] = frame[i]) /\ depth' = depth
    BY <1>0, <1>7 DEF StackType
  <2>3. k \in Nat /\ frame[depth].q = k + 1 /\ k > 0
    BY <1>0, <1>7
  <2> HIDE DEF f, k
  <2>4. NestedFrame(frame'[depth])
    BY <1>0, <1>4, <2>1, <2>2 DEF NestedFrame, NestedPc, Top
  <2>5. Shape' /\ Lifecycle' /\ WaiterFrames'
    BY <1>0, <1>2, <1>4, <2>1, <2>2, <2>3, <2>4, NestedGoto DEF Top
  <2>6. NestedBound'
    <3>1. Credit(depth) = k + 1 /\ Credit(depth)' = k
      BY <1>0, <1>4, <1>5, <2>1, <2>2, <2>3 DEF Credit, Top
    <3>2. \A j \in 1..depth : j # depth => Credit(j)' = Credit(j)
      BY <1>0, <2>2 DEF Credit
    <3>3. <<depth, k>> \in Credits /\ Credits' = Credits \ {<<depth, k>>}
      BY <1>0, <2>2, <2>3, <3>1, <3>2, CreditLess
    <3> QED
      BY <1>2, <3>3, Parts, OneLess DEF QueueType
  <2> QED
    BY <1>6, <2>5, <2>6 DEF QueueInv
<1>8. CASE frame[depth].q = 1 /\ Pop
  <2>1. depth' = depth - 1 /\ \A i \in 1..depth - 1 : frame'[i] = frame[i]
    BY <1>0, <1>8, PopEffect
  <2>2. Shape'
    BY <1>0, <2>1, Parts, PopShape
  <2>3. Lifecycle'
    <3>1. frame[1].pc \notin {"spawn", "entry", "final", "ended"}
      BY <1>0, Parts, LoopActive
    <3> QED
      BY <1>0, <1>2, <1>4, <2>1, <3>1, ActiveLifecycle
  <2>4. WaiterFrames'
    <3>1. \A v \in Waiter : waiting[v] => v # Top.waiter
      BY <1>4
    <3>2. \A i \in 1..depth : i \in 1..depth' \/ i = depth
      BY <1>0, <2>1
    <3>3. \A i \in 1..depth' : i \in 1..depth /\ frame'[i] = frame[i]
      BY <1>0, <2>1
    <3> QED
      BY <1>0, <3>1, <3>2, <3>3, Parts DEF WaiterFrames, Top
  <2>5. NestedBound'
    <3>1. \A i \in 1..depth - 1 : Credit(i)' = Credit(i)
      BY <1>0, <2>1 DEF Credit
    <3>2. <<depth, 0>> \in Credits /\ Credits' = Credits \ {<<depth, 0>>}
      BY <1>0, <1>5, <1>8, <2>1, <3>1, PopCredit
    <3> QED
      BY <1>2, <3>2, Parts, OneLess DEF QueueType
  <2> QED
    BY <1>6, <2>2, <2>3, <2>4, <2>5 DEF QueueInv
<1> QED
  BY <1>0, <1>4, <1>7, <1>8 DEF WaitQuits, Top

-----------------------------------------------------------------------------
LEMMA QueueInit == Init => QueueInv
<1> SUFFICES ASSUME Init PROVE QueueInv
  OBVIOUS
<1>1. /\ depth = 0 /\ state = {} /\ nested = 0 /\ tasks = <<>> /\ process_tasks = <<>>
      /\ ran = <<>> /\ accepted = <<>> /\ waiting = [w \in Waiter |-> FALSE]
  BY DEF Init
<1>2. Shape /\ Lifecycle /\ Batch /\ WaiterFrames /\ NothingTakenAtEnd
  BY <1>1 DEF Shape, BelowTop, Lifecycle, Batch, WaiterFrames, NothingTakenAtEnd
<1>3. Credits = {}
  BY <1>1 DEF Credits
<1>4. NestedBound
  BY <1>1, <1>3, FS_EmptySet DEF NestedBound
<1>5. Fifo
  BY <1>1, ConcatEmptySeq DEF Fifo
<1> QED
  BY <1>2, <1>4, <1>5 DEF QueueInv

LEMMA QueueStep == RegularUse /\ TypeOK /\ QueueInv /\ [Next]_vars => QueueInv'
<1> SUFFICES ASSUME RegularUse, TypeOK, QueueInv, [Next]_vars PROVE QueueInv'
  OBVIOUS
<1>1. CASE LoopStep
  BY <1>1, ThreadBeginsQueue, ExecBeginsQueue, LoopBeginsQueue, RunTaskQueue, RunCallbackQueue,
     BodyReturnsQueue, SelfInvokeSwapQueue, SelfInvokeFunctionQueue, LoopContinuesQueue,
     OverloadDoneQueue, CvWakesQueue, EpollWakesQueue, CallbacksDoneQueue, ExecEndsQueue,
     LastTasksQueue, ExecReturnsQueue, ThreadEndsQueue, WaitChecksQueue, WaitQuitsQueue,
     InvokeDeleteQueue DEF LoopStep
<1>2. CASE SleepEnds
  BY <1>2, CvTimesOutQueue, EpollTimesOutQueue, EpollReportsQueue DEF SleepEnds
<1>3. ASSUME NEW c \in Client, ClientStep(c) PROVE QueueInv'
  BY <1>3, SyncInvokeReturnQueue, StartReturnQueue, InvokeDeleteQueue, WaitInterruptedWakesQueue,
     WaitFinishedWakesQueue DEF ClientStep
<1>4. CASE CallStep
  BY <1>4, InvokeQueue, RemovePollQueue, RequestInterruptQueue, QuitQueue, AppendPollQueue,
     SyncInvokeQueue, StartQueue, WaitInterruptedQueue, WaitFinishedQueue, DestroyQueue,
     WaitQueue, CompleteQueue, SelfInvokeQueue DEF CallStep
<1>5. ASSUME NEW p \in Client \cup {Loop}, SpuriousWakeup(p) PROVE QueueInv'
  BY <1>5, SpuriousWakeupQueue
<1>6. CASE UNCHANGED vars
  <2>1. SameFrames
    BY <1>6 DEF vars, stackVars, SameFrames, SameFrame
  <2> QED
    BY <1>6, <2>1, QuietQueue DEF vars, queueVars, history
<1> QED
  BY <1>1, <1>2, <1>3, <1>4, <1>5, <1>6 DEF Next, Gone

(***************************************************************************)
(* The invariant, for a thread that nobody stops before exec() has begun    *)
(* and whose final drain does not wait.                                     *)
(***************************************************************************)
THEOREM QueueCorrect == ASSUME RegularUse PROVE Spec => [](TypeOK /\ QueueInv)
<1>1. Init => TypeOK /\ QueueInv
  BY InitTypes, QueueInit
<1>2. TypeOK /\ QueueInv /\ [Next]_vars => TypeOK' /\ QueueInv'
  BY NextTypes, QueueStep
<1> QED
  BY <1>1, <1>2, PTL DEF Spec

(***************************************************************************)
(* Tasks run in the order they were accepted, each exactly once             *)
(* (invokeTask(), process_tasks() and every swap of the two queues), for    *)
(* any number of tasks, clients, waiters and nested executions.             *)
(***************************************************************************)
THEOREM TasksRunInOrder == ASSUME RegularUse PROVE Spec => []Fifo
<1>1. QueueInv => Fifo
  BY DEF QueueInv
<1> QED
  BY <1>1, QueueCorrect, PTL

(***************************************************************************)
(* Every task accepted has been run by the time waitFinished() may return.  *)
(***************************************************************************)
THEOREM FinishedDrained == ASSUME RegularUse PROVE Spec => []FinishedIsDrained
<1>1. TypeOK /\ QueueInv => FinishedIsDrained
  <2> SUFFICES ASSUME TypeOK, QueueInv, state = {"Finished"} PROVE tasks = <<>> /\ process_tasks = <<>>
    BY DEF FinishedIsDrained
  <2>1. tasks = <<>> /\ depth = 0
    BY Parts DEF NothingTakenAtEnd, Lifecycle, StackType
  <2> QED
    BY <2>1, Parts, NoBatch
<1> QED
  BY <1>1, QueueCorrect, PTL

(***************************************************************************)
(* The outermost exec() is never taken for a nested one, so startedEvent(), *)
(* finishedEvent() and the last drain are never left out.                   *)
(***************************************************************************)
THEOREM OutermostAnnounced == ASSUME RegularUse PROVE Spec => []OutermostIsAnnounced
<1>1. QueueInv => OutermostIsAnnounced
  BY DEF QueueInv, Shape, OuterFrame, OutermostIsAnnounced
<1> QED
  BY <1>1, QueueCorrect, PTL

-----------------------------------------------------------------------------
(***************************************************************************)
(* A thread that reports itself interrupted has nothing queued: it says so  *)
(* with the queue just found empty, and is Running again with the next task.*)
(***************************************************************************)
LEMMA DrainKept ==
  ASSUME InterruptedIsDrained, state' = {"Interrupted"} => state' = state,
         \/ tasks' = tasks /\ process_tasks' = process_tasks
         \/ tasks' = process_tasks /\ process_tasks' = tasks
  PROVE  InterruptedIsDrained'
BY DEF InterruptedIsDrained

LEMMA InvokeTaskDrain ==
  ASSUME InterruptedIsDrained, NEW t, InvokeTask(t)
  PROVE  state' # {"Interrupted"}
BY DEF InvokeTask

\* The acknowledgement of the request, with the two queues empty.
LEMMA IdleDrain ==
  ASSUME InterruptedIsDrained, tasks = <<>>, process_tasks = <<>>, UNCHANGED queueVars
  PROVE  InterruptedIsDrained'
BY DEF InterruptedIsDrained, queueVars

LEMMA ContinueDrain ==
  ASSUME InterruptedIsDrained, process_tasks = <<>>, NEW w, Continue(w)
  PROVE  InterruptedIsDrained'
<1>1. CASE tasks # <<>>
  BY <1>1, DrainKept DEF Continue, Swap
<1>2. CASE tasks = <<>>
  BY <1>2, IdleDrain DEF Continue
<1> QED
  BY <1>1, <1>2

\* Steps of the managed thread.
LEMMA LoopStepDrain ==
  ASSUME Waiter = {}, TypeOK, QueueInv, WakeInv, InterruptedIsDrained, LoopStep
  PROVE  InterruptedIsDrained'
<1>0. StackType /\ Shape /\ Batch /\ NoOverload
  BY Parts DEF WakeInv
<1>1. CASE ThreadBegins \/ RunCallback \/ BodyReturns \/ SelfInvokeFunction \/ ExecReturns \/ WaitChecks
  BY <1>1, DrainKept
     DEF ThreadBegins, RunCallback, BodyReturns, SelfInvokeFunction, ExecReturns, WaitChecks, queueVars
<1>2. CASE ExecBegins
  <2>1. state' = {"Interrupted"} => state' = state
    BY <1>2 DEF ExecBegins
  <2>2. \/ tasks' = tasks /\ process_tasks' = process_tasks
        \/ tasks' = process_tasks /\ process_tasks' = tasks
    BY <1>2 DEF ExecBegins, Swap, queueVars
  <2> QED
    BY <2>1, <2>2, DrainKept
<1>3. CASE LoopBegins \/ SelfInvokeSwap
  BY <1>3, DrainKept DEF LoopBegins, SelfInvokeSwap, Swap
<1>4. CASE RunTask
  BY <1>4 DEF RunTask, InterruptedIsDrained
<1>5. CASE LoopContinues
  BY <1>5, ContinueDrain DEF LoopContinues
<1>6. CASE OverloadDone
  BY <1>0, <1>6 DEF OverloadDone, At, Top, NoOverload, StackType
<1>7. CASE CvWakes \/ EpollWakes \/ CallbacksDone
  <2>1. process_tasks = <<>>
    BY <1>0, <1>7, PassPcs, NoBatch DEF CvWakes, EpollWakes, CallbacksDone, At
  <2> QED
    BY <1>7, <2>1, ContinueDrain DEF CvWakes, EpollWakes, CallbacksDone
<1>8. CASE ExecEnds
  <2>1. Top.nested = 0
    <3>1. depth > 0 /\ Top.pc = "exit"
      BY <1>8 DEF ExecEnds, At
    <3>2. ~NestedFrame(Top) /\ ~CalleeFrame(Top)
      BY <3>1 DEF NestedFrame, CalleeFrame, CalleePc
    <3>3. depth = 1
      BY <1>0, <3>1, <3>2 DEF Shape, StackType, Top
    <3> QED
      BY <1>0, <3>3 DEF Shape, OuterFrame, Top
  <2> QED
    BY <1>8, <2>1, DrainKept DEF ExecEnds, queueVars
<1>9. CASE LastTasks \/ ThreadEnds
  BY <1>9 DEF LastTasks, ThreadEnds, InterruptedIsDrained
<1>10. CASE WaitQuits
  <2>1. state' = {"Interrupted"} => state' = state
    BY <1>10 DEF WaitQuits, QuitIfRunning, QuitThread
  <2> QED
    BY <1>10, <2>1, DrainKept DEF WaitQuits, queueVars
<1>11. CASE InvokeDelete(Loop)
  BY <1>11, InvokeTaskDrain DEF InvokeDelete, InterruptedIsDrained
<1> QED
  BY <1>1, <1>2, <1>3, <1>4, <1>5, <1>6, <1>7, <1>8, <1>9, <1>10, <1>11 DEF LoopStep

\* Calls of the users and what follows from them.
LEMMA CallDrain ==
  ASSUME InterruptedIsDrained, NEW p, NEW t, NEW w,
         \/ Invoke(p, t) \/ RemovePoll(p, t) \/ RequestInterrupt(p) \/ Quit(p) \/ AppendPoll(p)
         \/ SyncInvoke(p, t) \/ Start(p) \/ WaitInterrupted(p) \/ WaitFinished(p) \/ Destroy(p)
         \/ Wait(w) \/ Complete(w) \/ SelfInvoke \/ SpuriousWakeup(p)
         \/ SyncInvokeReturn(p) \/ StartReturn(p) \/ InvokeDelete(p)
         \/ WaitInterruptedWakes(p) \/ WaitFinishedWakes(p)
  PROVE  InterruptedIsDrained'
<1>1. CASE Invoke(p, t) \/ SyncInvoke(p, t) \/ InvokeDelete(p)
  BY <1>1, InvokeTaskDrain DEF Invoke, SyncInvoke, InvokeDelete, InterruptedIsDrained
<1>2. CASE \/ RemovePoll(p, t) \/ AppendPoll(p) \/ WaitInterrupted(p) \/ WaitFinished(p)
           \/ SelfInvoke \/ SpuriousWakeup(p) \/ SyncInvokeReturn(p) \/ StartReturn(p)
           \/ WaitInterruptedWakes(p) \/ WaitFinishedWakes(p)
  BY <1>2, DrainKept
     DEF RemovePoll, AppendPoll, WaitInterrupted, WaitFinished, SelfInvoke, SpuriousWakeup,
         SyncInvokeReturn, StartReturn, WaitInterruptedWakes, WaitFinishedWakes, queueVars
<1>3. CASE RequestInterrupt(p) \/ Quit(p) \/ Start(p)
  <2>1. state' # {"Interrupted"}
    <3>1. CASE RequestInterrupt(p)
      BY <3>1 DEF RequestInterrupt
    <3>2. CASE Quit(p)
      <4>1. QuitThread
        BY <3>2 DEF Quit
      <4> QED
        BY <4>1 DEF QuitThread
    <3>3. CASE Start(p)
      BY <3>3 DEF Start
    <3> QED
      BY <1>3, <3>1, <3>2, <3>3
  <2> QED
    BY <2>1 DEF InterruptedIsDrained
<1>4. CASE Complete(w)
  <2>1. state' = {"Interrupted"} => state' = state
    BY <1>4 DEF Complete, QuitIfRunning, QuitThread
  <2> QED
    BY <1>4, <2>1, DrainKept DEF Complete, queueVars
<1>5. CASE Destroy(p)
  BY <1>5 DEF Destroy, InterruptedIsDrained
<1>6. CASE Wait(w)
  BY <1>6, DrainKept DEF Wait, queueVars
<1> QED
  BY <1>1, <1>2, <1>3, <1>4, <1>5, <1>6

LEMMA DrainStep ==
  ASSUME Waiter = {}, TypeOK, QueueInv, WakeInv, InterruptedIsDrained, [Next]_vars
  PROVE  InterruptedIsDrained'
<1>1. CASE LoopStep
  BY <1>1, LoopStepDrain
<1>2. CASE SleepEnds
  <2>0. Batch /\ StackType
    BY Parts
  <2>1. process_tasks = <<>>
    BY <1>2, <2>0, PassPcs, NoBatch DEF SleepEnds, CvTimesOut, EpollTimesOut, EpollReports, At
  <2>2. CASE CvTimesOut \/ EpollTimesOut
    BY <2>1, <2>2, ContinueDrain, DrainKept DEF CvTimesOut, EpollTimesOut, queueVars
  <2>3. CASE EpollReports
    BY <2>3, DrainKept DEF EpollReports, queueVars
  <2> QED
    BY <1>2, <2>2, <2>3 DEF SleepEnds
<1>3. ASSUME NEW c \in Client, ClientStep(c) PROVE InterruptedIsDrained'
  BY <1>3, CallDrain DEF ClientStep
<1>4. CASE CallStep
  BY <1>4, CallDrain DEF CallStep
<1>5. ASSUME NEW p \in Client \cup {Loop}, SpuriousWakeup(p) PROVE InterruptedIsDrained'
  BY <1>5, CallDrain
<1>6. CASE UNCHANGED vars
  BY <1>6, DrainKept DEF vars, queueVars
<1> QED
  BY <1>1, <1>2, <1>3, <1>4, <1>5, <1>6 DEF Next, Gone

(***************************************************************************)
(* When waitInterrupted() may return, all queue tasks have completed: for   *)
(* a thread nobody waits in with a Waiter, while its queue stays within     *)
(* QUEUE_TASKS_OVERLOAD_SIZE, and for any number of tasks and clients       *)
(* (requestInterrupt(), invokeTask(), the critical section of exec()).      *)
(***************************************************************************)
THEOREM InterruptedDrained ==
  ASSUME RegularUse, Waiter = {}
  PROVE  Spec /\ []WithinLimit => []InterruptedIsDrained
<1>1. Init => InterruptedIsDrained /\ WakeInv
  BY WakeInit DEF Init, InterruptedIsDrained
<1>2. /\ TypeOK /\ QueueInv /\ WakeInv /\ InterruptedIsDrained /\ [Next]_vars => InterruptedIsDrained'
      /\ TypeOK /\ WakeInv /\ WithinLimit /\ [Next]_vars => WakeInv'
  BY DrainStep, WakeStep
<1> QED
  BY <1>1, <1>2, QueueCorrect, PTL DEF Spec

-----------------------------------------------------------------------------
(***************************************************************************)
(* A nested exec() sleeps only while its wait is not complete: complete()   *)
(* tells it to leave, and with a single waiter nothing takes that back.     *)
(***************************************************************************)
KeepsTold == "WaitFinished" \in state => "WaitFinished" \in state'

LEMMA ToldKept ==
  ASSUME ToldInv, KeepsTold, \A i \in 1..depth' : CompleteAt(i)' => i \in 1..depth /\ CompleteAt(i)
  PROVE  ToldInv'
BY DEF ToldInv, KeepsTold

LEMMA ToldSame ==
  ASSUME ToldInv, KeepsTold, SameFrames, waiting' = waiting
  PROVE  ToldInv'
BY ToldKept DEF SameFrames, SameFrame, CompleteAt

LEMMA ToldGoto ==
  ASSUME StackType, ToldInv, KeepsTold, depth > 0, NEW pc, Goto(pc), waiting' = waiting,
         Top.waiter = None \/ Top.pc \in NestedLoopPc \/ pc \notin NestedLoopPc
  PROVE  ToldInv'
<1>1. \A i \in 1..depth : i = depth \/ i \in 1..MaxDepth \ {depth}
  BY DEF StackType
<1> QED
  BY <1>1, GotoEffect, ToldKept DEF CompleteAt, Top

LEMMA ToldPush ==
  ASSUME StackType, ToldInv, KeepsTold, depth' = depth + 1, \A i \in 1..depth : SameFrame(i),
         frame'[depth + 1].waiter = None, waiting' = waiting
  PROVE  ToldInv'
<1>1. \A i \in 1..depth' : i = depth + 1 \/ i \in 1..depth
  BY DEF StackType
<1> QED
  BY <1>1, ToldKept DEF SameFrame, CompleteAt

LEMMA ToldPop ==
  ASSUME StackType, ToldInv, depth > 0, Pop, waiting' = waiting, depth > 1 => KeepsTold
  PROVE  ToldInv'
<1>1. \A i \in 1..depth' : depth > 1 /\ i \in 1..depth - 1 /\ i \in 1..depth
  BY PopEffect DEF StackType
<1> QED
  BY <1>1, PopEffect DEF ToldInv, KeepsTold, CompleteAt

\* The frame of the only waiter, when it is at the top of the stack.
LEMMA ToldTop ==
  ASSUME OneWaiter, StackType, WaiterFrames, depth > 0, Top.waiter # None, depth' = depth,
         \A i \in 1..depth - 1 : frame'[i] = frame[i], ~CompleteAt(depth)'
  PROVE  ToldInv'
<1>1. depth \in 1..depth /\ \A i \in 1..depth : i = depth \/ i \in 1..depth - 1
  BY DEF StackType
<1>2. \A i \in 1..depth : frame[i].waiter \in Waiter \cup {None}
  BY DEF StackType, Frame
<1>3. \A i \in 1..depth - 1 : frame[i].waiter = None
  BY <1>1, <1>2 DEF OneWaiter, WaiterFrames, Top
<1> QED
  BY <1>1, <1>3 DEF ToldInv, CompleteAt

LEMMA ContinueTold ==
  ASSUME StackType, ToldInv, depth > 0, Top.waiter = None \/ Top.pc \in NestedLoopPc,
         waiting' = waiting, NEW w, Continue(w) \/ Idle(w)
  PROVE  ToldInv'
<1>1. KeepsTold
  BY DEF Continue, Idle, KeepsTold
<1>2. \E pc : Goto(pc)
  BY DEF Continue, Idle
<1> QED
  BY <1>1, <1>2, ToldGoto

LEMMA WaitQuitsTold ==
  ASSUME OneWaiter, TypeOK, QueueInv, ToldInv, WaitQuits
  PROVE  ToldInv'
<1>0. /\ StackType /\ WaiterFrames /\ depth \in 1..MaxDepth /\ frame[depth] \in Frame
      /\ waiting' = waiting /\ Top.pc = "quits"
  BY Parts DEF WaitQuits, At, Top, StackType
<1>1. KeepsTold
  BY DEF WaitQuits, QuitIfRunning, QuitThread, KeepsTold
<1>2. CASE Top.q > 1
  <2> DEFINE f == [frame[depth] EXCEPT !.q = frame[depth].q - 1]
  <2>1. f.pc = "quits" /\ f.waiter = frame[depth].waiter
    BY <1>0 DEF Frame, Top
  <2>2. frame' = [frame EXCEPT ![depth] = f] /\ depth' = depth
    BY <1>2 DEF WaitQuits
  <2> HIDE DEF f
  <2>3. frame'[depth] = f /\ \A i \in 1..depth : i # depth => frame'[i] = frame[i]
    BY <1>0, <2>2 DEF StackType
  <2> QED
    BY <1>0, <1>1, <2>1, <2>2, <2>3, ToldKept DEF CompleteAt, NestedLoopPc
<1>3. CASE ~(Top.q > 1)
  BY <1>0, <1>1, <1>3, ToldPop DEF WaitQuits
<1> QED
  BY <1>2, <1>3

LEMMA WaitChecksTold ==
  ASSUME OneWaiter, TypeOK, QueueInv, ToldInv, WaitChecks
  PROVE  ToldInv'
<1>0. /\ StackType /\ depth \in 1..MaxDepth /\ frame[depth] \in Frame
      /\ waiting' = waiting /\ KeepsTold
  BY Parts DEF WaitChecks, At, StackType, KeepsTold
<1>1. CASE waiting[Top.waiter] /\ frame' = [frame EXCEPT ![depth].pc = "entry", ![depth].q = @ + 1]
                               /\ UNCHANGED depth
  <2> DEFINE f == [frame[depth] EXCEPT !.pc = "entry", !.q = frame[depth].q + 1]
  <2>1. f.pc = "entry"
    BY <1>0 DEF Frame
  <2>2. frame' = [frame EXCEPT ![depth] = f]
    BY <1>0, <1>1 DEF StackType
  <2> HIDE DEF f
  <2>3. frame'[depth] = f /\ \A i \in 1..depth : i # depth => frame'[i] = frame[i]
    BY <1>0, <2>2 DEF StackType
  <2> QED
    BY <1>0, <1>1, <2>1, <2>3, ToldKept DEF CompleteAt, NestedLoopPc
<1>2. CASE Goto("quits")
  BY <1>0, <1>2, ToldGoto DEF NestedLoopPc
<1>3. CASE Pop
  BY <1>0, <1>3, ToldPop
<1> QED
  BY <1>1, <1>2, <1>3 DEF WaitChecks

LEMMA ExecBeginsTold ==
  ASSUME OneWaiter, TypeOK, QueueInv, ToldInv, ExecBegins
  PROVE  ToldInv'
<1>0. /\ StackType /\ WaiterFrames /\ depth \in 1..MaxDepth /\ frame[depth] \in Frame
      /\ depth' = depth /\ waiting' = waiting /\ Top.pc = "entry"
  BY Parts DEF ExecBegins, At, StackType
<1>1. PICK pc, n : frame' = [frame EXCEPT ![depth].pc = pc, ![depth].nested = n]
  BY DEF ExecBegins
<1> DEFINE f == [frame[depth] EXCEPT !.pc = pc, !.nested = n]
<1>2. f.waiter = frame[depth].waiter
  BY <1>0 DEF Frame
<1>3. frame'[depth] = f /\ \A i \in 1..depth - 1 : frame'[i] = frame[i]
  BY <1>0, <1>1 DEF StackType
<1> HIDE DEF f
<1>4. CASE Top.waiter # None
  <2>1. waiting[frame[depth].waiter]
    BY <1>0, <1>4 DEF WaiterFrames, Top
  <2>2. ~CompleteAt(depth)'
    BY <1>0, <1>2, <1>3, <2>1 DEF CompleteAt
  <2> QED
    BY <1>0, <1>3, <1>4, <2>2, ToldTop
<1>5. CASE Top.waiter = None
  <2>1. depth = 1
    BY <1>0, <1>5, Parts DEF Shape, NestedFrame, CalleeFrame, CalleePc, Top
  <2> QED
    BY <1>0, <1>2, <1>3, <1>5, <2>1 DEF ToldInv, CompleteAt, Top
<1> QED
  BY <1>4, <1>5

LEMMA CompleteTold ==
  ASSUME TypeOK, QueueInv, NEW w \in Waiter, Complete(w)
  PROVE  ToldInv'
<1>0. /\ StackType /\ depth \in 1..MaxDepth /\ Top.pc \in BodyPc /\ SameFrames /\ waiting[w]
  BY Parts, CallerTypes, SpendEffect DEF Complete, Callers, InCallback, StackType, UserType
<1>1. PICK i \in 1..depth : frame[i].waiter = w
  BY <1>0, Parts DEF WaiterFrames
<1>2. i > 1 /\ frame[i].pc \notin CalleePc
  BY <1>0, <1>1, Parts DEF Shape, OuterFrame, NestedFrame, CalleeFrame, NestedPc, CalleePc, StackType
<1>3. state # {} /\ "Finished" \notin state
  <2>1. "Finished" \notin state
    BY <1>0, <1>1, <1>2, Parts DEF Lifecycle
  <2> QED
    BY <1>0, <2>1, Parts DEF Lifecycle
<1> QED
  BY <1>3 DEF Complete, QuitIfRunning, QuitThread, ToldInv

LEMMA WaitTold ==
  ASSUME TypeOK, QueueInv, ToldInv, NEW w \in Waiter, Wait(w)
  PROVE  ToldInv'
<1>0. /\ StackType /\ depth \in 1..MaxDepth /\ depth' = depth + 1 /\ depth + 1 <= MaxDepth
      /\ waiting \in [Waiter -> BOOLEAN] /\ waiting' = [waiting EXCEPT ![w] = TRUE] /\ KeepsTold
      /\ \A i \in 1..depth : frame[i].waiter # w /\ frame[i].waiter \in Waiter \cup {None}
  BY Parts DEF Wait, Callers, InCallback, StackType, UserType, KeepsTold, Frame
<1> DEFINE g == [NewFrame("entry") EXCEPT !.waiter = w]
<1>a. frame' = [frame EXCEPT ![depth].calls = @ + 1, ![depth + 1] = g]
  BY DEF Wait
<1>b. g.pc = "entry" /\ depth > 0
  BY <1>0 DEF NewFrame
<1> HIDE DEF g
<1>1. frame'[depth + 1] = g /\ \A i \in 1..depth : SameFrame(i)
  BY <1>0, <1>a, <1>b, CallFrameEffect
<1>2. frame'[depth + 1].pc = "entry"
  BY <1>1, <1>b
<1>3. \A i \in 1..depth' : i = depth + 1 \/ i \in 1..depth
  BY <1>0
<1>4. \A v \in Waiter : v # w => waiting'[v] = waiting[v]
  BY <1>0
<1>5. ASSUME NEW i \in 1..depth, CompleteAt(i)' PROVE CompleteAt(i)
  BY <1>0, <1>1, <1>4, <1>5 DEF CompleteAt, SameFrame
<1>6. \A i \in 1..depth' : i = depth + 1 => ~CompleteAt(i)'
  BY <1>0, <1>2 DEF CompleteAt, NestedLoopPc
<1> QED
  BY <1>0, <1>3, <1>5, <1>6, ToldKept

LEMMA LoopStepTold ==
  ASSUME OneWaiter, TypeOK, QueueInv, ToldInv, LoopStep
  PROVE  ToldInv'
<1>0. StackType /\ Shape /\ WaiterFrames
  BY Parts
<1>1. CASE ThreadBegins \/ LastTasks \/ ExecReturns
  <2>1. depth = 1 /\ Top.waiter = None /\ waiting' = waiting /\ KeepsTold
    BY <1>0, <1>1, OuterAlone DEF ThreadBegins, LastTasks, ExecReturns, At, Top, KeepsTold
  <2>2. \E pc : Goto(pc)
    BY <1>1 DEF ThreadBegins, LastTasks, ExecReturns
  <2> QED
    BY <1>0, <2>1, <2>2, ToldGoto
<1>2. CASE LoopBegins
  BY <1>0, <1>2, ToldGoto DEF LoopBegins, At, NestedLoopPc, KeepsTold,
     Shape, OuterFrame, NestedFrame, CalleeFrame, NestedPc, OuterPc, Top, StackType
<1>3. CASE RunTask
  <2>1. [NewFrame("body") EXCEPT !.task = Head(process_tasks)].waiter = None
    BY DEF NewFrame
  <2> QED
    BY <1>0, <1>3, <2>1, PushEffect, ToldPush DEF RunTask, KeepsTold, SameFrame
<1>4. CASE RunCallback
  BY <1>0, <1>4, PushEffect, ToldPush DEF RunCallback, KeepsTold, SameFrame, NewFrame
<1>5. CASE BodyReturns
  BY <1>0, <1>5, ToldPop DEF BodyReturns, At, KeepsTold
<1>6. CASE SelfInvokeSwap \/ SelfInvokeFunction
  <2>1. depth > 0 /\ Top.waiter = None
    BY <1>0, <1>6 DEF SelfInvokeSwap, SelfInvokeFunction, At, Top, StackType, Shape, OuterFrame,
                      NestedFrame, CalleeFrame, NestedPc
  <2> QED
    BY <1>0, <1>6, <2>1, ToldGoto DEF SelfInvokeSwap, SelfInvokeFunction, KeepsTold
<1>7. CASE LoopContinues \/ OverloadDone \/ CvWakes \/ EpollWakes \/ CallbacksDone
  BY <1>0, <1>7, ContinueTold
     DEF LoopContinues, OverloadDone, CvWakes, EpollWakes, CallbacksDone, At, LoopUnchanged, NestedLoopPc
<1>8. CASE ExecEnds
  <2>0. depth \in 1..MaxDepth /\ waiting' = waiting /\ Top.pc = "exit"
    BY <1>0, <1>8 DEF ExecEnds, At, StackType
  <2>1. CASE Top.nested > 0
    <3>1. Top.waiter # None
      BY <1>0, <2>0, <2>1 DEF Shape, OuterFrame, NestedFrame, CalleeFrame, CalleePc, Top, StackType
    <3>2. Goto("exited")
      BY <1>8, <2>1, <3>1 DEF ExecEnds
    <3>3. depth' = depth /\ ~CompleteAt(depth)' /\ \A i \in 1..depth - 1 : frame'[i] = frame[i]
      BY <1>0, <2>0, <3>2, GotoEffect DEF CompleteAt, NestedLoopPc, StackType
    <3> QED
      BY <1>0, <2>0, <3>1, <3>3, ToldTop
  <2>2. CASE ~(Top.nested > 0)
    <3>1. Goto("finishing") /\ KeepsTold
      BY <1>8, <2>2 DEF ExecEnds, KeepsTold
    <3> QED
      BY <1>0, <2>0, <3>1, ToldGoto DEF NestedLoopPc
  <2> QED
    BY <2>1, <2>2
<1>9. CASE ThreadEnds
  BY <1>0, <1>9, OuterAlone, ToldPop DEF ThreadEnds, At
<1>10. CASE InvokeDelete(Loop)
  BY <1>0, <1>10, ToldSame DEF InvokeDelete, InvokeTask, stackVars, SameFrames, SameFrame, KeepsTold
<1> QED
  BY <1>1, <1>2, <1>3, <1>4, <1>5, <1>6, <1>7, <1>8, <1>9, <1>10, ExecBeginsTold, WaitChecksTold,
     WaitQuitsTold DEF LoopStep

LEMMA CallTold ==
  ASSUME TypeOK, QueueInv, ToldInv, NEW p \in Client \cup {Loop}, NEW t,
         \/ Invoke(p, t) \/ RemovePoll(p, t) \/ RequestInterrupt(p) \/ Quit(p) \/ AppendPoll(p)
         \/ SyncInvoke(p, t) \/ WaitInterrupted(p) \/ WaitFinished(p) \/ Destroy(p)
         \/ SpuriousWakeup(p) \/ SyncInvokeReturn(p) \/ StartReturn(p) \/ InvokeDelete(p)
         \/ WaitInterruptedWakes(p) \/ WaitFinishedWakes(p)
  PROVE  ToldInv'
<1>0. StackType
  BY Parts
<1>1. CASE Invoke(p, t) \/ RemovePoll(p, t) \/ RequestInterrupt(p) \/ Quit(p) \/ AppendPoll(p)
  <2>1. SameFrames /\ waiting' = waiting
    BY <1>0, <1>1, CallerTypes, SpendEffect DEF Invoke, RemovePoll, RequestInterrupt, Quit, AppendPoll
  <2>2. KeepsTold
    BY <1>1 DEF Invoke, InvokeTask, RemovePoll, RequestInterrupt, AtLeastWaitFinished, Quit,
                QuitThread, AppendPoll, KeepsTold
  <2> QED
    BY <2>1, <2>2, ToldSame
<1>2. CASE SyncInvoke(p, t) \/ InvokeDelete(p)
  BY <1>2, ToldSame
     DEF SyncInvoke, InvokeDelete, InvokeTask, stackVars, SameFrames, SameFrame, KeepsTold
<1>3. CASE \/ WaitInterrupted(p) \/ WaitFinished(p) \/ Destroy(p) \/ SpuriousWakeup(p)
           \/ SyncInvokeReturn(p) \/ StartReturn(p) \/ WaitInterruptedWakes(p) \/ WaitFinishedWakes(p)
  BY <1>3, ToldSame
     DEF WaitInterrupted, WaitFinished, Destroy, SpuriousWakeup, SyncInvokeReturn, StartReturn,
         WaitInterruptedWakes, WaitFinishedWakes, stackVars, SameFrames, SameFrame, KeepsTold
<1> QED
  BY <1>1, <1>2, <1>3

LEMMA ToldStep ==
  ASSUME OneWaiter, TypeOK, QueueInv, ToldInv, [Next]_vars
  PROVE  ToldInv'
<1>0. StackType
  BY Parts
<1>1. CASE LoopStep
  BY <1>1, LoopStepTold
<1>2. CASE SleepEnds
  <2>1. depth > 0 /\ Top.pc \in NestedLoopPc /\ waiting' = waiting
    BY <1>2 DEF SleepEnds, CvTimesOut, EpollTimesOut, EpollReports, At, LoopUnchanged, NestedLoopPc
  <2>2. CASE \E w : Continue(w)
    BY <1>0, <2>1, <2>2, ContinueTold
  <2>3. CASE state' = state /\ \E pc : Goto(pc)
    BY <1>0, <2>1, <2>3, ToldGoto DEF KeepsTold
  <2> QED
    BY <1>2, <2>2, <2>3 DEF SleepEnds, CvTimesOut, EpollTimesOut, EpollReports
<1>3. ASSUME NEW c \in Client, ClientStep(c) PROVE ToldInv'
  BY <1>3, CallTold DEF ClientStep
<1>4. CASE CallStep
  <2>1. ASSUME NEW c \in Client, Start(c) PROVE ToldInv'
    BY <1>0, <2>1, PushEffect, ToldPush, Parts DEF Start, NewFrame, KeepsTold, SameFrame
  <2>2. CASE SelfInvoke
    <3>1. depth > 0 /\ depth + 1 <= MaxDepth
      BY <1>0, <2>2 DEF SelfInvoke, Callers, InCallback, StackType
    <3> QED
      BY <1>0, <2>2, <3>1, CallFrameEffect, ToldPush DEF SelfInvoke, NewFrame, KeepsTold
  <2> QED
    BY <1>4, <2>1, <2>2, CallTold, WaitTold, CompleteTold DEF CallStep
<1>5. ASSUME NEW p \in Client \cup {Loop}, SpuriousWakeup(p) PROVE ToldInv'
  BY <1>5, CallTold
<1>6. CASE UNCHANGED vars
  BY <1>6, ToldSame DEF vars, stackVars, SameFrames, SameFrame, KeepsTold
<1> QED
  BY <1>1, <1>2, <1>3, <1>4, <1>5, <1>6 DEF Next, Gone

(***************************************************************************)
(* The nested loop of Waiter::wait() sleeps only while the wait is not      *)
(* complete (complete(), quit(), the restarts of wait()), for a thread in   *)
(* regular use with one Waiter, whose queue stays within                    *)
(* QUEUE_TASKS_OVERLOAD_SIZE; with two the code breaks it.                  *)
(***************************************************************************)
THEOREM WaitsUntilComplete ==
  ASSUME RegularUse, OneWaiter
  PROVE  Spec /\ []WithinLimit => []SleepsOnlyWhileWaiting
<1>1. Init => ToldInv /\ WakeInv
  BY WakeInit DEF Init, ToldInv
<1>2. /\ TypeOK /\ QueueInv /\ ToldInv /\ [Next]_vars => ToldInv'
      /\ TypeOK /\ WakeInv /\ WithinLimit /\ [Next]_vars => WakeInv'
  BY ToldStep, WakeStep
<1>3. TypeOK /\ WakeInv /\ ToldInv => SleepsOnlyWhileWaiting
  <2> SUFFICES ASSUME TypeOK, WakeInv, ToldInv, Asleep, Top.waiter # None PROVE waiting[Top.waiter]
    BY DEF SleepsOnlyWhileWaiting
  <2>1. depth \in 1..depth /\ Top.pc \in NestedLoopPc
    BY DEF Asleep, At, NestedLoopPc, TypeOK
  <2>2. "WaitFinished" \notin state
    BY DEF WakeInv, NoLostWakeup, Work
  <2> QED
    BY <2>1, <2>2 DEF ToldInv, CompleteAt, Top
<1> QED
  BY <1>1, <1>2, <1>3, QueueCorrect, PTL DEF Spec

-----------------------------------------------------------------------------
(***************************************************************************)
(* Who still holds the thread: a delete task is on its way only from a      *)
(* callback that has not returned, and never once the thread is destroyed.  *)
(***************************************************************************)
AccessInv ==
  /\ destroyed => depth = 0 /\ \A p \in Client \cup {Loop} : removing[p] = None
  /\ removing[Loop] # None => InCallback

QueueStepOrStutter == [Queue!Next]_(Queue!vars)
Refines == AccessInv' /\ QueueStepOrStutter

LEMMA PhaseValues ==
  /\ destroyed => Phase = "gone"
  /\ ~destroyed /\ "Finished" \notin state => Phase = "open"
  /\ ~destroyed /\ state = {"Finished"} => Phase = "closed"
  /\ ~destroyed /\ "Finished" \in state /\ state # {"Finished"} => Phase = "closing"
BY DEF Phase

LEMMA StutterStep ==
  ASSUME destroyed' = destroyed, "Finished" \in state' <=> "Finished" \in state,
         state' = {"Finished"} <=> state = {"Finished"}, accepted' = accepted, ran' = ran
  PROVE  QueueStepOrStutter
<1>1. Phase' = Phase
  BY DEF Phase
<1> QED
  BY <1>1 DEF QueueStepOrStutter, Queue!vars

LEMMA SameAccess ==
  ASSUME StackType, AccessInv, SameFrames, destroyed' = destroyed, removing' = removing
  PROVE  AccessInv'
BY DEF StackType, AccessInv, SameFrames, SameFrame, InCallback, Top

\* A step of the managed thread with no delete task on its way.
LEMMA LoopAccess ==
  ASSUME AccessInv, depth > 0, Top.pc \notin BodyPc \/ removing[Loop] = None,
         destroyed' = destroyed, removing' = removing
  PROVE  AccessInv'
BY DEF AccessInv, InCallback

(***************************************************************************)
(* Sequences: the task in front.                                            *)
(***************************************************************************)
LEMMA FrontTask ==
  ASSUME NEW s \in Seq(Task), NEW p \in Seq(Task), NEW q \in Seq(Task), p # <<>>
  PROVE  Len(s) < Len(s \o p \o q) /\ (s \o p \o q)[Len(s) + 1] = Head(p)
<1>1. Len(p) > 0 /\ s \o p \in Seq(Task) /\ Len(s \o p) = Len(s) + Len(p)
  OBVIOUS
<1>2. Len(s \o p \o q) = Len(s) + Len(p) + Len(q)
  BY <1>1
<1>3. (s \o p)[Len(s) + 1] = p[1]
  BY <1>1
<1>4. (s \o p \o q)[Len(s) + 1] = (s \o p)[Len(s) + 1]
  BY <1>1
<1> QED
  BY <1>1, <1>2, <1>3, <1>4

-----------------------------------------------------------------------------
LEMMA InvokeTaskStep ==
  ASSUME TypeOK, NEW t \in Task, InvokeTask(t), ~destroyed, destroyed' = destroyed, ran' = ran
  PROVE  QueueStepOrStutter
<1>1. CASE "Finished" \in state
  BY <1>1, StutterStep DEF InvokeTask
<1>2. CASE "Finished" \notin state
  <2>1. "Finished" \notin state' /\ accepted' = Append(accepted, t)
    BY <1>2 DEF InvokeTask
  <2>2. Phase = "open" /\ Phase' = "open"
    BY <1>2, <2>1 DEF Phase
  <2>3. Queue!Submit(t)
    BY <2>1, <2>2 DEF Queue!Submit
  <2> QED
    BY <2>3 DEF QueueStepOrStutter, Queue!Next
<1> QED
  BY <1>1, <1>2

LEMMA InvokeRefines ==
  ASSUME TypeOK, AccessInv, NEW p \in Client \cup {Loop}, NEW t \in Task, Invoke(p, t)
  PROVE  Refines
<1>1. SameFrames /\ StackType /\ ~destroyed
  BY TypeParts, CallerTypes, SpendEffect DEF Invoke, Callers
<1> QED
  BY <1>1, InvokeTaskStep, SameAccess DEF Invoke, clientVars, Refines

LEMMA SyncInvokeRefines ==
  ASSUME TypeOK, AccessInv, NEW c \in Client, NEW t \in Task, SyncInvoke(c, t)
  PROVE  Refines
<1>1. SameFrames /\ StackType /\ ~destroyed
  BY TypeParts DEF SyncInvoke, Callers, stackVars, SameFrames, SameFrame
<1> QED
  BY <1>1, InvokeTaskStep, SameAccess DEF SyncInvoke, Refines

LEMMA InvokeDeleteRefines ==
  ASSUME TypeOK, AccessInv, NEW p \in Client \cup {Loop}, InvokeDelete(p)
  PROVE  Refines
<1>1. ~destroyed /\ removing[p] \in Task
  BY DEF InvokeDelete, AccessInv, TypeOK
<1>2. AccessInv'
  BY <1>1 DEF InvokeDelete, AccessInv, TypeOK, stackVars, InCallback, Top
<1> QED
  BY <1>1, <1>2, InvokeTaskStep DEF InvokeDelete, Refines

LEMMA RemovePollRefines ==
  ASSUME TypeOK, AccessInv, NEW p \in Client \cup {Loop}, NEW t \in Task, RemovePoll(p, t)
  PROVE  Refines
<1>1. SameFrames /\ StackType /\ ~destroyed /\ (p = Loop => InCallback)
  BY TypeParts, CallerTypes, SpendEffect DEF RemovePoll, Callers
<1>2. InCallback' <=> InCallback
  BY <1>1 DEF StackType, SameFrames, SameFrame, InCallback, Top
<1>3. p # Loop => removing'[Loop] = removing[Loop]
  BY DEF RemovePoll, TypeOK
<1>4. AccessInv'
  BY <1>1, <1>2, <1>3 DEF RemovePoll, AccessInv
<1> QED
  BY <1>4, StutterStep DEF RemovePoll, history, Refines

(***************************************************************************)
(* Calls that leave the queue alone.                                        *)
(***************************************************************************)
LEMMA QuietRefines ==
  ASSUME TypeOK, AccessInv, SameFrames, destroyed' = destroyed, removing' = removing,
         accepted' = accepted, ran' = ran,
         state' = state \/ ("Finished" \notin state /\ "Finished" \notin state')
  PROVE  Refines
BY TypeParts, SameAccess, StutterStep DEF Refines

LEMMA SyncInvokeReturnRefines ==
  ASSUME TypeOK, AccessInv, NEW c \in Client, SyncInvokeReturn(c)
  PROVE  Refines
<1>1. SameFrames
  BY DEF SyncInvokeReturn, stackVars, SameFrames, SameFrame
<1> QED
  BY <1>1, QuietRefines DEF SyncInvokeReturn, clientVars, history

LEMMA StartReturnRefines ==
  ASSUME TypeOK, AccessInv, NEW c \in Client, StartReturn(c)
  PROVE  Refines
<1>1. SameFrames
  BY DEF StartReturn, stackVars, SameFrames, SameFrame
<1> QED
  BY <1>1, QuietRefines DEF StartReturn, clientVars, history

LEMMA WaitInterruptedRefines ==
  ASSUME TypeOK, AccessInv, NEW c \in Client, WaitInterrupted(c)
  PROVE  Refines
<1>1. SameFrames
  BY DEF WaitInterrupted, stackVars, SameFrames, SameFrame
<1> QED
  BY <1>1, QuietRefines DEF WaitInterrupted, clientVars, history

LEMMA WaitInterruptedWakesRefines ==
  ASSUME TypeOK, AccessInv, NEW c \in Client, WaitInterruptedWakes(c)
  PROVE  Refines
<1>1. SameFrames
  BY DEF WaitInterruptedWakes, stackVars, SameFrames, SameFrame
<1> QED
  BY <1>1, QuietRefines DEF WaitInterruptedWakes, clientVars, history

LEMMA WaitFinishedRefines ==
  ASSUME TypeOK, AccessInv, NEW c \in Client, WaitFinished(c)
  PROVE  Refines
<1>1. SameFrames
  BY DEF WaitFinished, stackVars, SameFrames, SameFrame
<1> QED
  BY <1>1, QuietRefines DEF WaitFinished, clientVars, history

LEMMA WaitFinishedWakesRefines ==
  ASSUME TypeOK, AccessInv, NEW c \in Client, WaitFinishedWakes(c)
  PROVE  Refines
<1>1. SameFrames
  BY DEF WaitFinishedWakes, stackVars, SameFrames, SameFrame
<1> QED
  BY <1>1, QuietRefines DEF WaitFinishedWakes, clientVars, history

LEMMA SpuriousWakeupRefines ==
  ASSUME TypeOK, AccessInv, NEW p \in Client \cup {Loop}, SpuriousWakeup(p)
  PROVE  Refines
<1>1. SameFrames
  BY DEF SpuriousWakeup, stackVars, SameFrames, SameFrame
<1> QED
  BY <1>1, QuietRefines DEF SpuriousWakeup, clientVars, history

LEMMA AppendPollRefines ==
  ASSUME TypeOK, AccessInv, NEW p \in Client \cup {Loop}, AppendPoll(p)
  PROVE  Refines
<1>1. SameFrames
  BY TypeParts, CallerTypes, SpendEffect DEF AppendPoll
<1> QED
  BY <1>1, QuietRefines DEF AppendPoll, clientVars, history

LEMMA RequestInterruptRefines ==
  ASSUME TypeOK, AccessInv, NEW p \in Client \cup {Loop}, RequestInterrupt(p)
  PROVE  Refines
<1>1. SameFrames
  BY TypeParts, CallerTypes, SpendEffect DEF RequestInterrupt
<1> QED
  BY <1>1, QuietRefines DEF RequestInterrupt, clientVars, history, AtLeastWaitFinished

LEMMA QuitRefines ==
  ASSUME TypeOK, AccessInv, NEW p \in Client \cup {Loop}, Quit(p)
  PROVE  Refines
<1>1. SameFrames
  BY TypeParts, CallerTypes, SpendEffect DEF Quit
<1> QED
  BY <1>1, QuietRefines DEF Quit, clientVars, history, QuitThread

LEMMA CompleteRefines ==
  ASSUME TypeOK, AccessInv, NEW w \in Waiter, Complete(w)
  PROVE  Refines
<1>1. SameFrames
  BY TypeParts, CallerTypes, SpendEffect DEF Complete
<1> QED
  BY <1>1, QuietRefines DEF Complete, clientVars, history, QuitIfRunning, QuitThread

LEMMA StartRefines ==
  ASSUME TypeOK, AccessInv, NEW c \in Client, Start(c)
  PROVE  Refines
<1>1. depth = 0 /\ ~destroyed /\ state' = {"WaitStarted"}
  BY DEF Start
<1>2. AccessInv'
  BY <1>1 DEF Start, AccessInv, InCallback
<1>3. CASE state = {}
  BY <1>1, <1>2, <1>3, StutterStep DEF Start, history, Refines
<1>4. CASE state = {"Finished"}
  <2>1. Phase = "closed" /\ Phase' = "open"
    BY <1>1, <1>4 DEF Phase, Start
  <2>2. Queue!Reopen
    BY <2>1 DEF Start, history, Queue!Reopen
  <2> QED
    BY <1>2, <2>2 DEF QueueStepOrStutter, Queue!Next, Refines
<1> QED
  BY <1>3, <1>4 DEF Start

LEMMA DestroyRefines ==
  ASSUME TypeOK, QueueInv, AccessInv, NEW c \in Client, Destroy(c)
  PROVE  Refines
<1>1. depth = 0 /\ ~destroyed /\ destroyed' /\ state \in {{}, {"Finished"}} /\ process_tasks = <<>>
  BY Parts, NoBatch DEF Destroy, Callers, Lifecycle
<1>2. AccessInv'
  BY <1>1 DEF Destroy, AccessInv, InCallback, stackVars, clientVars
<1>3. ran' = accepted
  <2>1. ran \in Seq(Task) /\ ran \o <<>> = ran
    BY ConcatEmptySeq DEF TypeOK
  <2> QED
    BY <1>1, <2>1, Parts DEF Destroy, Fifo
<1>4. Phase \in {"open", "closed"} /\ Phase' = "gone"
  BY <1>1 DEF Phase
<1>5. Queue!Drain
  BY <1>3, <1>4 DEF Destroy, Queue!Drain
<1> QED
  BY <1>2, <1>5 DEF QueueStepOrStutter, Queue!Next, Refines

(***************************************************************************)
(* Steps of the managed thread.                                             *)
(***************************************************************************)
LEMMA LoopRefines ==
  ASSUME AccessInv, depth > 0, Top.pc \notin BodyPc \/ removing[Loop] = None,
         destroyed' = destroyed, removing' = removing, accepted' = accepted, ran' = ran,
         state' = state \/ ("Finished" \notin state /\ "Finished" \notin state')
  PROVE  Refines
BY LoopAccess, StutterStep DEF Refines

LEMMA WaitRefines ==
  ASSUME AccessInv, NEW w \in Waiter, Wait(w)
  PROVE  Refines
BY LoopRefines DEF Wait, Callers, InCallback, clientVars, history

LEMMA SelfInvokeRefines ==
  ASSUME AccessInv, SelfInvoke
  PROVE  Refines
BY LoopRefines DEF SelfInvoke, Callers, InCallback, clientVars, history

LEMMA SelfInvokeSwapRefines ==
  ASSUME AccessInv, SelfInvokeSwap
  PROVE  Refines
BY LoopRefines DEF SelfInvokeSwap, At, CallsPc, BodyPc, clientVars, history

LEMMA SelfInvokeFunctionRefines ==
  ASSUME AccessInv, SelfInvokeFunction
  PROVE  Refines
BY LoopRefines DEF SelfInvokeFunction, At, CallsPc, BodyPc, clientVars, history

LEMMA ThreadBeginsRefines ==
  ASSUME AccessInv, ThreadBegins
  PROVE  Refines
BY LoopRefines DEF ThreadBegins, At, CallsPc, BodyPc, clientVars, history

LEMMA RunCallbackRefines ==
  ASSUME AccessInv, RunCallback
  PROVE  Refines
BY LoopRefines DEF RunCallback, At, CallsPc, BodyPc, clientVars, history

LEMMA ExecReturnsRefines ==
  ASSUME AccessInv, ExecReturns
  PROVE  Refines
BY LoopRefines DEF ExecReturns, At, CallsPc, BodyPc, clientVars, history

LEMMA WaitChecksRefines ==
  ASSUME AccessInv, WaitChecks
  PROVE  Refines
BY LoopRefines DEF WaitChecks, At, CallsPc, BodyPc, clientVars, history

LEMMA LoopBeginsRefines ==
  ASSUME AccessInv, LoopBegins
  PROVE  Refines
<1>1. depth > 0 /\ (Top.pc \notin BodyPc \/ removing[Loop] = None)
  BY DEF LoopBegins, At, BodyPc
<1> QED
  BY <1>1, LoopRefines DEF LoopBegins, clientVars, history

LEMMA BodyReturnsRefines ==
  ASSUME AccessInv, BodyReturns
  PROVE  Refines
BY LoopRefines DEF BodyReturns, At, clientVars

LEMMA WaitQuitsRefines ==
  ASSUME AccessInv, WaitQuits
  PROVE  Refines
<1>1. depth > 0 /\ Top.pc \notin BodyPc
  BY DEF WaitQuits, At, BodyPc
<1>2. state' = state \/ ("Finished" \notin state /\ "Finished" \notin state')
  BY DEF WaitQuits, QuitIfRunning, QuitThread
<1> QED
  BY <1>1, <1>2, LoopRefines DEF WaitQuits, clientVars, history

LEMMA ExecBeginsRefines ==
  ASSUME TypeOK, QueueInv, AccessInv, ExecBegins
  PROVE  Refines
<1>0. StackType /\ depth > 0 /\ Top.pc = "entry" /\ Top.pc \notin BodyPc
  BY Parts DEF ExecBegins, At, BodyPc
<1>1. "Finished" \notin state
  <2>1. depth = 1 => frame[1].pc = "entry"
    BY <1>0 DEF Top
  <2>2. depth > 1 => depth \in 2..depth /\ frame[depth].pc \notin CalleePc
    BY <1>0 DEF Top, CalleePc, StackType
  <2> QED
    BY <1>0, <2>1, <2>2, Parts DEF Lifecycle, StackType
<1>2. state' = state \/ state' = {"Running"}
  BY DEF ExecBegins
<1> QED
  BY <1>0, <1>1, <1>2, LoopRefines DEF ExecBegins, clientVars, history

LEMMA ExecEndsRefines ==
  ASSUME TypeOK, QueueInv, AccessInv, ExecEnds
  PROVE  Refines
<1>1. depth > 0 /\ Top.pc \notin BodyPc /\ Top.pc \in LoopPc
  BY DEF ExecEnds, At, BodyPc, LoopPc
<1>2. "Finished" \notin state
  BY <1>1, Parts, LoopActive
<1>3. state' = state \/ state' = state \ {"WaitFinished"}
  BY DEF ExecEnds
<1> QED
  BY <1>1, <1>2, <1>3, LoopRefines DEF ExecEnds, clientVars, history

\* A step of the loop in its active pass.
LEMMA IdleRefines ==
  ASSUME AccessInv, depth > 0, Top.pc \notin BodyPc, NEW w, Idle(w),
         destroyed' = destroyed, removing' = removing, accepted' = accepted, ran' = ran
  PROVE  Refines
<1>1. state' = state \/ ("Finished" \notin state /\ "Finished" \notin state')
  BY DEF Idle
<1> QED
  BY <1>1, LoopRefines

LEMMA ContinueRefines ==
  ASSUME AccessInv, depth > 0, Top.pc \notin BodyPc, NEW w, Continue(w), LoopUnchanged
  PROVE  Refines
<1>1. /\ destroyed' = destroyed /\ removing' = removing
      /\ accepted' = accepted /\ ran' = ran
  BY DEF LoopUnchanged, clientVars, history
<1>2. CASE tasks # <<>>
  BY <1>1, <1>2, LoopRefines DEF Continue
<1>3. CASE tasks = <<>>
  BY <1>1, <1>3, IdleRefines DEF Continue
<1> QED
  BY <1>2, <1>3

LEMMA LoopContinuesRefines ==
  ASSUME AccessInv, LoopContinues
  PROVE  Refines
BY ContinueRefines DEF LoopContinues, At, BodyPc

LEMMA CvWakesRefines ==
  ASSUME AccessInv, CvWakes
  PROVE  Refines
BY ContinueRefines DEF CvWakes, At, BodyPc

LEMMA EpollWakesRefines ==
  ASSUME AccessInv, EpollWakes
  PROVE  Refines
BY ContinueRefines DEF EpollWakes, At, BodyPc

LEMMA EpollTimesOutRefines ==
  ASSUME AccessInv, EpollTimesOut
  PROVE  Refines
BY ContinueRefines DEF EpollTimesOut, At, BodyPc

LEMMA CallbacksDoneRefines ==
  ASSUME AccessInv, CallbacksDone
  PROVE  Refines
BY ContinueRefines DEF CallbacksDone, At, BodyPc

LEMMA OverloadDoneRefines ==
  ASSUME AccessInv, OverloadDone
  PROVE  Refines
BY IdleRefines DEF OverloadDone, At, BodyPc, LoopUnchanged, clientVars, history

LEMMA EpollReportsRefines ==
  ASSUME AccessInv, EpollReports
  PROVE  Refines
BY LoopRefines DEF EpollReports, At, BodyPc, LoopUnchanged, clientVars, history

LEMMA CvTimesOutRefines ==
  ASSUME AccessInv, CvTimesOut
  PROVE  Refines
<1>1. depth > 0 /\ Top.pc \notin BodyPc
  BY DEF CvTimesOut, At, BodyPc
<1>2. CASE Continue(wake)
  BY <1>1, <1>2, ContinueRefines DEF CvTimesOut
<1>3. CASE UNCHANGED state
  BY <1>1, <1>3, LoopRefines DEF CvTimesOut, LoopUnchanged, clientVars, history
<1> QED
  BY <1>2, <1>3 DEF CvTimesOut

\* The next task runs.
LEMMA RunTaskRefines ==
  ASSUME TypeOK, QueueInv, AccessInv, RunTask
  PROVE  Refines
<1>1. depth > 0 /\ Top.pc \notin BodyPc
  BY DEF RunTask, BodyPc, DrainPc
<1>2. AccessInv'
  BY <1>1, LoopAccess DEF RunTask, clientVars
<1>3. ~destroyed /\ state # {"Finished"}
  BY <1>1, Parts DEF AccessInv, Lifecycle
<1>4. Phase \in {"open", "closing"} /\ Phase' = Phase
  BY <1>3 DEF Phase, RunTask
<1>5. Len(ran) < Len(accepted) /\ accepted[Len(ran) + 1] = Head(process_tasks)
  BY Parts, FrontTask DEF RunTask, Fifo, QueueType, HistoryType
<1>6. Queue!Run
  BY <1>4, <1>5 DEF RunTask, Queue!Run
<1> QED
  BY <1>2, <1>6 DEF QueueStepOrStutter, Queue!Next, Refines

\* The thread is marked finished: no task is accepted any more.
LEMMA LastTasksRefines ==
  ASSUME TypeOK, QueueInv, AccessInv, LastTasks
  PROVE  Refines
<1>1. depth > 0 /\ Top.pc \in LoopPc /\ removing[Loop] = None
  BY DEF LastTasks, At, LoopPc
<1>2. AccessInv'
  BY <1>1, LoopAccess DEF LastTasks, clientVars
<1>3. "Finished" \notin state /\ ~destroyed /\ ~destroyed'
  BY <1>1, Parts, LoopActive DEF AccessInv, LastTasks
<1>4. Phase = "open" /\ Phase' = "closing"
  BY <1>3 DEF Phase, LastTasks
<1>5. Queue!Close
  BY <1>4 DEF LastTasks, history, Queue!Close
<1> QED
  BY <1>2, <1>5 DEF QueueStepOrStutter, Queue!Next, Refines

\* The thread ends with every task run.
LEMMA ThreadEndsRefines ==
  ASSUME TypeOK, QueueInv, AccessInv, ThreadEnds
  PROVE  Refines
<1>1. depth = 1 /\ frame[1].pc = "ended" /\ Top.pc = "ended" /\ Top.pc \notin BodyPc
  BY Parts, OuterAlone DEF ThreadEnds, At, Top, BodyPc
<1>2. AccessInv'
  BY <1>1, LoopAccess DEF ThreadEnds, clientVars
<1>3. state = {"WaitFinished", "Finished"} /\ ~destroyed /\ ~destroyed'
  BY <1>1, Parts DEF AccessInv, Lifecycle, ThreadEnds
<1>4. Phase = "closing" /\ Phase' = "closed"
  BY <1>3 DEF Phase, ThreadEnds
<1>5. ran = accepted
  <2>1. tasks = <<>> /\ process_tasks = <<>>
    BY <1>1, <1>3, Parts, NoBatch DEF NothingTakenAtEnd, DrainPc
  <2>2. ran \in Seq(Task) /\ ran \o <<>> = ran
    BY ConcatEmptySeq DEF TypeOK
  <2> QED
    BY <2>1, <2>2, Parts DEF Fifo
<1>6. Queue!End
  BY <1>4, <1>5 DEF ThreadEnds, Queue!End
<1> QED
  BY <1>2, <1>6 DEF QueueStepOrStutter, Queue!Next, Refines

-----------------------------------------------------------------------------
LEMMA RefinesInit == Init => AccessInv /\ Queue!Init
BY DEF Init, AccessInv, InCallback, Phase, Queue!Init

LEMMA RefinesStep == TypeOK /\ QueueInv /\ AccessInv /\ [Next]_vars => Refines
<1> SUFFICES ASSUME TypeOK, QueueInv, AccessInv, [Next]_vars PROVE Refines
  OBVIOUS
<1>1. CASE LoopStep
  BY <1>1, ThreadBeginsRefines, ExecBeginsRefines, LoopBeginsRefines, RunTaskRefines,
     RunCallbackRefines, BodyReturnsRefines, SelfInvokeSwapRefines, SelfInvokeFunctionRefines,
     LoopContinuesRefines, OverloadDoneRefines, CvWakesRefines, EpollWakesRefines,
     CallbacksDoneRefines, ExecEndsRefines, LastTasksRefines, ExecReturnsRefines,
     ThreadEndsRefines, WaitChecksRefines, WaitQuitsRefines, InvokeDeleteRefines DEF LoopStep
<1>2. CASE SleepEnds
  BY <1>2, CvTimesOutRefines, EpollTimesOutRefines, EpollReportsRefines DEF SleepEnds
<1>3. ASSUME NEW c \in Client, ClientStep(c) PROVE Refines
  BY <1>3, SyncInvokeReturnRefines, StartReturnRefines, InvokeDeleteRefines,
     WaitInterruptedWakesRefines, WaitFinishedWakesRefines DEF ClientStep
<1>4. CASE CallStep
  BY <1>4, InvokeRefines, RemovePollRefines, RequestInterruptRefines, QuitRefines,
     AppendPollRefines, SyncInvokeRefines, StartRefines, WaitInterruptedRefines,
     WaitFinishedRefines, DestroyRefines, WaitRefines, CompleteRefines, SelfInvokeRefines
     DEF CallStep
<1>5. ASSUME NEW p \in Client \cup {Loop}, SpuriousWakeup(p) PROVE Refines
  BY <1>5, SpuriousWakeupRefines
<1>6. CASE UNCHANGED vars
  <2>1. SameFrames
    BY <1>6 DEF vars, stackVars, SameFrames, SameFrame
  <2> QED
    BY <1>6, <2>1, QuietRefines DEF vars, clientVars, history
<1> QED
  BY <1>1, <1>2, <1>3, <1>4, <1>5, <1>6 DEF Next, Gone

(***************************************************************************)
(* The thread implements its abstract task queue (invokeTask(), exec(), the *)
(* lifecycle and the destructor): tasks are accepted until the thread       *)
(* finishes, run one after the other in order, and have all run by then.    *)
(***************************************************************************)
THEOREM ThreadImplementsTaskQueue == ASSUME RegularUse PROVE Spec => ImplementsTaskQueue
<1>1. Init => AccessInv /\ Queue!Init
  BY RefinesInit
<1>2. TypeOK /\ QueueInv /\ AccessInv /\ [Next]_vars => AccessInv' /\ [Queue!Next]_(Queue!vars)
  BY RefinesStep DEF Refines, QueueStepOrStutter
<1> QED
  BY <1>1, <1>2, QueueCorrect, PTL DEF Spec, ImplementsTaskQueue, Queue!Spec

(***************************************************************************)
(* A finished thread stays finished until it is started again: nothing its  *)
(* users call and no nested exec() makes it run (quit(), requestInterrupt(),*)
(* invokeTask(), exec()).                                                   *)
(***************************************************************************)
THEOREM FinishedStaysFinished == ASSUME RegularUse PROVE Spec => FinishedIsFinal
<1>1. Init => AccessInv
  BY RefinesInit
<1>2. TypeOK /\ QueueInv /\ AccessInv /\ [Next]_vars => AccessInv'
  BY RefinesStep DEF Refines
<1>3. TypeOK /\ QueueInv /\ AccessInv /\ [Next]_vars =>
        [depth > 0 /\ "Finished" \in state => "Finished" \in state']_vars
  <2> SUFFICES ASSUME TypeOK, QueueInv, AccessInv, [Next]_vars, depth > 0, "Finished" \in state
               PROVE  "Finished" \in state'
    OBVIOUS
  <2>1. Phase = "closing"
    BY Parts DEF AccessInv, Lifecycle, Phase
  <2>2. [Queue!Next]_(Queue!vars)
    BY RefinesStep DEF Refines, QueueStepOrStutter
  <2>3. Phase' \in {"closing", "closed"}
    BY <2>1, <2>2 DEF Queue!Next, Queue!vars, Queue!Submit, Queue!Run, Queue!Close, Queue!End,
                      Queue!Reopen, Queue!Drain
  <2> QED
    BY <2>3 DEF Phase
<1> QED
  BY <1>1, <1>2, <1>3, QueueCorrect, PTL DEF Spec, FinishedIsFinal
=============================================================================

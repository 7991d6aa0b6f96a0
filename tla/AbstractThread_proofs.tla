----------------------- MODULE AbstractThread_proofs -----------------------
(***************************************************************************)
(* The types of AbstractThread, and that no wake-up of the loop is lost as  *)
(* long as the queue stays within QUEUE_TASKS_OVERLOAD_SIZE, for every      *)
(* value of its constants.                                                  *)
(***************************************************************************)
EXTENDS AbstractThreadInvariants, TLAPS

USE ConstantsAssumption DEF ConstantsAssumption

(***************************************************************************)
(* What the helpers of the actions do to the types.                         *)
(***************************************************************************)
StackType == depth \in 0..MaxDepth /\ frame \in [1..MaxDepth -> Frame]
WakeType == wake \in BOOLEAN /\ cv \subseteq Client \cup {Loop} /\ eventfd \in BOOLEAN
QueueType ==
  /\ state \subseteq Flag /\ nested \in Nat
  /\ tasks \in Seq(Task) /\ process_tasks \in Seq(Task)
  /\ callbacks \in Nat /\ polls \in Nat
UserType ==
  /\ waiting \in [Waiter -> BOOLEAN]
  /\ call \in [Client -> {"none", "sync", "start", "interrupted", "finished"}]
  /\ waitsFor \in [Client -> Task \cup {None}]
  /\ removing \in [Client \cup {Loop} -> Task \cup {None}]
  /\ destroyed \in BOOLEAN
HistoryType ==
  /\ accepted \in Seq(Task) /\ ran \in Seq(Task)
  /\ refused \subseteq Task /\ done \subseteq Task /\ told \in {"no", "quit", "waited"}

LEMMA TypeParts ==
  /\ TypeOK <=> StackType /\ WakeType /\ QueueType /\ UserType /\ HistoryType
  /\ TypeOK' <=> StackType' /\ WakeType' /\ QueueType' /\ UserType' /\ HistoryType'
BY DEF TypeOK, StackType, WakeType, QueueType, UserType, HistoryType

LEMMA PcTypes ==
  /\ "none" \in Pc /\ "spawn" \in Pc /\ "entry" \in Pc /\ "started" \in Pc
  /\ "tasks" \in Pc /\ "drainTasks" \in Pc /\ "overload" \in Pc /\ "final" \in Pc
  /\ "sync1" \in Pc /\ "sync2" \in Pc /\ "calls" \in Pc /\ "drainCalls" \in Pc
  /\ "body" \in Pc /\ "finishing" \in Pc /\ "sleepCv" \in Pc /\ "sleepPoll" \in Pc
  /\ "exit" \in Pc /\ "exited" \in Pc /\ "quits" \in Pc /\ "ended" \in Pc
BY DEF Pc, DrainPc, CallsPc, BodyPc

LEMMA FlagTypes ==
  /\ {} \subseteq Flag /\ {"WaitStarted"} \subseteq Flag /\ {"Running"} \subseteq Flag
  /\ {"WaitInterrupted"} \subseteq Flag /\ {"Interrupted"} \subseteq Flag
  /\ {"WaitFinished"} \subseteq Flag /\ {"Finished"} \subseteq Flag
  /\ {"WaitFinished", "Finished"} \subseteq Flag
BY DEF Flag

LEMMA NewFrameType == ASSUME NEW pc \in Pc PROVE NewFrame(pc) \in Frame
BY DEF NewFrame, Frame

LEMMA FrameUpdates ==
  ASSUME NEW f \in Frame, NEW pc \in Pc, NEW n \in Nat
  PROVE  /\ [f EXCEPT !.pc = pc] \in Frame
         /\ [f EXCEPT !.calls = n] \in Frame
         /\ [f EXCEPT !.q = n] \in Frame
         /\ [f EXCEPT !.pc = pc, !.q = n] \in Frame
         /\ [f EXCEPT !.pc = pc, !.nested = n] \in Frame
BY DEF Frame

LEMMA GotoType ==
  ASSUME StackType, depth > 0, NEW pc \in Pc, Goto(pc)
  PROVE  StackType'
BY DEF StackType, Goto, Frame

LEMMA PushType ==
  ASSUME StackType, NEW f \in Frame, Push(f)
  PROVE  StackType'
BY DEF StackType, Push

LEMMA PopType ==
  ASSUME StackType, depth > 0, Pop
  PROVE  StackType'
<1>1. NoFrame \in Frame
  BY PcTypes, NewFrameType DEF NoFrame
<1> QED
  BY <1>1 DEF StackType, Pop

LEMMA SpendType ==
  ASSUME StackType, NEW p, p = Loop => depth > 0, Spend(p)
  PROVE  StackType'
<1>1. CASE p = Loop
  <2>1. depth \in 1..MaxDepth /\ frame[depth] \in Frame
    BY <1>1 DEF StackType
  <2>2. frame[depth].calls + 1 \in Nat
    BY <2>1 DEF Frame
  <2> DEFINE f == [frame[depth] EXCEPT !.calls = frame[depth].calls + 1]
  <2>3. f \in Frame
    BY <2>1, <2>2 DEF Frame
  <2>4. frame' = [frame EXCEPT ![depth] = f] /\ depth' = depth
    BY <1>1 DEF Spend
  <2> HIDE DEF f
  <2> QED
    BY <2>1, <2>3, <2>4 DEF StackType
<1>2. CASE p # Loop
  BY <1>2 DEF StackType, Spend, stackVars
<1> QED
  BY <1>1, <1>2

\* A callback makes a call that opens a frame.
LEMMA CallFrameType ==
  ASSUME StackType, depth > 0, depth + 1 <= MaxDepth, NEW g \in Frame, depth' = depth + 1,
         frame' = [frame EXCEPT ![depth].calls = @ + 1, ![depth + 1] = g]
  PROVE  StackType'
<1>1. depth \in 1..MaxDepth /\ frame[depth] \in Frame
  BY DEF StackType
<1>2. frame[depth].calls + 1 \in Nat
  BY <1>1 DEF Frame
<1> DEFINE f == [frame[depth] EXCEPT !.calls = frame[depth].calls + 1]
<1>3. f \in Frame
  BY <1>1, <1>2 DEF Frame
<1>4. frame' = [frame EXCEPT ![depth] = f, ![depth + 1] = g]
  OBVIOUS
<1> HIDE DEF f
<1> QED
  BY <1>1, <1>3, <1>4 DEF StackType

LEMMA WakeTypes ==
  ASSUME WakeType, Wake
  PROVE  WakeType'
BY DEF WakeType, Wake, wakeVars

LEMMA QuitThreadTypes ==
  ASSUME QueueType, WakeType, QuitThread
  PROVE  WakeType' /\ nested' \in Nat /\ state' \subseteq Flag
<1>1. WakeType'
  BY WakeTypes DEF QuitThread
<1> QED
  BY <1>1 DEF QuitThread, QueueType, Flag

LEMMA QuitIfRunningTypes ==
  ASSUME QueueType, WakeType, QuitIfRunning
  PROVE  WakeType' /\ nested' \in Nat /\ state' \subseteq Flag
<1>1. CASE QuitThread
  BY <1>1, QuitThreadTypes
<1>2. CASE UNCHANGED <<state, nested, wakeVars>>
  BY <1>2 DEF QueueType, WakeType, wakeVars
<1> QED
  BY <1>1, <1>2 DEF QuitIfRunning

LEMMA InvokeTaskTypes ==
  ASSUME QueueType, WakeType, HistoryType, NEW t \in Task, InvokeTask(t)
  PROVE  /\ WakeType' /\ state' \subseteq Flag /\ tasks' \in Seq(Task)
         /\ accepted' \in Seq(Task) /\ refused' \subseteq Task
<1>1. WakeType'
  BY WakeTypes DEF InvokeTask, WakeType, wakeVars
<1>2. tasks' \in Seq(Task) /\ accepted' \in Seq(Task) /\ refused' \subseteq Task
  <2>1. CASE "Finished" \notin state
    <3>1. tasks' = Append(tasks, t) /\ accepted' = Append(accepted, t) /\ refused' = refused
      BY <2>1 DEF InvokeTask
    <3> QED
      BY <3>1 DEF QueueType, HistoryType
  <2>2. CASE "Finished" \in state
    <3>1. tasks' = tasks /\ accepted' = accepted /\ refused' = refused \cup {t}
      BY <2>2 DEF InvokeTask
    <3> QED
      BY <3>1 DEF QueueType, HistoryType
  <2> QED
    BY <2>1, <2>2
<1>3. state' \subseteq Flag
  <2>1. state' = state \/ state' = {"Running"}
    BY DEF InvokeTask
  <2> QED
    BY <2>1, FlagTypes DEF QueueType
<1> QED
  BY <1>1, <1>2, <1>3

\* What one pass of the loop's critical section leaves.
LEMMA IdleTypes ==
  ASSUME QueueType, StackType, WakeType, depth > 0, NEW w \in BOOLEAN, Idle(w)
  PROVE  /\ StackType' /\ state' \subseteq Flag /\ callbacks' \in Nat
         /\ wake' \in BOOLEAN /\ cv' \subseteq Client \cup {Loop}
<1>1. StackType'
  <2>1. Goto("exit") \/ Goto("sleepCv") \/ Goto("sleepPoll") \/ Goto("calls") \/ Goto("tasks")
    BY DEF Idle
  <2> QED
    BY <2>1, GotoType, PcTypes
<1>2. state' \subseteq Flag /\ callbacks' \in Nat
  <2>1. state' = state \/ state' = {"Interrupted"}
    BY DEF Idle
  <2>2. callbacks' = callbacks \/ callbacks' \in 1..MaxBatch
    BY DEF Idle
  <2>3. state' \subseteq Flag
    BY <2>1, FlagTypes DEF QueueType
  <2>4. callbacks' \in Nat
    BY <2>2 DEF QueueType
  <2> QED
    BY <2>3, <2>4
<1>3. wake' \in BOOLEAN /\ cv' \subseteq Client \cup {Loop}
  BY DEF Idle, WakeType
<1> QED
  BY <1>1, <1>2, <1>3

LEMMA ContinueTypes ==
  ASSUME QueueType, StackType, WakeType, depth > 0, NEW w \in BOOLEAN, Continue(w)
  PROVE  /\ StackType' /\ state' \subseteq Flag /\ callbacks' \in Nat
         /\ wake' \in BOOLEAN /\ cv' \subseteq Client \cup {Loop}
         /\ tasks' \in Seq(Task) /\ process_tasks' \in Seq(Task)
<1>1. CASE tasks # <<>>
  <2>1. Goto("overload") \/ Goto("tasks")
    BY <1>1 DEF Continue
  <2>2. StackType'
    BY <2>1, GotoType, PcTypes
  <2> QED
    BY <1>1, <2>2 DEF Continue, Swap, QueueType, WakeType
<1>2. CASE tasks = <<>>
  <2>1. Idle(w) /\ UNCHANGED queueVars
    BY <1>2 DEF Continue
  <2> QED
    BY <2>1, IdleTypes DEF queueVars, QueueType
<1> QED
  BY <1>1, <1>2

(***************************************************************************)
(* The type invariant, one action at a time.                                *)
(***************************************************************************)
LEMMA CallerTypes ==
  ASSUME StackType, NEW name, NEW p \in Callers(name)
  PROVE  /\ p \in Client \cup {Loop} /\ removing[p] = None
         /\ p = Loop => depth > 0
BY DEF Callers, InCallback, StackType

LEMMA InvokeTypes ==
  ASSUME TypeOK, NEW p \in Client \cup {Loop}, NEW t \in Task, Invoke(p, t)
  PROVE  TypeOK'
<1>0. QueueType /\ WakeType /\ StackType /\ UserType /\ HistoryType
  BY TypeParts
<1>a. p = Loop => depth > 0
  BY <1>0, CallerTypes DEF Invoke
<1>1. StackType'
  BY <1>0, <1>a, SpendType DEF Invoke
<1>2. WakeType'
  BY <1>0, InvokeTaskTypes DEF Invoke
<1>3. QueueType' /\ UserType' /\ HistoryType'
  BY <1>0, InvokeTaskTypes DEF Invoke, QueueType, UserType, HistoryType, queueVars, clientVars, history
<1> QED
  BY <1>1, <1>2, <1>3, TypeParts

LEMMA SyncInvokeTypes ==
  ASSUME TypeOK, NEW c \in Client, NEW t \in Task, SyncInvoke(c, t)
  PROVE  TypeOK'
<1>0. QueueType /\ WakeType /\ StackType /\ UserType /\ HistoryType
  BY TypeParts
<1>1. StackType'
  BY <1>0 DEF SyncInvoke, StackType, stackVars
<1>2. WakeType'
  BY <1>0, InvokeTaskTypes DEF SyncInvoke
<1>3. QueueType' /\ HistoryType'
  BY <1>0, InvokeTaskTypes DEF SyncInvoke, QueueType, HistoryType, queueVars, history
<1>4. UserType'
  <2>1. call' \in {call, [call EXCEPT ![c] = "sync"]}
    BY DEF SyncInvoke
  <2>2. waitsFor' \in {waitsFor, [waitsFor EXCEPT ![c] = t]}
    BY DEF SyncInvoke
  <2> QED
    BY <1>0, <2>1, <2>2 DEF SyncInvoke, UserType
<1> QED
  BY <1>1, <1>2, <1>3, <1>4, TypeParts

LEMMA SyncInvokeReturnTypes ==
  ASSUME TypeOK, NEW c \in Client, SyncInvokeReturn(c)
  PROVE  TypeOK'
<1>0. QueueType /\ WakeType /\ StackType /\ UserType /\ HistoryType
  BY TypeParts
<1>1. StackType'
  BY <1>0 DEF SyncInvokeReturn, StackType, stackVars
<1>2. WakeType'
  BY <1>0 DEF SyncInvokeReturn, WakeType, wakeVars
<1>3. QueueType' /\ UserType' /\ HistoryType'
  BY <1>0 DEF SyncInvokeReturn, QueueType, UserType, HistoryType, queueVars, clientVars, history
<1> QED
  BY <1>1, <1>2, <1>3, TypeParts

LEMMA StartTypes ==
  ASSUME TypeOK, NEW c \in Client, Start(c)
  PROVE  TypeOK'
<1>0. QueueType /\ WakeType /\ StackType /\ UserType /\ HistoryType
  BY TypeParts
<1>1. StackType'
  BY <1>0, NewFrameType, PcTypes, PushType DEF Start
<1>2. WakeType'
  BY <1>0 DEF Start, WakeType
<1>3. QueueType' /\ UserType' /\ HistoryType'
  BY <1>0, FlagTypes DEF Start, QueueType, UserType, HistoryType, queueVars, clientVars, history
<1> QED
  BY <1>1, <1>2, <1>3, TypeParts

LEMMA StartReturnTypes ==
  ASSUME TypeOK, NEW c \in Client, StartReturn(c)
  PROVE  TypeOK'
<1>0. QueueType /\ WakeType /\ StackType /\ UserType /\ HistoryType
  BY TypeParts
<1>1. StackType'
  BY <1>0 DEF StartReturn, StackType, stackVars
<1>2. WakeType'
  BY <1>0 DEF StartReturn, WakeType, wakeVars
<1>3. QueueType' /\ UserType' /\ HistoryType'
  BY <1>0 DEF StartReturn, QueueType, UserType, HistoryType, queueVars, clientVars, history
<1> QED
  BY <1>1, <1>2, <1>3, TypeParts

LEMMA RequestInterruptTypes ==
  ASSUME TypeOK, NEW p \in Client \cup {Loop}, RequestInterrupt(p)
  PROVE  TypeOK'
<1>0. QueueType /\ WakeType /\ StackType /\ UserType /\ HistoryType
  BY TypeParts
<1>a. p = Loop => depth > 0
  BY <1>0, CallerTypes DEF RequestInterrupt
<1>1. StackType'
  BY <1>0, <1>a, SpendType DEF RequestInterrupt
<1>2. WakeType'
  BY <1>0, WakeTypes DEF RequestInterrupt
<1>3. QueueType' /\ UserType' /\ HistoryType'
  BY <1>0, FlagTypes DEF RequestInterrupt, QueueType, UserType, HistoryType, queueVars, clientVars, history
<1> QED
  BY <1>1, <1>2, <1>3, TypeParts

LEMMA WaitInterruptedTypes ==
  ASSUME TypeOK, NEW c \in Client, WaitInterrupted(c)
  PROVE  TypeOK'
<1>0. QueueType /\ WakeType /\ StackType /\ UserType /\ HistoryType
  BY TypeParts
<1>1. StackType'
  BY <1>0 DEF WaitInterrupted, StackType, stackVars
<1>2. WakeType'
  BY <1>0 DEF WaitInterrupted, WakeType, wakeVars
<1>3. QueueType' /\ UserType' /\ HistoryType'
  BY <1>0 DEF WaitInterrupted, QueueType, UserType, HistoryType, queueVars, clientVars, history
<1> QED
  BY <1>1, <1>2, <1>3, TypeParts

LEMMA WaitInterruptedWakesTypes ==
  ASSUME TypeOK, NEW c \in Client, WaitInterruptedWakes(c)
  PROVE  TypeOK'
<1>0. QueueType /\ WakeType /\ StackType /\ UserType /\ HistoryType
  BY TypeParts
<1>1. StackType'
  BY <1>0 DEF WaitInterruptedWakes, StackType, stackVars
<1>2. WakeType'
  BY <1>0 DEF WaitInterruptedWakes, WakeType, wakeVars
<1>3. QueueType' /\ UserType' /\ HistoryType'
  BY <1>0 DEF WaitInterruptedWakes, QueueType, UserType, HistoryType, queueVars, clientVars, history
<1> QED
  BY <1>1, <1>2, <1>3, TypeParts

LEMMA WaitFinishedTypes ==
  ASSUME TypeOK, NEW c \in Client, WaitFinished(c)
  PROVE  TypeOK'
<1>0. QueueType /\ WakeType /\ StackType /\ UserType /\ HistoryType
  BY TypeParts
<1>1. StackType'
  BY <1>0 DEF WaitFinished, StackType, stackVars
<1>2. WakeType'
  BY <1>0 DEF WaitFinished, WakeType, wakeVars
<1>3. QueueType' /\ UserType' /\ HistoryType'
  BY <1>0 DEF WaitFinished, QueueType, UserType, HistoryType, queueVars, clientVars, history
<1> QED
  BY <1>1, <1>2, <1>3, TypeParts

LEMMA WaitFinishedWakesTypes ==
  ASSUME TypeOK, NEW c \in Client, WaitFinishedWakes(c)
  PROVE  TypeOK'
<1>0. QueueType /\ WakeType /\ StackType /\ UserType /\ HistoryType
  BY TypeParts
<1>1. StackType'
  BY <1>0 DEF WaitFinishedWakes, StackType, stackVars
<1>2. WakeType'
  BY <1>0 DEF WaitFinishedWakes, WakeType, wakeVars
<1>3. QueueType' /\ UserType' /\ HistoryType'
  BY <1>0 DEF WaitFinishedWakes, QueueType, UserType, HistoryType, queueVars, clientVars, history
<1> QED
  BY <1>1, <1>2, <1>3, TypeParts

LEMMA QuitTypes ==
  ASSUME TypeOK, NEW p \in Client \cup {Loop}, Quit(p)
  PROVE  TypeOK'
<1>0. QueueType /\ WakeType /\ StackType /\ UserType /\ HistoryType
  BY TypeParts
<1>a. p = Loop => depth > 0
  BY <1>0, CallerTypes DEF Quit
<1>1. StackType'
  BY <1>0, <1>a, SpendType DEF Quit
<1>2. WakeType'
  BY <1>0, QuitThreadTypes DEF Quit
<1>3. QueueType' /\ UserType' /\ HistoryType'
  BY <1>0, QuitThreadTypes DEF Quit, QueueType, UserType, HistoryType, queueVars, clientVars, history
<1> QED
  BY <1>1, <1>2, <1>3, TypeParts

LEMMA AppendPollTypes ==
  ASSUME TypeOK, NEW p \in Client \cup {Loop}, AppendPoll(p)
  PROVE  TypeOK'
<1>0. QueueType /\ WakeType /\ StackType /\ UserType /\ HistoryType
  BY TypeParts
<1>a. p = Loop => depth > 0
  BY <1>0, CallerTypes DEF AppendPoll
<1>1. StackType'
  BY <1>0, <1>a, SpendType DEF AppendPoll
<1>2. WakeType'
  BY <1>0, WakeTypes DEF AppendPoll, WakeType, wakeVars
<1>3. QueueType' /\ UserType' /\ HistoryType'
  BY <1>0 DEF AppendPoll, QueueType, UserType, HistoryType, queueVars, clientVars, history
<1> QED
  BY <1>1, <1>2, <1>3, TypeParts

LEMMA RemovePollTypes ==
  ASSUME TypeOK, NEW p \in Client \cup {Loop}, NEW t \in Task, RemovePoll(p, t)
  PROVE  TypeOK'
<1>0. QueueType /\ WakeType /\ StackType /\ UserType /\ HistoryType
  BY TypeParts
<1>a. p = Loop => depth > 0
  BY <1>0, CallerTypes DEF RemovePoll
<1>1. StackType'
  BY <1>0, <1>a, SpendType DEF RemovePoll
<1>2. WakeType'
  BY <1>0, WakeTypes DEF RemovePoll, WakeType, wakeVars
<1>3. QueueType' /\ UserType' /\ HistoryType'
  BY <1>0 DEF RemovePoll, QueueType, UserType, HistoryType, queueVars, clientVars, history
<1> QED
  BY <1>1, <1>2, <1>3, TypeParts

LEMMA InvokeDeleteTypes ==
  ASSUME TypeOK, NEW p \in Client \cup {Loop}, InvokeDelete(p)
  PROVE  TypeOK'
<1>0. QueueType /\ WakeType /\ StackType /\ UserType /\ HistoryType
  BY TypeParts
<1>a. removing[p] \in Task
  BY <1>0 DEF InvokeDelete, UserType
<1>1. StackType'
  BY <1>0 DEF InvokeDelete, StackType, stackVars
<1>2. WakeType'
  BY <1>0, <1>a, InvokeTaskTypes DEF InvokeDelete
<1>3. QueueType' /\ UserType' /\ HistoryType'
  BY <1>0, <1>a, InvokeTaskTypes DEF InvokeDelete, QueueType, UserType, HistoryType, queueVars, clientVars, history
<1> QED
  BY <1>1, <1>2, <1>3, TypeParts

LEMMA DestroyTypes ==
  ASSUME TypeOK, NEW c \in Client, Destroy(c)
  PROVE  TypeOK'
<1>0. QueueType /\ WakeType /\ StackType /\ UserType /\ HistoryType
  BY TypeParts
<1>a. ToSet(tasks) \subseteq Task
  BY <1>0 DEF QueueType, ToSet
<1>1. StackType'
  BY <1>0 DEF Destroy, StackType, stackVars
<1>2. WakeType'
  BY <1>0 DEF Destroy, WakeType, wakeVars
<1>3. QueueType' /\ UserType' /\ HistoryType'
  BY <1>0, <1>a DEF Destroy, QueueType, UserType, HistoryType, queueVars, clientVars, history
<1> QED
  BY <1>1, <1>2, <1>3, TypeParts

LEMMA WaitTypes ==
  ASSUME TypeOK, NEW w \in Waiter, Wait(w)
  PROVE  TypeOK'
<1>0. QueueType /\ WakeType /\ StackType /\ UserType /\ HistoryType
  BY TypeParts
<1>a. depth > 0
  BY <1>0, CallerTypes DEF Wait
<1>b. [NewFrame("entry") EXCEPT !.waiter = w] \in Frame
  BY PcTypes, NewFrameType DEF Frame
<1>1. StackType'
  <2> DEFINE g == [NewFrame("entry") EXCEPT !.waiter = w]
  <2>1. /\ depth + 1 <= MaxDepth /\ depth' = depth + 1
        /\ frame' = [frame EXCEPT ![depth].calls = @ + 1, ![depth + 1] = g]
    BY <1>0 DEF Wait, StackType
  <2>2. g \in Frame
    BY <1>b
  <2> HIDE DEF g
  <2> QED
    BY <1>0, <1>a, <2>1, <2>2, CallFrameType
<1>2. WakeType'
  BY <1>0 DEF Wait, WakeType, wakeVars
<1>3. QueueType' /\ UserType' /\ HistoryType'
  BY <1>0 DEF Wait, QueueType, UserType, HistoryType, queueVars, clientVars, history
<1> QED
  BY <1>1, <1>2, <1>3, TypeParts

LEMMA CompleteTypes ==
  ASSUME TypeOK, NEW w \in Waiter, Complete(w)
  PROVE  TypeOK'
<1>0. QueueType /\ WakeType /\ StackType /\ UserType /\ HistoryType
  BY TypeParts
<1>a. depth > 0
  BY <1>0, CallerTypes DEF Complete
<1>1. StackType'
  BY <1>0, <1>a, SpendType DEF Complete
<1>2. WakeType'
  BY <1>0, QuitIfRunningTypes DEF Complete
<1>3. QueueType' /\ UserType' /\ HistoryType'
  BY <1>0, QuitIfRunningTypes DEF Complete, QueueType, UserType, HistoryType, queueVars, clientVars, history
<1> QED
  BY <1>1, <1>2, <1>3, TypeParts

LEMMA SelfInvokeTypes ==
  ASSUME TypeOK, SelfInvoke
  PROVE  TypeOK'
<1>0. QueueType /\ WakeType /\ StackType /\ UserType /\ HistoryType
  BY TypeParts
<1>a. depth > 0
  BY <1>0, CallerTypes DEF SelfInvoke
<1>1. StackType'
  <2> DEFINE g == NewFrame("sync1")
  <2>1. /\ depth + 1 <= MaxDepth /\ depth' = depth + 1
        /\ frame' = [frame EXCEPT ![depth].calls = @ + 1, ![depth + 1] = g]
    BY <1>0 DEF SelfInvoke, StackType
  <2>2. g \in Frame
    BY PcTypes, NewFrameType
  <2> HIDE DEF g
  <2> QED
    BY <1>0, <1>a, <2>1, <2>2, CallFrameType
<1>2. WakeType'
  BY <1>0 DEF SelfInvoke, WakeType, wakeVars
<1>3. QueueType' /\ UserType' /\ HistoryType'
  BY <1>0 DEF SelfInvoke, QueueType, UserType, HistoryType, queueVars, clientVars, history
<1> QED
  BY <1>1, <1>2, <1>3, TypeParts

LEMMA SelfInvokeSwapTypes ==
  ASSUME TypeOK, SelfInvokeSwap
  PROVE  TypeOK'
<1>0. QueueType /\ WakeType /\ StackType /\ UserType /\ HistoryType
  BY TypeParts
<1>a. depth > 0
  BY DEF SelfInvokeSwap, At
<1>1. StackType'
  BY <1>0, <1>a, GotoType, PcTypes DEF SelfInvokeSwap
<1>2. WakeType'
  BY <1>0 DEF SelfInvokeSwap, WakeType, wakeVars
<1>3. QueueType' /\ UserType' /\ HistoryType'
  BY <1>0 DEF SelfInvokeSwap, QueueType, UserType, HistoryType, queueVars, clientVars, history
<1> QED
  BY <1>1, <1>2, <1>3, TypeParts

LEMMA SelfInvokeFunctionTypes ==
  ASSUME TypeOK, SelfInvokeFunction
  PROVE  TypeOK'
<1>0. QueueType /\ WakeType /\ StackType /\ UserType /\ HistoryType
  BY TypeParts
<1>a. depth > 0
  BY DEF SelfInvokeFunction, At
<1>1. StackType'
  BY <1>0, <1>a, GotoType, PcTypes DEF SelfInvokeFunction
<1>2. WakeType'
  BY <1>0 DEF SelfInvokeFunction, WakeType, wakeVars
<1>3. QueueType' /\ UserType' /\ HistoryType'
  BY <1>0 DEF SelfInvokeFunction, QueueType, UserType, HistoryType, queueVars, clientVars, history
<1> QED
  BY <1>1, <1>2, <1>3, TypeParts

LEMMA ThreadBeginsTypes ==
  ASSUME TypeOK, ThreadBegins
  PROVE  TypeOK'
<1>0. QueueType /\ WakeType /\ StackType /\ UserType /\ HistoryType
  BY TypeParts
<1>a. depth > 0
  BY DEF ThreadBegins, At
<1>1. StackType'
  BY <1>0, <1>a, GotoType, PcTypes DEF ThreadBegins
<1>2. WakeType'
  BY <1>0 DEF ThreadBegins, WakeType, wakeVars
<1>3. QueueType' /\ UserType' /\ HistoryType'
  BY <1>0 DEF ThreadBegins, QueueType, UserType, HistoryType, queueVars, clientVars, history
<1> QED
  BY <1>1, <1>2, <1>3, TypeParts

LEMMA LoopBeginsTypes ==
  ASSUME TypeOK, LoopBegins
  PROVE  TypeOK'
<1>0. QueueType /\ WakeType /\ StackType /\ UserType /\ HistoryType
  BY TypeParts
<1>a. depth > 0
  BY DEF LoopBegins, At
<1>1. StackType'
  BY <1>0, <1>a, GotoType, PcTypes DEF LoopBegins
<1>2. WakeType'
  BY <1>0 DEF LoopBegins, WakeType, wakeVars
<1>3. QueueType' /\ UserType' /\ HistoryType'
  BY <1>0 DEF LoopBegins, QueueType, UserType, HistoryType, queueVars, clientVars, history, Swap
<1> QED
  BY <1>1, <1>2, <1>3, TypeParts

LEMMA LastTasksTypes ==
  ASSUME TypeOK, LastTasks
  PROVE  TypeOK'
<1>0. QueueType /\ WakeType /\ StackType /\ UserType /\ HistoryType
  BY TypeParts
<1>a. depth > 0
  BY DEF LastTasks, At
<1>1. StackType'
  BY <1>0, <1>a, GotoType, PcTypes DEF LastTasks
<1>2. WakeType'
  BY <1>0 DEF LastTasks, WakeType, wakeVars
<1>3. QueueType' /\ UserType' /\ HistoryType'
  BY <1>0, FlagTypes DEF LastTasks, QueueType, UserType, HistoryType, queueVars, clientVars, history, Swap
<1> QED
  BY <1>1, <1>2, <1>3, TypeParts

LEMMA ExecReturnsTypes ==
  ASSUME TypeOK, ExecReturns
  PROVE  TypeOK'
<1>0. QueueType /\ WakeType /\ StackType /\ UserType /\ HistoryType
  BY TypeParts
<1>a. depth > 0
  BY DEF ExecReturns, At
<1>1. StackType'
  BY <1>0, <1>a, GotoType, PcTypes DEF ExecReturns
<1>2. WakeType'
  BY <1>0 DEF ExecReturns, WakeType, wakeVars
<1>3. QueueType' /\ UserType' /\ HistoryType'
  BY <1>0 DEF ExecReturns, QueueType, UserType, HistoryType, queueVars, clientVars, history
<1> QED
  BY <1>1, <1>2, <1>3, TypeParts

LEMMA RunTaskTypes ==
  ASSUME TypeOK, RunTask
  PROVE  TypeOK'
<1>0. QueueType /\ WakeType /\ StackType /\ UserType /\ HistoryType
  BY TypeParts
<1>b. Head(process_tasks) \in Task /\ Tail(process_tasks) \in Seq(Task)
  BY <1>0 DEF RunTask, QueueType
<1>a. [NewFrame("body") EXCEPT !.task = Head(process_tasks)] \in Frame
  BY <1>b, PcTypes, NewFrameType DEF Frame
<1>1. StackType'
  BY <1>0, <1>a, PushType DEF RunTask
<1>2. WakeType'
  BY <1>0 DEF RunTask, WakeType, wakeVars
<1>3. QueueType' /\ UserType' /\ HistoryType'
  BY <1>0, <1>b DEF RunTask, QueueType, UserType, HistoryType, queueVars, clientVars, history
<1> QED
  BY <1>1, <1>2, <1>3, TypeParts

LEMMA RunCallbackTypes ==
  ASSUME TypeOK, RunCallback
  PROVE  TypeOK'
<1>0. QueueType /\ WakeType /\ StackType /\ UserType /\ HistoryType
  BY TypeParts
<1>1. StackType'
  BY <1>0, PcTypes, NewFrameType, PushType DEF RunCallback
<1>2. WakeType'
  BY <1>0 DEF RunCallback, WakeType, wakeVars
<1>3. QueueType' /\ UserType' /\ HistoryType'
  BY <1>0 DEF RunCallback, QueueType, UserType, HistoryType, queueVars, clientVars, history
<1> QED
  BY <1>1, <1>2, <1>3, TypeParts

LEMMA BodyReturnsTypes ==
  ASSUME TypeOK, BodyReturns
  PROVE  TypeOK'
<1>0. QueueType /\ WakeType /\ StackType /\ UserType /\ HistoryType
  BY TypeParts
<1>a. depth > 0
  BY DEF BodyReturns, At
<1>b. Top.task \in Task \cup {None}
  BY <1>0, <1>a DEF StackType, Top, Frame
<1>1. StackType'
  BY <1>0, <1>a, PopType DEF BodyReturns
<1>2. WakeType'
  BY <1>0 DEF BodyReturns, WakeType, wakeVars
<1>3. QueueType' /\ UserType' /\ HistoryType'
  BY <1>0, <1>b DEF BodyReturns, QueueType, UserType, HistoryType, queueVars, clientVars, history
<1> QED
  BY <1>1, <1>2, <1>3, TypeParts

LEMMA ThreadEndsTypes ==
  ASSUME TypeOK, ThreadEnds
  PROVE  TypeOK'
<1>0. QueueType /\ WakeType /\ StackType /\ UserType /\ HistoryType
  BY TypeParts
<1>a. depth > 0
  BY DEF ThreadEnds, At
<1>1. StackType'
  BY <1>0, <1>a, PopType DEF ThreadEnds
<1>2. WakeType'
  BY <1>0 DEF ThreadEnds, WakeType
<1>3. QueueType' /\ UserType' /\ HistoryType'
  BY <1>0, FlagTypes DEF ThreadEnds, QueueType, UserType, HistoryType, queueVars, clientVars, history
<1> QED
  BY <1>1, <1>2, <1>3, TypeParts

LEMMA LoopContinuesTypes ==
  ASSUME TypeOK, LoopContinues
  PROVE  TypeOK'
<1>0. QueueType /\ WakeType /\ StackType /\ UserType /\ HistoryType
  BY TypeParts
<1>a. depth > 0
  BY DEF LoopContinues, At
<1>b. /\ StackType' /\ state' \subseteq Flag /\ callbacks' \in Nat
      /\ wake' \in BOOLEAN /\ cv' \subseteq Client \cup {Loop}
      /\ tasks' \in Seq(Task) /\ process_tasks' \in Seq(Task)
  BY <1>0, <1>a, ContinueTypes DEF LoopContinues, WakeType
<1>1. StackType'
  BY <1>0, <1>b DEF LoopContinues
<1>2. WakeType'
  BY <1>0, <1>b DEF LoopContinues, WakeType
<1>3. QueueType' /\ UserType' /\ HistoryType'
  BY <1>0, <1>b DEF LoopContinues, LoopUnchanged, QueueType, UserType, HistoryType, queueVars, clientVars, history
<1> QED
  BY <1>1, <1>2, <1>3, TypeParts

LEMMA CvWakesTypes ==
  ASSUME TypeOK, CvWakes
  PROVE  TypeOK'
<1>0. QueueType /\ WakeType /\ StackType /\ UserType /\ HistoryType
  BY TypeParts
<1>a. depth > 0
  BY DEF CvWakes, At
<1>b. /\ StackType' /\ state' \subseteq Flag /\ callbacks' \in Nat
      /\ wake' \in BOOLEAN /\ cv' \subseteq Client \cup {Loop}
      /\ tasks' \in Seq(Task) /\ process_tasks' \in Seq(Task)
  BY <1>0, <1>a, ContinueTypes DEF CvWakes, WakeType
<1>1. StackType'
  BY <1>0, <1>b DEF CvWakes
<1>2. WakeType'
  BY <1>0, <1>b DEF CvWakes, WakeType
<1>3. QueueType' /\ UserType' /\ HistoryType'
  BY <1>0, <1>b DEF CvWakes, LoopUnchanged, QueueType, UserType, HistoryType, queueVars, clientVars, history
<1> QED
  BY <1>1, <1>2, <1>3, TypeParts

LEMMA EpollWakesTypes ==
  ASSUME TypeOK, EpollWakes
  PROVE  TypeOK'
<1>0. QueueType /\ WakeType /\ StackType /\ UserType /\ HistoryType
  BY TypeParts
<1>a. depth > 0
  BY DEF EpollWakes, At
<1>b. /\ StackType' /\ state' \subseteq Flag /\ callbacks' \in Nat
      /\ wake' \in BOOLEAN /\ cv' \subseteq Client \cup {Loop}
      /\ tasks' \in Seq(Task) /\ process_tasks' \in Seq(Task)
  BY <1>0, <1>a, ContinueTypes DEF EpollWakes, WakeType
<1>1. StackType'
  BY <1>0, <1>b DEF EpollWakes
<1>2. WakeType'
  BY <1>0, <1>b DEF EpollWakes, WakeType
<1>3. QueueType' /\ UserType' /\ HistoryType'
  BY <1>0, <1>b DEF EpollWakes, LoopUnchanged, QueueType, UserType, HistoryType, queueVars, clientVars, history
<1> QED
  BY <1>1, <1>2, <1>3, TypeParts

LEMMA EpollTimesOutTypes ==
  ASSUME TypeOK, EpollTimesOut
  PROVE  TypeOK'
<1>0. QueueType /\ WakeType /\ StackType /\ UserType /\ HistoryType
  BY TypeParts
<1>a. depth > 0
  BY DEF EpollTimesOut, At
<1>b. /\ StackType' /\ state' \subseteq Flag /\ callbacks' \in Nat
      /\ wake' \in BOOLEAN /\ cv' \subseteq Client \cup {Loop}
      /\ tasks' \in Seq(Task) /\ process_tasks' \in Seq(Task)
  BY <1>0, <1>a, ContinueTypes DEF EpollTimesOut, WakeType
<1>1. StackType'
  BY <1>0, <1>b DEF EpollTimesOut
<1>2. WakeType'
  BY <1>0, <1>b DEF EpollTimesOut, WakeType
<1>3. QueueType' /\ UserType' /\ HistoryType'
  BY <1>0, <1>b DEF EpollTimesOut, LoopUnchanged, QueueType, UserType, HistoryType, queueVars, clientVars, history
<1> QED
  BY <1>1, <1>2, <1>3, TypeParts

LEMMA CallbacksDoneTypes ==
  ASSUME TypeOK, CallbacksDone
  PROVE  TypeOK'
<1>0. QueueType /\ WakeType /\ StackType /\ UserType /\ HistoryType
  BY TypeParts
<1>a. depth > 0
  BY DEF CallbacksDone, At
<1>b. /\ StackType' /\ state' \subseteq Flag /\ callbacks' \in Nat
      /\ wake' \in BOOLEAN /\ cv' \subseteq Client \cup {Loop}
      /\ tasks' \in Seq(Task) /\ process_tasks' \in Seq(Task)
  BY <1>0, <1>a, ContinueTypes DEF CallbacksDone, WakeType
<1>1. StackType'
  BY <1>0, <1>b DEF CallbacksDone
<1>2. WakeType'
  BY <1>0, <1>b DEF CallbacksDone, WakeType
<1>3. QueueType' /\ UserType' /\ HistoryType'
  BY <1>0, <1>b DEF CallbacksDone, LoopUnchanged, QueueType, UserType, HistoryType, queueVars, clientVars, history
<1> QED
  BY <1>1, <1>2, <1>3, TypeParts

LEMMA OverloadDoneTypes ==
  ASSUME TypeOK, OverloadDone
  PROVE  TypeOK'
<1>0. QueueType /\ WakeType /\ StackType /\ UserType /\ HistoryType
  BY TypeParts
<1>a. depth > 0
  BY DEF OverloadDone, At
<1>b. /\ StackType' /\ state' \subseteq Flag /\ callbacks' \in Nat
      /\ wake' \in BOOLEAN /\ cv' \subseteq Client \cup {Loop}
  BY <1>0, <1>a, IdleTypes DEF OverloadDone, WakeType
<1>1. StackType'
  BY <1>0, <1>b DEF OverloadDone
<1>2. WakeType'
  BY <1>0, <1>b DEF OverloadDone, WakeType
<1>3. QueueType' /\ UserType' /\ HistoryType'
  BY <1>0, <1>b DEF OverloadDone, LoopUnchanged, QueueType, UserType, HistoryType, queueVars, clientVars, history
<1> QED
  BY <1>1, <1>2, <1>3, TypeParts

LEMMA CvTimesOutTypes ==
  ASSUME TypeOK, CvTimesOut
  PROVE  TypeOK'
<1>0. QueueType /\ WakeType /\ StackType /\ UserType /\ HistoryType
  BY TypeParts
<1>a. depth > 0
  BY DEF CvTimesOut, At
<1>b. /\ StackType' /\ state' \subseteq Flag /\ callbacks' \in Nat
      /\ wake' \in BOOLEAN /\ cv' \subseteq Client \cup {Loop}
      /\ tasks' \in Seq(Task) /\ process_tasks' \in Seq(Task)
  <2>1. CASE Continue(wake)
    BY <1>0, <1>a, <2>1, ContinueTypes DEF WakeType
  <2>2. CASE Goto("tasks") /\ cv' = cv \ {Loop} /\ UNCHANGED <<state, queueVars, callbacks, wake>>
    <3>1. StackType'
      BY <1>0, <1>a, <2>2, GotoType, PcTypes
    <3> QED
      BY <1>0, <2>2, <3>1 DEF QueueType, WakeType, queueVars
  <2> QED
    BY <2>1, <2>2 DEF CvTimesOut
<1>2. WakeType'
  BY <1>0, <1>b DEF CvTimesOut, WakeType
<1>3. QueueType' /\ UserType' /\ HistoryType'
  BY <1>0, <1>b DEF CvTimesOut, LoopUnchanged, QueueType, UserType, HistoryType, clientVars, history
<1> QED
  BY <1>b, <1>2, <1>3, TypeParts

LEMMA EpollReportsTypes ==
  ASSUME TypeOK, EpollReports
  PROVE  TypeOK'
<1>0. QueueType /\ WakeType /\ StackType /\ UserType /\ HistoryType
  BY TypeParts
<1>a. depth > 0
  BY DEF EpollReports, At
<1>1. StackType'
  BY <1>0, <1>a, GotoType, PcTypes DEF EpollReports
<1>2. WakeType'
  BY <1>0 DEF EpollReports, WakeType
<1>3. QueueType' /\ UserType' /\ HistoryType'
  BY <1>0 DEF EpollReports, LoopUnchanged, QueueType, UserType, HistoryType, queueVars, clientVars, history
<1> QED
  BY <1>1, <1>2, <1>3, TypeParts

LEMMA ExecBeginsTypes ==
  ASSUME TypeOK, ExecBegins
  PROVE  TypeOK'
<1>0. QueueType /\ WakeType /\ StackType /\ UserType /\ HistoryType
  BY TypeParts
<1>1. depth \in 1..MaxDepth /\ frame[depth] \in Frame
  BY <1>0 DEF ExecBegins, At, StackType
<1>2. nested' \in Nat
  BY <1>0 DEF ExecBegins, QueueType
<1>3. PICK pc \in {"started", "drainTasks", "drainCalls", "tasks"} :
        frame' = [frame EXCEPT ![depth].pc = pc, ![depth].nested = nested']
  BY DEF ExecBegins
<1>4. StackType'
  <2> DEFINE f == [frame[depth] EXCEPT !.pc = pc, !.nested = nested']
  <2>1. pc \in Pc
    BY PcTypes
  <2>2. f \in Frame
    BY <1>1, <1>2, <2>1 DEF Frame
  <2>3. frame' = [frame EXCEPT ![depth] = f]
    BY <1>0, <1>1, <1>3 DEF StackType
  <2>4. depth' = depth
    BY DEF ExecBegins
  <2> HIDE DEF f
  <2> QED
    BY <1>0, <1>1, <2>2, <2>3, <2>4 DEF StackType
<1>5. WakeType'
  BY <1>0 DEF ExecBegins, WakeType, wakeVars
<1>6. state' \subseteq Flag /\ tasks' \in Seq(Task) /\ process_tasks' \in Seq(Task)
  BY <1>0, FlagTypes DEF ExecBegins, QueueType, queueVars, Swap
<1>7. callbacks' = callbacks /\ polls' = polls /\ UNCHANGED <<waiting, clientVars, destroyed, history>>
  BY DEF ExecBegins
<1>8. QueueType' /\ UserType' /\ HistoryType'
  BY <1>0, <1>2, <1>6, <1>7 DEF QueueType, UserType, HistoryType, clientVars, history
<1> QED
  BY <1>4, <1>5, <1>8, TypeParts

LEMMA ExecEndsTypes ==
  ASSUME TypeOK, ExecEnds
  PROVE  TypeOK'
<1>0. QueueType /\ WakeType /\ StackType /\ UserType /\ HistoryType
  BY TypeParts
<1>a. depth > 0
  BY DEF ExecEnds, At
<1>b. Goto("ended") \/ Goto("exited") \/ Goto("finishing")
  BY DEF ExecEnds
<1>c. state' \subseteq state
  BY DEF ExecEnds
<1>1. StackType'
  BY <1>0, <1>a, <1>b, GotoType, PcTypes DEF ExecEnds
<1>2. WakeType'
  BY <1>0 DEF ExecEnds, WakeType, wakeVars
<1>3. QueueType' /\ UserType' /\ HistoryType'
  BY <1>0, <1>c DEF ExecEnds, QueueType, UserType, HistoryType, queueVars, clientVars, history
<1> QED
  BY <1>1, <1>2, <1>3, TypeParts

LEMMA WaitFrameTypes ==
  ASSUME StackType, At("exited") \/ At("quits"), NEW pc \in Pc, NEW q \in Nat,
         frame' = [frame EXCEPT ![depth].pc = pc, ![depth].q = q], depth' = depth
  PROVE  StackType'
<1>1. depth \in 1..MaxDepth /\ frame[depth] \in Frame
  BY DEF At, StackType
<1> DEFINE f == [frame[depth] EXCEPT !.pc = pc, !.q = q]
<1>2. f \in Frame
  BY <1>1 DEF Frame
<1>3. frame' = [frame EXCEPT ![depth] = f]
  BY <1>1 DEF StackType
<1> HIDE DEF f
<1> QED
  BY <1>1, <1>2, <1>3 DEF StackType

LEMMA WaitChecksTypes ==
  ASSUME TypeOK, WaitChecks
  PROVE  TypeOK'
<1>0. QueueType /\ WakeType /\ StackType /\ UserType /\ HistoryType
  BY TypeParts
<1>a. depth > 0
  BY DEF WaitChecks, At
<1>b. depth \in 1..MaxDepth /\ frame[depth] \in Frame
  BY <1>0, <1>a DEF StackType
<1>c. frame[depth].q + 1 \in Nat
  BY <1>b DEF Frame
<1>d. frame' = [frame EXCEPT ![depth].pc = "entry", ![depth].q = @ + 1] /\ depth' = depth => StackType'
  <2> SUFFICES ASSUME frame' = [frame EXCEPT ![depth].pc = "entry", ![depth].q = @ + 1], depth' = depth
               PROVE  StackType'
    OBVIOUS
  <2> DEFINE n == frame[depth].q + 1
  <2>1. frame' = [frame EXCEPT ![depth].pc = "entry", ![depth].q = n]
    BY <1>0, <1>b DEF StackType
  <2> QED
    BY <1>0, <1>c, <2>1, PcTypes, WaitFrameTypes DEF WaitChecks
<1>e. \/ frame' = [frame EXCEPT ![depth].pc = "entry", ![depth].q = @ + 1] /\ depth' = depth
      \/ Goto("quits") \/ Pop
  BY DEF WaitChecks
<1>1. StackType'
  BY <1>0, <1>a, <1>c, <1>d, <1>e, GotoType, PcTypes, PopType DEF WaitChecks
<1>2. WakeType'
  BY <1>0 DEF WaitChecks, WakeType, wakeVars
<1>3. QueueType' /\ UserType' /\ HistoryType'
  BY <1>0 DEF WaitChecks, QueueType, UserType, HistoryType, queueVars, clientVars, history
<1> QED
  BY <1>1, <1>2, <1>3, TypeParts

LEMMA WaitQuitsTypes ==
  ASSUME TypeOK, WaitQuits
  PROVE  TypeOK'
<1>0. QueueType /\ WakeType /\ StackType /\ UserType /\ HistoryType
  BY TypeParts
<1>a. depth > 0
  BY DEF WaitQuits, At
<1>b. depth \in 1..MaxDepth /\ frame[depth] \in Frame
  BY <1>0, <1>a DEF StackType
<1>d. frame' = [frame EXCEPT ![depth].q = @ - 1] /\ Top.q > 1 /\ depth' = depth => StackType'
  <2> SUFFICES ASSUME frame' = [frame EXCEPT ![depth].q = @ - 1], Top.q > 1, depth' = depth
               PROVE  StackType'
    OBVIOUS
  <2> DEFINE f == [frame[depth] EXCEPT !.q = frame[depth].q - 1]
  <2>1. frame[depth].q - 1 \in Nat
    BY <1>b DEF Frame, Top
  <2>2. f \in Frame
    BY <1>b, <2>1 DEF Frame
  <2>3. frame' = [frame EXCEPT ![depth] = f]
    BY <1>b
  <2> HIDE DEF f
  <2> QED
    BY <1>0, <1>b, <2>2, <2>3 DEF StackType
<1>1. StackType'
  BY <1>0, <1>a, <1>d, PopType DEF WaitQuits
<1>2. WakeType'
  BY <1>0, QuitIfRunningTypes DEF WaitQuits, WakeType, wakeVars
<1>3. QueueType' /\ UserType' /\ HistoryType'
  BY <1>0, QuitIfRunningTypes DEF WaitQuits, QueueType, UserType, HistoryType, queueVars, clientVars, history
<1> QED
  BY <1>1, <1>2, <1>3, TypeParts

LEMMA SpuriousWakeupTypes ==
  ASSUME TypeOK, NEW p \in Client \cup {Loop}, SpuriousWakeup(p)
  PROVE  TypeOK'
<1>0. QueueType /\ WakeType /\ StackType /\ UserType /\ HistoryType
  BY TypeParts
<1>1. StackType'
  BY <1>0 DEF SpuriousWakeup, StackType, stackVars
<1>2. WakeType'
  BY <1>0 DEF SpuriousWakeup, WakeType
<1>3. QueueType' /\ UserType' /\ HistoryType'
  BY <1>0 DEF SpuriousWakeup, QueueType, UserType, HistoryType, queueVars, clientVars, history
<1> QED
  BY <1>1, <1>2, <1>3, TypeParts

LEMMA InitTypes == Init => TypeOK
<1> SUFFICES ASSUME Init PROVE TypeOK
  OBVIOUS
<1>1. StackType
  BY NewFrameType, PcTypes DEF Init, StackType, NoFrame
<1>2. WakeType
  BY DEF Init, WakeType
<1>3. QueueType
  BY FlagTypes DEF Init, QueueType
<1>4. UserType
  <2>1. waiting \in [Waiter -> BOOLEAN] /\ destroyed \in BOOLEAN
    BY Zenon DEF Init
  <2>2. /\ call \in [Client -> {"none", "sync", "start", "interrupted", "finished"}]
        /\ waitsFor \in [Client -> Task \cup {None}]
        /\ removing \in [Client \cup {Loop} -> Task \cup {None}]
    BY DEF Init
  <2> QED
    BY <2>1, <2>2 DEF UserType
<1>5. HistoryType
  <2>1. /\ accepted = <<>> /\ ran = <<>> /\ refused = {} /\ done = {} /\ told = "no"
        /\ <<>> \in Seq(Task)
    BY DEF Init
  <2> QED
    BY <2>1 DEF HistoryType
<1> QED
  BY <1>1, <1>2, <1>3, <1>4, <1>5, TypeParts

LEMMA NextTypes == TypeOK /\ [Next]_vars => TypeOK'
<1> SUFFICES ASSUME TypeOK, [Next]_vars PROVE TypeOK'
  OBVIOUS
<1>1. CASE LoopStep
  BY <1>1, ThreadBeginsTypes, ExecBeginsTypes, LoopBeginsTypes, RunTaskTypes, RunCallbackTypes, BodyReturnsTypes, SelfInvokeSwapTypes, SelfInvokeFunctionTypes, LoopContinuesTypes, OverloadDoneTypes, CvWakesTypes, EpollWakesTypes, CallbacksDoneTypes, ExecEndsTypes, LastTasksTypes, ExecReturnsTypes, ThreadEndsTypes, WaitChecksTypes, WaitQuitsTypes, InvokeDeleteTypes
     DEF LoopStep
<1>2. CASE SleepEnds
  BY <1>2, CvTimesOutTypes, EpollTimesOutTypes, EpollReportsTypes DEF SleepEnds
<1>3. ASSUME NEW c \in Client, ClientStep(c) PROVE TypeOK'
  BY <1>3, SyncInvokeReturnTypes, StartReturnTypes, InvokeDeleteTypes, WaitInterruptedWakesTypes, WaitFinishedWakesTypes DEF ClientStep
<1>4. CASE CallStep
  BY <1>4, InvokeTypes, RemovePollTypes, RequestInterruptTypes, QuitTypes, AppendPollTypes, SyncInvokeTypes, StartTypes, WaitInterruptedTypes, WaitFinishedTypes, DestroyTypes, WaitTypes, CompleteTypes, SelfInvokeTypes DEF CallStep
<1>5. ASSUME NEW p \in Client \cup {Loop}, SpuriousWakeup(p) PROVE TypeOK'
  BY <1>5, SpuriousWakeupTypes
<1>6. CASE UNCHANGED vars
  BY <1>6, TypeParts DEF TypeOK, vars, queueVars, wakeVars, stackVars, clientVars, history
<1> QED
  BY <1>1, <1>2, <1>3, <1>4, <1>5, <1>6 DEF Next, Gone

(***************************************************************************)
(* Type correctness.                                                        *)
(***************************************************************************)
THEOREM TypeCorrect == Spec => []TypeOK
<1>1. Init => TypeOK
  BY InitTypes
<1>2. TypeOK /\ [Next]_vars => TypeOK'
  BY NextTypes
<1> QED
  BY <1>1, <1>2, PTL DEF Spec

-----------------------------------------------------------------------------
(***************************************************************************)
(* What the operations on the stack do to the frames, for the proofs of the *)
(* invariants: the calls a callback has made do not matter to them.         *)
(***************************************************************************)
SameFrame(i) ==
  /\ frame'[i].pc = frame[i].pc /\ frame'[i].nested = frame[i].nested
  /\ frame'[i].waiter = frame[i].waiter /\ frame'[i].q = frame[i].q
SameFrames == depth' = depth /\ \A i \in 1..depth : SameFrame(i)

LEMMA GotoEffect ==
  ASSUME StackType, depth > 0, NEW pc, Goto(pc)
  PROVE  /\ depth' = depth /\ frame'[depth].pc = pc
         /\ frame'[depth].nested = frame[depth].nested
         /\ frame'[depth].waiter = frame[depth].waiter
         /\ frame'[depth].q = frame[depth].q
         /\ \A i \in 1..MaxDepth \ {depth} : frame'[i] = frame[i]
<1>1. depth \in 1..MaxDepth /\ frame[depth] \in Frame
  BY DEF StackType
<1> DEFINE f == [frame[depth] EXCEPT !.pc = pc]
<1>2. /\ f.pc = pc /\ f.nested = frame[depth].nested
      /\ f.waiter = frame[depth].waiter /\ f.q = frame[depth].q
  BY <1>1 DEF Frame
<1>3. frame' = [frame EXCEPT ![depth] = f] /\ depth' = depth
  BY DEF Goto
<1> HIDE DEF f
<1> QED
  BY <1>1, <1>2, <1>3 DEF StackType

LEMMA PushEffect ==
  ASSUME StackType, NEW f, Push(f)
  PROVE  /\ depth' = depth + 1 /\ frame'[depth + 1] = f
         /\ \A i \in 1..depth : frame'[i] = frame[i]
BY DEF StackType, Push

LEMMA PopEffect ==
  ASSUME StackType, depth > 0, Pop
  PROVE  /\ depth' = depth - 1
         /\ \A i \in 1..depth - 1 : frame'[i] = frame[i]
BY DEF StackType, Pop

LEMMA SpendEffect ==
  ASSUME StackType, NEW p, p = Loop => depth > 0, Spend(p)
  PROVE  SameFrames
<1>1. CASE p = Loop
  <2>1. depth \in 1..MaxDepth /\ frame[depth] \in Frame
    BY <1>1 DEF StackType
  <2> DEFINE f == [frame[depth] EXCEPT !.calls = frame[depth].calls + 1]
  <2>2. /\ f.pc = frame[depth].pc /\ f.nested = frame[depth].nested
        /\ f.waiter = frame[depth].waiter /\ f.q = frame[depth].q
    BY <2>1 DEF Frame
  <2>3. frame' = [frame EXCEPT ![depth] = f] /\ depth' = depth
    BY <1>1 DEF Spend
  <2> HIDE DEF f
  <2> QED
    BY <2>1, <2>2, <2>3 DEF StackType, SameFrames, SameFrame
<1>2. CASE p # Loop
  BY <1>2 DEF StackType, Spend, stackVars, SameFrames, SameFrame
<1> QED
  BY <1>1, <1>2

LEMMA CallFrameEffect ==
  ASSUME StackType, depth > 0, depth + 1 <= MaxDepth, NEW g,
         frame' = [frame EXCEPT ![depth].calls = @ + 1, ![depth + 1] = g]
  PROVE  /\ frame'[depth + 1] = g
         /\ \A i \in 1..depth : SameFrame(i)
<1>1. depth \in 1..MaxDepth /\ frame[depth] \in Frame
  BY DEF StackType
<1> DEFINE f == [frame[depth] EXCEPT !.calls = frame[depth].calls + 1]
<1>2. /\ f.pc = frame[depth].pc /\ f.nested = frame[depth].nested
      /\ f.waiter = frame[depth].waiter /\ f.q = frame[depth].q
  BY <1>1 DEF Frame
<1>3. frame' = [frame EXCEPT ![depth] = f, ![depth + 1] = g]
  OBVIOUS
<1> HIDE DEF f
<1>4. /\ frame'[depth + 1] = g /\ frame'[depth] = f
      /\ \A i \in 1..depth - 1 : frame'[i] = frame[i]
  BY <1>1, <1>3 DEF StackType
<1>5. \A i \in 1..depth : i = depth \/ i \in 1..depth - 1
  BY <1>1
<1> QED
  BY <1>2, <1>4, <1>5 DEF SameFrame

-----------------------------------------------------------------------------
WithinLimit == Len(tasks) <= OverloadSize

(***************************************************************************)
(* Steps that leave the program counters alone: a call of wake() ends the   *)
(* sleep; without one nothing may be added for the loop to do.              *)
(***************************************************************************)
LEMMA SamePcsKeep ==
  ASSUME StackType, BelowTop, NoOverload, SameFrames
  PROVE  /\ BelowTop' /\ NoOverload'
         /\ \A pc \in Pc : At(pc)' <=> At(pc)
BY DEF StackType, BelowTop, NoOverload, SameFrames, SameFrame, At, Top

LEMMA WakeEndsSleep ==
  ASSUME StackType, WakeType, QueueType, WakeInv, SameFrames, Wake
  PROVE  WakeInv'
<1>1. /\ BelowTop' /\ NoOverload'
      /\ \A pc \in Pc : At(pc)' <=> At(pc)
  BY SamePcsKeep DEF WakeInv
<1>2. At("sleepCv")' <=> At("sleepCv")
  BY <1>1, PcTypes
<1>3. At("sleepPoll")' <=> At("sleepPoll")
  BY <1>1, PcTypes
<1>4. ~Asleep'
  BY <1>2, <1>3 DEF WakeInv, SleepInv, Asleep, Wake, wakeVars, WakeType, QueueType
<1> QED
  BY <1>1, <1>4 DEF WakeInv, SleepInv, NoLostWakeup

LEMMA QuietStep ==
  ASSUME StackType, WakeInv, SameFrames, tasks' = tasks, state' = state, wake' = wake,
         Loop \in cv' => Loop \in cv, eventfd' = eventfd,
         polls' \in Nat, Asleep => (polls' = 0 <=> polls = 0)
  PROVE  WakeInv'
<1>1. /\ BelowTop' /\ NoOverload'
      /\ \A pc \in Pc : At(pc)' <=> At(pc)
  BY SamePcsKeep DEF WakeInv
<1>2. At("sleepCv")' <=> At("sleepCv")
  BY <1>1, PcTypes
<1>3. At("sleepPoll")' <=> At("sleepPoll")
  BY <1>1, PcTypes
<1>4. Asleep' => Asleep
  BY <1>2, <1>3 DEF Asleep
<1>5. Work' <=> Work
  BY DEF Work
<1> QED
  BY <1>1, <1>2, <1>3, <1>4, <1>5 DEF WakeInv, SleepInv, NoLostWakeup

\* Every other client action and call: it wakes the loop or it gives it nothing to do.
LEMMA InvokeTaskWakes ==
  ASSUME TypeOK, WakeInv, SameFrames, NEW t \in Task, InvokeTask(t), polls' = polls
  PROVE  WakeInv'
<1>0. StackType /\ WakeType /\ QueueType
  BY TypeParts
<1>1. CASE "Finished" \notin state
  BY <1>0, <1>1, WakeEndsSleep DEF InvokeTask
<1>2. CASE "Finished" \in state
  BY <1>0, <1>2, QuietStep DEF InvokeTask, wakeVars, QueueType
<1> QED
  BY <1>1, <1>2

LEMMA InvokeWake ==
  ASSUME TypeOK, WakeInv, NEW p \in Client \cup {Loop}, NEW t \in Task, Invoke(p, t)
  PROVE  WakeInv'
<1>0. StackType /\ WakeType /\ QueueType
  BY TypeParts
<1>1. SameFrames
  BY <1>0, CallerTypes, SpendEffect DEF Invoke
<1> QED
  BY <1>1, InvokeTaskWakes DEF Invoke

LEMMA SyncInvokeWake ==
  ASSUME TypeOK, WakeInv, NEW c \in Client, NEW t \in Task, SyncInvoke(c, t)
  PROVE  WakeInv'
<1>0. StackType /\ WakeType /\ QueueType
  BY TypeParts
<1>1. SameFrames
  BY DEF SyncInvoke, SameFrames, SameFrame, stackVars
<1> QED
  BY <1>1, InvokeTaskWakes DEF SyncInvoke

LEMMA InvokeDeleteWake ==
  ASSUME TypeOK, WakeInv, NEW p \in Client \cup {Loop}, InvokeDelete(p)
  PROVE  WakeInv'
<1>0. StackType /\ WakeType /\ QueueType
  BY TypeParts
<1>1. SameFrames
  BY DEF InvokeDelete, SameFrames, SameFrame, stackVars
<1>2. removing[p] \in Task
  BY DEF InvokeDelete, TypeOK
<1> QED
  BY <1>1, <1>2, InvokeTaskWakes DEF InvokeDelete

LEMMA RequestInterruptWake ==
  ASSUME TypeOK, WakeInv, NEW p \in Client \cup {Loop}, RequestInterrupt(p)
  PROVE  WakeInv'
<1>0. StackType /\ WakeType /\ QueueType
  BY TypeParts
<1>1. SameFrames
  BY <1>0, CallerTypes, SpendEffect DEF RequestInterrupt
<1> QED
  BY <1>0, <1>1, WakeEndsSleep DEF RequestInterrupt, QuitThread

LEMMA QuitWake ==
  ASSUME TypeOK, WakeInv, NEW p \in Client \cup {Loop}, Quit(p)
  PROVE  WakeInv'
<1>0. StackType /\ WakeType /\ QueueType
  BY TypeParts
<1>1. SameFrames
  BY <1>0, CallerTypes, SpendEffect DEF Quit
<1> QED
  BY <1>0, <1>1, WakeEndsSleep DEF Quit, QuitThread

LEMMA CompleteWake ==
  ASSUME TypeOK, WakeInv, NEW w \in Waiter, Complete(w)
  PROVE  WakeInv'
<1>0. StackType /\ WakeType /\ QueueType
  BY TypeParts
<1>1. SameFrames
  BY <1>0, CallerTypes, SpendEffect DEF Complete
<1>2. CASE QuitThread
  BY <1>0, <1>1, <1>2, WakeEndsSleep DEF QuitThread
<1>3. CASE UNCHANGED <<state, nested, wakeVars>>
  BY <1>0, <1>1, <1>3, QuietStep DEF Complete, queueVars, wakeVars, QueueType
<1> QED
  BY <1>2, <1>3 DEF Complete, QuitIfRunning

LEMMA AppendPollWake ==
  ASSUME TypeOK, WakeInv, NEW p \in Client \cup {Loop}, AppendPoll(p)
  PROVE  WakeInv'
<1>0. StackType /\ WakeType /\ QueueType
  BY TypeParts
<1>1. SameFrames
  BY <1>0, CallerTypes, SpendEffect DEF AppendPoll
<1>2. CASE polls = 0
  BY <1>0, <1>1, <1>2, WakeEndsSleep DEF AppendPoll
<1>3. CASE ~(polls = 0)
  BY <1>0, <1>1, <1>3, QuietStep DEF AppendPoll, wakeVars, queueVars, QueueType
<1> QED
  BY <1>2, <1>3

LEMMA RemovePollWake ==
  ASSUME TypeOK, WakeInv, NEW p \in Client \cup {Loop}, NEW t \in Task, RemovePoll(p, t)
  PROVE  WakeInv'
<1>0. StackType /\ WakeType /\ QueueType
  BY TypeParts
<1>1. SameFrames
  BY <1>0, CallerTypes, SpendEffect DEF RemovePoll
<1>2. CASE polls = 1
  BY <1>0, <1>1, <1>2, WakeEndsSleep DEF RemovePoll
<1>3. CASE ~(polls = 1)
  BY <1>0, <1>1, <1>3, QuietStep DEF RemovePoll, wakeVars, queueVars, QueueType
<1> QED
  BY <1>2, <1>3

LEMMA SyncInvokeReturnWake ==
  ASSUME TypeOK, WakeInv, NEW c \in Client, SyncInvokeReturn(c)
  PROVE  WakeInv'
<1>0. StackType /\ WakeType /\ QueueType
  BY TypeParts
<1>1. SameFrames
  BY DEF SyncInvokeReturn, SameFrames, SameFrame, stackVars
<1> QED
  BY <1>0, <1>1, QuietStep DEF SyncInvokeReturn, wakeVars, queueVars, QueueType, WakeInv

LEMMA StartReturnWake ==
  ASSUME TypeOK, WakeInv, NEW c \in Client, StartReturn(c)
  PROVE  WakeInv'
<1>0. StackType /\ WakeType /\ QueueType
  BY TypeParts
<1>1. SameFrames
  BY DEF StartReturn, SameFrames, SameFrame, stackVars
<1> QED
  BY <1>0, <1>1, QuietStep DEF StartReturn, wakeVars, queueVars, QueueType, WakeInv

LEMMA WaitInterruptedWake ==
  ASSUME TypeOK, WakeInv, NEW c \in Client, WaitInterrupted(c)
  PROVE  WakeInv'
<1>0. StackType /\ WakeType /\ QueueType
  BY TypeParts
<1>1. SameFrames
  BY DEF WaitInterrupted, SameFrames, SameFrame, stackVars
<1> QED
  BY <1>0, <1>1, QuietStep DEF WaitInterrupted, wakeVars, queueVars, QueueType, WakeInv

LEMMA WaitInterruptedWakesWake ==
  ASSUME TypeOK, WakeInv, NEW c \in Client, WaitInterruptedWakes(c)
  PROVE  WakeInv'
<1>0. StackType /\ WakeType /\ QueueType
  BY TypeParts
<1>1. SameFrames
  BY DEF WaitInterruptedWakes, SameFrames, SameFrame, stackVars
<1> QED
  BY <1>0, <1>1, QuietStep DEF WaitInterruptedWakes, wakeVars, queueVars, QueueType, WakeInv

LEMMA WaitFinishedWake ==
  ASSUME TypeOK, WakeInv, NEW c \in Client, WaitFinished(c)
  PROVE  WakeInv'
<1>0. StackType /\ WakeType /\ QueueType
  BY TypeParts
<1>1. SameFrames
  BY DEF WaitFinished, SameFrames, SameFrame, stackVars
<1> QED
  BY <1>0, <1>1, QuietStep DEF WaitFinished, wakeVars, queueVars, QueueType, WakeInv

LEMMA WaitFinishedWakesWake ==
  ASSUME TypeOK, WakeInv, NEW c \in Client, WaitFinishedWakes(c)
  PROVE  WakeInv'
<1>0. StackType /\ WakeType /\ QueueType
  BY TypeParts
<1>1. SameFrames
  BY DEF WaitFinishedWakes, SameFrames, SameFrame, stackVars
<1> QED
  BY <1>0, <1>1, QuietStep DEF WaitFinishedWakes, wakeVars, queueVars, QueueType, WakeInv

LEMMA SpuriousWakeupWake ==
  ASSUME TypeOK, WakeInv, NEW p \in Client \cup {Loop}, SpuriousWakeup(p)
  PROVE  WakeInv'
<1>0. StackType /\ WakeType /\ QueueType
  BY TypeParts
<1>1. SameFrames
  BY DEF SpuriousWakeup, SameFrames, SameFrame, stackVars
<1> QED
  BY <1>0, <1>1, QuietStep DEF SpuriousWakeup, wakeVars, queueVars, QueueType, WakeInv

LEMMA DestroyWake ==
  ASSUME TypeOK, WakeInv, NEW c \in Client, Destroy(c)
  PROVE  WakeInv'
<1>0. StackType /\ WakeType /\ QueueType
  BY TypeParts
<1>1. SameFrames
  BY DEF Destroy, SameFrames, SameFrame, stackVars
<1> QED
  BY <1>0, <1>1 DEF Destroy, SameFrames, SameFrame, WakeInv, BelowTop, SleepInv, NoLostWakeup, NoOverload, Asleep, At

(***************************************************************************)
(* Steps of the managed thread that do not go to sleep.                     *)
(***************************************************************************)
AwakePc == Pc \ {"sleepCv", "sleepPoll", "overload"}

LEMMA TopReplaced ==
  ASSUME StackType, WakeInv, depth > 0, depth' = depth, frame'[depth].pc \in AwakePc,
         \A i \in 1..depth - 1 : frame'[i].pc = frame[i].pc
  PROVE  WakeInv'
<1>1. BelowTop' /\ NoOverload'
  BY DEF StackType, WakeInv, BelowTop, NoOverload, AwakePc
<1>2. ~Asleep'
  BY DEF Asleep, At, Top, AwakePc
<1> QED
  BY <1>1, <1>2 DEF WakeInv, SleepInv, NoLostWakeup

LEMMA GotoAwake ==
  ASSUME StackType, WakeInv, depth > 0, NEW pc \in AwakePc, Goto(pc)
  PROVE  WakeInv'
<1>1. /\ depth' = depth /\ frame'[depth].pc = pc
      /\ \A i \in 1..MaxDepth \ {depth} : frame'[i] = frame[i]
  BY GotoEffect
<1>2. \A i \in 1..depth - 1 : frame'[i].pc = frame[i].pc
  BY <1>1 DEF StackType
<1> QED
  BY <1>1, <1>2, TopReplaced

LEMMA PushAwake ==
  ASSUME StackType, WakeInv, NEW f, f.pc \in AwakePc, depth = 0 \/ Top.pc \in BusyPc, Push(f)
  PROVE  WakeInv'
<1>1. /\ depth' = depth + 1 /\ frame'[depth + 1] = f
      /\ \A i \in 1..depth : frame'[i] = frame[i]
  BY PushEffect
<1>2. BelowTop' /\ NoOverload'
  BY <1>1 DEF StackType, WakeInv, BelowTop, NoOverload, AwakePc, Top
<1>3. ~Asleep'
  BY <1>1 DEF StackType, Asleep, At, Top, AwakePc
<1> QED
  BY <1>2, <1>3 DEF WakeInv, SleepInv, NoLostWakeup

LEMMA PopAwake ==
  ASSUME StackType, WakeInv, depth > 0, Pop
  PROVE  WakeInv'
<1>1. depth' = depth - 1 /\ \A i \in 1..depth - 1 : frame'[i] = frame[i]
  BY PopEffect
<1>2. BelowTop' /\ NoOverload'
  BY <1>1 DEF StackType, WakeInv, BelowTop, NoOverload
<1>3. ~Asleep'
  BY <1>1 DEF StackType, WakeInv, BelowTop, BusyPc, DrainPc, CallsPc, BodyPc, Asleep, At, Top
<1> QED
  BY <1>2, <1>3 DEF WakeInv, SleepInv, NoLostWakeup

\* A callback makes a call that opens a frame.
LEMMA CallFrameAwake ==
  ASSUME StackType, WakeInv, depth > 0, Top.pc \in BusyPc, depth + 1 <= MaxDepth,
         NEW g, g.pc \in AwakePc, depth' = depth + 1,
         frame' = [frame EXCEPT ![depth].calls = @ + 1, ![depth + 1] = g]
  PROVE  WakeInv'
<1>1. depth \in 1..MaxDepth
  BY DEF StackType
<1>4. /\ frame'[depth + 1] = g
      /\ \A i \in 1..depth : frame'[i].pc = frame[i].pc
  BY <1>1, CallFrameEffect DEF SameFrame
<1>5. BelowTop' /\ NoOverload'
  <2>1. \A i \in 1..depth : frame[i].pc \in BusyPc /\ frame[i].pc # "overload"
    BY <1>1 DEF WakeInv, BelowTop, NoOverload, Top
  <2>2. g.pc # "overload"
    BY DEF AwakePc
  <2>3. depth' - 1 = depth /\ \A i \in 1..depth' : i \in 1..depth \/ i = depth + 1
    BY <1>1
  <2>4. BelowTop'
    BY <1>4, <2>1, <2>3 DEF BelowTop
  <2>5. NoOverload'
    BY <1>4, <2>1, <2>2, <2>3 DEF NoOverload
  <2> QED
    BY <2>4, <2>5
<1>6. ~Asleep'
  BY <1>1, <1>4 DEF StackType, Asleep, At, Top, AwakePc
<1> QED
  BY <1>5, <1>6 DEF WakeInv, SleepInv, NoLostWakeup

(***************************************************************************)
(* The critical section of the loop: it goes to sleep only with nothing to  *)
(* do, with wake_ cleared.                                                  *)
(***************************************************************************)
LEMMA IdleWake ==
  ASSUME TypeOK, WakeInv, depth > 0, NEW w \in BOOLEAN,
         tasks = <<>>, tasks' = tasks, polls' = polls, Idle(w)
  PROVE  WakeInv'
<1>0. StackType /\ QueueType
  BY TypeParts
<1> DEFINE sleeps == /\ "WaitFinished" \notin state
                     /\ state' = IF state = {"WaitInterrupted"} THEN {"Interrupted"} ELSE state
                     /\ wake' = FALSE
                     /\ \/ Goto("sleepCv") /\ polls = 0
                        \/ Goto("sleepPoll") /\ polls > 0
<1>a. Goto("exit") \/ Goto("calls") \/ Goto("tasks") \/ sleeps
  BY DEF Idle
<1>1. CASE Goto("exit") \/ Goto("calls") \/ Goto("tasks")
  BY <1>0, <1>1, GotoAwake, PcTypes DEF AwakePc
<1>2. CASE sleeps
  <2>1. \/ Goto("sleepCv") /\ polls = 0
        \/ Goto("sleepPoll") /\ polls > 0
    BY <1>2
  <2>2. PICK pc \in {"sleepCv", "sleepPoll"} : Goto(pc)
    BY <1>2
  <2>3. /\ depth' = depth /\ frame'[depth].pc = pc
        /\ \A i \in 1..MaxDepth \ {depth} : frame'[i] = frame[i]
    BY <1>0, <2>2, GotoEffect
  <2>4. BelowTop' /\ NoOverload'
    BY <1>0, <2>3 DEF StackType, WakeInv, BelowTop, NoOverload
  <2>5. ~Work'
    BY <1>2 DEF Work
  <2>6. pc = "sleepCv" => polls = 0
    BY <1>0, <2>1, <2>3, GotoEffect
  <2>7. pc = "sleepPoll" => polls > 0
    BY <1>0, <2>1, <2>3, GotoEffect
  <2>8. SleepInv'
    BY <1>2, <2>3, <2>6, <2>7 DEF SleepInv, At, Top
  <2> QED
    BY <2>4, <2>5, <2>8 DEF WakeInv, NoLostWakeup
<1> QED
  BY <1>a, <1>1, <1>2

LEMMA ContinueWake ==
  ASSUME TypeOK, WakeInv, WithinLimit, depth > 0, NEW w \in BOOLEAN, polls' = polls, Continue(w)
  PROVE  WakeInv'
<1>0. StackType /\ QueueType
  BY TypeParts
<1>1. CASE tasks # <<>>
  <2>1. Goto("tasks")
    BY <1>0, <1>1 DEF Continue, WithinLimit, QueueType
  <2> QED
    BY <1>0, <2>1, GotoAwake, PcTypes DEF AwakePc
<1>2. CASE tasks = <<>>
  BY <1>2, IdleWake DEF Continue, queueVars
<1> QED
  BY <1>1, <1>2

LEMMA StartWake ==
  ASSUME TypeOK, WakeInv, NEW c \in Client, Start(c)
  PROVE  WakeInv'
<1>0. StackType /\ WakeType /\ QueueType
  BY TypeParts
<1>1. NewFrame("spawn").pc \in AwakePc
  BY PcTypes DEF NewFrame, AwakePc
<1> QED
  BY <1>0, <1>1, PushAwake DEF Start

LEMMA WaitWake ==
  ASSUME TypeOK, WakeInv, NEW w \in Waiter, Wait(w)
  PROVE  WakeInv'
<1>0. StackType /\ WakeType /\ QueueType
  BY TypeParts
<1>1. depth > 0 /\ Top.pc \in BusyPc
  BY <1>0, CallerTypes DEF Wait, Callers, InCallback, BusyPc
<1> DEFINE g == [NewFrame("entry") EXCEPT !.waiter = w]
<1>2. g.pc \in AwakePc
  BY PcTypes DEF NewFrame, AwakePc
<1>3. /\ depth + 1 <= MaxDepth /\ depth' = depth + 1
      /\ frame' = [frame EXCEPT ![depth].calls = @ + 1, ![depth + 1] = g]
  BY <1>0 DEF Wait, StackType
<1> HIDE DEF g
<1> QED
  BY <1>0, <1>1, <1>2, <1>3, CallFrameAwake

LEMMA SelfInvokeWake ==
  ASSUME TypeOK, WakeInv, SelfInvoke
  PROVE  WakeInv'
<1>0. StackType /\ WakeType /\ QueueType
  BY TypeParts
<1>1. depth > 0 /\ Top.pc \in BusyPc
  BY <1>0, CallerTypes DEF SelfInvoke, Callers, InCallback, BusyPc
<1> DEFINE g == NewFrame("sync1")
<1>2. g.pc \in AwakePc
  BY PcTypes DEF NewFrame, AwakePc
<1>3. /\ depth + 1 <= MaxDepth /\ depth' = depth + 1
      /\ frame' = [frame EXCEPT ![depth].calls = @ + 1, ![depth + 1] = g]
  BY <1>0 DEF SelfInvoke, StackType
<1> HIDE DEF g
<1> QED
  BY <1>0, <1>1, <1>2, <1>3, CallFrameAwake

LEMMA SelfInvokeSwapWake ==
  ASSUME TypeOK, WakeInv, SelfInvokeSwap
  PROVE  WakeInv'
<1>0. StackType /\ WakeType /\ QueueType
  BY TypeParts
<1>1. \E pc \in AwakePc : Goto(pc)
  BY PcTypes DEF SelfInvokeSwap, AwakePc
<1> QED
  BY <1>0, <1>1, GotoAwake DEF SelfInvokeSwap, At

LEMMA SelfInvokeFunctionWake ==
  ASSUME TypeOK, WakeInv, SelfInvokeFunction
  PROVE  WakeInv'
<1>0. StackType /\ WakeType /\ QueueType
  BY TypeParts
<1>1. \E pc \in AwakePc : Goto(pc)
  BY PcTypes DEF SelfInvokeFunction, AwakePc
<1> QED
  BY <1>0, <1>1, GotoAwake DEF SelfInvokeFunction, At

LEMMA ThreadBeginsWake ==
  ASSUME TypeOK, WakeInv, ThreadBegins
  PROVE  WakeInv'
<1>0. StackType /\ WakeType /\ QueueType
  BY TypeParts
<1>1. \E pc \in AwakePc : Goto(pc)
  BY PcTypes DEF ThreadBegins, AwakePc
<1> QED
  BY <1>0, <1>1, GotoAwake DEF ThreadBegins, At

LEMMA LoopBeginsWake ==
  ASSUME TypeOK, WakeInv, LoopBegins
  PROVE  WakeInv'
<1>0. StackType /\ WakeType /\ QueueType
  BY TypeParts
<1>1. \E pc \in AwakePc : Goto(pc)
  BY PcTypes DEF LoopBegins, AwakePc
<1> QED
  BY <1>0, <1>1, GotoAwake DEF LoopBegins, At

LEMMA LastTasksWake ==
  ASSUME TypeOK, WakeInv, LastTasks
  PROVE  WakeInv'
<1>0. StackType /\ WakeType /\ QueueType
  BY TypeParts
<1>1. \E pc \in AwakePc : Goto(pc)
  BY PcTypes DEF LastTasks, AwakePc
<1> QED
  BY <1>0, <1>1, GotoAwake DEF LastTasks, At

LEMMA ExecReturnsWake ==
  ASSUME TypeOK, WakeInv, ExecReturns
  PROVE  WakeInv'
<1>0. StackType /\ WakeType /\ QueueType
  BY TypeParts
<1>1. \E pc \in AwakePc : Goto(pc)
  BY PcTypes DEF ExecReturns, AwakePc
<1> QED
  BY <1>0, <1>1, GotoAwake DEF ExecReturns, At

LEMMA ExecEndsWake ==
  ASSUME TypeOK, WakeInv, ExecEnds
  PROVE  WakeInv'
<1>0. StackType /\ WakeType /\ QueueType
  BY TypeParts
<1>1. \E pc \in AwakePc : Goto(pc)
  BY PcTypes DEF ExecEnds, AwakePc
<1> QED
  BY <1>0, <1>1, GotoAwake DEF ExecEnds, At

LEMMA EpollReportsWake ==
  ASSUME TypeOK, WakeInv, EpollReports
  PROVE  WakeInv'
<1>0. StackType /\ WakeType /\ QueueType
  BY TypeParts
<1>1. \E pc \in AwakePc : Goto(pc)
  BY PcTypes DEF EpollReports, AwakePc
<1> QED
  BY <1>0, <1>1, GotoAwake DEF EpollReports, At

LEMMA RunTaskWake ==
  ASSUME TypeOK, WakeInv, RunTask
  PROVE  WakeInv'
<1>0. StackType /\ WakeType /\ QueueType
  BY TypeParts
<1> DEFINE f == [NewFrame("body") EXCEPT !.task = Head(process_tasks)]
<1>1. f.pc \in AwakePc
  BY PcTypes DEF NewFrame, AwakePc
<1>2. Push(f) /\ Top.pc \in BusyPc
  BY DEF RunTask, BusyPc
<1> HIDE DEF f
<1> QED
  BY <1>0, <1>1, <1>2, PushAwake

LEMMA RunCallbackWake ==
  ASSUME TypeOK, WakeInv, RunCallback
  PROVE  WakeInv'
<1>0. StackType /\ WakeType /\ QueueType
  BY TypeParts
<1>1. NewFrame("body").pc \in AwakePc
  BY PcTypes DEF NewFrame, AwakePc
<1>2. Push(NewFrame("body")) /\ Top.pc \in BusyPc
  BY DEF RunCallback, BusyPc
<1> QED
  BY <1>0, <1>1, <1>2, PushAwake

LEMMA BodyReturnsWake ==
  ASSUME TypeOK, WakeInv, BodyReturns
  PROVE  WakeInv'
<1>0. StackType /\ WakeType /\ QueueType
  BY TypeParts
<1> QED
  BY <1>0, PopAwake DEF BodyReturns, At

LEMMA ThreadEndsWake ==
  ASSUME TypeOK, WakeInv, ThreadEnds
  PROVE  WakeInv'
<1>0. StackType /\ WakeType /\ QueueType
  BY TypeParts
<1> QED
  BY <1>0, PopAwake DEF ThreadEnds, At

LEMMA ExecBeginsWake ==
  ASSUME TypeOK, WakeInv, ExecBegins
  PROVE  WakeInv'
<1>0. StackType /\ WakeType /\ QueueType
  BY TypeParts
<1>1. depth \in 1..MaxDepth /\ frame[depth] \in Frame /\ depth' = depth
  BY <1>0 DEF ExecBegins, At, StackType
<1>2. PICK pc \in {"started", "drainTasks", "drainCalls", "tasks"} :
        frame' = [frame EXCEPT ![depth].pc = pc, ![depth].nested = nested']
  BY DEF ExecBegins
<1> DEFINE f == [frame[depth] EXCEPT !.pc = pc, !.nested = nested']
<1>3. f.pc \in AwakePc
  BY <1>1, PcTypes DEF AwakePc, Frame
<1>4. frame' = [frame EXCEPT ![depth] = f]
  BY <1>0, <1>1, <1>2 DEF StackType
<1> HIDE DEF f
<1> QED
  BY <1>0, <1>1, <1>3, <1>4, TopReplaced DEF StackType

LEMMA WaitChecksWake ==
  ASSUME TypeOK, WakeInv, WaitChecks
  PROVE  WakeInv'
<1>0. StackType /\ WakeType /\ QueueType
  BY TypeParts
<1>1. depth \in 1..MaxDepth /\ frame[depth] \in Frame
  BY <1>0 DEF WaitChecks, At, StackType
<1>2. CASE frame' = [frame EXCEPT ![depth].pc = "entry", ![depth].q = @ + 1] /\ depth' = depth
  <2> DEFINE f == [frame[depth] EXCEPT !.pc = "entry", !.q = frame[depth].q + 1]
  <2>1. f.pc \in AwakePc
    BY <1>1, PcTypes DEF AwakePc, Frame
  <2>2. frame' = [frame EXCEPT ![depth] = f]
    BY <1>0, <1>1, <1>2 DEF StackType
  <2>3. depth' = depth
    BY <1>2
  <2> HIDE DEF f
  <2> QED
    BY <1>0, <1>1, <2>1, <2>2, <2>3, TopReplaced DEF StackType
<1>3. CASE Goto("quits")
  BY <1>0, <1>1, <1>3, GotoAwake, PcTypes DEF AwakePc
<1>4. CASE Pop
  BY <1>0, <1>1, <1>4, PopAwake
<1> QED
  BY <1>2, <1>3, <1>4 DEF WaitChecks

LEMMA WaitQuitsWake ==
  ASSUME TypeOK, WakeInv, WaitQuits
  PROVE  WakeInv'
<1>0. StackType /\ WakeType /\ QueueType
  BY TypeParts
<1>1. depth \in 1..MaxDepth /\ frame[depth] \in Frame /\ frame[depth].pc = "quits"
  BY <1>0 DEF WaitQuits, At, Top, StackType
<1>2. CASE frame' = [frame EXCEPT ![depth].q = @ - 1] /\ depth' = depth
  <2> DEFINE f == [frame[depth] EXCEPT !.q = frame[depth].q - 1]
  <2>1. f.pc \in AwakePc
    BY <1>1, PcTypes DEF AwakePc, Frame
  <2>2. frame' = [frame EXCEPT ![depth] = f]
    BY <1>0, <1>1, <1>2 DEF StackType
  <2>3. depth' = depth
    BY <1>2
  <2> HIDE DEF f
  <2> QED
    BY <1>0, <1>1, <2>1, <2>2, <2>3, TopReplaced DEF StackType
<1>3. CASE Pop
  BY <1>0, <1>1, <1>3, PopAwake
<1> QED
  BY <1>2, <1>3 DEF WaitQuits

LEMMA LoopContinuesWake ==
  ASSUME TypeOK, WakeInv, WithinLimit, LoopContinues
  PROVE  WakeInv'
<1>0. StackType /\ WakeType /\ QueueType
  BY TypeParts
<1> QED
  BY <1>0, ContinueWake DEF LoopContinues, At, LoopUnchanged, WakeType

LEMMA CvWakesWake ==
  ASSUME TypeOK, WakeInv, WithinLimit, CvWakes
  PROVE  WakeInv'
<1>0. StackType /\ WakeType /\ QueueType
  BY TypeParts
<1> QED
  BY <1>0, ContinueWake DEF CvWakes, At, LoopUnchanged, WakeType

LEMMA EpollWakesWake ==
  ASSUME TypeOK, WakeInv, WithinLimit, EpollWakes
  PROVE  WakeInv'
<1>0. StackType /\ WakeType /\ QueueType
  BY TypeParts
<1> QED
  BY <1>0, ContinueWake DEF EpollWakes, At, LoopUnchanged, WakeType

LEMMA EpollTimesOutWake ==
  ASSUME TypeOK, WakeInv, WithinLimit, EpollTimesOut
  PROVE  WakeInv'
<1>0. StackType /\ WakeType /\ QueueType
  BY TypeParts
<1> QED
  BY <1>0, ContinueWake DEF EpollTimesOut, At, LoopUnchanged, WakeType

LEMMA CallbacksDoneWake ==
  ASSUME TypeOK, WakeInv, WithinLimit, CallbacksDone
  PROVE  WakeInv'
<1>0. StackType /\ WakeType /\ QueueType
  BY TypeParts
<1> QED
  BY <1>0, ContinueWake DEF CallbacksDone, At, LoopUnchanged, WakeType

LEMMA CvTimesOutWake ==
  ASSUME TypeOK, WakeInv, WithinLimit, CvTimesOut
  PROVE  WakeInv'
<1>0. StackType /\ WakeType /\ QueueType
  BY TypeParts
<1>1. CASE Continue(wake)
  BY <1>0, <1>1, ContinueWake DEF CvTimesOut, At, LoopUnchanged, WakeType
<1>2. CASE Goto("tasks")
  BY <1>0, <1>2, GotoAwake, PcTypes DEF CvTimesOut, At, AwakePc
<1> QED
  BY <1>1, <1>2 DEF CvTimesOut

LEMMA OverloadDoneWake ==
  ASSUME TypeOK, WakeInv, OverloadDone
  PROVE  WakeInv'
<1>0. StackType /\ WakeType /\ QueueType
  BY TypeParts
<1> QED
  BY <1>0 DEF OverloadDone, At, Top, WakeInv, NoOverload, StackType

-----------------------------------------------------------------------------
LEMMA WakeInit == Init => WakeInv
BY DEF Init, WakeInv, BelowTop, SleepInv, NoLostWakeup, NoOverload, Asleep, At

LEMMA WakeStep == TypeOK /\ WakeInv /\ WithinLimit /\ [Next]_vars => WakeInv'
<1> SUFFICES ASSUME TypeOK, WakeInv, WithinLimit, [Next]_vars PROVE WakeInv'
  OBVIOUS
<1>1. CASE LoopStep
  BY <1>1, ThreadBeginsWake, ExecBeginsWake, LoopBeginsWake, RunTaskWake, RunCallbackWake,
     BodyReturnsWake, SelfInvokeSwapWake, SelfInvokeFunctionWake, LoopContinuesWake,
     OverloadDoneWake, CvWakesWake, EpollWakesWake, CallbacksDoneWake, ExecEndsWake,
     LastTasksWake, ExecReturnsWake, ThreadEndsWake, WaitChecksWake, WaitQuitsWake,
     InvokeDeleteWake DEF LoopStep
<1>2. CASE SleepEnds
  BY <1>2, CvTimesOutWake, EpollTimesOutWake, EpollReportsWake DEF SleepEnds
<1>3. ASSUME NEW c \in Client, ClientStep(c) PROVE WakeInv'
  BY <1>3, SyncInvokeReturnWake, StartReturnWake, InvokeDeleteWake, WaitInterruptedWakesWake,
     WaitFinishedWakesWake DEF ClientStep
<1>4. CASE CallStep
  BY <1>4, InvokeWake, RemovePollWake, RequestInterruptWake, QuitWake, AppendPollWake,
     SyncInvokeWake, StartWake, WaitInterruptedWake, WaitFinishedWake, DestroyWake, WaitWake,
     CompleteWake, SelfInvokeWake DEF CallStep
<1>5. ASSUME NEW p \in Client \cup {Loop}, SpuriousWakeup(p) PROVE WakeInv'
  BY <1>5, SpuriousWakeupWake
<1>6. CASE UNCHANGED vars
  BY <1>6 DEF vars, queueVars, wakeVars, stackVars, WakeInv, BelowTop, SleepInv, NoLostWakeup,
     NoOverload, Asleep, Work, At, Top
<1> QED
  BY <1>1, <1>2, <1>3, <1>4, <1>5, <1>6 DEF Next, Gone

(***************************************************************************)
(* No wake-up is lost (exec(), wake()) while invokeTask() never has more    *)
(* than QUEUE_TASKS_OVERLOAD_SIZE tasks queued, whatever the threads that   *)
(* use this one call, and for any number of them, of tasks and of waiters.  *)
(***************************************************************************)
THEOREM NoWakeupLost == Spec /\ []WithinLimit => []NoLostWakeup
<1>1. Init => TypeOK /\ WakeInv
  BY InitTypes, WakeInit
<1>2. TypeOK /\ WakeInv /\ WithinLimit /\ [Next]_vars => TypeOK' /\ WakeInv'
  BY NextTypes, WakeStep
<1>3. WakeInv => NoLostWakeup
  BY DEF WakeInv
<1> QED
  BY <1>1, <1>2, <1>3, PTL DEF Spec
=============================================================================

-------------------------- MODULE Callbacks_proofs --------------------------
(***************************************************************************)
(* Proofs about Callbacks: that every object is in one hand (OwnedOnce);    *)
(* when nobody adds a descriptor another user is removing or modifying, nor *)
(* removes one that is being added, that the kernel watches what is         *)
(* registered (WatchedAreRegistered); when no callback makes a synchronous  *)
(* invoke() on its own thread while a batch of timers or descriptors is     *)
(* unfinished, that the loop sleeps no longer than to the first deadline    *)
(* (DeadlineKept); and, with both rules, that no collected object is        *)
(* deleted (CallsLive).                                                     *)
(***************************************************************************)
EXTENDS Callbacks, TLAPS, SequenceTheorems, FiniteSetTheorems

(***************************************************************************)
(* Types.  The first frame is the exec() of the thread: it is never a       *)
(* callback, and nothing completes it.                                      *)
(***************************************************************************)
OpType ==
  {Idle}
    \cup [kind : {"insert"}, fd : Descriptor, task : Callback]
    \cup [kind : {"erase", "modify"}, fd : Descriptor, task : {None}]
    \cup [kind : {"delete"}, fd : {None}, task : Callback]

TimersOK ==
  /\ IsFiniteSet(DOMAIN timers) /\ DOMAIN timers \subseteq Nat
  /\ timers \in [DOMAIN timers -> Timer]
PollsOK ==
  /\ DOMAIN poll_tasks \subseteq Descriptor
  /\ poll_tasks \in [DOMAIN poll_tasks -> Callback]
  /\ DOMAIN epoll \subseteq Descriptor
  /\ epoll \in [DOMAIN epoll -> Callback]
TimesOK == clock \in Nat /\ wakeup \in Nat /\ until \in Nat /\ now \in Nat
WakeOK == wake \in BOOLEAN
BatchesOK ==
  /\ process_timer_tasks \in Seq(Callback) /\ process_poll_tasks \in Seq(Callback)
  /\ reported \in Seq(Callback)
QueuesOK == tasks \in Seq(Callback \cup {None}) /\ process_tasks \in Seq(Callback \cup {None})
StackOK ==
  /\ stack \in Seq(Frame) /\ stack # <<>>
  /\ stack[1].pc \in ExecPc /\ ~stack[1].complete
OpsOK ==
  /\ op \in [User -> OpType]
  /\ found \in [User -> Callback \cup {None}]
  /\ \A p \in User : op[p].kind = "modify" => found[p] \in Callback
HistoryOK == used \subseteq Callback /\ deleted \subseteq Callback /\ invoked \in Nat

TypeOK ==
  /\ TimersOK /\ PollsOK /\ TimesOK /\ WakeOK /\ BatchesOK /\ QueuesOK /\ StackOK /\ OpsOK
  /\ HistoryOK

(***************************************************************************)
(* The six hands an object can be in, each at most once in each, in no two  *)
(* of them, and each registered object in one.                              *)
(***************************************************************************)
InTimers  == {timers[id].task : id \in DOMAIN timers}
InPolls   == {poll_tasks[fd] : fd \in DOMAIN poll_tasks}
InOps     == {op[p].task : p \in User} \ {None}
InTasks   == {tasks[i] : i \in 1..Len(tasks)} \ {None}
InProcess == {process_tasks[i] : i \in 1..Len(process_tasks)} \ {None}

OnceInTimers == \A i, j \in DOMAIN timers : timers[i].task = timers[j].task => i = j
OnceInPolls  == \A i, j \in DOMAIN poll_tasks : poll_tasks[i] = poll_tasks[j] => i = j
OnceInOps    == \A p, q \in User : op[p].task = op[q].task => p = q \/ op[p].task = None
OnceIn(s)    == \A i, j \in 1..Len(s) : s[i] = s[j] => i = j \/ s[i] = None
OnceEach == OnceInTimers /\ OnceInPolls /\ OnceInOps /\ OnceIn(tasks) /\ OnceIn(process_tasks)

HandsDisjoint ==
  /\ InTimers \cap (InPolls \cup InOps \cup InTasks \cup InProcess \cup deleted) = {}
  /\ InPolls \cap (InOps \cup InTasks \cup InProcess \cup deleted) = {}
  /\ InOps \cap (InTasks \cup InProcess \cup deleted) = {}
  /\ InTasks \cap (InProcess \cup deleted) = {}
  /\ InProcess \cap deleted = {}
HandsFull == used = InTimers \cup InPolls \cup InOps \cup InTasks \cup InProcess \cup deleted

OwnedInv == OnceEach /\ HandsDisjoint /\ HandsFull

(***************************************************************************)
(* Nobody adds a descriptor that another user is in the middle of removing  *)
(* or modifying, or removes one that is being added.                        *)
(***************************************************************************)
Coordinated == Calls \cap {"appendInPassing", "removeInPassing"} = {}

(***************************************************************************)
(* The calls under way on a descriptor.  One that adds it is alone with it; *)
(* those that remove and modify it may cross, and while one modifies it the *)
(* kernel watches it, if at all, for the object that was found.             *)
(***************************************************************************)
FdOK(fd) ==
  /\ \A p, q \in User : op[p].kind = "insert" /\ op[p].fd = fd /\ op[q].fd = fd => p = q
  /\ \A p \in User : op[p].fd = fd =>
       /\ op[p].kind = "insert" => /\ fd \in DOMAIN epoll \ DOMAIN poll_tasks
                                   /\ epoll[fd] = op[p].task
       /\ op[p].kind = "erase" => fd \notin DOMAIN epoll
       /\ op[p].kind = "modify" /\ fd \in DOMAIN epoll =>
            fd \in DOMAIN poll_tasks /\ poll_tasks[fd] = found[p]
FdInv == \A fd \in Descriptor : FdOK(fd)

\* WatchedAreRegistered, for one descriptor.
WatchedOK(fd) ==
  /\ fd \in DOMAIN epoll =>
       \/ fd \in DOMAIN poll_tasks /\ epoll[fd] = poll_tasks[fd]
       \/ \E p \in User : op[p] = [kind |-> "insert", fd |-> fd, task |-> epoll[fd]]
  /\ fd \in DOMAIN poll_tasks \ DOMAIN epoll => InMiddle(fd, {"erase"})

(***************************************************************************)
(* A batch is unfinished only while the frame that runs it is on top of the *)
(* stack, or under the callback it runs.                                    *)
(***************************************************************************)
Runs(pcs) == At(pcs) \/ (At({"body"}) /\ stack[Len(stack) - 1].pc \in pcs)

TaskPc  == {"tasks", "drainTasks", "sync1", "sync2"}
TimerPc == {"timers", "drainTimers"}
PollPc  == {"polls", "drainPolls"}

\* Under the top of the stack no frame sleeps.
SleepPc == {"cv", "epoll", "reported"}
NoneSleepsBelow == \A i \in 1..(Len(stack) - 1) : stack[i].pc \notin SleepPc

BatchInv ==
  /\ process_tasks # <<>> => Runs(TaskPc)
  /\ process_timer_tasks # <<>> => Runs(TimerPc)
  /\ process_poll_tasks # <<>> => Runs(PollPc)
  /\ reported # <<>> => At({"reported"})

\* What has been collected was registered, and is not deleted.
LiveInv ==
  /\ \A i \in 1..Len(process_timer_tasks) : process_timer_tasks[i] \in used \ deleted
  /\ \A i \in 1..Len(process_poll_tasks) : process_poll_tasks[i] \in used \ deleted
  /\ \A i \in 1..Len(reported) : reported[i] \in used \ deleted

\* The loop has been told of the earliest deadline, and sleeps until then.
WakeupInv ==
  /\ \A id \in DOMAIN timers : Active(id) => wakeup <= timers[id].expire
  /\ At({"cv", "epoll"}) /\ ~wake => until = wakeup

\* Callbacks with unfinished batches make no synchronous invoke() on their thread.
NoInvokeInBatch == "selfInvokeInBatch" \notin Calls
-----------------------------------------------------------------------------
(***************************************************************************)
(* The stack.                                                               *)
(***************************************************************************)
Pcs == ExecPc \cup {"body", "sync1", "sync2"}

StackKept ==
  /\ Len(stack') = Len(stack)
  /\ \A i \in 1..Len(stack) : stack'[i].pc = stack[i].pc
StackMoves(pc) ==
  /\ Len(stack') = Len(stack) /\ stack'[Len(stack)].pc = pc
  /\ \A i \in 1..(Len(stack) - 1) : stack'[i].pc = stack[i].pc
StackGrows(pc) ==
  /\ Len(stack') = Len(stack) + 1 /\ stack'[Len(stack) + 1].pc = pc
  /\ \A i \in 1..Len(stack) : stack'[i].pc = stack[i].pc
StackShrinks ==
  /\ Len(stack') = Len(stack) - 1
  /\ \A i \in 1..(Len(stack) - 1) : stack'[i].pc = stack[i].pc

LEMMA StackTop == ASSUME StackOK PROVE Len(stack) \in Nat \ {0} /\ 1 \in 1..Len(stack)
  BY DEF StackOK

LEMMA ReplacedFrame ==
  ASSUME NEW s \in Seq(Frame), NEW i \in 1..Len(s), NEW f \in Frame
  PROVE  LET r == [s EXCEPT ![i] = f]
         IN /\ r \in Seq(Frame) /\ Len(r) = Len(s)
            /\ r[i] = f /\ \A j \in 1..Len(s) : j # i => r[j] = s[j]
  OBVIOUS

\* To(pc).
LEMMA MovedStack ==
  ASSUME StackOK, NEW pc \in Pcs, stack' = To(pc), pc \in ExecPc \/ ~At(ExecPc)
  PROVE  StackOK' /\ StackMoves(pc)
<1>1. Len(stack) \in 1..Len(stack) /\ \A i \in 1..Len(stack) : stack[i] \in Frame
  BY DEF StackOK
<1>2. \A f \in Frame : [f EXCEPT !.pc = pc] \in Frame
  BY DEF Frame, Pcs
<1>3. [stack[Len(stack)] EXCEPT !.pc = pc] \in Frame
  BY <1>1, <1>2
<1>4. stack' = [stack EXCEPT ![Len(stack)] = [stack[Len(stack)] EXCEPT !.pc = pc]]
  BY DEF To
<1>5. stack' \in Seq(Frame) /\ Len(stack') = Len(stack)
  BY <1>3, <1>4, <1>1 DEF StackOK
<1>6. /\ \A i \in 1..Len(stack) : i # Len(stack) => stack'[i] = stack[i]
      /\ stack'[Len(stack)] = [stack[Len(stack)] EXCEPT !.pc = pc]
  BY <1>4, <1>1 DEF StackOK
<1>7. stack'[Len(stack)].pc = pc /\ stack'[Len(stack)].complete = stack[Len(stack)].complete
  BY <1>6, <1>1 DEF Frame
<1>8. Len(stack) = 1 => pc \in ExecPc
  BY DEF StackOK, At
<1>9. stack' # <<>> /\ 1 \in 1..Len(stack)
  BY <1>5, <1>1 DEF StackOK
<1>10. CASE Len(stack) = 1
  BY <1>10, <1>5, <1>6, <1>7, <1>8, <1>9 DEF StackOK, StackMoves
<1>11. CASE Len(stack) # 1
  <2>1. stack'[1] = stack[1]
    BY <1>11, <1>6, <1>9
  <2> QED
    BY <2>1, <1>5, <1>6, <1>7, <1>9 DEF StackOK, StackMoves
<1> QED
  BY <1>10, <1>11

LEMMA CalledIsFrames ==
  ASSUME StackOK
  PROVE  /\ Called \in Seq(Frame) /\ Len(Called) = Len(stack)
         /\ \A i \in 1..Len(stack) :
              Called[i].pc = stack[i].pc /\ Called[i].complete = stack[i].complete
<1>1. Len(stack) \in 1..Len(stack) /\ \A i \in 1..Len(stack) : stack[i] \in Frame
  BY DEF StackOK
<1>2. \A f \in Frame : [f EXCEPT !.calls = f.calls + 1] \in Frame
  BY DEF Frame
<1> DEFINE f == [stack[Len(stack)] EXCEPT !.calls = stack[Len(stack)].calls + 1]
<1>3. f \in Frame
  BY <1>1, <1>2
<1>4. f.pc = stack[Len(stack)].pc /\ f.complete = stack[Len(stack)].complete
  BY <1>1 DEF Frame
<1>5. Called = [stack EXCEPT ![Len(stack)] = f]
  BY DEF Called
<1> HIDE DEF f
<1> QED
  BY <1>1, <1>3, <1>4, <1>5 DEF StackOK

LEMMA SpentStack ==
  ASSUME StackOK, NEW p, Spend(p)
  PROVE  StackOK' /\ StackKept
<1>1. CASE stack' = stack
  BY <1>1 DEF StackOK, StackKept
<1>2. CASE stack' = Called
  BY <1>2, CalledIsFrames, StackTop DEF StackOK, StackKept
<1> QED
  BY <1>1, <1>2 DEF Spend

LEMMA CompletedStack ==
  ASSUME StackOK, NEW i \in Nested, stack' = [Called EXCEPT ![i].complete = TRUE]
  PROVE  StackOK' /\ StackKept
<1>1. i \in 1..Len(stack) /\ i # 1
  BY StackTop DEF Nested
<1>2. PICK s \in Seq(Frame) : s = Called
  BY CalledIsFrames
<1>3. \A f \in Frame : [f EXCEPT !.complete = TRUE] \in Frame
  BY DEF Frame
<1> DEFINE f == [s[i] EXCEPT !.complete = TRUE]
<1>4. Len(s) = Len(stack) /\ s[i] \in Frame
  BY <1>1, <1>2, CalledIsFrames
<1>5. f \in Frame /\ f.pc = s[i].pc
  BY <1>4, <1>3 DEF Frame
<1>6. stack' = [s EXCEPT ![i] = f]
  BY <1>2
<1> HIDE DEF f
<1>7. /\ stack' \in Seq(Frame) /\ Len(stack') = Len(stack)
      /\ \A j \in 1..Len(stack) : j # i => stack'[j] = s[j]
      /\ stack'[i] = f
  <2>1. i \in 1..Len(s)
    BY <1>1, <1>4
  <2> DEFINE r == [s EXCEPT ![i] = f]
  <2>2. r \in Seq(Frame) /\ Len(r) = Len(s)
    BY <2>1, <1>5, ReplacedFrame
  <2>3. r[i] = f /\ \A j \in 1..Len(s) : j # i => r[j] = s[j]
    BY <2>1, <1>5, ReplacedFrame
  <2>4. stack' = r
    BY <1>6
  <2> HIDE DEF r
  <2> QED
    BY <2>2, <2>3, <2>4, <1>4
<1>8. \A j \in 1..Len(stack) : s[j].pc = stack[j].pc /\ s[j].complete = stack[j].complete
  BY <1>2, CalledIsFrames
<1>9. \A j \in 1..Len(stack) : stack'[j].pc = stack[j].pc
  BY <1>1, <1>5, <1>7, <1>8
<1>10. stack'[1].complete = stack[1].complete
  BY <1>1, <1>7, <1>8, StackTop
<1> QED
  BY <1>7, <1>9, <1>10, StackTop DEF StackOK, StackKept

LEMMA NewFrameType ==
  ASSUME NEW pc \in Pcs, NEW o \in Callback \cup {None}
  PROVE  NewFrame(pc, o) \in Frame /\ NewFrame(pc, o).pc = pc
  BY DEF NewFrame, Frame, Pcs

LEMMA PushedStack ==
  ASSUME StackOK, NEW pc \in Pcs, stack' = Push(Called, pc)
  PROVE  StackOK' /\ StackGrows(pc)
<1>1. PICK s \in Seq(Frame) : s = Called
  BY CalledIsFrames
<1>2. PICK f \in Frame : f = NewFrame(pc, None) /\ f.pc = pc
  BY NewFrameType
<1>3. stack' = Append(s, f)
  BY <1>1, <1>2 DEF Push
<1>4. /\ Len(s) = Len(stack)
      /\ \A j \in 1..Len(stack) : s[j].pc = stack[j].pc /\ s[j].complete = stack[j].complete
  BY <1>1, CalledIsFrames
<1>5. /\ stack' \in Seq(Frame) /\ Len(stack') = Len(stack) + 1
      /\ \A j \in 1..Len(stack) : stack'[j] = s[j]
      /\ stack'[Len(stack) + 1] = f
  BY <1>3, <1>4, StackTop
<1> QED
  BY <1>2, <1>4, <1>5, StackTop DEF StackOK, StackGrows

LEMMA CalledStack ==
  ASSUME StackOK, NEW o \in Callback \cup {None}, stack' = Call(o)
  PROVE  StackOK' /\ StackGrows("body")
<1>1. PICK f \in Frame : f = NewFrame("body", o) /\ f.pc = "body"
  BY NewFrameType DEF Pcs
<1>2. stack' = Append(stack, f)
  BY <1>1 DEF Call
<1>3. /\ stack' \in Seq(Frame) /\ Len(stack') = Len(stack) + 1
      /\ \A j \in 1..Len(stack) : stack'[j] = stack[j]
      /\ stack'[Len(stack) + 1] = f
  BY <1>2, StackTop DEF StackOK
<1> QED
  BY <1>1, <1>3, StackTop DEF StackOK, StackGrows

LEMMA FrontStack ==
  ASSUME StackOK, stack' = Front(stack), ~At(ExecPc) \/ stack[Len(stack)].complete
  PROVE  StackOK' /\ StackShrinks /\ Len(stack) > 1
<1>1. Len(stack) > 1
  BY StackTop DEF StackOK, At
<1>2. /\ stack' \in Seq(Frame) /\ Len(stack') = Len(stack) - 1
      /\ \A j \in 1..(Len(stack) - 1) : stack'[j] = stack[j]
  BY <1>1 DEF StackOK, Front
<1> QED
  BY <1>1, <1>2 DEF StackOK, StackShrinks
-----------------------------------------------------------------------------
(***************************************************************************)
(* What a pass collects.                                                    *)
(***************************************************************************)
LEMMA ArrangedType ==
  ASSUME NEW S \in SUBSET Callback, NEW q \in SetToSeqs(S)
  PROVE  q \in Seq(S) /\ q \in Seq(Callback)
<1>1. Cardinality(S) \in Nat
  BY CallbacksAssumption, FS_Subset, FS_CardinalityType
<1>2. q \in [1..Cardinality(S) -> S]
  BY DEF SetToSeqs
<1> QED
  BY <1>1, <1>2

LEMMA DeadlinesType ==
  ASSUME NEW ts, ts \in [DOMAIN ts -> Timer]
  PROVE  Deadlines(ts) \subseteq Nat
  BY CallbacksAssumption DEF Deadlines, Timer, Never

LEMMA RenewedType ==
  ASSUME NEW r \in Timer, NEW t \in Nat
  PROVE  Renewed(r, t) \in Timer /\ Renewed(r, t).task = r.task
<1>1. \A e \in Nat : [r EXCEPT !.expire = e] \in Timer /\ [r EXCEPT !.expire = e].task = r.task
  BY DEF Timer
<1>2. (IF r.expire + r.timeout <= t THEN t + r.timeout ELSE r.expire + r.timeout) \in Nat
  BY DEF Timer
<1> QED
  BY <1>1, <1>2 DEF Renewed

LEMMA CollectTimers ==
  ASSUME TypeOK, NEW t \in Nat, Collect(t)
  PROVE  /\ TimersOK' /\ DOMAIN timers' = DOMAIN timers
         /\ \A id \in DOMAIN timers : timers'[id].task = timers[id].task
<1>1. timers' = [id \in DOMAIN timers |->
                  IF id \in Due(t) THEN Renewed(timers[id], t) ELSE timers[id]]
  BY DEF Collect
<1>2. \A id \in DOMAIN timers :
        /\ timers[id] \in Timer /\ Renewed(timers[id], t) \in Timer
        /\ Renewed(timers[id], t).task = timers[id].task
  BY RenewedType DEF TypeOK, TimersOK
<1>3. \A id \in DOMAIN timers :
        timers'[id] \in Timer /\ timers'[id].task = timers[id].task
  BY <1>1, <1>2
<1>4. DOMAIN timers' = DOMAIN timers /\ timers' \in [DOMAIN timers' -> Timer]
  BY <1>1, <1>3
<1> QED
  BY <1>3, <1>4 DEF TypeOK, TimersOK

LEMMA CollectWakeup ==
  ASSUME TypeOK, NEW t \in Nat, Collect(t)
  PROVE  /\ wakeup' \in Nat /\ wake' \in BOOLEAN
         /\ \A id \in DOMAIN timers' : timers'[id].timeout > 0 => wakeup' <= timers'[id].expire
<1>1. timers' \in [DOMAIN timers' -> Timer]
  BY CollectTimers DEF TimersOK
<1>2. wakeup' \in Deadlines(timers') /\ \A u \in Deadlines(timers') : wakeup' <= u
  BY DEF Collect, IsEarliest
<1>3. wakeup' \in Nat
  BY <1>1, <1>2, DeadlinesType
<1>4. \A id \in DOMAIN timers' : timers'[id].timeout > 0 => timers'[id].expire \in Deadlines(timers')
  BY DEF Deadlines
<1>5. wake' \in BOOLEAN
  BY DEF Collect, TypeOK, WakeOK
<1> QED
  BY <1>2, <1>3, <1>4, <1>5

LEMMA CollectBatch ==
  ASSUME TypeOK, NEW t \in Nat, Collect(t)
  PROVE  /\ process_timer_tasks' \in Seq(Callback)
         /\ \A i \in 1..Len(process_timer_tasks') :
              \/ process_timer_tasks'[i] \in InTimers
              \/ i \in 1..Len(process_timer_tasks) /\ process_timer_tasks'[i] = process_timer_tasks[i]
<1> DEFINE S == {timers[id].task : id \in Due(t)}
<1>1. S \subseteq Callback /\ S \subseteq InTimers
  BY DEF Due, TypeOK, TimersOK, Timer, InTimers
<1>2. PICK batch \in SetToSeqs(S) : process_timer_tasks' = process_timer_tasks \o batch
  BY DEF Collect
<1> HIDE DEF S
<1>3. batch \in Seq(Callback) /\ batch \in Seq(S)
  BY <1>1, ArrangedType
<1>4. process_timer_tasks \in Seq(Callback)
  BY DEF TypeOK, BatchesOK
<1>5. \A i \in 1..Len(batch) : batch[i] \in InTimers
  BY <1>1, <1>3
<1>6. process_timer_tasks' \in Seq(Callback)
  BY <1>2, <1>3, <1>4
<1>7. /\ Len(process_timer_tasks') = Len(process_timer_tasks) + Len(batch)
      /\ \A i \in 1..Len(process_timer_tasks') :
           process_timer_tasks'[i] = IF i <= Len(process_timer_tasks) THEN process_timer_tasks[i]
                                     ELSE batch[i - Len(process_timer_tasks)]
  BY <1>2, <1>3, <1>4
<1>8. \A i \in 1..Len(process_timer_tasks') :
        i \in 1..Len(process_timer_tasks) \/ i - Len(process_timer_tasks) \in 1..Len(batch)
  BY <1>3, <1>4, <1>7
<1> QED
  BY <1>3, <1>4, <1>5, <1>6, <1>7, <1>8

LEMMA CollectStack ==
  ASSUME TypeOK, NEW t, Collect(t)
  PROVE  /\ StackOK'
         /\ \/ StackMoves("tasks") /\ process_timer_tasks' = <<>>
            \/ StackMoves("timers")
<1>1. "tasks" \in Pcs /\ "timers" \in Pcs /\ "tasks" \in ExecPc /\ "timers" \in ExecPc
  BY DEF Pcs, ExecPc
<1> QED
  BY <1>1, MovedStack DEF Collect, TypeOK
-----------------------------------------------------------------------------
(***************************************************************************)
(* Types.                                                                   *)
(***************************************************************************)
LEMMA TypeInit == Init => TypeOK
<1> SUFFICES ASSUME Init PROVE TypeOK
  OBVIOUS
<1>1. TimersOK /\ PollsOK
  BY FS_EmptySet DEF Init, TimersOK, PollsOK
<1>2. TimesOK /\ WakeOK /\ BatchesOK /\ QueuesOK /\ HistoryOK
  BY CallbacksAssumption DEF Init, TimesOK, WakeOK, BatchesOK, QueuesOK, HistoryOK, Never
<1>3. StackOK
  <2>1. NewFrame("tasks", None) \in Frame
    BY NewFrameType DEF Pcs, ExecPc
  <2>2. stack = <<NewFrame("tasks", None)>> /\ stack[1] = NewFrame("tasks", None)
    BY DEF Init
  <2>3. NewFrame("tasks", None).pc = "tasks" /\ ~NewFrame("tasks", None).complete
    BY DEF NewFrame
  <2> QED
    BY <2>1, <2>2, <2>3 DEF StackOK, ExecPc
<1>4. OpsOK
  <2>1. op \in [User -> OpType] /\ found \in [User -> Callback \cup {None}]
    BY DEF Init, OpType
  <2>2. \A p \in User : op[p].kind # "modify"
    BY DEF Init, Idle
  <2> QED
    BY <2>1, <2>2 DEF OpsOK
<1> QED
  BY <1>1, <1>2, <1>3, <1>4 DEF TypeOK

\* Pass, by what it does: tasks, the end of a nested execution, a sleep, or the timers.
PassOthers == UNCHANGED <<clock, pollVars, reported, process_poll_tasks, op, used, deleted, invoked>>
PassTasks ==
  /\ PassOthers
  /\ tasks # <<>>
  /\ process_tasks' = tasks /\ tasks' = process_tasks
  /\ stack' = To("tasks")
  /\ UNCHANGED <<timerVars, wake, until, now, process_timer_tasks>>
PassEnds ==
  /\ PassOthers
  /\ stack[Len(stack)].complete
  /\ stack' = Front(stack)
  /\ UNCHANGED <<timerVars, wake, until, now, queueVars, process_timer_tasks>>
PassSleeps ==
  /\ PassOthers
  /\ tasks = <<>>
  /\ wake' = FALSE /\ until' = wakeup /\ now' = clock
  /\ \/ stack' = To("cv") \/ stack' = To("epoll")
  /\ UNCHANGED <<timerVars, queueVars, process_timer_tasks>>
PassCollects == PassOthers /\ Collect(clock) /\ UNCHANGED <<until, now, queueVars>>
PassAt ==
  \/ At({"tasks"}) /\ process_tasks = <<>>
  \/ At({"timers"}) /\ process_timer_tasks = <<>>
  \/ At({"polls"}) /\ process_poll_tasks = <<>>

LEMMA PassDoes ==
  ASSUME Pass
  PROVE  PassAt /\ (PassTasks \/ PassEnds \/ PassSleeps \/ PassCollects)
  BY DEF Pass, Continue, PassAt, PassOthers, PassTasks, PassEnds, PassSleeps, PassCollects

\* The steps that leave the timers alone.
Elsewhere ==
  \/ RunTask \/ RunTimer \/ RunPoll \/ BodyReturns \/ SwapQueues \/ SelfInvokeFunction
  \/ EpollReturns \/ EpollReports \/ SelfInvoke \/ Wait \/ Complete \/ CvWakes
  \/ \E p \in User :
       \/ InsertDescriptor(p) \/ ChangeDescriptor(p) \/ EraseDescriptor(p)
       \/ InvokeDelete(p) \/ Invoke(p)
  \/ \E p \in User, fd \in Descriptor :
       \/ FindDescriptor(p, fd) \/ DropDescriptor(p, fd)
       \/ \E o \in Callback : AddDescriptor(p, fd, o)
  \/ Tick
Appends == \E p \in User, ms \in Interval, o \in Callback : AppendTimer(p, ms, o)
Modifies == \E p \in User, id \in DOMAIN timers, ms \in Interval : ModifyTimer(p, id, ms)
Removes == \E p \in User, id \in DOMAIN timers : RemoveTimer(p, id)

LEMMA NextCases ==
  ASSUME Next
  PROVE  Elsewhere \/ Appends \/ Modifies \/ Removes \/ Pass \/ CvTimesOut
  BY DEF Next, LoopStep, ClientStep, CallStep, User, Elsewhere, Appends, Modifies, Removes

LEMMA PassUntouched ==
  ASSUME Pass, ~PassCollects
  PROVE  UNCHANGED <<timerVars, process_timer_tasks>> /\ PassOthers
  BY PassDoes DEF PassTasks, PassEnds, PassSleeps

LEMMA ElsewhereUntouched ==
  ASSUME Elsewhere
  PROVE  UNCHANGED timerVars
  BY DEF Elsewhere, RunTask, RunTimer, RunPoll, BodyReturns, SwapQueues, SelfInvokeFunction,
         EpollReturns, EpollReports, SelfInvoke, Wait, Complete, CvWakes, InsertDescriptor,
         FindDescriptor, ChangeDescriptor, EraseDescriptor, InvokeDelete, Invoke, DropDescriptor,
         AddDescriptor, Tick, timerVars

\* The timers appendTimer() leaves.
Extended(n, r) == [id \in DOMAIN timers \cup {n} |-> IF id = n THEN r ELSE timers[id]]

LEMMA AppendTimerDoes ==
  ASSUME TypeOK, NEW p \in User, NEW ms \in Interval, NEW o \in Callback, AppendTimer(p, ms, o)
  PROVE  \E n \in Nat, r \in Timer :
           /\ n \notin DOMAIN timers /\ r.task = o /\ r.timeout = ms
           /\ ms > 0 => r.expire = clock + ms
           /\ timers' = Extended(n, r)
<1> DEFINE r == [timeout |-> ms, expire |-> IF ms > 0 THEN clock + ms ELSE 0, task |-> o]
<1>1. r \in Timer
  BY CallbacksAssumption DEF Timer, TypeOK, TimesOK
<1>2. Cardinality(DOMAIN timers) \in Nat
  BY FS_CardinalityType DEF TypeOK, TimersOK
<1>3. PICK n \in 0..Cardinality(DOMAIN timers) :
        /\ SmallestFree(n)
        /\ timers' = Extended(n, r)
  BY DEF AppendTimer, Extended
<1>4. n \in Nat /\ n \notin DOMAIN timers
  BY <1>2, <1>3 DEF SmallestFree
<1>5. r.task = o /\ r.timeout = ms /\ (ms > 0 => r.expire = clock + ms)
  OBVIOUS
<1> HIDE DEF r
<1> QED
  BY <1>1, <1>3, <1>4, <1>5

\* The timer modifyTimer() leaves.
LEMMA ModifyTimerDoes ==
  ASSUME TypeOK, NEW p \in User, NEW id \in DOMAIN timers, NEW ms \in Interval,
         ModifyTimer(p, id, ms)
  PROVE  \E r \in Timer :
           /\ r.task = timers[id].task /\ r.timeout = ms
           /\ ms > 0 => r.expire = clock + ms
           /\ timers' = [timers EXCEPT ![id] = r]
<1>1. timers[id] \in Timer
  BY DEF TypeOK, TimersOK
<1>2. \A e \in Nat : [timers[id] EXCEPT !.timeout = ms, !.expire = e] \in Timer
  BY <1>1, CallbacksAssumption DEF Timer
<1> DEFINE e == IF ms > 0 THEN clock + ms ELSE timers[id].expire
<1> DEFINE r == [timers[id] EXCEPT !.timeout = ms, !.expire = e]
<1>3. e \in Nat
  BY <1>1, CallbacksAssumption DEF TypeOK, TimesOK, Timer
<1>4. r \in Timer
  BY <1>2, <1>3
<1>5. r.task = timers[id].task /\ r.timeout = ms /\ (ms > 0 => r.expire = clock + ms)
  BY <1>1 DEF Timer
<1>6. timers' = [timers EXCEPT ![id] = r]
  BY <1>1 DEF ModifyTimer
<1> HIDE DEF r
<1> QED
  BY <1>4, <1>5, <1>6

LEMMA RemoveTimerDoes ==
  ASSUME TypeOK, NEW p \in User, NEW id \in DOMAIN timers, RemoveTimer(p, id)
  PROVE  /\ DOMAIN timers' = DOMAIN timers \ {id}
         /\ timers' \in [DOMAIN timers' -> Timer]
         /\ \A j \in DOMAIN timers' : timers'[j] = timers[j]
<1>1. timers' = [j \in DOMAIN timers \ {id} |-> timers[j]]
  BY DEF RemoveTimer, Restrict
<1> QED
  BY <1>1 DEF TypeOK, TimersOK

LEMMA TimersStep == TypeOK /\ [Next]_vars => TimersOK'
<1> SUFFICES ASSUME TypeOK, [Next]_vars PROVE TimersOK'
  OBVIOUS
<1> USE DEF TimersOK
<1>1. CASE UNCHANGED timers
  BY <1>1 DEF TypeOK
<1>2. CASE Appends
  <2>1. PICK p \in User, ms \in Interval, o \in Callback : AppendTimer(p, ms, o)
    BY <1>2 DEF Appends
  <2>2. PICK n \in Nat, r \in Timer : timers' = Extended(n, r)
    BY <2>1, AppendTimerDoes
  <2>3. IsFiniteSet(DOMAIN timers')
    BY <2>2, FS_AddElement DEF TypeOK, Extended
  <2> QED
    BY <2>2, <2>3 DEF TypeOK, Extended
<1>3. CASE Modifies
  <2>1. PICK id \in DOMAIN timers, r \in Timer : timers' = [timers EXCEPT ![id] = r]
    BY <1>3, ModifyTimerDoes DEF Modifies
  <2>2. DOMAIN timers' = DOMAIN timers
    BY <2>1
  <2>3. timers' \in [DOMAIN timers -> Timer]
    BY <2>1 DEF TypeOK
  <2> QED
    BY <2>2, <2>3 DEF TypeOK
<1>4. CASE Removes
  <2>1. PICK p \in User, id \in DOMAIN timers : RemoveTimer(p, id)
    BY <1>4 DEF Removes
  <2>2. IsFiniteSet(DOMAIN timers')
    BY <2>1, RemoveTimerDoes, FS_Subset DEF TypeOK
  <2> QED
    BY <2>1, <2>2, RemoveTimerDoes DEF TypeOK
<1>5. CASE PassCollects \/ CvTimesOut
  BY <1>5, CollectTimers DEF PassCollects, CvTimesOut, TypeOK, TimesOK
<1> QED
  BY <1>1, <1>2, <1>3, <1>4, <1>5, NextCases, PassUntouched, ElsewhereUntouched
     DEF vars, timerVars

\* The steps that change poll_tasks, epoll or op.
PollCalls ==
  \/ \E p \in User, fd \in Descriptor, o \in Callback : AddDescriptor(p, fd, o)
  \/ \E p \in User, fd \in Descriptor : FindDescriptor(p, fd) \/ DropDescriptor(p, fd)
  \/ \E p \in User : InsertDescriptor(p) \/ ChangeDescriptor(p) \/ EraseDescriptor(p)
Deletions == \E p \in User : InvokeDelete(p)

LEMMA PollsUntouched ==
  ASSUME [Next]_vars
  PROVE  PollCalls \/ UNCHANGED pollVars
<1>1. CASE Pass
  BY <1>1, PassDoes DEF PassOthers, PassTasks, PassEnds, PassSleeps, PassCollects
<1>2. CASE Elsewhere
  BY <1>2
     DEF Elsewhere, RunTask, RunTimer, RunPoll, BodyReturns, SwapQueues, SelfInvokeFunction,
         EpollReturns, EpollReports, SelfInvoke, Wait, Complete, CvWakes, InvokeDelete, Invoke,
         Tick, PollCalls
<1> QED
  BY <1>1, <1>2, NextCases
     DEF vars, Appends, Modifies, Removes, AppendTimer, ModifyTimer, RemoveTimer, CvTimesOut

LEMMA OpsUntouched ==
  ASSUME [Next]_vars
  PROVE  PollCalls \/ Removes \/ Deletions \/ UNCHANGED op
<1>1. CASE Pass
  BY <1>1, PassDoes DEF PassOthers, PassTasks, PassEnds, PassSleeps, PassCollects
<1>2. CASE Elsewhere
  BY <1>2
     DEF Elsewhere, RunTask, RunTimer, RunPoll, BodyReturns, SwapQueues, SelfInvokeFunction,
         EpollReturns, EpollReports, SelfInvoke, Wait, Complete, CvWakes, Invoke, Tick,
         PollCalls, Deletions
<1> QED
  BY <1>1, <1>2, NextCases DEF vars, Appends, Modifies, AppendTimer, ModifyTimer, CvTimesOut

\* What the users in the middle of a call hold.
LEMMA OpFacts ==
  ASSUME TypeOK, NEW p \in User
  PROVE  /\ op[p] \in OpType
         /\ op[p].kind \in {"none", "insert", "erase", "modify", "delete"}
         /\ op[p].kind = "none" => op[p] = Idle
         /\ op[p].kind = "insert" => op[p].fd \in Descriptor /\ op[p].task \in Callback
         /\ op[p].kind \in {"erase", "modify"} => op[p].fd \in Descriptor /\ op[p].task = None
         /\ op[p].kind = "modify" => found[p] \in Callback
         /\ op[p].kind = "delete" => op[p].fd = None /\ op[p].task \in Callback
<1>1. op[p] \in OpType /\ (op[p].kind = "modify" => found[p] \in Callback)
  BY DEF TypeOK, OpsOK
<1>2. ASSUME NEW r \in OpType
      PROVE  /\ r.kind \in {"none", "insert", "erase", "modify", "delete"}
             /\ r.kind = "none" => r = Idle
             /\ r.kind = "insert" => r.fd \in Descriptor /\ r.task \in Callback
             /\ r.kind \in {"erase", "modify"} => r.fd \in Descriptor /\ r.task = None
             /\ r.kind = "delete" => r.fd = None /\ r.task \in Callback
  BY DEF OpType, Idle
<1> QED
  BY <1>1, <1>2

LEMMA PollsStep == TypeOK /\ [Next]_vars => PollsOK'
<1> SUFFICES ASSUME TypeOK, [Next]_vars PROVE PollsOK'
  OBVIOUS
<1> USE DEF PollsOK
<1>1. CASE UNCHANGED pollVars
  BY <1>1 DEF TypeOK, pollVars
<1>2. ASSUME NEW p \in User, NEW fd \in Descriptor, NEW o \in Callback, AddDescriptor(p, fd, o)
      PROVE  PollsOK'
  BY <1>2 DEF TypeOK, AddDescriptor
<1>3. ASSUME NEW p \in User, NEW fd \in Descriptor, FindDescriptor(p, fd) \/ DropDescriptor(p, fd)
      PROVE  PollsOK'
  BY <1>3 DEF TypeOK, FindDescriptor, DropDescriptor, Restrict
<1>4. ASSUME NEW p \in User, InsertDescriptor(p)
      PROVE  PollsOK'
  BY <1>4, OpFacts DEF TypeOK, InsertDescriptor
<1>5. ASSUME NEW p \in User, EraseDescriptor(p)
      PROVE  PollsOK'
  BY <1>5 DEF TypeOK, EraseDescriptor, Restrict
<1>6. ASSUME NEW p \in User, ChangeDescriptor(p)
      PROVE  PollsOK'
  <2>1. found[p] \in Callback
    BY <1>6, OpFacts DEF ChangeDescriptor
  <2> QED
    BY <1>6, <2>1 DEF TypeOK, ChangeDescriptor
<1> QED
  BY <1>1, <1>2, <1>3, <1>4, <1>5, <1>6, PollsUntouched DEF PollCalls

LEMMA OpsStep == TypeOK /\ [Next]_vars => OpsOK'
<1> SUFFICES ASSUME TypeOK, [Next]_vars PROVE OpsOK'
  OBVIOUS
<1> USE DEF OpsOK
<1>1. CASE UNCHANGED <<op, found>>
  BY <1>1 DEF TypeOK
<1>a. ASSUME NEW p \in User, NEW r \in OpType, r.kind # "modify", op' = [op EXCEPT ![p] = r],
             UNCHANGED found
      PROVE  OpsOK'
  BY <1>a DEF TypeOK
<1>2. Idle \in OpType /\ Idle.kind # "modify"
  BY DEF Idle, OpType
<1>3. /\ \A fd \in Descriptor, o \in Callback : [kind |-> "insert", fd |-> fd, task |-> o] \in OpType
      /\ \A fd \in Descriptor : [kind |-> "erase", fd |-> fd, task |-> None] \in OpType
      /\ \A fd \in Descriptor : [kind |-> "modify", fd |-> fd, task |-> None] \in OpType
      /\ \A o \in Callback : [kind |-> "delete", fd |-> None, task |-> o] \in OpType
  BY DEF OpType
<1>4. ASSUME NEW p \in User, NEW fd \in Descriptor, NEW o \in Callback, AddDescriptor(p, fd, o)
      PROVE  OpsOK'
  <2>1. UNCHANGED found
    BY <1>4 DEF AddDescriptor
  <2>2. UNCHANGED op \/ op' = [op EXCEPT ![p] = [kind |-> "insert", fd |-> fd, task |-> o]]
    BY <1>4 DEF AddDescriptor
  <2> QED
    BY <1>1, <1>3, <1>a, <2>1, <2>2
<1>5. ASSUME NEW p \in User, NEW fd \in Descriptor, DropDescriptor(p, fd)
      PROVE  OpsOK'
  BY <1>3, <1>5, <1>a DEF DropDescriptor
<1>6. ASSUME NEW p \in User, InsertDescriptor(p) \/ InvokeDelete(p)
      PROVE  OpsOK'
  BY <1>2, <1>6, <1>a DEF InsertDescriptor, InvokeDelete, pollVars
<1>7. ASSUME NEW p \in User, EraseDescriptor(p)
      PROVE  OpsOK'
  <2>1. UNCHANGED found
    BY <1>7 DEF EraseDescriptor
  <2>2. CASE op' = [op EXCEPT ![p] = Idle]
    BY <1>2, <1>a, <2>1, <2>2
  <2>3. CASE op[p].fd \in DOMAIN poll_tasks
    <3>1. poll_tasks[op[p].fd] \in Callback
      BY <2>3 DEF TypeOK, PollsOK
    <3>2. op' = [op EXCEPT ![p] = [kind |-> "delete", fd |-> None, task |-> poll_tasks[op[p].fd]]]
      BY <1>7, <2>3 DEF EraseDescriptor
    <3> QED
      BY <1>3, <1>a, <2>1, <3>1, <3>2
  <2> QED
    BY <1>7, <2>2, <2>3 DEF EraseDescriptor
<1>8. ASSUME NEW p \in User, NEW id \in DOMAIN timers, RemoveTimer(p, id)
      PROVE  OpsOK'
  <2>1. timers[id].task \in Callback
    BY DEF TypeOK, TimersOK, Timer
  <2> QED
    BY <1>3, <1>8, <1>a, <2>1 DEF RemoveTimer, pollVars
<1>9. ASSUME NEW p \in User, NEW fd \in Descriptor, FindDescriptor(p, fd)
      PROVE  OpsOK'
  <2>1. CASE UNCHANGED <<op, found>>
    BY <1>1, <2>1
  <2>2. CASE fd \in DOMAIN poll_tasks
    <3>1. poll_tasks[fd] \in Callback
      BY <2>2 DEF TypeOK, PollsOK
    <3>2. /\ op' = [op EXCEPT ![p] = [kind |-> "modify", fd |-> fd, task |-> None]]
          /\ found' = [found EXCEPT ![p] = poll_tasks[fd]]
      BY <1>9, <2>2 DEF FindDescriptor
    <3> QED
      BY <1>3, <3>1, <3>2 DEF TypeOK
  <2> QED
    BY <1>9, <2>1, <2>2 DEF FindDescriptor
<1>10. ASSUME NEW p \in User, ChangeDescriptor(p)
       PROVE  OpsOK'
  BY <1>2, <1>10 DEF ChangeDescriptor, TypeOK
<1> QED
  BY <1>1, <1>4, <1>5, <1>6, <1>7, <1>8, <1>9, <1>10, OpsUntouched, PollsUntouched
     DEF PollCalls, Removes, Deletions, pollVars

LEMMA TimesStep == TypeOK /\ [Next]_vars => TimesOK'
<1> SUFFICES ASSUME TypeOK, [Next]_vars PROVE TimesOK'
  OBVIOUS
<1> USE DEF TimesOK
<1>1. CASE Elsewhere
  <2>1. CASE Tick
    BY <2>1 DEF Tick, timerVars, sleepVars, TypeOK
  <2>2. CASE EpollReturns \/ CvWakes
    BY <2>2 DEF EpollReturns, CvWakes, Awake, timerVars, TypeOK
  <2>3. CASE ~Tick /\ ~EpollReturns /\ ~CvWakes
    <3>1. UNCHANGED <<clock, wakeup, until, now>>
      BY <1>1, <2>3
         DEF Elsewhere, RunTask, RunTimer, RunPoll, BodyReturns, SwapQueues, SelfInvokeFunction,
             EpollReports, SelfInvoke, Wait, Complete, InsertDescriptor, FindDescriptor,
             ChangeDescriptor, EraseDescriptor, InvokeDelete, Invoke, DropDescriptor,
             AddDescriptor, timerVars, sleepVars
    <3> QED
      BY <3>1 DEF TypeOK
  <2> QED
    BY <2>1, <2>2, <2>3
<1>2. CASE Appends \/ Modifies
  <2>1. PICK ms \in Nat :
          /\ Earlier(clock + ms) \/ UNCHANGED <<wakeup, wake>>
          /\ UNCHANGED <<clock, until, now>>
    BY <1>2, CallbacksAssumption DEF Appends, Modifies, AppendTimer, ModifyTimer
  <2> QED
    BY <2>1 DEF Earlier, TypeOK
<1>3. CASE Removes
  BY <1>3 DEF Removes, RemoveTimer, sleepVars, TypeOK
<1>4. CASE PassCollects
  BY <1>4, CollectWakeup DEF PassCollects, PassOthers, TypeOK
<1>5. CASE PassTasks \/ PassEnds \/ PassSleeps
  BY <1>5 DEF PassTasks, PassEnds, PassSleeps, PassOthers, timerVars, TypeOK
<1>6. CASE CvTimesOut
  BY <1>6, CollectWakeup DEF CvTimesOut, Awake, TypeOK
<1>7. CASE UNCHANGED vars
  BY <1>7 DEF vars, timerVars, sleepVars, TypeOK
<1> QED
  BY <1>1, <1>2, <1>3, <1>4, <1>5, <1>6, <1>7, NextCases, PassDoes

LEMMA WakeStep == TypeOK /\ [Next]_vars => WakeOK'
<1> SUFFICES ASSUME TypeOK, [Next]_vars PROVE WakeOK'
  OBVIOUS
<1> USE DEF WakeOK
<1>1. CASE Elsewhere
  BY <1>1
     DEF Elsewhere, RunTask, RunTimer, RunPoll, BodyReturns, SwapQueues, SelfInvokeFunction,
         EpollReturns, EpollReports, SelfInvoke, Wait, Complete, CvWakes, InsertDescriptor,
         FindDescriptor, ChangeDescriptor, EraseDescriptor, InvokeDelete, Invoke, DropDescriptor,
         AddDescriptor, Tick, sleepVars, TypeOK
<1>2. CASE Appends \/ Modifies
  BY <1>2 DEF Appends, Modifies, AppendTimer, ModifyTimer, Earlier, TypeOK
<1>3. CASE Removes
  BY <1>3 DEF Removes, RemoveTimer, sleepVars, TypeOK
<1>4. CASE PassCollects \/ CvTimesOut
  BY <1>4, CollectWakeup DEF PassCollects, CvTimesOut, TypeOK, TimesOK
<1>5. CASE PassTasks \/ PassEnds \/ PassSleeps
  BY <1>5 DEF PassTasks, PassEnds, PassSleeps, TypeOK
<1>6. CASE UNCHANGED vars
  BY <1>6 DEF vars, sleepVars, TypeOK
<1> QED
  BY <1>1, <1>2, <1>3, <1>4, <1>5, <1>6, NextCases, PassDoes

LEMMA TailType ==
  ASSUME NEW S, NEW s \in Seq(S), s # <<>>
  PROVE  /\ Head(s) = s[1] /\ 1 \in 1..Len(s) /\ Tail(s) \in Seq(S) /\ Len(Tail(s)) = Len(s) - 1
         /\ \A i \in 1..Len(Tail(s)) : i + 1 \in 1..Len(s) /\ Tail(s)[i] = s[i + 1]
  OBVIOUS

LEMMA EpollBatch ==
  ASSUME TypeOK, EpollReturns
  PROVE  /\ reported' \in Seq(Callback)
         /\ \A i \in 1..Len(reported') : \E fd \in DOMAIN epoll : reported'[i] = epoll[fd]
<1>1. CASE reported' = <<>>
  BY <1>1
<1>2. ASSUME NEW ready \in SUBSET DOMAIN epoll, reported' \in SetToSeqs({epoll[fd] : fd \in ready})
      PROVE  /\ reported' \in Seq(Callback)
             /\ \A i \in 1..Len(reported') : \E fd \in DOMAIN epoll : reported'[i] = epoll[fd]
  <2> DEFINE S == {epoll[fd] : fd \in ready}
  <2>1. S \in SUBSET Callback /\ \A o \in S : \E fd \in DOMAIN epoll : o = epoll[fd]
    BY DEF TypeOK, PollsOK
  <2>2. PICK q \in SetToSeqs(S) : reported' = q
    BY <1>2
  <2> HIDE DEF S
  <2>3. q \in Seq(Callback) /\ q \in Seq(S)
    BY <2>1, ArrangedType
  <2>4. \A i \in 1..Len(q) : q[i] \in S
    BY <2>3
  <2> QED
    BY <2>1, <2>2, <2>3, <2>4
<1> QED
  BY <1>1, <1>2 DEF EpollReturns

\* The steps that change a batch.
BatchSteps == RunTimer \/ RunPoll \/ EpollReturns \/ EpollReports \/ PassCollects \/ CvTimesOut

LEMMA BatchesUntouched ==
  ASSUME [Next]_vars
  PROVE  \/ BatchSteps
         \/ UNCHANGED <<process_timer_tasks, process_poll_tasks, reported>>
<1>1. CASE Pass
  BY <1>1, PassDoes DEF PassOthers, PassTasks, PassEnds, PassSleeps, BatchSteps
<1>2. CASE Elsewhere
  BY <1>2
     DEF Elsewhere, RunTask, BodyReturns, SwapQueues, SelfInvokeFunction, SelfInvoke, Wait,
         Complete, CvWakes, InsertDescriptor, FindDescriptor, ChangeDescriptor, EraseDescriptor,
         InvokeDelete, Invoke, DropDescriptor, AddDescriptor, Tick, batchVars, BatchSteps
<1> QED
  BY <1>1, <1>2, NextCases
     DEF vars, batchVars, Appends, Modifies, Removes, AppendTimer, ModifyTimer, RemoveTimer,
         BatchSteps

LEMMA BatchesStep == TypeOK /\ [Next]_vars => BatchesOK'
<1> SUFFICES ASSUME TypeOK, [Next]_vars PROVE BatchesOK'
  OBVIOUS
<1> USE DEF BatchesOK
<1>1. CASE UNCHANGED <<process_timer_tasks, process_poll_tasks, reported>>
  BY <1>1 DEF TypeOK
<1>2. CASE RunTimer \/ RunPoll
  BY <1>2, TailType DEF RunTimer, RunPoll, TypeOK
<1>3. CASE EpollReturns
  BY <1>3, EpollBatch DEF EpollReturns, batchVars, TypeOK
<1>4. CASE EpollReports
  BY <1>4 DEF EpollReports, TypeOK
<1>5. CASE PassCollects \/ CvTimesOut
  <2>1. process_timer_tasks' \in Seq(Callback)
    BY <1>5, CollectBatch DEF PassCollects, CvTimesOut, TypeOK, TimesOK
  <2> QED
    BY <1>5, <2>1 DEF PassCollects, PassOthers, CvTimesOut, TypeOK
<1> QED
  BY <1>1, <1>2, <1>3, <1>4, <1>5, BatchesUntouched DEF BatchSteps

\* The steps that change the queues of tasks.
Posts == \E p \in User : Invoke(p)
Swaps == process_tasks' = tasks /\ tasks' = process_tasks
QueueSteps == RunTask \/ SwapQueues \/ Wait \/ PassTasks \/ Deletions \/ Posts

LEMMA QueuesUntouched ==
  ASSUME [Next]_vars
  PROVE  QueueSteps \/ UNCHANGED queueVars
<1>1. CASE Pass
  BY <1>1, PassDoes DEF PassEnds, PassSleeps, PassCollects, QueueSteps, queueVars
<1>2. CASE Elsewhere
  BY <1>2
     DEF Elsewhere, RunTimer, RunPoll, BodyReturns, SelfInvokeFunction, EpollReturns,
         EpollReports, SelfInvoke, Complete, CvWakes, InsertDescriptor, FindDescriptor,
         ChangeDescriptor, EraseDescriptor, DropDescriptor, AddDescriptor, Tick, QueueSteps,
         Deletions, Posts
<1> QED
  BY <1>1, <1>2, NextCases
     DEF vars, Appends, Modifies, Removes, AppendTimer, ModifyTimer, RemoveTimer, CvTimesOut

LEMMA WaitDoes ==
  ASSUME Wait
  PROVE  /\ UNCHANGED queueVars \/ (tasks' = process_tasks /\ process_tasks' = tasks)
         /\ UNCHANGED <<clock, timerVars, pollVars, sleepVars, reported, batchVars, op, used, deleted,
                        invoked>>
  BY DEF Wait

LEMMA QueuesStep == TypeOK /\ [Next]_vars => QueuesOK'
<1> SUFFICES ASSUME TypeOK, [Next]_vars PROVE QueuesOK'
  OBVIOUS
<1> USE DEF QueuesOK
<1>1. CASE UNCHANGED queueVars
  BY <1>1 DEF TypeOK, queueVars
<1>2. CASE Swaps
  BY <1>2 DEF Swaps, TypeOK
<1>3. CASE RunTask
  BY <1>3, TailType DEF RunTask, TypeOK
<1>4. CASE Deletions
  BY <1>4, OpFacts DEF Deletions, InvokeDelete, TypeOK
<1>5. CASE Posts
  BY <1>5 DEF Posts, Invoke, TypeOK
<1> QED
  BY <1>1, <1>2, <1>3, <1>4, <1>5, QueuesUntouched, WaitDoes
     DEF QueueSteps, Swaps, SwapQueues, PassTasks

\* The steps that register or delete objects.
LEMMA HistoryStep == TypeOK /\ [Next]_vars => HistoryOK'
<1> SUFFICES ASSUME TypeOK, [Next]_vars PROVE HistoryOK'
  OBVIOUS
<1> USE DEF HistoryOK
<1>1. CASE UNCHANGED <<used, deleted, invoked>>
  BY <1>1 DEF TypeOK
<1>2. CASE Appends
  BY <1>2 DEF Appends, AppendTimer, Fresh, TypeOK
<1>3. ASSUME NEW p \in User, NEW fd \in Descriptor, NEW o \in Callback, AddDescriptor(p, fd, o)
      PROVE  HistoryOK'
  BY <1>3 DEF AddDescriptor, TypeOK
<1>4. ASSUME NEW p \in User, InsertDescriptor(p)
      PROVE  HistoryOK'
  BY <1>4, OpFacts DEF InsertDescriptor, TypeOK
<1>5. CASE RunTask
  BY <1>5, TailType DEF RunTask, TypeOK, QueuesOK
<1>6. CASE Posts
  BY <1>6 DEF Posts, Invoke, TypeOK
<1>7. CASE Pass
  BY <1>7, <1>1, PassDoes DEF PassOthers, PassTasks, PassEnds, PassSleeps, PassCollects
<1>8. ASSUME Elsewhere
      PROVE  \/ UNCHANGED <<used, deleted, invoked>> \/ RunTask \/ Posts
             \/ \E p \in User : InsertDescriptor(p)
             \/ \E p \in User, fd \in Descriptor, o \in Callback : AddDescriptor(p, fd, o)
  BY <1>8
     DEF Elsewhere, RunTimer, RunPoll, BodyReturns, SwapQueues, SelfInvokeFunction,
         EpollReturns, EpollReports, SelfInvoke, Wait, Complete, CvWakes, FindDescriptor,
         ChangeDescriptor, EraseDescriptor, InvokeDelete, DropDescriptor, Tick, Posts
<1>9. CASE Modifies \/ Removes \/ CvTimesOut \/ UNCHANGED vars
  BY <1>9, <1>1 DEF Modifies, Removes, ModifyTimer, RemoveTimer, CvTimesOut, vars
<1> QED
  BY <1>1, <1>2, <1>3, <1>4, <1>5, <1>6, <1>7, <1>8, <1>9, NextCases

LEMMA StackStep == TypeOK /\ [Next]_vars => StackOK'
<1> SUFFICES ASSUME TypeOK, [Next]_vars PROVE StackOK'
  OBVIOUS
<1> USE DEF TypeOK
<1>1. CASE UNCHANGED stack
  BY <1>1 DEF StackOK
<1>2. ASSUME NEW p \in User, Spend(p) PROVE StackOK'
  BY <1>2, SpentStack
<1>3. Appends \/ Modifies \/ Removes \/ Posts => \E p \in User : Spend(p)
  BY DEF Appends, Modifies, Removes, Posts, AppendTimer, ModifyTimer, RemoveTimer, Invoke
<1>4. PollCalls => UNCHANGED stack \/ \E p \in User : Spend(p)
  BY DEF PollCalls, AddDescriptor, DropDescriptor, InsertDescriptor, FindDescriptor,
         ChangeDescriptor, EraseDescriptor
<1>5. ASSUME NEW pc \in Pcs, stack' = To(pc), pc \in ExecPc \/ ~At(ExecPc) PROVE StackOK'
  BY <1>5, MovedStack
<1>6. CASE PassTasks \/ PassSleeps \/ CvWakes \/ EpollReturns \/ EpollReports
  <2>1. \E pc \in ExecPc : stack' = To(pc)
    BY <1>6 DEF PassTasks, PassSleeps, CvWakes, EpollReturns, EpollReports, ExecPc
  <2> QED
    BY <2>1, <1>5 DEF Pcs
<1>7. CASE SwapQueues \/ SelfInvokeFunction
  <2>1. \E pc \in Pcs : stack' = To(pc) /\ (pc \in ExecPc \/ ~At(ExecPc))
    BY <1>7 DEF SwapQueues, SelfInvokeFunction, ExecPc, Pcs, At
  <2> QED
    BY <2>1, <1>5
<1>8. CASE PassCollects \/ CvTimesOut
  BY <1>8, CollectStack DEF PassCollects, CvTimesOut
<1>9. CASE PassEnds \/ BodyReturns
  BY <1>9, FrontStack DEF PassEnds, BodyReturns, At, ExecPc
<1>10. CASE RunTask \/ RunTimer \/ RunPoll
  <2>1. UNCHANGED stack \/ \E o \in Callback \cup {None} : stack' = Call(o)
    BY <1>10, TailType DEF RunTask, RunTimer, RunPoll, BatchesOK
  <2> QED
    BY <2>1, <1>1, CalledStack
<1>11. CASE SelfInvoke \/ Wait
  <2>1. \E pc \in Pcs : stack' = Push(Called, pc)
    BY <1>11 DEF SelfInvoke, Wait, Pcs, ExecPc
  <2> QED
    BY <2>1, PushedStack
<1>12. CASE Complete
  BY <1>12, CompletedStack DEF Complete
<1>13. CASE Tick \/ Deletions \/ UNCHANGED vars
  BY <1>13, <1>1 DEF Tick, Deletions, InvokeDelete, vars
<1>14. Elsewhere =>
         \/ PollCalls \/ Posts \/ CvWakes \/ EpollReturns \/ EpollReports \/ SwapQueues
         \/ SelfInvokeFunction \/ BodyReturns \/ RunTask \/ RunTimer \/ RunPoll \/ SelfInvoke
         \/ Wait \/ Complete \/ Tick \/ Deletions
  BY DEF Elsewhere, PollCalls, Posts, Deletions
<1> QED
  BY <1>1, <1>2, <1>3, <1>4, <1>6, <1>7, <1>8, <1>9, <1>10, <1>11, <1>12, <1>13, <1>14,
     NextCases, PassDoes

LEMMA TypeStep == TypeOK /\ [Next]_vars => TypeOK'
  BY TimersStep, PollsStep, TimesStep, WakeStep, BatchesStep, QueuesStep, StackStep, OpsStep,
     HistoryStep
     DEF TypeOK
-----------------------------------------------------------------------------
(***************************************************************************)
(* The descriptors.                                                         *)
(***************************************************************************)
LEMMA IdleFacts ==
  /\ Idle.kind = "none" /\ Idle.fd = None /\ Idle.task = None
  /\ \A fd \in Descriptor : fd # None
  /\ \A o \in Callback : o # None
  BY CallbacksAssumption DEF Idle

LEMMA CallerFacts == ASSUME NEW name, NEW p \in Callers(name) PROVE p \in User /\ op[p] = Idle
  BY DEF Callers

LEMMA OpChanged ==
  ASSUME TypeOK, NEW p \in User, NEW r, op' = [op EXCEPT ![p] = r]
  PROVE  op'[p] = r /\ \A q \in User : q # p => op'[q] = op[q]
  BY DEF TypeOK, OpsOK

LEMMA WatchedParts == WatchedAreRegistered <=> \A fd \in Descriptor : WatchedOK(fd)
  BY DEF WatchedAreRegistered, WatchedOK

LEMMA FdInit == Init => FdInv /\ WatchedAreRegistered
<1> SUFFICES ASSUME Init PROVE FdInv /\ WatchedAreRegistered
  OBVIOUS
<1>1. \A p \in User : op[p].fd = None
  BY IdleFacts DEF Init
<1>2. DOMAIN epoll = {} /\ DOMAIN poll_tasks = {}
  BY DEF Init
<1> QED
  BY <1>1, <1>2, IdleFacts DEF FdInv, FdOK, WatchedAreRegistered

\* A call of user p on descriptor fd leaves the others as they are.
LEMMA OtherDescriptors ==
  ASSUME FdInv, WatchedAreRegistered, NEW p \in User, NEW fd, NEW d \in Descriptor, d # fd,
         op[p].fd \in {fd, None}, op'[p].fd \in {fd, None},
         \A q \in User : q # p => op'[q] = op[q] /\ found'[q] = found[q],
         d \in DOMAIN epoll' <=> d \in DOMAIN epoll,
         d \in DOMAIN poll_tasks' <=> d \in DOMAIN poll_tasks,
         d \in DOMAIN epoll => epoll'[d] = epoll[d],
         d \in DOMAIN poll_tasks => poll_tasks'[d] = poll_tasks[d]
  PROVE  FdOK(d)' /\ WatchedOK(d)'
<1>1. FdOK(d) /\ WatchedOK(d) /\ d # None
  BY WatchedParts, IdleFacts DEF FdInv
<1>2. op[p].fd # d /\ op'[p].fd # d
  BY <1>1
<1>3. FdOK(d)'
  BY <1>1, <1>2 DEF FdOK
<1>4. ASSUME d \in DOMAIN epoll'
      PROVE  \/ d \in DOMAIN poll_tasks' /\ epoll'[d] = poll_tasks'[d]
             \/ \E q \in User : op'[q] = [kind |-> "insert", fd |-> d, task |-> epoll'[d]]
  <2>1. CASE d \in DOMAIN poll_tasks /\ epoll[d] = poll_tasks[d]
    BY <1>4, <2>1
  <2>2. ASSUME NEW q \in User, op[q] = [kind |-> "insert", fd |-> d, task |-> epoll[d]]
        PROVE  op'[q] = [kind |-> "insert", fd |-> d, task |-> epoll'[d]]
    <3>1. q # p
      BY <2>2, <1>2
    <3> QED
      BY <1>4, <2>2, <3>1
  <2> QED
    BY <1>1, <1>4, <2>1, <2>2 DEF WatchedOK
<1>5. ASSUME d \in DOMAIN poll_tasks' \ DOMAIN epoll'
      PROVE  InMiddle(d, {"erase"})'
  <2>1. PICK q \in User : op[q].fd = d /\ op[q].kind \in {"erase"}
    BY <1>1, <1>5 DEF WatchedOK, InMiddle
  <2>2. op'[q] = op[q]
    BY <1>2, <2>1
  <2> QED
    BY <2>1, <2>2 DEF InMiddle
<1> QED
  BY <1>3, <1>4, <1>5 DEF WatchedOK

LEMMA FdStep ==
  ASSUME Coordinated
  PROVE  TypeOK /\ FdInv /\ WatchedAreRegistered /\ [Next]_vars => FdInv' /\ WatchedAreRegistered'
<1> SUFFICES ASSUME TypeOK, FdInv, WatchedAreRegistered, [Next]_vars
             PROVE  FdInv' /\ WatchedAreRegistered'
  OBVIOUS
<1>s. ASSUME \A d \in Descriptor : FdOK(d)' /\ WatchedOK(d)'
      PROVE  FdInv' /\ WatchedAreRegistered'
  BY <1>s, WatchedParts DEF FdInv, WatchedAreRegistered, WatchedOK
<1>1. CASE UNCHANGED <<op, pollVars>>
  <2>1. UNCHANGED <<op, poll_tasks, epoll, found>>
    BY <1>1 DEF pollVars
  <2> QED
    BY <2>1 DEF FdInv, FdOK, WatchedAreRegistered, InMiddle
<1>2. ASSUME NEW p \in User, NEW fd \in Descriptor, NEW o \in Callback, AddDescriptor(p, fd, o)
      PROVE  FdInv' /\ WatchedAreRegistered'
  <2>1. op[p] = Idle /\ UNCHANGED <<poll_tasks, found>> /\ ~InMiddle(fd, {"erase", "modify"})
    BY <1>2, IdleFacts, CallerFacts DEF AddDescriptor, MayAdd, Coordinated
  <2>2. CASE UNCHANGED <<epoll, op>>
    BY <1>1, <2>1, <2>2 DEF pollVars
  <2>3. CASE ~UNCHANGED <<epoll, op>>
    <3>1. /\ fd \notin DOMAIN epoll
          /\ epoll' = [d \in DOMAIN epoll \cup {fd} |-> IF d = fd THEN o ELSE epoll[d]]
          /\ op' = [op EXCEPT ![p] = [kind |-> "insert", fd |-> fd, task |-> o]]
      BY <1>2, <2>3 DEF AddDescriptor
    <3>2. op'[p] = [kind |-> "insert", fd |-> fd, task |-> o] /\ \A q \in User : q # p => op'[q] = op[q]
      BY <3>1, OpChanged
    <3>3. /\ DOMAIN epoll' = DOMAIN epoll \cup {fd} /\ epoll'[fd] = o
          /\ \A d \in DOMAIN epoll : d # fd => epoll'[d] = epoll[d]
      BY <3>1
    <3>4. fd \notin DOMAIN poll_tasks
      <4>1. ~InMiddle(fd, {"erase"})
        BY <2>1 DEF InMiddle
      <4> QED
        BY <3>1, <4>1 DEF WatchedAreRegistered
    <3>5. \A q \in User : op[q].fd # fd
      <4> SUFFICES ASSUME NEW q \in User, op[q].fd = fd PROVE FALSE
        OBVIOUS
      <4>1. op[q].kind # "insert"
        BY <3>1 DEF FdInv, FdOK
      <4>2. op[q].kind \notin {"erase", "modify"}
        BY <2>1 DEF InMiddle
      <4> QED
        BY <4>1, <4>2, OpFacts, IdleFacts
    <3>6. FdOK(fd)' /\ WatchedOK(fd)'
      <4>1. \A q \in User : op'[q].fd = fd => q = p
        BY <3>2, <3>5
      <4>2. FdOK(fd)'
        BY <2>1, <3>2, <3>3, <3>4, <4>1 DEF FdOK
      <4> QED
        BY <2>1, <3>2, <3>3, <3>4, <4>2 DEF WatchedOK
    <3>7. op[p].fd = None /\ op'[p].fd = fd
      BY <2>1, <3>2, IdleFacts
    <3>8. ASSUME NEW d \in Descriptor, d # fd PROVE FdOK(d)' /\ WatchedOK(d)'
      BY <2>1, <3>2, <3>3, <3>7, <3>8, OtherDescriptors
    <3> QED
      BY <3>6, <3>8, <1>s
  <2> QED
    BY <2>2, <2>3
<1>3. ASSUME NEW p \in User, NEW fd \in Descriptor, DropDescriptor(p, fd)
      PROVE  FdInv' /\ WatchedAreRegistered'
  <2>1. op[p] = Idle /\ UNCHANGED <<poll_tasks, found>> /\ ~InMiddle(fd, {"insert"})
    BY <1>3, IdleFacts, CallerFacts DEF DropDescriptor, MayDrop, Coordinated
  <2>2. epoll' = [d \in DOMAIN epoll \ {fd} |-> epoll[d]]
    BY <1>3 DEF DropDescriptor, Restrict
  <2>3. op'[p] = [kind |-> "erase", fd |-> fd, task |-> None] /\ \A q \in User : q # p => op'[q] = op[q]
    BY <1>3, OpChanged DEF DropDescriptor
  <2>4. fd \notin DOMAIN epoll'
    BY <2>2
  <2>5. \A q \in User : op'[q].fd = fd => op'[q].kind # "insert"
    BY <2>1, <2>3 DEF InMiddle
  <2>6. FdOK(fd)' /\ WatchedOK(fd)'
    BY <2>3, <2>4, <2>5 DEF FdOK, WatchedOK, InMiddle
  <2>7. op[p].fd = None /\ op'[p].fd = fd
    BY <2>1, <2>3, IdleFacts
  <2>8. ASSUME NEW d \in Descriptor, d # fd PROVE FdOK(d)' /\ WatchedOK(d)'
    BY <2>1, <2>2, <2>3, <2>7, <2>8, OtherDescriptors
  <2> QED
    BY <2>6, <2>8, <1>s
<1>4. ASSUME NEW p \in User, InsertDescriptor(p)
      PROVE  FdInv' /\ WatchedAreRegistered'
  <2>1. /\ op'[p] = Idle /\ UNCHANGED <<epoll, found>>
        /\ \A q \in User : q # p => op'[q] = op[q]
    BY <1>4, OpChanged DEF InsertDescriptor
  <2>2. PICK fd \in Descriptor : op[p].fd = fd /\ op[p].kind = "insert" /\ fd # None
    BY <1>4, OpFacts, IdleFacts DEF InsertDescriptor
  <2>3. /\ fd \in DOMAIN epoll /\ fd \notin DOMAIN poll_tasks /\ epoll[fd] = op[p].task
        /\ \A q \in User : op[q].fd = fd => q = p
    BY <2>2 DEF FdInv, FdOK
  <2>4. poll_tasks' = [d \in DOMAIN poll_tasks \cup {fd} |->
                         IF d = fd THEN op[p].task ELSE poll_tasks[d]]
    BY <1>4, <2>2, <2>3 DEF InsertDescriptor
  <2>5. \A q \in User : op'[q].fd # fd
    BY <2>1, <2>2, <2>3, IdleFacts
  <2>6. FdOK(fd)' /\ WatchedOK(fd)'
    <3>1. fd \in DOMAIN poll_tasks' /\ poll_tasks'[fd] = epoll'[fd]
      BY <2>1, <2>3, <2>4
    <3> QED
      BY <2>1, <2>3, <2>5, <3>1 DEF FdOK, WatchedOK
  <2>7. op[p].fd = fd /\ op'[p].fd = None
    BY <2>1, <2>2, IdleFacts
  <2>8. ASSUME NEW d \in Descriptor, d # fd PROVE FdOK(d)' /\ WatchedOK(d)'
    BY <2>1, <2>4, <2>7, <2>8, OtherDescriptors
  <2> QED
    BY <2>6, <2>8, <1>s
<1>5. ASSUME NEW p \in User, EraseDescriptor(p)
      PROVE  FdInv' /\ WatchedAreRegistered'
  <2>1. /\ UNCHANGED <<epoll, found>> /\ op'[p].fd = None
        /\ \A q \in User : q # p => op'[q] = op[q]
    BY <1>5, OpChanged, IdleFacts DEF EraseDescriptor
  <2>2. PICK fd \in Descriptor : op[p].fd = fd /\ op[p].kind = "erase" /\ fd # None
    BY <1>5, OpFacts, IdleFacts DEF EraseDescriptor
  <2>3. fd \notin DOMAIN epoll /\ \A q \in User : op[q].fd = fd => op[q].kind # "insert"
    BY <2>2 DEF FdInv, FdOK
  <2>4. fd \notin DOMAIN poll_tasks' /\ \A d \in Descriptor : d # fd =>
          /\ d \in DOMAIN poll_tasks' <=> d \in DOMAIN poll_tasks
          /\ d \in DOMAIN poll_tasks => poll_tasks'[d] = poll_tasks[d]
    BY <1>5, <2>2 DEF EraseDescriptor, Restrict
  <2>5. \A q \in User : op'[q].fd = fd => op'[q].kind # "insert"
    BY <2>1, <2>2, <2>3
  <2>6. FdOK(fd)' /\ WatchedOK(fd)'
    BY <2>1, <2>3, <2>4, <2>5 DEF FdOK, WatchedOK
  <2>8. ASSUME NEW d \in Descriptor, d # fd PROVE FdOK(d)' /\ WatchedOK(d)'
    BY <2>1, <2>2, <2>4, <2>8, OtherDescriptors
  <2> QED
    BY <2>6, <2>8, <1>s
<1>6. ASSUME NEW p \in User, NEW fd \in Descriptor, FindDescriptor(p, fd)
      PROVE  FdInv' /\ WatchedAreRegistered'
  <2>1. op[p] = Idle /\ UNCHANGED <<poll_tasks, epoll>>
    BY <1>6, IdleFacts, CallerFacts DEF FindDescriptor
  <2>2. CASE UNCHANGED <<op, found>>
    BY <1>1, <2>1, <2>2 DEF pollVars
  <2>3. CASE fd \in DOMAIN poll_tasks
    <3>1. /\ op' = [op EXCEPT ![p] = [kind |-> "modify", fd |-> fd, task |-> None]]
          /\ found' = [found EXCEPT ![p] = poll_tasks[fd]]
      BY <1>6, <2>3 DEF FindDescriptor
    <3>2. /\ op'[p] = [kind |-> "modify", fd |-> fd, task |-> None]
          /\ \A q \in User : q # p => op'[q] = op[q]
      BY <3>1, OpChanged
    <3>3. found'[p] = poll_tasks[fd] /\ \A q \in User : q # p => found'[q] = found[q]
      BY <3>1 DEF TypeOK, OpsOK
    <3>4. \A q \in User : op[q].fd = fd => op[q].kind # "insert"
      BY <2>3 DEF FdInv, FdOK
    <3>5. FdOK(fd)'
      <4>1. FdOK(fd)
        BY DEF FdInv
      <4>2. \A q \in User : op'[q].fd = fd => op'[q].kind # "insert"
        BY <3>2, <3>4
      <4> QED
        BY <2>1, <2>3, <3>2, <3>3, <4>1, <4>2 DEF FdOK
    <3>6. WatchedOK(fd)'
      <4>1. fd \in DOMAIN epoll => epoll[fd] = poll_tasks[fd]
        <5>1. \A q \in User : op[q] # [kind |-> "insert", fd |-> fd, task |-> epoll[fd]]
          BY <3>4
        <5> QED
          BY <5>1 DEF WatchedAreRegistered
      <4>2. ASSUME fd \notin DOMAIN epoll PROVE InMiddle(fd, {"erase"})'
        <5>1. PICK q \in User : op[q].fd = fd /\ op[q].kind \in {"erase"}
          BY <2>3, <4>2 DEF WatchedAreRegistered, InMiddle
        <5>2. q # p
          BY <2>1, <5>1, IdleFacts
        <5> QED
          BY <3>2, <5>1, <5>2 DEF InMiddle
      <4> QED
        BY <2>1, <2>3, <4>1, <4>2 DEF WatchedOK
    <3>7. op[p].fd = None /\ op'[p].fd = fd
      BY <2>1, <3>2, IdleFacts
    <3>8. ASSUME NEW d \in Descriptor, d # fd PROVE FdOK(d)' /\ WatchedOK(d)'
      BY <2>1, <3>2, <3>3, <3>7, <3>8, OtherDescriptors
    <3> QED
      BY <3>5, <3>6, <3>8, <1>s
  <2> QED
    BY <1>6, <2>2, <2>3 DEF FindDescriptor
<1>7. ASSUME NEW p \in User, ChangeDescriptor(p)
      PROVE  FdInv' /\ WatchedAreRegistered'
  <2>1. op'[p] = Idle /\ UNCHANGED poll_tasks /\ \A q \in User : q # p => op'[q] = op[q]
    BY <1>7, OpChanged DEF ChangeDescriptor
  <2>2. PICK fd \in Descriptor : op[p].fd = fd /\ op[p].kind = "modify" /\ fd # None
    BY <1>7, OpFacts, IdleFacts DEF ChangeDescriptor
  <2>3. \A q \in User : q # p => found'[q] = found[q]
    BY <1>7 DEF ChangeDescriptor, TypeOK, OpsOK
  <2>4. /\ DOMAIN epoll' = DOMAIN epoll
        /\ \A d \in DOMAIN epoll : epoll'[d] = IF d = fd THEN found[p] ELSE epoll[d]
    BY <1>7, <2>2 DEF ChangeDescriptor
  <2>5. FdOK(fd)
    BY <2>2 DEF FdInv
  <2>6. fd \in DOMAIN epoll => fd \in DOMAIN poll_tasks /\ poll_tasks[fd] = epoll'[fd]
    BY <2>2, <2>4, <2>5 DEF FdOK
  <2>7. op[p].fd = fd /\ op'[p].fd = None
    BY <2>1, <2>2, IdleFacts
  <2>8. FdOK(fd)'
    <3>1. \A q \in User : op'[q].fd = fd => q # p /\ op'[q].kind # "insert"
      BY <2>1, <2>2, <2>5, <2>7 DEF FdOK
    <3> QED
      BY <2>1, <2>2, <2>3, <2>4, <2>5, <3>1 DEF FdOK
  <2>9. WatchedOK(fd)'
    <3>1. ASSUME fd \in DOMAIN poll_tasks \ DOMAIN epoll PROVE InMiddle(fd, {"erase"})'
      <4>1. PICK q \in User : op[q].fd = fd /\ op[q].kind \in {"erase"}
        BY <2>2, <3>1 DEF WatchedAreRegistered, InMiddle
      <4>2. q # p
        BY <2>2, <4>1
      <4> QED
        BY <2>1, <4>1, <4>2 DEF InMiddle
    <3> QED
      BY <2>1, <2>4, <2>6, <3>1 DEF WatchedOK
  <2>10. ASSUME NEW d \in Descriptor, d # fd PROVE FdOK(d)' /\ WatchedOK(d)'
    BY <2>1, <2>3, <2>4, <2>7, <2>10, OtherDescriptors
  <2> QED
    BY <2>8, <2>9, <2>10, <1>s
<1>8. CASE Removes \/ Deletions
  <2>1. PICK p \in User : /\ UNCHANGED pollVars /\ op[p].fd = None /\ op'[p].fd = None
                          /\ \A q \in User : q # p => op'[q] = op[q]
    <3>1. ASSUME NEW p \in User, NEW id \in DOMAIN timers, RemoveTimer(p, id)
          PROVE  /\ UNCHANGED pollVars /\ op[p].fd = None /\ op'[p].fd = None
                 /\ \A q \in User : q # p => op'[q] = op[q]
      <4>1. op[p] = Idle /\ UNCHANGED pollVars
        BY <3>1, IdleFacts, CallerFacts DEF RemoveTimer
      <4>2. /\ op'[p] = [kind |-> "delete", fd |-> None, task |-> timers[id].task]
            /\ \A q \in User : q # p => op'[q] = op[q]
        BY <3>1, OpChanged DEF RemoveTimer
      <4> QED
        BY <4>1, <4>2, IdleFacts
    <3>2. ASSUME NEW p \in User, InvokeDelete(p)
          PROVE  /\ UNCHANGED pollVars /\ op[p].fd = None /\ op'[p].fd = None
                 /\ \A q \in User : q # p => op'[q] = op[q]
      <4>1. op'[p] = Idle /\ UNCHANGED pollVars /\ \A q \in User : q # p => op'[q] = op[q]
        BY <3>2, OpChanged DEF InvokeDelete
      <4>2. op[p].fd = None
        BY <3>2, OpFacts DEF InvokeDelete
      <4> QED
        BY <4>1, <4>2, IdleFacts
    <3> QED
      BY <1>8, <3>1, <3>2 DEF Removes, Deletions
  <2>2. UNCHANGED <<poll_tasks, epoll, found>>
    BY <2>1 DEF pollVars
  <2>3. ASSUME NEW d \in Descriptor PROVE FdOK(d)' /\ WatchedOK(d)'
    BY <2>1, <2>2, IdleFacts, OtherDescriptors
  <2> QED
    BY <2>3, <1>s
<1> QED
  BY <1>1, <1>2, <1>3, <1>4, <1>5, <1>6, <1>7, <1>8, OpsUntouched, PollsUntouched DEF PollCalls
-----------------------------------------------------------------------------
(***************************************************************************)
(* The hands.  What a step leaves in each, and what it takes.               *)
(***************************************************************************)
LEMMA SameTimers ==
  ASSUME DOMAIN timers' = DOMAIN timers,
         \A id \in DOMAIN timers : timers'[id].task = timers[id].task, OnceInTimers
  PROVE  InTimers' = InTimers /\ OnceInTimers'
  BY DEF InTimers, OnceInTimers

LEMMA SamePolls ==
  ASSUME UNCHANGED poll_tasks, OnceInPolls
  PROVE  InPolls' = InPolls /\ OnceInPolls'
  BY DEF InPolls, OnceInPolls

LEMMA SameOps ==
  ASSUME \A p \in User : op'[p].task = op[p].task, OnceInOps
  PROVE  InOps' = InOps /\ OnceInOps'
  BY DEF InOps, OnceInOps

LEMMA SameQueues ==
  ASSUME UNCHANGED queueVars, OnceIn(tasks), OnceIn(process_tasks)
  PROVE  /\ InTasks' = InTasks /\ InProcess' = InProcess
         /\ OnceIn(tasks)' /\ OnceIn(process_tasks)'
  BY DEF InTasks, InProcess, OnceIn, queueVars

LEMMA TimerAdded ==
  ASSUME NEW n, n \notin DOMAIN timers, NEW r, timers' = Extended(n, r), OnceInTimers,
         r.task \notin InTimers
  PROVE  InTimers' = InTimers \cup {r.task} /\ OnceInTimers'
<1>1. /\ DOMAIN timers' = DOMAIN timers \cup {n} /\ timers'[n] = r
      /\ \A id \in DOMAIN timers : timers'[id] = timers[id]
  BY DEF Extended
<1> QED
  BY <1>1 DEF InTimers, OnceInTimers

LEMMA TimerRemoved ==
  ASSUME NEW id \in DOMAIN timers, DOMAIN timers' = DOMAIN timers \ {id},
         \A j \in DOMAIN timers' : timers'[j] = timers[j], OnceInTimers
  PROVE  InTimers' = InTimers \ {timers[id].task} /\ timers[id].task \in InTimers /\ OnceInTimers'
  BY DEF InTimers, OnceInTimers

LEMMA PollAdded ==
  ASSUME NEW fd, fd \notin DOMAIN poll_tasks, NEW o, OnceInPolls, o \notin InPolls,
         poll_tasks' = [d \in DOMAIN poll_tasks \cup {fd} |-> IF d = fd THEN o ELSE poll_tasks[d]]
  PROVE  InPolls' = InPolls \cup {o} /\ OnceInPolls'
<1>1. /\ DOMAIN poll_tasks' = DOMAIN poll_tasks \cup {fd} /\ poll_tasks'[fd] = o
      /\ \A d \in DOMAIN poll_tasks : poll_tasks'[d] = poll_tasks[d]
  OBVIOUS
<1> QED
  BY <1>1 DEF InPolls, OnceInPolls

LEMMA PollRemoved ==
  ASSUME NEW fd \in DOMAIN poll_tasks, OnceInPolls,
         poll_tasks' = Restrict(poll_tasks, DOMAIN poll_tasks \ {fd})
  PROVE  InPolls' = InPolls \ {poll_tasks[fd]} /\ poll_tasks[fd] \in InPolls /\ OnceInPolls'
<1>1. /\ DOMAIN poll_tasks' = DOMAIN poll_tasks \ {fd}
      /\ \A d \in DOMAIN poll_tasks' : poll_tasks'[d] = poll_tasks[d]
  BY DEF Restrict
<1> QED
  BY <1>1 DEF InPolls, OnceInPolls

LEMMA OpTakes ==
  ASSUME TypeOK, NEW p \in User, NEW r, op' = [op EXCEPT ![p] = r], OnceInOps,
         op[p].task = None, r.task \notin InOps
  PROVE  InOps' = InOps \cup ({r.task} \ {None}) /\ OnceInOps'
<1>1. op'[p] = r /\ \A q \in User : q # p => op'[q] = op[q]
  BY OpChanged
<1>2. \A q \in User : op[q].task = r.task => r.task = None
  BY DEF InOps
<1> QED
  BY <1>1, <1>2 DEF InOps, OnceInOps

LEMMA OpGives ==
  ASSUME TypeOK, NEW p \in User, op' = [op EXCEPT ![p] = Idle], OnceInOps
  PROVE  InOps' = InOps \ {op[p].task} /\ OnceInOps'
<1>1. op'[p].task = None /\ \A q \in User : q # p => op'[q] = op[q]
  BY OpChanged, IdleFacts
<1> QED
  BY <1>1 DEF InOps, OnceInOps

LEMMA TaskAppended ==
  ASSUME TypeOK, NEW o \in Callback \cup {None}, tasks' = Append(tasks, o), OnceIn(tasks),
         o \notin InTasks
  PROVE  InTasks' = InTasks \cup ({o} \ {None}) /\ OnceIn(tasks)'
<1>1. /\ Len(tasks') = Len(tasks) + 1 /\ tasks'[Len(tasks) + 1] = o /\ Len(tasks) \in Nat
      /\ \A i \in 1..Len(tasks) : tasks'[i] = tasks[i]
  BY DEF TypeOK, QueuesOK
<1>2. 1..Len(tasks') = 1..Len(tasks) \cup {Len(tasks) + 1}
  BY <1>1
<1>3. InTasks' = InTasks \cup ({o} \ {None})
  BY <1>1, <1>2 DEF InTasks
<1>4. \A i \in 1..Len(tasks) : tasks[i] = o => o = None
  BY DEF InTasks
<1>5. OnceIn(tasks)'
  BY <1>1, <1>2, <1>4 DEF OnceIn
<1> QED
  BY <1>3, <1>5

LEMMA TaskTaken ==
  ASSUME TypeOK, process_tasks # <<>>, process_tasks' = Tail(process_tasks), OnceIn(process_tasks)
  PROVE  /\ InProcess' = InProcess \ {Head(process_tasks)} /\ OnceIn(process_tasks)'
         /\ Head(process_tasks) \in InProcess \cup {None}
<1>1. process_tasks \in Seq(Callback \cup {None})
  BY DEF TypeOK, QueuesOK
<1>2. /\ Head(process_tasks) = process_tasks[1] /\ 1 \in 1..Len(process_tasks)
      /\ Len(process_tasks') = Len(process_tasks) - 1 /\ Len(process_tasks) \in Nat
      /\ \A i \in 1..Len(process_tasks') :
           i + 1 \in 1..Len(process_tasks) /\ process_tasks'[i] = process_tasks[i + 1]
  BY <1>1
<1>3. \A j \in 1..Len(process_tasks) : j # 1 =>
        j - 1 \in 1..Len(process_tasks') /\ process_tasks'[j - 1] = process_tasks[j]
  BY <1>2
<1>4. \A i \in 1..Len(process_tasks') :
        process_tasks'[i] = process_tasks[1] => process_tasks'[i] = None
  BY <1>2 DEF OnceIn
<1>5. InProcess' = InProcess \ {process_tasks[1]}
  BY <1>2, <1>3, <1>4 DEF InProcess
<1>6. OnceIn(process_tasks)'
  BY <1>2 DEF OnceIn
<1> QED
  BY <1>2, <1>5, <1>6 DEF InProcess

LEMMA QueuesSwapped ==
  ASSUME Swaps, OnceIn(tasks), OnceIn(process_tasks)
  PROVE  /\ InTasks' = InProcess /\ InProcess' = InTasks
         /\ OnceIn(tasks)' /\ OnceIn(process_tasks)'
  BY DEF Swaps, InTasks, InProcess, OnceIn

LEMMA OwnedInit == Init => OwnedInv
<1> SUFFICES ASSUME Init PROVE OwnedInv
  OBVIOUS
<1>1. InTimers = {} /\ InPolls = {} /\ InTasks = {} /\ InProcess = {} /\ deleted = {} /\ used = {}
  BY DEF Init, InTimers, InPolls, InTasks, InProcess
<1>2. \A p \in User : op[p].task = None
  BY IdleFacts DEF Init
<1>3. InOps = {} /\ OnceInOps
  BY <1>2 DEF InOps, OnceInOps
<1>4. OnceInTimers /\ OnceInPolls /\ OnceIn(tasks) /\ OnceIn(process_tasks)
  BY DEF Init, OnceInTimers, OnceInPolls, OnceIn
<1> QED
  BY <1>1, <1>3, <1>4 DEF OwnedInv, OnceEach, HandsDisjoint, HandsFull

\* The steps that move an object from one hand to another.
Adds == \E p \in User, fd \in Descriptor, o \in Callback : AddDescriptor(p, fd, o)
Inserts == \E p \in User : InsertDescriptor(p)
Erases == \E p \in User : EraseDescriptor(p)
SwapSteps == SwapQueues \/ Wait \/ PassTasks
Moves ==
  Appends \/ Removes \/ Adds \/ Inserts \/ Erases \/ Deletions \/ Posts \/ RunTask \/ SwapSteps

SameHands ==
  /\ DOMAIN timers' = DOMAIN timers
  /\ \A id \in DOMAIN timers : timers'[id].task = timers[id].task
  /\ \A p \in User : op'[p].task = op[p].task
  /\ UNCHANGED <<poll_tasks, queueVars, used, deleted>>

LEMMA MovesOrNot == ASSUME TypeOK, [Next]_vars PROVE Moves \/ SameHands
<1>1. CASE UNCHANGED <<timers, op, poll_tasks, queueVars, used, deleted>>
  BY <1>1 DEF SameHands
<1>2. CASE PassCollects \/ CvTimesOut
  <2>1. UNCHANGED <<op, poll_tasks, queueVars, used, deleted>>
    BY <1>2 DEF PassCollects, PassOthers, CvTimesOut, pollVars, queueVars
  <2> QED
    BY <1>2, <2>1, CollectTimers DEF PassCollects, CvTimesOut, TypeOK, TimesOK, SameHands
<1>3. CASE Modifies
  <2>1. PICK id \in DOMAIN timers, r \in Timer :
          r.task = timers[id].task /\ timers' = [timers EXCEPT ![id] = r]
    BY <1>3, ModifyTimerDoes DEF Modifies
  <2>2. DOMAIN timers' = DOMAIN timers /\ \A j \in DOMAIN timers : timers'[j].task = timers[j].task
    BY <2>1
  <2>3. UNCHANGED <<op, poll_tasks, queueVars, used, deleted>>
    BY <1>3 DEF Modifies, ModifyTimer, pollVars
  <2> QED
    BY <2>2, <2>3 DEF SameHands
<1>a. ASSUME NEW p \in User, NEW fd \in Descriptor, FindDescriptor(p, fd) PROVE SameHands
  <2>1. op[p].task = None /\ UNCHANGED <<timers, poll_tasks, queueVars, used, deleted>>
    BY <1>a, IdleFacts, CallerFacts DEF FindDescriptor, timerVars
  <2>2. CASE UNCHANGED op
    BY <2>1, <2>2 DEF SameHands
  <2>3. CASE op' = [op EXCEPT ![p] = [kind |-> "modify", fd |-> fd, task |-> None]]
    <3> DEFINE r == [kind |-> "modify", fd |-> fd, task |-> None]
    <3>a. op' = [op EXCEPT ![p] = r] /\ r.task = None
      BY <2>3
    <3> HIDE DEF r
    <3>1. op'[p].task = None /\ \A q \in User : q # p => op'[q] = op[q]
      BY <3>a, OpChanged
    <3> QED
      BY <2>1, <3>1 DEF SameHands
  <2> QED
    BY <1>a, <2>2, <2>3 DEF FindDescriptor
<1>b. ASSUME NEW p \in User, ChangeDescriptor(p) PROVE SameHands
  <2>1. op[p].task = None /\ UNCHANGED <<timers, poll_tasks, queueVars, used, deleted>>
    BY <1>b, OpFacts DEF ChangeDescriptor, timerVars
  <2>2. op'[p] = Idle /\ \A q \in User : q # p => op'[q] = op[q]
    BY <1>b, OpChanged DEF ChangeDescriptor
  <2> QED
    BY <2>1, <2>2, IdleFacts DEF SameHands
<1>4. ASSUME NEW p \in User, NEW fd \in Descriptor, DropDescriptor(p, fd) PROVE SameHands
  <2>1. op[p].task = None
    BY <1>4, IdleFacts, CallerFacts DEF DropDescriptor
  <2>2. /\ op'[p] = [kind |-> "erase", fd |-> fd, task |-> None]
        /\ \A q \in User : q # p => op'[q] = op[q]
    BY <1>4, OpChanged DEF DropDescriptor
  <2>3. UNCHANGED <<timers, poll_tasks, queueVars, used, deleted>>
    BY <1>4 DEF DropDescriptor, timerVars
  <2> QED
    BY <2>1, <2>2, <2>3 DEF SameHands
<1>5. CASE UNCHANGED vars \/ PassEnds \/ PassSleeps
  BY <1>5, <1>1 DEF vars, PassEnds, PassSleeps, PassOthers, timerVars, pollVars
<1>6. CASE RunTimer \/ RunPoll \/ BodyReturns \/ SelfInvokeFunction \/ EpollReturns \/ EpollReports
           \/ SelfInvoke \/ Complete \/ CvWakes \/ Tick
  BY <1>6, <1>1
     DEF RunTimer, RunPoll, BodyReturns, SelfInvokeFunction, EpollReturns, EpollReports,
         SelfInvoke, Complete, CvWakes, Tick, timerVars, pollVars
<1>7. Elsewhere =>
         \/ Adds \/ Inserts \/ Erases \/ Deletions \/ Posts \/ RunTask \/ SwapSteps
         \/ \E p \in User, fd \in Descriptor : FindDescriptor(p, fd) \/ DropDescriptor(p, fd)
         \/ \E p \in User : ChangeDescriptor(p)
         \/ RunTimer \/ RunPoll \/ BodyReturns \/ SelfInvokeFunction \/ EpollReturns \/ EpollReports
         \/ SelfInvoke \/ Complete \/ CvWakes \/ Tick
  BY DEF Elsewhere, Adds, Inserts, Erases, Deletions, Posts, SwapSteps
<1> QED
  BY <1>2, <1>3, <1>a, <1>b, <1>4, <1>5, <1>6, <1>7, NextCases, PassDoes DEF Moves, SwapSteps

LEMMA OwnedStep == TypeOK /\ OwnedInv /\ [Next]_vars => OwnedInv'
<1> SUFFICES ASSUME TypeOK, OwnedInv, [Next]_vars PROVE OwnedInv'
  OBVIOUS
<1>h. OnceInTimers /\ OnceInPolls /\ OnceInOps /\ OnceIn(tasks) /\ OnceIn(process_tasks)
  BY DEF OwnedInv, OnceEach
<1>o. \A p \in User : op[p].task # None => op[p].task \in InOps
  BY DEF InOps
<1> USE DEF OwnedInv, OnceEach, HandsDisjoint, HandsFull
<1>1. CASE SameHands
  <2>1. InTimers' = InTimers /\ OnceInTimers' /\ InPolls' = InPolls /\ OnceInPolls'
    BY <1>1, <1>h, SameTimers, SamePolls DEF SameHands
  <2>2. InOps' = InOps /\ OnceInOps' /\ UNCHANGED <<used, deleted>>
    BY <1>1, <1>h, SameOps DEF SameHands
  <2>3. InTasks' = InTasks /\ InProcess' = InProcess /\ OnceIn(tasks)' /\ OnceIn(process_tasks)'
    BY <1>1, <1>h, SameQueues DEF SameHands
  <2> QED
    BY <2>1, <2>2, <2>3
<1>2. ASSUME NEW p \in User, NEW ms \in Interval, NEW o \in Callback, AppendTimer(p, ms, o)
      PROVE  OwnedInv'
  <2>1. PICK n \in Nat, r \in Timer : n \notin DOMAIN timers /\ r.task = o /\ timers' = Extended(n, r)
    BY <1>2, AppendTimerDoes
  <2>2. o \notin used /\ used' = used \cup {o}
    BY <1>2 DEF AppendTimer, Fresh
  <2>3. InTimers' = InTimers \cup {o} /\ OnceInTimers'
    BY <2>1, <2>2, <1>h, TimerAdded
  <2>4. UNCHANGED <<poll_tasks, queueVars, op, deleted>>
    BY <1>2 DEF AppendTimer, pollVars
  <2>5. InPolls' = InPolls /\ OnceInPolls' /\ InOps' = InOps /\ OnceInOps'
    BY <2>4, <1>h, SamePolls, SameOps
  <2>6. InTasks' = InTasks /\ InProcess' = InProcess /\ OnceIn(tasks)' /\ OnceIn(process_tasks)'
    BY <2>4, <1>h, SameQueues
  <2> QED
    BY <2>2, <2>3, <2>4, <2>5, <2>6
<1>3. ASSUME NEW p \in User, NEW id \in DOMAIN timers, RemoveTimer(p, id)
      PROVE  OwnedInv'
  <2>1. InTimers' = InTimers \ {timers[id].task} /\ timers[id].task \in InTimers /\ OnceInTimers'
    BY <1>3, <1>h, RemoveTimerDoes, TimerRemoved
  <2>2. op[p].task = None
    BY <1>3, IdleFacts, CallerFacts DEF RemoveTimer
  <2>3. timers[id].task \in Callback
    BY DEF TypeOK, TimersOK, Timer
  <2> DEFINE r == [kind |-> "delete", fd |-> None, task |-> timers[id].task]
  <2>4. op' = [op EXCEPT ![p] = r] /\ r.task = timers[id].task
    BY <1>3 DEF RemoveTimer
  <2> HIDE DEF r
  <2>5. InOps' = InOps \cup ({timers[id].task} \ {None}) /\ OnceInOps'
    BY <2>1, <2>2, <2>4, <1>h, OpTakes
  <2>6. UNCHANGED <<poll_tasks, queueVars, used, deleted>>
    BY <1>3 DEF RemoveTimer, pollVars
  <2>7. InPolls' = InPolls /\ OnceInPolls'
    BY <2>6, <1>h, SamePolls
  <2>8. InTasks' = InTasks /\ InProcess' = InProcess /\ OnceIn(tasks)' /\ OnceIn(process_tasks)'
    BY <2>6, <1>h, SameQueues
  <2> QED
    BY <2>1, <2>3, <2>5, <2>6, <2>7, <2>8, IdleFacts
<1>4. ASSUME NEW p \in User, NEW fd \in Descriptor, NEW o \in Callback, AddDescriptor(p, fd, o)
      PROVE  OwnedInv'
  <2>1. o \notin used /\ used' = used \cup {o} /\ UNCHANGED <<timers, poll_tasks, queueVars>>
    BY <1>4 DEF AddDescriptor, Fresh, timerVars
  <2>2. op[p].task = None
    BY <1>4, IdleFacts, CallerFacts DEF AddDescriptor
  <2>3. InTimers' = InTimers /\ OnceInTimers' /\ InPolls' = InPolls /\ OnceInPolls'
    BY <2>1, <1>h, SameTimers, SamePolls
  <2>4. InTasks' = InTasks /\ InProcess' = InProcess /\ OnceIn(tasks)' /\ OnceIn(process_tasks)'
    BY <2>1, <1>h, SameQueues
  <2>5. CASE deleted' = deleted \cup {o} /\ UNCHANGED op
    BY <2>1, <2>3, <2>4, <2>5, <1>h, SameOps
  <2>6. CASE op' = [op EXCEPT ![p] = [kind |-> "insert", fd |-> fd, task |-> o]] /\ UNCHANGED deleted
    <3> DEFINE r == [kind |-> "insert", fd |-> fd, task |-> o]
    <3>1. op' = [op EXCEPT ![p] = r] /\ r.task = o
      BY <2>6
    <3> HIDE DEF r
    <3>2. InOps' = InOps \cup ({o} \ {None}) /\ OnceInOps'
      BY <2>1, <2>2, <3>1, <1>h, OpTakes
    <3> QED
      BY <2>1, <2>3, <2>4, <2>6, <3>2, IdleFacts
  <2> QED
    BY <1>4, <2>5, <2>6 DEF AddDescriptor
<1>5. ASSUME NEW p \in User, InsertDescriptor(p)
      PROVE  OwnedInv'
  <2>1. op[p].kind = "insert" /\ op' = [op EXCEPT ![p] = Idle]
    BY <1>5 DEF InsertDescriptor
  <2>2. op[p].task # None
    BY <2>1, OpFacts, IdleFacts
  <2>3. InOps' = InOps \ {op[p].task} /\ OnceInOps'
    BY <2>1, <1>h, OpGives
  <2>4. op[p].task \in InOps
    BY <2>2, <1>o
  <2>7. UNCHANGED <<timers, queueVars, used>>
    BY <1>5 DEF InsertDescriptor, timerVars
  <2>8. InTimers' = InTimers /\ OnceInTimers'
    BY <2>7, <1>h, SameTimers
  <2>9. InTasks' = InTasks /\ InProcess' = InProcess /\ OnceIn(tasks)' /\ OnceIn(process_tasks)'
    BY <2>7, <1>h, SameQueues
  <2>10. CASE op[p].fd \in DOMAIN poll_tasks
    <3>1. UNCHANGED poll_tasks /\ deleted' = deleted \cup {op[p].task}
      BY <1>5, <2>10 DEF InsertDescriptor
    <3>2. InPolls' = InPolls /\ OnceInPolls'
      BY <3>1, <1>h, SamePolls
    <3> QED
      BY <2>3, <2>4, <2>7, <2>8, <2>9, <3>1, <3>2
  <2>11. CASE op[p].fd \notin DOMAIN poll_tasks
    <3>1. /\ UNCHANGED deleted
          /\ poll_tasks' = [d \in DOMAIN poll_tasks \cup {op[p].fd} |->
                              IF d = op[p].fd THEN op[p].task ELSE poll_tasks[d]]
      BY <1>5, <2>11 DEF InsertDescriptor
    <3>2. InPolls' = InPolls \cup {op[p].task} /\ OnceInPolls'
      BY <2>11, <2>4, <3>1, <1>h, PollAdded
    <3> QED
      BY <2>3, <2>4, <2>7, <2>8, <2>9, <3>1, <3>2
  <2> QED
    BY <2>10, <2>11
<1>6. ASSUME NEW p \in User, EraseDescriptor(p)
      PROVE  OwnedInv'
  <2>1. op[p].kind = "erase" /\ op[p].task = None
    BY <1>6, OpFacts DEF EraseDescriptor
  <2>2. UNCHANGED <<timers, queueVars, used, deleted>>
    BY <1>6 DEF EraseDescriptor, timerVars
  <2>3. InTimers' = InTimers /\ OnceInTimers'
    BY <2>2, <1>h, SameTimers
  <2>4. InTasks' = InTasks /\ InProcess' = InProcess /\ OnceIn(tasks)' /\ OnceIn(process_tasks)'
    BY <2>2, <1>h, SameQueues
  <2>5. CASE op' = [op EXCEPT ![p] = Idle] /\ UNCHANGED poll_tasks
    <3>1. \A q \in User : op'[q].task = op[q].task
      BY <2>1, <2>5, IdleFacts, OpChanged
    <3> QED
      BY <2>2, <2>3, <2>4, <2>5, <3>1, <1>h, SameOps, SamePolls
  <2>6. CASE op[p].fd \in DOMAIN poll_tasks
    <3> DEFINE fd == op[p].fd
    <3> DEFINE r == [kind |-> "delete", fd |-> None, task |-> poll_tasks[fd]]
    <3>1. op' = [op EXCEPT ![p] = r] /\ r.task = poll_tasks[fd]
      BY <1>6, <2>6 DEF EraseDescriptor
    <3>2. poll_tasks' = Restrict(poll_tasks, DOMAIN poll_tasks \ {fd})
      BY <1>6, <2>6 DEF EraseDescriptor
    <3>3. poll_tasks[fd] \in Callback
      BY <2>6 DEF TypeOK, PollsOK
    <3> HIDE DEF r
    <3>4. InPolls' = InPolls \ {poll_tasks[fd]} /\ poll_tasks[fd] \in InPolls /\ OnceInPolls'
      BY <2>6, <3>2, <1>h, PollRemoved
    <3>5. InOps' = InOps \cup ({poll_tasks[fd]} \ {None}) /\ OnceInOps'
      BY <2>1, <3>1, <3>4, <1>h, OpTakes
    <3> QED
      BY <2>2, <2>3, <2>4, <3>3, <3>4, <3>5, IdleFacts
  <2> QED
    BY <1>6, <2>5, <2>6 DEF EraseDescriptor
<1>7. ASSUME NEW p \in User, InvokeDelete(p)
      PROVE  OwnedInv'
  <2>1. op[p].kind = "delete" /\ op' = [op EXCEPT ![p] = Idle] /\ tasks' = Append(tasks, op[p].task)
    BY <1>7 DEF InvokeDelete
  <2>2. op[p].task \in Callback /\ op[p].task # None
    BY <2>1, OpFacts, IdleFacts
  <2>3. InOps' = InOps \ {op[p].task} /\ OnceInOps' /\ op[p].task \in InOps
    BY <2>1, <2>2, <1>h, <1>o, OpGives
  <2>4. InTasks' = InTasks \cup {op[p].task} /\ OnceIn(tasks)'
    BY <2>1, <2>2, <2>3, <1>h, TaskAppended
  <2>5. UNCHANGED <<timers, poll_tasks, process_tasks, used, deleted>>
    BY <1>7 DEF InvokeDelete, timerVars, pollVars
  <2>6. InTimers' = InTimers /\ OnceInTimers' /\ InPolls' = InPolls /\ OnceInPolls'
    BY <2>5, <1>h, SameTimers, SamePolls
  <2>7. InProcess' = InProcess /\ OnceIn(process_tasks)'
    BY <2>5, <1>h DEF InProcess, OnceIn
  <2> QED
    BY <2>3, <2>4, <2>5, <2>6, <2>7
<1>8. CASE Posts
  <2>1. tasks' = Append(tasks, None) /\ UNCHANGED <<timers, poll_tasks, process_tasks, op, used, deleted>>
    BY <1>8 DEF Posts, Invoke, timerVars, pollVars
  <2>2. InTasks' = InTasks /\ OnceIn(tasks)'
    <3>1. None \notin InTasks
      BY DEF InTasks
    <3> QED
      BY <2>1, <3>1, <1>h, TaskAppended
  <2>3. InTimers' = InTimers /\ OnceInTimers' /\ InPolls' = InPolls /\ OnceInPolls'
    BY <2>1, <1>h, SameTimers, SamePolls
  <2>4. InProcess' = InProcess /\ OnceIn(process_tasks)' /\ InOps' = InOps /\ OnceInOps'
    BY <2>1, <1>h, SameOps DEF InProcess, OnceIn
  <2> QED
    BY <2>1, <2>2, <2>3, <2>4
<1>9. CASE RunTask
  <2>1. /\ process_tasks # <<>> /\ process_tasks' = Tail(process_tasks)
        /\ UNCHANGED <<timers, poll_tasks, tasks, op, used>>
        /\ \/ Head(process_tasks) = None /\ UNCHANGED deleted
           \/ Head(process_tasks) # None /\ deleted' = deleted \cup {Head(process_tasks)}
    BY <1>9 DEF RunTask, timerVars, pollVars
  <2>2. /\ InProcess' = InProcess \ {Head(process_tasks)} /\ OnceIn(process_tasks)'
        /\ Head(process_tasks) \in InProcess \cup {None} /\ None \notin InProcess
    BY <2>1, <1>h, TaskTaken DEF InProcess
  <2>3. InTimers' = InTimers /\ OnceInTimers' /\ InPolls' = InPolls /\ OnceInPolls'
    BY <2>1, <1>h, SameTimers, SamePolls
  <2>4. InTasks' = InTasks /\ OnceIn(tasks)' /\ InOps' = InOps /\ OnceInOps'
    BY <2>1, <1>h, SameOps DEF InTasks, OnceIn
  <2>5. CASE Head(process_tasks) = None
    BY <2>1, <2>2, <2>3, <2>4, <2>5
  <2>6. CASE Head(process_tasks) # None
    BY <2>1, <2>2, <2>3, <2>4, <2>6
  <2> QED
    BY <2>5, <2>6
<1>10. CASE SwapSteps
  <2>1. /\ UNCHANGED queueVars \/ Swaps
        /\ UNCHANGED <<timers, poll_tasks, op, used, deleted>>
    BY <1>10, WaitDoes
       DEF SwapSteps, SwapQueues, PassTasks, PassOthers, Swaps, timerVars, pollVars
  <2>2. InTimers' = InTimers /\ OnceInTimers' /\ InPolls' = InPolls /\ OnceInPolls'
    BY <2>1, <1>h, SameTimers, SamePolls
  <2>3. InOps' = InOps /\ OnceInOps'
    BY <2>1, <1>h, SameOps
  <2>4. CASE Swaps
    BY <2>1, <2>2, <2>3, <2>4, <1>h, QueuesSwapped
  <2>5. CASE UNCHANGED queueVars
    BY <2>1, <2>2, <2>3, <2>5, <1>h, SameQueues
  <2> QED
    BY <2>1, <2>4, <2>5
<1> QED
  BY <1>1, <1>2, <1>3, <1>4, <1>5, <1>6, <1>7, <1>8, <1>9, <1>10, MovesOrNot
     DEF Moves, Appends, Removes, Adds, Inserts, Erases, Deletions

\* The marks of the six hands in Holders(o).
TimerMarks(o) == {<<"timer", id>> : id \in {i \in DOMAIN timers : timers[i].task = o}}
PollMarks(o) == {<<"poll", fd>> : fd \in {d \in DOMAIN poll_tasks : poll_tasks[d] = o}}
OpMarks(o) == {<<"op", p>> : p \in {q \in User : op[q].task = o}}
TaskMarks(o) == {<<"tasks", i>> : i \in {j \in DOMAIN tasks : tasks[j] = o}}
ProcessMarks(o) == {<<"process_tasks", i>> : i \in {j \in DOMAIN process_tasks : process_tasks[j] = o}}
DeletedMarks(o) == {<<"deleted", o>> : x \in deleted \cap {o}}

LEMMA MarkOfOne ==
  ASSUME NEW T, NEW s, \A i, j \in T : i = j
  PROVE  LET M == {<<s, i>> : i \in T} IN M = {} \/ \E h : M = {h}
<1> DEFINE M == {<<s, i>> : i \in T}
<1>1. CASE T = {}
  BY <1>1
<1>2. CASE T # {}
  <2>1. PICK i \in T : TRUE
    BY <1>2
  <2>2. M = {<<s, i>>}
    BY <2>1
  <2> QED
    BY <2>2
<1> QED
  BY <1>1, <1>2

LEMMA Marks ==
  ASSUME TypeOK, OwnedInv, NEW o \in Callback
  PROVE  /\ Holders(o) = TimerMarks(o) \cup PollMarks(o) \cup OpMarks(o) \cup TaskMarks(o)
                         \cup ProcessMarks(o) \cup DeletedMarks(o)
         /\ o \in InTimers  => \E h : TimerMarks(o) = {h}
         /\ o \in InPolls   => \E h : PollMarks(o) = {h}
         /\ o \in InOps     => \E h : OpMarks(o) = {h}
         /\ o \in InTasks   => \E h : TaskMarks(o) = {h}
         /\ o \in InProcess => \E h : ProcessMarks(o) = {h}
         /\ o \in deleted   => \E h : DeletedMarks(o) = {h}
         /\ o \notin InTimers  => TimerMarks(o) = {}
         /\ o \notin InPolls   => PollMarks(o) = {}
         /\ o \notin InOps     => OpMarks(o) = {}
         /\ o \notin InTasks   => TaskMarks(o) = {}
         /\ o \notin InProcess => ProcessMarks(o) = {}
         /\ o \notin deleted   => DeletedMarks(o) = {}
<1>o. o # None
  BY IdleFacts
<1>s. DOMAIN tasks = 1..Len(tasks) /\ DOMAIN process_tasks = 1..Len(process_tasks)
  BY DEF TypeOK, QueuesOK
<1>1. Holders(o) = TimerMarks(o) \cup PollMarks(o) \cup OpMarks(o) \cup TaskMarks(o)
                   \cup ProcessMarks(o) \cup DeletedMarks(o)
  BY DEF Holders, TimerMarks, PollMarks, OpMarks, TaskMarks, ProcessMarks, DeletedMarks
<1>2. /\ o \in InTimers  <=> TimerMarks(o) # {}
      /\ o \in InPolls   <=> PollMarks(o) # {}
  BY DEF InTimers, TimerMarks, InPolls, PollMarks
<1>3. /\ o \in InOps <=> OpMarks(o) # {}
      /\ o \in deleted <=> DeletedMarks(o) # {}
  BY <1>o DEF InOps, OpMarks, DeletedMarks
<1>4. /\ o \in InTasks <=> TaskMarks(o) # {}
      /\ o \in InProcess <=> ProcessMarks(o) # {}
  BY <1>o, <1>s DEF InTasks, TaskMarks, InProcess, ProcessMarks
<1>5. /\ \A i, j \in {k \in DOMAIN timers : timers[k].task = o} : i = j
      /\ \A i, j \in {k \in DOMAIN poll_tasks : poll_tasks[k] = o} : i = j
      /\ \A i, j \in {k \in User : op[k].task = o} : i = j
      /\ \A i, j \in {k \in DOMAIN tasks : tasks[k] = o} : i = j
      /\ \A i, j \in {k \in DOMAIN process_tasks : process_tasks[k] = o} : i = j
  BY <1>o, <1>s DEF OwnedInv, OnceEach, OnceInTimers, OnceInPolls, OnceInOps, OnceIn
<1>6. TimerMarks(o) = {} \/ \E h : TimerMarks(o) = {h}
  <2> DEFINE T == {k \in DOMAIN timers : timers[k].task = o}
  <2>1. (\A i, j \in T : i = j) /\ TimerMarks(o) = {<<"timer", i>> : i \in T}
    BY <1>5 DEF TimerMarks
  <2> HIDE DEF T
  <2> QED
    BY <2>1, MarkOfOne
<1>7. PollMarks(o) = {} \/ \E h : PollMarks(o) = {h}
  <2> DEFINE T == {k \in DOMAIN poll_tasks : poll_tasks[k] = o}
  <2>1. (\A i, j \in T : i = j) /\ PollMarks(o) = {<<"poll", i>> : i \in T}
    BY <1>5 DEF PollMarks
  <2> HIDE DEF T
  <2> QED
    BY <2>1, MarkOfOne
<1>8. OpMarks(o) = {} \/ \E h : OpMarks(o) = {h}
  <2> DEFINE T == {k \in User : op[k].task = o}
  <2>1. (\A i, j \in T : i = j) /\ OpMarks(o) = {<<"op", i>> : i \in T}
    BY <1>5 DEF OpMarks
  <2> HIDE DEF T
  <2> QED
    BY <2>1, MarkOfOne
<1>9. TaskMarks(o) = {} \/ \E h : TaskMarks(o) = {h}
  <2> DEFINE T == {k \in DOMAIN tasks : tasks[k] = o}
  <2>1. (\A i, j \in T : i = j) /\ TaskMarks(o) = {<<"tasks", i>> : i \in T}
    BY <1>5 DEF TaskMarks
  <2> HIDE DEF T
  <2> QED
    BY <2>1, MarkOfOne
<1>10. ProcessMarks(o) = {} \/ \E h : ProcessMarks(o) = {h}
  <2> DEFINE T == {k \in DOMAIN process_tasks : process_tasks[k] = o}
  <2>1. (\A i, j \in T : i = j) /\ ProcessMarks(o) = {<<"process_tasks", i>> : i \in T}
    BY <1>5 DEF ProcessMarks
  <2> HIDE DEF T
  <2> QED
    BY <2>1, MarkOfOne
<1>11. DeletedMarks(o) = {} \/ DeletedMarks(o) = {<<"deleted", o>>}
  BY DEF DeletedMarks
<1> QED
  BY <1>1, <1>2, <1>3, <1>4, <1>6, <1>7, <1>8, <1>9, <1>10, <1>11

LEMMA OwnedInvOnce == TypeOK /\ OwnedInv => OwnedOnce
<1> SUFFICES ASSUME TypeOK, OwnedInv, NEW o \in used PROVE Cardinality(Holders(o)) = 1
  BY DEF OwnedOnce
<1>1. o \in Callback
  BY DEF TypeOK, HistoryOK
<1>2. o \in InTimers \cup InPolls \cup InOps \cup InTasks \cup InProcess \cup deleted
  BY DEF OwnedInv, HandsFull
<1>3. /\ o \in InTimers => o \notin InPolls \cup InOps \cup InTasks \cup InProcess \cup deleted
      /\ o \in InPolls => o \notin InOps \cup InTasks \cup InProcess \cup deleted
      /\ o \in InOps => o \notin InTasks \cup InProcess \cup deleted
      /\ o \in InTasks => o \notin InProcess \cup deleted
      /\ o \in InProcess => o \notin deleted
  BY DEF OwnedInv, HandsDisjoint
<1>4. /\ Holders(o) = TimerMarks(o) \cup PollMarks(o) \cup OpMarks(o) \cup TaskMarks(o)
                        \cup ProcessMarks(o) \cup DeletedMarks(o)
      /\ o \notin InTimers  => TimerMarks(o) = {}
      /\ o \notin InPolls   => PollMarks(o) = {}
      /\ o \notin InOps     => OpMarks(o) = {}
      /\ o \notin InTasks   => TaskMarks(o) = {}
      /\ o \notin InProcess => ProcessMarks(o) = {}
      /\ o \notin deleted   => DeletedMarks(o) = {}
  BY <1>1, Marks
<1>5. \E h : Holders(o) = {h}
  <2>1. CASE o \in InTimers
    <3>1. Holders(o) = TimerMarks(o)
      BY <2>1, <1>3, <1>4
    <3> QED
      BY <2>1, <3>1, <1>1, Marks
  <2>2. CASE o \in InPolls
    <3>1. Holders(o) = PollMarks(o)
      BY <2>2, <1>3, <1>4
    <3> QED
      BY <2>2, <3>1, <1>1, Marks
  <2>3. CASE o \in InOps
    <3>1. Holders(o) = OpMarks(o)
      BY <2>3, <1>3, <1>4
    <3> QED
      BY <2>3, <3>1, <1>1, Marks
  <2>4. CASE o \in InTasks
    <3>1. Holders(o) = TaskMarks(o)
      BY <2>4, <1>3, <1>4
    <3> QED
      BY <2>4, <3>1, <1>1, Marks
  <2>5. CASE o \in InProcess
    <3>1. Holders(o) = ProcessMarks(o)
      BY <2>5, <1>3, <1>4
    <3> QED
      BY <2>5, <3>1, <1>1, Marks
  <2>6. CASE o \in deleted
    <3>1. Holders(o) = DeletedMarks(o)
      BY <2>6, <1>3, <1>4
    <3> QED
      BY <2>6, <3>1, <1>1, Marks
  <2> QED
    BY <1>2, <2>1, <2>2, <2>3, <2>4, <2>5, <2>6
<1> QED
  BY <1>5, FS_Singleton

(***************************************************************************)
(* Every object is in exactly one hand: registered, being added or removed  *)
(* by one user, queued for deletion once, or deleted (appendTimer(),        *)
(* removeTimer(), appendPollDescriptor(), removePollDescriptor()),          *)
(* whatever the users and the loop do, also when calls on one descriptor    *)
(* cross.                                                                   *)
(***************************************************************************)
THEOREM EachOwnedOnce == Spec => []OwnedOnce
<1>1. Init => TypeOK /\ OwnedInv
  BY TypeInit, OwnedInit
<1>2. TypeOK /\ OwnedInv /\ [Next]_vars => TypeOK' /\ OwnedInv'
  BY TypeStep, OwnedStep
<1> QED
  BY <1>1, <1>2, OwnedInvOnce, PTL DEF Spec

(***************************************************************************)
(* Whatever the kernel watches is registered for the same object, or about  *)
(* to be, and whatever is registered is watched, or about to be erased      *)
(* (appendPollDescriptor(), modifyPollDescriptor(), removePollDescriptor()), *)
(* when no user adds a descriptor another one is removing or modifying, nor *)
(* removes one that is being added.  Users may modify a descriptor that is  *)
(* modified or removed, and remove one that is.                             *)
(***************************************************************************)
THEOREM KernelWatchesRegistered ==
  ASSUME Coordinated
  PROVE  Spec => []WatchedAreRegistered
<1>1. Init => TypeOK /\ FdInv /\ WatchedAreRegistered
  BY TypeInit, FdInit
<1>2. TypeOK /\ FdInv /\ WatchedAreRegistered /\ [Next]_vars
        => TypeOK' /\ FdInv' /\ WatchedAreRegistered'
  BY TypeStep, FdStep
<1> QED
  BY <1>1, <1>2, PTL DEF Spec
-----------------------------------------------------------------------------
(***************************************************************************)
(* The batches.                                                             *)
(***************************************************************************)
LEMMA RunsKept ==
  ASSUME StackOK, StackKept, NEW pcs
  PROVE  (At(pcs)' <=> At(pcs)) /\ (Runs(pcs)' <=> Runs(pcs))
<1>1. stack'[Len(stack')].pc = stack[Len(stack)].pc
  BY StackTop DEF StackKept
<1>2. At({"body"}) => Len(stack) > 1
  BY StackTop DEF StackOK, At, ExecPc
<1>3. Len(stack) > 1 => stack'[Len(stack') - 1].pc = stack[Len(stack) - 1].pc
  BY StackTop DEF StackKept
<1> QED
  BY <1>1, <1>2, <1>3 DEF At, Runs

LEMMA RunsMoved ==
  ASSUME StackOK, NEW pc, StackMoves(pc), NEW pcs
  PROVE  /\ At(pcs)' <=> pc \in pcs
         /\ pc \in pcs => Runs(pcs)'
  BY StackTop DEF StackMoves, At, Runs

LEMMA RunsGrown ==
  ASSUME StackOK, NEW pc, StackGrows(pc), NEW pcs
  PROVE  /\ At(pcs)' <=> pc \in pcs
         /\ pc \in pcs => Runs(pcs)'
         /\ pc = "body" /\ At(pcs) => Runs(pcs)'
  BY StackTop DEF StackGrows, At, Runs

LEMMA RunsShrunk ==
  ASSUME StackOK, StackShrinks, Len(stack) > 1, At({"body"}), NEW pcs, "body" \notin pcs, Runs(pcs)
  PROVE  At(pcs)' /\ Runs(pcs)'
  BY StackTop DEF StackShrinks, At, Runs

LEMMA PcsApart ==
  /\ ExecPc \cap {"body", "sync1", "sync2"} = {}
  /\ TaskPc \cap TimerPc = {} /\ TaskPc \cap PollPc = {} /\ TimerPc \cap PollPc = {}
  /\ \A pcs \in {TaskPc, TimerPc, PollPc} : pcs \cap (SleepPc \cup {"body"}) = {}
  BY DEF ExecPc, TaskPc, TimerPc, PollPc, SleepPc

\* A frame that is not a callback has the batches of the others finished.
LEMMA OnlyOneRuns ==
  ASSUME BatchInv, ~At({"body"})
  PROVE  /\ ~At(TaskPc) => process_tasks = <<>>
         /\ ~At(TimerPc) => process_timer_tasks = <<>>
         /\ ~At(PollPc) => process_poll_tasks = <<>>
         /\ ~At({"reported"}) => reported = <<>>
  BY DEF BatchInv, Runs

LEMMA AllFinished ==
  ASSUME BatchInv, PassAt \/ At({"cv", "epoll"})
  PROVE  /\ process_tasks = <<>> /\ process_timer_tasks = <<>> /\ process_poll_tasks = <<>>
         /\ reported = <<>>
  BY OnlyOneRuns DEF PassAt, At, TaskPc, TimerPc, PollPc

NoBatch ==
  /\ process_tasks' = <<>> /\ process_timer_tasks' = <<>> /\ process_poll_tasks' = <<>>
  /\ reported' = <<>>

LEMMA NothingToRun == ASSUME NoBatch PROVE BatchInv'
  BY DEF NoBatch, BatchInv

\* Calls that leave the shape of the stack and every batch alone.
LEMMA BatchesKept ==
  ASSUME StackOK, StackKept, BatchInv, UNCHANGED <<batchVars, process_tasks, reported>>
  PROVE  BatchInv'
  BY RunsKept DEF BatchInv, batchVars

LEMMA BatchInit == Init => BatchInv /\ NoneSleepsBelow
  BY DEF Init, BatchInv, NoneSleepsBelow

LEMMA BatchStep ==
  ASSUME NoInvokeInBatch
  PROVE  TypeOK /\ BatchInv /\ [Next]_vars => BatchInv'
<1> SUFFICES ASSUME TypeOK, BatchInv, [Next]_vars PROVE BatchInv'
  OBVIOUS
<1> USE DEF TypeOK
<1>1. CASE UNCHANGED stack /\ UNCHANGED <<batchVars, process_tasks, reported>>
  <2>1. StackKept
    BY <1>1 DEF StackKept
  <2> QED
    BY <1>1, <2>1, BatchesKept
<1>2. ASSUME NEW p \in User, Spend(p), UNCHANGED <<batchVars, process_tasks, reported>>
      PROVE  BatchInv'
  BY <1>2, SpentStack, BatchesKept
<1>3. CASE RunTask
  <2>1. /\ At(TaskPc) /\ ~At({"body"}) /\ UNCHANGED <<batchVars, reported>>
        /\ ~At(TimerPc) /\ ~At(PollPc) /\ ~At({"reported"})
    BY <1>3 DEF RunTask, At, TaskPc, TimerPc, PollPc
  <2>2. process_timer_tasks = <<>> /\ process_poll_tasks = <<>> /\ reported = <<>>
    BY <2>1, OnlyOneRuns
  <2>3. CASE UNCHANGED stack
    <3>1. Runs(TaskPc)'
      BY <2>1, <2>3 DEF Runs, At
    <3> QED
      BY <2>1, <2>2, <3>1 DEF BatchInv, batchVars
  <2>4. CASE stack' = Call(None)
    <3>1. Runs(TaskPc)'
      BY <2>1, <2>4, CalledStack, RunsGrown
    <3> QED
      BY <2>1, <2>2, <3>1 DEF BatchInv, batchVars
  <2> QED
    BY <1>3, <2>3, <2>4 DEF RunTask
<1>4. CASE RunTimer
  <2>1. /\ At(TimerPc) /\ ~At({"body"}) /\ UNCHANGED <<process_poll_tasks, process_tasks, reported>>
        /\ ~At(TaskPc) /\ ~At(PollPc) /\ ~At({"reported"})
    BY <1>4 DEF RunTimer, At, TaskPc, TimerPc, PollPc, queueVars
  <2>2. process_tasks = <<>> /\ process_poll_tasks = <<>> /\ reported = <<>>
    BY <2>1, OnlyOneRuns
  <2>3. Head(process_timer_tasks) \in Callback
    BY <1>4, TailType DEF RunTimer, BatchesOK
  <2>4. Runs(TimerPc)'
    BY <1>4, <2>1, <2>3, CalledStack, RunsGrown DEF RunTimer
  <2> QED
    BY <2>1, <2>2, <2>4 DEF BatchInv
<1>5. CASE RunPoll
  <2>1. /\ At(PollPc) /\ ~At({"body"}) /\ UNCHANGED <<process_timer_tasks, process_tasks, reported>>
        /\ ~At(TaskPc) /\ ~At(TimerPc) /\ ~At({"reported"})
    BY <1>5 DEF RunPoll, At, TaskPc, TimerPc, PollPc, queueVars
  <2>2. process_tasks = <<>> /\ process_timer_tasks = <<>> /\ reported = <<>>
    BY <2>1, OnlyOneRuns
  <2>3. Head(process_poll_tasks) \in Callback
    BY <1>5, TailType DEF RunPoll, BatchesOK
  <2>4. Runs(PollPc)'
    BY <1>5, <2>1, <2>3, CalledStack, RunsGrown DEF RunPoll
  <2> QED
    BY <2>1, <2>2, <2>4 DEF BatchInv
<1>6. CASE BodyReturns
  <2>1. At({"body"}) /\ stack' = Front(stack) /\ UNCHANGED <<batchVars, process_tasks, reported>>
    BY <1>6 DEF BodyReturns, queueVars
  <2>2. StackShrinks /\ Len(stack) > 1
    BY <2>1, FrontStack DEF At, ExecPc
  <2>3. reported = <<>>
    BY <2>1 DEF BatchInv, At
  <2>4. \A pcs \in {TaskPc, TimerPc, PollPc} : Runs(pcs) => Runs(pcs)'
    BY <2>1, <2>2, RunsShrunk, PcsApart
  <2> QED
    BY <2>1, <2>3, <2>4 DEF BatchInv, batchVars
<1>7. CASE SwapQueues
  <2>1. ~At({"body"}) /\ UNCHANGED <<batchVars, reported>>
    BY <1>7 DEF SwapQueues, At
  <2>2. /\ At(TimerPc) => process_timer_tasks = <<>>
        /\ At(PollPc) => process_poll_tasks = <<>>
        /\ ~At({"reported"})
    BY <1>7, <2>1, OnlyOneRuns DEF SwapQueues, At, TaskPc, TimerPc, PollPc
  <2>3. process_timer_tasks = <<>> /\ process_poll_tasks = <<>> /\ reported = <<>>
    BY <2>1, <2>2, OnlyOneRuns
  <2>4. PICK pc \in TaskPc \cap Pcs : stack' = To(pc) /\ (pc \in ExecPc \/ ~At(ExecPc))
    BY <1>7 DEF SwapQueues, TaskPc, Pcs, ExecPc, At
  <2>5. Runs(TaskPc)'
    BY <2>4, MovedStack, RunsMoved
  <2> QED
    BY <2>1, <2>3, <2>5 DEF BatchInv, batchVars
<1>8. CASE SelfInvokeFunction
  <2>1. ~At({"body"}) /\ ~At(TimerPc) /\ ~At(PollPc) /\ ~At({"reported"})
    BY <1>8 DEF SelfInvokeFunction, At, TimerPc, PollPc
  <2> QED
    BY <1>8, <2>1, OnlyOneRuns, NothingToRun
       DEF SelfInvokeFunction, NoBatch, batchVars, queueVars
<1>9. CASE SelfInvoke
  <2>1. /\ process_timer_tasks = <<>> /\ process_poll_tasks = <<>> /\ At({"body"})
        /\ stack' = Push(Called, "sync1") /\ UNCHANGED <<batchVars, queueVars, reported>>
    BY <1>9 DEF SelfInvoke, NoInvokeInBatch, Callers
  <2>2. reported = <<>>
    BY <2>1 DEF BatchInv, At
  <2>3. Runs(TaskPc)'
    BY <2>1, PushedStack, RunsGrown DEF Pcs, TaskPc
  <2> QED
    BY <2>1, <2>2, <2>3 DEF BatchInv, batchVars
<1>10. CASE Wait
  <2>1. At({"body"}) /\ reported = <<>> /\ UNCHANGED <<batchVars, reported>>
    BY <1>10 DEF Wait, Callers, BatchInv, At
  <2>2. /\ process_tasks # <<>> => process_timer_tasks = <<>> /\ process_poll_tasks = <<>>
        /\ process_poll_tasks # <<>> => process_timer_tasks = <<>>
    BY <2>1, PcsApart DEF BatchInv, Runs, At, TaskPc, TimerPc, PollPc
  <2>3. ASSUME NEW pc \in ExecPc, stack' = Push(Called, pc)
        PROVE  \A pcs : pc \in pcs => Runs(pcs)'
    BY <2>3, PushedStack, RunsGrown DEF Pcs
  <2>4. CASE process_tasks # <<>>
    <3>1. stack' = Push(Called, "drainTasks") /\ UNCHANGED queueVars
      BY <1>10, <2>4 DEF Wait
    <3>2. Runs(TaskPc)'
      BY <3>1, <2>3 DEF ExecPc, TaskPc
    <3> QED
      BY <2>1, <2>2, <2>4, <3>2 DEF BatchInv, batchVars
  <2>5. CASE process_tasks = <<>> /\ process_poll_tasks # <<>>
    <3>1. stack' = Push(Called, "drainPolls") /\ UNCHANGED queueVars
      BY <1>10, <2>5 DEF Wait
    <3>2. Runs(PollPc)'
      BY <3>1, <2>3 DEF ExecPc, PollPc
    <3> QED
      BY <2>1, <2>2, <2>5, <3>1, <3>2 DEF BatchInv, batchVars, queueVars
  <2>6. CASE process_tasks = <<>> /\ process_poll_tasks = <<>> /\ process_timer_tasks # <<>>
    <3>1. stack' = Push(Called, "drainTimers") /\ UNCHANGED queueVars
      BY <1>10, <2>6 DEF Wait
    <3>2. Runs(TimerPc)'
      BY <3>1, <2>3 DEF ExecPc, TimerPc
    <3> QED
      BY <2>1, <2>6, <3>1, <3>2 DEF BatchInv, batchVars, queueVars
  <2>7. CASE process_tasks = <<>> /\ process_poll_tasks = <<>> /\ process_timer_tasks = <<>>
    <3>1. stack' = Push(Called, "tasks")
      BY <1>10, <2>7 DEF Wait
    <3>2. Runs(TaskPc)'
      BY <3>1, <2>3 DEF ExecPc, TaskPc
    <3> QED
      BY <2>1, <2>7, <3>2 DEF BatchInv, batchVars
  <2> QED
    BY <2>4, <2>5, <2>6, <2>7
<1>11. CASE Complete
  BY <1>11, CompletedStack, BatchesKept DEF Complete, queueVars
<1>12. CASE Pass
  <2>1. process_tasks = <<>> /\ process_timer_tasks = <<>> /\ process_poll_tasks = <<>> /\ reported = <<>>
    BY <1>12, PassDoes, AllFinished
  <2>2. process_poll_tasks' = <<>> /\ reported' = <<>>
    BY <1>12, <2>1, PassDoes
       DEF PassTasks, PassEnds, PassSleeps, PassCollects, PassOthers
  <2>3. CASE PassTasks
    <3>1. Runs(TaskPc)'
      BY <2>3, MovedStack, RunsMoved DEF PassTasks, Pcs, ExecPc, TaskPc
    <3> QED
      BY <2>1, <2>2, <2>3, <3>1 DEF PassTasks, BatchInv
  <2>4. CASE PassEnds \/ PassSleeps
    BY <2>1, <2>2, <2>4, NothingToRun DEF PassEnds, PassSleeps, NoBatch, queueVars
  <2>5. CASE PassCollects
    <3>1. process_timer_tasks' # <<>> => Runs(TimerPc)'
      BY <2>5, CollectStack, RunsMoved DEF PassCollects, TimerPc
    <3>2. process_tasks' = <<>>
      BY <2>1, <2>5 DEF PassCollects, queueVars
    <3> QED
      BY <2>2, <3>1, <3>2 DEF BatchInv
  <2> QED
    BY <1>12, <2>3, <2>4, <2>5, PassDoes
<1>13. CASE CvTimesOut
  <2>1. process_tasks = <<>> /\ process_timer_tasks = <<>> /\ process_poll_tasks = <<>> /\ reported = <<>>
    BY <1>13, AllFinished DEF CvTimesOut, At
  <2>2. process_timer_tasks' # <<>> => Runs(TimerPc)'
    BY <1>13, CollectStack, RunsMoved DEF CvTimesOut, TimerPc
  <2> QED
    BY <1>13, <2>1, <2>2 DEF CvTimesOut, BatchInv, queueVars
<1>14. CASE CvWakes
  <2>1. process_tasks = <<>> /\ process_timer_tasks = <<>> /\ process_poll_tasks = <<>> /\ reported = <<>>
    BY <1>14, AllFinished DEF CvWakes, At
  <2> QED
    BY <1>14, <2>1, NothingToRun DEF CvWakes, NoBatch, batchVars, queueVars
<1>15. CASE EpollReturns
  <2>1. process_tasks = <<>> /\ process_timer_tasks = <<>> /\ process_poll_tasks = <<>>
    BY <1>15, AllFinished DEF EpollReturns, At
  <2>2. At({"reported"})'
    BY <1>15, MovedStack, RunsMoved DEF EpollReturns, Pcs, ExecPc
  <2> QED
    BY <1>15, <2>1, <2>2 DEF EpollReturns, BatchInv, batchVars, queueVars
<1>16. CASE EpollReports
  <2>1. process_tasks = <<>> /\ process_timer_tasks = <<>>
    BY <1>16, OnlyOneRuns DEF EpollReports, At, TaskPc, TimerPc
  <2>2. process_poll_tasks' # <<>> => Runs(PollPc)'
    BY <1>16, MovedStack, RunsMoved DEF EpollReports, Pcs, ExecPc, PollPc
  <2> QED
    BY <1>16, <2>1, <2>2 DEF EpollReports, BatchInv, queueVars
<1>17. CASE Appends \/ Modifies \/ Removes \/ Posts
  BY <1>17, <1>2
     DEF Appends, Modifies, Removes, Posts, AppendTimer, ModifyTimer, RemoveTimer, Invoke, queueVars
<1>18. CASE PollCalls
  BY <1>18, <1>1, <1>2
     DEF PollCalls, AddDescriptor, DropDescriptor, InsertDescriptor, FindDescriptor,
         ChangeDescriptor, EraseDescriptor, queueVars
<1>19. CASE Deletions \/ Tick \/ UNCHANGED vars
  BY <1>19, <1>1 DEF Deletions, InvokeDelete, Tick, vars, queueVars
<1>20. Elsewhere =>
         \/ PollCalls \/ Posts \/ CvWakes \/ EpollReturns \/ EpollReports \/ SwapQueues
         \/ SelfInvokeFunction \/ BodyReturns \/ RunTask \/ RunTimer \/ RunPoll \/ SelfInvoke
         \/ Wait \/ Complete \/ Tick \/ Deletions
  BY DEF Elsewhere, PollCalls, Posts, Deletions
<1> QED
  BY <1>3, <1>4, <1>5, <1>6, <1>7, <1>8, <1>9, <1>10, <1>11, <1>12, <1>13, <1>14, <1>15, <1>16,
     <1>17, <1>18, <1>19, <1>20, NextCases

LEMMA BelowGrown ==
  ASSUME StackOK, NEW pc, StackGrows(pc), NoneSleepsBelow, ~At(SleepPc)
  PROVE  NoneSleepsBelow'
  BY StackTop DEF StackGrows, NoneSleepsBelow, At

LEMMA BelowMoved ==
  ASSUME StackOK, NoneSleepsBelow, StackKept \/ StackShrinks \/ \E pc : StackMoves(pc)
  PROVE  NoneSleepsBelow'
  BY StackTop DEF StackKept, StackShrinks, StackMoves, NoneSleepsBelow

\* How the steps change the stack.
LEMMA StackShapes ==
  ASSUME TypeOK, [Next]_vars
  PROVE  \/ StackKept \/ (StackShrinks /\ Len(stack) > 1) \/ \E pc : StackMoves(pc)
         \/ ~At(SleepPc) /\ \E pc \in {"body", "sync1"} \cup ExecPc : StackGrows(pc)
<1> USE DEF TypeOK
<1>1. CASE UNCHANGED stack
  BY <1>1 DEF StackKept
<1>2. ASSUME NEW p \in User, Spend(p) PROVE StackKept
  BY <1>2, SpentStack
<1>3. Appends \/ Modifies \/ Removes \/ Posts => \E p \in User : Spend(p)
  BY DEF Appends, Modifies, Removes, Posts, AppendTimer, ModifyTimer, RemoveTimer, Invoke
<1>4. PollCalls => UNCHANGED stack \/ \E p \in User : Spend(p)
  BY DEF PollCalls, AddDescriptor, DropDescriptor, InsertDescriptor, FindDescriptor,
         ChangeDescriptor, EraseDescriptor
<1>5. ASSUME NEW pc \in Pcs, stack' = To(pc), pc \in ExecPc \/ ~At(ExecPc)
      PROVE  \E c : StackMoves(c)
  BY <1>5, MovedStack
<1>6. CASE PassTasks \/ PassSleeps \/ CvWakes \/ EpollReturns \/ EpollReports
  <2>1. \E pc \in ExecPc : stack' = To(pc)
    BY <1>6 DEF PassTasks, PassSleeps, CvWakes, EpollReturns, EpollReports, ExecPc
  <2> QED
    BY <2>1, <1>5 DEF Pcs
<1>7. CASE SwapQueues \/ SelfInvokeFunction
  <2>1. \E pc \in Pcs : stack' = To(pc) /\ (pc \in ExecPc \/ ~At(ExecPc))
    BY <1>7 DEF SwapQueues, SelfInvokeFunction, ExecPc, Pcs, At
  <2> QED
    BY <2>1, <1>5
<1>8. CASE PassCollects \/ CvTimesOut
  BY <1>8, CollectStack DEF PassCollects, CvTimesOut
<1>9. CASE PassEnds \/ BodyReturns
  BY <1>9, FrontStack DEF PassEnds, BodyReturns, At, ExecPc
<1>10. CASE RunTask \/ RunTimer \/ RunPoll
  <2>1. UNCHANGED stack \/ \E o \in Callback \cup {None} : stack' = Call(o)
    BY <1>10, TailType DEF RunTask, RunTimer, RunPoll, BatchesOK
  <2>2. ~At(SleepPc)
    BY <1>10 DEF RunTask, RunTimer, RunPoll, At, SleepPc
  <2>3. ASSUME NEW o \in Callback \cup {None}, stack' = Call(o) PROVE StackGrows("body")
    BY <2>3, CalledStack
  <2> QED
    BY <2>1, <2>2, <2>3, <1>1
<1>11. CASE SelfInvoke \/ Wait
  <2>1. \E pc \in {"sync1"} \cup ExecPc : stack' = Push(Called, pc)
    BY <1>11 DEF SelfInvoke, Wait, ExecPc
  <2>2. ~At(SleepPc)
    BY <1>11 DEF SelfInvoke, Wait, Callers, At, SleepPc
  <2>3. ASSUME NEW pc \in {"sync1"} \cup ExecPc, stack' = Push(Called, pc) PROVE StackGrows(pc)
    BY <2>3, PushedStack DEF Pcs
  <2> QED
    BY <2>1, <2>2, <2>3
<1>12. CASE Complete
  BY <1>12, CompletedStack DEF Complete
<1>13. CASE Tick \/ Deletions \/ UNCHANGED vars
  BY <1>13, <1>1 DEF Tick, Deletions, InvokeDelete, vars
<1>14. Elsewhere =>
         \/ PollCalls \/ Posts \/ CvWakes \/ EpollReturns \/ EpollReports \/ SwapQueues
         \/ SelfInvokeFunction \/ BodyReturns \/ RunTask \/ RunTimer \/ RunPoll \/ SelfInvoke
         \/ Wait \/ Complete \/ Tick \/ Deletions
  BY DEF Elsewhere, PollCalls, Posts, Deletions
<1> QED
  BY <1>1, <1>2, <1>3, <1>4, <1>6, <1>7, <1>8, <1>9, <1>10, <1>11, <1>12, <1>13, <1>14,
     NextCases, PassDoes

LEMMA SleepsStep == TypeOK /\ NoneSleepsBelow /\ [Next]_vars => NoneSleepsBelow'
  BY StackShapes, BelowGrown, BelowMoved DEF TypeOK

-----------------------------------------------------------------------------
(***************************************************************************)
(* Collected objects.                                                       *)
(***************************************************************************)
LEMMA LiveInit == Init => LiveInv
  BY DEF Init, LiveInv

\* What the kernel watches is registered, or being registered.
LEMMA WatchedHeld ==
  ASSUME TypeOK, WatchedAreRegistered, NEW fd \in DOMAIN epoll
  PROVE  epoll[fd] \in InPolls \cup InOps
<1>1. fd \in Descriptor /\ epoll[fd] # None
  BY IdleFacts DEF TypeOK, PollsOK
<1>2. CASE fd \in DOMAIN poll_tasks /\ epoll[fd] = poll_tasks[fd]
  BY <1>2 DEF InPolls
<1>3. ASSUME NEW p \in User, op[p] = [kind |-> "insert", fd |-> fd, task |-> epoll[fd]]
      PROVE  epoll[fd] \in InOps
  BY <1>1, <1>3 DEF InOps
<1> QED
  BY <1>1, <1>2, <1>3 DEF WatchedAreRegistered

LEMMA HeldIsLive ==
  ASSUME OwnedInv
  PROVE  InTimers \cup InPolls \cup InOps \subseteq used \ deleted
  BY DEF OwnedInv, HandsDisjoint, HandsFull

\* What was alive stays alive, unless it is deleted by the step.
LEMMA LiveKept ==
  ASSUME LiveInv, UNCHANGED <<process_timer_tasks, process_poll_tasks, reported>>,
         used \ deleted \subseteq used' \ deleted'
  PROVE  LiveInv'
  BY DEF LiveInv

LEMMA LiveStep ==
  ASSUME TypeOK, BatchInv, OwnedInv, FdInv, WatchedAreRegistered, LiveInv, [Next]_vars
  PROVE  LiveInv'
<1>1. CASE UNCHANGED <<used, deleted>> /\ UNCHANGED <<process_timer_tasks, process_poll_tasks, reported>>
  BY <1>1, LiveKept
<1>2. CASE RunTimer \/ RunPoll
  <2>1. UNCHANGED <<used, deleted, reported>>
    BY <1>2 DEF RunTimer, RunPoll
  <2>2. CASE RunTimer
    <3>1. /\ UNCHANGED process_poll_tasks
          /\ \A i \in 1..Len(process_timer_tasks') :
               i + 1 \in 1..Len(process_timer_tasks)
               /\ process_timer_tasks'[i] = process_timer_tasks[i + 1]
      BY <2>2, TailType DEF RunTimer, TypeOK, BatchesOK
    <3> QED
      BY <2>1, <3>1 DEF LiveInv
  <2>3. CASE RunPoll
    <3>1. /\ UNCHANGED process_timer_tasks
          /\ \A i \in 1..Len(process_poll_tasks') :
               i + 1 \in 1..Len(process_poll_tasks)
               /\ process_poll_tasks'[i] = process_poll_tasks[i + 1]
      BY <2>3, TailType DEF RunPoll, TypeOK, BatchesOK
    <3> QED
      BY <2>1, <3>1 DEF LiveInv
  <2> QED
    BY <1>2, <2>2, <2>3
<1>3. CASE PassCollects \/ CvTimesOut
  <2>1. UNCHANGED <<used, deleted, reported, process_poll_tasks>>
    BY <1>3 DEF PassCollects, PassOthers, CvTimesOut
  <2>2. \A i \in 1..Len(process_timer_tasks') :
          \/ process_timer_tasks'[i] \in InTimers
          \/ i \in 1..Len(process_timer_tasks) /\ process_timer_tasks'[i] = process_timer_tasks[i]
    BY <1>3, CollectBatch DEF PassCollects, CvTimesOut, TypeOK, TimesOK
  <2> QED
    BY <2>1, <2>2, HeldIsLive DEF LiveInv
<1>4. CASE EpollReturns
  <2>1. UNCHANGED <<used, deleted, process_timer_tasks, process_poll_tasks>>
    BY <1>4 DEF EpollReturns, batchVars
  <2>2. \A i \in 1..Len(reported') : reported'[i] \in used \ deleted
    BY <1>4, EpollBatch, WatchedHeld, HeldIsLive
  <2> QED
    BY <2>1, <2>2 DEF LiveInv
<1>5. CASE EpollReports
  <2>1. UNCHANGED <<used, deleted, process_timer_tasks>> /\ reported' = <<>>
        /\ process_poll_tasks' = process_poll_tasks \o reported
    BY <1>5 DEF EpollReports
  <2>2. /\ Len(process_poll_tasks') = Len(process_poll_tasks) + Len(reported)
        /\ \A i \in 1..Len(process_poll_tasks') :
             \/ i \in 1..Len(process_poll_tasks) /\ process_poll_tasks'[i] = process_poll_tasks[i]
             \/ /\ i - Len(process_poll_tasks) \in 1..Len(reported)
                /\ process_poll_tasks'[i] = reported[i - Len(process_poll_tasks)]
    BY <2>1 DEF TypeOK, BatchesOK
  <2> QED
    BY <2>1, <2>2 DEF LiveInv
<1>6. CASE RunTask
  <2>1. /\ UNCHANGED <<used, process_timer_tasks, process_poll_tasks, reported>>
        /\ process_timer_tasks = <<>> /\ process_poll_tasks = <<>> /\ reported = <<>>
    BY <1>6, OnlyOneRuns DEF RunTask, At, TimerPc, PollPc, batchVars
  <2> QED
    BY <2>1 DEF LiveInv
<1>7. CASE Appends \/ Adds
  <2>1. UNCHANGED <<process_timer_tasks, process_poll_tasks, reported>>
    BY <1>7 DEF Appends, Adds, AppendTimer, AddDescriptor, batchVars
  <2>2. \E o : o \notin used /\ used' = used \cup {o} /\ deleted' \in {deleted, deleted \cup {o}}
    BY <1>7 DEF Appends, Adds, AppendTimer, AddDescriptor, Fresh
  <2> QED
    BY <2>1, <2>2, LiveKept
<1>8. CASE Inserts
  <2>1. PICK p \in User : InsertDescriptor(p)
    BY <1>8 DEF Inserts
  <2>2. op[p].kind = "insert" /\ op[p].fd \in Descriptor
    BY <2>1, OpFacts DEF InsertDescriptor
  <2>3. op[p].fd \notin DOMAIN poll_tasks
    BY <2>2 DEF FdInv, FdOK
  <2> QED
    BY <2>1, <2>3, <1>1 DEF InsertDescriptor, batchVars
<1>9. CASE Modifies \/ Removes \/ PassTasks \/ PassEnds \/ PassSleeps \/ UNCHANGED vars
  BY <1>9, <1>1
     DEF Modifies, Removes, ModifyTimer, RemoveTimer, PassTasks, PassEnds, PassSleeps, PassOthers,
         batchVars, vars
<1>10. Elsewhere =>
         \/ UNCHANGED <<used, deleted>> /\ UNCHANGED <<process_timer_tasks, process_poll_tasks, reported>>
         \/ RunTask \/ RunTimer \/ RunPoll \/ EpollReturns \/ EpollReports \/ Adds \/ Inserts
  BY DEF Elsewhere, Adds, Inserts, BodyReturns, SwapQueues, SelfInvokeFunction, SelfInvoke,
         Wait, Complete, CvWakes, FindDescriptor, ChangeDescriptor, EraseDescriptor, InvokeDelete,
         Invoke, DropDescriptor, Tick, batchVars
<1> QED
  BY <1>1, <1>2, <1>3, <1>4, <1>5, <1>6, <1>7, <1>8, <1>9, <1>10, NextCases, PassDoes

LEMMA LiveInvCalls ==
  ASSUME TypeOK, OwnedInv, WatchedAreRegistered, LiveInv
  PROVE  CallsLive
<1>1. /\ DOMAIN process_timer_tasks = 1..Len(process_timer_tasks)
      /\ DOMAIN process_poll_tasks = 1..Len(process_poll_tasks)
      /\ DOMAIN reported = 1..Len(reported)
  BY DEF TypeOK, BatchesOK
<1>2. /\ ToSet(process_timer_tasks) \cap deleted = {}
      /\ ToSet(process_poll_tasks) \cap deleted = {}
      /\ ToSet(reported) \cap deleted = {}
  BY <1>1 DEF LiveInv, ToSet
<1>3. Range(epoll) \cap deleted = {}
  BY WatchedHeld, HeldIsLive DEF Range
<1> QED
  BY <1>2, <1>3 DEF CallsLive
-----------------------------------------------------------------------------
(***************************************************************************)
(* The deadline.  TimersWait: wakeup is no later than any running timer.    *)
(***************************************************************************)
TimersWait == \A id \in DOMAIN timers : timers[id].timeout > 0 => wakeup <= timers[id].expire
SleepsUntil == At({"cv", "epoll"}) /\ ~wake => until = wakeup

LEMMA WakeupParts == WakeupInv <=> TimersWait /\ SleepsUntil
  BY DEF WakeupInv, TimersWait, SleepsUntil, Active

LEMMA WakeupInit == Init => WakeupInv
<1> SUFFICES ASSUME Init PROVE WakeupInv
  OBVIOUS
<1>1. ~At({"cv", "epoll"})
  BY DEF Init, At, NewFrame
<1> QED
  BY <1>1 DEF Init, WakeupInv

LEMMA EarlierDoes ==
  ASSUME TypeOK, NEW t \in Nat, Earlier(t)
  PROVE  /\ wakeup' \in Nat /\ wakeup' <= wakeup /\ wakeup' <= t
         /\ ~wake' => ~wake /\ wakeup' = wakeup
<1>1. wakeup \in Nat
  BY DEF TypeOK, TimesOK
<1>2. CASE wakeup > t
  <2>1. wakeup' = t
    BY <1>2 DEF Earlier
  <2>2. wake'
    BY <1>2 DEF Earlier
  <2> QED
    BY <1>1, <1>2, <2>1, <2>2
<1>3. CASE ~(wakeup > t)
  <2>1. wakeup' = wakeup /\ wakeup <= t
    BY <1>1, <1>3 DEF Earlier
  <2>2. ~wake' => ~wake
    BY <1>3 DEF Earlier
  <2> QED
    BY <1>1, <2>1, <2>2
<1> QED
  BY <1>2, <1>3

LEMMA TimersWaitStep == TypeOK /\ TimersWait /\ [Next]_vars => TimersWait'
<1> SUFFICES ASSUME TypeOK, TimersWait, [Next]_vars PROVE TimersWait'
  OBVIOUS
<1>1. CASE UNCHANGED timerVars
  BY <1>1 DEF timerVars, TimersWait
<1>2. CASE Appends
  <2>1. PICK p \in User, ms \in Interval, o \in Callback : AppendTimer(p, ms, o)
    BY <1>2 DEF Appends
  <2>2. PICK n \in Nat, r \in Timer :
          n \notin DOMAIN timers /\ r.timeout = ms /\ (ms > 0 => r.expire = clock + ms)
          /\ timers' = Extended(n, r)
    BY <2>1, AppendTimerDoes
  <2>3. DOMAIN timers' = DOMAIN timers \cup {n} /\ timers'[n] = r
        /\ \A id \in DOMAIN timers : timers'[id] = timers[id]
    BY <2>2 DEF Extended
  <2>4. ms \in Nat /\ clock + ms \in Nat
    BY CallbacksAssumption DEF TypeOK, TimesOK
  <2>5. wakeup \in Nat /\ \A id \in DOMAIN timers : timers[id].expire \in Nat
    BY DEF TypeOK, TimesOK, TimersOK, Timer
  <2>6. /\ wakeup' \in Nat /\ wakeup' <= wakeup
        /\ ms > 0 => wakeup' <= clock + ms
    BY <2>1, <2>4, <2>5, EarlierDoes DEF AppendTimer
  <2> QED
    BY <2>2, <2>3, <2>4, <2>5, <2>6 DEF TimersWait
<1>3. CASE Modifies
  <2>1. PICK p \in User, id \in DOMAIN timers, ms \in Interval : ModifyTimer(p, id, ms)
    BY <1>3 DEF Modifies
  <2>2. PICK r \in Timer :
          r.timeout = ms /\ (ms > 0 => r.expire = clock + ms) /\ timers' = [timers EXCEPT ![id] = r]
    BY <2>1, ModifyTimerDoes
  <2>3. DOMAIN timers' = DOMAIN timers /\ timers'[id] = r
        /\ \A j \in DOMAIN timers : j # id => timers'[j] = timers[j]
    BY <2>2
  <2>4. ms \in Nat /\ clock + ms \in Nat
    BY CallbacksAssumption DEF TypeOK, TimesOK
  <2>5. wakeup \in Nat /\ \A j \in DOMAIN timers : timers[j].expire \in Nat
    BY DEF TypeOK, TimesOK, TimersOK, Timer
  <2>6. /\ wakeup' \in Nat /\ wakeup' <= wakeup
        /\ ms > 0 => wakeup' <= clock + ms
    BY <2>1, <2>4, <2>5, EarlierDoes DEF ModifyTimer
  <2> QED
    BY <2>2, <2>3, <2>4, <2>5, <2>6 DEF TimersWait
<1>4. CASE Removes
  <2>1. PICK p \in User, id \in DOMAIN timers : RemoveTimer(p, id)
    BY <1>4 DEF Removes
  <2>2. UNCHANGED wakeup
    BY <2>1 DEF RemoveTimer
  <2> QED
    BY <2>1, <2>2, RemoveTimerDoes DEF TimersWait
<1>5. CASE PassCollects \/ CvTimesOut
  BY <1>5, CollectWakeup DEF PassCollects, CvTimesOut, TypeOK, TimesOK, TimersWait
<1> QED
  BY <1>1, <1>2, <1>3, <1>4, <1>5, NextCases, PassUntouched, ElsewhereUntouched
     DEF vars

\* The calls: the loop is told of an earlier deadline, or the deadline stays.
ToldOrSame ==
  /\ UNCHANGED until
  /\ ~wake' => ~wake /\ wakeup' = wakeup
  /\ StackKept

LEMMA SleepsUntilKept ==
  ASSUME StackOK, SleepsUntil, ToldOrSame
  PROVE  SleepsUntil'
<1>1. At({"cv", "epoll"})' <=> At({"cv", "epoll"})
  BY RunsKept DEF ToldOrSame
<1> QED
  BY <1>1 DEF ToldOrSame, SleepsUntil

LEMMA SleepsUntilStep ==
  ASSUME TypeOK, NoneSleepsBelow, SleepsUntil, [Next]_vars
  PROVE  SleepsUntil'
<1>a. ASSUME ~At({"cv", "epoll"})' PROVE SleepsUntil'
  BY <1>a DEF SleepsUntil
<1>b. ASSUME NEW pc \in Pcs, stack' = To(pc), pc \in ExecPc \/ ~At(ExecPc), pc \notin SleepPc
      PROVE  SleepsUntil'
  <2>1. StackMoves(pc)
    BY <1>b, MovedStack DEF TypeOK
  <2> QED
    BY <1>a, <1>b, <2>1, RunsMoved DEF TypeOK, SleepPc
<1>1. CASE Appends \/ Modifies
  <2>1. PICK p \in User, ms \in Nat :
          /\ Earlier(clock + ms) \/ UNCHANGED <<wakeup, wake>>
          /\ UNCHANGED until /\ Spend(p)
    BY <1>1, CallbacksAssumption DEF Appends, Modifies, AppendTimer, ModifyTimer
  <2>2. ~wake' => ~wake /\ wakeup' = wakeup
    <3>1. clock + ms \in Nat
      BY DEF TypeOK, TimesOK
    <3>2. CASE Earlier(clock + ms)
      BY <3>1, <3>2, EarlierDoes
    <3>3. CASE UNCHANGED <<wakeup, wake>>
      BY <3>3
    <3> QED
      BY <2>1, <3>2, <3>3
  <2>3. StackKept
    BY <2>1, SpentStack DEF TypeOK
  <2> QED
    BY <2>1, <2>2, <2>3, SleepsUntilKept DEF ToldOrSame, TypeOK
<1>2. CASE Removes \/ PollCalls \/ Posts \/ Deletions
  <2>1. /\ UNCHANGED <<until, wakeup>>
        /\ UNCHANGED stack \/ \E p \in User : Spend(p)
    BY <1>2
       DEF Removes, PollCalls, Posts, Deletions, RemoveTimer, AddDescriptor, DropDescriptor,
           InsertDescriptor, FindDescriptor, ChangeDescriptor, EraseDescriptor, Invoke,
           InvokeDelete, timerVars, sleepVars
  <2>w. ~wake' => ~wake
    BY <1>2
       DEF Removes, PollCalls, Posts, Deletions, RemoveTimer, AddDescriptor, DropDescriptor,
           InsertDescriptor, FindDescriptor, ChangeDescriptor, EraseDescriptor, Invoke,
           InvokeDelete, timerVars, sleepVars
  <2>2. StackKept
    BY <2>1, SpentStack DEF TypeOK, StackKept
  <2> QED
    BY <2>1, <2>w, <2>2, SleepsUntilKept DEF ToldOrSame, TypeOK
<1>3. CASE PassSleeps
  BY <1>3 DEF PassSleeps, SleepsUntil, timerVars
<1>4. CASE PassTasks \/ CvWakes \/ SwapQueues \/ SelfInvokeFunction
  <2>1. \E pc \in Pcs : stack' = To(pc) /\ (pc \in ExecPc \/ ~At(ExecPc)) /\ pc \notin SleepPc
    BY <1>4 DEF PassTasks, CvWakes, SwapQueues, SelfInvokeFunction, Pcs, ExecPc, At, SleepPc
  <2> QED
    BY <2>1, <1>b
<1>5. CASE EpollReturns \/ EpollReports
  <2>1. \E pc \in {"reported", "tasks", "polls"} : stack' = To(pc)
    BY <1>5 DEF EpollReturns, EpollReports
  <2>2. PICK pc \in {"reported", "tasks", "polls"} : StackMoves(pc)
    BY <2>1, MovedStack DEF Pcs, ExecPc, TypeOK
  <2> QED
    BY <2>2, <1>a, RunsMoved DEF TypeOK
<1>6. CASE PassCollects \/ CvTimesOut
  <2>1. StackMoves("tasks") \/ StackMoves("timers")
    BY <1>6, CollectStack DEF PassCollects, CvTimesOut
  <2> QED
    BY <2>1, <1>a, RunsMoved DEF TypeOK
<1>7. CASE PassEnds \/ BodyReturns
  <2>1. StackShrinks /\ Len(stack) > 1
    BY <1>7, FrontStack DEF PassEnds, BodyReturns, At, ExecPc, TypeOK
  <2>2. ~At({"cv", "epoll"})'
    BY <2>1, StackTop DEF StackShrinks, NoneSleepsBelow, SleepPc, At, TypeOK
  <2> QED
    BY <2>2, <1>a
<1>8. CASE RunTask \/ RunTimer \/ RunPoll \/ SelfInvoke \/ Wait \/ Complete
  <2>1. ~At(SleepPc) /\ ~At({"cv", "epoll"})
    BY <1>8 DEF RunTask, RunTimer, RunPoll, SelfInvoke, Wait, Complete, Callers, At, SleepPc
  <2>2. CASE UNCHANGED stack \/ Complete
    <3>1. StackKept
      BY <2>2, CompletedStack DEF StackKept, Complete, TypeOK
    <3> QED
      BY <2>1, <3>1, <1>a, RunsKept DEF TypeOK
  <2>3. CASE \E o \in Callback \cup {None} : stack' = Call(o)
    BY <2>3, <1>a, CalledStack, RunsGrown DEF TypeOK
  <2>4. CASE \E pc \in {"sync1", "drainTasks", "drainPolls", "drainTimers", "tasks"} :
               stack' = Push(Called, pc)
    <3>1. PICK pc \in {"sync1", "drainTasks", "drainPolls", "drainTimers", "tasks"} : StackGrows(pc)
      BY <2>4, PushedStack DEF Pcs, ExecPc, TypeOK
    <3> QED
      BY <3>1, <1>a, RunsGrown DEF TypeOK
  <2>5. RunTask \/ RunTimer \/ RunPoll =>
          UNCHANGED stack \/ \E o \in Callback \cup {None} : stack' = Call(o)
    BY TailType DEF RunTask, RunTimer, RunPoll, BatchesOK, TypeOK
  <2>6. SelfInvoke \/ Wait =>
          \E pc \in {"sync1", "drainTasks", "drainPolls", "drainTimers", "tasks"} :
            stack' = Push(Called, pc)
    BY DEF SelfInvoke, Wait
  <2> QED
    BY <1>8, <2>2, <2>3, <2>4, <2>5, <2>6
<1>9. CASE Tick \/ UNCHANGED vars
  BY <1>9 DEF Tick, vars, SleepsUntil, At, timerVars, sleepVars
<1>10. Elsewhere =>
         \/ PollCalls \/ Posts \/ CvWakes \/ EpollReturns \/ EpollReports \/ SwapQueues
         \/ SelfInvokeFunction \/ BodyReturns \/ RunTask \/ RunTimer \/ RunPoll \/ SelfInvoke
         \/ Wait \/ Complete \/ Tick \/ Deletions
  BY DEF Elsewhere, PollCalls, Posts, Deletions
<1> QED
  BY <1>1, <1>2, <1>3, <1>4, <1>5, <1>6, <1>7, <1>8, <1>9, <1>10, NextCases, PassDoes

LEMMA WakeupKeeps ==
  ASSUME BatchInv, WakeupInv
  PROVE  DeadlineKept
<1> SUFFICES ASSUME At({"cv", "epoll"}), ~wake
             PROVE  /\ \A id \in DOMAIN timers : Active(id) => until <= timers[id].expire
                    /\ process_timer_tasks = <<>> /\ process_poll_tasks = <<>>
                    /\ process_tasks = <<>>
  BY DEF DeadlineKept
<1>1. until = wakeup /\ \A id \in DOMAIN timers : Active(id) => wakeup <= timers[id].expire
  BY DEF WakeupInv
<1> QED
  BY <1>1, AllFinished

(***************************************************************************)
(* What the loop has collected, or the kernel may still report, is alive    *)
(* (removeTimer() and removePollDescriptor() delete by a task), for callbacks *)
(* that do not call invoke() synchronously on their own thread while other  *)
(* collected callbacks are to be called: then exec() runs tasks between;    *)
(* and for users whose calls on one descriptor do not cross in the ways     *)
(* KernelWatchesRegistered excludes.                                        *)
(***************************************************************************)
THEOREM CollectedLive ==
  ASSUME NoInvokeInBatch, Coordinated
  PROVE  Spec => []CallsLive
<1> DEFINE IInv == /\ TypeOK /\ FdInv /\ WatchedAreRegistered /\ OwnedInv /\ BatchInv /\ LiveInv
<1>1. Init => IInv
  BY TypeInit, FdInit, OwnedInit, BatchInit, LiveInit
<1>2. IInv /\ [Next]_vars => IInv'
  BY TypeStep, FdStep, OwnedStep, BatchStep, LiveStep
<1>3. IInv => CallsLive
  BY LiveInvCalls
<1> QED
  BY <1>1, <1>2, <1>3, PTL DEF Spec

(***************************************************************************)
(* The sleeping loop sleeps no longer than to the first deadline of a       *)
(* running timer, whoever set it when, and leaves nothing it has collected  *)
(* waiting (exec(), appendTimer(), modifyTimer()), for the same callbacks.  *)
(***************************************************************************)
THEOREM SleepsToDeadline ==
  ASSUME NoInvokeInBatch
  PROVE  Spec => []DeadlineKept
<1> DEFINE IInv == TypeOK /\ BatchInv /\ NoneSleepsBelow /\ TimersWait /\ SleepsUntil
<1>1. Init => IInv
  BY TypeInit, BatchInit, WakeupInit, WakeupParts
<1>2. IInv /\ [Next]_vars => IInv'
  BY TypeStep, BatchStep, SleepsStep, TimersWaitStep, SleepsUntilStep
<1>3. IInv => DeadlineKept
  BY WakeupKeeps, WakeupParts
<1> QED
  BY <1>1, <1>2, <1>3, PTL DEF Spec
=============================================================================

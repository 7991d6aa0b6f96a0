------------------------------ MODULE Connector ------------------------------
(***************************************************************************)
(* AsyncFw::FunctionConnector and FunctionConnectionGuard                   *)
(* (src/core/FunctionConnector.h, .cpp): one connector, its connections to  *)
(* functions of several threads, emissions, and guards that disconnect,     *)
(* in any thread.  An emission holds the mutex of the connector and calls   *)
(* in place, posts to the thread of the connection, or waits for it.  A     *)
(* thread is its queue, as module TaskQueue promises it, and the stack of   *)
(* what it is doing.                                                        *)
(***************************************************************************)
EXTENDS Integers, Sequences, FiniteSets, SequencesExt

CONSTANTS
  Thread,       \* the managed threads
  Connections,  \* bound: connections made in one run; their order in list
  Types,        \* the types of the connections
  None,         \* no thread
  Calls,        \* what the users do, a subset of AllCalls
  MaxEmissions, \* bound: emissions in one run
  MaxFinished   \* bound: threads that finish

(***************************************************************************)
(* What users may do and no code prevents, see MayUse and its neighbours:   *)
(*  "disconnectInPassing"  destroy a guard while an emission is just at its *)
(*                         connection;                                      *)
(*  "destroyInUse"         destroy the connector while it is used, or while *)
(*                         a connection is being deleted;                   *)
(*  "useInCall"            use the connector in a function it calls in      *)
(*                         place, or in a thread an emission may wait for.  *)
(***************************************************************************)
AllCalls == {"disconnectInPassing", "destroyInUse", "useInCall"}

Conn == 1..Connections

ASSUME ConnectorAssumption ==
  /\ Connections \in Nat /\ MaxEmissions \in Nat /\ MaxFinished \in Nat
  /\ Types \subseteq {"Auto", "Direct", "Queued", "Sync"}
  /\ None \notin Thread /\ Calls \subseteq AllCalls

VARIABLES
  list,        \* the connections in list
  mutex,       \* the thread that holds mutex
  gone,        \* the connector has been destroyed
  life,        \* a connection: "none", "made", "released" (of its function), "deleted"
  thread,      \* thread_
  type,        \* type_
  linked,      \* connector_ is not null
  guarded,     \* a guard refers to the connection
  ref,         \* ref_ of the function: it is freed with the last
  open,        \* the thread accepts tasks
  tasks,       \* the queue of a thread
  stack,       \* what a thread is doing
  emitted,     \* history: the thread that made each emission, in the order of the mutex
  called       \* history: the emissions a function was called for, in order

connectorVars == <<list, mutex, gone>>
connVars == <<life, thread, type, linked, guarded>>
threadVars == <<open, tasks, stack>>
history == <<emitted, called>>
vars == <<connectorVars, connVars, ref, threadVars, history>>

Init ==
  /\ list = {} /\ mutex = None /\ gone = FALSE
  /\ life = [c \in Conn |-> "none"] /\ thread = [c \in Conn |-> None]
  /\ type = [c \in Conn |-> "Auto"] /\ linked = [c \in Conn |-> FALSE]
  /\ guarded = [c \in Conn |-> FALSE] /\ ref = [c \in Conn |-> 0]
  /\ open = [t \in Thread |-> TRUE]
  /\ tasks = [t \in Thread |-> <<>>] /\ stack = [t \in Thread |-> <<>>]
  /\ emitted = <<>> /\ called = [c \in Conn |-> <<>>]

-----------------------------------------------------------------------------
(***************************************************************************)
(* A frame is an operation, where it is, and at which connection: "call" a  *)
(* function of a user, "emit" operator(), "delete" ~Connection,             *)
(* "disconnect" destroyConnection(), "destroy" ~AbstractFunctionConnector.  *)
(* n is the emission; peer the thread that waits for the call, or the one   *)
(* that was read from thread_ for the last time.                            *)
(***************************************************************************)
Frame(op, pc, c, n, peer) == [op |-> op, pc |-> pc, conn |-> c, n |-> n, peer |-> peer]
At(t, op, pc) == stack[t] # <<>> /\ Last(stack[t]).op = op /\ Last(stack[t]).pc = pc
Top(t) == Last(stack[t])
Frames(t) == {stack[t][k] : k \in 1..Len(stack[t])}

Pushed(t, f) == [stack EXCEPT ![t] = Append(@, f)]
Popped(t) == [stack EXCEPT ![t] = Front(@)]
Replaced(t, f) == [stack EXCEPT ![t] = Append(Front(@), f)]
Goes(t, pc) == Replaced(t, [Top(t) EXCEPT !.pc = pc])

\* Code of the user runs in the thread: a function of a connection, or another callback.
UserRuns(t) == IF stack[t] = <<>> THEN open[t] ELSE Top(t).op = "call"

-----------------------------------------------------------------------------
(***************************************************************************)
(* The rules that Calls lifts.                                              *)
(***************************************************************************)
SomebodyEmits == \E u \in Thread : \E f \in Frames(u) : f.op = "emit"
SomebodyDestroys == \E u \in Thread : \E f \in Frames(u) : f.op = "destroy"
\* The threads an emission may have to wait for.
Waited == {thread[c] : c \in {d \in list : type[d] = "Sync"}} \ {None}
\* The thread uses the connector, or is going to.
Uses(u) ==
  \/ \E f \in Frames(u) : f.op # "call"
  \/ \E k \in 1..Len(tasks[u]) : tasks[u][k].op = "delete"
  \/ \E v \in Thread : \E f \in Frames(v) : f.op = "disconnect" /\ f.peer = u
\* An emission has read thread_, or calls the function or waits for it.
IsAt(u, c) == \E f \in Frames(u) : f.op = "emit" /\ f.conn = c /\ f.pc # "next"

MayUse(t) ==
  /\ "useInCall" \in Calls \/ (mutex # t /\ (t \in Waited => ~SomebodyEmits))
  /\ "destroyInUse" \in Calls \/ ~SomebodyDestroys
MayConnect(t, ty) ==
  /\ "useInCall" \in Calls \/ (ty = "Sync" => ~SomebodyEmits)
  /\ "destroyInUse" \in Calls \/ ~SomebodyDestroys
MayEmit(t) == MayUse(t) /\ ("useInCall" \in Calls \/ \A u \in Waited \ {t} : ~Uses(u))
\* A function called in place may disconnect itself: its thread deletes it later.
MayDisconnect(t, c) ==
  /\ \/ "disconnectInPassing" \in Calls
     \/ \A u \in Thread : IsAt(u, c) => u = t /\ t = thread[c]
  /\ \/ "useInCall" \in Calls
     \/ /\ mutex = t => t = thread[c] /\ open[t]
        /\ {t, thread[c]} \cap Waited # {} => ~SomebodyEmits
  /\ "destroyInUse" \in Calls \/ ~SomebodyDestroys
MayDestroy(t) ==
  \/ "destroyInUse" \in Calls
  \/ mutex = None /\ \A u \in Thread : Uses(u) => u = t /\ \A f \in Frames(t) : f.op = "call"

-----------------------------------------------------------------------------
(***************************************************************************)
(* connect(), operator(), the end of a guard and the end of the connector,  *)
(* as a user calls them.                                                    *)
(***************************************************************************)
\* connect() is one critical section.  A connection without a guard is one whose guard
\* is not destroyed before the connector; the place in list is an address.
Connect(t, c, ty) ==
  /\ UserRuns(t) /\ ~gone /\ mutex = None /\ life[c] = "none" /\ MayConnect(t, ty)
  /\ \A d \in Conn : d < c => life[d] # "none"
  /\ list' = list \cup {c}
  /\ life' = [life EXCEPT ![c] = "made"] /\ thread' = [thread EXCEPT ![c] = t]
  /\ type' = [type EXCEPT ![c] = ty] /\ linked' = [linked EXCEPT ![c] = TRUE]
  /\ guarded' = [guarded EXCEPT ![c] = TRUE]
  /\ ref' = [ref EXCEPT ![c] = 1]
  /\ UNCHANGED <<mutex, gone, threadVars, history>>

Emit(t) ==
  /\ UserRuns(t) /\ ~gone /\ MayEmit(t)
  /\ Len(emitted) + Cardinality({u \in Thread : At(u, "emit", "lock")}) < MaxEmissions
  /\ stack' = Pushed(t, Frame("emit", "lock", 0, 0, None))
  /\ UNCHANGED <<connectorVars, connVars, ref, open, tasks, history>>

\* Mutant: thread_ is not cleared.
DestroyGuardKeepsThread(t, c) ==
  /\ UserRuns(t) /\ guarded[c] /\ thread[c] # None /\ MayDisconnect(t, c)
  /\ stack' = Pushed(t, Frame("disconnect", "decide", c, 0, thread[c]))
  /\ guarded' = [guarded EXCEPT ![c] = FALSE]
  /\ UNCHANGED <<connectorVars, life, thread, type, linked, ref, open, tasks, history>>

\* ~FunctionConnectionGuard() and the assignments: thread_ and guard_ are cleared.
DestroyGuard(t, c) ==
  /\ UserRuns(t) /\ guarded[c] /\ thread[c] # None /\ MayDisconnect(t, c)
  /\ stack' = Pushed(t, Frame("disconnect", "decide", c, 0, thread[c]))
  /\ thread' = [thread EXCEPT ![c] = None] /\ guarded' = [guarded EXCEPT ![c] = FALSE]
  /\ UNCHANGED <<connectorVars, life, type, linked, ref, open, tasks, history>>

Destroy(t) ==
  /\ UserRuns(t) /\ ~gone /\ MayDestroy(t) /\ ~SomebodyDestroys
  /\ stack' = Pushed(t, Frame("destroy", "lock", 0, 0, None))
  /\ UNCHANGED <<connectorVars, connVars, ref, open, tasks, history>>

\* The thread finishes; what it has accepted is run by its last drain.
Finish(t) ==
  /\ open[t] /\ stack[t] = <<>> /\ Cardinality({u \in Thread : ~open[u]}) < MaxFinished
  /\ open' = [open EXCEPT ![t] = FALSE]
  /\ UNCHANGED <<connectorVars, connVars, ref, tasks, stack, history>>

-----------------------------------------------------------------------------
\* operator(): the mutex is held to the end.
\* Mutant: the mutex protects only the look at the list.
EmitLocksBriefly(t) ==
  /\ At(t, "emit", "lock") /\ mutex = None
  /\ stack' = Replaced(t, Frame("emit", "next", 0, Len(emitted) + 1, None))
  /\ emitted' = Append(emitted, t)
  /\ UNCHANGED <<connectorVars, connVars, ref, open, tasks, called>>

EmitLocks(t) ==
  /\ At(t, "emit", "lock") /\ mutex = None
  /\ mutex' = t
  /\ stack' = Replaced(t, Frame("emit", "next", 0, Len(emitted) + 1, None))
  /\ emitted' = Append(emitted, t)
  /\ UNCHANGED <<list, gone, connVars, ref, open, tasks, called>>

\* The loop over the list: connections that are disconnected are passed.
Later(t) == {c \in list : c > Top(t).conn}
Following(t) == {c \in Later(t) : \A d \in Later(t) : c <= d}
EmitNext(t) ==
  /\ At(t, "emit", "next")
  /\ \E c \in Following(t) :
       stack' = Replaced(t, [Top(t) EXCEPT !.conn = c, !.pc = IF thread[c] = None THEN "next" ELSE "read"])
  /\ UNCHANGED <<connectorVars, connVars, ref, open, tasks, history>>

EmitEnds(t) ==
  /\ At(t, "emit", "next") /\ Later(t) = {}
  /\ mutex' = None /\ stack' = Popped(t)
  /\ UNCHANGED <<list, gone, connVars, ref, open, tasks, history>>

InPlace(t, c) == type[c] = "Direct" \/ (type[c] # "Queued" /\ thread[c] = t)
Called(t, f, kind) == Frame("call", kind, f.conn, f.n, f.peer)

CallInPlace(t) ==
  /\ At(t, "emit", "read") /\ InPlace(t, Top(t).conn)
  /\ stack' = [stack EXCEPT ![t] =
       Append(Append(Front(@), [Top(t) EXCEPT !.pc = "calls"]), Called(t, Top(t), "inPlace"))]
  /\ called' = [called EXCEPT ![Top(t).conn] = Append(@, Top(t).n)]
  /\ UNCHANGED <<connectorVars, connVars, ref, open, tasks, emitted>>

(***************************************************************************)
(* Otherwise a QueuedTask is made, which holds the function, or a           *)
(* synchronous call, which does not; thread_ is read for the last time, and *)
(* then the task is handed to that thread.                                  *)
(***************************************************************************)
\* Mutant: the task does not hold the function.
PrepareUnheld(t) ==
  LET c == Top(t).conn
  IN /\ At(t, "emit", "read") /\ ~InPlace(t, c) /\ thread[c] # None
     /\ stack' = Replaced(t, [Top(t) EXCEPT !.pc = "post", !.peer = thread[c]])
     /\ UNCHANGED <<connectorVars, connVars, ref, open, tasks, history>>

Prepare(t) ==
  LET c == Top(t).conn
  IN /\ At(t, "emit", "read") /\ ~InPlace(t, c) /\ thread[c] # None
     /\ ref' = IF type[c] = "Sync" THEN ref ELSE [ref EXCEPT ![c] = @ + 1]
     /\ stack' = Replaced(t, [Top(t) EXCEPT !.pc = "post", !.peer = thread[c]])
     /\ UNCHANGED <<connectorVars, connVars, open, tasks, history>>

Posts(t, kind, peer) ==
  tasks' = [tasks EXCEPT ![Top(t).peer] = Append(@, Frame("call", kind, Top(t).conn, Top(t).n, peer))]
Handed(t, pc) == Replaced(t, [Top(t) EXCEPT !.pc = pc, !.peer = None])

\* invokeTask(): the task is deleted if it is refused.
Post(t) ==
  /\ At(t, "emit", "post") /\ type[Top(t).conn] # "Sync"
  /\ IF open[Top(t).peer]
     THEN Posts(t, "queued", None) /\ UNCHANGED ref
     ELSE ref' = [ref EXCEPT ![Top(t).conn] = @ - 1] /\ UNCHANGED tasks
  /\ stack' = Handed(t, "next")
  /\ UNCHANGED <<connectorVars, connVars, open, history>>

\* A synchronous invoke(), with the mutex held.
PostSync(t) ==
  /\ At(t, "emit", "post") /\ type[Top(t).conn] = "Sync"
  /\ IF open[Top(t).peer]
     THEN Posts(t, "sync", t) /\ stack' = Handed(t, "waits")
     ELSE stack' = Handed(t, "next") /\ UNCHANGED tasks
  /\ UNCHANGED <<connectorVars, connVars, ref, open, history>>

-----------------------------------------------------------------------------
\* The loop of a thread runs a task; a finished one runs those it has accepted.
Run(t) ==
  /\ stack[t] = <<>> /\ tasks[t] # <<>>
  /\ LET f == Head(tasks[t])
     IN /\ stack' = Pushed(t, f)
        /\ called' = IF f.op = "call" THEN [called EXCEPT ![f.conn] = Append(@, f.n)] ELSE called
  /\ tasks' = [tasks EXCEPT ![t] = Tail(@)]
  /\ UNCHANGED <<connectorVars, connVars, ref, open, emitted>>

ReturnQueued(t) ==
  /\ At(t, "call", "queued")
  /\ ref' = [ref EXCEPT ![Top(t).conn] = @ - 1]
  /\ stack' = Popped(t)
  /\ UNCHANGED <<connectorVars, connVars, open, tasks, history>>

ReturnInPlace(t) ==
  /\ At(t, "call", "inPlace")
  /\ stack' = [stack EXCEPT ![t] = LET s == Front(@) IN Append(Front(s), [Last(s) EXCEPT !.pc = "next"])]
  /\ UNCHANGED <<connectorVars, connVars, ref, open, tasks, history>>

\* The end of a synchronous call lets the emission go on.
ReturnSync(t) ==
  /\ At(t, "call", "sync")
  /\ LET u == Top(t).peer
     IN stack' = [stack EXCEPT ![t] = Front(@),
                               ![u] = Append(Front(@), [Last(@) EXCEPT !.pc = "next"])]
  /\ UNCHANGED <<connectorVars, connVars, ref, open, tasks, history>>

-----------------------------------------------------------------------------
(***************************************************************************)
(* destroyConnection(), after thread_ was cleared: the connection is        *)
(* deleted at once by another thread than its own unless it is Direct, and  *)
(* if its thread takes no task; otherwise by a task of its thread.          *)
(***************************************************************************)
\* Mutant: always deleted at once.
DecideAtOnce(t) ==
  /\ At(t, "disconnect", "decide")
  /\ stack' = Replaced(t, Frame("delete", "release", Top(t).conn, 0, None))
  /\ UNCHANGED <<connectorVars, connVars, ref, open, tasks, history>>

Decide(t) ==
  LET f == Top(t)
  IN /\ At(t, "disconnect", "decide")
     /\ IF (type[f.conn] # "Direct" /\ f.peer # t) \/ ~open[f.peer]
        THEN stack' = Replaced(t, Frame("delete", "release", f.conn, 0, None)) /\ UNCHANGED tasks
        ELSE /\ tasks' = [tasks EXCEPT ![f.peer] = Append(@, Frame("delete", "release", f.conn, 0, None))]
             /\ stack' = Popped(t)
     /\ UNCHANGED <<connectorVars, connVars, ref, open, history>>

\* ~Connection(): the function is let go first, and the connection is taken out of the
\* list, under the mutex, if the connector is still there.
Release(t) ==
  /\ At(t, "delete", "release")
  /\ LET c == Top(t).conn
     IN /\ ref' = [ref EXCEPT ![c] = @ - 1]
        /\ life' = [life EXCEPT ![c] = IF linked[c] THEN "released" ELSE "deleted"]
        /\ stack' = IF linked[c] THEN Goes(t, "lock") ELSE Popped(t)
  /\ UNCHANGED <<connectorVars, thread, type, linked, guarded, open, tasks, history>>

Unlist(t) ==
  /\ At(t, "delete", "lock") /\ mutex = None
  /\ list' = list \ {Top(t).conn} /\ life' = [life EXCEPT ![Top(t).conn] = "deleted"]
  /\ stack' = Popped(t)
  /\ UNCHANGED <<mutex, gone, thread, type, linked, guarded, ref, open, tasks, history>>

-----------------------------------------------------------------------------
\* ~AbstractFunctionConnector(): with the mutex held, connections that nobody disconnects
\* are deleted; the others find connector_ cleared.
DestroyLocks(t) ==
  /\ At(t, "destroy", "lock") /\ mutex = None
  /\ mutex' = t /\ stack' = Goes(t, "next")
  /\ UNCHANGED <<list, gone, connVars, ref, open, tasks, history>>

DestroyNext(t) ==
  /\ At(t, "destroy", "next")
  /\ \E c \in Following(t) :
        /\ linked' = [linked EXCEPT ![c] = FALSE]
        /\ stack' = Replaced(t, [Top(t) EXCEPT !.conn = c, !.pc = IF thread[c] = None THEN "next" ELSE "read"])
  /\ UNCHANGED <<connectorVars, life, thread, type, guarded, ref, open, tasks, history>>

DestroyConnection(t) ==
  /\ At(t, "destroy", "read")
  /\ LET c == Top(t).conn
     IN /\ ref' = [ref EXCEPT ![c] = @ - 1] /\ life' = [life EXCEPT ![c] = "deleted"]
        /\ guarded' = [guarded EXCEPT ![c] = FALSE]
  /\ stack' = Goes(t, "next")
  /\ UNCHANGED <<connectorVars, thread, type, linked, open, tasks, history>>

DestroyEnds(t) ==
  /\ At(t, "destroy", "next") /\ Later(t) = {}
  /\ gone' = TRUE /\ mutex' = None /\ list' = {} /\ stack' = Popped(t)
  /\ UNCHANGED <<connVars, ref, open, tasks, history>>

-----------------------------------------------------------------------------
Next ==
  \E t \in Thread :
    \/ Emit(t) \/ Destroy(t) \/ Finish(t)
    \/ \E c \in Conn : DestroyGuard(t, c) \/ \E ty \in Types : Connect(t, c, ty)
    \/ EmitLocks(t) \/ EmitNext(t) \/ EmitEnds(t) \/ CallInPlace(t)
    \/ Prepare(t) \/ Post(t) \/ PostSync(t)
    \/ Run(t) \/ ReturnQueued(t) \/ ReturnInPlace(t) \/ ReturnSync(t)
    \/ Decide(t) \/ Release(t) \/ Unlist(t)
    \/ DestroyLocks(t) \/ DestroyNext(t) \/ DestroyConnection(t) \/ DestroyEnds(t)

Spec == Init /\ [][Next]_vars

-----------------------------------------------------------------------------
\* Those that are going to delete a connection.
Deleters(c) ==
  Cardinality({u \in Thread : \E f \in Frames(u) : f.conn = c /\ f.op \in {"delete", "disconnect"}})
  + Cardinality({u \in Thread : \E f \in Frames(u) : f.conn = c /\ f.op = "destroy" /\ f.pc = "read"})
  + Cardinality({u \in Thread : \E k \in 1..Len(tasks[u]) :
                   tasks[u][k].op = "delete" /\ tasks[u][k].conn = c})

\* Nothing that was deleted is used: an emission finds the connection, its thread and its
\* function until it has left it, a posted or running function is alive, a connection is
\* deleted once, and a deletion finds the connector (operator(), QueuedTask, ~Connection,
\* destroyConnection(), ~AbstractFunctionConnector).
InUseIsLive ==
  /\ \A t \in Thread : \A f \in Frames(t) :
       /\ f.op = "call" => ref[f.conn] > 0
       /\ f.op = "emit" /\ f.pc = "read" => thread[f.conn] # None /\ ref[f.conn] > 0
       /\ f.op = "emit" /\ f.pc = "post" => ref[f.conn] > 0
       /\ f.op = "emit" /\ f.pc # "lock" => \A c \in list : life[c] # "deleted"
       /\ f.op = "delete" /\ f.pc = "lock" => ~gone
  /\ \A t \in Thread : \A k \in 1..Len(tasks[t]) :
       tasks[t][k].op = "call" => ref[tasks[t][k].conn] > 0
  /\ \A c \in Conn : Deleters(c) <= (IF life[c] \in {"made", "released"} THEN 1 ELSE 0)

\* The functions of a connection are called in the order of the emissions, each once:
\* of all emissions, or of those of one thread where an emission in the thread of the
\* connection is called in place and overtakes the posted ones (operator()).
InOrder ==
  \A c \in Conn : \A j, k \in 1..Len(called[c]) :
    j < k /\ (type[c] = "Auto" => emitted[called[c][j]] = emitted[called[c][k]])
      => called[c][j] < called[c][k]

\* The deletion that is posted to the thread of a connection is behind all calls posted to
\* it: none is left behind it (destroyConnection(), operator()).
LastCallBeforeDeletion ==
  \A t, u \in Thread : \A k \in 1..Len(tasks[t]), j \in 1..Len(tasks[u]) :
    /\ tasks[t][k].op = "delete" /\ tasks[u][j].op = "call"
    /\ tasks[t][k].conn = tasks[u][j].conn
    => t = u /\ j < k

\* No thread waits for a mutex that it holds itself, or that is held by an emission which
\* waits for this very thread; and the mutex is held only by those that let go of it
\* (operator(), ~Connection, destroyConnection()).
NoCircle ==
  /\ \A t \in Thread :
       At(t, "emit", "lock") \/ At(t, "delete", "lock") \/ At(t, "destroy", "lock") =>
         /\ mutex # t
         /\ mutex # None => \A f \in Frames(mutex) :
              f.op = "emit" /\ f.pc = "waits" => thread[f.conn] # t
  /\ mutex # None => \E f \in Frames(mutex) : f.op \in {"emit", "destroy"} /\ f.pc # "lock"
=============================================================================

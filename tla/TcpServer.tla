----------------------------- MODULE TcpServer ------------------------------
(***************************************************************************)
(* DataArrayTcpServer with the sockets of its threads                       *)
(* (src/main/DataArrayTcpServer.cpp, DataArrayAbstractTcp.cpp, the receive  *)
(* side of DataArraySocket.cpp): Main, the thread of the pool, accepts and  *)
(* distributes connections, handles what they receive and deletes sockets   *)
(* and threads; the threads read, hand over and close.  Each thread is the  *)
(* queue that TaskQueue promises.  Pointers to sockets, buffers and threads *)
(* travel in tasks, and the order of the queues is all that keeps them      *)
(* valid.                                                                   *)
(***************************************************************************)
EXTENDS Integers, Sequences, FiniteSets, SequencesExt

CONSTANTS
  Worker,          \* the threads the server may create, each once
  Main,            \* thread_: the thread of the pool and of the listener
  Socket,          \* the connections that may come in, each once
  Always,          \* of these, those from the addresses in alwaysConnect_
  Buffer,          \* the arrays that may be received, each once
  None,            \* no thread, socket or buffer
  MaxThreads,      \* maxThreads
  MaxSockets,      \* maxSockets, of one thread
  MaxReadBuffers,  \* maxReadBuffers, of one socket
  Calls            \* what happens, a subset of AllCalls

(***************************************************************************)
(* "transmit", "disconnect": the users of received() answer, and disconnect *)
(* the socket.  "quit": the server quits.  The other two lift the rules in  *)
(* MayAccept, MayEnd, MayQuit and Quiet, which no code enforces.            *)
(***************************************************************************)
AllCalls == {"transmit", "disconnect", "quit", "acceptAtEnd", "quitInTraffic"}

ASSUME ServerAssumption ==
  /\ IsFiniteSet(Worker) /\ IsFiniteSet(Socket) /\ IsFiniteSet(Buffer)
  /\ Main \notin Worker /\ None \notin Worker \cup Socket \cup Buffer \cup {Main}
  /\ Always \subseteq Socket /\ Calls \subseteq AllCalls
  /\ MaxThreads \in Nat \ {0} /\ MaxSockets \in Nat \ {0} /\ MaxReadBuffers \in Nat \ {0}

VARIABLES
  phase,        \* the life of a thread
  threads,      \* threads_
  tasks,        \* the queues
  main,         \* what Main is in the middle of
  listening,    \* the listener is open
  life,         \* the life of a socket
  at,           \* thread_ of a socket, which is in the sockets_ of that thread
  receiveList,  \* receiveList of a socket
  partial,      \* receiveByteArray: what is being received
  transmitList, \* transmitList of a socket: the buffers that are being answered
  used          \* history: the buffers that were allocated

readVars == <<receiveList, partial, used>>
socketVars == <<life, at, readVars, transmitList>>
vars == <<phase, threads, tasks, main, listening, socketVars>>

Thread == Worker \cup {Main}
Sockets(t) == {s \in Socket : at[s] = t}

Task(kind, x, b) == [kind |-> kind, of |-> x, buffer |-> b]

Doing(pc, t, s, b) == [pc |-> pc, thread |-> t, socket |-> s, buffer |-> b]
Idle == Doing("loop", None, None, None)

Init ==
  /\ phase = [t \in Worker |-> "none"] /\ threads = {} /\ tasks = [t \in Thread |-> <<>>]
  /\ main = Idle /\ listening = TRUE
  /\ life = [s \in Socket |-> "none"] /\ at = [s \in Socket |-> None]
  /\ receiveList = [s \in Socket |-> {}] /\ partial = [s \in Socket |-> None] /\ used = {}
  /\ transmitList = [s \in Socket |-> <<>>]

Accepts(t) == phase[t] \in {"open", "told"}
Post(t, m) == tasks' = [tasks EXCEPT ![t] = Append(@, m)]

-----------------------------------------------------------------------------
(***************************************************************************)
(* What peers and users would have to see to: the last connection of a      *)
(* thread does not end while another one is being given to it, nor does one *)
(* come in before the thread without connections is destroyed; the server   *)
(* quits when no such task is under way, and then nothing happens on its    *)
(* connections any more.                                                    *)
(***************************************************************************)
Emptied(t) == t \in threads /\ Sockets(t) = {}
Lasting(t) == {s \in Sockets(t) : Task("disconnect", s, None) \notin ToSet(tasks[t])}
Creating(t) == \E m \in ToSet(tasks[t]) : m.kind = "create"

MayAccept(t) == "acceptAtEnd" \in Calls \/ Lasting(t) # {}
MayEnd(s) == "acceptAtEnd" \in Calls \/ (Creating(at[s]) => Lasting(at[s]) \ {s} # {})
Quiet == "quitInTraffic" \in Calls \/ listening
MayQuit == "quitInTraffic" \in Calls \/ \A t \in threads : Sockets(t) # {} /\ Lasting(t) = Sockets(t)

-----------------------------------------------------------------------------
(***************************************************************************)
(* incomingConnection(): a thread is created as long as there are fewer     *)
(* than maxThreads, else one with the fewest sockets is taken.  threads_ is *)
(* sorted by address, so which of several is found first is not known.      *)
(* createSocket() is invoked synchronously: Main waits.                     *)
(***************************************************************************)
Unborn == {t \in Worker : phase[t] = "none"}
Strangers == {s \in Socket : life[s] = "none"}
\* Those of a kind are alike: any one will do for what is new.
AnyOf(set) == {CHOOSE x \in set : TRUE : y \in set}
Comes(s) == main = Idle /\ listening /\ s \in AnyOf(Strangers \cap Always) \cup AnyOf(Strangers \ Always)

Hand(s, t) ==
  /\ Post(t, Task("create", s, None))
  /\ main' = Doing("create", t, s, None) /\ life' = [life EXCEPT ![s] = "incoming"]
  /\ UNCHANGED <<listening, at, readVars, transmitList>>

IncomingNewThread(s, t) ==
  /\ Comes(s) /\ Cardinality(threads) < MaxThreads /\ t \in AnyOf(Unborn)
  /\ phase' = [phase EXCEPT ![t] = "open"] /\ threads' = threads \cup {t}
  /\ Hand(s, t)

\* findMinimalSocketsThread()
Free == {t \in threads : Cardinality(Sockets(t)) < MaxSockets}
Minimal == {t \in Free : \A u \in Free : Cardinality(Sockets(t)) <= Cardinality(Sockets(u))}

IncomingToThread(s, t) ==
  /\ Comes(s) /\ Cardinality(threads) >= MaxThreads
  /\ t \in Minimal \/ (Minimal = {} /\ s \in Always /\ t \in threads)
  /\ MayAccept(t)
  /\ Hand(s, t)
  /\ UNCHANGED <<phase, threads>>

IncomingRefused(s) ==
  /\ Comes(s) /\ Cardinality(threads) >= MaxThreads /\ Minimal = {} /\ s \notin Always
  /\ life' = [life EXCEPT ![s] = "refused"]
  /\ UNCHANGED <<phase, threads, tasks, main, listening, at, readVars, transmitList>>

-----------------------------------------------------------------------------
(***************************************************************************)
(* The end of a connection, whatever its cause: stateEvent() drops what is  *)
(* being received, and destroySocket(), called by stateChanged(), takes the *)
(* socket off its thread and posts the deletions.  `queues' are the queues  *)
(* without the task that is running.                                        *)
(***************************************************************************)
\* Mutant: the thread goes with the last socket but one.
LastButOne(s) ==
  IF Cardinality(Sockets(at[s])) <= 2 THEN <<Task("destroyThread", at[s], None)>> ELSE <<>>

LastOne(s) ==
  IF Sockets(at[s]) = {s} THEN <<Task("destroyThread", at[s], None)>> ELSE <<>>

\* Mutant: the thread of the socket deletes it.
CloseAtOnce(s, queues) ==
  /\ life' = [life EXCEPT ![s] = "deleted"] /\ at' = [at EXCEPT ![s] = None]
  /\ receiveList' = [receiveList EXCEPT ![s] = @ \ {partial[s]}]
  /\ partial' = [partial EXCEPT ![s] = None]
  /\ tasks' = [queues EXCEPT ![Main] = @ \o LastOne(s)]

Close(s, queues) ==
  /\ life' = [life EXCEPT ![s] = "closed"] /\ at' = [at EXCEPT ![s] = None]
  /\ receiveList' = [receiveList EXCEPT ![s] = @ \ {partial[s]}]
  /\ partial' = [partial EXCEPT ![s] = None]
  /\ tasks' = [queues EXCEPT ![Main] = @ \o LastOne(s) \o <<Task("destroySocket", s, None)>>]

Event(s) == life[s] = "open" /\ Accepts(at[s]) /\ Quiet
SocketStep == UNCHANGED <<phase, threads, main, listening>>

\* The peer closes, or nothing came in time.
ConnectionEnds(s) ==
  /\ Event(s) /\ MayEnd(s)
  /\ Close(s, tasks)
  /\ SocketStep /\ UNCHANGED <<used, transmitList>>

\* readEvent(): an array begins, or is one too many.
ReadBegins(s, b) ==
  /\ Event(s) /\ partial[s] = None /\ b \in AnyOf(Buffer \ used)
  /\ Cardinality(receiveList[s]) < MaxReadBuffers
  /\ receiveList' = [receiveList EXCEPT ![s] = @ \cup {b}]
  /\ partial' = [partial EXCEPT ![s] = b] /\ used' = used \cup {b}
  /\ SocketStep /\ UNCHANGED <<tasks, life, at, transmitList>>

ReadOverflows(s) ==
  /\ Event(s) /\ MayEnd(s)
  /\ partial[s] = None /\ Cardinality(receiveList[s]) >= MaxReadBuffers
  /\ Close(s, tasks)
  /\ SocketStep /\ UNCHANGED <<used, transmitList>>

\* Mutant: the pointer to the array that is complete is kept.
ReadEndsKeeps(s) ==
  /\ Event(s) /\ partial[s] # None
  /\ Post(Main, Task("received", s, partial[s]))
  /\ SocketStep /\ UNCHANGED socketVars

\* The array is complete: received(), whose first function posts it to Main.
ReadEnds(s) ==
  /\ Event(s) /\ partial[s] # None
  /\ Post(Main, Task("received", s, partial[s]))
  /\ partial' = [partial EXCEPT ![s] = None]
  /\ SocketStep /\ UNCHANGED <<life, at, receiveList, used, transmitList>>

-----------------------------------------------------------------------------
(***************************************************************************)
(* The tasks of a thread.                                                   *)
(***************************************************************************)
Next1(t, kind) == tasks[t] # <<>> /\ Head(tasks[t]).kind = kind
Rest(t) == [tasks EXCEPT ![t] = Tail(@)]

\* createSocket(): Main goes on.
RunCreate(t) ==
  /\ Accepts(t) /\ Next1(t, "create")
  /\ LET s == Head(tasks[t]).of
     IN life' = [life EXCEPT ![s] = "open"] /\ at' = [at EXCEPT ![s] = t]
  /\ tasks' = Rest(t) /\ main' = Idle
  /\ UNCHANGED <<phase, threads, listening, readVars, transmitList>>

\* releaseBuffer(): of a socket that was deleted there is no list any more.
RunRelease(t) ==
  /\ Accepts(t) /\ Next1(t, "release")
  /\ LET m == Head(tasks[t])
     IN receiveList' = [receiveList EXCEPT ![m.of] = @ \ {m.buffer}]
  /\ tasks' = Rest(t)
  /\ SocketStep /\ UNCHANGED <<life, at, partial, used, transmitList>>

\* DataArraySocket::disconnect(), which a closed socket ignores.
RunDisconnect(t) ==
  /\ Accepts(t) /\ Next1(t, "disconnect")
  /\ LET s == Head(tasks[t]).of
     IN IF life[s] = "open" THEN Close(s, Rest(t))
        ELSE tasks' = Rest(t) /\ UNCHANGED <<life, at, receiveList, partial>>
  /\ SocketStep /\ UNCHANGED <<used, transmitList>>

(***************************************************************************)
(* The task of transmit(), and writeSocket(), which it posts when there was *)
(* nothing to write before; Main answers and waits, so the list never grows *)
(* to maxWriteBuffers.  The task does not ask whether the socket still has  *)
(* a thread; here it does nothing then.                                     *)
(***************************************************************************)
\* Mutant: a write that is under way is to send this answer too.
PostsWriteLate(s) == transmitList[s] # <<>>

PostsWrite(s) == transmitList[s] = <<>>

RunTransmit(t) ==
  /\ Accepts(t) /\ Next1(t, "transmit")
  /\ LET m == Head(tasks[t])
         s == m.of
     IN IF at[s] = None THEN tasks' = Rest(t) /\ UNCHANGED transmitList
        ELSE /\ transmitList' = [transmitList EXCEPT ![s] = Append(@, m.buffer)]
             /\ tasks' = [tasks EXCEPT ![t] =
                  IF PostsWrite(s) THEN Append(Tail(@), Task("write", s, None)) ELSE Tail(@)]
  /\ main' = [main EXCEPT !.pc = "answered", !.thread = None]
  /\ UNCHANGED <<phase, threads, listening, life, at, readVars>>

RunWrite(t) ==
  /\ Accepts(t) /\ Next1(t, "write")
  /\ LET s == Head(tasks[t]).of
     IN transmitList' = [transmitList EXCEPT ![s] = <<>>]
  /\ tasks' = Rest(t)
  /\ SocketStep /\ UNCHANGED <<life, at, readVars>>

Finish(t) ==
  /\ phase[t] = "told" /\ tasks[t] = <<>>
  /\ phase' = [phase EXCEPT ![t] = "finished"]
  /\ UNCHANGED <<threads, tasks, main, listening, socketVars>>

-----------------------------------------------------------------------------
(***************************************************************************)
(* The tasks of Main.                                                       *)
(***************************************************************************)
MainRuns(kind) == main = Idle /\ Next1(Main, kind)

\* initSocket(): the users of received() are called, and the buffer is released.
RunReceived ==
  /\ MainRuns("received")
  /\ LET m == Head(tasks[Main]) IN main' = Doing("handles", None, m.of, m.buffer)
  /\ tasks' = Rest(Main)
  /\ UNCHANGED <<phase, threads, listening, socketVars>>

\* transmit() of an open socket: Main waits.
Transmit ==
  /\ "transmit" \in Calls /\ main.pc = "handles" /\ life[main.socket] = "open"
  /\ Accepts(at[main.socket])
  /\ Post(at[main.socket], Task("transmit", main.socket, main.buffer))
  /\ main' = [main EXCEPT !.pc = "transmits", !.thread = at[main.socket]]
  /\ UNCHANGED <<phase, threads, listening, socketVars>>

\* disconnectFromHost(), on a socket that has a thread: the code does not ask.
DisconnectFromHost ==
  /\ "disconnect" \in Calls /\ main.pc \in {"handles", "answered"} /\ at[main.socket] # None
  /\ Quiet
  /\ Post(at[main.socket], Task("disconnect", main.socket, None))
  /\ main' = [main EXCEPT !.pc = "handled"]
  /\ UNCHANGED <<phase, threads, listening, socketVars>>

\* DataArraySocket::releaseBuffer(): thread_ is tested, and then used.
ReleaseBuffer ==
  /\ main.pc \in {"handles", "answered", "handled"}
  /\ main' = IF at[main.socket] = None THEN Idle
             ELSE Doing("releases", at[main.socket], main.socket, main.buffer)
  /\ UNCHANGED <<phase, threads, tasks, listening, socketVars>>

PostRelease ==
  /\ main.pc = "releases"
  /\ IF Accepts(main.thread) THEN Post(main.thread, Task("release", main.socket, main.buffer))
     ELSE UNCHANGED tasks
  /\ main' = Idle
  /\ UNCHANGED <<phase, threads, listening, socketVars>>

\* AbstractSocket::destroy() of a socket without a thread.
RunDestroySocket ==
  /\ MainRuns("destroySocket")
  /\ LET s == Head(tasks[Main]).of
     IN /\ life' = [life EXCEPT ![s] = "destroyed"]
        /\ tasks' = [tasks EXCEPT ![Main] = Append(Tail(@), Task("deleteSocket", s, None))]
  /\ UNCHANGED <<phase, threads, main, listening, at, readVars, transmitList>>

\* The destructor frees the buffers that are left.
RunDeleteSocket ==
  /\ MainRuns("deleteSocket")
  /\ LET s == Head(tasks[Main]).of
     IN life' = [life EXCEPT ![s] = "deleted"] /\ receiveList' = [receiveList EXCEPT ![s] = {}]
  /\ tasks' = Rest(Main)
  /\ UNCHANGED <<phase, threads, main, listening, at, partial, used, transmitList>>

\* AbstractThreadPool::Thread::destroy()
DestroyThread(t, queues) ==
  /\ threads' = threads \ {t}
  /\ phase' = [phase EXCEPT ![t] = IF @ = "open" THEN "told" ELSE @]
  /\ tasks' = [queues EXCEPT ![Main] = Append(@, Task("deleteThread", t, None))]

RunDestroyThread ==
  /\ MainRuns("destroyThread")
  /\ DestroyThread(Head(tasks[Main]).of, Rest(Main))
  /\ UNCHANGED <<main, listening, socketVars>>

\* waitFinished() and the destructor, which deletes the sockets that are left.
RunDeleteThread ==
  /\ MainRuns("deleteThread")
  /\ LET t == Head(tasks[Main]).of
     IN /\ phase[t] \in {"finished", "deleted"}
        /\ phase' = [phase EXCEPT ![t] = "deleted"]
        /\ life' = [s \in Socket |-> IF at[s] = t THEN "deleted" ELSE life[s]]
        /\ receiveList' = [s \in Socket |-> IF at[s] = t THEN {} ELSE receiveList[s]]
        /\ partial' = [s \in Socket |-> IF at[s] = t THEN None ELSE partial[s]]
        /\ at' = [s \in Socket |-> IF at[s] = t THEN None ELSE at[s]]
  /\ tasks' = Rest(Main)
  /\ UNCHANGED <<threads, main, listening, used, transmitList>>

\* quit(): the listener is closed and the threads are destroyed one by one.
Quit ==
  /\ "quit" \in Calls /\ main = Idle /\ listening /\ MayQuit
  /\ listening' = FALSE /\ main' = Doing("quits", None, None, None)
  /\ UNCHANGED <<phase, threads, tasks, socketVars>>

QuitNext(t) ==
  /\ main.pc = "quits" /\ t \in threads
  /\ DestroyThread(t, tasks)
  /\ UNCHANGED <<main, listening, socketVars>>

QuitEnds ==
  /\ main.pc = "quits" /\ threads = {}
  /\ main' = Idle
  /\ UNCHANGED <<phase, threads, tasks, listening, socketVars>>

-----------------------------------------------------------------------------
MainStep ==
  \/ RunReceived \/ ReleaseBuffer \/ PostRelease \/ RunDestroySocket \/ RunDeleteSocket
  \/ RunDestroyThread \/ RunDeleteThread \/ QuitEnds \/ \E t \in Worker : QuitNext(t)
WorkerStep(t) ==
  \/ RunCreate(t) \/ RunRelease(t) \/ RunDisconnect(t)
  \/ RunTransmit(t) \/ RunWrite(t) \/ Finish(t)

Next ==
  \/ \E s \in Socket, t \in Worker : IncomingNewThread(s, t) \/ IncomingToThread(s, t)
  \/ \E s \in Socket : IncomingRefused(s) \/ ConnectionEnds(s) \/ ReadOverflows(s) \/ ReadEnds(s)
  \/ \E s \in Socket, b \in Buffer : ReadBegins(s, b)
  \/ Transmit \/ DisconnectFromHost \/ Quit
  \/ MainStep
  \/ \E t \in Worker : WorkerStep(t)

Spec == Init /\ [][Next]_vars

\* The loops run, and the users of received() return; peers are not obliged to anything.
FairSpec == Spec /\ WF_vars(MainStep) /\ \A t \in Worker : WF_vars(WorkerStep(t))
-----------------------------------------------------------------------------
(***************************************************************************)
(* Properties.                                                              *)
(***************************************************************************)

\* Whatever a task of Main names, and whatever its users are given by received(), has not
\* been deleted, and nothing is deleted twice: a socket is closed, taken off its thread and
\* deleted through three queues while what it received is still on its way (initSocket(),
\* destroySocket(), AbstractSocket::destroy(), Thread::destroy()).
MainFindsItAlive ==
  /\ \A m \in ToSet(tasks[Main]) :
       IF m.kind \in {"destroyThread", "deleteThread"} THEN phase[m.of] # "deleted"
       ELSE life[m.of] # "deleted"
  /\ main.socket # None => life[main.socket] # "deleted"

\* A connection that was accepted keeps its thread: no thread is destroyed with a socket
\* before the server quits (createSocket(), destroySocket(), findMinimalSocketsThread()).
NoneStranded == \A s \in Socket : at[s] # None => at[s] \in threads \/ ~listening

Holds(m, b) == m.kind \in {"received", "release"} /\ m.buffer = b
Held(b) ==
  Cardinality({x \in UNION {{t} \X (1..Len(tasks[t])) : t \in Thread} : Holds(tasks[x[1]][x[2]], b)})
  + Cardinality({s \in Socket : partial[s] = b}) + (IF main.buffer = b THEN 1 ELSE 0)
\* A buffer counts against maxReadBuffers of an open socket exactly as long as it is being
\* received, is on its way to the users, with them, or on its way back; what Main is given
\* was not freed (readEvent(), releaseBuffer(), stateEvent()).
BufferHeldOnce ==
  /\ \A b \in Buffer : Held(b) <= 1
  /\ \A s \in Socket : \A b \in receiveList[s] : at[s] # None /\ Accepts(at[s]) => Held(b) = 1
  /\ \A m \in ToSet(tasks[Main]) : m.kind = "received" => m.buffer \in receiveList[m.of]

Settled ==
  /\ \A s \in Socket : life[s] \notin {"closed", "destroyed"}
  /\ \A t \in Worker : Emptied(t) => phase[t] = "deleted"
  /\ ~listening => \A t \in Worker : phase[t] \in {"none", "deleted"}
  /\ \A s \in Socket : life[s] = "open" => transmitList[s] = <<>>
\* Once no more connections come in, and those that are there rest: what was closed is
\* deleted, a thread without sockets too, after quit() every thread, and each answer that
\* an open connection accepted is written (destroySocket(), quit(), transmit()).
NothingStuck == <>[]Settled

\* DataArrayAbstractTcp.h: buffer cleanup is automated after the signal: a task that is
\* posted to a thread for a socket finds the socket.
AddressedIsAlive ==
  \A t \in Worker : tasks[t] # <<>> /\ Accepts(t) => life[Head(tasks[t]).of] # "deleted"
=============================================================================

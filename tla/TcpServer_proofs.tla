-------------------------- MODULE TcpServer_proofs --------------------------
(***************************************************************************)
(* Theorems about TcpServer, for every number of threads, connections and   *)
(* buffers, and any limits.  As long as the rules in MayAccept and MayEnd   *)
(* are kept, no connection is left with a thread that is destroyed; as long *)
(* as those in MayQuit and Quiet are kept too, what a task of Main is about *)
(* has not been deleted, and every buffer is accounted for in one place.    *)
(***************************************************************************)
EXTENDS TcpServer, SequenceTheorems, FiniteSetTheorems, TLAPS

USE ServerAssumption DEF ServerAssumption

(***************************************************************************)
(* The invariant of the first theorem.                                      *)
(***************************************************************************)
SocketKinds == {"create", "disconnect", "write", "destroySocket", "deleteSocket",
                "received", "transmit", "release"}
ThreadKinds == {"destroyThread", "deleteThread"}
TaskSet == [kind : ThreadKinds, of : Worker, buffer : {None}]
           \cup {m \in [kind : SocketKinds, of : Socket, buffer : Buffer \cup {None}] :
                   m.kind = "disconnect" => m.buffer = None}
Phases == {"none", "open", "told", "finished", "deleted"}
Lives == {"none", "incoming", "refused", "open", "closed", "destroyed", "deleted"}
Places == {"loop", "create", "handles", "transmits", "answered", "handled", "releases", "quits"}
MainSet == [pc : Places, thread : Worker \cup {None}, socket : Socket \cup {None},
            buffer : Buffer \cup {None}]

TypeInv ==
  /\ phase \in [Worker -> Phases] /\ threads \subseteq Worker
  /\ tasks \in [Thread -> Seq(TaskSet)] /\ listening \in BOOLEAN
  /\ main \in MainSet /\ (main.pc \notin {"loop", "quits"} => main.socket \in Socket)
  /\ main.pc = "releases" => main.thread \in Worker
  /\ life \in [Socket -> Lives] /\ at \in [Socket -> Worker \cup {None}]
  /\ partial \in [Socket -> Buffer \cup {None}]

\* The tasks Main waits for, and what it does meanwhile.
Waited == {"create", "transmit"}
Waits(kind) == IF kind = "create" THEN "create" ELSE "transmits"
Once(q) == \A i, j \in DOMAIN q : q[i].kind \in Waited /\ q[j].kind \in Waited => i = j

Strange(s) == life[s] \in {"none", "incoming"}
Doomed(t) == Task("destroyThread", t, None) \in ToSet(tasks[Main])

\* There is one such task at most, and it is of the thread that Main waits for.
WaitInv == \A t \in Worker :
  /\ Once(tasks[t])
  /\ \A m \in ToSet(tasks[t]) : m.kind \in Waited => main.pc = Waits(m.kind) /\ main.thread = t
  /\ \A m \in ToSet(tasks[t]) : m.kind = "create" => life[m.of] = "incoming"

\* A socket that is, or was, in a thread has no tasks in another one, and is not created again.
PlaceInv ==
  /\ \A s \in Socket : (life[s] = "open" => at[s] # None) /\ (at[s] # None => ~Strange(s))
  /\ \A t \in Thread : \A m \in ToSet(tasks[t]) :
       m.kind \in {"disconnect", "destroySocket", "deleteSocket"} => ~Strange(m.of)
  /\ \A t \in Worker : \A m \in ToSet(tasks[t]) :
       m.kind = "disconnect" => at[m.of] \in {t, None}

\* A thread that is to be destroyed has no socket and is given none.
DoomInv ==
  /\ \A t \in Worker : Doomed(t) => phase[t] # "none"
  /\ listening => \A t \in Worker : Doomed(t) => Sockets(t) = {} /\ ~Creating(t)

\* A thread that is given a socket is new, or has one that stays.
GiveInv ==
  listening => \A t \in Worker : Creating(t) => t \in threads /\ (Lasting(t) # {} \/ Sockets(t) = {})

ListInv ==
  /\ \A t \in threads : phase[t] # "none"
  /\ main.pc = "quits" => ~listening

IInv == TypeInv /\ WaitInv /\ PlaceInv /\ DoomInv /\ GiveInv /\ ListInv /\ NoneStranded

(***************************************************************************)
(* Queues.                                                                  *)
(***************************************************************************)
LEMMA Appending ==
  ASSUME NEW S, NEW q \in Seq(S), NEW m \in S
  PROVE  Append(q, m) \in Seq(S) /\ ToSet(Append(q, m)) = ToSet(q) \cup {m}
<1>1. Append(q, m) \in Seq(S) /\ Len(Append(q, m)) = Len(q) + 1 /\ Len(q) \in Nat
  OBVIOUS
<1>2. \A i \in 1..Len(q) : Append(q, m)[i] = q[i]
  OBVIOUS
<1>3. Append(q, m)[Len(q) + 1] = m
  OBVIOUS
<1>4. DOMAIN Append(q, m) = DOMAIN q \cup {Len(q) + 1} /\ DOMAIN q = 1..Len(q)
  BY <1>1
<1> QED BY <1>1, <1>2, <1>3, <1>4 DEF ToSet

LEMMA Removing ==
  ASSUME NEW S, NEW q \in Seq(S), q # <<>>
  PROVE  /\ Tail(q) \in Seq(S) /\ Head(q) \in S
         /\ Head(q) \in ToSet(q) /\ ToSet(Tail(q)) \subseteq ToSet(q)
<1>1. Tail(q) \in Seq(S) /\ Head(q) \in S /\ Len(Tail(q)) = Len(q) - 1 /\ Len(q) \in Nat \ {0}
  OBVIOUS
<1>2. \A i \in 1..Len(Tail(q)) : Tail(q)[i] = q[i + 1] /\ i + 1 \in 1..Len(q)
  BY <1>1
<1>3. Head(q) = q[1] /\ 1 \in 1..Len(q)
  BY <1>1
<1> QED BY <1>1, <1>2, <1>3 DEF ToSet

LEMMA OnceAppending ==
  ASSUME NEW q \in Seq(TaskSet), NEW m \in TaskSet, Once(q),
         m.kind \notin Waited \/ \A x \in ToSet(q) : x.kind \notin Waited
  PROVE  Once(Append(q, m))
<1>1. DOMAIN Append(q, m) = DOMAIN q \cup {Len(q) + 1} /\ DOMAIN q = 1..Len(q)
  OBVIOUS
<1>2. /\ \A i \in 1..Len(q) : Append(q, m)[i] = q[i]
      /\ Append(q, m)[Len(q) + 1] = m
  OBVIOUS
<1>3. \A i \in DOMAIN q : q[i] \in ToSet(q)
  BY DEF ToSet
<1> QED BY <1>1, <1>2, <1>3 DEF Once

LEMMA OnceRemoving ==
  ASSUME NEW q \in Seq(TaskSet), q # <<>>, Once(q)
  PROVE  /\ Once(Tail(q))
         /\ Head(q).kind \in Waited => \A x \in ToSet(Tail(q)) : x.kind \notin Waited
<1>1. /\ DOMAIN Tail(q) = 1..Len(Tail(q)) /\ DOMAIN q = 1..Len(q)
      /\ \A i \in 1..Len(Tail(q)) : /\ Tail(q)[i] = q[i + 1]
                                    /\ i + 1 \in 1..Len(q) /\ i \in Nat /\ i # 0
      /\ Head(q) = q[1] /\ 1 \in 1..Len(q)
  <2>1. Tail(q) \in Seq(TaskSet) /\ Len(Tail(q)) = Len(q) - 1 /\ Len(q) \in Nat \ {0}
    OBVIOUS
  <2> QED BY <2>1
<1>2. Once(Tail(q))
  BY <1>1 DEF Once
<1>3. ASSUME Head(q).kind \in Waited, NEW i \in DOMAIN Tail(q), Tail(q)[i].kind \in Waited
      PROVE  FALSE
  BY <1>1, <1>3 DEF Once
<1> QED BY <1>2, <1>3 DEF ToSet

LEMMA TasksOfQueues ==
  ASSUME TypeInv, NEW t \in Thread, NEW m \in ToSet(tasks[t])
  PROVE  /\ m \in TaskSet
         /\ m.kind \in SocketKinds => m.of \in Socket
         /\ m.kind \in ThreadKinds => m.of \in Worker /\ m.buffer = None
<1>1. tasks[t] \in Seq(TaskSet)
  BY DEF TypeInv
<1>2. PICK i \in DOMAIN tasks[t] : m = tasks[t][i]
  BY DEF ToSet
<1>3. m \in TaskSet
  BY <1>1, <1>2
<1> QED BY <1>3 DEF TaskSet, SocketKinds, ThreadKinds

(***************************************************************************)
(* Steps that give no socket to a thread, and post nothing the invariant    *)
(* speaks of, unless it is that a thread is to be destroyed.                *)
(***************************************************************************)
Harmless == {m \in TaskSet :
  /\ m.kind \notin Waited \cup {"disconnect", "destroyThread"}
  /\ m.kind \in {"destroySocket", "deleteSocket"} => ~Strange(m.of)}
Deaths == [kind : {"destroyThread"}, of : Worker, buffer : {None}]

LEMMA ShrinkStep ==
  ASSUME IInv, TypeInv',
         \A t \in Thread : ToSet(tasks'[t]) \subseteq ToSet(tasks[t]) \cup Harmless \cup Deaths,
         \A t \in Worker : Once(tasks'[t]),
         \A s \in Socket : /\ at'[s] \in {at[s], None}
                           /\ life'[s] = "open" => life[s] = "open" /\ at'[s] = at[s]
                           /\ life'[s] \in {"none", "incoming"} => Strange(s)
                           /\ life[s] = "incoming" => life'[s] = "incoming",
         threads' \subseteq threads, listening' => listening,
         listening' => \A t \in threads \ threads' : Sockets(t) = {} /\ ~Creating(t),
         \A t \in Worker : phase[t] # "none" => phase'[t] # "none",
         \A t \in Worker : Doomed(t)' /\ ~Doomed(t) =>
           phase[t] # "none" /\ (listening => Sockets(t)' = {} /\ ~Creating(t)),
         listening' => \A t \in Worker : Creating(t) /\ Lasting(t) # {} =>
           Lasting(t)' # {} \/ Sockets(t)' = {},
         main.pc \in {"create", "transmits"} => main' = main,
         main'.pc = "quits" => ~listening'
  PROVE  IInv'
<1>0. \A t \in Thread : \A m \in ToSet(tasks'[t]) :
        m.kind \in Waited \cup {"disconnect"} => m \in ToSet(tasks[t])
  BY DEF Harmless, Deaths, Waited
<1>1. \A t \in Worker : t \in Thread
  BY DEF Thread
<1>2. WaitInv'
  <2> SUFFICES ASSUME NEW t \in Worker, NEW m \in ToSet(tasks'[t]), m.kind \in Waited
               PROVE  /\ main'.pc = Waits(m.kind) /\ main'.thread = t
                      /\ m.kind = "create" => life'[m.of] = "incoming"
    BY DEF WaitInv, Waited
  <2>1. m \in ToSet(tasks[t])
    BY <1>0, <1>1
  <2>2. main.pc = Waits(m.kind) /\ main.thread = t /\ (m.kind = "create" => life[m.of] = "incoming")
    BY <2>1 DEF IInv, WaitInv
  <2>3. m.of \in Socket
    BY <1>1, <2>1, TasksOfQueues DEF IInv, SocketKinds, Waited
  <2> QED BY <2>2, <2>3 DEF Waits, Waited
<1>3. PlaceInv'
  <2>1. ASSUME NEW t \in Thread, NEW m \in ToSet(tasks'[t]),
               m.kind \in {"disconnect", "destroySocket", "deleteSocket"}
        PROVE  ~Strange(m.of) /\ m.of \in Socket
    <3>2. m.of \in Socket
      <4>1. CASE m \in ToSet(tasks[t])
        BY <2>1, <4>1, TasksOfQueues DEF IInv, SocketKinds
      <4>2. CASE m \in Harmless
        BY <2>1, <4>2 DEF Harmless, TaskSet, ThreadKinds
      <4>3. m \notin Deaths
        BY <2>1 DEF Deaths
      <4> QED BY <4>1, <4>2, <4>3
    <3>3. m \notin Deaths
      BY <2>1 DEF Deaths
    <3> QED BY <2>1, <3>2, <3>3 DEF IInv, PlaceInv, Harmless
  <2>2. \A t \in Thread : \A m \in ToSet(tasks'[t]) :
          m.kind \in {"disconnect", "destroySocket", "deleteSocket"} => ~Strange(m.of)'
    BY <2>1 DEF Strange
  <2>3. \A s \in Socket : (life'[s] = "open" => at'[s] # None) /\ (at'[s] # None => ~Strange(s)')
    BY DEF IInv, PlaceInv, Strange
  <2>4. \A t \in Worker : \A m \in ToSet(tasks'[t]) : m.kind = "disconnect" => at'[m.of] \in {t, None}
    <3>1. \A t \in Worker : \A m \in ToSet(tasks'[t]) :
            m.kind = "disconnect" => m \in ToSet(tasks[t]) /\ m.of \in Socket
      BY <1>0, <1>1, <2>1
    <3> QED BY <3>1 DEF IInv, PlaceInv
  <2> QED BY <2>2, <2>3, <2>4 DEF PlaceInv
<1>4. \A t \in Worker : Creating(t)' => Creating(t)
  BY <1>0, <1>1 DEF Creating, Waited
<1>5. \A t \in Worker : Sockets(t)' \subseteq Sockets(t)
  BY DEF Sockets
<1>6. DoomInv'
  BY <1>4, <1>5 DEF IInv, DoomInv
<1>7. GiveInv'
  BY <1>4, <1>5 DEF IInv, GiveInv
<1>8. ListInv' /\ NoneStranded'
  <2>1. \A s \in Socket : at'[s] # None => at'[s] = at[s]
    OBVIOUS
  <2> QED BY <2>1 DEF IInv, ListInv, NoneStranded, TypeInv, Sockets
<1> QED BY <1>2, <1>3, <1>6, <1>7, <1>8 DEF IInv

LEMMA HarmlessStep ==
  ASSUME IInv, TypeInv',
         \A t \in Thread : ToSet(tasks'[t]) \subseteq ToSet(tasks[t]) \cup Harmless,
         \A t \in Worker : Once(tasks'[t]),
         at' = at,
         \A s \in Socket : /\ life'[s] = "open" => life[s] = "open"
                           /\ life'[s] \in {"none", "incoming"} => Strange(s)
                           /\ life[s] = "incoming" => life'[s] = "incoming",
         threads' \subseteq threads, listening' => listening,
         listening' => \A t \in threads \ threads' : Sockets(t) = {} /\ ~Creating(t),
         \A t \in Worker : phase[t] # "none" => phase'[t] # "none",
         main.pc \in {"create", "transmits"} => main' = main,
         main'.pc = "quits" => ~listening'
  PROVE  IInv'
<1>0. \A t \in Thread : \A m \in ToSet(tasks'[t]) :
        m.kind \in {"disconnect", "destroyThread"} => m \in ToSet(tasks[t])
  BY DEF Harmless
<1>1. \A t \in Worker : t \in Thread
  BY DEF Thread
<1>2. \A t \in Worker : Doomed(t)' => Doomed(t)
  BY <1>0 DEF Doomed, Task, Thread
<1>3. \A t \in Worker : Lasting(t) \subseteq Lasting(t)'
  BY <1>0, <1>1 DEF Sockets, Lasting, Task
<1> QED BY <1>2, <1>3, ShrinkStep

\* What has to be known of the queue that a step changes.
HarmlessQueue(u, q) ==
  /\ q \in Seq(TaskSet) /\ Once(q) /\ ToSet(q) \subseteq ToSet(tasks[u]) \cup Harmless
HarmlessQueues ==
  /\ tasks' \in [Thread -> Seq(TaskSet)]
  /\ \A t \in Thread : ToSet(tasks'[t]) \subseteq ToSet(tasks[t]) \cup Harmless
  /\ \A t \in Worker : Once(tasks'[t])

LEMMA OneQueue ==
  ASSUME IInv, NEW u \in Thread, NEW q, tasks' = [tasks EXCEPT ![u] = q], HarmlessQueue(u, q)
  PROVE  HarmlessQueues
<1>1. tasks \in [Thread -> Seq(TaskSet)] /\ \A t \in Worker : t \in Thread /\ Once(tasks[t])
  BY DEF IInv, TypeInv, WaitInv, Thread
<1> QED BY <1>1 DEF HarmlessQueue, HarmlessQueues

LEMMA NoQueue ==
  ASSUME IInv, tasks' = tasks PROVE HarmlessQueues
BY DEF IInv, TypeInv, WaitInv, HarmlessQueues

LEMMA PostHarmless ==
  ASSUME IInv, NEW u \in Thread, NEW m \in Harmless, u \in Worker, Post(u, m)
  PROVE  HarmlessQueues
<1>1. tasks[u] \in Seq(TaskSet) /\ Once(tasks[u]) /\ m \in TaskSet /\ m.kind \notin Waited
  BY DEF IInv, TypeInv, WaitInv, Harmless
<1>2. HarmlessQueue(u, Append(tasks[u], m))
  BY <1>1, Appending, OnceAppending DEF HarmlessQueue
<1>3. tasks' = [tasks EXCEPT ![u] = Append(tasks[u], m)]
  BY DEF Post
<1> QED BY <1>2, <1>3, OneQueue

LEMMA PostHarmlessToMain ==
  ASSUME IInv, NEW m \in Harmless, Post(Main, m)
  PROVE  HarmlessQueues
<1>1. Main \in Thread /\ Main \notin Worker /\ m \in TaskSet
  BY DEF Thread, Harmless
<1>2. tasks \in [Thread -> Seq(TaskSet)] /\ \A t \in Worker : t \in Thread /\ Once(tasks[t])
  BY DEF IInv, TypeInv, WaitInv, Thread
<1>3. /\ Append(tasks[Main], m) \in Seq(TaskSet)
      /\ ToSet(Append(tasks[Main], m)) = ToSet(tasks[Main]) \cup {m}
  BY <1>1, <1>2, Appending
<1> QED BY <1>1, <1>2, <1>3 DEF Post, HarmlessQueues

LEMMA TakeOff ==
  ASSUME IInv, NEW u \in Thread, tasks[u] # <<>>
  PROVE  /\ Head(tasks[u]) \in TaskSet /\ Head(tasks[u]) \in ToSet(tasks[u])
         /\ Tail(tasks[u]) \in Seq(TaskSet) /\ ToSet(Tail(tasks[u])) \subseteq ToSet(tasks[u])
         /\ u \in Worker => Once(Tail(tasks[u]))
         /\ Head(tasks[u]).kind \in SocketKinds => Head(tasks[u]).of \in Socket
         /\ Head(tasks[u]).kind \in ThreadKinds => Head(tasks[u]).of \in Worker
<1>1. tasks[u] \in Seq(TaskSet)
  BY DEF IInv, TypeInv
<1>2. u \in Worker => Once(tasks[u])
  BY DEF IInv, WaitInv
<1>3. Head(tasks[u]) \in ToSet(tasks[u])
  BY <1>1, Removing
<1>4. TypeInv
  BY DEF IInv
<1> QED BY <1>1, <1>2, <1>3, <1>4, Removing, OnceRemoving, TasksOfQueues

LEMMA TakeHarmless ==
  ASSUME IInv, NEW u \in Thread, tasks[u] # <<>>, tasks' = Rest(u)
  PROVE  HarmlessQueues
<1>1. tasks \in [Thread -> Seq(TaskSet)] /\ \A t \in Worker : t \in Thread /\ Once(tasks[t])
  BY DEF IInv, TypeInv, WaitInv, Thread
<1> QED BY <1>1, TakeOff DEF Rest, HarmlessQueues

LEMMA QuietStep ==
  ASSUME IInv, TypeInv', HarmlessQueues, UNCHANGED <<phase, threads, listening, life, at>>,
         main' = main \/ (main.pc \notin {"create", "transmits"} /\ main'.pc # "quits")
  PROVE  IInv'
<1>1. \A s \in Socket : /\ life'[s] = "open" => life[s] = "open"
                        /\ life'[s] \in {"none", "incoming"} => Strange(s)
                        /\ life[s] = "incoming" => life'[s] = "incoming"
  BY DEF Strange
<1>2. main'.pc = "quits" => ~listening'
  BY DEF IInv, ListInv
<1>3. main.pc \in {"create", "transmits"} => main' = main
  OBVIOUS
<1> QED BY <1>1, <1>2, <1>3, HarmlessStep DEF HarmlessQueues

LEMMA ReadBeginsPreserves ==
  ASSUME IInv, NEW s \in Socket, NEW b \in Buffer, ReadBegins(s, b) PROVE IInv'
<1>1. HarmlessQueues
  BY NoQueue DEF ReadBegins
<1>2. UNCHANGED <<phase, threads, main, listening, life, at>>
  BY DEF ReadBegins, SocketStep
<1>3. TypeInv'
  BY <1>1, <1>2 DEF ReadBegins, IInv, TypeInv, HarmlessQueues
<1> QED BY <1>1, <1>2, <1>3, QuietStep

LEMMA ReadEndsPreserves ==
  ASSUME IInv, NEW s \in Socket, ReadEnds(s) PROVE IInv'
<1>1. HarmlessQueues
  <2>1. partial[s] \in Buffer
    BY DEF IInv, TypeInv, ReadEnds
  <2>3. Post(Main, Task("received", s, partial[s]))
    BY DEF ReadEnds
  <2>2. Task("received", s, partial[s]) \in Harmless
    BY <2>1 DEF Harmless, Task, TaskSet, SocketKinds, Waited
  <2> QED BY <2>2, <2>3, PostHarmlessToMain
<1>2. UNCHANGED <<phase, threads, main, listening, life, at>>
  BY DEF ReadEnds, SocketStep
<1>3. partial' = [partial EXCEPT ![s] = None]
  BY DEF ReadEnds
<1>4. TypeInv'
  BY <1>1, <1>2, <1>3 DEF IInv, TypeInv, HarmlessQueues
<1> QED BY <1>1, <1>2, <1>4, QuietStep

LEMMA RunReleasePreserves ==
  ASSUME IInv, NEW t \in Worker, RunRelease(t) PROVE IInv'
<1>1. HarmlessQueues
  BY TakeHarmless DEF RunRelease, Next1, Thread
<1>2. UNCHANGED <<phase, threads, main, listening, life, at, partial>>
  BY DEF RunRelease, SocketStep
<1>3. TypeInv'
  BY <1>1, <1>2 DEF IInv, TypeInv, HarmlessQueues
<1> QED BY <1>1, <1>2, <1>3, QuietStep

LEMMA RunWritePreserves ==
  ASSUME IInv, NEW t \in Worker, RunWrite(t) PROVE IInv'
<1>1. HarmlessQueues
  BY TakeHarmless DEF RunWrite, Next1, Thread
<1>2. UNCHANGED <<phase, threads, main, listening, life, at, partial>>
  BY DEF RunWrite, SocketStep, readVars
<1>3. TypeInv'
  BY <1>1, <1>2 DEF IInv, TypeInv, HarmlessQueues
<1> QED BY <1>1, <1>2, <1>3, QuietStep

LEMMA RunReceivedPreserves ==
  ASSUME IInv, RunReceived PROVE IInv'
<1>1. HarmlessQueues
  BY TakeHarmless DEF RunReceived, MainRuns, Next1, Thread
<1>2. UNCHANGED <<phase, threads, listening, life, at, partial>>
  BY DEF RunReceived, socketVars, readVars
<1>3. main.pc = "loop" /\ main'.pc = "handles"
  BY DEF RunReceived, MainRuns, Idle, Doing
<1>4. TypeInv'
  <2>1. Head(tasks[Main]) \in TaskSet /\ Head(tasks[Main]).of \in Socket
    BY TakeOff DEF RunReceived, MainRuns, Next1, Thread, SocketKinds
  <2>2. Head(tasks[Main]).buffer \in Buffer \cup {None}
    BY <2>1 DEF TaskSet
  <2> QED BY <1>1, <1>2, <2>1, <2>2 DEF RunReceived, Doing, MainSet, Places, IInv, TypeInv, HarmlessQueues
<1> QED BY <1>1, <1>2, <1>3, <1>4, QuietStep

LEMMA ReleaseBufferPreserves ==
  ASSUME IInv, ReleaseBuffer PROVE IInv'
<1>1. HarmlessQueues
  BY NoQueue DEF ReleaseBuffer
<1>2. UNCHANGED <<phase, threads, listening, life, at, partial>>
  BY DEF ReleaseBuffer, socketVars, readVars
<1>3. main.pc \in {"handles", "answered", "handled"} /\ main'.pc \in {"loop", "releases"}
  BY DEF ReleaseBuffer, Idle, Doing
<1>4. TypeInv'
  BY <1>1, <1>2 DEF ReleaseBuffer, Idle, Doing, MainSet, Places, IInv, TypeInv, HarmlessQueues
<1> QED BY <1>1, <1>2, <1>3, <1>4, QuietStep

LEMMA PostReleasePreserves ==
  ASSUME IInv, PostRelease PROVE IInv'
<1>1. HarmlessQueues
  <2>1. main.thread \in Worker /\ main.socket \in Socket /\ main.buffer \in Buffer \cup {None}
    BY DEF PostRelease, IInv, TypeInv, MainSet
  <2>2. Task("release", main.socket, main.buffer) \in Harmless
    BY <2>1 DEF Harmless, Task, TaskSet, SocketKinds, Waited
  <2> QED BY <2>1, <2>2, PostHarmless, NoQueue DEF PostRelease, Thread
<1>2. UNCHANGED <<phase, threads, listening, life, at, partial>>
  BY DEF PostRelease, socketVars, readVars
<1>3. main.pc = "releases" /\ main'.pc = "loop"
  BY DEF PostRelease, Idle, Doing
<1>4. TypeInv'
  BY <1>1, <1>2 DEF PostRelease, Idle, Doing, MainSet, Places, IInv, TypeInv, HarmlessQueues
<1> QED BY <1>1, <1>2, <1>3, <1>4, QuietStep

LEMMA FinishPreserves ==
  ASSUME IInv, NEW t \in Worker, Finish(t) PROVE IInv'
<1>1. HarmlessQueues
  BY NoQueue DEF Finish
<1>2. UNCHANGED <<threads, main, listening, life, at, partial>>
  BY DEF Finish, socketVars, readVars
<1>3. TypeInv' /\ \A u \in Worker : phase[u] # "none" => phase'[u] # "none"
  BY <1>1, <1>2 DEF Finish, Phases, IInv, TypeInv, HarmlessQueues
<1>4. main'.pc = "quits" => ~listening'
  BY <1>2 DEF IInv, ListInv
<1> QED BY <1>1, <1>2, <1>3, <1>4, HarmlessStep DEF HarmlessQueues, Strange

LEMMA IncomingRefusedPreserves ==
  ASSUME IInv, NEW s \in Socket, IncomingRefused(s) PROVE IInv'
<1>1. HarmlessQueues
  BY NoQueue DEF IncomingRefused
<1>2. UNCHANGED <<phase, threads, main, listening, at, partial>>
  BY DEF IncomingRefused, readVars
<1>3. life[s] = "none" /\ life' = [life EXCEPT ![s] = "refused"]
  BY DEF IncomingRefused, Comes, AnyOf, Strangers
<1>4. TypeInv'
  BY <1>1, <1>2, <1>3 DEF Lives, IInv, TypeInv, HarmlessQueues
<1>5. main'.pc = "quits" => ~listening'
  BY <1>2 DEF IInv, ListInv
<1>6. \A u \in Socket : /\ life'[u] = "open" => life[u] = "open"
                        /\ life'[u] \in {"none", "incoming"} => Strange(u)
                        /\ life[u] = "incoming" => life'[u] = "incoming"
  BY <1>3 DEF IInv, TypeInv, Strange
<1> QED BY <1>1, <1>2, <1>4, <1>5, <1>6, HarmlessStep DEF HarmlessQueues

LEMMA QuitPreserves ==
  ASSUME IInv, Quit PROVE IInv'
<1>1. HarmlessQueues
  BY NoQueue DEF Quit
<1>2. UNCHANGED <<phase, threads, life, at, partial>> /\ ~listening'
  BY DEF Quit, socketVars, readVars
<1>3. main.pc = "loop"
  BY DEF Quit, Idle, Doing
<1>4. TypeInv'
  BY <1>1, <1>2 DEF Quit, Doing, MainSet, Places, IInv, TypeInv, HarmlessQueues
<1> QED BY <1>1, <1>2, <1>3, <1>4, HarmlessStep DEF HarmlessQueues, Strange

LEMMA QuitEndsPreserves ==
  ASSUME IInv, QuitEnds PROVE IInv'
<1>1. HarmlessQueues
  BY NoQueue DEF QuitEnds
<1>2. UNCHANGED <<phase, threads, listening, life, at, partial>>
  BY DEF QuitEnds, socketVars, readVars
<1>3. main.pc = "quits" /\ main'.pc = "loop"
  BY DEF QuitEnds, Idle, Doing
<1>4. TypeInv'
  BY <1>1, <1>2 DEF QuitEnds, Idle, Doing, MainSet, Places, IInv, TypeInv, HarmlessQueues
<1> QED BY <1>1, <1>2, <1>3, <1>4, QuietStep

LEMMA TakeAndPostToMain ==
  ASSUME IInv, tasks[Main] # <<>>, NEW m \in Harmless,
         tasks' = [tasks EXCEPT ![Main] = Append(Tail(@), m)]
  PROVE  HarmlessQueues
<1>1. Main \in Thread /\ Main \notin Worker /\ m \in TaskSet
  BY DEF Thread, Harmless
<1>2. tasks \in [Thread -> Seq(TaskSet)] /\ \A t \in Worker : t \in Thread /\ Once(tasks[t])
  BY DEF IInv, TypeInv, WaitInv, Thread
<1>3. Tail(tasks[Main]) \in Seq(TaskSet) /\ ToSet(Tail(tasks[Main])) \subseteq ToSet(tasks[Main])
  BY <1>1, TakeOff
<1>4. \A q \in Seq(TaskSet) :
        Append(q, m) \in Seq(TaskSet) /\ ToSet(Append(q, m)) = ToSet(q) \cup {m}
  BY <1>1, Appending
<1>5. /\ Append(Tail(tasks[Main]), m) \in Seq(TaskSet)
      /\ ToSet(Append(Tail(tasks[Main]), m)) \subseteq ToSet(tasks[Main]) \cup {m}
  BY <1>3, <1>4
<1> QED BY <1>1, <1>2, <1>5 DEF HarmlessQueues

LEMMA RunDestroySocketPreserves ==
  ASSUME IInv, RunDestroySocket PROVE IInv'
<1> DEFINE s == Head(tasks[Main]).of
<1>1. tasks[Main] # <<>> /\ Head(tasks[Main]).kind = "destroySocket" /\ main.pc = "loop"
  BY DEF RunDestroySocket, MainRuns, Next1, Idle, Doing
<1>2. s \in Socket /\ Head(tasks[Main]) \in ToSet(tasks[Main])
  BY <1>1, TakeOff DEF Thread, SocketKinds
<1>3. ~Strange(s)
  BY <1>1, <1>2 DEF IInv, PlaceInv, Thread
<1>4. HarmlessQueues
  <2>1. Task("deleteSocket", s, None) \in Harmless
    BY <1>2, <1>3 DEF Harmless, Task, TaskSet, SocketKinds, Waited
  <2> QED BY <1>1, <2>1, TakeAndPostToMain DEF RunDestroySocket
<1>5. UNCHANGED <<phase, threads, main, listening, at, partial>>
      /\ life' = [life EXCEPT ![s] = "destroyed"]
  BY DEF RunDestroySocket, readVars
<1>6. TypeInv'
  BY <1>4, <1>5 DEF Lives, IInv, TypeInv, HarmlessQueues
<1>7. \A u \in Socket : /\ life'[u] = "open" => life[u] = "open"
                        /\ life'[u] \in {"none", "incoming"} => Strange(u)
                        /\ life[u] = "incoming" => life'[u] = "incoming"
  BY <1>2, <1>3, <1>5 DEF IInv, TypeInv, Strange
<1> QED BY <1>1, <1>4, <1>5, <1>6, <1>7, HarmlessStep DEF HarmlessQueues

LEMMA RunDeleteSocketPreserves ==
  ASSUME IInv, RunDeleteSocket PROVE IInv'
<1> DEFINE s == Head(tasks[Main]).of
<1>1. tasks[Main] # <<>> /\ Head(tasks[Main]).kind = "deleteSocket" /\ main.pc = "loop"
  BY DEF RunDeleteSocket, MainRuns, Next1, Idle, Doing
<1>2. s \in Socket /\ Head(tasks[Main]) \in ToSet(tasks[Main])
  BY <1>1, TakeOff DEF Thread, SocketKinds
<1>3. ~Strange(s)
  BY <1>1, <1>2 DEF IInv, PlaceInv, Thread
<1>4. HarmlessQueues
  BY <1>1, TakeHarmless DEF RunDeleteSocket, Thread
<1>5. UNCHANGED <<phase, threads, main, listening, at, partial>>
      /\ life' = [life EXCEPT ![s] = "deleted"]
  BY DEF RunDeleteSocket
<1>6. TypeInv'
  BY <1>4, <1>5 DEF Lives, IInv, TypeInv, HarmlessQueues
<1>7. \A u \in Socket : /\ life'[u] = "open" => life[u] = "open"
                        /\ life'[u] \in {"none", "incoming"} => Strange(u)
                        /\ life[u] = "incoming" => life'[u] = "incoming"
  BY <1>2, <1>3, <1>5 DEF IInv, TypeInv, Strange
<1> QED BY <1>1, <1>4, <1>5, <1>6, <1>7, HarmlessStep DEF HarmlessQueues

(***************************************************************************)
(* The end of a thread: Main has found it without sockets, or quits.        *)
(***************************************************************************)
LEMMA DestroyThreadPreserves ==
  ASSUME IInv, NEW t \in Worker, NEW q \in Seq(TaskSet),
         main.pc \notin {"create", "transmits"}, UNCHANGED <<main, listening, socketVars>>,
         ToSet(q) \subseteq ToSet(tasks[Main]),
         DestroyThread(t, [tasks EXCEPT ![Main] = q]),
         listening => Sockets(t) = {} /\ ~Creating(t)
  PROVE  IInv'
<1> DEFINE m == Task("deleteThread", t, None)
<1>1. m \in Harmless
  BY DEF Harmless, Task, TaskSet, ThreadKinds, Waited
<1>2. HarmlessQueues
  <2>1. Main \in Thread /\ Main \notin Worker /\ m \in TaskSet
    BY <1>1 DEF Thread, Harmless
  <2>2. tasks \in [Thread -> Seq(TaskSet)] /\ \A u \in Worker : u \in Thread /\ Once(tasks[u])
    BY DEF IInv, TypeInv, WaitInv, Thread
  <2>3. Append(q, m) \in Seq(TaskSet) /\ ToSet(Append(q, m)) = ToSet(q) \cup {m}
    BY <2>1, Appending
  <2>4. tasks' = [tasks EXCEPT ![Main] = Append(q, m)]
    BY <2>1, <2>2 DEF DestroyThread
  <2> QED BY <1>1, <2>1, <2>2, <2>3, <2>4 DEF HarmlessQueues
<1>3. UNCHANGED <<life, at, partial>>
  BY DEF socketVars, readVars
<1>4. /\ threads' = threads \ {t}
      /\ phase' = [phase EXCEPT ![t] = IF @ = "open" THEN "told" ELSE @]
  BY DEF DestroyThread
<1>5. TypeInv' /\ \A u \in Worker : phase[u] # "none" => phase'[u] # "none"
  BY <1>2, <1>3, <1>4 DEF Phases, IInv, TypeInv, HarmlessQueues
<1>6. main'.pc = "quits" => ~listening'
  BY DEF IInv, ListInv
<1> QED BY <1>2, <1>3, <1>4, <1>5, <1>6, HarmlessStep DEF HarmlessQueues, Strange

LEMMA QuitNextPreserves ==
  ASSUME IInv, NEW t \in Worker, QuitNext(t) PROVE IInv'
<1>1. tasks \in [Thread -> Seq(TaskSet)] /\ Main \in Thread
  BY DEF IInv, TypeInv, Thread
<1>2. tasks = [tasks EXCEPT ![Main] = tasks[Main]] /\ tasks[Main] \in Seq(TaskSet)
  BY <1>1
<1>3. ~listening /\ main.pc = "quits"
  BY DEF QuitNext, IInv, ListInv
<1>4. UNCHANGED <<main, listening, socketVars>> /\ DestroyThread(t, tasks)
  BY DEF QuitNext
<1> QED BY <1>2, <1>3, <1>4, DestroyThreadPreserves

LEMMA RunDestroyThreadPreserves ==
  ASSUME IInv, RunDestroyThread PROVE IInv'
<1> DEFINE m == Head(tasks[Main])
<1>1. tasks[Main] # <<>> /\ m.kind = "destroyThread" /\ main.pc = "loop"
  BY DEF RunDestroyThread, MainRuns, Next1, Idle, Doing
<1>2. /\ m \in TaskSet /\ m \in ToSet(tasks[Main]) /\ m.of \in Worker
      /\ Tail(tasks[Main]) \in Seq(TaskSet) /\ ToSet(Tail(tasks[Main])) \subseteq ToSet(tasks[Main])
  BY <1>1, TakeOff DEF Thread, ThreadKinds
<1>3. m = Task("destroyThread", m.of, None)
  BY <1>1, <1>2 DEF TaskSet, Task, SocketKinds
<1>4. listening => Sockets(m.of) = {} /\ ~Creating(m.of)
  BY <1>2, <1>3 DEF IInv, DoomInv, Doomed
<1>5. UNCHANGED <<main, listening, socketVars>>
      /\ DestroyThread(m.of, [tasks EXCEPT ![Main] = Tail(tasks[Main])])
  BY DEF RunDestroyThread, Rest
<1> QED BY <1>1, <1>2, <1>4, <1>5, DestroyThreadPreserves

LEMMA RunDeleteThreadPreserves ==
  ASSUME IInv, RunDeleteThread PROVE IInv'
<1>1. tasks[Main] # <<>> /\ Head(tasks[Main]).kind = "deleteThread" /\ main.pc = "loop"
  BY DEF RunDeleteThread, MainRuns, Next1, Idle, Doing
<1>2. PICK t \in Worker : t = Head(tasks[Main]).of
  BY <1>1, TakeOff DEF Thread, ThreadKinds
<1>3. HarmlessQueues
  BY <1>1, TakeHarmless DEF RunDeleteThread, Thread
<1>4. /\ phase' = [phase EXCEPT ![t] = "deleted"]
      /\ life' = [s \in Socket |-> IF at[s] = t THEN "deleted" ELSE life[s]]
      /\ partial' = [s \in Socket |-> IF at[s] = t THEN None ELSE partial[s]]
      /\ at' = [s \in Socket |-> IF at[s] = t THEN None ELSE at[s]]
      /\ UNCHANGED <<threads, main, listening>>
  BY <1>2 DEF RunDeleteThread
<1>5. TypeInv'
  BY <1>2, <1>3, <1>4 DEF Phases, Lives, IInv, TypeInv, HarmlessQueues
<1>6. \A s \in Socket : at[s] # None => ~Strange(s)
  BY DEF IInv, PlaceInv
<1>7. \A s \in Socket : /\ at'[s] \in {at[s], None}
                        /\ life'[s] = "open" => life[s] = "open" /\ at'[s] = at[s]
                        /\ life'[s] \in {"none", "incoming"} => Strange(s)
                        /\ life[s] = "incoming" => life'[s] = "incoming"
  BY <1>2, <1>4, <1>6 DEF Strange
<1>8. \A u \in Worker : phase[u] # "none" => phase'[u] # "none"
  BY <1>4 DEF IInv, TypeInv
<1>9. \A u \in Thread : \A m \in ToSet(tasks'[u]) :
        m.kind \in {"disconnect", "destroyThread"} => m \in ToSet(tasks[u])
  BY <1>3 DEF Harmless, HarmlessQueues
<1>10. \A u \in Worker : Doomed(u)' => Doomed(u)
  BY <1>9 DEF Doomed, Task, Thread
<1>11. \A u \in Worker : IF u = t THEN Sockets(u)' = {} ELSE Lasting(u) \subseteq Lasting(u)'
  <2>1. ASSUME NEW u \in Worker, u # t, NEW s \in Lasting(u) PROVE s \in Lasting(u)'
    <3>1. u \in Thread /\ s \in Socket /\ at[s] = u
      BY <2>1 DEF Thread, Lasting, Sockets
    <3>2. at'[s] = u
      BY <1>4, <2>1, <3>1
    <3> QED BY <1>9, <3>1, <3>2 DEF Lasting, Sockets, Task
  <2>2. \A s \in Socket : at'[s] # t
    BY <1>2, <1>4
  <2>3. {s \in Socket : at'[s] = t} = {}
    BY <2>2
  <2>4. Sockets(t)' = {}
    BY <2>3 DEF Sockets
  <2> QED BY <2>1, <2>4
<1>12. main'.pc = "quits" => ~listening'
  BY <1>4 DEF IInv, ListInv
<1> QED
  BY <1>1, <1>3, <1>4, <1>5, <1>7, <1>8, <1>10, <1>11, <1>12, ShrinkStep DEF HarmlessQueues

(***************************************************************************)
(* The end of a connection.                                                 *)
(***************************************************************************)
LEMMA Concatenating ==
  ASSUME NEW S, NEW q \in Seq(S), NEW m \in S
  PROVE  q \o <<m>> = Append(q, m) /\ q \o <<>> = q
OBVIOUS

LEMMA ClosePreserves ==
  ASSUME IInv, NEW s \in Socket, life[s] = "open", Accepts(at[s]),
         NEW queues \in [Thread -> Seq(TaskSet)],
         \A t \in Thread : ToSet(queues[t]) \subseteq ToSet(tasks[t]),
         \A t \in Worker : Once(queues[t]),
         Close(s, queues), SocketStep,
         listening /\ Creating(at[s]) => Lasting(at[s]) \ {s} # {}
  PROVE  IInv'
<1>1. PICK t \in Worker : t = at[s]
  BY DEF IInv, TypeInv, PlaceInv
<1>2. /\ life' = [life EXCEPT ![s] = "closed"] /\ at' = [at EXCEPT ![s] = None]
      /\ partial' = [partial EXCEPT ![s] = None]
      /\ UNCHANGED <<phase, threads, main, listening>>
  BY DEF Close, SocketStep
<1> DEFINE d == Task("destroySocket", s, None)
           g == Task("destroyThread", t, None)
<1>3. d \in Harmless /\ d \in TaskSet /\ g \in Deaths /\ g \in TaskSet
  BY DEF Harmless, Deaths, Task, TaskSet, SocketKinds, ThreadKinds, Waited, Strange
<1>4. Main \in Thread /\ Main \notin Worker /\ \A u \in Worker : u \in Thread
  BY DEF Thread
<1>5. PICK q \in Seq(TaskSet) :
        /\ tasks' = [queues EXCEPT ![Main] = q]
        /\ \/ ToSet(q) = ToSet(queues[Main]) \cup {d}
           \/ ToSet(q) = ToSet(queues[Main]) \cup {g, d} /\ Sockets(t) = {s}
  <2> DEFINE o == queues[Main]
  <2>1. o \in Seq(TaskSet)
    BY <1>4
  <2>2. tasks' = [queues EXCEPT ![Main] = o \o LastOne(s) \o <<d>>]
    BY DEF Close
  <2>3. CASE Sockets(t) = {s}
    <3>1. LastOne(s) = <<g>>
      BY <1>1, <2>3 DEF LastOne
    <3>2. o \o <<g>> = Append(o, g) /\ Append(o, g) \in Seq(TaskSet)
          /\ ToSet(Append(o, g)) = ToSet(o) \cup {g}
      BY <1>3, <2>1, Concatenating, Appending
    <3>3. \A p \in Seq(TaskSet) : p \o <<d>> = Append(p, d) /\ Append(p, d) \in Seq(TaskSet)
                                  /\ ToSet(Append(p, d)) = ToSet(p) \cup {d}
      BY <1>3, Concatenating, Appending
    <3>4. PICK p \in Seq(TaskSet) : p = o \o <<g>> /\ ToSet(p) = ToSet(o) \cup {g}
      BY <3>2
    <3>5. tasks' = [queues EXCEPT ![Main] = Append(p, d)]
      BY <2>2, <3>1, <3>3, <3>4
    <3>6. Append(p, d) \in Seq(TaskSet) /\ ToSet(Append(p, d)) = ToSet(queues[Main]) \cup {g, d}
      BY <3>3, <3>4
    <3> QED BY <2>3, <3>5, <3>6
  <2>4. CASE Sockets(t) # {s}
    <3>1. LastOne(s) = <<>>
      BY <1>1, <2>4 DEF LastOne
    <3>2. o \o <<>> = o
      BY <1>3, <2>1, Concatenating
    <3>3. o \o <<d>> = Append(o, d) /\ Append(o, d) \in Seq(TaskSet)
          /\ ToSet(Append(o, d)) = ToSet(o) \cup {d}
      BY <1>3, <2>1, Concatenating, Appending
    <3> QED BY <2>2, <2>4, <3>1, <3>2, <3>3
  <2> QED BY <2>3, <2>4
<1>6. /\ tasks' \in [Thread -> Seq(TaskSet)]
      /\ tasks'[Main] = q /\ \A u \in Worker : tasks'[u] = queues[u]
  BY <1>4, <1>5
<1>7. TypeInv'
  BY <1>2, <1>6 DEF Lives, IInv, TypeInv
<1>8. \A u \in Thread : ToSet(tasks'[u]) \subseteq ToSet(tasks[u]) \cup Harmless \cup Deaths
  BY <1>3, <1>4, <1>5, <1>6 DEF Thread
<1>9. \A x \in Socket : /\ at'[x] \in {at[x], None}
                        /\ life'[x] = "open" => life[x] = "open" /\ at'[x] = at[x]
                        /\ life'[x] \in {"none", "incoming"} => Strange(x)
                        /\ life[x] = "incoming" => life'[x] = "incoming"
  BY <1>2 DEF IInv, TypeInv, Strange
<1>10. \A u \in Worker : Sockets(u)' \subseteq Sockets(u) \ {s} /\ Lasting(u) \ {s} \subseteq Lasting(u)'
  <2>1. \A u \in Worker : ToSet(tasks'[u]) \subseteq ToSet(tasks[u])
    BY <1>4, <1>6
  <2>2. \A x \in Socket : x # s => at'[x] = at[x]
    BY <1>2
  <2>3. at'[s] = None
    BY <1>2 DEF IInv, TypeInv
  <2> QED BY <2>1, <2>2, <2>3 DEF Sockets, Lasting
<1>11. \A u \in Worker : Doomed(u)' /\ ~Doomed(u) =>
         phase[u] # "none" /\ (listening => Sockets(u)' = {} /\ ~Creating(u))
  <2> SUFFICES ASSUME NEW u \in Worker, Doomed(u)', ~Doomed(u)
               PROVE  phase[u] # "none" /\ (listening => Sockets(u)' = {} /\ ~Creating(u))
    OBVIOUS
  <2>1. Task("destroyThread", u, None) = g /\ Sockets(t) = {s}
    BY <1>4, <1>5, <1>6 DEF Doomed, Task
  <2>2. u = t
    BY <2>1 DEF Task
  <2>3. Lasting(t) \subseteq Sockets(t)
    BY DEF Lasting
  <2> QED BY <1>1, <1>10, <2>1, <2>2, <2>3 DEF Accepts
<1>12. listening' => \A u \in Worker : Creating(u) /\ Lasting(u) # {} => Lasting(u)' # {} \/ Sockets(u)' = {}
  <2>1. \A u \in Worker : s \in Lasting(u) => u = t
    BY <1>1 DEF Lasting, Sockets
  <2> QED BY <1>1, <1>2, <1>10, <2>1
<1>13. main'.pc = "quits" => ~listening'
  BY <1>2 DEF IInv, ListInv
<1> QED BY <1>2, <1>6, <1>7, <1>8, <1>9, <1>11, <1>12, <1>13, ShrinkStep

LEMMA ConnectionEndsPreserves ==
  ASSUME IInv, NEW s \in Socket, "acceptAtEnd" \notin Calls,
         ConnectionEnds(s) \/ ReadOverflows(s)
  PROVE  IInv'
<1>1. /\ life[s] = "open" /\ Accepts(at[s]) /\ Close(s, tasks) /\ SocketStep
      /\ Creating(at[s]) => Lasting(at[s]) \ {s} # {}
  BY DEF ConnectionEnds, ReadOverflows, Event, MayEnd
<1>2. tasks \in [Thread -> Seq(TaskSet)] /\ \A t \in Worker : Once(tasks[t])
  BY DEF IInv, TypeInv, WaitInv
<1> QED BY <1>1, <1>2, ClosePreserves

LEMMA RunDisconnectPreserves ==
  ASSUME IInv, NEW t \in Worker, RunDisconnect(t) PROVE IInv'
<1> DEFINE m == Head(tasks[t])
<1>1. tasks[t] # <<>> /\ m.kind = "disconnect" /\ Accepts(t) /\ t \in Thread
  BY DEF RunDisconnect, Next1, Thread
<1>2. PICK s \in Socket : s = m.of
  BY <1>1, TakeOff DEF SocketKinds
<1>3. m \in ToSet(tasks[t])
  BY <1>1, TakeOff
<1>4. CASE life[s] = "open"
  <2>1. at[s] = t
    BY <1>1, <1>2, <1>3, <1>4 DEF IInv, PlaceInv
  <2>2. Close(s, Rest(t)) /\ SocketStep
    BY <1>2, <1>4 DEF RunDisconnect
  <2>3. s \notin Lasting(t)
    <3>1. m \in TaskSet
      BY <1>1, TakeOff
    <3>2. m = Task("disconnect", s, None)
      BY <1>1, <1>2, <3>1 DEF TaskSet, Task, SocketKinds, ThreadKinds
    <3> QED BY <1>3, <3>2 DEF Lasting
  <2>4. listening /\ Creating(t) => Lasting(t) \ {s} # {}
    BY <2>1, <2>3 DEF IInv, GiveInv, Sockets
  <2>5. /\ Rest(t) \in [Thread -> Seq(TaskSet)]
        /\ \A u \in Thread : ToSet(Rest(t)[u]) \subseteq ToSet(tasks[u])
        /\ \A u \in Worker : Once(Rest(t)[u])
    <3>1. tasks \in [Thread -> Seq(TaskSet)] /\ \A u \in Worker : u \in Thread /\ Once(tasks[u])
      BY DEF IInv, TypeInv, WaitInv, Thread
    <3> QED BY <1>1, <3>1, TakeOff DEF Rest
  <2> QED BY <1>1, <1>4, <2>1, <2>2, <2>4, <2>5, ClosePreserves
<1>5. CASE life[s] # "open"
  <2>1. tasks' = Rest(t) /\ UNCHANGED <<phase, threads, main, listening, life, at, partial>>
    BY <1>2, <1>5 DEF RunDisconnect, SocketStep
  <2>2. HarmlessQueues
    BY <1>1, <2>1, TakeHarmless
  <2>3. TypeInv'
    BY <2>1, <2>2 DEF IInv, TypeInv, HarmlessQueues
  <2> QED BY <2>1, <2>2, <2>3, QuietStep
<1> QED BY <1>4, <1>5

(***************************************************************************)
(* A connection comes in and is given to a thread.                          *)
(***************************************************************************)
LEMMA NothingWaited ==
  ASSUME IInv, NEW t \in Worker, main.pc \notin {"create", "transmits"} \/ main.thread # t
  PROVE  /\ tasks[t] \in Seq(TaskSet) /\ Once(tasks[t]) /\ ~Creating(t)
         /\ \A m \in ToSet(tasks[t]) : m.kind \notin Waited
<1>1. tasks[t] \in Seq(TaskSet) /\ Once(tasks[t])
  BY DEF IInv, TypeInv, WaitInv, Thread
<1>2. \A m \in ToSet(tasks[t]) : m.kind \notin Waited
  BY DEF IInv, WaitInv, Waits
<1> QED BY <1>1, <1>2 DEF Creating, Waited

LEMMA HandPreserves ==
  ASSUME IInv, NEW s \in Socket, NEW t \in Worker, main.pc = "loop", listening,
         life[s] = "none", Hand(s, t), threads' = threads \cup {t},
         phase' \in [Worker -> Phases], phase'[t] # "none",
         \A u \in Worker : phase[u] # "none" => phase'[u] # "none",
         ~Doomed(t), Lasting(t) # {} \/ Sockets(t) = {}
  PROVE  IInv'
<1> DEFINE c == Task("create", s, None)
<1>1. /\ tasks' = [tasks EXCEPT ![t] = Append(tasks[t], c)] /\ main' = Doing("create", t, s, None)
      /\ life' = [life EXCEPT ![s] = "incoming"] /\ UNCHANGED <<listening, at, partial>>
  BY DEF Hand, Post, readVars
<1>2. t \in Thread /\ Main \in Thread /\ Main \notin Worker /\ \A u \in Worker : u \in Thread
  BY DEF Thread
<1>3. c \in TaskSet /\ c.kind = "create" /\ c.of = s
  BY DEF Task, TaskSet, SocketKinds
<1>4. \A u \in Worker : /\ tasks[u] \in Seq(TaskSet) /\ Once(tasks[u]) /\ ~Creating(u)
                        /\ \A m \in ToSet(tasks[u]) : m.kind \notin Waited
  BY NothingWaited
<1>5. PICK q \in Seq(TaskSet) : /\ tasks' = [tasks EXCEPT ![t] = q]
                                /\ ToSet(q) = ToSet(tasks[t]) \cup {c} /\ Once(q)
  BY <1>1, <1>3, <1>4, Appending, OnceAppending
<1>6. /\ tasks' \in [Thread -> Seq(TaskSet)] /\ tasks'[t] = q
      /\ \A u \in Thread : u # t => tasks'[u] = tasks[u]
  BY <1>2, <1>5 DEF IInv, TypeInv
<1>7. TypeInv'
  BY <1>1, <1>6 DEF Doing, MainSet, Places, Lives, IInv, TypeInv
<1>8. WaitInv'
  <2>1. \A u \in Worker : Once(tasks'[u])
    BY <1>2, <1>4, <1>5, <1>6
  <2>2. \A u \in Worker : \A m \in ToSet(tasks'[u]) : m.kind \in Waited => m = c /\ u = t
    BY <1>2, <1>4, <1>5, <1>6
  <2>3. main'.pc = "create" /\ main'.thread = t /\ life'[s] = "incoming"
    BY <1>1 DEF Doing, IInv, TypeInv
  <2>4. \A u \in Worker : \A m \in ToSet(tasks'[u]) : m.kind = "create" => m.kind \in Waited
    BY DEF Waited
  <2> QED BY <1>3, <2>1, <2>2, <2>3, <2>4 DEF WaitInv, Waits
<1>9. \A u \in Thread : \A m \in ToSet(tasks'[u]) :
        m.kind \in {"disconnect", "destroySocket", "deleteSocket"} => m \in ToSet(tasks[u])
  BY <1>3, <1>5, <1>6
<1>10. \A x \in Socket : (x # s => life'[x] = life[x]) /\ life'[s] = "incoming" /\ at'[x] = at[x]
  BY <1>1 DEF IInv, TypeInv
<1>11. PlaceInv'
  <2>1. \A x \in Socket : (life'[x] = "open" => at'[x] # None) /\ (at'[x] # None => ~Strange(x)')
    BY <1>10 DEF IInv, PlaceInv, Strange
  <2>2. ASSUME NEW u \in Thread, NEW m \in ToSet(tasks'[u]),
               m.kind \in {"disconnect", "destroySocket", "deleteSocket"}
        PROVE  /\ ~Strange(m.of)' /\ m \in ToSet(tasks[u])
               /\ u \in Worker /\ m.kind = "disconnect" => at'[m.of] \in {u, None}
    <3>1. m \in ToSet(tasks[u]) /\ m.of \in Socket
      BY <1>9, <2>2, TasksOfQueues DEF IInv, SocketKinds
    <3>2. ~Strange(m.of)
      BY <2>2, <3>1 DEF IInv, PlaceInv
    <3> QED BY <1>10, <2>2, <3>1, <3>2 DEF IInv, PlaceInv, Strange
  <2> QED BY <1>2, <2>1, <2>2 DEF PlaceInv
<1>12. \A u \in Worker : /\ (Doomed(u)' <=> Doomed(u)) /\ (Creating(u)' => u = t)
                         /\ Sockets(u)' = Sockets(u) /\ Lasting(u)' = Lasting(u)
  <2>1. \A u \in Worker : Doomed(u)' <=> Doomed(u)
    BY <1>2, <1>6 DEF Doomed
  <2>2. \A u \in Worker : Creating(u)' => u = t
    BY <1>2, <1>4, <1>6 DEF Creating
  <2>3. \A u \in Worker : Sockets(u)' = Sockets(u)
    BY <1>1 DEF Sockets
  <2>4. \A u \in Worker, x \in Socket :
          Task("disconnect", x, None) \in ToSet(tasks'[u]) <=> Task("disconnect", x, None) \in ToSet(tasks[u])
    BY <1>2, <1>3, <1>5, <1>6 DEF Task
  <2>5. \A u \in Worker : \A x \in Sockets(u) : x \in Socket
    BY DEF Sockets
  <2> QED BY <2>1, <2>2, <2>3, <2>4, <2>5 DEF Lasting
<1>13. DoomInv'
  BY <1>1, <1>12 DEF IInv, DoomInv
<1>14. GiveInv'
  BY <1>12 DEF GiveInv
<1>15. ListInv' /\ NoneStranded'
  BY <1>1 DEF Doing, IInv, ListInv, NoneStranded, TypeInv
<1> QED BY <1>7, <1>8, <1>11, <1>13, <1>14, <1>15 DEF IInv

LEMMA IncomingNewThreadPreserves ==
  ASSUME IInv, NEW s \in Socket, NEW t \in Worker, IncomingNewThread(s, t) PROVE IInv'
<1>1. /\ main.pc = "loop" /\ listening /\ life[s] = "none" /\ phase[t] = "none" /\ Hand(s, t)
      /\ phase' = [phase EXCEPT ![t] = "open"] /\ threads' = threads \cup {t}
  BY DEF IncomingNewThread, Comes, Idle, Doing, AnyOf, Strangers, Unborn
<1>2. ~Doomed(t) /\ Sockets(t) = {}
  BY <1>1 DEF IInv, DoomInv, ListInv, NoneStranded, Sockets
<1>3. phase' \in [Worker -> Phases] /\ \A u \in Worker : phase[u] # "none" => phase'[u] # "none"
  BY <1>1 DEF IInv, TypeInv, Phases
<1>4. phase'[t] # "none"
  BY <1>1 DEF IInv, TypeInv
<1> QED BY <1>1, <1>2, <1>3, <1>4, HandPreserves

LEMMA IncomingToThreadPreserves ==
  ASSUME IInv, NEW s \in Socket, NEW t \in Worker, "acceptAtEnd" \notin Calls,
         IncomingToThread(s, t)
  PROVE  IInv'
<1>1. /\ main.pc = "loop" /\ listening /\ life[s] = "none" /\ Lasting(t) # {} /\ Hand(s, t)
      /\ UNCHANGED <<phase, threads>> /\ t \in threads
  BY DEF IncomingToThread, Comes, Idle, Doing, AnyOf, Strangers, MayAccept, Minimal, Free
<1>2. ~Doomed(t)
  BY <1>1 DEF IInv, DoomInv, Lasting
<1>3. threads' = threads \cup {t} /\ phase' \in [Worker -> Phases] /\ phase'[t] # "none"
  BY <1>1 DEF IInv, TypeInv, ListInv
<1> QED BY <1>1, <1>2, <1>3, HandPreserves

LEMMA RunCreatePreserves ==
  ASSUME IInv, NEW t \in Worker, RunCreate(t) PROVE IInv'
<1>1. tasks[t] # <<>> /\ Head(tasks[t]).kind = "create" /\ Accepts(t) /\ t \in Thread
  BY DEF RunCreate, Next1, Thread
<1>2. PICK s \in Socket : s = Head(tasks[t]).of
  BY <1>1, TakeOff DEF SocketKinds
<1>3. Head(tasks[t]) \in ToSet(tasks[t])
  BY <1>1, TakeOff
<1>4. main.pc = "create" /\ main.thread = t /\ life[s] = "incoming" /\ Creating(t)
  BY <1>1, <1>2, <1>3 DEF IInv, WaitInv, Waits, Waited, Creating
<1>5. /\ life' = [life EXCEPT ![s] = "open"] /\ at' = [at EXCEPT ![s] = t]
      /\ main' = Idle /\ UNCHANGED <<phase, threads, listening, partial>>
  BY <1>2 DEF RunCreate, readVars
<1>6. PICK q \in Seq(TaskSet) : /\ tasks' = [tasks EXCEPT ![t] = q] /\ Once(q)
                                /\ ToSet(q) \subseteq ToSet(tasks[t])
                                /\ \A m \in ToSet(q) : m.kind \notin Waited
  <2>1. tasks[t] \in Seq(TaskSet) /\ Once(tasks[t])
    BY <1>1 DEF IInv, TypeInv, WaitInv
  <2>2. /\ Tail(tasks[t]) \in Seq(TaskSet) /\ Once(Tail(tasks[t]))
        /\ ToSet(Tail(tasks[t])) \subseteq ToSet(tasks[t])
        /\ \A m \in ToSet(Tail(tasks[t])) : m.kind \notin Waited
    BY <1>1, <2>1, TakeOff, OnceRemoving DEF Waited
  <2>3. tasks' = [tasks EXCEPT ![t] = Tail(tasks[t])]
    BY DEF RunCreate, Rest
  <2> QED BY <2>2, <2>3
<1>7. Main \in Thread /\ Main \notin Worker /\ \A u \in Worker : u \in Thread
  BY DEF Thread
<1>8. /\ tasks' \in [Thread -> Seq(TaskSet)] /\ tasks'[Main] = tasks[Main]
      /\ \A u \in Thread : ToSet(tasks'[u]) \subseteq ToSet(tasks[u])
      /\ \A u \in Worker : Once(tasks'[u]) /\ \A m \in ToSet(tasks'[u]) : m.kind \notin Waited
  BY <1>1, <1>4, <1>6, <1>7, NothingWaited DEF IInv, TypeInv
<1>9. TypeInv'
  BY <1>5, <1>8 DEF Idle, Doing, MainSet, Places, Lives, IInv, TypeInv
<1>10. WaitInv'
  BY <1>8 DEF WaitInv, Waited
<1>11. \A x \in Socket : IF x = s THEN life'[x] = "open" /\ at'[x] = t
                         ELSE life'[x] = life[x] /\ at'[x] = at[x]
  BY <1>5 DEF IInv, TypeInv
<1>12. PlaceInv'
  <2>1. \A x \in Socket : (life'[x] = "open" => at'[x] # None) /\ (at'[x] # None => ~Strange(x)')
    BY <1>11 DEF IInv, PlaceInv, Strange
  <2>2. ASSUME NEW u \in Thread, NEW m \in ToSet(tasks'[u]),
               m.kind \in {"disconnect", "destroySocket", "deleteSocket"}
        PROVE  /\ ~Strange(m.of)'
               /\ u \in Worker /\ m.kind = "disconnect" => at'[m.of] \in {u, None}
    <3>1. m \in ToSet(tasks[u]) /\ m.of \in Socket
      BY <1>8, <2>2, TasksOfQueues DEF IInv, SocketKinds
    <3>2. ~Strange(m.of) /\ m.of # s
      BY <1>4, <2>2, <3>1 DEF IInv, PlaceInv, Strange
    <3> QED BY <1>11, <2>2, <3>1, <3>2 DEF IInv, PlaceInv, Strange
  <2> QED BY <1>7, <2>1, <2>2 DEF PlaceInv
<1>13. \A u \in Worker : ~Creating(u)' /\ (Doomed(u)' <=> Doomed(u))
  BY <1>8 DEF Creating, Waited, Doomed
<1>14. DoomInv'
  <2>1. \A u \in Worker : u # t => Sockets(u)' \subseteq Sockets(u)
    BY <1>11 DEF Sockets
  <2> QED BY <1>4, <1>5, <1>13, <2>1 DEF IInv, DoomInv
<1>15. GiveInv'
  BY <1>13 DEF GiveInv
<1>16. ListInv' /\ NoneStranded'
  BY <1>4, <1>5, <1>11 DEF Idle, Doing, IInv, GiveInv, ListInv, NoneStranded
<1> QED BY <1>9, <1>10, <1>12, <1>14, <1>15, <1>16 DEF IInv

(***************************************************************************)
(* Main answers and disconnects: no socket is given away meanwhile.         *)
(***************************************************************************)
LEMMA PlacedStep ==
  ASSUME IInv, TypeInv', WaitInv', UNCHANGED <<phase, threads, listening, life, at>>,
         main'.pc \notin {"create", "quits"}, tasks'[Main] = tasks[Main],
         \A t \in Worker : \A m \in ToSet(tasks'[t]) :
           /\ m.kind = "disconnect" => m \in ToSet(tasks[t]) \/ (m.of \in Socket /\ at[m.of] = t)
           /\ m.kind \in {"destroySocket", "deleteSocket"} => m \in ToSet(tasks[t])
  PROVE  IInv'
<1>1. Main \in Thread /\ Main \notin Worker /\ \A t \in Worker : t \in Thread /\ t # None
  BY DEF Thread
<1>2. PlaceInv'
  <2>1. \A s \in Socket : (life'[s] = "open" => at'[s] # None) /\ (at'[s] # None => ~Strange(s)')
    BY DEF IInv, PlaceInv, Strange
  <2>2. ASSUME NEW t \in Thread, NEW m \in ToSet(tasks'[t]),
               m.kind \in {"disconnect", "destroySocket", "deleteSocket"}
        PROVE  ~Strange(m.of)
    <3>1. CASE m \in ToSet(tasks[t])
      BY <2>2, <3>1 DEF IInv, PlaceInv
    <3>2. CASE m \notin ToSet(tasks[t])
      BY <1>1, <2>2, <3>2 DEF IInv, PlaceInv, Thread
    <3> QED BY <3>1, <3>2
  <2>3. \A t \in Worker : \A m \in ToSet(tasks'[t]) : m.kind = "disconnect" => at[m.of] \in {t, None}
    BY DEF IInv, PlaceInv
  <2>4. \A t \in Thread : \A m \in ToSet(tasks'[t]) :
          m.kind \in {"disconnect", "destroySocket", "deleteSocket"} => ~Strange(m.of)'
    BY <2>2 DEF Strange
  <2> QED BY <2>1, <2>3, <2>4 DEF PlaceInv
<1>3. \A t \in Worker : ~Creating(t)' /\ (Doomed(t)' <=> Doomed(t)) /\ Sockets(t)' = Sockets(t)
  BY DEF Creating, WaitInv, Waits, Waited, Doomed, Sockets
<1>4. DoomInv'
  BY <1>3 DEF IInv, DoomInv
<1>5. GiveInv' /\ ListInv' /\ NoneStranded'
  BY <1>3 DEF IInv, GiveInv, ListInv, NoneStranded
<1> QED BY <1>2, <1>4, <1>5 DEF IInv

\* One queue of a worker changes.
LEMMA WorkerQueue ==
  ASSUME IInv, NEW t \in Worker, NEW q \in Seq(TaskSet), tasks' = [tasks EXCEPT ![t] = q]
  PROVE  /\ tasks' \in [Thread -> Seq(TaskSet)] /\ tasks'[t] = q /\ tasks'[Main] = tasks[Main]
         /\ \A u \in Worker : u # t => tasks'[u] = tasks[u]
BY DEF IInv, TypeInv, Thread

LEMMA TransmitPreserves ==
  ASSUME IInv, Transmit PROVE IInv'
<1>1. PICK t \in Worker : t = at[main.socket]
  BY DEF Transmit, IInv, TypeInv, PlaceInv
<1> DEFINE m == Task("transmit", main.socket, main.buffer)
<1>2. /\ main.pc = "handles" /\ main' = [main EXCEPT !.pc = "transmits", !.thread = t]
      /\ tasks' = [tasks EXCEPT ![t] = Append(tasks[t], m)]
      /\ UNCHANGED <<phase, threads, listening, life, at, partial>>
  BY <1>1 DEF Transmit, Post, socketVars, readVars
<1>3. m \in TaskSet /\ m.kind = "transmit"
  BY <1>2 DEF Task, TaskSet, SocketKinds, IInv, TypeInv, MainSet
<1>4. \A u \in Worker : /\ tasks[u] \in Seq(TaskSet) /\ Once(tasks[u])
                        /\ \A x \in ToSet(tasks[u]) : x.kind \notin Waited
  BY <1>2, NothingWaited
<1>5. PICK q \in Seq(TaskSet) : /\ tasks' = [tasks EXCEPT ![t] = q]
                                /\ ToSet(q) = ToSet(tasks[t]) \cup {m} /\ Once(q)
  BY <1>2, <1>3, <1>4, Appending, OnceAppending
<1>6. /\ tasks' \in [Thread -> Seq(TaskSet)] /\ tasks'[t] = q /\ tasks'[Main] = tasks[Main]
      /\ \A u \in Worker : u # t => tasks'[u] = tasks[u]
  BY <1>5, WorkerQueue
<1>7. main'.pc = "transmits" /\ main'.thread = t /\ main' \in MainSet /\ main'.socket = main.socket
  BY <1>2 DEF IInv, TypeInv, MainSet, Places
<1>8. TypeInv'
  BY <1>2, <1>6, <1>7 DEF IInv, TypeInv
<1>9. WaitInv'
  <2>1. \A u \in Worker : \A x \in ToSet(tasks'[u]) : x.kind \in Waited => x = m /\ u = t
    BY <1>4, <1>5, <1>6
  <2>2. \A u \in Worker : Once(tasks'[u])
    BY <1>4, <1>5, <1>6
  <2>3. \A u \in Worker : \A x \in ToSet(tasks'[u]) : x.kind = "create" => x.kind \in Waited
    BY DEF Waited
  <2> QED BY <1>3, <1>7, <2>1, <2>2, <2>3 DEF WaitInv, Waits
<1> QED BY <1>2, <1>3, <1>5, <1>6, <1>7, <1>8, <1>9, PlacedStep

LEMMA RunTransmitPreserves ==
  ASSUME IInv, NEW t \in Worker, RunTransmit(t) PROVE IInv'
<1>1. tasks[t] # <<>> /\ Head(tasks[t]).kind = "transmit" /\ t \in Thread
  BY DEF RunTransmit, Next1, Thread
<1>2. PICK s \in Socket : s = Head(tasks[t]).of
  BY <1>1, TakeOff DEF SocketKinds
<1>3. Head(tasks[t]) \in ToSet(tasks[t])
  BY <1>1, TakeOff
<1>4. main.pc = "transmits" /\ main.thread = t
  BY <1>1, <1>3 DEF IInv, WaitInv, Waits, Waited
<1>5. /\ main' = [main EXCEPT !.pc = "answered", !.thread = None]
      /\ UNCHANGED <<phase, threads, listening, life, at, partial>>
  BY DEF RunTransmit, readVars
<1> DEFINE w == Task("write", s, None)
<1>6. w \in TaskSet /\ w.kind = "write"
  BY DEF Task, TaskSet, SocketKinds
<1>7. PICK r \in Seq(TaskSet) :
        /\ r = Tail(tasks[t]) /\ Once(r) /\ ToSet(r) \subseteq ToSet(tasks[t])
        /\ \A x \in ToSet(r) : x.kind \notin Waited
  <2>1. tasks[t] \in Seq(TaskSet) /\ Once(tasks[t])
    BY <1>1 DEF IInv, TypeInv, WaitInv
  <2> QED BY <1>1, <2>1, TakeOff, OnceRemoving DEF Waited
<1>8. /\ Append(r, w) \in Seq(TaskSet) /\ ToSet(Append(r, w)) = ToSet(r) \cup {w}
      /\ Once(Append(r, w))
  <2>1. Append(r, w) \in Seq(TaskSet) /\ ToSet(Append(r, w)) = ToSet(r) \cup {w}
    BY <1>6, Appending
  <2>2. Once(Append(r, w))
    BY <1>6, <1>7, OnceAppending
  <2> QED BY <2>1, <2>2
<1>9. PICK q \in Seq(TaskSet) : /\ tasks' = [tasks EXCEPT ![t] = q] /\ Once(q)
                                /\ ToSet(q) \subseteq ToSet(r) \cup {w}
  <2>1. tasks' = [tasks EXCEPT ![t] = r] \/ tasks' = [tasks EXCEPT ![t] = Append(r, w)]
    BY <1>2, <1>7 DEF RunTransmit, Rest
  <2> QED BY <1>7, <1>8, <2>1
<1>10. /\ tasks' \in [Thread -> Seq(TaskSet)] /\ tasks'[t] = q /\ tasks'[Main] = tasks[Main]
       /\ \A u \in Worker : u # t => tasks'[u] = tasks[u]
  BY <1>9, WorkerQueue
<1>11. main'.pc = "answered" /\ main' \in MainSet /\ main'.socket = main.socket
  BY <1>5 DEF IInv, TypeInv, MainSet, Places
<1>12. TypeInv'
  BY <1>4, <1>5, <1>10, <1>11 DEF IInv, TypeInv
<1>13. WaitInv'
  <2>1. \A u \in Worker : Once(tasks'[u]) /\ \A x \in ToSet(tasks'[u]) : x.kind \notin Waited
    <3>1. \A x \in ToSet(q) : x.kind \notin Waited
      BY <1>6, <1>7, <1>9 DEF Waited
    <3>2. \A u \in Worker : u # t => Once(tasks[u]) /\ \A x \in ToSet(tasks[u]) : x.kind \notin Waited
      BY <1>4, NothingWaited
    <3> QED BY <1>9, <1>10, <3>1, <3>2
  <2> QED BY <2>1 DEF WaitInv, Waited
<1>14. \A u \in Worker : \A x \in ToSet(tasks'[u]) : x \in ToSet(tasks[u]) \/ x.kind = "write"
  BY <1>6, <1>7, <1>9, <1>10
<1> QED BY <1>5, <1>10, <1>11, <1>12, <1>13, <1>14, PlacedStep

LEMMA DisconnectFromHostPreserves ==
  ASSUME IInv, DisconnectFromHost PROVE IInv'
<1>1. PICK t \in Worker : t = at[main.socket] /\ main.socket \in Socket
  BY DEF DisconnectFromHost, IInv, TypeInv
<1> DEFINE m == Task("disconnect", main.socket, None)
<1>2. /\ main.pc \in {"handles", "answered"} /\ main' = [main EXCEPT !.pc = "handled"]
      /\ tasks' = [tasks EXCEPT ![t] = Append(tasks[t], m)]
      /\ UNCHANGED <<phase, threads, listening, life, at, partial>>
  BY <1>1 DEF DisconnectFromHost, Post, socketVars, readVars
<1>3. m \in TaskSet /\ m.kind = "disconnect" /\ m.of \in Socket /\ at[m.of] = t
  BY <1>1 DEF Task, TaskSet, SocketKinds
<1>4. \A u \in Worker : /\ tasks[u] \in Seq(TaskSet) /\ Once(tasks[u])
                        /\ \A x \in ToSet(tasks[u]) : x.kind \notin Waited
  BY <1>2, NothingWaited
<1>5. PICK q \in Seq(TaskSet) : /\ tasks' = [tasks EXCEPT ![t] = q]
                                /\ ToSet(q) = ToSet(tasks[t]) \cup {m} /\ Once(q)
  BY <1>2, <1>3, <1>4, Appending, OnceAppending
<1>6. /\ tasks' \in [Thread -> Seq(TaskSet)] /\ tasks'[t] = q /\ tasks'[Main] = tasks[Main]
      /\ \A u \in Worker : u # t => tasks'[u] = tasks[u]
  BY <1>5, WorkerQueue
<1>7. main'.pc = "handled" /\ main' \in MainSet /\ main'.socket = main.socket
  BY <1>2 DEF IInv, TypeInv, MainSet, Places
<1>8. TypeInv'
  BY <1>2, <1>6, <1>7 DEF IInv, TypeInv
<1>9. WaitInv'
  <2>1. \A u \in Worker : Once(tasks'[u]) /\ \A x \in ToSet(tasks'[u]) : x.kind \notin Waited
    BY <1>3, <1>4, <1>5, <1>6 DEF Waited
  <2> QED BY <2>1 DEF WaitInv, Waited
<1>10. \A u \in Worker : \A x \in ToSet(tasks'[u]) : x \in ToSet(tasks[u]) \/ (x = m /\ u = t)
  BY <1>5, <1>6
<1> QED BY <1>2, <1>3, <1>6, <1>7, <1>8, <1>9, <1>10, PlacedStep, ZenonT(30)

(***************************************************************************)
(* The theorem.                                                             *)
(***************************************************************************)
LEMMA InitInv == Init => IInv
<1> SUFFICES ASSUME Init PROVE IInv
  OBVIOUS
<1>1. \A t \in Thread : tasks[t] = <<>> /\ ToSet(tasks[t]) = {}
  BY DEF Init, ToSet
<1>2. TypeInv
  BY DEF Init, TypeInv, Phases, Lives, MainSet, Places, Idle, Doing
<1>3. Main \in Thread /\ \A t \in Worker : t \in Thread /\ ~Doomed(t) /\ ~Creating(t)
  BY <1>1 DEF Thread, Doomed, Creating
<1>4. WaitInv
  BY <1>1, <1>3 DEF WaitInv, Once
<1>5. PlaceInv /\ DoomInv /\ GiveInv /\ ListInv /\ NoneStranded
  BY <1>1, <1>3 DEF Init, PlaceInv, DoomInv, GiveInv, ListInv, NoneStranded, Idle, Doing
<1> QED BY <1>2, <1>4, <1>5 DEF IInv

LEMMA UnchangedInv ==
  ASSUME IInv, UNCHANGED vars PROVE IInv'
<1>1. HarmlessQueues
  BY NoQueue DEF vars
<1>2. UNCHANGED <<phase, threads, main, listening, life, at, partial>>
  BY DEF vars, socketVars, readVars
<1>3. TypeInv'
  BY <1>1, <1>2 DEF IInv, TypeInv, HarmlessQueues
<1> QED BY <1>1, <1>2, <1>3, QuietStep

LEMMA StepInv ==
  ASSUME "acceptAtEnd" \notin Calls, IInv, [Next]_vars PROVE IInv'
<1>1. CASE \E s \in Socket, t \in Worker : IncomingNewThread(s, t) \/ IncomingToThread(s, t)
  BY <1>1, IncomingNewThreadPreserves, IncomingToThreadPreserves
<1>2. CASE \E s \in Socket :
        IncomingRefused(s) \/ ConnectionEnds(s) \/ ReadOverflows(s) \/ ReadEnds(s)
  BY <1>2, IncomingRefusedPreserves, ConnectionEndsPreserves, ReadEndsPreserves
<1>3. CASE \E s \in Socket, b \in Buffer : ReadBegins(s, b)
  BY <1>3, ReadBeginsPreserves
<1>4. CASE Transmit \/ DisconnectFromHost \/ Quit
  BY <1>4, TransmitPreserves, DisconnectFromHostPreserves, QuitPreserves
<1>5. CASE MainStep
  BY <1>5, RunReceivedPreserves, ReleaseBufferPreserves, PostReleasePreserves,
     RunDestroySocketPreserves, RunDeleteSocketPreserves, RunDestroyThreadPreserves,
     RunDeleteThreadPreserves, QuitEndsPreserves, QuitNextPreserves DEF MainStep
<1>6. CASE \E t \in Worker : WorkerStep(t)
  BY <1>6, RunCreatePreserves, RunReleasePreserves, RunDisconnectPreserves,
     RunTransmitPreserves, RunWritePreserves, FinishPreserves DEF WorkerStep
<1>7. CASE UNCHANGED vars
  BY <1>7, UnchangedInv
<1> QED BY <1>1, <1>2, <1>3, <1>4, <1>5, <1>6, <1>7 DEF Next

\* As long as no connection is given to a thread that is losing its last one, no thread is
\* destroyed with a socket before the server quits (createSocket(), destroySocket(),
\* findMinimalSocketsThread()).
THEOREM ConnectionsKeepTheirThread ==
  ASSUME "acceptAtEnd" \notin Calls PROVE Spec => []NoneStranded
<1>1. Init => IInv
  BY InitInv
<1>2. IInv /\ [Next]_vars => IInv'
  BY StepInv
<1>3. IInv => NoneStranded
  BY DEF IInv
<1> QED BY <1>1, <1>2, <1>3, PTL DEF Spec

(***************************************************************************)
(* The tasks of Main.  When nothing happens on the connections of a server  *)
(* that quits, each task of Main comes before those that end what it is     *)
(* about.                                                                   *)
(***************************************************************************)
Regular == "acceptAtEnd" \notin Calls /\ "quitInTraffic" \notin Calls

MainKinds == {"received", "destroySocket", "deleteSocket"} \cup ThreadKinds
SocketEnds == {"destroySocket", "deleteSocket"}

\* Once x has run, y is not to be found: it is about the same socket or thread, or about a
\* socket that is deleted with the thread.  `place' is at.
Ends(x, y, place) ==
  \/ x.kind \in SocketEnds /\ y.kind \in SocketEnds \cup {"received"} /\ x.of = y.of
  \/ x.kind \in ThreadKinds /\ y.kind \in ThreadKinds /\ x.of = y.of
  \/ x.kind = "deleteThread" /\ y.kind = "received" /\ place[y.of] = x.of
InOrder(q, place) == \A i, j \in DOMAIN q : i < j => ~Ends(q[i], q[j], place)

\* How far what a task of Main is about has come.
Expected(m) ==
  /\ m.kind \in MainKinds
  /\ m.kind = "received" => life[m.of] \in {"open", "closed", "destroyed"}
  /\ m.kind = "destroySocket" => life[m.of] = "closed"
  /\ m.kind = "deleteSocket" => life[m.of] = "destroyed"
  /\ m.kind = "destroyThread" => m.of \in threads /\ listening
  /\ m.kind = "deleteThread" => m.of \notin threads /\ phase[m.of] \in {"told", "finished"}

OrderInv == InOrder(tasks[Main], at) /\ \A m \in ToSet(tasks[Main]) : Expected(m)
UserInv == main.socket # None => life[main.socket] # "deleted"
LifeInv ==
  /\ \A s \in Socket : at[s] # None => life[s] = "open"
  /\ \A t \in threads : phase[t] = "open"

\* No connection ends any more once the server has begun to quit.
QuitInv ==
  /\ main.pc = "create" => listening
  /\ ~listening => \A t \in Worker : \A m \in ToSet(tasks[t]) :
       m.kind = "disconnect" => life[m.of] # "open"

AliveInv == OrderInv /\ UserInv /\ LifeInv /\ QuitInv

LEMMA InOrderMoved ==
  ASSUME NEW q \in Seq(TaskSet), NEW place, NEW moved, InOrder(q, place),
         \A m \in ToSet(q) : m.kind = "received" => moved[m.of] \in {place[m.of], None}
  PROVE  InOrder(q, moved)
<1> SUFFICES ASSUME NEW i \in DOMAIN q, NEW j \in DOMAIN q, i < j, Ends(q[i], q[j], moved)
             PROVE  FALSE
  BY DEF InOrder
<1>1. ~Ends(q[i], q[j], place)
  BY DEF InOrder
<1>2. q[i] \in TaskSet /\ q[j] \in ToSet(q)
  BY DEF ToSet
<1>3. q[i].kind = "deleteThread" => q[i].of # None
  BY <1>2 DEF TaskSet, SocketKinds
<1> QED BY <1>1, <1>2, <1>3 DEF Ends

LEMMA InOrderAppending ==
  ASSUME NEW q \in Seq(TaskSet), NEW m \in TaskSet, NEW place, InOrder(q, place),
         \A x \in ToSet(q) : ~Ends(x, m, place)
  PROVE  InOrder(Append(q, m), place)
<1>1. /\ DOMAIN Append(q, m) = DOMAIN q \cup {Len(q) + 1} /\ DOMAIN q = 1..Len(q) /\ Len(q) \in Nat
      /\ Append(q, m)[Len(q) + 1] = m /\ \A i \in 1..Len(q) : Append(q, m)[i] = q[i]
  OBVIOUS
<1>2. \A i \in DOMAIN q : q[i] \in ToSet(q)
  BY DEF ToSet
<1> DEFINE a == Append(q, m)
<1> HIDE DEF a
<1>3. ASSUME NEW i \in DOMAIN a, NEW j \in DOMAIN a, i < j PROVE ~Ends(a[i], a[j], place)
  <2>1. i \in DOMAIN q /\ a[i] = q[i]
    BY <1>1, <1>3 DEF a
  <2>2. CASE j \in DOMAIN q
    <3>1. a[j] = q[j]
      BY <1>1, <2>2 DEF a
    <3> QED BY <1>3, <2>1, <2>2, <3>1 DEF InOrder
  <2>3. CASE j = Len(q) + 1
    <3>1. a[j] = m
      BY <1>1, <2>3 DEF a
    <3> QED BY <1>2, <2>1, <3>1
  <2> QED BY <1>1, <2>2, <2>3 DEF a
<1> QED BY <1>3 DEF InOrder, a

LEMMA InOrderRemoving ==
  ASSUME NEW q \in Seq(TaskSet), NEW place, q # <<>>, InOrder(q, place)
  PROVE  /\ InOrder(Tail(q), place)
         /\ \A m \in ToSet(Tail(q)) : ~Ends(Head(q), m, place)
<1>1. /\ DOMAIN Tail(q) = 1..Len(Tail(q)) /\ DOMAIN q = 1..Len(q)
      /\ \A i \in 1..Len(Tail(q)) : /\ Tail(q)[i] = q[i + 1]
                                    /\ i + 1 \in 1..Len(q) /\ i \in Nat /\ 1 < i + 1
      /\ Head(q) = q[1] /\ 1 \in 1..Len(q)
  <2>1. Tail(q) \in Seq(TaskSet) /\ Len(Tail(q)) = Len(q) - 1 /\ Len(q) \in Nat \ {0}
    OBVIOUS
  <2> QED BY <2>1
<1> DEFINE r == Tail(q)
<1> HIDE DEF r
<1>2. ASSUME NEW i \in DOMAIN r, NEW j \in DOMAIN r, i < j PROVE ~Ends(r[i], r[j], place)
  <2>1. /\ r[i] = q[i + 1] /\ r[j] = q[j + 1] /\ i + 1 \in DOMAIN q /\ j + 1 \in DOMAIN q
        /\ i \in Nat /\ j \in Nat
    BY <1>1 DEF r
  <2>2. i + 1 < j + 1
    BY <1>2, <2>1
  <2> QED BY <2>1, <2>2 DEF InOrder
<1>3. ASSUME NEW j \in DOMAIN r PROVE ~Ends(Head(q), r[j], place)
  <2>1. r[j] = q[j + 1] /\ j + 1 \in DOMAIN q /\ 1 < j + 1 /\ Head(q) = q[1] /\ 1 \in DOMAIN q
    BY <1>1 DEF r
  <2> QED BY <2>1 DEF InOrder
<1> QED BY <1>2, <1>3 DEF InOrder, ToSet, r

\* What is known of the tasks of Main.
LEMMA MainTasks ==
  ASSUME IInv, AliveInv
  PROVE  /\ Main \in Thread /\ Main \notin Worker /\ tasks[Main] \in Seq(TaskSet)
         /\ \A m \in ToSet(tasks[Main]) :
              /\ m \in TaskSet /\ Expected(m)
              /\ m.kind \in ThreadKinds => m.of \in Worker /\ m.of # None
              /\ m.kind \notin ThreadKinds => m.of \in Socket
<1>1. Main \in Thread /\ Main \notin Worker /\ TypeInv
  BY DEF Thread, IInv
<1>2. tasks[Main] \in Seq(TaskSet)
  BY <1>1 DEF TypeInv
<1>3. \A m \in ToSet(tasks[Main]) : Expected(m)
  BY DEF AliveInv, OrderInv
<1>4. \A m \in ToSet(tasks[Main]) : m \in TaskSet
  BY <1>1, TasksOfQueues
<1>5. \A m \in TaskSet : /\ m.kind \in ThreadKinds => m.of \in Worker /\ m.of # None
                         /\ m.kind \notin ThreadKinds => m.of \in Socket
  BY DEF TaskSet, SocketKinds, ThreadKinds
<1> QED BY <1>1, <1>2, <1>3, <1>4, <1>5

\* Steps on which no task of Main depends.
LEMMA AliveKept ==
  ASSUME IInv, AliveInv, UNCHANGED <<phase, threads, listening, life, at>>,
         tasks'[Main] = tasks[Main], main'.socket \in {main.socket, None},
         main'.pc = "create" => main.pc = "create",
         \A t \in Worker : \A m \in ToSet(tasks'[t]) :
           m.kind = "disconnect" => m \in ToSet(tasks[t]) \/ listening
  PROVE  AliveInv'
<1>1. OrderInv'
  BY DEF AliveInv, OrderInv, Expected
<1>2. UserInv' /\ LifeInv'
  BY DEF AliveInv, UserInv, LifeInv
<1>3. QuitInv'
  BY DEF AliveInv, QuitInv
<1> QED BY <1>1, <1>2, <1>3 DEF AliveInv

\* Steps that change nothing of Main, nor of the queues.
LEMMA QueuesKept ==
  ASSUME IInv, AliveInv, UNCHANGED <<phase, threads, listening, life, at, tasks>>,
         main'.socket \in {main.socket, None}, main'.pc = "create" => main.pc = "create"
  PROVE  AliveInv'
<1>1. \A t \in Worker : \A m \in ToSet(tasks'[t]) : m \in ToSet(tasks[t])
  OBVIOUS
<1> QED BY <1>1, AliveKept

\* A task is posted to a thread, or taken from its queue.
LEMMA OfAWorker ==
  ASSUME IInv, AliveInv, NEW t \in Worker, NEW q,
         tasks' = [tasks EXCEPT ![t] = q],
         \A m \in ToSet(q) : m.kind = "disconnect" => m \in ToSet(tasks[t]) \/ listening,
         UNCHANGED <<phase, threads, listening, life, at>>,
         main'.socket \in {main.socket, None}, main'.pc = "create" => main.pc = "create"
  PROVE  AliveInv'
<1>1. tasks \in [Thread -> Seq(TaskSet)] /\ t \in Thread /\ Main \in Thread /\ Main # t
  BY DEF IInv, TypeInv, Thread
<1>2. tasks'[Main] = tasks[Main] /\ tasks'[t] = q /\ \A u \in Worker : u # t => tasks'[u] = tasks[u]
  BY <1>1 DEF Thread
<1>3. \A u \in Worker : \A m \in ToSet(tasks'[u]) :
        m.kind = "disconnect" => m \in ToSet(tasks[u]) \/ listening
  BY <1>2
<1> QED BY <1>2, <1>3, AliveKept

LEMMA ReadBeginsAlive ==
  ASSUME IInv, AliveInv, NEW s \in Socket, NEW b \in Buffer, ReadBegins(s, b) PROVE AliveInv'
BY QueuesKept DEF ReadBegins, SocketStep

LEMMA ReleaseBufferAlive ==
  ASSUME IInv, AliveInv, ReleaseBuffer PROVE AliveInv'
<1>1. main'.socket \in {main.socket, None} /\ main'.pc # "create"
  BY DEF ReleaseBuffer, Idle, Doing
<1> QED BY <1>1, QueuesKept DEF ReleaseBuffer, socketVars

LEMMA QuitEndsAlive ==
  ASSUME IInv, AliveInv, QuitEnds PROVE AliveInv'
<1>1. main'.socket = None /\ main'.pc # "create"
  BY DEF QuitEnds, Idle, Doing
<1> QED BY <1>1, QueuesKept DEF QuitEnds, socketVars

LEMMA PostReleaseAlive ==
  ASSUME IInv, AliveInv, PostRelease PROVE AliveInv'
<1>1. main'.socket = None /\ main'.pc # "create" /\ UNCHANGED <<phase, threads, listening, life, at>>
  BY DEF PostRelease, Idle, Doing, socketVars
<1>2. CASE tasks' = tasks
  BY <1>1, <1>2, QueuesKept
<1>3. CASE Post(main.thread, Task("release", main.socket, main.buffer))
  <2>1. PICK t \in Worker : t = main.thread
    BY DEF PostRelease, IInv, TypeInv
  <2>2. PICK m \in TaskSet : m = Task("release", main.socket, main.buffer) /\ m.kind # "disconnect"
    BY DEF PostRelease, IInv, TypeInv, MainSet, Task, TaskSet, SocketKinds
  <2>3. tasks[t] \in Seq(TaskSet)
    BY DEF IInv, TypeInv, Thread
  <2>4. tasks' = [tasks EXCEPT ![t] = Append(tasks[t], m)]
    BY <1>3, <2>1, <2>2 DEF Post
  <2>5. ToSet(Append(tasks[t], m)) = ToSet(tasks[t]) \cup {m}
    BY <2>3, Appending
  <2> QED BY <1>1, <2>2, <2>4, <2>5, OfAWorker, ZenonT(30)
<1> QED BY <1>2, <1>3 DEF PostRelease

LEMMA TakenAlive ==
  ASSUME IInv, AliveInv, NEW t \in Worker, tasks[t] # <<>>, tasks' = Rest(t),
         UNCHANGED <<phase, threads, listening, life, at, main>>
  PROVE  AliveInv'
<1>1. ToSet(Tail(tasks[t])) \subseteq ToSet(tasks[t])
  BY TakeOff DEF Thread
<1>2. tasks' = [tasks EXCEPT ![t] = Tail(tasks[t])]
  BY DEF Rest
<1> QED BY <1>1, <1>2, OfAWorker

LEMMA RunReleaseAlive ==
  ASSUME IInv, AliveInv, NEW t \in Worker, RunRelease(t) PROVE AliveInv'
BY TakenAlive DEF RunRelease, Next1, SocketStep

LEMMA RunWriteAlive ==
  ASSUME IInv, AliveInv, NEW t \in Worker, RunWrite(t) PROVE AliveInv'
BY TakenAlive DEF RunWrite, Next1, SocketStep

LEMMA RunTransmitAlive ==
  ASSUME IInv, AliveInv, NEW t \in Worker, RunTransmit(t) PROVE AliveInv'
<1>1. tasks[t] # <<>> /\ Head(tasks[t]).kind = "transmit" /\ t \in Thread
  BY DEF RunTransmit, Next1, Thread
<1>2. PICK s \in Socket : s = Head(tasks[t]).of
  BY <1>1, TakeOff DEF SocketKinds
<1>3. PICK w \in TaskSet : w = Task("write", s, None) /\ w.kind = "write"
  <2>1. Task("write", s, None) \in TaskSet /\ Task("write", s, None).kind = "write"
    BY DEF Task, TaskSet, SocketKinds
  <2> QED BY <2>1
<1>4. PICK r \in Seq(TaskSet) : r = Tail(tasks[t]) /\ ToSet(r) \subseteq ToSet(tasks[t])
  BY <1>1, TakeOff
<1>5. ToSet(Append(r, w)) = ToSet(r) \cup {w}
  <2>1. \A q \in Seq(TaskSet) : ToSet(Append(q, w)) = ToSet(q) \cup {w}
    BY <1>3, Appending
  <2> QED BY <2>1
<1>6. tasks' = [tasks EXCEPT ![t] = r] \/ tasks' = [tasks EXCEPT ![t] = Append(r, w)]
  BY <1>2, <1>3, <1>4 DEF RunTransmit, Rest
<1>7. main'.socket = main.socket /\ main'.pc # "create" /\ UNCHANGED <<phase, threads, listening, life, at>>
  BY DEF RunTransmit, IInv, TypeInv, MainSet
<1> QED BY <1>3, <1>4, <1>5, <1>6, <1>7, OfAWorker

LEMMA TransmitAlive ==
  ASSUME IInv, AliveInv, Transmit PROVE AliveInv'
<1>1. PICK t \in Worker : t = at[main.socket]
  BY DEF Transmit, IInv, TypeInv, PlaceInv
<1>2. PICK m \in TaskSet : m = Task("transmit", main.socket, main.buffer) /\ m.kind # "disconnect"
  BY DEF Transmit, IInv, TypeInv, MainSet, Task, TaskSet, SocketKinds
<1>3. tasks[t] \in Seq(TaskSet) /\ tasks' = [tasks EXCEPT ![t] = Append(tasks[t], m)]
  BY <1>1, <1>2 DEF Transmit, Post, IInv, TypeInv, Thread
<1>4. ToSet(Append(tasks[t], m)) = ToSet(tasks[t]) \cup {m}
  BY <1>3, Appending
<1>5. main'.socket = main.socket /\ main'.pc # "create" /\ UNCHANGED <<phase, threads, listening, life, at>>
  BY DEF Transmit, IInv, TypeInv, MainSet, socketVars
<1>6. \A x \in ToSet(Append(tasks[t], m)) : x.kind = "disconnect" => x \in ToSet(tasks[t])
  BY <1>2, <1>4
<1> QED BY <1>3, <1>5, <1>6, OfAWorker

LEMMA DisconnectFromHostAlive ==
  ASSUME Regular, IInv, AliveInv, DisconnectFromHost PROVE AliveInv'
<1>1. PICK t \in Worker : t = at[main.socket]
  BY DEF DisconnectFromHost, IInv, TypeInv
<1>2. PICK m \in TaskSet : m = Task("disconnect", main.socket, None)
  BY DEF DisconnectFromHost, IInv, TypeInv, MainSet, Task, TaskSet, SocketKinds
<1>3. tasks[t] \in Seq(TaskSet) /\ tasks' = [tasks EXCEPT ![t] = Append(tasks[t], m)]
  BY <1>1, <1>2 DEF DisconnectFromHost, Post, IInv, TypeInv, Thread
<1>4. ToSet(Append(tasks[t], m)) = ToSet(tasks[t]) \cup {m}
  BY <1>3, Appending
<1>5. /\ main'.socket = main.socket /\ main'.pc # "create" /\ listening
      /\ UNCHANGED <<phase, threads, listening, life, at>>
  BY DEF DisconnectFromHost, Quiet, Regular, IInv, TypeInv, MainSet, socketVars
<1> QED BY <1>4, <1>3, <1>5, OfAWorker

(***************************************************************************)
(* Connections come in.                                                     *)
(***************************************************************************)
\* No task of Main is about a socket that is not open yet, or was refused.
LEMMA OfOthers ==
  ASSUME IInv, AliveInv, NEW s \in Socket, life[s] \in {"none", "incoming", "refused"}
  PROVE  \A m \in ToSet(tasks[Main]) : m.kind \notin ThreadKinds => m.of # s
BY MainTasks DEF Expected, MainKinds

LEMMA IncomingRefusedAlive ==
  ASSUME IInv, AliveInv, NEW s \in Socket, IncomingRefused(s) PROVE AliveInv'
<1>1. /\ life[s] = "none" /\ life' = [life EXCEPT ![s] = "refused"]
      /\ UNCHANGED <<phase, threads, tasks, main, listening, at>>
  BY DEF IncomingRefused, Comes, AnyOf, Strangers
<1>2. \A x \in Socket : life'[x] = IF x = s THEN "refused" ELSE life[x]
  BY <1>1 DEF IInv, TypeInv
<1>3. OrderInv'
  <2>1. \A m \in ToSet(tasks[Main]) : Expected(m)'
    BY <1>1, <1>2, MainTasks, OfOthers DEF Expected, ThreadKinds
  <2> QED BY <1>1, <2>1 DEF AliveInv, OrderInv
<1>4. UserInv' /\ LifeInv'
  BY <1>1, <1>2 DEF AliveInv, UserInv, LifeInv, IInv, TypeInv, MainSet
<1>5. QuitInv'
  <2>1. \A t \in Worker : \A m \in ToSet(tasks[t]) : m.kind = "disconnect" => m.of \in Socket
    BY TasksOfQueues DEF IInv, Thread, SocketKinds
  <2> QED BY <1>1, <1>2, <2>1 DEF AliveInv, QuitInv
<1> QED BY <1>3, <1>4, <1>5 DEF AliveInv

LEMMA HandAlive ==
  ASSUME IInv, AliveInv, NEW s \in Socket, NEW t \in Worker, listening, life[s] = "none",
         Hand(s, t), threads' = threads \cup {t}, phase'[t] = "open",
         t \in threads \/ phase[t] = "none",
         \A u \in Worker : u # t => phase'[u] = phase[u]
  PROVE  AliveInv'
<1>1. /\ tasks' = [tasks EXCEPT ![t] = Append(tasks[t], Task("create", s, None))]
      /\ main' = Doing("create", t, s, None)
      /\ life' = [life EXCEPT ![s] = "incoming"] /\ UNCHANGED <<listening, at>>
  BY DEF Hand, Post
<1>2. \A x \in Socket : life'[x] = IF x = s THEN "incoming" ELSE life[x]
  BY <1>1 DEF IInv, TypeInv
<1>3. tasks'[Main] = tasks[Main]
  BY <1>1, MainTasks DEF IInv, TypeInv
<1>4. OrderInv'
  <2>1. ASSUME NEW m \in ToSet(tasks[Main]) PROVE Expected(m)'
    <3>1. m.kind \notin ThreadKinds => m.of \in Socket /\ m.of # s /\ life'[m.of] = life[m.of]
      BY <1>2, MainTasks, OfOthers
    <3>2. m.kind \in ThreadKinds => m.of \in Worker
      BY MainTasks
    <3>3. m.kind = "deleteThread" => m.of # t /\ phase'[m.of] = phase[m.of]
      BY <3>2, MainTasks DEF Expected, ThreadKinds
    <3>4. Expected(m)
      BY MainTasks
    <3> QED BY <1>1, <3>1, <3>3, <3>4 DEF Expected, ThreadKinds
  <2> QED BY <1>1, <1>3, <2>1 DEF AliveInv, OrderInv
<1>5. UserInv'
  BY <1>1, <1>2 DEF UserInv, Doing
<1>6. LifeInv'
  <2>1. at[s] = None
    BY DEF AliveInv, LifeInv
  <2>2. \A x \in Socket : at'[x] # None => life'[x] = "open"
    BY <1>1, <1>2, <2>1 DEF AliveInv, LifeInv
  <2>3. \A u \in threads' : phase'[u] = "open"
    BY DEF AliveInv, LifeInv, IInv, TypeInv
  <2> QED BY <2>2, <2>3 DEF LifeInv
<1>7. QuitInv'
  BY <1>1 DEF QuitInv
<1> QED BY <1>4, <1>5, <1>6, <1>7 DEF AliveInv

LEMMA IncomingNewThreadAlive ==
  ASSUME IInv, AliveInv, NEW s \in Socket, NEW t \in Worker, IncomingNewThread(s, t)
  PROVE  AliveInv'
<1>1. /\ listening /\ life[s] = "none" /\ phase[t] = "none" /\ Hand(s, t)
      /\ phase' = [phase EXCEPT ![t] = "open"] /\ threads' = threads \cup {t}
  BY DEF IncomingNewThread, Comes, AnyOf, Strangers, Unborn
<1>2. phase'[t] = "open" /\ \A u \in Worker : u # t => phase'[u] = phase[u]
  BY <1>1 DEF IInv, TypeInv
<1> QED BY <1>1, <1>2, HandAlive

LEMMA IncomingToThreadAlive ==
  ASSUME IInv, AliveInv, NEW s \in Socket, NEW t \in Worker, IncomingToThread(s, t)
  PROVE  AliveInv'
<1>1. /\ listening /\ life[s] = "none" /\ Hand(s, t) /\ UNCHANGED <<phase, threads>>
      /\ t \in threads
  BY DEF IncomingToThread, Comes, AnyOf, Strangers, Minimal, Free
<1>2. phase'[t] = "open" /\ threads' = threads \cup {t}
  BY <1>1 DEF AliveInv, LifeInv
<1> QED BY <1>1, <1>2, HandAlive

LEMMA RunCreateAlive ==
  ASSUME IInv, AliveInv, NEW t \in Worker, RunCreate(t) PROVE AliveInv'
<1>1. tasks[t] # <<>> /\ Head(tasks[t]).kind = "create" /\ t \in Thread
  BY DEF RunCreate, Next1, Thread
<1>2. PICK s \in Socket : s = Head(tasks[t]).of
  BY <1>1, TakeOff DEF SocketKinds
<1>3. Head(tasks[t]) \in ToSet(tasks[t]) /\ ToSet(Tail(tasks[t])) \subseteq ToSet(tasks[t])
  BY <1>1, TakeOff
<1>4. main.pc = "create" /\ life[s] = "incoming" /\ listening
  BY <1>1, <1>2, <1>3 DEF IInv, WaitInv, Waits, Waited, AliveInv, QuitInv
<1>5. /\ life' = [life EXCEPT ![s] = "open"] /\ at' = [at EXCEPT ![s] = t]
      /\ main' = Idle /\ UNCHANGED <<phase, threads, listening>>
  BY <1>2 DEF RunCreate
<1>6. \A x \in Socket : IF x = s THEN life'[x] = "open" /\ at'[x] = t
                        ELSE life'[x] = life[x] /\ at'[x] = at[x]
  BY <1>5 DEF IInv, TypeInv
<1>7. tasks'[Main] = tasks[Main]
  BY MainTasks DEF RunCreate, Rest, IInv, TypeInv
<1>8. \A m \in ToSet(tasks[Main]) : m.kind \notin ThreadKinds => m.of \in Socket /\ m.of # s
  BY <1>4, MainTasks, OfOthers
<1>9. OrderInv'
  <2>1. \A m \in ToSet(tasks[Main]) : Expected(m)'
    BY <1>5, <1>6, <1>8, MainTasks DEF Expected, ThreadKinds
  <2>2. \A m \in ToSet(tasks[Main]) : m.kind = "received" => at'[m.of] = at[m.of]
    BY <1>6, <1>8 DEF ThreadKinds
  <2>3. InOrder(tasks[Main], at')
    BY <2>2, MainTasks, InOrderMoved DEF AliveInv, OrderInv
  <2> QED BY <1>7, <2>1, <2>3 DEF OrderInv
<1>10. UserInv' /\ QuitInv'
  BY <1>4, <1>5 DEF UserInv, QuitInv, Idle, Doing
<1>11. LifeInv'
  BY <1>5, <1>6 DEF AliveInv, LifeInv
<1> QED BY <1>9, <1>10, <1>11 DEF AliveInv

(***************************************************************************)
(* The threads.                                                             *)
(***************************************************************************)
LEMMA FinishAlive ==
  ASSUME IInv, AliveInv, NEW t \in Worker, Finish(t) PROVE AliveInv'
<1>1. /\ phase[t] = "told" /\ phase' = [phase EXCEPT ![t] = "finished"]
      /\ UNCHANGED <<threads, tasks, main, listening, life, at>>
  BY DEF Finish, socketVars
<1>2. \A u \in Worker : phase'[u] = IF u = t THEN "finished" ELSE phase[u]
  BY <1>1 DEF IInv, TypeInv
<1>3. OrderInv'
  <2>1. \A m \in ToSet(tasks[Main]) : Expected(m)'
    BY <1>1, <1>2, MainTasks DEF Expected, ThreadKinds
  <2> QED BY <1>1, <2>1 DEF AliveInv, OrderInv
<1>4. UserInv' /\ QuitInv'
  BY <1>1 DEF AliveInv, UserInv, QuitInv
<1>5. LifeInv'
  BY <1>1, <1>2 DEF AliveInv, LifeInv, IInv, TypeInv
<1> QED BY <1>3, <1>4, <1>5 DEF AliveInv

\* No thread is to be destroyed by a task, and none of the connections is to be closed, when
\* the server begins to quit.
LEMMA QuitAlive ==
  ASSUME Regular, IInv, AliveInv, Quit PROVE AliveInv'
<1>1. /\ main.pc = "loop" /\ listening /\ ~listening'
      /\ main' = Doing("quits", None, None, None)
      /\ UNCHANGED <<phase, threads, tasks, life, at>>
      /\ \A t \in threads : Sockets(t) # {} /\ Lasting(t) = Sockets(t)
  BY DEF Quit, Idle, Doing, socketVars, MayQuit, Regular
<1>2. OrderInv'
  <2>1. ASSUME NEW m \in ToSet(tasks[Main]) PROVE m.kind # "destroyThread"
    <3> SUFFICES ASSUME m.kind = "destroyThread" PROVE FALSE
      OBVIOUS
    <3>1. m.of \in threads /\ m.of \in Worker /\ m \in TaskSet
      BY MainTasks DEF Expected, ThreadKinds
    <3>2. m = Task("destroyThread", m.of, None)
      BY <3>1 DEF TaskSet, Task, SocketKinds
    <3>3. Doomed(m.of)
      BY <3>2 DEF Doomed
    <3> QED BY <1>1, <3>1, <3>3 DEF IInv, DoomInv
  <2>2. \A m \in ToSet(tasks[Main]) : Expected(m)'
    BY <1>1, <2>1, MainTasks DEF Expected
  <2> QED BY <1>1, <2>2 DEF AliveInv, OrderInv
<1>3. UserInv' /\ LifeInv'
  BY <1>1 DEF AliveInv, UserInv, LifeInv, Doing
<1>4. QuitInv'
  <2>1. ASSUME NEW t \in Worker, NEW m \in ToSet(tasks[t]), m.kind = "disconnect", life[m.of] = "open"
        PROVE  FALSE
    <3>1. t \in Thread /\ TypeInv
      BY DEF Thread, IInv
    <3>2. m \in TaskSet /\ m.of \in Socket
      BY <2>1, <3>1, TasksOfQueues DEF SocketKinds
    <3>3. m = Task("disconnect", m.of, None)
      BY <2>1, <3>2 DEF TaskSet, Task, ThreadKinds
    <3>4. at[m.of] = t
      BY <2>1, <3>2 DEF IInv, PlaceInv
    <3>5. m.of \in Sockets(t) /\ m.of \notin Lasting(t)
      BY <3>2, <3>3, <3>4 DEF Sockets, Lasting
    <3>6. t \in threads
      BY <1>1, <3>2, <3>4 DEF IInv, NoneStranded
    <3> QED BY <1>1, <3>5, <3>6
  <2> QED BY <1>1, <2>1 DEF QuitInv, Doing
<1> QED BY <1>2, <1>3, <1>4 DEF AliveInv

(***************************************************************************)
(* What is posted to Main.                                                  *)
(***************************************************************************)
LEMMA InOrderAppendingToMain ==
  ASSUME NEW q \in Seq(TaskSet), NEW m \in TaskSet, NEW place, InOrder(q, place),
         \A x \in ToSet(q) : ~Ends(x, m, place)
  PROVE  /\ q \o <<m>> \in Seq(TaskSet) /\ ToSet(q \o <<m>>) = ToSet(q) \cup {m}
         /\ InOrder(q \o <<m>>, place)
<1>1. q \o <<m>> = Append(q, m)
  BY Concatenating
<1>2. /\ Append(q, m) \in Seq(TaskSet) /\ ToSet(Append(q, m)) = ToSet(q) \cup {m}
      /\ InOrder(Append(q, m), place)
  BY Appending, InOrderAppending
<1> QED BY <1>1, <1>2

LEMMA ReadEndsAlive ==
  ASSUME Regular, IInv, AliveInv, NEW s \in Socket, ReadEnds(s) PROVE AliveInv'
<1>1. /\ life[s] = "open" /\ listening /\ partial[s] \in Buffer
      /\ UNCHANGED <<phase, threads, main, listening, life, at>>
  BY DEF ReadEnds, Event, Quiet, Regular, SocketStep, IInv, TypeInv
<1>2. PICK m \in TaskSet : m = Task("received", s, partial[s]) /\ m.kind = "received" /\ m.of = s
  <2>1. Task("received", s, partial[s]) \in TaskSet
    BY <1>1 DEF Task, TaskSet, SocketKinds
  <2> QED BY <2>1 DEF Task
<1>3. tasks' = [tasks EXCEPT ![Main] = Append(tasks[Main], m)]
  BY <1>2 DEF ReadEnds, Post
<1>4. tasks'[Main] = Append(tasks[Main], m) /\ \A u \in Worker : tasks'[u] = tasks[u]
  BY <1>3, MainTasks DEF IInv, TypeInv, Thread
<1>5. \A x \in ToSet(tasks[Main]) : ~Ends(x, m, at)
  <2> SUFFICES ASSUME NEW x \in ToSet(tasks[Main]), Ends(x, m, at) PROVE FALSE
    OBVIOUS
  <2>1. Expected(x)
    BY MainTasks
  <2>2. CASE x.kind \in SocketEnds /\ x.of = s
    BY <1>1, <2>1, <2>2 DEF Expected, SocketEnds
  <2>3. CASE x.kind = "deleteThread" /\ at[s] = x.of
    <3>1. x.of # None /\ x.of \notin threads
      BY <2>1, <2>3, MainTasks DEF Expected, ThreadKinds
    <3> QED BY <1>1, <2>3, <3>1 DEF IInv, NoneStranded
  <2> QED BY <1>2, <2>2, <2>3 DEF Ends, ThreadKinds
<1>6. InOrder(Append(tasks[Main], m), at) /\ ToSet(Append(tasks[Main], m)) = ToSet(tasks[Main]) \cup {m}
  BY <1>5, MainTasks, Appending, InOrderAppending DEF AliveInv, OrderInv
<1>7. OrderInv'
  <2>1. \A x \in ToSet(tasks[Main]) \cup {m} : Expected(x)'
    BY <1>1, <1>2, MainTasks DEF Expected, MainKinds
  <2> QED BY <1>1, <1>4, <1>6, <2>1 DEF OrderInv
<1>8. UserInv' /\ LifeInv' /\ QuitInv'
  BY <1>1, <1>4 DEF AliveInv, UserInv, LifeInv, QuitInv
<1> QED BY <1>7, <1>8 DEF AliveInv

LEMMA CloseAlive ==
  ASSUME IInv, AliveInv, NEW s \in Socket, life[s] = "open", listening,
         NEW queues, queues[Main] = tasks[Main], queues \in [Thread -> Seq(TaskSet)],
         \A t \in Worker : ToSet(queues[t]) \subseteq ToSet(tasks[t]),
         Close(s, queues), SocketStep
  PROVE  AliveInv'
<1>1. PICK t \in Worker : t = at[s] /\ t \in threads /\ phase[t] = "open"
  BY DEF IInv, TypeInv, PlaceInv, NoneStranded, AliveInv, LifeInv
<1>2. /\ life' = [life EXCEPT ![s] = "closed"] /\ at' = [at EXCEPT ![s] = None]
      /\ tasks' = [queues EXCEPT ![Main] = tasks[Main] \o LastOne(s) \o <<Task("destroySocket", s, None)>>]
      /\ UNCHANGED <<phase, threads, main, listening>>
  BY DEF Close, SocketStep
<1>3. \A x \in Socket : IF x = s THEN life'[x] = "closed" /\ at'[x] = None
                        ELSE life'[x] = life[x] /\ at'[x] = at[x]
  BY <1>2 DEF IInv, TypeInv
<1> DEFINE q == tasks[Main]
<1>4. PICK d \in TaskSet : d = Task("destroySocket", s, None) /\ d.kind = "destroySocket" /\ d.of = s
  <2>1. Task("destroySocket", s, None) \in TaskSet
    BY DEF Task, TaskSet, SocketKinds
  <2> QED BY <2>1 DEF Task
<1>5. PICK g \in TaskSet : g = Task("destroyThread", t, None) /\ g.kind = "destroyThread" /\ g.of = t
  <2>1. Task("destroyThread", t, None) \in TaskSet
    BY DEF Task, TaskSet, ThreadKinds
  <2> QED BY <2>1 DEF Task
<1>6. q \in Seq(TaskSet) /\ InOrder(q, at)
  BY MainTasks DEF AliveInv, OrderInv
<1>7. \A x \in ToSet(q) : ~Ends(x, d, at)
  BY <1>4, MainTasks DEF Ends, Expected, SocketEnds, ThreadKinds
<1>8. ~Ends(g, d, at)
  BY <1>4, <1>5 DEF Ends, SocketEnds, ThreadKinds
<1>9. \A x \in ToSet(q) : Sockets(t) = {s} => ~Ends(x, g, at)
  <2> SUFFICES ASSUME NEW x \in ToSet(q), x.kind \in ThreadKinds, x.of = t PROVE FALSE
    BY <1>5 DEF Ends, SocketEnds, ThreadKinds
  <2>1. CASE x.kind = "deleteThread"
    BY <1>1, <2>1, MainTasks DEF Expected
  <2>2. CASE x.kind = "destroyThread"
    <3>1. x = Task("destroyThread", t, None)
      <4>1. x \in TaskSet /\ x.of = t
        BY MainTasks
      <4> QED BY <2>2, <4>1 DEF TaskSet, Task, SocketKinds
    <3>2. Sockets(t) = {}
      BY <3>1 DEF Doomed, IInv, DoomInv
    <3> QED BY <1>1, <3>2 DEF Sockets
  <2> QED BY <2>1, <2>2 DEF ThreadKinds
<1>10. PICK r \in Seq(TaskSet) :
         /\ tasks' = [queues EXCEPT ![Main] = r] /\ InOrder(r, at)
         /\ ToSet(r) \subseteq ToSet(q) \cup {g, d}
  <2>1. CASE Sockets(t) = {s}
    <3>1. LastOne(s) = <<g>>
      BY <1>1, <1>5, <2>1 DEF LastOne
    <3>2. PICK p \in Seq(TaskSet) : p = q \o <<g>> /\ ToSet(p) = ToSet(q) \cup {g} /\ InOrder(p, at)
      BY <1>6, <1>9, <2>1, InOrderAppendingToMain
    <3>3. /\ p \o <<d>> \in Seq(TaskSet) /\ ToSet(p \o <<d>>) = ToSet(p) \cup {d}
          /\ InOrder(p \o <<d>>, at)
      <4>1. \A x \in ToSet(p) : ~Ends(x, d, at)
        BY <1>7, <1>8, <3>2
      <4> QED BY <3>2, <4>1, InOrderAppendingToMain
    <3>4. tasks' = [queues EXCEPT ![Main] = p \o <<d>>]
      BY <1>2, <1>4, <3>1, <3>2
    <3> QED BY <3>2, <3>3, <3>4
  <2>2. CASE Sockets(t) # {s}
    <3>1. LastOne(s) = <<>>
      BY <1>1, <2>2 DEF LastOne
    <3>2. q \o <<>> = q
      BY <1>4, <1>6, Concatenating
    <3>3. /\ q \o <<d>> \in Seq(TaskSet) /\ ToSet(q \o <<d>>) = ToSet(q) \cup {d}
          /\ InOrder(q \o <<d>>, at)
      BY <1>6, <1>7, InOrderAppendingToMain
    <3>4. tasks' = [queues EXCEPT ![Main] = q \o <<d>>]
      BY <1>2, <1>4, <3>1, <3>2
    <3> QED BY <3>3, <3>4
  <2> QED BY <2>1, <2>2
<1>11. tasks'[Main] = r /\ \A u \in Worker : tasks'[u] = queues[u]
  BY <1>10, MainTasks DEF Thread
<1>12. OrderInv'
  <2>1. \A x \in ToSet(q) : x.kind \notin ThreadKinds => x.of \in Socket
    BY MainTasks
  <2>2. \A x \in ToSet(q) : Expected(x)'
    BY <1>2, <1>3, <2>1, MainTasks DEF Expected, ThreadKinds
  <2>3. Expected(d)' /\ Expected(g)'
    BY <1>1, <1>2, <1>3, <1>4, <1>5 DEF Expected, MainKinds, ThreadKinds
  <2>4. \A x \in ToSet(r) : x.kind = "received" => at'[x.of] \in {at[x.of], None}
    BY <1>3, <1>4, <1>5, <1>10, <2>1 DEF ThreadKinds
  <2>5. InOrder(r, at')
    BY <1>10, <2>4, InOrderMoved
  <2> QED BY <1>10, <1>11, <2>2, <2>3, <2>5 DEF OrderInv
<1>13. UserInv' /\ LifeInv'
  BY <1>2, <1>3 DEF AliveInv, UserInv, LifeInv, IInv, TypeInv, MainSet
<1>14. QuitInv'
  BY <1>2 DEF AliveInv, QuitInv
<1> QED BY <1>12, <1>13, <1>14 DEF AliveInv

LEMMA ConnectionEndsAlive ==
  ASSUME Regular, IInv, AliveInv, NEW s \in Socket, ConnectionEnds(s) \/ ReadOverflows(s)
  PROVE  AliveInv'
<1>1. life[s] = "open" /\ listening /\ Close(s, tasks) /\ SocketStep
  BY DEF ConnectionEnds, ReadOverflows, Event, Quiet, Regular
<1>2. tasks \in [Thread -> Seq(TaskSet)]
  BY DEF IInv, TypeInv
<1> QED BY <1>1, <1>2, CloseAlive

LEMMA RunDisconnectAlive ==
  ASSUME IInv, AliveInv, NEW t \in Worker, RunDisconnect(t) PROVE AliveInv'
<1>1. tasks[t] # <<>> /\ Head(tasks[t]).kind = "disconnect" /\ t \in Thread /\ SocketStep
  BY DEF RunDisconnect, Next1, Thread
<1>2. PICK s \in Socket : s = Head(tasks[t]).of
  BY <1>1, TakeOff DEF SocketKinds
<1>3. /\ Head(tasks[t]) \in ToSet(tasks[t]) /\ Tail(tasks[t]) \in Seq(TaskSet)
      /\ ToSet(Tail(tasks[t])) \subseteq ToSet(tasks[t])
  BY <1>1, TakeOff
<1>4. CASE life[s] = "open"
  <2>1. listening
    BY <1>1, <1>2, <1>3, <1>4 DEF AliveInv, QuitInv
  <2>2. PICK queues : queues = Rest(t) /\ Close(s, queues)
    BY <1>2, <1>4 DEF RunDisconnect
  <2>3. tasks \in [Thread -> Seq(TaskSet)] /\ Main # t /\ Main \in Thread
    BY MainTasks DEF IInv, TypeInv
  <2>4. /\ queues[Main] = tasks[Main] /\ queues \in [Thread -> Seq(TaskSet)]
        /\ \A u \in Worker : ToSet(queues[u]) \subseteq ToSet(tasks[u])
    BY <1>1, <1>3, <2>2, <2>3 DEF Rest, Thread
  <2> QED BY <1>1, <1>4, <2>1, <2>2, <2>4, CloseAlive
<1>5. CASE life[s] # "open"
  <2>1. tasks' = Rest(t) /\ UNCHANGED <<phase, threads, main, listening, life, at>>
    BY <1>2, <1>5 DEF RunDisconnect, SocketStep
  <2> QED BY <1>1, <2>1, TakenAlive
<1> QED BY <1>4, <1>5

(***************************************************************************)
(* Main runs its tasks.                                                     *)
(***************************************************************************)
\* The task that Main takes, and what it leaves.
LEMMA MainTakes ==
  ASSUME IInv, AliveInv, NEW kind, MainRuns(kind)
  PROVE  /\ main = Idle /\ main.socket = None /\ main.pc = "loop"
         /\ Head(tasks[Main]) \in ToSet(tasks[Main]) /\ Head(tasks[Main]).kind = kind
         /\ Expected(Head(tasks[Main]))
         /\ Tail(tasks[Main]) \in Seq(TaskSet) /\ InOrder(Tail(tasks[Main]), at)
         /\ \A x \in ToSet(Tail(tasks[Main])) :
              x \in ToSet(tasks[Main]) /\ ~Ends(Head(tasks[Main]), x, at)
<1>1. main = Idle /\ tasks[Main] # <<>> /\ Head(tasks[Main]).kind = kind
  BY DEF MainRuns, Next1
<1>2. main.socket = None /\ main.pc = "loop"
  BY <1>1 DEF Idle, Doing
<1>3. /\ Head(tasks[Main]) \in ToSet(tasks[Main]) /\ Tail(tasks[Main]) \in Seq(TaskSet)
      /\ ToSet(Tail(tasks[Main])) \subseteq ToSet(tasks[Main])
  BY <1>1, MainTasks, Removing
<1>4. /\ InOrder(Tail(tasks[Main]), at)
      /\ \A x \in ToSet(Tail(tasks[Main])) : ~Ends(Head(tasks[Main]), x, at)
  BY <1>1, MainTasks, InOrderRemoving DEF AliveInv, OrderInv
<1> QED BY <1>1, <1>2, <1>3, <1>4, MainTasks

LEMMA RunReceivedAlive ==
  ASSUME IInv, AliveInv, RunReceived PROVE AliveInv'
<1> DEFINE m == Head(tasks[Main])
           r == Tail(tasks[Main])
<1>1. /\ MainRuns("received") /\ main' = Doing("handles", None, m.of, m.buffer)
      /\ tasks' = [tasks EXCEPT ![Main] = r]
      /\ UNCHANGED <<phase, threads, listening, life, at>>
  BY DEF RunReceived, Rest, socketVars
<1>2. /\ m \in ToSet(tasks[Main]) /\ m.kind = "received" /\ Expected(m) /\ InOrder(r, at)
      /\ \A x \in ToSet(r) : x \in ToSet(tasks[Main])
  BY <1>1, MainTakes
<1>3. tasks'[Main] = r /\ \A u \in Worker : tasks'[u] = tasks[u]
  BY <1>1, MainTasks DEF IInv, TypeInv, Thread
<1>4. OrderInv'
  BY <1>1, <1>2, <1>3, MainTasks DEF OrderInv, Expected
<1>5. UserInv' /\ LifeInv' /\ QuitInv'
  BY <1>1, <1>2, <1>3 DEF AliveInv, UserInv, LifeInv, QuitInv, Expected, Doing
<1> QED BY <1>4, <1>5 DEF AliveInv

LEMMA RunDestroySocketAlive ==
  ASSUME IInv, AliveInv, RunDestroySocket PROVE AliveInv'
<1> DEFINE r == Tail(tasks[Main])
<1>1. PICK h : h = Head(tasks[Main])
  OBVIOUS
<1>2. MainRuns("destroySocket")
  BY DEF RunDestroySocket
<1>3. /\ h \in ToSet(tasks[Main]) /\ h.kind = "destroySocket" /\ Expected(h)
      /\ InOrder(r, at) /\ r \in Seq(TaskSet) /\ main.socket = None
      /\ \A x \in ToSet(r) : x \in ToSet(tasks[Main]) /\ ~Ends(h, x, at)
  BY <1>1, <1>2, MainTakes
<1>4. PICK s \in Socket : s = h.of /\ life[s] = "closed"
  BY <1>3, MainTasks DEF Expected, ThreadKinds
<1>5. PICK d \in TaskSet : d = Task("deleteSocket", s, None) /\ d.kind = "deleteSocket" /\ d.of = s
  <2>1. Task("deleteSocket", s, None) \in TaskSet
    BY DEF Task, TaskSet, SocketKinds
  <2> QED BY <2>1 DEF Task
<1>6. /\ life' = [life EXCEPT ![s] = "destroyed"]
      /\ tasks' = [tasks EXCEPT ![Main] = Append(r, d)]
      /\ UNCHANGED <<phase, threads, main, listening, at>>
  BY <1>1, <1>4, <1>5 DEF RunDestroySocket
<1>7. \A x \in Socket : life'[x] = IF x = s THEN "destroyed" ELSE life[x]
  BY <1>6 DEF IInv, TypeInv
<1>8. \A x \in ToSet(r) : x.kind \in SocketEnds \cup {"received"} => x.of # s
  BY <1>3, <1>4 DEF Ends, SocketEnds
<1>9. InOrder(Append(r, d), at) /\ ToSet(Append(r, d)) = ToSet(r) \cup {d}
  <2>1. \A x \in ToSet(r) : ~Ends(x, d, at)
    BY <1>5, <1>8 DEF Ends, SocketEnds, ThreadKinds
  <2>2. \A q \in Seq(TaskSet) : InOrder(q, at) /\ (\A x \in ToSet(q) : ~Ends(x, d, at)) =>
          InOrder(Append(q, d), at) /\ ToSet(Append(q, d)) = ToSet(q) \cup {d}
    BY Appending, InOrderAppending
  <2> QED BY <1>3, <2>1, <2>2
<1>10. tasks'[Main] = Append(r, d) /\ \A u \in Worker : tasks'[u] = tasks[u]
  BY <1>6, MainTasks DEF IInv, TypeInv, Thread
<1>11. OrderInv'
  <2>1. \A x \in ToSet(r) : x.kind \notin ThreadKinds => x.of \in Socket /\ x.of # s
    BY <1>3, <1>8, MainTasks DEF Expected, MainKinds, SocketEnds
  <2>2. \A x \in ToSet(r) : Expected(x)'
    BY <1>3, <1>6, <1>7, <2>1, MainTasks DEF Expected, ThreadKinds
  <2>3. Expected(d)'
    BY <1>5, <1>7 DEF Expected, MainKinds
  <2>4. \A x \in ToSet(r) \cup {d} : Expected(x)'
    BY <2>2, <2>3
  <2> QED BY <1>6, <1>9, <1>10, <2>4 DEF OrderInv
<1>12. UserInv'
  BY <1>3, <1>6 DEF UserInv
<1>13. LifeInv'
  BY <1>4, <1>6, <1>7 DEF AliveInv, LifeInv
<1>14. QuitInv'
  <2>1. \A t \in Worker : \A m \in ToSet(tasks[t]) : m.kind = "disconnect" => m.of \in Socket
    BY TasksOfQueues DEF IInv, Thread, SocketKinds
  <2> QED BY <1>6, <1>7, <1>10, <2>1 DEF AliveInv, QuitInv
<1> QED BY <1>11, <1>12, <1>13, <1>14 DEF AliveInv

LEMMA RunDeleteSocketAlive ==
  ASSUME IInv, AliveInv, RunDeleteSocket PROVE AliveInv'
<1> DEFINE r == Tail(tasks[Main])
<1>1. PICK h : h = Head(tasks[Main])
  OBVIOUS
<1>2. MainRuns("deleteSocket")
  BY DEF RunDeleteSocket
<1>3. /\ h \in ToSet(tasks[Main]) /\ h.kind = "deleteSocket" /\ Expected(h)
      /\ InOrder(r, at) /\ r \in Seq(TaskSet) /\ main.socket = None
      /\ \A x \in ToSet(r) : x \in ToSet(tasks[Main]) /\ ~Ends(h, x, at)
  BY <1>1, <1>2, MainTakes
<1>4. PICK s \in Socket : s = h.of /\ life[s] = "destroyed"
  BY <1>3, MainTasks DEF Expected, ThreadKinds
<1>5. /\ life' = [life EXCEPT ![s] = "deleted"] /\ tasks' = [tasks EXCEPT ![Main] = r]
      /\ UNCHANGED <<phase, threads, main, listening, at>>
  BY <1>1, <1>4 DEF RunDeleteSocket, Rest
<1>6. \A x \in Socket : life'[x] = IF x = s THEN "deleted" ELSE life[x]
  BY <1>5 DEF IInv, TypeInv
<1>7. tasks'[Main] = r /\ \A u \in Worker : tasks'[u] = tasks[u]
  BY <1>5, MainTasks DEF IInv, TypeInv, Thread
<1>8. OrderInv'
  <2>1. \A x \in ToSet(r) : x.kind \in SocketEnds \cup {"received"} => x.of # s
    BY <1>3, <1>4 DEF Ends, SocketEnds
  <2>2. \A x \in ToSet(r) : x.kind \notin ThreadKinds => x.of \in Socket /\ x.of # s
    BY <1>3, <2>1, MainTasks DEF Expected, MainKinds, SocketEnds
  <2>3. \A x \in ToSet(r) : Expected(x)'
    BY <1>3, <1>5, <1>6, <2>2, MainTasks DEF Expected, ThreadKinds
  <2> QED BY <1>3, <1>5, <1>7, <2>3 DEF OrderInv
<1>9. UserInv'
  BY <1>3, <1>5 DEF UserInv
<1>10. LifeInv'
  BY <1>4, <1>5, <1>6 DEF AliveInv, LifeInv
<1>11. QuitInv'
  <2>1. \A t \in Worker : \A m \in ToSet(tasks[t]) : m.kind = "disconnect" => m.of \in Socket
    BY TasksOfQueues DEF IInv, Thread, SocketKinds
  <2> QED BY <1>5, <1>6, <1>7, <2>1 DEF AliveInv, QuitInv
<1> QED BY <1>8, <1>9, <1>10, <1>11 DEF AliveInv

LEMMA DestroyThreadAlive ==
  ASSUME IInv, AliveInv, NEW t \in threads, NEW r \in Seq(TaskSet), InOrder(r, at),
         \A x \in ToSet(r) : x \in ToSet(tasks[Main]) /\ (x.kind \in ThreadKinds => x.of # t),
         DestroyThread(t, [tasks EXCEPT ![Main] = r]), UNCHANGED <<main, listening, socketVars>>
  PROVE  AliveInv'
<1>1. t \in Worker /\ phase[t] = "open"
  BY DEF IInv, TypeInv, AliveInv, LifeInv
<1>2. PICK d \in TaskSet : d = Task("deleteThread", t, None) /\ d.kind = "deleteThread" /\ d.of = t
  <2>1. Task("deleteThread", t, None) \in TaskSet
    BY <1>1 DEF Task, TaskSet, ThreadKinds
  <2> QED BY <2>1 DEF Task
<1>3. tasks \in [Thread -> Seq(TaskSet)] /\ Main \in Thread
  BY MainTasks DEF IInv, TypeInv
<1>4. /\ threads' = threads \ {t} /\ tasks' = [tasks EXCEPT ![Main] = Append(r, d)]
      /\ UNCHANGED <<main, listening, life, at>>
  BY <1>2, <1>3 DEF DestroyThread, socketVars
<1>5. \A u \in Worker : phase'[u] = IF u = t THEN "told" ELSE phase[u]
  BY <1>1 DEF DestroyThread, IInv, TypeInv
<1>6. InOrder(Append(r, d), at) /\ ToSet(Append(r, d)) = ToSet(r) \cup {d}
  <2>1. \A x \in ToSet(r) : ~Ends(x, d, at)
    BY <1>2 DEF Ends, SocketEnds
  <2> QED BY <2>1, Appending, InOrderAppending
<1>7. tasks'[Main] = Append(r, d) /\ \A u \in Worker : tasks'[u] = tasks[u]
  BY <1>3, <1>4, MainTasks DEF Thread
<1>8. OrderInv'
  <2>1. ASSUME NEW x \in ToSet(r) PROVE Expected(x)'
    <3>1. Expected(x) /\ (x.kind \in ThreadKinds => x.of \in Worker /\ x.of # t)
      BY MainTasks
    <3> QED BY <1>4, <1>5, <3>1 DEF Expected, ThreadKinds
  <2>2. Expected(d)'
    BY <1>1, <1>2, <1>4, <1>5 DEF Expected, MainKinds, ThreadKinds
  <2>3. \A x \in ToSet(r) \cup {d} : Expected(x)'
    BY <2>1, <2>2
  <2> QED BY <1>4, <1>6, <1>7, <2>3 DEF OrderInv
<1>9. UserInv'
  BY <1>4 DEF AliveInv, UserInv
<1>10. LifeInv'
  BY <1>4, <1>5 DEF AliveInv, LifeInv, IInv, TypeInv
<1>11. QuitInv'
  BY <1>4, <1>7 DEF AliveInv, QuitInv
<1> QED BY <1>8, <1>9, <1>10, <1>11 DEF AliveInv

LEMMA RunDestroyThreadAlive ==
  ASSUME IInv, AliveInv, RunDestroyThread PROVE AliveInv'
<1> DEFINE r == Tail(tasks[Main])
<1>1. PICK h : h = Head(tasks[Main])
  OBVIOUS
<1>2. /\ MainRuns("destroyThread") /\ UNCHANGED <<main, listening, socketVars>>
      /\ DestroyThread(h.of, [tasks EXCEPT ![Main] = r])
  BY <1>1 DEF RunDestroyThread, Rest
<1>3. /\ h.kind = "destroyThread" /\ Expected(h) /\ InOrder(r, at) /\ r \in Seq(TaskSet)
      /\ \A x \in ToSet(r) : x \in ToSet(tasks[Main]) /\ ~Ends(h, x, at)
  BY <1>1, <1>2, MainTakes
<1>4. \A x \in ToSet(r) : x.kind \in ThreadKinds => x.of # h.of
  BY <1>3 DEF Ends, ThreadKinds
<1>5. h.of \in threads
  BY <1>3 DEF Expected
<1> QED BY <1>2, <1>3, <1>4, <1>5, DestroyThreadAlive

LEMMA QuitNextAlive ==
  ASSUME IInv, AliveInv, NEW t \in Worker, QuitNext(t) PROVE AliveInv'
<1>1. /\ t \in threads /\ ~listening /\ DestroyThread(t, tasks)
      /\ UNCHANGED <<main, listening, socketVars>>
  BY DEF QuitNext, IInv, ListInv
<1>2. tasks = [tasks EXCEPT ![Main] = tasks[Main]]
  BY MainTasks DEF IInv, TypeInv
<1>3. \A x \in ToSet(tasks[Main]) : x.kind \in ThreadKinds => x.of # t
  BY <1>1, MainTasks DEF Expected, ThreadKinds
<1>4. tasks[Main] \in Seq(TaskSet) /\ InOrder(tasks[Main], at)
  BY MainTasks DEF AliveInv, OrderInv
<1>5. DestroyThread(t, [tasks EXCEPT ![Main] = tasks[Main]])
  BY <1>1, <1>2
<1> QED BY <1>1, <1>3, <1>4, <1>5, DestroyThreadAlive

LEMMA RunDeleteThreadAlive ==
  ASSUME IInv, AliveInv, RunDeleteThread PROVE AliveInv'
<1> DEFINE r == Tail(tasks[Main])
<1>1. PICK h : h = Head(tasks[Main])
  OBVIOUS
<1>2. MainRuns("deleteThread")
  BY DEF RunDeleteThread
<1>3. /\ h \in ToSet(tasks[Main]) /\ h.kind = "deleteThread" /\ Expected(h)
      /\ InOrder(r, at) /\ r \in Seq(TaskSet) /\ main.socket = None
      /\ \A x \in ToSet(r) : x \in ToSet(tasks[Main]) /\ ~Ends(h, x, at)
  BY <1>1, <1>2, MainTakes
<1>4. PICK t \in Worker : t = h.of /\ t \notin threads /\ t # None
  BY <1>3, MainTasks DEF Expected, ThreadKinds
<1>5. /\ phase' = [phase EXCEPT ![t] = "deleted"] /\ tasks' = [tasks EXCEPT ![Main] = r]
      /\ life' = [s \in Socket |-> IF at[s] = t THEN "deleted" ELSE life[s]]
      /\ at' = [s \in Socket |-> IF at[s] = t THEN None ELSE at[s]]
      /\ UNCHANGED <<threads, main, listening>>
  BY <1>1, <1>4 DEF RunDeleteThread, Rest
<1>6. \A u \in Worker : phase'[u] = IF u = t THEN "deleted" ELSE phase[u]
  BY <1>5 DEF IInv, TypeInv
<1>7. tasks'[Main] = r /\ \A u \in Worker : tasks'[u] = tasks[u]
  BY <1>5, MainTasks DEF IInv, TypeInv, Thread
<1>8. \A x \in ToSet(r) : x.kind \notin ThreadKinds => x.of \in Socket /\ at[x.of] # t
  <2> SUFFICES ASSUME NEW x \in ToSet(r), x.kind \notin ThreadKinds, at[x.of] = t PROVE FALSE
    BY <1>3, MainTasks
  <2>1. Expected(x) /\ x.of \in Socket
    BY <1>3, MainTasks
  <2>2. life[x.of] = "open"
    BY <1>4, <2>1 DEF AliveInv, LifeInv
  <2>3. x.kind = "received"
    BY <2>1, <2>2 DEF Expected, MainKinds
  <2> QED BY <1>3, <1>4, <2>3 DEF Ends
<1>9. OrderInv'
  <2>1. ASSUME NEW x \in ToSet(r) PROVE Expected(x)'
    <3>1. Expected(x)
      BY <1>3, MainTasks
    <3>2. CASE x.kind \in ThreadKinds
      <4>1. x.of \in Worker /\ x.of # t
        BY <1>3, <1>4, <3>2, MainTasks DEF Ends, ThreadKinds
      <4> QED BY <1>5, <1>6, <3>1, <3>2, <4>1 DEF Expected, ThreadKinds
    <3>3. CASE x.kind \notin ThreadKinds
      <4>1. life'[x.of] = life[x.of]
        BY <1>5, <1>8, <3>3
      <4> QED BY <1>5, <3>1, <3>3, <4>1 DEF Expected, ThreadKinds
    <3> QED BY <3>2, <3>3
  <2>2. \A x \in ToSet(r) : x.kind = "received" => at'[x.of] \in {at[x.of], None}
    BY <1>5, <1>8 DEF ThreadKinds
  <2>3. InOrder(r, at')
    BY <1>3, <2>2, InOrderMoved
  <2> QED BY <1>7, <2>1, <2>3 DEF OrderInv
<1>10. UserInv'
  BY <1>3, <1>5 DEF UserInv
<1>11. LifeInv'
  BY <1>4, <1>5, <1>6 DEF AliveInv, LifeInv, IInv, TypeInv
<1>12. QuitInv'
  <2>1. \A u \in Worker : \A m \in ToSet(tasks[u]) : m.kind = "disconnect" => m.of \in Socket
    BY TasksOfQueues DEF IInv, Thread, SocketKinds
  <2> QED BY <1>5, <1>7, <2>1 DEF AliveInv, QuitInv
<1> QED BY <1>9, <1>10, <1>11, <1>12 DEF AliveInv

LEMMA InitAlive == Init => AliveInv
<1> SUFFICES ASSUME Init PROVE AliveInv
  OBVIOUS
<1>1. \A t \in Thread : tasks[t] = <<>> /\ ToSet(tasks[t]) = {}
  BY DEF Init, ToSet
<1>2. OrderInv
  BY <1>1 DEF OrderInv, InOrder, Thread
<1>3. UserInv /\ LifeInv /\ QuitInv
  BY DEF Init, UserInv, LifeInv, QuitInv, Idle, Doing
<1> QED BY <1>2, <1>3 DEF AliveInv

LEMMA StepAlive ==
  ASSUME Regular, IInv, AliveInv, [Next]_vars PROVE AliveInv'
<1>1. CASE \E s \in Socket, t \in Worker : IncomingNewThread(s, t) \/ IncomingToThread(s, t)
  BY <1>1, IncomingNewThreadAlive, IncomingToThreadAlive
<1>2. CASE \E s \in Socket :
        IncomingRefused(s) \/ ConnectionEnds(s) \/ ReadOverflows(s) \/ ReadEnds(s)
  BY <1>2, IncomingRefusedAlive, ConnectionEndsAlive, ReadEndsAlive
<1>3. CASE \E s \in Socket, b \in Buffer : ReadBegins(s, b)
  BY <1>3, ReadBeginsAlive
<1>4. CASE Transmit \/ DisconnectFromHost \/ Quit
  BY <1>4, TransmitAlive, DisconnectFromHostAlive, QuitAlive
<1>5. CASE MainStep
  BY <1>5, RunReceivedAlive, ReleaseBufferAlive, PostReleaseAlive, RunDestroySocketAlive,
     RunDeleteSocketAlive, RunDestroyThreadAlive, RunDeleteThreadAlive, QuitEndsAlive,
     QuitNextAlive DEF MainStep
<1>6. CASE \E t \in Worker : WorkerStep(t)
  BY <1>6, RunCreateAlive, RunReleaseAlive, RunDisconnectAlive, RunTransmitAlive,
     RunWriteAlive, FinishAlive DEF WorkerStep
<1>7. CASE UNCHANGED vars
  BY <1>7, QueuesKept DEF vars, socketVars
<1> QED BY <1>1, <1>2, <1>3, <1>4, <1>5, <1>6, <1>7 DEF Next

\* What a task of Main is about, and what the users of received() are given, has not been
\* deleted, however the three queues a socket is closed through and the arrays it received
\* overtake each other (initSocket(), destroySocket(), AbstractSocket::destroy(),
\* Thread::destroy()), as long as the rules for connections and for quit() are kept.
THEOREM NothingDeletedInUse ==
  ASSUME Regular PROVE Spec => []MainFindsItAlive
<1>1. Init => IInv /\ AliveInv
  BY InitInv, InitAlive
<1>2. IInv /\ AliveInv /\ [Next]_vars => (IInv /\ AliveInv)'
  BY StepInv, StepAlive DEF Regular
<1>3. IInv /\ AliveInv => MainFindsItAlive
  <2> SUFFICES ASSUME IInv, AliveInv PROVE MainFindsItAlive
    OBVIOUS
  <2>1. ASSUME NEW m \in ToSet(tasks[Main])
        PROVE  IF m.kind \in ThreadKinds THEN phase[m.of] # "deleted" ELSE life[m.of] # "deleted"
    <3>1. Expected(m) /\ (m.kind \in ThreadKinds => m.of \in Worker)
      BY MainTasks
    <3>2. \A t \in threads : phase[t] = "open"
      BY DEF AliveInv, LifeInv
    <3> QED BY <3>1, <3>2 DEF Expected, MainKinds, ThreadKinds
  <2>2. main.socket # None => life[main.socket] # "deleted"
    BY DEF AliveInv, UserInv
  <2> QED BY <2>1, <2>2 DEF MainFindsItAlive, ThreadKinds
<1> QED BY <1>1, <1>2, <1>3, PTL DEF Spec

(***************************************************************************)
(* The buffers.  A buffer is kept in one place, for one socket: it is being *)
(* received, on its way to Main, with the users, or on its way back.        *)
(***************************************************************************)
Keepers == ({"queue"} \X Thread) \cup ({"partial"} \X Socket) \cup {<<"users", Main>>}
Carriers == {"received", "release"}

Keeps(p, s, b) ==
  \/ p[1] = "queue" /\ \E m \in ToSet(tasks[p[2]]) : Holds(m, b) /\ m.of = s
  \/ p[1] = "partial" /\ partial[p[2]] = b /\ p[2] = s
  \/ p[1] = "users" /\ main.buffer = b /\ main.socket = s

Single(q) == \A i, j \in DOMAIN q : \A b \in Buffer : Holds(q[i], b) /\ Holds(q[j], b) => i = j

KeptOnce == \A p, q \in Keepers, r, s \in Socket, b \in Buffer :
  Keeps(p, r, b) /\ Keeps(q, s, b) => p = q /\ r = s

\* A buffer is new when it is allocated.
UsedInv ==
  /\ receiveList \in [Socket -> SUBSET used] /\ used \subseteq Buffer
  /\ \A p \in Keepers, s \in Socket, b \in Buffer : Keeps(p, s, b) => b \in used
  /\ \A s \in Socket : Strange(s) => receiveList[s] = {}

\* The list a buffer is in is that of the socket it is kept for.
OwnerInv == \A p \in Keepers, r, s \in Socket, b \in Buffer :
  Keeps(p, s, b) /\ b \in receiveList[r] => r = s

\* What an open socket has in its list is kept somewhere.
Served(s) == at[s] # None /\ Accepts(at[s])
CountedInv == \A s \in Socket : \A b \in receiveList[s] :
  Served(s) => \E p \in Keepers : Keeps(p, s, b)

\* What is being received, or is on its way to Main, is in the list.
GivenInv ==
  /\ \A m \in ToSet(tasks[Main]) : m.kind = "received" => m.buffer \in receiveList[m.of]
  /\ \A s \in Socket : partial[s] # None => partial[s] \in receiveList[s] /\ at[s] # None

HandInv ==
  /\ \A t \in Thread : Single(tasks[t])
  /\ main.buffer # None => main.socket \in Socket
  /\ main.pc = "releases" => at[main.socket] \in {main.thread, None}
  /\ main.pc \in {"create", "quits"} => main.buffer = None

BufferInv == KeptOnce /\ UsedInv /\ OwnerInv /\ CountedInv /\ GivenInv /\ HandInv

LEMMA KeeperFacts ==
  /\ \A p \in Keepers : /\ p = <<p[1], p[2]>> /\ p[1] \in {"queue", "partial", "users"}
                        /\ p[1] = "queue" => p[2] \in Thread
                        /\ p[1] = "partial" => p[2] \in Socket
                        /\ p[1] = "users" => p[2] = Main
  /\ \A t \in Thread : <<"queue", t>> \in Keepers
  /\ \A s \in Socket : <<"partial", s>> \in Keepers
  /\ <<"users", Main>> \in Keepers
BY DEF Keepers

LEMMA SingleAppending ==
  ASSUME NEW q \in Seq(TaskSet), NEW m \in TaskSet, Single(q),
         \A b \in Buffer : Holds(m, b) => \A x \in ToSet(q) : ~Holds(x, b)
  PROVE  Single(Append(q, m))
<1>1. DOMAIN Append(q, m) = DOMAIN q \cup {Len(q) + 1} /\ DOMAIN q = 1..Len(q)
  OBVIOUS
<1>2. /\ \A i \in 1..Len(q) : Append(q, m)[i] = q[i]
      /\ Append(q, m)[Len(q) + 1] = m
  OBVIOUS
<1>3. \A i \in DOMAIN q : q[i] \in ToSet(q)
  BY DEF ToSet
<1> DEFINE a == Append(q, m)
<1> HIDE DEF a
<1>4. ASSUME NEW i \in DOMAIN a, NEW j \in DOMAIN a, NEW b \in Buffer, Holds(a[i], b), Holds(a[j], b)
      PROVE  i = j
  <2>1. CASE i \in DOMAIN q /\ j \in DOMAIN q
    <3>1. a[i] = q[i] /\ a[j] = q[j]
      BY <1>1, <1>2, <2>1 DEF a
    <3> QED BY <1>4, <2>1, <3>1 DEF Single
  <2>2. CASE i \in DOMAIN q /\ j = Len(q) + 1
    <3>1. a[i] = q[i] /\ a[j] = m /\ q[i] \in ToSet(q)
      BY <1>1, <1>2, <1>3, <2>2 DEF a
    <3> QED BY <1>4, <3>1
  <2>3. CASE i = Len(q) + 1 /\ j \in DOMAIN q
    <3>1. a[i] = m /\ a[j] = q[j] /\ q[j] \in ToSet(q)
      BY <1>1, <1>2, <1>3, <2>3 DEF a
    <3> QED BY <1>4, <3>1
  <2> QED BY <1>1, <2>1, <2>2, <2>3 DEF a
<1> QED BY <1>4 DEF Single, a

LEMMA SingleRemoving ==
  ASSUME NEW q \in Seq(TaskSet), q # <<>>, Single(q)
  PROVE  /\ Single(Tail(q)) /\ ToSet(q) = {Head(q)} \cup ToSet(Tail(q))
         /\ \A b \in Buffer : Holds(Head(q), b) => \A x \in ToSet(Tail(q)) : ~Holds(x, b)
<1>1. /\ DOMAIN Tail(q) = 1..Len(Tail(q)) /\ DOMAIN q = 1..Len(q)
      /\ \A i \in 1..Len(Tail(q)) : /\ Tail(q)[i] = q[i + 1]
                                    /\ i + 1 \in 1..Len(q) /\ i \in Nat /\ i # 0
      /\ Head(q) = q[1] /\ 1 \in 1..Len(q)
      /\ \A i \in 1..Len(q) : i = 1 \/ (i - 1 \in 1..Len(Tail(q)) /\ Tail(q)[i - 1] = q[i])
  <2>1. Tail(q) \in Seq(TaskSet) /\ Len(Tail(q)) = Len(q) - 1 /\ Len(q) \in Nat \ {0}
    OBVIOUS
  <2> QED BY <2>1
<1> DEFINE r == Tail(q)
<1> HIDE DEF r
<1>2. Single(r)
  BY <1>1 DEF Single, r
<1>3. ASSUME NEW b \in Buffer, Holds(Head(q), b), NEW i \in DOMAIN r, Holds(r[i], b) PROVE FALSE
  BY <1>1, <1>3 DEF Single, r
<1>4. ToSet(q) = {Head(q)} \cup ToSet(r)
  <2>1. ASSUME NEW i \in DOMAIN q PROVE q[i] \in {Head(q)} \cup ToSet(r)
    <3>1. CASE i = 1
      BY <1>1, <3>1
    <3>2. CASE i # 1
      <4>1. i - 1 \in DOMAIN r /\ r[i - 1] = q[i]
        BY <1>1, <3>2 DEF r
      <4> QED BY <4>1 DEF ToSet
    <3> QED BY <3>1, <3>2
  <2>2. ASSUME NEW i \in DOMAIN r PROVE r[i] \in ToSet(q)
    <3>1. r[i] = q[i + 1] /\ i + 1 \in DOMAIN q
      BY <1>1 DEF r
    <3> QED BY <3>1 DEF ToSet
  <2>3. Head(q) \in ToSet(q)
    BY <1>1 DEF ToSet
  <2>4. ToSet(q) \subseteq {Head(q)} \cup ToSet(r)
    BY <2>1 DEF ToSet
  <2>5. ToSet(r) \subseteq ToSet(q)
    BY <2>2 DEF ToSet
  <2> QED BY <2>3, <2>4, <2>5
<1> QED BY <1>2, <1>3, <1>4 DEF ToSet, r

(***************************************************************************)
(* What a step may do to the buffers: move one, c, from f to q, for the     *)
(* socket o it was kept for before, or none (c is None); take some off the  *)
(* lists; and drop those that are not in the list of an open socket.        *)
(***************************************************************************)
Moves(f, q, o, c) ==
  /\ c \in Buffer => Keeps(f, o, c)
  /\ \A p \in Keepers, s \in Socket, b \in Buffer : Keeps(p, s, b)' =>
       (Keeps(p, s, b) /\ (p # f \/ b # c)) \/ (p = q /\ s = o /\ b = c)
NoneMoves == \A p \in Keepers, s \in Socket, b \in Buffer : Keeps(p, s, b)' => Keeps(p, s, b)
ListsShrink ==
  /\ used' = used /\ receiveList' \in [Socket -> SUBSET used]
  /\ \A s \in Socket : /\ receiveList'[s] \subseteq receiveList[s]
                       /\ Served(s)' => Served(s) \/ receiveList'[s] = {}
                       /\ Strange(s)' => Strange(s)
NoneLost == \A p \in Keepers, s \in Socket, b \in Buffer :
  Keeps(p, s, b) /\ b \in receiveList'[s] /\ Served(s)' => \E r \in Keepers : Keeps(r, s, b)'

LEMMA BufferMoves ==
  ASSUME IInv, AliveInv, BufferInv, NEW f \in Keepers, NEW q \in Keepers, NEW o \in Socket,
         NEW c \in Buffer \cup {None}, Moves(f, q, o, c), ListsShrink, NoneLost, GivenInv', HandInv'
  PROVE  BufferInv'
<1>0. \A p \in Keepers, s \in Socket, b \in Buffer :
        Keeps(p, s, b)' => (Keeps(p, s, b) /\ b # c) \/ (p = q /\ s = o /\ b = c)
  BY DEF BufferInv, KeptOnce, Moves
<1>1. \A b \in used : b \in Buffer
  BY DEF BufferInv, UsedInv
<1>2. KeptOnce'
  <2> SUFFICES ASSUME NEW p \in Keepers, NEW k \in Keepers, NEW r \in Socket, NEW s \in Socket,
                      NEW b \in Buffer, Keeps(p, r, b)', Keeps(k, s, b)'
               PROVE  p = k /\ r = s
    BY DEF KeptOnce
  <2>1. CASE b = c
    BY <1>0, <2>1
  <2>2. CASE b # c
    <3>1. Keeps(p, r, b) /\ Keeps(k, s, b)
      BY <1>0, <2>2
    <3> QED BY <3>1 DEF BufferInv, KeptOnce
  <2> QED BY <2>1, <2>2
<1>3. UsedInv'
  <2>1. c \in Buffer => c \in used
    BY DEF BufferInv, UsedInv, Moves
  <2>2. \A p \in Keepers, s \in Socket, b \in Buffer : Keeps(p, s, b)' => b \in used'
    BY <1>0, <2>1 DEF BufferInv, UsedInv, ListsShrink
  <2> QED BY <2>2 DEF BufferInv, UsedInv, ListsShrink
<1>4. OwnerInv'
  <2> SUFFICES ASSUME NEW p \in Keepers, NEW r \in Socket, NEW s \in Socket, NEW b \in Buffer,
                      Keeps(p, s, b)', b \in receiveList'[r]
               PROVE  r = s
    BY DEF OwnerInv
  <2>1. \E k \in Keepers : Keeps(k, s, b)
    BY <1>0 DEF Moves
  <2>2. b \in receiveList[r]
    BY DEF ListsShrink
  <2> QED BY <2>1, <2>2 DEF BufferInv, OwnerInv
<1>5. CountedInv'
  <2> SUFFICES ASSUME NEW s \in Socket, NEW b \in receiveList'[s], Served(s)'
               PROVE  \E p \in Keepers : Keeps(p, s, b)'
    BY DEF CountedInv
  <2>1. b \in Buffer /\ b \in receiveList[s]
    BY <1>1 DEF ListsShrink, BufferInv, UsedInv
  <2>2. Served(s)
    BY DEF ListsShrink
  <2>3. PICK p \in Keepers : Keeps(p, s, b)
    BY <2>1, <2>2 DEF BufferInv, CountedInv
  <2> QED BY <2>1, <2>3 DEF NoneLost
<1> QED BY <1>2, <1>3, <1>4, <1>5 DEF BufferInv

\* No buffer moves.
LEMMA BuffersStay ==
  ASSUME IInv, AliveInv, BufferInv, NoneMoves, ListsShrink, NoneLost, GivenInv', HandInv'
  PROVE  BufferInv'
<1>1. CASE Socket = {}
  BY <1>1 DEF BufferInv, KeptOnce, UsedInv, OwnerInv, CountedInv, ListsShrink
<1>2. CASE Socket # {}
  <2>1. PICK o \in Socket : TRUE
    BY <1>2
  <2>2. \A b \in Buffer : b # None
    OBVIOUS
  <2>3. Moves(<<"users", Main>>, <<"users", Main>>, o, None)
    BY <2>2 DEF Moves, NoneMoves
  <2> QED BY <2>3, KeeperFacts, BufferMoves
<1> QED BY <1>1, <1>2

(***************************************************************************)
(* Steps that neither move a buffer nor free one.                           *)
(***************************************************************************)
SameCarriers(u, q) ==
  /\ q \in Seq(TaskSet) /\ Single(q)
  /\ \A m \in TaskSet : m.kind \in Carriers => (m \in ToSet(q) <=> m \in ToSet(tasks[u]))
CarriersKept == \A t \in Thread : SameCarriers(t, tasks'[t])

LEMMA QueueTypes ==
  ASSUME IInv, BufferInv, NEW t \in Thread
  PROVE  /\ tasks[t] \in Seq(TaskSet) /\ Single(tasks[t]) /\ SameCarriers(t, tasks[t])
         /\ \A m \in ToSet(tasks[t]) : m \in TaskSet
<1>1. tasks[t] \in Seq(TaskSet) /\ TypeInv
  BY DEF IInv, TypeInv
<1> QED BY <1>1, TasksOfQueues DEF BufferInv, HandInv, SameCarriers

LEMMA SameAppending ==
  ASSUME NEW u \in Thread, NEW q, SameCarriers(u, q), NEW m \in TaskSet, m.kind \notin Carriers
  PROVE  SameCarriers(u, Append(q, m))
<1>1. q \in Seq(TaskSet) /\ Single(q)
  BY DEF SameCarriers
<1>2. Append(q, m) \in Seq(TaskSet) /\ ToSet(Append(q, m)) = ToSet(q) \cup {m}
  BY <1>1, Appending
<1>3. Single(Append(q, m))
  BY <1>1, SingleAppending DEF Holds, Carriers
<1> QED BY <1>2, <1>3 DEF SameCarriers

LEMMA SameTaking ==
  ASSUME IInv, BufferInv, NEW u \in Thread, tasks[u] # <<>>, Head(tasks[u]).kind \notin Carriers
  PROVE  SameCarriers(u, Tail(tasks[u]))
<1>1. tasks[u] \in Seq(TaskSet) /\ Single(tasks[u])
  BY QueueTypes
<1>2. /\ Tail(tasks[u]) \in Seq(TaskSet) /\ Single(Tail(tasks[u]))
      /\ ToSet(tasks[u]) = {Head(tasks[u])} \cup ToSet(Tail(tasks[u]))
  BY <1>1, Removing, SingleRemoving
<1> QED BY <1>2 DEF SameCarriers

LEMMA OneSame ==
  ASSUME IInv, BufferInv, NEW u \in Thread, NEW q, SameCarriers(u, q), tasks' = [tasks EXCEPT ![u] = q]
  PROVE  CarriersKept
<1>1. tasks'[u] = q /\ \A t \in Thread : t # u => tasks'[t] = tasks[t]
  BY DEF IInv, TypeInv
<1> QED BY <1>1, QueueTypes DEF CarriersKept

LEMMA NoneSame ==
  ASSUME IInv, BufferInv, tasks' = tasks PROVE CarriersKept
BY QueueTypes DEF CarriersKept

\* What the queues keep then.
LEMMA CarriersKeep ==
  ASSUME IInv, BufferInv, CarriersKept
  PROVE  /\ \A p \in Keepers, s \in Socket, b \in Buffer :
              p[1] = "queue" => (Keeps(p, s, b)' <=> Keeps(p, s, b))
         /\ \A m \in ToSet(tasks'[Main]) : m.kind = "received" => m \in ToSet(tasks[Main])
         /\ \A t \in Thread : Single(tasks'[t])
<1>1. \A t \in Thread, m \in TaskSet : m.kind \in Carriers =>
        (m \in ToSet(tasks'[t]) <=> m \in ToSet(tasks[t]))
  BY DEF CarriersKept, SameCarriers
<1>2. \A t \in Thread : /\ \A m \in ToSet(tasks[t]) : m \in TaskSet
                        /\ \A m \in ToSet(tasks'[t]) : m \in TaskSet
                        /\ Single(tasks'[t])
  <2>1. \A t \in Thread : tasks'[t] \in Seq(TaskSet) /\ Single(tasks'[t])
    BY DEF CarriersKept, SameCarriers
  <2>2. \A q \in Seq(TaskSet) : \A m \in ToSet(q) : m \in TaskSet
    BY DEF ToSet
  <2> QED BY <2>1, <2>2, QueueTypes
<1>3. \A t \in Thread, b \in Buffer, s \in Socket :
        (\E m \in ToSet(tasks'[t]) : Holds(m, b) /\ m.of = s)
          <=> (\E m \in ToSet(tasks[t]) : Holds(m, b) /\ m.of = s)
  BY <1>1, <1>2 DEF Holds, Carriers
<1>4. \A p \in Keepers, s \in Socket, b \in Buffer :
        p[1] = "queue" => (Keeps(p, s, b)' <=> Keeps(p, s, b))
  BY <1>3, KeeperFacts DEF Keeps
<1>5. \A m \in ToSet(tasks'[Main]) : m.kind = "received" => m \in ToSet(tasks[Main])
  BY <1>1, <1>2 DEF Carriers, Thread
<1> QED BY <1>2, <1>4, <1>5

LEMMA BuffersKept ==
  ASSUME IInv, AliveInv, BufferInv, CarriersKept, UNCHANGED readVars,
         main'.buffer = main.buffer, main.buffer # None => main'.socket = main.socket,
         main'.pc = "releases" => main.pc = "releases" /\ main' = main,
         main'.pc \in {"create", "quits"} => main.buffer = None,
         \A s \in Socket : /\ Served(s)' => Served(s) \/ receiveList[s] = {}
                           /\ Strange(s)' => Strange(s)
                           /\ at'[s] = at[s] \/ (main.pc = "create" /\ at'[s] # None)
  PROVE  BufferInv'
<1>1. \A p \in Keepers, s \in Socket, b \in Buffer : Keeps(p, s, b)' <=> Keeps(p, s, b)
  <2> SUFFICES ASSUME NEW p \in Keepers, NEW s \in Socket, NEW b \in Buffer
               PROVE  Keeps(p, s, b)' <=> Keeps(p, s, b)
    OBVIOUS
  <2>1. CASE p[1] = "queue"
    BY <2>1, CarriersKeep
  <2>2. CASE p[1] = "partial"
    BY <2>2 DEF Keeps, readVars
  <2>3. CASE p[1] = "users"
    BY <2>3 DEF Keeps
  <2> QED BY <2>1, <2>2, <2>3, KeeperFacts
<1>2. GivenInv'
  <2>1. \A s \in Socket : partial'[s] # None => partial'[s] \in receiveList'[s] /\ at'[s] # None
    BY DEF BufferInv, GivenInv, readVars
  <2> QED BY <2>1, CarriersKeep DEF BufferInv, GivenInv, readVars
<1>3. HandInv'
  <2>1. main'.pc = "releases" => at'[main'.socket] \in {main'.thread, None}
    BY DEF BufferInv, HandInv, IInv, TypeInv
  <2>2. main'.buffer # None => main'.socket \in Socket
    BY DEF BufferInv, HandInv
  <2> QED BY <2>1, <2>2, CarriersKeep DEF HandInv
<1>4. ListsShrink
  BY DEF BufferInv, UsedInv, ListsShrink, readVars
<1>5. NoneMoves /\ NoneLost
  BY <1>1 DEF NoneMoves, NoneLost
<1> QED BY <1>2, <1>3, <1>4, <1>5, BuffersStay

LEMMA ServedKept ==
  ASSUME UNCHANGED <<phase, at>>
  PROVE  \A s \in Socket : (Served(s)' <=> Served(s)) /\ at'[s] = at[s]
BY DEF Served, Accepts

LEMMA HandBuffers ==
  ASSUME IInv, AliveInv, BufferInv, NEW s \in Socket, NEW t \in Worker, main = Idle,
         life[s] = "none", Hand(s, t),
         \A u \in Worker : phase'[u] = phase[u] \/ (phase[u] = "none" /\ u \notin threads), listening
  PROVE  BufferInv'
<1>1. /\ tasks' = [tasks EXCEPT ![t] = Append(tasks[t], Task("create", s, None))]
      /\ main' = Doing("create", t, s, None)
      /\ life' = [life EXCEPT ![s] = "incoming"] /\ UNCHANGED <<listening, at, readVars>>
  BY DEF Hand, Post
<1>2. PICK m \in TaskSet : m = Task("create", s, None) /\ m.kind \notin Carriers
  <2>1. Task("create", s, None) \in TaskSet
    BY DEF Task, TaskSet, SocketKinds
  <2> QED BY <2>1 DEF Task, Carriers
<1>3. CarriersKept
  <2>1. t \in Thread
    BY DEF Thread
  <2> QED BY <1>1, <1>2, <2>1, QueueTypes, SameAppending, OneSame
<1>4. main'.buffer = main.buffer /\ main.buffer = None /\ main'.pc # "releases"
  BY <1>1 DEF Idle, Doing
<1>5. \A x \in Socket : (Served(x)' => Served(x)) /\ (Strange(x)' => Strange(x)) /\ at'[x] = at[x]
  <2>1. \A x \in Socket : Strange(x)' => Strange(x)
    BY <1>1 DEF Strange, IInv, TypeInv
  <2>2. \A x \in Socket : at[x] # None => at[x] \in threads /\ at[x] \in Worker
    BY DEF IInv, NoneStranded, TypeInv
  <2> QED BY <1>1, <2>1, <2>2 DEF Served, Accepts
<1> QED BY <1>1, <1>3, <1>4, <1>5, BuffersKept

LEMMA IncomingNewThreadBuffers ==
  ASSUME IInv, AliveInv, BufferInv, NEW s \in Socket, NEW t \in Worker, IncomingNewThread(s, t)
  PROVE  BufferInv'
<1>1. /\ main = Idle /\ listening /\ life[s] = "none" /\ phase[t] = "none" /\ Hand(s, t)
      /\ phase' = [phase EXCEPT ![t] = "open"]
  BY DEF IncomingNewThread, Comes, AnyOf, Strangers, Unborn
<1>2. t \notin threads /\ \A u \in Worker : u # t => phase'[u] = phase[u]
  BY <1>1 DEF IInv, TypeInv, ListInv
<1> QED BY <1>1, <1>2, HandBuffers

LEMMA IncomingToThreadBuffers ==
  ASSUME IInv, AliveInv, BufferInv, NEW s \in Socket, NEW t \in Worker, IncomingToThread(s, t)
  PROVE  BufferInv'
BY HandBuffers DEF IncomingToThread, Comes, AnyOf, Strangers

LEMMA IncomingRefusedBuffers ==
  ASSUME IInv, AliveInv, BufferInv, NEW s \in Socket, IncomingRefused(s) PROVE BufferInv'
<1>1. CarriersKept /\ main' = main /\ UNCHANGED <<phase, at, readVars>>
      /\ life' = [life EXCEPT ![s] = "refused"]
  BY NoneSame DEF IncomingRefused
<1>2. \A x \in Socket : Strange(x)' => Strange(x)
  BY <1>1 DEF Strange, IInv, TypeInv
<1>3. main.pc \in {"create", "quits"} => main.buffer = None
  BY DEF BufferInv, HandInv
<1> QED BY <1>1, <1>2, <1>3, ServedKept, BuffersKept

LEMMA RunCreateBuffers ==
  ASSUME IInv, AliveInv, BufferInv, NEW t \in Worker, RunCreate(t) PROVE BufferInv'
<1>1. tasks[t] # <<>> /\ Head(tasks[t]).kind = "create" /\ t \in Thread
  BY DEF RunCreate, Next1, Thread
<1>2. PICK s \in Socket : s = Head(tasks[t]).of
  BY <1>1, TakeOff DEF SocketKinds
<1>3. Head(tasks[t]) \in ToSet(tasks[t])
  BY <1>1, TakeOff
<1>4. main.pc = "create" /\ life[s] = "incoming"
  BY <1>1, <1>2, <1>3 DEF IInv, WaitInv, Waits, Waited
<1>5. /\ life' = [life EXCEPT ![s] = "open"] /\ at' = [at EXCEPT ![s] = t]
      /\ main' = Idle /\ UNCHANGED <<phase, readVars>>
  BY <1>2 DEF RunCreate
<1>6. CarriersKept
  BY <1>1, SameTaking, OneSame DEF RunCreate, Rest, Carriers
<1>7. \A x \in Socket : /\ Served(x)' => Served(x) \/ receiveList[x] = {}
                        /\ Strange(x)' => Strange(x)
                        /\ at'[x] = at[x] \/ at'[x] # None
  <2>1. \A x \in Socket : x # s => at'[x] = at[x] /\ life'[x] = life[x]
    BY <1>5
  <2>2. life'[s] = "open" /\ receiveList[s] = {}
    BY <1>4, <1>5 DEF IInv, TypeInv, BufferInv, UsedInv, Strange
  <2>3. at'[s] = t /\ t # None
    BY <1>5 DEF IInv, TypeInv
  <2> QED BY <1>5, <2>1, <2>2, <2>3 DEF Served, Accepts, Strange
<1>8. main.buffer = None
  BY <1>4 DEF BufferInv, HandInv
<1> QED BY <1>4, <1>5, <1>6, <1>7, <1>8, BuffersKept DEF Idle, Doing

\* Steps that change nothing of the sockets.
LEMMA SocketsKept ==
  ASSUME IInv, AliveInv, BufferInv, CarriersKept, UNCHANGED <<readVars, life, at>>,
         main'.buffer = main.buffer, main.buffer # None => main'.socket = main.socket,
         main' = main \/ main.buffer = None \/ main'.pc \notin {"create", "quits"},
         main'.pc = "releases" => main' = main,
         \A t \in Worker : Accepts(t)' => Accepts(t)
  PROVE  BufferInv'
<1>1. \A s \in Socket : at[s] \in Worker \cup {None}
  BY DEF IInv, TypeInv
<1>2. \A s \in Socket : (Served(s)' => Served(s)) /\ (Strange(s)' => Strange(s)) /\ at'[s] = at[s]
  BY <1>1 DEF Served, Accepts, Strange
<1>3. main'.pc \in {"create", "quits"} => main.buffer = None
  BY DEF BufferInv, HandInv
<1> QED BY <1>2, <1>3, BuffersKept

LEMMA FinishBuffers ==
  ASSUME IInv, AliveInv, BufferInv, NEW t \in Worker, Finish(t) PROVE BufferInv'
<1>1. CarriersKept /\ UNCHANGED <<main, readVars, life, at>>
  BY NoneSame DEF Finish, socketVars
<1>2. \A u \in Worker : Accepts(u)' => Accepts(u)
  BY DEF Finish, Accepts, IInv, TypeInv
<1> QED BY <1>1, <1>2, SocketsKept

LEMMA QuitBuffers ==
  ASSUME IInv, AliveInv, BufferInv, Quit PROVE BufferInv'
<1>1. CarriersKept /\ UNCHANGED <<phase, readVars, life, at>>
  BY NoneSame DEF Quit, socketVars
<1>2. main'.buffer = None /\ main.buffer = None /\ main'.pc = "quits"
  BY DEF Quit, Idle, Doing
<1> QED BY <1>1, <1>2, SocketsKept DEF Accepts

LEMMA QuitEndsBuffers ==
  ASSUME IInv, AliveInv, BufferInv, QuitEnds PROVE BufferInv'
<1>1. CarriersKept /\ UNCHANGED <<phase, readVars, life, at>>
  BY NoneSame DEF QuitEnds, socketVars
<1>2. main'.buffer = None /\ main.buffer = None /\ main'.pc = "loop"
  BY DEF QuitEnds, Idle, Doing, BufferInv, HandInv
<1> QED BY <1>1, <1>2, SocketsKept DEF Accepts

LEMMA TransmitBuffers ==
  ASSUME IInv, AliveInv, BufferInv, Transmit PROVE BufferInv'
<1>1. PICK t \in Worker : t = at[main.socket]
  BY DEF Transmit, IInv, TypeInv, PlaceInv
<1>2. PICK m \in TaskSet : m = Task("transmit", main.socket, main.buffer) /\ m.kind \notin Carriers
  <2>1. Task("transmit", main.socket, main.buffer) \in TaskSet
    BY DEF Transmit, IInv, TypeInv, MainSet, Task, TaskSet, SocketKinds
  <2> QED BY <2>1 DEF Task, Carriers
<1>3. CarriersKept
  <2>1. t \in Thread /\ tasks' = [tasks EXCEPT ![t] = Append(tasks[t], m)]
    BY <1>1, <1>2 DEF Transmit, Post, Thread
  <2> QED BY <1>2, <2>1, QueueTypes, SameAppending, OneSame
<1>4. UNCHANGED <<phase, readVars, life, at>> /\ main'.buffer = main.buffer
      /\ main'.socket = main.socket /\ main'.pc = "transmits"
  BY DEF Transmit, socketVars, IInv, TypeInv, MainSet
<1> QED BY <1>3, <1>4, SocketsKept DEF Accepts

LEMMA DisconnectFromHostBuffers ==
  ASSUME IInv, AliveInv, BufferInv, DisconnectFromHost PROVE BufferInv'
<1>1. PICK t \in Worker : t = at[main.socket]
  BY DEF DisconnectFromHost, IInv, TypeInv
<1>2. PICK m \in TaskSet : m = Task("disconnect", main.socket, None) /\ m.kind \notin Carriers
  <2>1. Task("disconnect", main.socket, None) \in TaskSet
    BY DEF DisconnectFromHost, IInv, TypeInv, MainSet, Task, TaskSet, SocketKinds
  <2> QED BY <2>1 DEF Task, Carriers
<1>3. CarriersKept
  <2>1. t \in Thread /\ tasks' = [tasks EXCEPT ![t] = Append(tasks[t], m)]
    BY <1>1, <1>2 DEF DisconnectFromHost, Post, Thread
  <2> QED BY <1>2, <2>1, QueueTypes, SameAppending, OneSame
<1>4. UNCHANGED <<phase, readVars, life, at>> /\ main'.buffer = main.buffer
      /\ main'.socket = main.socket /\ main'.pc = "handled"
  BY DEF DisconnectFromHost, socketVars, IInv, TypeInv, MainSet
<1> QED BY <1>3, <1>4, SocketsKept DEF Accepts

LEMMA RunTransmitBuffers ==
  ASSUME IInv, AliveInv, BufferInv, NEW t \in Worker, RunTransmit(t) PROVE BufferInv'
<1>1. tasks[t] # <<>> /\ Head(tasks[t]).kind = "transmit" /\ t \in Thread
  BY DEF RunTransmit, Next1, Thread
<1>2. PICK s \in Socket : s = Head(tasks[t]).of
  BY <1>1, TakeOff DEF SocketKinds
<1>3. PICK w \in TaskSet : w = Task("write", s, None) /\ w.kind \notin Carriers
  <2>1. Task("write", s, None) \in TaskSet
    BY DEF Task, TaskSet, SocketKinds
  <2> QED BY <2>1 DEF Task, Carriers
<1>4. SameCarriers(t, Tail(tasks[t]))
  BY <1>1, SameTaking DEF Carriers
<1>5. tasks' = [tasks EXCEPT ![t] = Tail(tasks[t])] \/ tasks' = [tasks EXCEPT ![t] = Append(Tail(tasks[t]), w)]
  BY <1>2, <1>3 DEF RunTransmit, Rest
<1>6. CarriersKept
  BY <1>1, <1>3, <1>4, <1>5, SameAppending, OneSame
<1>7. UNCHANGED <<phase, readVars, life, at>> /\ main'.buffer = main.buffer
      /\ main'.socket = main.socket /\ main'.pc = "answered"
  BY DEF RunTransmit, IInv, TypeInv, MainSet
<1> QED BY <1>6, <1>7, SocketsKept DEF Accepts

LEMMA RunWriteBuffers ==
  ASSUME IInv, AliveInv, BufferInv, NEW t \in Worker, RunWrite(t) PROVE BufferInv'
<1>1. CarriersKept
  BY SameTaking, OneSame DEF RunWrite, Next1, Rest, Carriers, Thread
<1> QED BY <1>1, SocketsKept DEF RunWrite, SocketStep, Accepts

LEMMA DestroyThreadBuffers ==
  ASSUME IInv, AliveInv, BufferInv, NEW t \in Worker, NEW q, SameCarriers(Main, q),
         DestroyThread(t, [tasks EXCEPT ![Main] = q]), UNCHANGED <<main, listening, socketVars>>
  PROVE  BufferInv'
<1>1. PICK d \in TaskSet : d = Task("deleteThread", t, None) /\ d.kind \notin Carriers
  <2>1. Task("deleteThread", t, None) \in TaskSet
    BY DEF Task, TaskSet, ThreadKinds
  <2> QED BY <2>1 DEF Task, Carriers
<1>2. tasks' = [tasks EXCEPT ![Main] = Append(q, d)]
  BY <1>1, MainTasks DEF DestroyThread, IInv, TypeInv
<1>3. CarriersKept
  BY <1>1, <1>2, MainTasks, SameAppending, OneSame
<1>4. \A u \in Worker : Accepts(u)' => Accepts(u)
  BY DEF DestroyThread, Accepts, IInv, TypeInv
<1> QED BY <1>3, <1>4, SocketsKept DEF socketVars

LEMMA RunDestroyThreadBuffers ==
  ASSUME IInv, AliveInv, BufferInv, RunDestroyThread PROVE BufferInv'
<1>1. PICK t \in Worker : t = Head(tasks[Main]).of
  BY TakeOff, MainTasks DEF RunDestroyThread, MainRuns, Next1, ThreadKinds
<1>2. DestroyThread(t, [tasks EXCEPT ![Main] = Tail(tasks[Main])]) /\ UNCHANGED <<main, listening, socketVars>>
  BY <1>1 DEF RunDestroyThread, Rest
<1>3. SameCarriers(Main, Tail(tasks[Main]))
  BY SameTaking, MainTasks DEF RunDestroyThread, MainRuns, Next1, Carriers
<1> QED BY <1>2, <1>3, DestroyThreadBuffers

LEMMA QuitNextBuffers ==
  ASSUME IInv, AliveInv, BufferInv, NEW t \in Worker, QuitNext(t) PROVE BufferInv'
<1>1. tasks = [tasks EXCEPT ![Main] = tasks[Main]] /\ SameCarriers(Main, tasks[Main])
  BY MainTasks, QueueTypes DEF IInv, TypeInv
<1>2. DestroyThread(t, tasks) /\ UNCHANGED <<main, listening, socketVars>>
  BY DEF QuitNext
<1>3. DestroyThread(t, [tasks EXCEPT ![Main] = tasks[Main]])
  BY <1>1, <1>2
<1> QED BY <1>1, <1>2, <1>3, DestroyThreadBuffers

LEMMA RunDestroySocketBuffers ==
  ASSUME IInv, AliveInv, BufferInv, RunDestroySocket PROVE BufferInv'
<1>1. MainRuns("destroySocket")
  BY DEF RunDestroySocket
<1>2. /\ Head(tasks[Main]) \in ToSet(tasks[Main]) /\ Head(tasks[Main]).kind = "destroySocket"
      /\ Expected(Head(tasks[Main])) /\ tasks[Main] # <<>>
  BY <1>1, MainTakes DEF MainRuns, Next1
<1>3. PICK s \in Socket : s = Head(tasks[Main]).of /\ life[s] = "closed"
  BY <1>2, MainTasks DEF Expected, ThreadKinds
<1>4. PICK d \in TaskSet : d = Task("deleteSocket", s, None) /\ d.kind \notin Carriers
  <2>1. Task("deleteSocket", s, None) \in TaskSet
    BY DEF Task, TaskSet, SocketKinds
  <2> QED BY <2>1 DEF Task, Carriers
<1>5. CarriersKept
  <2>1. SameCarriers(Main, Tail(tasks[Main])) /\ Main \in Thread
    BY <1>2, MainTasks, SameTaking DEF Carriers
  <2>2. tasks' = [tasks EXCEPT ![Main] = Append(Tail(tasks[Main]), d)]
    BY <1>3, <1>4 DEF RunDestroySocket
  <2> QED BY <1>4, <2>1, <2>2, SameAppending, OneSame
<1>6. UNCHANGED <<phase, main, at, readVars>> /\ life' = [life EXCEPT ![s] = "destroyed"]
  BY <1>3 DEF RunDestroySocket
<1>7. \A x \in Socket : Strange(x)' => Strange(x)
  BY <1>6 DEF Strange, IInv, TypeInv
<1>8. main.pc \in {"create", "quits"} => main.buffer = None
  BY DEF BufferInv, HandInv
<1> QED BY <1>5, <1>6, <1>7, <1>8, ServedKept, BuffersKept

(***************************************************************************)
(* The way of a buffer.                                                     *)
(***************************************************************************)
LEMMA ReadBeginsBuffers ==
  ASSUME IInv, AliveInv, BufferInv, NEW s \in Socket, NEW c \in Buffer, ReadBegins(s, c)
  PROVE  BufferInv'
<1>1. /\ life[s] = "open" /\ partial[s] = None /\ c \notin used
      /\ receiveList' = [receiveList EXCEPT ![s] = receiveList[s] \cup {c}]
      /\ partial' = [partial EXCEPT ![s] = c] /\ used' = used \cup {c}
      /\ UNCHANGED <<phase, main, tasks, life, at>>
  BY DEF ReadBegins, Event, AnyOf, SocketStep
<1>2. \A x \in Socket : partial'[x] = IF x = s THEN c ELSE partial[x]
  BY <1>1 DEF IInv, TypeInv
<1>3. \A x \in Socket : receiveList'[x] = IF x = s THEN receiveList[s] \cup {c} ELSE receiveList[x]
  BY <1>1 DEF BufferInv, UsedInv
<1> DEFINE q == <<"partial", s>>
<1>4. q \in Keepers /\ Keeps(q, s, c)'
  BY <1>2, KeeperFacts DEF Keeps
<1>5. \A p \in Keepers, x \in Socket, b \in Buffer :
        Keeps(p, x, b)' <=> Keeps(p, x, b) \/ (p = q /\ x = s /\ b = c)
  <2> SUFFICES ASSUME NEW p \in Keepers, NEW x \in Socket, NEW b \in Buffer
               PROVE  Keeps(p, x, b)' <=> Keeps(p, x, b) \/ (p = q /\ x = s /\ b = c)
    OBVIOUS
  <2>1. CASE p[1] = "partial"
    <3>1. p = <<"partial", p[2]>> /\ p[2] \in Socket
      BY <2>1, KeeperFacts
    <3>2. Keeps(p, x, b)' <=> partial'[p[2]] = b /\ p[2] = x
      BY <2>1 DEF Keeps
    <3>3. Keeps(p, x, b) <=> partial[p[2]] = b /\ p[2] = x
      BY <2>1 DEF Keeps
    <3> QED BY <1>1, <1>2, <3>1, <3>2, <3>3
  <2>2. CASE p[1] # "partial"
    BY <1>1, <2>2 DEF Keeps
  <2> QED BY <2>1, <2>2
<1>6. \A p \in Keepers, x \in Socket : ~Keeps(p, x, c)
  BY <1>1 DEF BufferInv, UsedInv
<1>7. \A x \in Socket : c \notin receiveList[x]
  BY <1>1 DEF BufferInv, UsedInv
<1>8. KeptOnce'
  BY <1>5, <1>6 DEF BufferInv, KeptOnce
<1>9. UsedInv'
  <2>1. receiveList' \in [Socket -> SUBSET used'] /\ used' \subseteq Buffer
    BY <1>1 DEF BufferInv, UsedInv
  <2>2. \A p \in Keepers, x \in Socket, b \in Buffer : Keeps(p, x, b)' => b \in used'
    BY <1>1, <1>5 DEF BufferInv, UsedInv
  <2>3. \A x \in Socket : Strange(x)' => receiveList'[x] = {}
    BY <1>1, <1>3 DEF BufferInv, UsedInv, Strange
  <2> QED BY <2>1, <2>2, <2>3 DEF UsedInv
<1>10. OwnerInv'
  <2> SUFFICES ASSUME NEW p \in Keepers, NEW r \in Socket, NEW x \in Socket, NEW b \in Buffer,
                      Keeps(p, x, b)', b \in receiveList'[r]
               PROVE  r = x
    BY DEF OwnerInv
  <2>1. CASE b = c
    BY <1>3, <1>5, <1>6, <1>7, <2>1
  <2>2. CASE b # c
    BY <1>3, <1>5, <2>2 DEF BufferInv, OwnerInv
  <2> QED BY <2>1, <2>2
<1>11. CountedInv'
  <2> SUFFICES ASSUME NEW x \in Socket, NEW b \in receiveList'[x], Served(x)'
               PROVE  \E p \in Keepers : Keeps(p, x, b)'
    BY DEF CountedInv
  <2>1. CASE b = c
    BY <1>3, <1>4, <1>7, <2>1
  <2>2. CASE b # c
    <3>1. b \in receiveList[x] /\ Served(x)
      BY <1>1, <1>3, <2>2 DEF Served, Accepts
    <3>2. b \in Buffer
      BY <3>1 DEF BufferInv, UsedInv
    <3>3. PICK p \in Keepers : Keeps(p, x, b)
      BY <3>1 DEF BufferInv, CountedInv
    <3> QED BY <1>5, <3>2, <3>3
  <2> QED BY <2>1, <2>2
<1>12. GivenInv'
  <2>1. \A m \in ToSet(tasks[Main]) : m.kind = "received" => m.of \in Socket
    BY MainTasks DEF ThreadKinds
  <2>2. \A m \in ToSet(tasks'[Main]) : m.kind = "received" => m.buffer \in receiveList'[m.of]
    BY <1>1, <1>3, <2>1 DEF BufferInv, GivenInv
  <2>3. at[s] # None
    BY <1>1 DEF IInv, PlaceInv
  <2>4. \A x \in Socket : partial'[x] # None => partial'[x] \in receiveList'[x] /\ at'[x] # None
    BY <1>1, <1>2, <1>3, <2>3 DEF BufferInv, GivenInv
  <2> QED BY <2>2, <2>4 DEF GivenInv
<1>13. HandInv'
  BY <1>1 DEF BufferInv, HandInv
<1> QED BY <1>8, <1>9, <1>10, <1>11, <1>12, <1>13 DEF BufferInv

\* What the queues keep after one of them has changed.
LEMMA KeepsInQueue ==
  ASSUME NEW u \in Thread, NEW r \in Seq(TaskSet), tasks'[u] = r,
         \A t \in Thread : t # u => tasks'[t] = tasks[t]
  PROVE  \A p \in Keepers, s \in Socket, b \in Buffer : p[1] = "queue" =>
           /\ p = <<"queue", p[2]>>
           /\ p[2] # u => (Keeps(p, s, b)' <=> Keeps(p, s, b))
           /\ p[2] = u => (Keeps(p, s, b)' <=> \E m \in ToSet(r) : Holds(m, b) /\ m.of = s)
           /\ p[2] = u => (Keeps(p, s, b) <=> \E m \in ToSet(tasks[u]) : Holds(m, b) /\ m.of = s)
<1> SUFFICES ASSUME NEW p \in Keepers, NEW s \in Socket, NEW b \in Buffer, p[1] = "queue"
             PROVE  /\ p = <<"queue", p[2]>>
                    /\ p[2] # u => (Keeps(p, s, b)' <=> Keeps(p, s, b))
                    /\ p[2] = u => (Keeps(p, s, b)' <=> \E m \in ToSet(r) : Holds(m, b) /\ m.of = s)
                    /\ p[2] = u => (Keeps(p, s, b) <=> \E m \in ToSet(tasks[u]) : Holds(m, b) /\ m.of = s)
  OBVIOUS
<1>1. p[2] \in Thread /\ p[1] # "partial" /\ p[1] # "users" /\ p = <<"queue", p[2]>>
  BY KeeperFacts
<1>2. Keeps(p, s, b) <=> \E m \in ToSet(tasks[p[2]]) : Holds(m, b) /\ m.of = s
  BY DEF Keeps
<1>3. Keeps(p, s, b)' <=> \E m \in ToSet(tasks'[p[2]]) : Holds(m, b) /\ m.of = s
  BY DEF Keeps
<1> QED BY <1>1, <1>2, <1>3

LEMMA ReadEndsBuffers ==
  ASSUME IInv, AliveInv, BufferInv, NEW s \in Socket, ReadEnds(s) PROVE BufferInv'
<1>1. PICK c \in Buffer : c = partial[s]
  BY DEF ReadEnds, IInv, TypeInv
<1>2. PICK m \in TaskSet : m = Task("received", s, c) /\ m.kind = "received" /\ m.of = s /\ m.buffer = c
  <2>1. Task("received", s, c) \in TaskSet
    BY DEF Task, TaskSet, SocketKinds
  <2> QED BY <2>1 DEF Task
<1>3. PICK r \in Seq(TaskSet) : r = Append(tasks[Main], m) /\ ToSet(r) = ToSet(tasks[Main]) \cup {m}
  <2>1. /\ Append(tasks[Main], m) \in Seq(TaskSet)
        /\ ToSet(Append(tasks[Main], m)) = ToSet(tasks[Main]) \cup {m}
    BY MainTasks, Appending
  <2> QED BY <2>1
<1>4. /\ Main \in Thread /\ tasks' = [tasks EXCEPT ![Main] = r] /\ tasks'[Main] = r
      /\ \A t \in Thread : t # Main => tasks'[t] = tasks[t]
  BY <1>1, <1>2, <1>3, MainTasks DEF ReadEnds, Post, IInv, TypeInv
<1>5. /\ partial' = [partial EXCEPT ![s] = None]
      /\ UNCHANGED <<phase, main, life, at, receiveList, used>>
  BY DEF ReadEnds, SocketStep
<1>6. \A x \in Socket : partial'[x] = IF x = s THEN None ELSE partial[x]
  BY <1>5 DEF IInv, TypeInv
<1> DEFINE f == <<"partial", s>>
           q == <<"queue", Main>>
<1>7. f \in Keepers /\ q \in Keepers /\ f # q /\ Keeps(f, s, c)
  BY <1>1, <1>4, KeeperFacts DEF Keeps
<1>8. \A b \in Buffer : Holds(m, b) <=> b = c
  BY <1>2 DEF Holds
<1>9. \A p \in Keepers, x \in Socket, b \in Buffer : p[1] = "queue" =>
         /\ p = <<"queue", p[2]>>
         /\ p[2] # Main => (Keeps(p, x, b)' <=> Keeps(p, x, b))
         /\ p[2] = Main => (Keeps(p, x, b)' <=> \E k \in ToSet(r) : Holds(k, b) /\ k.of = x)
         /\ p[2] = Main => (Keeps(p, x, b) <=> \E k \in ToSet(tasks[Main]) : Holds(k, b) /\ k.of = x)
  BY <1>4, KeepsInQueue
<1>10. ASSUME NEW p \in Keepers, NEW x \in Socket, NEW b \in Buffer
       PROVE  Keeps(p, x, b)' <=> (Keeps(p, x, b) /\ p # f) \/ (p = q /\ x = s /\ b = c)
  <2>1. CASE p[1] = "partial"
    <3>1. p = <<"partial", p[2]>> /\ p[2] \in Socket /\ p # q
      BY <2>1, KeeperFacts
    <3>2. Keeps(p, x, b)' <=> partial'[p[2]] = b /\ p[2] = x
      BY <2>1 DEF Keeps
    <3>3. Keeps(p, x, b) <=> partial[p[2]] = b /\ p[2] = x
      BY <2>1 DEF Keeps
    <3> QED BY <1>1, <1>6, <3>1, <3>2, <3>3
  <2>2. CASE p[1] = "users"
    <3>1. p # q /\ p # f
      BY <2>2
    <3> QED BY <1>5, <2>2, <3>1 DEF Keeps
  <2>3. CASE p[1] = "queue"
    <3>1. p # f
      BY <2>3
    <3>2. CASE p[2] # Main
      BY <1>9, <2>3, <3>1, <3>2
    <3>3. CASE p[2] = Main
      <4>1. p = q
        BY <1>9, <2>3, <3>3
      <4>2. Keeps(p, x, b)' <=> \E k \in ToSet(r) : Holds(k, b) /\ k.of = x
        BY <1>9, <2>3, <3>3
      <4>3. Keeps(p, x, b) <=> \E k \in ToSet(tasks[Main]) : Holds(k, b) /\ k.of = x
        BY <1>9, <2>3, <3>3
      <4> QED BY <1>2, <1>3, <1>8, <3>1, <4>1, <4>2, <4>3
    <3> QED BY <3>2, <3>3
  <2> QED BY <2>1, <2>2, <2>3, KeeperFacts
<1>11. \A b \in Buffer : Holds(m, b) => \A k \in ToSet(tasks[Main]) : ~Holds(k, b)
  <2> SUFFICES ASSUME NEW k \in ToSet(tasks[Main]), Holds(k, c) PROVE FALSE
    BY <1>8
  <2>1. k.of \in Socket
    BY MainTasks DEF Holds, ThreadKinds
  <2>2. Keeps(q, k.of, c)
    BY DEF Keeps
  <2> QED BY <1>7, <2>1, <2>2 DEF BufferInv, KeptOnce
<1>12. HandInv'
  <2>1. Single(tasks[Main]) /\ tasks[Main] \in Seq(TaskSet)
    BY <1>4, QueueTypes
  <2>2. Single(r)
    BY <1>3, <1>11, <2>1, SingleAppending
  <2>3. \A t \in Thread : Single(tasks'[t])
    BY <1>4, <2>2 DEF BufferInv, HandInv
  <2> QED BY <1>5, <2>3 DEF BufferInv, HandInv
<1>13. GivenInv'
  <2>1. c \in receiveList[s]
    BY <1>1 DEF BufferInv, GivenInv
  <2>2. \A k \in ToSet(r) : k.kind = "received" => k.buffer \in receiveList[k.of]
    BY <1>2, <1>3, <2>1 DEF BufferInv, GivenInv
  <2>3. \A x \in Socket : partial'[x] # None => partial'[x] \in receiveList'[x] /\ at'[x] # None
    BY <1>5, <1>6 DEF BufferInv, GivenInv
  <2> QED BY <1>4, <1>5, <2>2, <2>3 DEF GivenInv
<1>14. ListsShrink
  BY <1>5 DEF BufferInv, UsedInv, Served, Accepts, Strange, ListsShrink
<1>15. NoneLost
  <2> SUFFICES ASSUME NEW p \in Keepers, NEW x \in Socket, NEW b \in Buffer, Keeps(p, x, b)
               PROVE  \E k \in Keepers : Keeps(k, x, b)'
    BY DEF NoneLost
  <2>1. CASE p = f
    <3>1. x = s /\ b = c
      BY <1>1, <2>1 DEF Keeps
    <3> QED BY <1>7, <1>10, <3>1
  <2>2. CASE p # f
    BY <1>10, <2>2
  <2> QED BY <2>1, <2>2
<1>16. Moves(f, q, s, c)
  BY <1>7, <1>10 DEF Moves
<1> HIDE DEF f, q
<1> QED BY <1>7, <1>12, <1>13, <1>14, <1>15, <1>16, BufferMoves

\* What the queues keep after the first task, which carries a buffer, was taken from one.
LEMMA TakingCarrier ==
  ASSUME IInv, BufferInv, NEW u \in Thread, tasks[u] # <<>>, NEW h, h = Head(tasks[u]),
         NEW r, r = Tail(tasks[u]), h.kind \in Carriers
  PROVE  /\ r \in Seq(TaskSet) /\ Single(r) /\ ToSet(tasks[u]) = {h} \cup ToSet(r)
         /\ h \in ToSet(tasks[u]) /\ h.of \in Socket /\ h.buffer \in Buffer \cup {None}
         /\ \A b \in Buffer : Holds(h, b) <=> b = h.buffer
         /\ \A k \in ToSet(r), b \in Buffer : Holds(k, b) => b # h.buffer
<1>1. tasks[u] \in Seq(TaskSet) /\ Single(tasks[u])
  BY QueueTypes
<1>2. /\ r \in Seq(TaskSet) /\ Single(r) /\ ToSet(tasks[u]) = {h} \cup ToSet(r)
      /\ \A b \in Buffer : Holds(h, b) => \A x \in ToSet(r) : ~Holds(x, b)
  BY <1>1, Removing, SingleRemoving
<1>3. h \in TaskSet /\ h.of \in Socket
  BY TakeOff DEF Carriers, SocketKinds
<1>4. h.buffer \in Buffer \cup {None}
  BY <1>3 DEF TaskSet
<1>5. \A b \in Buffer : Holds(h, b) <=> b = h.buffer
  BY DEF Holds, Carriers
<1> QED BY <1>2, <1>3, <1>4, <1>5

Taken(f, s, c) ==
  /\ c \in Buffer => Keeps(f, s, c)
  /\ \A p \in Keepers, x \in Socket, b \in Buffer : p[1] # "users" =>
       /\ Keeps(p, x, b)' => Keeps(p, x, b) /\ (p # f \/ b # c)
       /\ Keeps(p, x, b) => Keeps(p, x, b)' \/ (x = s /\ b = c)

LEMMA TakingBuffers ==
  ASSUME IInv, BufferInv, NEW u \in Thread, tasks[u] # <<>>, NEW h, h = Head(tasks[u]),
         h.kind \in Carriers, NEW r, r = Tail(tasks[u]), NEW s, s = h.of, NEW c, c = h.buffer,
         tasks' = [tasks EXCEPT ![u] = r], partial' = partial
  PROVE  Taken(<<"queue", u>>, s, c)
<1>1. r \in Seq(TaskSet)
  BY TakingCarrier
<1>2. tasks'[u] = r /\ \A t \in Thread : t # u => tasks'[t] = tasks[t]
  BY <1>1 DEF IInv, TypeInv
<1>3. /\ ToSet(tasks[u]) = {h} \cup ToSet(r)
      /\ \A b \in Buffer : Holds(h, b) <=> b = c
      /\ \A k \in ToSet(r), b \in Buffer : Holds(k, b) => b # c
  <2>1. /\ ToSet(tasks[u]) = {h} \cup ToSet(r)
        /\ \A b \in Buffer : Holds(h, b) <=> b = h.buffer
        /\ \A k \in ToSet(r), b \in Buffer : Holds(k, b) => b # h.buffer
    BY TakingCarrier, ZenonT(30)
  <2> QED BY <2>1
<1>4. ASSUME NEW p \in Keepers, NEW x \in Socket, NEW b \in Buffer, p[1] # "users"
      PROVE  /\ Keeps(p, x, b)' => Keeps(p, x, b) /\ (p # <<"queue", u>> \/ b # c)
             /\ Keeps(p, x, b) => Keeps(p, x, b)' \/ (x = s /\ b = c)
  <2>1. CASE p[1] = "partial"
    <3>1. Keeps(p, x, b)' <=> Keeps(p, x, b)
      BY <2>1 DEF Keeps
    <3> QED BY <2>1, <3>1
  <2>2. CASE p[1] = "queue" /\ p[2] # u
    <3>1. Keeps(p, x, b)' <=> Keeps(p, x, b)
      BY <1>1, <1>2, <2>2, KeepsInQueue
    <3>2. p # <<"queue", u>>
      BY <2>2
    <3> QED BY <3>1, <3>2
  <2>3. CASE p[1] = "queue" /\ p[2] = u
    <3>1. Keeps(p, x, b)' <=> \E m \in ToSet(r) : Holds(m, b) /\ m.of = x
      BY <1>2, <2>3 DEF Keeps
    <3>2. Keeps(p, x, b) <=> \E m \in ToSet(tasks[u]) : Holds(m, b) /\ m.of = x
      BY <2>3 DEF Keeps
    <3>3. Keeps(p, x, b)' => Keeps(p, x, b) /\ b # c
      BY <1>3, <3>1, <3>2
    <3>4. Keeps(p, x, b) => Keeps(p, x, b)' \/ (x = s /\ b = c)
      BY <1>3, <3>1, <3>2
    <3> QED BY <3>3, <3>4
  <2> QED BY <1>4, <2>1, <2>2, <2>3, KeeperFacts
<1>5. c \in Buffer => Keeps(<<"queue", u>>, s, c)
  BY <1>3 DEF Keeps
<1> QED BY <1>4, <1>5 DEF Taken

LEMMA RunReceivedBuffers ==
  ASSUME IInv, AliveInv, BufferInv, RunReceived PROVE BufferInv'
<1>1. PICK h : h = Head(tasks[Main])
  OBVIOUS
<1>2. PICK r : r = Tail(tasks[Main])
  OBVIOUS
<1>3. /\ main = Idle /\ tasks[Main] # <<>> /\ h.kind = "received" /\ Main \in Thread
      /\ main' = Doing("handles", None, h.of, h.buffer)
      /\ tasks' = [tasks EXCEPT ![Main] = r] /\ UNCHANGED <<phase, life, at, readVars>>
  BY <1>1, <1>2, MainTasks DEF RunReceived, MainRuns, Next1, Rest, socketVars
<1>4. h.kind \in Carriers /\ partial' = partial
  BY <1>3 DEF Carriers, readVars
<1>5. /\ r \in Seq(TaskSet) /\ Single(r) /\ ToSet(tasks[Main]) = {h} \cup ToSet(r)
      /\ h.of \in Socket /\ h.buffer \in Buffer \cup {None}
  BY <1>1, <1>2, <1>3, <1>4, TakingCarrier
<1>6. PICK s \in Socket : s = h.of
  BY <1>5
<1>7. PICK c \in Buffer \cup {None} : c = h.buffer
  BY <1>5
<1>8. tasks'[Main] = r /\ \A t \in Thread : t # Main => tasks'[t] = tasks[t]
  BY <1>3 DEF IInv, TypeInv
<1> DEFINE f == <<"queue", Main>>
           q == <<"users", Main>>
<1>9. f \in Keepers /\ q \in Keepers
  BY <1>3, KeeperFacts
<1>10. Taken(f, s, c)
  BY <1>1, <1>2, <1>3, <1>4, <1>6, <1>7, TakingBuffers
<1>11. \A x \in Socket, b \in Buffer : /\ Keeps(q, x, b)' <=> x = s /\ b = c
                                       /\ ~Keeps(q, x, b)
  BY <1>3, <1>6, <1>7 DEF Keeps, Idle, Doing
<1>12. \A p \in Keepers : p[1] = "users" => p = q
  BY KeeperFacts
<1>13. Moves(f, q, s, c)
  BY <1>10, <1>11, <1>12 DEF Moves, Taken
<1>14. NoneLost
  BY <1>9, <1>10, <1>11, <1>12 DEF NoneLost, Taken
<1>15. ListsShrink
  BY <1>3 DEF BufferInv, UsedInv, readVars, Served, Accepts, Strange, ListsShrink
<1>16. HandInv'
  <2>1. \A t \in Thread : Single(tasks'[t])
    BY <1>5, <1>8 DEF BufferInv, HandInv
  <2> QED BY <1>3, <1>5, <2>1 DEF HandInv, Doing
<1>17. GivenInv'
  BY <1>3, <1>5, <1>8 DEF BufferInv, GivenInv, readVars
<1> HIDE DEF f, q
<1> QED BY <1>9, <1>13, <1>14, <1>15, <1>16, <1>17, BufferMoves

LEMMA RunReleaseBuffers ==
  ASSUME IInv, AliveInv, BufferInv, NEW t \in Worker, RunRelease(t) PROVE BufferInv'
<1>1. PICK h : h = Head(tasks[t])
  OBVIOUS
<1>2. PICK r : r = Tail(tasks[t])
  OBVIOUS
<1>3. /\ tasks[t] # <<>> /\ h.kind = "release" /\ t \in Thread /\ t # Main
      /\ receiveList' = [receiveList EXCEPT ![h.of] = receiveList[h.of] \ {h.buffer}]
      /\ tasks' = [tasks EXCEPT ![t] = r] /\ UNCHANGED <<phase, main, life, at, partial, used>>
  BY <1>1, <1>2 DEF RunRelease, Next1, Rest, Thread, SocketStep
<1>4. h.kind \in Carriers
  BY <1>3 DEF Carriers
<1>5. /\ r \in Seq(TaskSet) /\ Single(r)
      /\ h.of \in Socket /\ h.buffer \in Buffer \cup {None}
  BY <1>1, <1>2, <1>3, <1>4, TakingCarrier
<1>6. PICK s \in Socket : s = h.of
  BY <1>5
<1>7. PICK c \in Buffer \cup {None} : c = h.buffer
  BY <1>5
<1>8. tasks'[t] = r /\ \A u \in Thread : u # t => tasks'[u] = tasks[u]
  BY <1>3 DEF IInv, TypeInv
<1> DEFINE f == <<"queue", t>>
<1>9. f \in Keepers
  BY <1>3, KeeperFacts
<1>10. Taken(f, s, c)
  BY <1>1, <1>2, <1>3, <1>4, <1>6, <1>7, TakingBuffers
<1>11. \A p \in Keepers, x \in Socket, b \in Buffer : p[1] = "users" =>
         p # f /\ (Keeps(p, x, b)' <=> Keeps(p, x, b))
  BY <1>3 DEF Keeps
<1>12. \A x \in Socket : receiveList'[x] = IF x = s THEN receiveList[x] \ {c} ELSE receiveList[x]
  BY <1>3, <1>6, <1>7 DEF BufferInv, UsedInv
<1>13. Moves(f, f, s, c)
  BY <1>10, <1>11 DEF Moves, Taken
<1>14. NoneLost
  <2> SUFFICES ASSUME NEW p \in Keepers, NEW x \in Socket, NEW b \in Buffer, Keeps(p, x, b),
                      b \in receiveList'[x]
               PROVE  Keeps(p, x, b)'
    BY DEF NoneLost
  <2>1. CASE p[1] = "users"
    BY <1>11, <2>1
  <2>2. CASE p[1] # "users"
    <3>1. Keeps(p, x, b)' \/ (x = s /\ b = c)
      BY <1>10, <2>2 DEF Taken
    <3> QED BY <1>12, <3>1
  <2> QED BY <2>1, <2>2
<1>15. ListsShrink
  <2>1. receiveList' \in [Socket -> SUBSET used]
    BY <1>3 DEF BufferInv, UsedInv
  <2> QED BY <1>3, <1>12, <2>1 DEF Served, Accepts, Strange, ListsShrink
<1>16. HandInv'
  <2>1. \A u \in Thread : Single(tasks'[u])
    BY <1>5, <1>8 DEF BufferInv, HandInv
  <2> QED BY <1>3, <2>1 DEF BufferInv, HandInv
<1>17. \A p \in Keepers, x \in Socket, b \in Buffer : Keeps(p, x, b) /\ p # f => b # c
  <2>1. c \in Buffer => Keeps(f, s, c)
    BY <1>10 DEF Taken
  <2> QED BY <1>9, <2>1 DEF BufferInv, KeptOnce
<1>18. GivenInv'
  <2>1. ASSUME NEW m \in ToSet(tasks[Main]), m.kind = "received"
        PROVE  m.buffer \in receiveList'[m.of]
    <3>1. m.of \in Socket /\ m.buffer \in receiveList[m.of]
      BY <2>1, MainTasks DEF BufferInv, GivenInv, ThreadKinds
    <3>2. m.buffer \in Buffer
      BY <3>1 DEF BufferInv, UsedInv
    <3>3. Keeps(<<"queue", Main>>, m.of, m.buffer)
      BY <2>1 DEF Keeps, Holds
    <3>4. <<"queue", Main>> \in Keepers /\ <<"queue", Main>> # f
      BY <1>3, MainTasks, KeeperFacts
    <3>5. m.buffer # c
      BY <1>17, <3>1, <3>2, <3>3, <3>4
    <3> QED BY <1>12, <3>1, <3>5
  <2>2. ASSUME NEW x \in Socket, partial[x] # None
        PROVE  partial[x] \in receiveList'[x] /\ at[x] # None
    <3>1. partial[x] \in receiveList[x] /\ at[x] # None
      BY <2>2 DEF BufferInv, GivenInv
    <3>2. partial[x] \in Buffer
      BY <3>1 DEF BufferInv, UsedInv
    <3>3. Keeps(<<"partial", x>>, x, partial[x])
      BY DEF Keeps
    <3>4. <<"partial", x>> \in Keepers /\ <<"partial", x>> # f
      BY KeeperFacts
    <3>5. partial[x] # c
      BY <1>17, <3>2, <3>3, <3>4
    <3> QED BY <1>12, <3>1, <3>5
  <2>3. tasks'[Main] = tasks[Main]
    BY <1>3, <1>8, MainTasks
  <2> QED BY <1>3, <2>1, <2>2, <2>3 DEF GivenInv
<1> HIDE DEF f
<1> QED BY <1>9, <1>13, <1>14, <1>15, <1>16, <1>18, BufferMoves

LEMMA ReleaseBufferBuffers ==
  ASSUME IInv, AliveInv, BufferInv, ReleaseBuffer PROVE BufferInv'
<1>1. /\ main.pc \in {"handles", "answered", "handled"} /\ main.socket \in Socket
      /\ main' = IF at[main.socket] = None THEN Idle
                 ELSE Doing("releases", at[main.socket], main.socket, main.buffer)
      /\ tasks' = tasks /\ UNCHANGED <<phase, life, at, readVars>>
  BY DEF ReleaseBuffer, socketVars, IInv, TypeInv
<1>2. \A p \in Keepers, x \in Socket, b \in Buffer : p[1] # "users" => (Keeps(p, x, b)' <=> Keeps(p, x, b))
  BY <1>1 DEF Keeps, readVars
<1>3. \A p \in Keepers, x \in Socket, b \in Buffer : p[1] = "users" =>
        /\ Keeps(p, x, b) <=> main.buffer = b /\ main.socket = x
        /\ Keeps(p, x, b)' <=> main'.buffer = b /\ main'.socket = x
  BY DEF Keeps
<1>4. CASE at[main.socket] = None
  <2>1. main' = Idle /\ main'.buffer = None /\ main'.pc = "loop"
    BY <1>1, <1>4 DEF Idle, Doing
  <2>2. PICK s \in Socket : s = main.socket
    BY <1>1
  <2>3. \A p \in Keepers, x \in Socket, b \in Buffer : p[1] = "users" => ~Keeps(p, x, b)'
    BY <1>3, <2>1
  <2>4. ~Served(s)'
    BY <1>1, <1>4, <2>2 DEF Served
  <2>7. NoneMoves /\ NoneLost
    BY <1>2, <1>3, <2>2, <2>3, <2>4 DEF NoneMoves, NoneLost
  <2>5. ListsShrink
    BY <1>1 DEF BufferInv, UsedInv, readVars, Served, Accepts, Strange, ListsShrink
  <2>6. GivenInv' /\ HandInv'
    BY <1>1, <2>1 DEF BufferInv, GivenInv, HandInv, readVars
  <2> QED BY <2>5, <2>6, <2>7, BuffersStay
<1>5. CASE at[main.socket] # None
  <2>1. /\ main'.pc = "releases" /\ main'.thread = at[main.socket]
        /\ main'.socket = main.socket /\ main'.buffer = main.buffer
    BY <1>1, <1>5 DEF Doing
  <2>2. NoneMoves /\ NoneLost
    BY <1>2, <1>3, <2>1 DEF NoneMoves, NoneLost
  <2>3. ListsShrink
    BY <1>1 DEF BufferInv, UsedInv, readVars, Served, Accepts, Strange, ListsShrink
  <2>4. GivenInv'
    BY <1>1 DEF BufferInv, GivenInv, readVars
  <2>5. HandInv'
    BY <1>1, <2>1 DEF BufferInv, HandInv
  <2> QED BY <2>2, <2>3, <2>4, <2>5, BuffersStay
<1> QED BY <1>4, <1>5

LEMMA PostReleaseBuffers ==
  ASSUME IInv, AliveInv, BufferInv, PostRelease PROVE BufferInv'
<1>1. PICK t \in Worker : t = main.thread
  BY DEF PostRelease, IInv, TypeInv
<1>2. PICK s \in Socket : s = main.socket
  BY DEF PostRelease, IInv, TypeInv
<1>3. PICK c \in Buffer \cup {None} : c = main.buffer
  BY DEF IInv, TypeInv, MainSet
<1>4. /\ main.pc = "releases" /\ main' = Idle /\ UNCHANGED <<phase, life, at, readVars>>
      /\ main'.buffer = None /\ main'.pc = "loop"
  BY DEF PostRelease, socketVars, Idle, Doing
<1> DEFINE f == <<"users", Main>>
<1>5. f \in Keepers /\ \A p \in Keepers : p[1] = "users" <=> p = f
  BY KeeperFacts
<1>6. \A x \in Socket, b \in Buffer : /\ Keeps(f, x, b) <=> x = s /\ b = c
                                      /\ ~Keeps(f, x, b)'
  BY <1>2, <1>3, <1>4 DEF Keeps
<1>7. ListsShrink
  BY <1>4 DEF BufferInv, UsedInv, readVars, Served, Accepts, Strange, ListsShrink
<1>8. CASE Accepts(t)
  <2>1. PICK m \in TaskSet : m = Task("release", s, c) /\ m.kind = "release" /\ m.of = s /\ m.buffer = c
    <3>1. Task("release", s, c) \in TaskSet
      BY DEF Task, TaskSet, SocketKinds
    <3> QED BY <3>1 DEF Task
  <2>2. t \in Thread /\ tasks[t] \in Seq(TaskSet) /\ Single(tasks[t])
    BY QueueTypes DEF Thread
  <2>3. PICK r \in Seq(TaskSet) : r = Append(tasks[t], m) /\ ToSet(r) = ToSet(tasks[t]) \cup {m}
    <3>1. /\ Append(tasks[t], m) \in Seq(TaskSet)
          /\ ToSet(Append(tasks[t], m)) = ToSet(tasks[t]) \cup {m}
      BY <2>2, Appending
    <3> QED BY <3>1
  <2>4. tasks' = [tasks EXCEPT ![t] = r]
    BY <1>1, <1>2, <1>3, <1>8, <2>1, <2>3 DEF PostRelease, Post
  <2>5. tasks'[t] = r /\ \A u \in Thread : u # t => tasks'[u] = tasks[u]
    BY <2>2, <2>4 DEF IInv, TypeInv
  <2> DEFINE q == <<"queue", t>>
  <2>6. q \in Keepers /\ q # f
    BY <2>2, KeeperFacts
  <2>7. \A b \in Buffer : Holds(m, b) <=> b = c
    BY <2>1 DEF Holds
  <2>8. ASSUME NEW p \in Keepers, NEW x \in Socket, NEW b \in Buffer, p # f
        PROVE  Keeps(p, x, b)' <=> Keeps(p, x, b) \/ (p = q /\ x = s /\ b = c)
    <3>1. CASE p[1] = "partial"
      <4>1. (Keeps(p, x, b)' <=> Keeps(p, x, b)) /\ p # q
        BY <1>4, <3>1 DEF Keeps, readVars
      <4> QED BY <4>1
    <3>2. CASE p[1] = "queue" /\ p[2] # t
      <4>1. (Keeps(p, x, b)' <=> Keeps(p, x, b)) /\ p # q
        BY <2>2, <2>5, <3>2, KeepsInQueue
      <4> QED BY <4>1
    <3>3. CASE p[1] = "queue" /\ p[2] = t
      <4>1. Keeps(p, x, b)' <=> \E k \in ToSet(r) : Holds(k, b) /\ k.of = x
        BY <2>5, <3>3 DEF Keeps
      <4>2. Keeps(p, x, b) <=> \E k \in ToSet(tasks[t]) : Holds(k, b) /\ k.of = x
        BY <3>3 DEF Keeps
      <4>3. p = q
        BY <3>3, KeeperFacts
      <4> QED BY <2>1, <2>3, <2>7, <4>1, <4>2, <4>3
    <3> QED BY <1>5, <2>8, <3>1, <3>2, <3>3, KeeperFacts
  <2>9. Moves(f, q, s, c)
    BY <1>6, <2>8 DEF Moves
  <2>10. NoneLost
    BY <1>6, <2>6, <2>8 DEF NoneLost
  <2>11. \A b \in Buffer : Holds(m, b) => \A k \in ToSet(tasks[t]) : ~Holds(k, b)
    <3> SUFFICES ASSUME c \in Buffer, NEW k \in ToSet(tasks[t]), Holds(k, c) PROVE FALSE
      BY <2>7
    <3>1. k.of \in Socket
      BY <2>2, TasksOfQueues DEF Holds, IInv, SocketKinds
    <3>2. Keeps(q, k.of, c) /\ Keeps(f, s, c)
      BY <1>6 DEF Keeps
    <3> QED BY <1>5, <2>6, <3>1, <3>2 DEF BufferInv, KeptOnce
  <2>12. HandInv'
    <3>1. Single(r)
      BY <2>2, <2>3, <2>11, SingleAppending
    <3>2. \A u \in Thread : Single(tasks'[u])
      BY <2>5, <3>1 DEF BufferInv, HandInv
    <3> QED BY <1>4, <3>2 DEF HandInv
  <2>13. GivenInv'
    <3>1. tasks'[Main] = tasks[Main]
      BY <2>5, MainTasks
    <3> QED BY <1>4, <3>1 DEF BufferInv, GivenInv, readVars
  <2> HIDE DEF f, q
  <2> QED BY <1>5, <1>7, <2>6, <2>9, <2>10, <2>12, <2>13, BufferMoves
<1>9. CASE ~Accepts(t)
  <2>1. tasks' = tasks
    BY <1>1, <1>9 DEF PostRelease
  <2>2. \A p \in Keepers, x \in Socket, b \in Buffer : p # f => (Keeps(p, x, b)' <=> Keeps(p, x, b))
    BY <1>4, <1>5, <2>1 DEF Keeps, readVars
  <2>3. ~Served(s)'
    BY <1>1, <1>2, <1>4, <1>9 DEF Served, Accepts, BufferInv, HandInv
  <2>4. NoneMoves /\ NoneLost
    BY <1>6, <2>2, <2>3 DEF NoneMoves, NoneLost
  <2>5. GivenInv' /\ HandInv'
    BY <1>4, <2>1 DEF BufferInv, GivenInv, HandInv, readVars
  <2> QED BY <1>7, <2>4, <2>5, BuffersStay
<1> QED BY <1>8, <1>9

(***************************************************************************)
(* What ends with a socket.                                                 *)
(***************************************************************************)
LEMMA SamePosting ==
  ASSUME NEW u \in Thread, NEW q, SameCarriers(u, q), NEW m \in TaskSet, m.kind \notin Carriers
  PROVE  q \o <<m>> \in Seq(TaskSet) /\ SameCarriers(u, q \o <<m>>)
<1>1. q \in Seq(TaskSet) /\ SameCarriers(u, Append(q, m))
  BY SameAppending DEF SameCarriers
<1>2. q \o <<m>> = Append(q, m) /\ Append(q, m) \in Seq(TaskSet)
  BY <1>1, Concatenating
<1> QED BY <1>1, <1>2

LEMMA CloseBuffers ==
  ASSUME IInv, AliveInv, BufferInv, NEW s \in Socket, life[s] = "open",
         NEW queues, queues \in [Thread -> Seq(TaskSet)], queues[Main] = tasks[Main],
         \A t \in Worker : SameCarriers(t, queues[t]), Close(s, queues), SocketStep, used' = used
  PROVE  BufferInv'
<1>1. /\ life' = [life EXCEPT ![s] = "closed"] /\ at' = [at EXCEPT ![s] = None]
      /\ receiveList' = [receiveList EXCEPT ![s] = receiveList[s] \ {partial[s]}]
      /\ partial' = [partial EXCEPT ![s] = None]
      /\ tasks' = [queues EXCEPT ![Main] = tasks[Main] \o LastOne(s) \o <<Task("destroySocket", s, None)>>]
      /\ UNCHANGED <<phase, main>>
  BY DEF Close, SocketStep
<1>2. PICK t \in Worker : t = at[s]
  BY DEF IInv, TypeInv, PlaceInv
<1>3. PICK d \in TaskSet : d = Task("destroySocket", s, None) /\ d.kind \notin Carriers
  <2>1. Task("destroySocket", s, None) \in TaskSet
    BY DEF Task, TaskSet, SocketKinds
  <2> QED BY <2>1 DEF Task, Carriers
<1>4. PICK g \in TaskSet : g = Task("destroyThread", t, None) /\ g.kind \notin Carriers
  <2>1. Task("destroyThread", t, None) \in TaskSet
    BY DEF Task, TaskSet, ThreadKinds
  <2> QED BY <2>1 DEF Task, Carriers
<1>5. PICK q \in Seq(TaskSet) : q = tasks[Main] /\ SameCarriers(Main, q) /\ Main \in Thread
  BY MainTasks, QueueTypes
<1>6. PICK r \in Seq(TaskSet) : r = q \o LastOne(s) \o <<d>> /\ SameCarriers(Main, r)
  <2>1. CASE Sockets(t) = {s}
    <3>1. LastOne(s) = <<g>>
      BY <1>2, <1>4, <2>1 DEF LastOne
    <3>2. PICK p \in Seq(TaskSet) : p = q \o <<g>> /\ SameCarriers(Main, p)
      BY <1>4, <1>5, SamePosting
    <3>3. p \o <<d>> \in Seq(TaskSet) /\ SameCarriers(Main, p \o <<d>>)
      BY <1>3, <1>5, <3>2, SamePosting
    <3> QED BY <3>1, <3>2, <3>3
  <2>2. CASE Sockets(t) # {s}
    <3>1. LastOne(s) = <<>>
      BY <1>2, <2>2 DEF LastOne
    <3>2. q \o <<>> = q
      BY <1>3, <1>5, Concatenating
    <3>3. q \o <<d>> \in Seq(TaskSet) /\ SameCarriers(Main, q \o <<d>>)
      BY <1>3, <1>5, SamePosting
    <3> QED BY <3>1, <3>2, <3>3
  <2> QED BY <2>1, <2>2
<1>7. CarriersKept
  <2>1. tasks' = [queues EXCEPT ![Main] = r]
    BY <1>1, <1>3, <1>5, <1>6
  <2>2. tasks'[Main] = r /\ \A u \in Worker : tasks'[u] = queues[u]
    BY <1>5, <2>1 DEF Thread
  <2> QED BY <1>6, <2>2 DEF CarriersKept, Thread
<1>8. \A x \in Socket : IF x = s
        THEN life'[x] = "closed" /\ at'[x] = None /\ partial'[x] = None
             /\ receiveList'[x] = receiveList[x] \ {partial[x]}
        ELSE life'[x] = life[x] /\ at'[x] = at[x] /\ partial'[x] = partial[x]
             /\ receiveList'[x] = receiveList[x]
  BY <1>1 DEF IInv, TypeInv, BufferInv, UsedInv
<1> DEFINE f == <<"partial", s>>
<1>9. \A p \in Keepers, x \in Socket, b \in Buffer : Keeps(p, x, b)' <=> Keeps(p, x, b) /\ p # f
  <2> SUFFICES ASSUME NEW p \in Keepers, NEW x \in Socket, NEW b \in Buffer
               PROVE  Keeps(p, x, b)' <=> Keeps(p, x, b) /\ p # f
    OBVIOUS
  <2>1. CASE p[1] = "queue"
    <3>1. p # f
      BY <2>1
    <3> QED BY <1>7, <2>1, <3>1, CarriersKeep
  <2>2. CASE p[1] = "partial"
    <3>1. p = <<"partial", p[2]>> /\ p[2] \in Socket
      BY <2>2, KeeperFacts
    <3>2. Keeps(p, x, b)' <=> partial'[p[2]] = b /\ p[2] = x
      BY <2>2 DEF Keeps
    <3>3. Keeps(p, x, b) <=> partial[p[2]] = b /\ p[2] = x
      BY <2>2 DEF Keeps
    <3> QED BY <1>8, <3>1, <3>2, <3>3
  <2>3. CASE p[1] = "users"
    <3>1. p # f
      BY <2>3
    <3> QED BY <1>1, <2>3, <3>1 DEF Keeps
  <2> QED BY <2>1, <2>2, <2>3, KeeperFacts
<1>10. f \in Keepers /\ \A x \in Socket, b \in Buffer : Keeps(f, x, b) <=> x = s /\ b = partial[s]
  <2>1. f \in Keepers
    BY KeeperFacts
  <2>2. \A x \in Socket, b \in Buffer : Keeps(f, x, b) <=> x = s /\ b = partial[s]
    BY DEF Keeps
  <2> QED BY <2>1, <2>2
<1>11. NoneMoves
  BY <1>9 DEF NoneMoves
<1>12. NoneLost
  <2> SUFFICES ASSUME NEW p \in Keepers, NEW x \in Socket, NEW b \in Buffer, Keeps(p, x, b), Served(x)'
               PROVE  Keeps(p, x, b)'
    BY DEF NoneLost
  <2>1. x # s
    BY <1>8 DEF Served
  <2>2. p # f
    BY <1>10, <2>1
  <2> QED BY <1>9, <2>2
<1>13. ListsShrink
  <2>1. receiveList' \in [Socket -> SUBSET used]
    BY <1>1 DEF BufferInv, UsedInv
  <2>2. \A x \in Socket : Served(x)' => Served(x)
    BY <1>1, <1>8 DEF Served, Accepts
  <2>3. \A x \in Socket : Strange(x)' => Strange(x)
    BY <1>8 DEF Strange
  <2> QED BY <1>8, <2>1, <2>2, <2>3 DEF ListsShrink
<1>14. GivenInv'
  <2>1. ASSUME NEW m \in ToSet(tasks[Main]), m.kind = "received"
        PROVE  m.buffer \in receiveList'[m.of]
    <3>1. m.of \in Socket /\ m.buffer \in receiveList[m.of]
      BY <2>1, MainTasks DEF BufferInv, GivenInv, ThreadKinds
    <3>2. m.buffer \in Buffer
      BY <3>1 DEF BufferInv, UsedInv
    <3>3. Keeps(<<"queue", Main>>, m.of, m.buffer)
      BY <2>1 DEF Keeps, Holds
    <3>4. <<"queue", Main>> \in Keepers /\ <<"queue", Main>> # f
      BY <1>5, KeeperFacts
    <3>5. m.buffer # partial[s]
      BY <1>10, <3>1, <3>2, <3>3, <3>4 DEF BufferInv, KeptOnce
    <3> QED BY <1>8, <3>1, <3>5
  <2>2. \A x \in Socket : partial'[x] # None => partial'[x] \in receiveList'[x] /\ at'[x] # None
    BY <1>8 DEF BufferInv, GivenInv
  <2> QED BY <1>7, <2>1, <2>2, CarriersKeep DEF GivenInv
<1>15. HandInv'
  <2>1. main.pc = "releases" => main.socket \in Socket
    BY DEF IInv, TypeInv
  <2>2. main'.pc = "releases" => at'[main'.socket] \in {main'.thread, None}
    BY <1>1, <1>8, <2>1 DEF BufferInv, HandInv
  <2> QED BY <1>1, <1>7, <2>2, CarriersKeep DEF BufferInv, HandInv
<1> QED BY <1>11, <1>12, <1>13, <1>14, <1>15, BuffersStay

LEMMA ConnectionEndsBuffers ==
  ASSUME IInv, AliveInv, BufferInv, NEW s \in Socket, ConnectionEnds(s) \/ ReadOverflows(s)
  PROVE  BufferInv'
<1>1. life[s] = "open" /\ Close(s, tasks) /\ SocketStep /\ used' = used
  BY DEF ConnectionEnds, ReadOverflows, Event
<1>2. tasks \in [Thread -> Seq(TaskSet)] /\ \A t \in Worker : SameCarriers(t, tasks[t])
  BY QueueTypes DEF IInv, TypeInv, Thread
<1> QED BY <1>1, <1>2, CloseBuffers

LEMMA RunDisconnectBuffers ==
  ASSUME IInv, AliveInv, BufferInv, NEW t \in Worker, RunDisconnect(t) PROVE BufferInv'
<1>1. /\ tasks[t] # <<>> /\ Head(tasks[t]).kind = "disconnect" /\ t \in Thread
      /\ SocketStep /\ used' = used
  BY DEF RunDisconnect, Next1, Thread
<1>2. PICK s \in Socket : s = Head(tasks[t]).of
  BY <1>1, TakeOff DEF SocketKinds
<1>3. SameCarriers(t, Tail(tasks[t])) /\ Tail(tasks[t]) \in Seq(TaskSet)
  BY <1>1, SameTaking DEF Carriers, SameCarriers
<1>4. CASE life[s] = "open"
  <2>1. PICK queues : queues = Rest(t) /\ Close(s, queues)
    BY <1>2, <1>4 DEF RunDisconnect
  <2>2. tasks \in [Thread -> Seq(TaskSet)] /\ Main # t /\ Main \in Thread
    BY MainTasks DEF IInv, TypeInv
  <2>3. /\ queues \in [Thread -> Seq(TaskSet)] /\ queues[t] = Tail(tasks[t])
        /\ \A u \in Thread : u # t => queues[u] = tasks[u]
    BY <1>1, <1>3, <2>1, <2>2 DEF Rest
  <2>4. queues[Main] = tasks[Main] /\ \A u \in Worker : SameCarriers(u, queues[u])
    BY <1>3, <2>2, <2>3, QueueTypes DEF Thread
  <2> QED BY <1>1, <1>4, <2>1, <2>3, <2>4, CloseBuffers
<1>5. CASE life[s] # "open"
  <2>1. tasks' = [tasks EXCEPT ![t] = Tail(tasks[t])] /\ UNCHANGED <<phase, main, life, at, readVars>>
    BY <1>1, <1>2, <1>5 DEF RunDisconnect, SocketStep, Rest, readVars
  <2>2. CarriersKept
    BY <1>1, <1>3, <2>1, OneSame
  <2> QED BY <2>1, <2>2, SocketsKept DEF Accepts
<1> QED BY <1>4, <1>5

LEMMA RunDeleteSocketBuffers ==
  ASSUME IInv, AliveInv, BufferInv, RunDeleteSocket PROVE BufferInv'
<1>1. PICK h : h = Head(tasks[Main])
  OBVIOUS
<1>2. MainRuns("deleteSocket")
  BY DEF RunDeleteSocket
<1>3. /\ h \in ToSet(tasks[Main]) /\ h.kind = "deleteSocket" /\ Expected(h) /\ main = Idle
      /\ tasks[Main] # <<>> /\ main.pc = "loop"
      /\ \A x \in ToSet(Tail(tasks[Main])) : x \in ToSet(tasks[Main]) /\ ~Ends(h, x, at)
  BY <1>1, <1>2, MainTakes DEF MainRuns, Next1
<1>4. PICK s \in Socket : s = h.of /\ life[s] = "destroyed"
  BY <1>3, MainTasks DEF Expected, ThreadKinds
<1>5. /\ life' = [life EXCEPT ![s] = "deleted"] /\ receiveList' = [receiveList EXCEPT ![s] = {}]
      /\ tasks' = [tasks EXCEPT ![Main] = Tail(tasks[Main])]
      /\ UNCHANGED <<phase, main, at, partial, used>>
  BY <1>1, <1>4 DEF RunDeleteSocket, Rest
<1>6. CarriersKept /\ tasks'[Main] = Tail(tasks[Main])
  <2>1. SameCarriers(Main, Tail(tasks[Main])) /\ Main \in Thread
    BY <1>1, <1>3, MainTasks, SameTaking DEF Carriers
  <2> QED BY <1>5, <2>1, OneSame DEF IInv, TypeInv
<1>7. \A x \in Socket : receiveList'[x] = IF x = s THEN {} ELSE receiveList[x]
  BY <1>5 DEF BufferInv, UsedInv
<1>8. \A p \in Keepers, x \in Socket, b \in Buffer : Keeps(p, x, b)' <=> Keeps(p, x, b)
  <2>1. \A p \in Keepers, x \in Socket, b \in Buffer :
          p[1] # "queue" => (Keeps(p, x, b)' <=> Keeps(p, x, b))
    BY <1>5 DEF Keeps
  <2> QED BY <1>6, <2>1, CarriersKeep
<1>9. NoneMoves /\ NoneLost
  BY <1>8 DEF NoneMoves, NoneLost
<1>10. ListsShrink
  <2>1. receiveList' \in [Socket -> SUBSET used]
    BY <1>5 DEF BufferInv, UsedInv
  <2>2. \A x \in Socket : Strange(x)' => Strange(x)
    BY <1>5 DEF Strange, IInv, TypeInv
  <2>3. \A x \in Socket : Served(x)' => Served(x)
    BY <1>5 DEF Served, Accepts
  <2> QED BY <1>5, <1>7, <2>1, <2>2, <2>3 DEF ListsShrink
<1>11. GivenInv'
  <2>1. ASSUME NEW m \in ToSet(Tail(tasks[Main])), m.kind = "received"
        PROVE  m.buffer \in receiveList'[m.of]
    <3>1. m.of \in Socket /\ m.buffer \in receiveList[m.of]
      BY <1>3, <2>1, MainTasks DEF BufferInv, GivenInv, ThreadKinds
    <3>2. m.of # s
      BY <1>3, <1>4, <2>1 DEF Ends, SocketEnds
    <3> QED BY <1>7, <3>1, <3>2
  <2>2. at[s] = None
    BY <1>4 DEF AliveInv, LifeInv
  <2>3. \A x \in Socket : partial'[x] # None => partial'[x] \in receiveList'[x] /\ at'[x] # None
    BY <1>5, <1>7, <2>2 DEF BufferInv, GivenInv
  <2> QED BY <1>6, <2>1, <2>3 DEF GivenInv
<1>12. HandInv'
  BY <1>5, <1>6, CarriersKeep DEF BufferInv, HandInv
<1> QED BY <1>9, <1>10, <1>11, <1>12, BuffersStay

LEMMA RunDeleteThreadBuffers ==
  ASSUME IInv, AliveInv, BufferInv, RunDeleteThread PROVE BufferInv'
<1>1. PICK h : h = Head(tasks[Main])
  OBVIOUS
<1>2. MainRuns("deleteThread")
  BY DEF RunDeleteThread
<1>3. /\ h \in ToSet(tasks[Main]) /\ h.kind = "deleteThread" /\ Expected(h) /\ main = Idle
      /\ tasks[Main] # <<>> /\ main.pc = "loop"
      /\ \A x \in ToSet(Tail(tasks[Main])) : x \in ToSet(tasks[Main]) /\ ~Ends(h, x, at)
  BY <1>1, <1>2, MainTakes DEF MainRuns, Next1
<1>4. PICK t \in Worker : t = h.of /\ t # None
  BY <1>3, MainTasks DEF ThreadKinds
<1>5. /\ phase' = [phase EXCEPT ![t] = "deleted"]
      /\ life' = [x \in Socket |-> IF at[x] = t THEN "deleted" ELSE life[x]]
      /\ receiveList' = [x \in Socket |-> IF at[x] = t THEN {} ELSE receiveList[x]]
      /\ partial' = [x \in Socket |-> IF at[x] = t THEN None ELSE partial[x]]
      /\ at' = [x \in Socket |-> IF at[x] = t THEN None ELSE at[x]]
      /\ tasks' = [tasks EXCEPT ![Main] = Tail(tasks[Main])] /\ UNCHANGED <<main, used>>
  BY <1>1, <1>4 DEF RunDeleteThread, Rest
<1>6. CarriersKept /\ tasks'[Main] = Tail(tasks[Main])
  <2>1. SameCarriers(Main, Tail(tasks[Main])) /\ Main \in Thread
    BY <1>1, <1>3, MainTasks, SameTaking DEF Carriers
  <2> QED BY <1>5, <2>1, OneSame DEF IInv, TypeInv
<1>7. \A x \in Socket : IF at[x] = t
        THEN life'[x] = "deleted" /\ at'[x] = None /\ partial'[x] = None /\ receiveList'[x] = {}
        ELSE life'[x] = life[x] /\ at'[x] = at[x] /\ partial'[x] = partial[x]
             /\ receiveList'[x] = receiveList[x]
  BY <1>5
<1>8. ASSUME NEW p \in Keepers, NEW x \in Socket, NEW b \in Buffer
      PROVE  /\ Keeps(p, x, b)' => Keeps(p, x, b)
             /\ Keeps(p, x, b) => Keeps(p, x, b)' \/ at'[x] = None
  <2>1. CASE p[1] = "queue"
    BY <1>6, <2>1, CarriersKeep
  <2>2. CASE p[1] = "partial"
    <3>1. p[2] \in Socket
      BY <2>2, KeeperFacts
    <3>2. Keeps(p, x, b)' <=> partial'[p[2]] = b /\ p[2] = x
      BY <2>2 DEF Keeps
    <3>3. Keeps(p, x, b) <=> partial[p[2]] = b /\ p[2] = x
      BY <2>2 DEF Keeps
    <3> QED BY <1>7, <3>1, <3>2, <3>3
  <2>3. CASE p[1] = "users"
    BY <1>5, <2>3 DEF Keeps
  <2> QED BY <2>1, <2>2, <2>3, KeeperFacts
<1>9. NoneMoves /\ NoneLost
  BY <1>8 DEF NoneMoves, NoneLost, Served
<1>10. ListsShrink
  <2>1. receiveList' \in [Socket -> SUBSET used]
    BY <1>5 DEF BufferInv, UsedInv
  <2>2. \A x \in Socket : Strange(x)' => Strange(x)
    BY <1>7 DEF Strange
  <2>3. \A x \in Socket : Served(x)' => Served(x)
    <3>1. \A u \in Worker : u # t => phase'[u] = phase[u]
      BY <1>5 DEF IInv, TypeInv
    <3>2. \A x \in Socket : at[x] \in Worker \cup {None}
      BY DEF IInv, TypeInv
    <3> QED BY <1>7, <3>1, <3>2 DEF Served, Accepts
  <2> QED BY <1>5, <1>7, <2>1, <2>2, <2>3 DEF ListsShrink
<1>11. GivenInv'
  <2>1. ASSUME NEW m \in ToSet(Tail(tasks[Main])), m.kind = "received"
        PROVE  m.buffer \in receiveList'[m.of]
    <3>1. m.of \in Socket /\ m.buffer \in receiveList[m.of]
      BY <1>3, <2>1, MainTasks DEF BufferInv, GivenInv, ThreadKinds
    <3>2. at[m.of] # t
      BY <1>3, <1>4, <2>1 DEF Ends
    <3> QED BY <1>7, <3>1, <3>2
  <2>2. \A x \in Socket : partial'[x] # None => partial'[x] \in receiveList'[x] /\ at'[x] # None
    BY <1>7 DEF BufferInv, GivenInv
  <2> QED BY <1>6, <2>1, <2>2 DEF GivenInv
<1>12. HandInv'
  BY <1>3, <1>5, <1>6, CarriersKeep DEF BufferInv, HandInv
<1> QED BY <1>9, <1>10, <1>11, <1>12, BuffersStay

LEMMA InitBuffers == Init => BufferInv
<1> SUFFICES ASSUME Init PROVE BufferInv
  OBVIOUS
<1>1. \A t \in Thread : tasks[t] = <<>> /\ ToSet(tasks[t]) = {}
  BY DEF Init, ToSet
<1>2. \A p \in Keepers, s \in Socket, b \in Buffer : ~Keeps(p, s, b)
  BY <1>1, KeeperFacts DEF Init, Keeps, Idle, Doing
<1>3. KeptOnce /\ OwnerInv
  BY <1>2 DEF KeptOnce, OwnerInv
<1>4. UsedInv /\ CountedInv
  BY <1>2 DEF Init, UsedInv, CountedInv
<1>5. GivenInv
  BY <1>1 DEF Init, GivenInv, Thread
<1>6. HandInv
  BY <1>1 DEF Init, HandInv, Single, Idle, Doing
<1> QED BY <1>3, <1>4, <1>5, <1>6 DEF BufferInv

LEMMA StepBuffers ==
  ASSUME IInv, AliveInv, BufferInv, [Next]_vars PROVE BufferInv'
<1>1. CASE \E s \in Socket, t \in Worker : IncomingNewThread(s, t) \/ IncomingToThread(s, t)
  BY <1>1, IncomingNewThreadBuffers, IncomingToThreadBuffers
<1>2. CASE \E s \in Socket :
        IncomingRefused(s) \/ ConnectionEnds(s) \/ ReadOverflows(s) \/ ReadEnds(s)
  BY <1>2, IncomingRefusedBuffers, ConnectionEndsBuffers, ReadEndsBuffers
<1>3. CASE \E s \in Socket, b \in Buffer : ReadBegins(s, b)
  BY <1>3, ReadBeginsBuffers
<1>4. CASE Transmit \/ DisconnectFromHost \/ Quit
  BY <1>4, TransmitBuffers, DisconnectFromHostBuffers, QuitBuffers
<1>5. CASE MainStep
  BY <1>5, RunReceivedBuffers, ReleaseBufferBuffers, PostReleaseBuffers, RunDestroySocketBuffers,
     RunDeleteSocketBuffers, RunDestroyThreadBuffers, RunDeleteThreadBuffers, QuitEndsBuffers,
     QuitNextBuffers DEF MainStep
<1>6. CASE \E t \in Worker : WorkerStep(t)
  BY <1>6, RunCreateBuffers, RunReleaseBuffers, RunDisconnectBuffers, RunTransmitBuffers,
     RunWriteBuffers, FinishBuffers DEF WorkerStep
<1>7. CASE UNCHANGED vars
  <2>1. CarriersKept /\ UNCHANGED <<phase, main, life, at, readVars>>
    BY <1>7, NoneSame DEF vars, socketVars
  <2> QED BY <2>1, SocketsKept DEF Accepts
<1> QED BY <1>1, <1>2, <1>3, <1>4, <1>5, <1>6, <1>7 DEF Next

(***************************************************************************)
(* Held(b) counts the keepers of b.                                         *)
(***************************************************************************)
KeptIn(place, b) == \E p \in Keepers, s \in Socket : p[1] = place /\ Keeps(p, s, b)

LEMMA Counting ==
  ASSUME NEW S, \A x, y \in S : x = y
  PROVE  Cardinality(S) = IF S = {} THEN 0 ELSE 1
<1>1. CASE S = {}
  BY <1>1, FS_EmptySet
<1>2. CASE S # {}
  <2>1. PICK x \in S : TRUE
    BY <1>2
  <2>2. S = {x}
    BY <2>1
  <2> QED BY <1>2, <2>2, FS_Singleton
<1> QED BY <1>1, <1>2

LEMMA HeldCounts ==
  ASSUME IInv, BufferInv, NEW b \in Buffer
  PROVE  Held(b) = (IF KeptIn("queue", b) THEN 1 ELSE 0) + (IF KeptIn("partial", b) THEN 1 ELSE 0)
                   + (IF KeptIn("users", b) THEN 1 ELSE 0)
<1> DEFINE places == UNION {{t} \X (1..Len(tasks[t])) : t \in Thread}
           queued == {x \in places : Holds(tasks[x[1]][x[2]], b)}
           received == {s \in Socket : partial[s] = b}
<1>1. \A t \in Thread : tasks[t] \in Seq(TaskSet) /\ DOMAIN tasks[t] = 1..Len(tasks[t])
  BY QueueTypes
<1>2. \A x \in places : x = <<x[1], x[2]>> /\ x[1] \in Thread /\ x[2] \in DOMAIN tasks[x[1]]
  BY <1>1
<1>3. \A t \in Thread : \A i \in DOMAIN tasks[t] : <<t, i>> \in places
  BY <1>1
<1>4. \A x \in queued : Keeps(<<"queue", x[1]>>, tasks[x[1]][x[2]].of, b)
        /\ tasks[x[1]][x[2]].of \in Socket /\ <<"queue", x[1]>> \in Keepers
  <2> SUFFICES ASSUME NEW t \in Thread, NEW i \in DOMAIN tasks[t], Holds(tasks[t][i], b)
               PROVE  Keeps(<<"queue", t>>, tasks[t][i].of, b) /\ tasks[t][i].of \in Socket
                      /\ <<"queue", t>> \in Keepers
    BY <1>2
  <2>1. tasks[t][i] \in ToSet(tasks[t])
    BY DEF ToSet
  <2>2. tasks[t][i].of \in Socket
    BY <2>1, TasksOfQueues DEF IInv, Holds, SocketKinds
  <2> QED BY <2>1, <2>2, KeeperFacts DEF Keeps
<1>5. Cardinality(queued) = IF KeptIn("queue", b) THEN 1 ELSE 0
  <2>1. \A x, y \in queued : x = y
    <3> SUFFICES ASSUME NEW x \in queued, NEW y \in queued PROVE x = y
      OBVIOUS
    <3>1. x[1] = y[1]
      <4>1. \A p, q \in Keepers, r, s \in Socket : Keeps(p, r, b) /\ Keeps(q, s, b) => p = q
        BY DEF BufferInv, KeptOnce
      <4>2. /\ \E r \in Socket : Keeps(<<"queue", x[1]>>, r, b)
            /\ \E s \in Socket : Keeps(<<"queue", y[1]>>, s, b)
            /\ <<"queue", x[1]>> \in Keepers /\ <<"queue", y[1]>> \in Keepers
        BY <1>4
      <4>3. <<"queue", x[1]>> = <<"queue", y[1]>>
        BY <4>1, <4>2
      <4> QED BY <4>3
    <3>2. x[2] = y[2]
      BY <1>2, <3>1 DEF BufferInv, HandInv, Single
    <3> QED BY <1>2, <3>1, <3>2
  <2>2. queued # {} => KeptIn("queue", b)
    BY <1>4 DEF KeptIn
  <2>3. KeptIn("queue", b) => queued # {}
    <3> SUFFICES ASSUME NEW t \in Thread, NEW m \in ToSet(tasks[t]), Holds(m, b) PROVE queued # {}
      BY KeeperFacts DEF KeptIn, Keeps
    <3>1. PICK i \in DOMAIN tasks[t] : m = tasks[t][i]
      BY DEF ToSet
    <3>2. <<t, i>> \in places
      BY <1>3
    <3> QED BY <3>1, <3>2
  <2> HIDE DEF queued
  <2> QED BY <2>1, <2>2, <2>3, Counting
<1>6. Cardinality(received) = IF KeptIn("partial", b) THEN 1 ELSE 0
  <2>1. \A s \in Socket : s \in received <=> Keeps(<<"partial", s>>, s, b)
    BY DEF Keeps
  <2>2. \A x, y \in received : x = y
    <3> SUFFICES ASSUME NEW x \in received, NEW y \in received PROVE x = y
      OBVIOUS
    <3>1. /\ Keeps(<<"partial", x>>, x, b) /\ <<"partial", x>> \in Keepers /\ x \in Socket
          /\ Keeps(<<"partial", y>>, y, b) /\ <<"partial", y>> \in Keepers /\ y \in Socket
      BY <2>1, KeeperFacts
    <3> QED BY <3>1 DEF BufferInv, KeptOnce
  <2>3. received # {} => KeptIn("partial", b)
    BY <2>1, KeeperFacts DEF KeptIn
  <2>4. KeptIn("partial", b) => received # {}
    <3>1. \A p \in Keepers, s \in Socket :
            p[1] = "partial" /\ Keeps(p, s, b) => partial[s] = b
      BY KeeperFacts DEF Keeps
    <3> QED BY <3>1 DEF KeptIn
  <2> HIDE DEF received
  <2> QED BY <2>2, <2>3, <2>4, Counting
<1>7. main.buffer = b <=> KeptIn("users", b)
  <2>1. main.buffer = b => main.socket \in Socket
    BY DEF BufferInv, HandInv
  <2>2. main.buffer = b => Keeps(<<"users", Main>>, main.socket, b)
    BY DEF Keeps
  <2>3. KeptIn("users", b) => main.buffer = b
    BY DEF KeptIn, Keeps
  <2> QED BY <2>1, <2>2, <2>3, KeeperFacts DEF KeptIn
<1>8. Held(b) = Cardinality(queued) + Cardinality(received) + (IF main.buffer = b THEN 1 ELSE 0)
  BY DEF Held
<1> HIDE DEF queued, received
<1> QED BY <1>5, <1>6, <1>7, <1>8

\* A buffer of an open socket counts against maxReadBuffers exactly as long as it is in
\* one of its places, being received, on its way to the users, with them, or on its way
\* back, whatever ends meanwhile; and what Main is given was not freed (readEvent(),
\* releaseBuffer(), stateEvent()), as long as the rules for connections and for quit()
\* are kept.
THEOREM BuffersHeldOnce ==
  ASSUME Regular PROVE Spec => []BufferHeldOnce
<1>1. Init => IInv /\ AliveInv /\ BufferInv
  BY InitInv, InitAlive, InitBuffers
<1>2. IInv /\ AliveInv /\ BufferInv /\ [Next]_vars => (IInv /\ AliveInv /\ BufferInv)'
  BY StepInv, StepAlive, StepBuffers DEF Regular
<1>3. IInv /\ AliveInv /\ BufferInv => BufferHeldOnce
  <2> SUFFICES ASSUME IInv, AliveInv, BufferInv PROVE BufferHeldOnce
    OBVIOUS
  <2>1. ASSUME NEW b \in Buffer
        PROVE  /\ Held(b) <= 1
               /\ (\E p \in Keepers, s \in Socket : Keeps(p, s, b)) => Held(b) = 1
    <3>1. /\ ~(KeptIn("queue", b) /\ KeptIn("partial", b))
          /\ ~(KeptIn("queue", b) /\ KeptIn("users", b))
          /\ ~(KeptIn("partial", b) /\ KeptIn("users", b))
      BY DEF BufferInv, KeptOnce, KeptIn
    <3>2. (\E p \in Keepers, s \in Socket : Keeps(p, s, b)) =>
            KeptIn("queue", b) \/ KeptIn("partial", b) \/ KeptIn("users", b)
      BY KeeperFacts DEF KeptIn
    <3> QED BY <3>1, <3>2, HeldCounts
  <2>2. ASSUME NEW s \in Socket, NEW b \in receiveList[s], at[s] # None, Accepts(at[s])
        PROVE  Held(b) = 1
    <3>1. b \in Buffer
      BY DEF BufferInv, UsedInv
    <3>2. \E p \in Keepers : Keeps(p, s, b)
      BY <2>2 DEF BufferInv, CountedInv, Served
    <3> QED BY <2>1, <3>1, <3>2
  <2>3. \A m \in ToSet(tasks[Main]) : m.kind = "received" => m.buffer \in receiveList[m.of]
    BY DEF BufferInv, GivenInv
  <2> QED BY <2>1, <2>2, <2>3 DEF BufferHeldOnce
<1> QED BY <1>1, <1>2, <1>3, PTL DEF Spec
=============================================================================

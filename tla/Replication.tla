---------------------------- MODULE Replication ----------------------------
(***************************************************************************)
(* Replication of rings from an RrdServer to an RrdClient                   *)
(* (src/main/RrdServer.cpp, src/main/RrdClient.cpp): the client asks for    *)
(* the items after the last index it has, ring by ring, and polls with one  *)
(* timer when a ring has caught up.  Both ends run on the thread of their   *)
(* socket; the connection delivers in order and may be lost with all that   *)
(* is under way, and is then opened again by the socket of the client.      *)
(* A request or an answer that is refused by a full socket is not modelled. *)
(***************************************************************************)
EXTENDS Integers, Sequences, FiniteSets, Functions

CONSTANTS
  Rings,           \* rrd_.size() of both: the rings are 1..Rings
  ServerSize,      \* size of the rings of the server
  ClientSize,      \* size of the rings of the client
  TransmitCount,   \* TRANSMIT_COUNT, the most items of an answer
  None,            \* the empty item
  Used,            \* bound: rings the owner of the server writes to, all or some
  MaxIndex,        \* bound: indexes
  MaxStep,         \* bound: step of the index of an append() of the server
  MaxEpoch,        \* bound: times a ring of the server is cleared, plus 1
  MaxRepeats,      \* bound: times the timer fires while messages are under way
  MaxDisconnects   \* bound: times the connection is lost

ASSUME ReplicationAssumption ==
  /\ Rings \in Nat \ {0} /\ ServerSize \in Nat \ {0} /\ ClientSize \in Nat \ {0}
  /\ TransmitCount \in Nat \ {0} /\ MaxStep \in Nat \ {0} /\ MaxEpoch \in Nat \ {0}
  /\ Used \subseteq 1..Rings /\ MaxIndex \in Nat /\ MaxRepeats \in Nat /\ MaxDisconnects \in Nat

VARIABLES
  server,       \* the rings of the server
  client,       \* the rings of the client
  lastTime,     \* lastTime: the last index received, by ring
  active,       \* the connection is in state Active
  timer,        \* the timer requestTimerId is running
  requests,     \* requests under way to the server
  answers,      \* answers under way to the client
  epoch,        \* history: 1 + times a ring of the server was cleared
  noticed,      \* history: the epoch of the server a ring of the client was begun in
  overtaken,    \* history: an answer of another epoch was taken for news
  crossed,      \* history: the client began again with another message under way
  repeats,      \* history: times the timer fired while messages were under way
  disconnects   \* history: times the connection was lost

serverVars == <<server, epoch>>
clientVars == <<client, lastTime, noticed, crossed>>
linkVars   == <<active, repeats, disconnects>>
vars == <<serverVars, clientVars, overtaken, linkVars, timer, requests, answers>>

Ring == 1..Rings

\* The item of an index tells the index and the epoch; a gap is cleared, not filled.
Item == (1..MaxEpoch) \X (1..MaxIndex)
S == INSTANCE RrdRing WITH Size <- ServerSize, Fill <- 0, Item <- Item, Empty <- None
C == INSTANCE RrdRing WITH Size <- ClientSize, Fill <- 0, Item <- Item, Empty <- None

Init ==
  /\ server = [n \in Ring |-> S!EmptyRing] /\ client = [n \in Ring |-> C!EmptyRing]
  /\ lastTime = [n \in Ring |-> 0] /\ noticed = [n \in Ring |-> 1]
  /\ epoch = [n \in Ring |-> 1] /\ overtaken = [n \in Ring |-> FALSE]
  /\ active = FALSE /\ timer = FALSE /\ requests = <<>> /\ answers = <<>>
  /\ crossed = [n \in Ring |-> FALSE] /\ repeats = 0 /\ disconnects = 0

-----------------------------------------------------------------------------
\* The owner of the server's rings appends, possibly with a gap, and clears.
ServerAppends(n, pos) ==
  /\ pos > server[n].last /\ pos <= server[n].last + MaxStep
  /\ server' = [server EXCEPT ![n] = S!Appended(@, pos, <<epoch[n], pos>>)]
  /\ UNCHANGED <<epoch, clientVars, overtaken, linkVars, timer, requests, answers>>

ServerClears(n) ==
  /\ epoch[n] < MaxEpoch
  /\ server' = [server EXCEPT ![n] = S!EmptyRing]
  /\ epoch' = [epoch EXCEPT ![n] = @ + 1]
  /\ UNCHANGED <<clientVars, overtaken, linkVars, timer, requests, answers>>

\* RrdServer::transmit(): the items from the index on, and the last index there is.
\* History: the epoch, and that the index asked for was overwritten by then.
Answer(q) ==
  LET read == S!Extract(server[q.ring], q.index, TransmitCount)
  IN [ring |-> q.ring, val |-> read.last, list |-> read.items,
      last |-> server[q.ring].last, epoch |-> epoch[q.ring],
      overwritten |-> server[q.ring].last - q.index >= ServerSize]

ServerAnswers ==
  /\ requests # <<>>
  /\ answers' = Append(answers, Answer(Head(requests)))
  /\ requests' = Tail(requests)
  /\ UNCHANGED <<serverVars, clientVars, overtaken, linkVars, timer>>

-----------------------------------------------------------------------------
\* request(), for one ring and for all of them.
Request(n) == [ring |-> n, index |-> lastTime[n] + 1]
RequestAll == requests \o [n \in Ring |-> Request(n)]

\* stateChanged: the connection becomes Active.
Connect ==
  /\ ~active
  /\ active' = TRUE /\ requests' = RequestAll
  /\ UNCHANGED <<serverVars, clientVars, overtaken, timer, answers, repeats, disconnects>>

\* stateChanged: the connection is lost.
Disconnect ==
  /\ active /\ disconnects < MaxDisconnects
  /\ active' = FALSE /\ disconnects' = disconnects + 1 /\ timer' = FALSE
  /\ requests' = <<>> /\ answers' = <<>>
  /\ UNCHANGED <<serverVars, clientVars, overtaken, repeats>>

\* The timer: it serves all rings, also those that are still being read.
UnderWay == requests # <<>> \/ answers # <<>>
Timeout ==
  /\ timer /\ (UnderWay => repeats < MaxRepeats)
  /\ repeats' = IF UnderWay THEN repeats + 1 ELSE repeats
  /\ timer' = FALSE /\ requests' = RequestAll
  /\ UNCHANGED <<serverVars, clientVars, overtaken, answers, active, disconnects>>

(***************************************************************************)
(* tcpRead(): an answer that ends before the last index received, or more   *)
(* than a ring after it, makes the client begin again with the last items;  *)
(* another one is appended, and more is requested or the timer started.     *)
(***************************************************************************)
\* Mutant: also one that brings nothing new.
OutdatedOrIdle(n, a) == a.val <= lastTime[n] \/ a.val - lastTime[n] > ClientSize
Outdated(n, a) == a.val < lastTime[n] \/ a.val - lastTime[n] > ClientSize

\* Besides the answer that is read, a message of the ring is under way.
Repeated(n) == \E m \in Range(requests) \cup Range(Tail(answers)) : m.ring = n

\* Mutant: the client begins again behind the last item instead of with the last ring.
BeginAgainAtLast(n, a) ==
  /\ client' = [client EXCEPT ![n] = C!EmptyRing]
  /\ lastTime' = [lastTime EXCEPT ![n] = a.last]
  /\ requests' = Append(requests, [ring |-> n, index |-> lastTime'[n] + 1])
  /\ noticed' = [noticed EXCEPT ![n] = a.epoch]
  /\ crossed' = [crossed EXCEPT ![n] = @ \/ Repeated(n)]
  /\ UNCHANGED timer

BeginAgain(n, a) ==
  /\ client' = [client EXCEPT ![n] = C!EmptyRing]
  /\ lastTime' = [lastTime EXCEPT ![n] = IF a.last > ClientSize THEN a.last - ClientSize ELSE 0]
  /\ requests' = Append(requests, [ring |-> n, index |-> lastTime'[n] + 1])
  /\ noticed' = [noticed EXCEPT ![n] = a.epoch]
  /\ crossed' = [crossed EXCEPT ![n] = @ \/ Repeated(n)]
  /\ UNCHANGED timer

\* The ring after the items were appended one by one; an index it has is refused.
AppendAll(ring, list, val) ==
  LET after[k \in 0..Len(list)] ==
        IF k = 0 THEN ring
        ELSE LET pos == val - Len(list) + k
             IN IF pos > after[k - 1].last THEN C!Appended(after[k - 1], pos, list[k])
                ELSE after[k - 1]
  IN after[Len(list)]

\* Mutant: the items are counted from the index that was asked for.
AppendListShifted(n, a) ==
  /\ client' = [client EXCEPT ![n] = AppendAll(@, a.list, lastTime[n] + Len(a.list))]
  /\ lastTime' = [lastTime EXCEPT ![n] = a.val]
  /\ noticed' = [noticed EXCEPT ![n] = IF lastTime[n] = 0 THEN a.epoch ELSE @]
  /\ UNCHANGED crossed

AppendList(n, a) ==
  /\ client' = [client EXCEPT ![n] = AppendAll(@, a.list, a.val)]
  /\ lastTime' = [lastTime EXCEPT ![n] = a.val]
  /\ noticed' = [noticed EXCEPT ![n] = IF lastTime[n] = 0 THEN a.epoch ELSE @]
  /\ UNCHANGED crossed

\* Mutant: the timer is started only after items were received.
GoOnIfAny(n, a) ==
  IF a.list # <<>> /\ a.val # a.last
  THEN requests' = Append(requests, [ring |-> n, index |-> lastTime'[n] + 1]) /\ UNCHANGED timer
  ELSE timer' = (timer \/ a.list # <<>>) /\ UNCHANGED requests

GoOn(n, a) ==
  IF a.list # <<>> /\ a.val # a.last
  THEN requests' = Append(requests, [ring |-> n, index |-> lastTime'[n] + 1]) /\ UNCHANGED timer
  ELSE timer' = TRUE /\ UNCHANGED requests

\* After a clear() of the server that the indexes do not tell.
TakenForNews(n, a) == ~Outdated(n, a) /\ lastTime[n] > 0 /\ a.epoch # noticed[n]

TcpRead ==
  /\ answers # <<>>
  /\ LET a == Head(answers)
         n == a.ring
     IN /\ IF Outdated(n, a) THEN BeginAgain(n, a)
           ELSE /\ IF a.list # <<>> THEN AppendList(n, a) ELSE UNCHANGED clientVars
                /\ GoOn(n, a)
        /\ overtaken' = [overtaken EXCEPT ![n] = @ \/ TakenForNews(n, a)]
  /\ answers' = Tail(answers)
  /\ UNCHANGED <<serverVars, linkVars>>

Next ==
  \/ \E n \in Used : ServerClears(n)
  \/ \E n \in Used, pos \in 1..MaxIndex : ServerAppends(n, pos)
  \/ ServerAnswers \/ Connect \/ Disconnect \/ Timeout \/ TcpRead

\* The sockets and the loops of both ends run; the server's owner may stop appending.
Fairness == WF_vars(ServerAnswers) /\ WF_vars(Connect) /\ WF_vars(Timeout) /\ WF_vars(TcpRead)

Spec == Init /\ [][Next]_vars
FairSpec == Spec /\ Fairness

-----------------------------------------------------------------------------
Window(last, size) == {i \in 1..last : last - i < size}
ServerItem(n, i) == server[n].data[S!Slot(i)]
ClientItem(n, i) == client[n].data[C!Slot(i)]
ClientWindow(n) == Window(client[n].last, ClientSize)
ServerWindow(n) == Window(server[n].last, ServerSize)

\* Everything the client holds was the server's item of that very index, and all of one
\* epoch: answers, also repeated, late or interrupted ones, never shift or mix the items
\* (tcpRead(), Rrd::append()).  The one index read() answers wrongly is excepted, and a
\* ring whose new items reached the client's index unnoticed, or that has crossed.
ItemsInPlace ==
  \A n \in Ring : overtaken[n] \/ crossed[n] \/
    \A i \in ClientWindow(n) :
      ClientItem(n, i) \in {None, <<noticed[n], i>>, <<noticed[n], i + ServerSize>>}

\* An index that both hold, and that a client which has caught up has room for, has the
\* same item at both.
Agree(n) ==
  \A i \in ClientWindow(n) \cap ServerWindow(n) \cap Window(server[n].last, ClientSize) :
    ClientItem(n, i) = ServerItem(n, i)
\* A client that knows of the last clear() misses no item, also while it catches up, unless
\* it has crossed: no other repeated request, late answer or lost connection makes a hole
\* (RrdServer::transmit(), tcpRead(), request(), the timer).
SameItems == \A n \in Ring : crossed[n] \/ overtaken[n] \/ noticed[n] # epoch[n] \/ Agree(n)

\* The client throws its items away only if the server was cleared, is more than a ring
\* ahead, or had overwritten the index it was asked for: no other order of repeated
\* requests and late answers makes it begin again (RrdClient::tcpRead(), Rrd::read()).
NotThrownAway ==
  [][\A n \in Ring :
       client[n].last > 0 /\ client'[n].last = 0 =>
         \/ crossed[n] \/ epoch[n] # noticed[n] \/ Head(answers).overwritten
         \/ lastTime[n] + ClientSize < server[n].last]_vars

\* Once the server's owner stops, every ring of the client ends where the server's ends
\* and, unless it has crossed, agrees with it, whatever was lost with the connection before
\* (request(), the timer, stateChanged).
CatchesUp ==
  <>[](\A n \in Ring :
         overtaken[n] \/ (client[n].last = server[n].last /\ (crossed[n] \/ Agree(n))))

\* RrdClient.h: the client tracks the latest record indexes and ingests the records: once
\* the server's owner stops, a ring of the client agrees with the server's, also one that
\* has crossed.
EndsEqual ==
  <>[](\A n \in Ring : overtaken[n] \/ (client[n].last = server[n].last /\ Agree(n)))
=============================================================================

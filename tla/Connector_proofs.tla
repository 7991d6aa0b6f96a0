-------------------------- MODULE Connector_proofs --------------------------
(***************************************************************************)
(* Theorems about Connector, for every number of threads, connections and   *)
(* emissions: the functions of a connection are called in the order of the  *)
(* emissions, whatever the users do; the deletion of a connection comes     *)
(* after its calls if no guard is destroyed while an emission is at its     *)
(* connection; no thread waits for itself, and nothing that was deleted is  *)
(* used, if they keep to the rules.                                         *)
(***************************************************************************)
EXTENDS Connector, SequenceTheorems, FiniteSetTheorems, TLAPS

USE ConnectorAssumption DEF ConnectorAssumption

(***************************************************************************)
(* The invariant.                                                           *)
(***************************************************************************)
Ops == {"call", "emit", "delete", "disconnect", "destroy"}
Pcs == {"lock", "next", "read", "post", "calls", "waits", "inPlace", "queued", "sync", "decide", "release"}
FrameSet == [op : Ops, pc : Pcs, conn : Conn \cup {0}, n : Nat, peer : Thread \cup {None}]
\* What is posted is a call or a deletion.
TaskSet == {f \in FrameSet : f.op \in {"call", "delete"}}
Lives == {"none", "made", "released", "deleted"}
AllTypes == {"Auto", "Direct", "Queued", "Sync"}

TypeInv ==
  /\ list \subseteq Conn /\ mutex \in Thread \cup {None}
  /\ life \in [Conn -> Lives] /\ thread \in [Conn -> Thread \cup {None}]
  /\ type \in [Conn -> AllTypes]
  /\ tasks \in [Thread -> Seq(TaskSet)] /\ stack \in [Thread -> Seq(FrameSet)]
  /\ emitted \in Seq(Thread) /\ called \in [Conn -> Seq(Nat)]

\* An emission, or the destructor, between the lock and the unlock of the mutex.
Holds(f) == f.op \in {"emit", "destroy"} /\ f.pc # "lock"
Emits(f) == f.op = "emit" /\ f.pc # "lock"
IsCall(f, pc) == f.op = "call" /\ f.pc = pc
\* It is at a connection, for which it has not called yet, nor posted.
AtConnection(f) == f.pc \in {"read", "post"}

\* Who holds the mutex holds it once, and an emission that does is the last one; what is
\* above it is a call it made in place.
HoldInv == \A t \in Thread : \A i \in DOMAIN stack[t] :
  /\ Holds(stack[t][i]) => mutex = t /\ \A j \in DOMAIN stack[t] : Holds(stack[t][j]) => i = j
  /\ Emits(stack[t][i]) =>
       /\ stack[t][i].n = Len(emitted) /\ Len(emitted) > 0 /\ emitted[Len(emitted)] = t
       /\ stack[t][i].pc # "calls" => i = Len(stack[t])
       /\ AtConnection(stack[t][i]) => stack[t][i].conn \in Conn /\ life[stack[t][i].conn] # "none"
  /\ IsCall(stack[t][i], "inPlace") =>
       i > 1 /\ stack[t][i - 1].op = "emit" /\ stack[t][i - 1].pc = "calls"
  /\ IsCall(stack[t][i], "sync") => i = 1

\* There is one synchronous call at most, posted or running, and its emission waits.
SyncTask(t, k) == k \in DOMAIN tasks[t] /\ IsCall(tasks[t][k], "sync")
SyncRuns(t) == stack[t] # <<>> /\ IsCall(stack[t][1], "sync")
WaitsFor(u) ==
  /\ u \in Thread /\ stack[u] # <<>>
  /\ Last(stack[u]).op = "emit" /\ Last(stack[u]).pc = "waits"
SyncInv ==
  /\ \A t \in Thread : \A k \in DOMAIN tasks[t] : SyncTask(t, k) =>
       /\ WaitsFor(tasks[t][k].peer)
       /\ \A u \in Thread : ~SyncRuns(u) /\ \A j \in DOMAIN tasks[u] : SyncTask(u, j) => u = t /\ j = k
  /\ \A t \in Thread : SyncRuns(t) =>
       WaitsFor(stack[t][1].peer) /\ \A u \in Thread : SyncRuns(u) => u = t

\* The calls that are posted are in the thread of the connection.
Posted(t, k) == k \in DOMAIN tasks[t] /\ tasks[t][k].op = "call"
PostInv == \A t \in Thread : \A k \in DOMAIN tasks[t] : Posted(t, k) =>
  LET f == tasks[t][k]
  IN /\ f.conn \in Conn /\ life[f.conn] # "none" /\ thread[f.conn] \in {t, None}
     /\ f.n \in 1..Len(emitted)
     /\ \/ f.pc = "sync" /\ type[f.conn] = "Sync"
        \/ f.pc = "queued" /\ type[f.conn] \in {"Auto", "Queued"}
     /\ type[f.conn] = "Auto" => emitted[f.n] # t
     /\ \A u \in Thread : \A j \in DOMAIN tasks[u] :
          Posted(u, j) /\ tasks[u][j].conn = f.conn =>
            u = t /\ (k < j => f.n < tasks[u][j].n)

\* What was called was emitted before what is posted, or is to be called now.
Alike(c, m, n) == type[c] = "Auto" => emitted[m] = emitted[n]
CalledInv == \A c \in Conn :
  /\ \A j \in DOMAIN called[c] : called[c][j] \in 1..Len(emitted)
  /\ life[c] = "none" => called[c] = <<>>
  /\ c \in list => life[c] # "none"
  /\ \A j \in DOMAIN called[c] : \A t \in Thread : \A k \in DOMAIN tasks[t] :
       Posted(t, k) /\ tasks[t][k].conn = c /\ Alike(c, called[c][j], tasks[t][k].n)
         => called[c][j] < tasks[t][k].n

\* An emission has not called, nor posted to, the connections before it.
Ahead(f, c) == c > f.conn \/ (c = f.conn /\ AtConnection(f))
AheadInv == \A t \in Thread : \A i \in DOMAIN stack[t] : Emits(stack[t][i]) =>
  \A c \in Conn : Ahead(stack[t][i], c) =>
    /\ \A j \in DOMAIN called[c] : called[c][j] < stack[t][i].n
    /\ \A u \in Thread : \A k \in DOMAIN tasks[u] :
         Posted(u, k) /\ tasks[u][k].conn = c => tasks[u][k].n < stack[t][i].n

\* A task that is being handed over goes to the thread of the connection, and the calls
\* posted before are there, whatever has become of thread_.
Ready(t, c, p) ==
  /\ p \in Thread /\ thread[c] \in {p, None} /\ type[c] # "Direct" /\ (type[c] # "Queued" => p # t)
  /\ \A u \in Thread : \A k \in DOMAIN tasks[u] : Posted(u, k) /\ tasks[u][k].conn = c => u = p
ReadyInv == \A t \in Thread : At(t, "emit", "post") => Ready(t, Top(t).conn, Top(t).peer)

IInv == TypeInv /\ HoldInv /\ SyncInv /\ PostInv /\ CalledInv /\ AheadInv /\ InOrder /\ ReadyInv

USE DEF AtConnection

(***************************************************************************)
(* Stacks.                                                                  *)
(***************************************************************************)
LEMMA FrontFacts ==
  ASSUME NEW S, NEW q \in Seq(S), q # <<>>
  PROVE  /\ Front(q) \in Seq(S) /\ Len(Front(q)) = Len(q) - 1
         /\ \A i \in 1..(Len(q) - 1) : Front(q)[i] = q[i]
         /\ Last(q) = q[Len(q)] /\ Last(q) \in S /\ Len(q) \in Nat \ {0}
<1>1. Len(q) \in Nat \ {0}
  OBVIOUS
<1>2. Last(q) = q[Len(q)] /\ Last(q) \in S
  BY <1>1 DEF Last
<1>3. Front(q) = SubSeq(q, 1, Len(q) - 1)
  BY DEF Front
<1>4. /\ SubSeq(q, 1, Len(q) - 1) \in Seq(S) /\ Len(SubSeq(q, 1, Len(q) - 1)) = Len(q) - 1
      /\ \A i \in 1..(Len(q) - 1) : SubSeq(q, 1, Len(q) - 1)[i] = q[i]
  <2> DEFINE n == Len(q) - 1
  <2>1. n \in Int /\ n >= 0 /\ \A i \in 1..n : q[i] \in S
    BY <1>1
  <2> HIDE DEF n
  <2>2. /\ SubSeq(q, 1, n) \in Seq(S) /\ Len(SubSeq(q, 1, n)) = n
        /\ \A i \in 1..n : SubSeq(q, 1, n)[i] = q[i]
    BY <2>1, SubSeqProperties
  <2> QED BY <2>2 DEF n
<1> QED BY <1>1, <1>2, <1>3, <1>4

LEMMA AppendFacts ==
  ASSUME NEW S, NEW q \in Seq(S), NEW f \in S
  PROVE  /\ Append(q, f) \in Seq(S) /\ Len(Append(q, f)) = Len(q) + 1 /\ Len(q) \in Nat
         /\ \A i \in 1..Len(q) : Append(q, f)[i] = q[i]
         /\ Append(q, f)[Len(q) + 1] = f
OBVIOUS

LEMMA SeqFacts ==
  \A q \in Seq(FrameSet) : /\ DOMAIN q = 1..Len(q) /\ Len(q) \in Nat
                          /\ (q # <<>> <=> Len(q) > 0)
OBVIOUS

\* The stack of t keeps its first m frames and gets one or none above them.
Kept(t, m) ==
  /\ m \in 0..Len(stack[t]) /\ Len(stack[t]) \in Nat
  /\ \/ Len(stack'[t]) = m
     \/ Len(stack'[t]) = m + 1
  /\ \A i \in 1..m : stack'[t][i] = stack[t][i]
  /\ \A u \in Thread : u # t => stack'[u] = stack[u]
NewTop(t, m, f) == Len(stack'[t]) = m + 1 /\ stack'[t][m + 1] = f

LEMMA PushedKept ==
  ASSUME TypeInv, NEW t \in Thread, NEW f \in FrameSet, stack' = Pushed(t, f)
  PROVE  /\ stack' \in [Thread -> Seq(FrameSet)]
         /\ Kept(t, Len(stack[t])) /\ NewTop(t, Len(stack[t]), f)
<1>1. stack \in [Thread -> Seq(FrameSet)] /\ stack[t] \in Seq(FrameSet)
  BY DEF TypeInv
<1>2. stack' = [stack EXCEPT ![t] = Append(stack[t], f)]
  BY DEF Pushed
<1>3. stack'[t] = Append(stack[t], f) /\ \A u \in Thread : u # t => stack'[u] = stack[u]
  BY <1>1, <1>2
<1> QED BY <1>1, <1>2, <1>3, AppendFacts DEF Kept, NewTop

LEMMA PoppedKept ==
  ASSUME TypeInv, NEW t \in Thread, stack[t] # <<>>, stack' = Popped(t)
  PROVE  /\ stack' \in [Thread -> Seq(FrameSet)] /\ Len(stack[t]) \in Nat \ {0}
         /\ Kept(t, Len(stack[t]) - 1) /\ Len(stack'[t]) = Len(stack[t]) - 1
<1>1. stack \in [Thread -> Seq(FrameSet)] /\ stack[t] \in Seq(FrameSet)
  BY DEF TypeInv
<1>2. stack' = [stack EXCEPT ![t] = Front(stack[t])]
  BY DEF Popped
<1>3. stack'[t] = Front(stack[t]) /\ \A u \in Thread : u # t => stack'[u] = stack[u]
  BY <1>1, <1>2
<1>4. /\ Front(stack[t]) \in Seq(FrameSet) /\ Len(Front(stack[t])) = Len(stack[t]) - 1
      /\ \A i \in 1..(Len(stack[t]) - 1) : Front(stack[t])[i] = stack[t][i]
      /\ Len(stack[t]) \in Nat \ {0}
  BY <1>1, FrontFacts
<1>5. PICK q \in Seq(FrameSet) : q = Front(stack[t])
  BY <1>4
<1> QED BY <1>1, <1>2, <1>3, <1>4, <1>5 DEF Kept

LEMMA ReplacedKept ==
  ASSUME TypeInv, NEW t \in Thread, stack[t] # <<>>, NEW f \in FrameSet, stack' = Replaced(t, f)
  PROVE  /\ stack' \in [Thread -> Seq(FrameSet)] /\ Len(stack[t]) \in Nat \ {0}
         /\ Kept(t, Len(stack[t]) - 1) /\ NewTop(t, Len(stack[t]) - 1, f)
<1>1. stack \in [Thread -> Seq(FrameSet)] /\ stack[t] \in Seq(FrameSet)
  BY DEF TypeInv
<1>2. stack' = [stack EXCEPT ![t] = Append(Front(stack[t]), f)]
  BY DEF Replaced
<1>3. stack'[t] = Append(Front(stack[t]), f) /\ \A u \in Thread : u # t => stack'[u] = stack[u]
  BY <1>1, <1>2
<1>4. /\ Front(stack[t]) \in Seq(FrameSet) /\ Len(Front(stack[t])) = Len(stack[t]) - 1
      /\ \A i \in 1..(Len(stack[t]) - 1) : Front(stack[t])[i] = stack[t][i]
      /\ Len(stack[t]) \in Nat \ {0}
  BY <1>1, FrontFacts
<1>5. PICK q \in Seq(FrameSet) : q = Front(stack[t])
  BY <1>4
<1>6. /\ Append(q, f) \in Seq(FrameSet) /\ Len(Append(q, f)) = Len(q) + 1
      /\ \A i \in 1..Len(q) : Append(q, f)[i] = q[i]
      /\ Append(q, f)[Len(q) + 1] = f
  BY AppendFacts
<1> QED BY <1>1, <1>2, <1>3, <1>4, <1>5, <1>6 DEF Kept, NewTop

\* The frame on top.
LEMMA TopFacts ==
  ASSUME TypeInv, NEW t \in Thread, stack[t] # <<>>
  PROVE  /\ Top(t) \in FrameSet /\ Top(t) = stack[t][Len(stack[t])]
         /\ Len(stack[t]) \in Nat \ {0} /\ Len(stack[t]) \in DOMAIN stack[t]
         /\ DOMAIN stack[t] = 1..Len(stack[t])
<1>1. stack[t] \in Seq(FrameSet)
  BY DEF TypeInv
<1> QED BY <1>1, FrontFacts DEF Top

LEMMA TopReplaced ==
  ASSUME TypeInv, NEW t \in Thread, stack[t] # <<>>, NEW f \in FrameSet, stack' = Replaced(t, f)
  PROVE  \E m \in Nat : /\ m = Len(stack[t]) - 1 /\ m < Len(stack[t]) /\ Kept(t, m) /\ NewTop(t, m, f)
                        /\ DOMAIN stack[t] = 1..(m + 1)
<1>1. /\ Len(stack[t]) \in Nat \ {0} /\ DOMAIN stack[t] = 1..Len(stack[t])
      /\ Kept(t, Len(stack[t]) - 1) /\ NewTop(t, Len(stack[t]) - 1, f)
  BY ReplacedKept, TopFacts
<1>2. PICK m \in Nat : m = Len(stack[t]) - 1
  BY <1>1
<1>3. m < Len(stack[t]) /\ m + 1 = Len(stack[t])
  BY <1>1, <1>2
<1> WITNESS m \in Nat
<1> QED BY <1>1, <1>2, <1>3

LEMMA Domains ==
  ASSUME TypeInv, NEW t \in Thread
  PROVE  /\ DOMAIN stack[t] = 1..Len(stack[t]) /\ DOMAIN tasks[t] = 1..Len(tasks[t])
         /\ Len(stack[t]) \in Nat /\ Len(tasks[t]) \in Nat
         /\ \A i \in DOMAIN stack[t] : stack[t][i] \in FrameSet
         /\ \A k \in DOMAIN tasks[t] : tasks[t][k] \in TaskSet
         /\ (stack[t] = <<>> <=> Len(stack[t]) = 0)
<1>1. stack[t] \in Seq(FrameSet) /\ tasks[t] \in Seq(TaskSet)
  BY DEF TypeInv
<1> QED BY <1>1

(***************************************************************************)
(* What a step of t that changes one frame leaves of each part.             *)
(***************************************************************************)
\* Nothing that waits, or is at a connection, is buried; the new frame is no call in place.
HoldKept(t, m) ==
  /\ \A i \in 1..m : stack[t][i].op = "emit" => stack[t][i].pc \in {"lock", "calls"}
  /\ \/ mutex' = mutex /\ emitted' = emitted
     \/ \A u \in Thread : \A i \in DOMAIN stack[u] : (u # t \/ i <= m) => ~Holds(stack[u][i])
  /\ Len(stack'[t]) = m + 1 =>
       LET f == stack'[t][m + 1]
       IN /\ Holds(f) => mutex' = t /\ \A i \in 1..m : ~Holds(stack[t][i])
          /\ Emits(f) => /\ f.n = Len(emitted') /\ Len(emitted') > 0 /\ emitted'[Len(emitted')] = t
                         /\ AtConnection(f) => f.conn \in Conn /\ life'[f.conn] # "none"
          /\ ~IsCall(f, "inPlace")
          /\ IsCall(f, "sync") => m = 0

LEMMA HoldStep ==
  ASSUME IInv, TypeInv', NEW t \in Thread, NEW m \in Nat, Kept(t, m), HoldKept(t, m),
         \A c \in Conn : life[c] # "none" => life'[c] # "none"
  PROVE  HoldInv'
<1>1. TypeInv /\ HoldInv
  BY DEF IInv
<1>2. /\ \A u \in Thread : DOMAIN stack'[u] = 1..Len(stack'[u]) /\ Len(stack'[u]) \in Nat
      /\ \A u \in Thread : DOMAIN stack[u] = 1..Len(stack[u]) /\ Len(stack[u]) \in Nat
  <2>1. \A u \in Thread : stack[u] \in Seq(FrameSet) /\ stack'[u] \in Seq(FrameSet)
    BY <1>1 DEF TypeInv
  <2> QED BY <2>1, SeqFacts
<1>3. ASSUME NEW u \in Thread, NEW i \in DOMAIN stack[u], u # t \/ i <= m
      PROVE  /\ stack'[u][i] = stack[u][i] /\ i \in DOMAIN stack'[u]
             /\ Holds(stack[u][i]) => mutex' = u /\ emitted' = emitted
  <2>1. CASE u # t
    BY <1>1, <1>2, <1>3, <2>1 DEF Kept, HoldKept, HoldInv
  <2>2. CASE u = t
    BY <1>1, <1>2, <1>3, <2>2 DEF Kept, HoldKept, HoldInv
  <2> QED BY <2>1, <2>2
<1>4. \A u \in Thread : \A i \in DOMAIN stack'[u] :
        (i \in DOMAIN stack[u] /\ (u # t \/ i <= m)) \/ (u = t /\ i = m + 1 /\ Len(stack'[t]) = m + 1)
  BY <1>2 DEF Kept
<1>5. ASSUME NEW u \in Thread, NEW i \in DOMAIN stack'[u]
      PROVE  /\ Holds(stack'[u][i]) => mutex' = u /\ \A j \in DOMAIN stack'[u] : Holds(stack'[u][j]) => i = j
             /\ Emits(stack'[u][i]) =>
                  /\ stack'[u][i].n = Len(emitted') /\ Len(emitted') > 0 /\ emitted'[Len(emitted')] = u
                  /\ stack'[u][i].pc # "calls" => i = Len(stack'[u])
                  /\ AtConnection(stack'[u][i]) => stack'[u][i].conn \in Conn /\ life'[stack'[u][i].conn] # "none"
             /\ IsCall(stack'[u][i], "inPlace") =>
                  i > 1 /\ stack'[u][i - 1].op = "emit" /\ stack'[u][i - 1].pc = "calls"
             /\ IsCall(stack'[u][i], "sync") => i = 1
  <2>1. CASE i \in DOMAIN stack[u] /\ (u # t \/ i <= m)
    <3>1. stack'[u][i] = stack[u][i] /\ (Holds(stack[u][i]) => mutex' = u /\ emitted' = emitted)
      BY <1>3, <2>1
    <3>2. Holds(stack'[u][i]) => mutex' = u /\ \A j \in DOMAIN stack'[u] : Holds(stack'[u][j]) => i = j
      <4> SUFFICES ASSUME Holds(stack'[u][i]), NEW j \in DOMAIN stack'[u], Holds(stack'[u][j])
                   PROVE  i = j
        BY <3>1
      <4>1. CASE j \in DOMAIN stack[u] /\ (u # t \/ j <= m)
        BY <1>1, <1>3, <3>1, <2>1, <4>1 DEF HoldInv
      <4>2. CASE u = t /\ j = m + 1 /\ Len(stack'[t]) = m + 1
        BY <1>2, <2>1, <3>1, <4>2 DEF HoldKept
      <4> QED BY <1>4, <4>1, <4>2
    <3>3. Emits(stack'[u][i]) =>
            /\ stack'[u][i].n = Len(emitted') /\ Len(emitted') > 0 /\ emitted'[Len(emitted')] = u
            /\ stack'[u][i].pc # "calls" => i = Len(stack'[u])
            /\ AtConnection(stack'[u][i]) => stack'[u][i].conn \in Conn /\ life'[stack'[u][i].conn] # "none"
      <4> SUFFICES ASSUME Emits(stack[u][i])
                   PROVE  /\ stack[u][i].n = Len(emitted') /\ Len(emitted') > 0 /\ emitted'[Len(emitted')] = u
                          /\ stack[u][i].pc # "calls" => i = Len(stack'[u])
                          /\ AtConnection(stack[u][i]) => stack[u][i].conn \in Conn /\ life'[stack[u][i].conn] # "none"
        BY <3>1
      <4>1. emitted' = emitted
        BY <3>1 DEF Emits, Holds
      <4>2. stack[u][i].pc # "calls" => u # t
        BY <1>2, <2>1 DEF HoldKept, Emits
      <4>3. u # t => stack'[u] = stack[u]
        BY DEF Kept
      <4> QED BY <1>1, <2>1, <4>1, <4>2, <4>3 DEF HoldInv
    <3>4. IsCall(stack'[u][i], "inPlace") =>
            i > 1 /\ stack'[u][i - 1].op = "emit" /\ stack'[u][i - 1].pc = "calls"
      <4> SUFFICES ASSUME IsCall(stack[u][i], "inPlace")
                   PROVE  i > 1 /\ stack'[u][i - 1].op = "emit" /\ stack'[u][i - 1].pc = "calls"
        BY <3>1
      <4>1. i > 1 /\ stack[u][i - 1].op = "emit" /\ stack[u][i - 1].pc = "calls"
        BY <1>1, <2>1 DEF HoldInv
      <4>2. i - 1 \in DOMAIN stack[u] /\ (u # t \/ i - 1 <= m)
        BY <1>2, <2>1, <4>1
      <4> QED BY <1>3, <4>1, <4>2
    <3> QED BY <1>1, <2>1, <3>1, <3>2, <3>3, <3>4 DEF HoldInv
  <2>2. CASE u = t /\ i = m + 1 /\ Len(stack'[t]) = m + 1
    <3>1. Holds(stack'[t][i]) => mutex' = t /\ \A j \in DOMAIN stack'[t] : Holds(stack'[t][j]) => i = j
      <4> SUFFICES ASSUME Holds(stack'[t][i]), NEW j \in DOMAIN stack'[t], j # i
                   PROVE  mutex' = t /\ ~Holds(stack'[t][j])
        BY <2>2 DEF HoldKept
      <4>1. j \in 1..m
        BY <1>2, <2>2
      <4> QED BY <2>2, <4>1 DEF HoldKept, Kept
    <3> QED BY <2>2, <3>1 DEF HoldKept
  <2> QED BY <1>4, <2>1, <2>2
<1> QED BY <1>5 DEF HoldInv

LEMMA SyncStep ==
  ASSUME IInv, TypeInv', NEW t \in Thread, NEW m \in Nat, Kept(t, m),
         stack[t] # <<>> => ~(Top(t).op = "emit" /\ Top(t).pc = "waits"),
         Len(stack'[t]) = m + 1 => ~IsCall(stack'[t][m + 1], "sync"),
         \A u \in Thread : \A k \in DOMAIN tasks'[u] :
           tasks'[u][k].op = "call" => k \in DOMAIN tasks[u] /\ tasks'[u][k] = tasks[u][k]
  PROVE  SyncInv'
<1>1. TypeInv /\ SyncInv
  BY DEF IInv
<1>2. \A u \in Thread : (stack'[u] # <<>> <=> Len(stack'[u]) > 0) /\ Len(stack'[u]) \in Nat
                        /\ (stack[u] # <<>> <=> Len(stack[u]) > 0) /\ Len(stack[u]) \in Nat
  <2>1. \A u \in Thread : stack[u] \in Seq(FrameSet) /\ stack'[u] \in Seq(FrameSet)
    BY <1>1 DEF TypeInv
  <2> QED BY <2>1, SeqFacts
<1>3. \A u \in Thread : SyncRuns(u)' => SyncRuns(u) /\ stack'[u][1] = stack[u][1]
  <2>1. \A u \in Thread : u # t => stack'[u] = stack[u]
    BY DEF Kept
  <2>2. SyncRuns(t)' => SyncRuns(t) /\ stack'[t][1] = stack[t][1]
    BY <1>2 DEF Kept, SyncRuns
  <2> QED BY <2>1, <2>2 DEF SyncRuns
<1>4. \A x : WaitsFor(x) => WaitsFor(x)'
  <2>1. ~WaitsFor(t)
    BY DEF WaitsFor, Top
  <2> QED BY <2>1 DEF Kept, WaitsFor
<1>5. \A u \in Thread : \A k \in DOMAIN tasks'[u] :
        SyncTask(u, k)' => SyncTask(u, k) /\ k \in DOMAIN tasks[u] /\ tasks'[u][k] = tasks[u][k]
  BY DEF SyncTask, IsCall
<1> QED BY <1>1, <1>3, <1>4, <1>5 DEF SyncInv

\* The calls, and what they depend on, are as before.
CallsKept ==
  /\ called' = called
  /\ \A n \in 1..Len(emitted) : n \in 1..Len(emitted') /\ emitted'[n] = emitted[n]
  /\ \A u \in Thread : \A k \in DOMAIN tasks'[u] :
       tasks'[u][k].op = "call" => k \in DOMAIN tasks[u] /\ tasks'[u][k] = tasks[u][k]
  /\ \A c \in Conn : /\ life[c] # "none" => life'[c] # "none" /\ type'[c] = type[c]
                     /\ life[c] # "none" => thread'[c] \in {thread[c], None}
                     /\ c \in list' => life'[c] # "none"

LEMMA PostStep ==
  ASSUME IInv, CallsKept PROVE PostInv'
<1>1. PostInv
  BY DEF IInv
<1>2. \A u \in Thread : \A k \in DOMAIN tasks'[u] :
        Posted(u, k)' => Posted(u, k) /\ k \in DOMAIN tasks[u] /\ tasks'[u][k] = tasks[u][k]
  BY DEF Posted, CallsKept
<1>3. ASSUME NEW t \in Thread, NEW k \in DOMAIN tasks'[t], Posted(t, k)'
      PROVE  LET f == tasks'[t][k]
             IN /\ f.conn \in Conn /\ life'[f.conn] # "none" /\ thread'[f.conn] \in {t, None}
                /\ f.n \in 1..Len(emitted')
                /\ \/ f.pc = "sync" /\ type'[f.conn] = "Sync"
                   \/ f.pc = "queued" /\ type'[f.conn] \in {"Auto", "Queued"}
                /\ type'[f.conn] = "Auto" => emitted'[f.n] # t
                /\ \A u \in Thread : \A j \in DOMAIN tasks'[u] :
                     Posted(u, j)' /\ tasks'[u][j].conn = f.conn =>
                       u = t /\ (k < j => f.n < tasks'[u][j].n)
  <2> DEFINE f == tasks[t][k]
  <2>1. Posted(t, k) /\ tasks'[t][k] = f /\ k \in DOMAIN tasks[t]
    BY <1>2, <1>3
  <2>2. /\ f.conn \in Conn /\ life[f.conn] # "none" /\ thread[f.conn] \in {t, None}
        /\ f.n \in 1..Len(emitted)
        /\ \/ f.pc = "sync" /\ type[f.conn] = "Sync"
           \/ f.pc = "queued" /\ type[f.conn] \in {"Auto", "Queued"}
        /\ type[f.conn] = "Auto" => emitted[f.n] # t
        /\ \A u \in Thread : \A j \in DOMAIN tasks[u] :
             Posted(u, j) /\ tasks[u][j].conn = f.conn => u = t /\ (k < j => f.n < tasks[u][j].n)
    BY <1>1, <2>1 DEF PostInv
  <2>3. \A u \in Thread : \A j \in DOMAIN tasks'[u] :
          Posted(u, j)' /\ tasks'[u][j].conn = f.conn => u = t /\ (k < j => f.n < tasks'[u][j].n)
    BY <1>2, <2>2
  <2> QED BY <2>1, <2>2, <2>3 DEF CallsKept
<1> QED BY <1>3 DEF PostInv

AlikeNext(c, m, n) == type'[c] = "Auto" => emitted'[m] = emitted'[n]

LEMMA CalledStep ==
  ASSUME IInv, CallsKept PROVE CalledInv' /\ InOrder'
<1>1. CalledInv /\ InOrder /\ PostInv
  BY DEF IInv
<1>2. \A u \in Thread : \A k \in DOMAIN tasks'[u] :
        Posted(u, k)' => Posted(u, k) /\ k \in DOMAIN tasks[u] /\ tasks'[u][k] = tasks[u][k]
  BY DEF Posted, CallsKept
<1>3. \A c \in Conn : called[c] # <<>> => life[c] # "none" /\ type'[c] = type[c]
  BY <1>1 DEF CalledInv, CallsKept
<1>4. \A c \in Conn : \A j \in DOMAIN called[c] :
        called[c] # <<>> /\ called[c][j] \in 1..Len(emitted)
  BY <1>1 DEF CalledInv
<1>5. \A c \in Conn : \A j, k \in 1..Len(emitted) :
        type'[c] = type[c] /\ AlikeNext(c, j, k) => Alike(c, j, k)
  BY DEF Alike, AlikeNext, CallsKept
<1>6. InOrder'
  <2> SUFFICES ASSUME NEW c \in Conn, NEW j \in 1..Len(called[c]), NEW k \in 1..Len(called[c]),
                      j < k, AlikeNext(c, called[c][j], called[c][k])
               PROVE  called[c][j] < called[c][k]
    BY DEF InOrder, AlikeNext, CallsKept
  <2>1. j \in DOMAIN called[c] /\ k \in DOMAIN called[c]
    <3>1. called[c] \in Seq(Nat)
      BY DEF IInv, TypeInv
    <3> QED BY <3>1
  <2>2. Alike(c, called[c][j], called[c][k])
    BY <1>3, <1>4, <1>5, <2>1
  <2> QED BY <1>1, <2>2 DEF InOrder, Alike
<1>7. CalledInv'
  <2> SUFFICES ASSUME NEW c \in Conn
               PROVE  /\ \A j \in DOMAIN called[c] : called[c][j] \in 1..Len(emitted')
                      /\ life'[c] = "none" => called[c] = <<>>
                      /\ c \in list' => life'[c] # "none"
                      /\ \A j \in DOMAIN called[c] : \A t \in Thread : \A k \in DOMAIN tasks'[t] :
                           Posted(t, k)' /\ tasks'[t][k].conn = c /\ AlikeNext(c, called[c][j], tasks'[t][k].n)
                             => called[c][j] < tasks'[t][k].n
    BY DEF CalledInv, Alike, AlikeNext, CallsKept
  <2>1. \A j \in DOMAIN called[c] : called[c][j] \in 1..Len(emitted')
    BY <1>4 DEF CallsKept
  <2>2. (life'[c] = "none" => called[c] = <<>>) /\ (c \in list' => life'[c] # "none")
    BY <1>3 DEF CallsKept
  <2>3. ASSUME NEW j \in DOMAIN called[c], NEW t \in Thread, NEW k \in DOMAIN tasks'[t],
               Posted(t, k)', tasks'[t][k].conn = c, AlikeNext(c, called[c][j], tasks'[t][k].n)
        PROVE  called[c][j] < tasks'[t][k].n
    <3>1. Posted(t, k) /\ k \in DOMAIN tasks[t] /\ tasks'[t][k] = tasks[t][k]
      BY <1>2, <2>3
    <3>2. tasks[t][k].n \in 1..Len(emitted)
      BY <1>1, <3>1 DEF PostInv
    <3>3. Alike(c, called[c][j], tasks[t][k].n)
      BY <1>3, <1>4, <1>5, <2>3, <3>1, <3>2
    <3> QED BY <1>1, <2>3, <3>1, <3>3 DEF CalledInv
  <2> QED BY <2>1, <2>2, <2>3
<1> QED BY <1>6, <1>7

\* What is ahead of f has not been called for its emission.
NotYet(f, c) ==
  /\ \A j \in DOMAIN called[c] : called[c][j] < f.n
  /\ \A u \in Thread : \A k \in DOMAIN tasks[u] :
       Posted(u, k) /\ tasks[u][k].conn = c => tasks[u][k].n < f.n

LEMMA AheadStep ==
  ASSUME IInv, TypeInv', CallsKept, NEW t \in Thread, NEW m \in Nat, Kept(t, m),
         Len(stack'[t]) = m + 1 /\ Emits(stack'[t][m + 1]) =>
           \A c \in Conn : Ahead(stack'[t][m + 1], c) => NotYet(stack'[t][m + 1], c)
  PROVE  AheadInv'
<1>1. TypeInv /\ AheadInv
  BY DEF IInv
<1>2. \A u \in Thread : \A k \in DOMAIN tasks'[u] :
        Posted(u, k)' => Posted(u, k) /\ k \in DOMAIN tasks[u] /\ tasks'[u][k] = tasks[u][k]
  BY DEF Posted, CallsKept
<1>3. \A u \in Thread : /\ DOMAIN stack'[u] = 1..Len(stack'[u]) /\ Len(stack'[u]) \in Nat
                        /\ DOMAIN stack[u] = 1..Len(stack[u]) /\ Len(stack[u]) \in Nat
  <2>1. \A u \in Thread : stack[u] \in Seq(FrameSet) /\ stack'[u] \in Seq(FrameSet)
    BY <1>1 DEF TypeInv
  <2> QED BY <2>1, SeqFacts
<1>4. \A u \in Thread : \A i \in DOMAIN stack'[u] :
        (i \in DOMAIN stack[u] /\ stack'[u][i] = stack[u][i])
        \/ (u = t /\ i = m + 1 /\ Len(stack'[t]) = m + 1)
  <2>1. \A u \in Thread : u # t => stack'[u] = stack[u]
    BY DEF Kept
  <2>2. \A i \in DOMAIN stack'[t] :
          (i \in DOMAIN stack[t] /\ stack'[t][i] = stack[t][i]) \/ (i = m + 1 /\ Len(stack'[t]) = m + 1)
    BY <1>3 DEF Kept
  <2> QED BY <2>1, <2>2
<1>5. ASSUME NEW u \in Thread, NEW i \in DOMAIN stack'[u], Emits(stack'[u][i]),
             NEW c \in Conn, Ahead(stack'[u][i], c)
      PROVE  NotYet(stack'[u][i], c)
  <2>1. CASE i \in DOMAIN stack[u] /\ stack'[u][i] = stack[u][i]
    BY <1>1, <1>5, <2>1 DEF AheadInv, NotYet
  <2>2. CASE u = t /\ i = m + 1 /\ Len(stack'[t]) = m + 1
    BY <1>5, <2>2
  <2> QED BY <1>4, <2>1, <2>2
<1>6. ASSUME NEW f, NEW c \in Conn, NotYet(f, c)
      PROVE  /\ \A j \in DOMAIN called'[c] : called'[c][j] < f.n
             /\ \A u \in Thread : \A k \in DOMAIN tasks'[u] :
                  Posted(u, k)' /\ tasks'[u][k].conn = c => tasks'[u][k].n < f.n
  BY <1>2, <1>6 DEF NotYet, CallsKept
<1> QED BY <1>5, <1>6 DEF AheadInv, Ahead

\* No call is added to a queue, and no connection that was made changes but loses its thread.
ConnsKept ==
  /\ \A u \in Thread : \A k \in DOMAIN tasks'[u] :
       tasks'[u][k].op = "call" => \E j \in DOMAIN tasks[u] : tasks[u][j] = tasks'[u][k]
  /\ \A c \in Conn : life[c] # "none" => type'[c] = type[c] /\ thread'[c] \in {thread[c], None}

LEMMA ReadyKept ==
  ASSUME ConnsKept, NEW t \in Thread, NEW c \in Conn, NEW p, life[c] # "none", Ready(t, c, p)
  PROVE  Ready(t, c, p)'
<1>1. /\ p \in Thread /\ thread[c] \in {p, None} /\ type[c] # "Direct" /\ (type[c] # "Queued" => p # t)
      /\ \A u \in Thread : \A k \in DOMAIN tasks[u] : Posted(u, k) /\ tasks[u][k].conn = c => u = p
  BY DEF Ready
<1>2. type'[c] = type[c] /\ thread'[c] \in {thread[c], None}
  BY DEF ConnsKept
<1>3. ASSUME NEW u \in Thread, NEW k \in DOMAIN tasks'[u], Posted(u, k)', tasks'[u][k].conn = c
      PROVE  u = p
  <2>1. PICK j \in DOMAIN tasks[u] : tasks[u][j] = tasks'[u][k]
    BY <1>3 DEF ConnsKept, Posted
  <2> QED BY <1>1, <1>3, <2>1 DEF Posted
<1> QED BY <1>1, <1>2, <1>3 DEF Ready

LEMMA ReadyStep ==
  ASSUME IInv, ConnsKept, NEW t \in Thread,
         \A u \in Thread : u # t /\ At(u, "emit", "post")' => stack'[u] = stack[u],
         At(t, "emit", "post")' =>
           \/ stack'[t] = stack[t]
           \/ \E c \in Conn, p \in Thread : /\ c = Last(stack'[t]).conn /\ p = Last(stack'[t]).peer
                                            /\ life[c] # "none" /\ Ready(t, c, p)
  PROVE  ReadyInv'
<1>1. TypeInv /\ HoldInv /\ ReadyInv
  BY DEF IInv
<1>2. ASSUME NEW u \in Thread, At(u, "emit", "post")', stack'[u] = stack[u]
      PROVE  Ready(u, Top(u).conn, Top(u).peer)' /\ Top(u)' = Top(u)
  <2>1. At(u, "emit", "post") /\ Top(u)' = Top(u)
    BY <1>2 DEF At, Top
  <2>2. PICK i \in DOMAIN stack[u] : Top(u) = stack[u][i]
    BY <1>1, <2>1, TopFacts DEF At
  <2>6. Top(u).conn \in Conn /\ life[Top(u).conn] # "none"
    <3>1. Emits(stack[u][i]) /\ AtConnection(stack[u][i])
      BY <2>1, <2>2 DEF Emits, At, Top
    <3> QED BY <1>1, <2>2, <3>1 DEF HoldInv
  <2>7. Ready(u, Top(u).conn, Top(u).peer)
    BY <1>1, <2>1 DEF ReadyInv
  <2>3. PICK c \in Conn, p \in Thread : c = Top(u).conn /\ p = Top(u).peer
    BY <2>6, <2>7 DEF Ready
  <2>4. Ready(u, c, p) /\ life[c] # "none"
    BY <2>3, <2>6, <2>7
  <2>5. Ready(u, c, p)'
    BY <2>3, <2>4, ReadyKept
  <2> QED BY <2>1, <2>3, <2>5 DEF Ready
<1>3. ASSUME At(t, "emit", "post")', stack'[t] # stack[t]
      PROVE  Ready(t, Top(t).conn, Top(t).peer)'
  <2>1. PICK c \in Conn, p \in Thread : /\ c = Last(stack'[t]).conn /\ p = Last(stack'[t]).peer
                                       /\ life[c] # "none" /\ Ready(t, c, p)
    BY <1>3
  <2>2. Ready(t, c, p)'
    BY <2>1, ReadyKept
  <2> QED BY <2>1, <2>2 DEF Ready, Top
<1>4. ASSUME NEW u \in Thread, At(u, "emit", "post")' PROVE Ready(u, Top(u).conn, Top(u).peer)'
  <2>1. CASE stack'[u] = stack[u]
    BY <1>2, <1>4, <2>1
  <2>2. CASE stack'[u] # stack[u]
    BY <1>3, <1>4, <2>2
  <2> QED BY <2>1, <2>2
<1> QED BY <1>4 DEF ReadyInv

LEMMA TopLast ==
  ASSUME TypeInv', NEW t \in Thread, stack'[t] # <<>>
  PROVE  \E i \in DOMAIN stack'[t] : i = Len(stack'[t]) /\ Last(stack'[t]) = stack'[t][i]
<1>1. PICK q \in Seq(FrameSet) : q = stack'[t]
  BY DEF TypeInv
<1>2. q # <<>> /\ DOMAIN q = 1..Len(q)
  BY <1>1, SeqFacts
<1>3. Len(q) \in Nat \ {0} /\ Last(q) = q[Len(q)]
  BY <1>2, FrontFacts
<1>4. Len(q) \in DOMAIN q
  BY <1>2, <1>3
<1> QED BY <1>1, <1>3, <1>4

LEMMA LastOf ==
  ASSUME NEW q \in Seq(FrameSet), NEW n \in Nat, Len(q) = n + 1 PROVE q # <<>> /\ Last(q) = q[n + 1]
<1>1. q # <<>>
  OBVIOUS
<1> QED BY <1>1, FrontFacts

\* The frame on top after a step.
LEMMA KeptTop ==
  ASSUME TypeInv', NEW t \in Thread, NEW m \in Nat, Kept(t, m), stack'[t] # <<>>
  PROVE  \/ m > 0 /\ Len(stack'[t]) = m /\ Last(stack'[t]) = stack[t][m]
         \/ Len(stack'[t]) = m + 1 /\ Last(stack'[t]) = stack'[t][m + 1]
<1>1. PICK q \in Seq(FrameSet) : q = stack'[t]
  BY DEF TypeInv
<1>2. Len(q) \in Nat \ {0} /\ Last(q) = q[Len(q)]
  BY <1>1, FrontFacts
<1>3. CASE Len(q) = m
  <2>1. m > 0 /\ m \in 1..m
    BY <1>2, <1>3
  <2> QED BY <1>1, <1>2, <1>3, <2>1 DEF Kept
<1>4. CASE Len(q) = m + 1
  BY <1>1, <1>2, <1>4
<1> QED BY <1>1, <1>3, <1>4 DEF Kept

\* A step that posts and calls nothing.
LEMMA QuietStep ==
  ASSUME IInv, TypeInv', CallsKept, NEW t \in Thread, NEW m \in Nat, Kept(t, m), HoldKept(t, m),
         stack[t] # <<>> => ~(Top(t).op = "emit" /\ Top(t).pc = "waits"),
         Len(stack'[t]) = m + 1 => ~IsCall(stack'[t][m + 1], "sync"),
         Len(stack'[t]) = m + 1 /\ Emits(stack'[t][m + 1]) =>
           \A c \in Conn : Ahead(stack'[t][m + 1], c) => NotYet(stack'[t][m + 1], c),
         Len(stack'[t]) = m + 1 /\ Emits(stack'[t][m + 1]) /\ stack'[t][m + 1].pc = "post" =>
           /\ life[stack'[t][m + 1].conn] # "none"
           /\ Ready(t, stack'[t][m + 1].conn, stack'[t][m + 1].peer)
  PROVE  IInv'
<1>1. HoldInv'
  BY HoldStep DEF CallsKept
<1>2. SyncInv'
  BY SyncStep DEF CallsKept
<1>3. PostInv' /\ CalledInv' /\ InOrder' /\ AheadInv'
  BY PostStep, CalledStep, AheadStep
<1>4. ConnsKept
  BY DEF CallsKept, ConnsKept
<1>5. ASSUME At(t, "emit", "post")'
      PROVE  \E c \in Conn, p \in Thread : /\ c = Last(stack'[t]).conn /\ p = Last(stack'[t]).peer
                                           /\ life[c] # "none" /\ Ready(t, c, p)
  <2>1. stack'[t] # <<>> /\ Last(stack'[t]).op = "emit" /\ Last(stack'[t]).pc = "post"
    BY <1>5 DEF At
  <2>2. ~(m > 0 /\ Len(stack'[t]) = m /\ Last(stack'[t]) = stack[t][m])
    BY <2>1 DEF HoldKept
  <2>3. Len(stack'[t]) = m + 1 /\ Last(stack'[t]) = stack'[t][m + 1]
    BY <2>1, <2>2, KeptTop
  <2>4. /\ stack'[t][m + 1].conn \in Conn /\ life[stack'[t][m + 1].conn] # "none"
        /\ Ready(t, stack'[t][m + 1].conn, stack'[t][m + 1].peer)
    BY <2>1, <2>3 DEF HoldKept, Emits
  <2> QED BY <2>3, <2>4 DEF Ready
<1>6. ReadyInv'
  BY <1>4, <1>5, ReadyStep DEF Kept
<1> QED BY <1>1, <1>2, <1>3, <1>6 DEF IInv

LEMMA StillStep ==
  ASSUME IInv, TypeInv', CallsKept, UNCHANGED <<stack, mutex, emitted>>
  PROVE  IInv'
<1>1. TypeInv /\ HoldInv /\ SyncInv /\ AheadInv
  BY DEF IInv
<1>2. HoldInv'
  BY <1>1 DEF HoldInv, CallsKept
<1>3. \A u \in Thread : \A k \in DOMAIN tasks'[u] :
        tasks'[u][k].op = "call" => k \in DOMAIN tasks[u] /\ tasks'[u][k] = tasks[u][k]
  BY DEF CallsKept
<1>4. SyncInv'
  <2>1. \A u \in Thread : \A k \in DOMAIN tasks'[u] :
          SyncTask(u, k)' => SyncTask(u, k) /\ k \in DOMAIN tasks[u] /\ tasks'[u][k] = tasks[u][k]
    BY <1>3 DEF SyncTask, IsCall
  <2>2. \A u \in Thread : SyncRuns(u)' <=> SyncRuns(u)
    BY DEF SyncRuns
  <2>3. \A x : WaitsFor(x)' <=> WaitsFor(x)
    BY DEF WaitsFor
  <2> QED BY <1>1, <2>1, <2>2, <2>3 DEF SyncInv
<1>5. AheadInv'
  <2>1. \A u \in Thread : \A k \in DOMAIN tasks'[u] :
          Posted(u, k)' => Posted(u, k) /\ k \in DOMAIN tasks[u] /\ tasks'[u][k] = tasks[u][k]
    BY <1>3 DEF Posted
  <2> QED BY <1>1, <2>1 DEF AheadInv, Ahead, CallsKept
<1>6. ReadyInv'
  <2>1. ConnsKept
    BY DEF CallsKept, ConnsKept
  <2>2. ASSUME NEW t \in Thread PROVE ReadyInv'
    BY <2>1, ReadyStep
  <2>3. Thread = {} => ReadyInv'
    BY DEF ReadyInv
  <2> QED BY <2>2, <2>3
<1> QED BY <1>2, <1>4, <1>5, <1>6, PostStep, CalledStep DEF IInv

LEMMA Buried ==
  ASSUME IInv, NEW t \in Thread, NEW m \in Nat,
         m < Len(stack[t]) \/ (m = Len(stack[t]) /\ (stack[t] = <<>> \/ Top(t).op # "emit"))
  PROVE  \A i \in 1..m : stack[t][i].op = "emit" => stack[t][i].pc \in {"lock", "calls"}
<1>1. TypeInv /\ HoldInv
  BY DEF IInv
<1>2. DOMAIN stack[t] = 1..Len(stack[t]) /\ Len(stack[t]) \in Nat /\ (stack[t] = <<>> <=> Len(stack[t]) = 0)
  BY <1>1, Domains
<1> SUFFICES ASSUME NEW i \in 1..m, stack[t][i].op = "emit", stack[t][i].pc \notin {"lock", "calls"}
             PROVE  FALSE
  OBVIOUS
<1>3. i \in DOMAIN stack[t] /\ i = Len(stack[t])
  BY <1>1, <1>2 DEF HoldInv, Emits
<1>4. Top(t) = stack[t][i]
  BY <1>1, <1>2, <1>3, TopFacts
<1> QED BY <1>2, <1>3, <1>4

\* A frame ends, or is replaced by one that does not emit, or gets one above it.
Waiting(f) == f.op = "emit" /\ f.pc = "waits"
Plain(f) == ~Emits(f) /\ ~IsCall(f, "inPlace") /\ ~IsCall(f, "sync")

LEMMA QuietPop ==
  ASSUME IInv, TypeInv', CallsKept, NEW t \in Thread, stack[t] # <<>>, stack' = Popped(t),
         ~Waiting(Top(t)),
         \/ mutex' = mutex /\ emitted' = emitted
         \/ mutex = t /\ Holds(Top(t))
  PROVE  IInv'
<1>1. TypeInv /\ HoldInv
  BY DEF IInv
<1>2. Len(stack[t]) \in Nat \ {0} /\ Kept(t, Len(stack[t]) - 1) /\ Len(stack'[t]) = Len(stack[t]) - 1
  BY <1>1, PoppedKept
<1>3. PICK m \in Nat : m = Len(stack[t]) - 1
  BY <1>2
<1>4. HoldKept(t, m)
  <2>1. \A i \in 1..m : stack[t][i].op = "emit" => stack[t][i].pc \in {"lock", "calls"}
    BY <1>2, <1>3, Buried
  <2>2. CASE mutex = t /\ Holds(Top(t))
    <3>1. Top(t) = stack[t][m + 1] /\ m + 1 \in DOMAIN stack[t]
      BY <1>1, <1>2, <1>3, TopFacts
    <3>2. \A u \in Thread : \A i \in DOMAIN stack[u] : Holds(stack[u][i]) => u = t /\ i = m + 1
      BY <1>1, <2>2, <3>1 DEF HoldInv
    <3> QED BY <1>2, <1>3, <2>1, <3>2 DEF HoldKept
  <2>3. CASE mutex' = mutex /\ emitted' = emitted
    BY <1>2, <1>3, <2>1, <2>3 DEF HoldKept
  <2> QED BY <2>2, <2>3
<1>5. Len(stack'[t]) # m + 1
  BY <1>2, <1>3
<1> QED BY <1>2, <1>3, <1>4, <1>5, QuietStep DEF Waiting

LEMMA QuietReplace ==
  ASSUME IInv, TypeInv', CallsKept, NEW t \in Thread, stack[t] # <<>>, NEW f \in FrameSet,
         stack' = Replaced(t, f), ~Waiting(Top(t)), Plain(f), Holds(f) => Holds(Top(t)),
         mutex' = mutex, emitted' = emitted
  PROVE  IInv'
<1>1. TypeInv /\ HoldInv
  BY DEF IInv
<1>2. Len(stack[t]) \in Nat \ {0} /\ Kept(t, Len(stack[t]) - 1) /\ NewTop(t, Len(stack[t]) - 1, f)
  BY <1>1, ReplacedKept
<1>3. PICK m \in Nat : m = Len(stack[t]) - 1
  BY <1>2
<1>4. \A i \in 1..m : stack[t][i].op = "emit" => stack[t][i].pc \in {"lock", "calls"}
  BY <1>2, <1>3, Buried
<1>5. Holds(f) => mutex' = t /\ \A i \in 1..m : ~Holds(stack[t][i])
  <2>1. Top(t) = stack[t][m + 1] /\ m + 1 \in DOMAIN stack[t] /\ DOMAIN stack[t] = 1..(m + 1)
    BY <1>1, <1>2, <1>3, TopFacts
  <2>2. \A i \in 1..m : i \in DOMAIN stack[t] /\ i # m + 1
    BY <2>1
  <2> QED BY <1>1, <2>1, <2>2 DEF HoldInv
<1>6. NewTop(t, m, f) /\ Kept(t, m)
  BY <1>2, <1>3
<1>7. HoldKept(t, m)
  BY <1>4, <1>5, <1>6 DEF HoldKept, Plain, NewTop
<1> QED BY <1>6, <1>7, QuietStep DEF Waiting, Plain, NewTop

LEMMA QuietPush ==
  ASSUME IInv, TypeInv', CallsKept, NEW t \in Thread, NEW f \in FrameSet, stack' = Pushed(t, f),
         stack[t] = <<>> \/ Top(t).op # "emit", Plain(f), ~Holds(f), mutex' = mutex, emitted' = emitted
  PROVE  IInv'
<1>1. TypeInv
  BY DEF IInv
<1>2. PICK m \in Nat : m = Len(stack[t])
  BY <1>1, Domains
<1>3. Kept(t, m) /\ NewTop(t, m, f)
  BY <1>1, <1>2, PushedKept
<1>4. \A i \in 1..m : stack[t][i].op = "emit" => stack[t][i].pc \in {"lock", "calls"}
  BY <1>2, Buried
<1>5. HoldKept(t, m)
  BY <1>3, <1>4 DEF HoldKept, Plain, NewTop
<1> QED BY <1>3, <1>5, QuietStep DEF Plain, NewTop

(***************************************************************************)
(* The actions that post and call nothing.                                  *)
(***************************************************************************)
LEMMA CallsUnchanged ==
  ASSUME IInv, UNCHANGED <<called, emitted, tasks, type, thread, life>>, list' \subseteq list
  PROVE  CallsKept
BY DEF IInv, CalledInv, CallsKept, TypeInv

LEMMA UserRunsTop ==
  ASSUME NEW t \in Thread, UserRuns(t) PROVE stack[t] = <<>> \/ Top(t).op # "emit"
BY DEF UserRuns

LEMMA EmitPreserves ==
  ASSUME IInv, NEW t \in Thread, Emit(t) PROVE IInv'
<1> DEFINE f == Frame("emit", "lock", 0, 0, None)
<1>1. f \in FrameSet /\ Plain(f) /\ ~Holds(f)
  BY DEF Frame, FrameSet, Ops, Pcs, Plain, Emits, Holds, IsCall
<1>2. /\ stack' = Pushed(t, f) /\ UserRuns(t)
      /\ UNCHANGED <<list, mutex, life, thread, type, tasks, emitted, called>>
  BY DEF Emit, connectorVars, connVars, history
<1>3. TypeInv'
  BY <1>1, <1>2, PushedKept DEF IInv, TypeInv
<1>4. CallsKept
  BY <1>2, CallsUnchanged
<1> QED BY <1>1, <1>2, <1>3, <1>4, UserRunsTop, QuietPush

LEMMA DestroyPreserves ==
  ASSUME IInv, NEW t \in Thread, Destroy(t) PROVE IInv'
<1> DEFINE f == Frame("destroy", "lock", 0, 0, None)
<1>1. f \in FrameSet /\ Plain(f) /\ ~Holds(f)
  BY DEF Frame, FrameSet, Ops, Pcs, Plain, Emits, Holds, IsCall
<1>2. /\ stack' = Pushed(t, f) /\ UserRuns(t)
      /\ UNCHANGED <<list, mutex, life, thread, type, tasks, emitted, called>>
  BY DEF Destroy, connectorVars, connVars, history
<1>3. TypeInv'
  BY <1>1, <1>2, PushedKept DEF IInv, TypeInv
<1>4. CallsKept
  BY <1>2, CallsUnchanged
<1> QED BY <1>1, <1>2, <1>3, <1>4, UserRunsTop, QuietPush

LEMMA DestroyGuardPreserves ==
  ASSUME IInv, NEW t \in Thread, NEW c \in Conn, DestroyGuard(t, c) PROVE IInv'
<1> DEFINE f == Frame("disconnect", "decide", c, 0, thread[c])
<1>1. f \in FrameSet /\ Plain(f) /\ ~Holds(f)
  BY DEF Frame, FrameSet, Ops, Pcs, Plain, Emits, Holds, IsCall, IInv, TypeInv
<1>2. /\ stack' = Pushed(t, f) /\ UserRuns(t) /\ thread' = [thread EXCEPT ![c] = None]
      /\ UNCHANGED <<list, mutex, life, type, tasks, emitted, called>>
  BY DEF DestroyGuard, connectorVars, history
<1>3. TypeInv'
  BY <1>1, <1>2, PushedKept DEF IInv, TypeInv
<1>4. CallsKept
  BY <1>2 DEF IInv, CalledInv, CallsKept, TypeInv
<1> QED BY <1>1, <1>2, <1>3, <1>4, UserRunsTop, QuietPush

LEMMA FinishPreserves ==
  ASSUME IInv, NEW t \in Thread, Finish(t) PROVE IInv'
<1>1. UNCHANGED <<stack, list, mutex, life, thread, type, tasks, emitted, called>>
  BY DEF Finish, connectorVars, connVars, history
<1>2. TypeInv'
  BY <1>1 DEF IInv, TypeInv
<1> QED BY <1>1, <1>2, CallsUnchanged, StillStep

LEMMA ConnectPreserves ==
  ASSUME IInv, NEW t \in Thread, NEW c \in Conn, NEW ty \in Types, Connect(t, c, ty) PROVE IInv'
<1>1. /\ life[c] = "none" /\ list' = list \cup {c} /\ life' = [life EXCEPT ![c] = "made"]
      /\ thread' = [thread EXCEPT ![c] = t] /\ type' = [type EXCEPT ![c] = ty]
      /\ UNCHANGED <<stack, mutex, tasks, emitted, called>>
  BY DEF Connect, threadVars, history
<1>2. ty \in AllTypes
  BY DEF AllTypes
<1>3. TypeInv'
  BY <1>1, <1>2 DEF IInv, TypeInv, Lives
<1>4. CallsKept
  BY <1>1 DEF IInv, CalledInv, CallsKept, TypeInv
<1> QED BY <1>1, <1>3, <1>4, StillStep

LEMMA EmitEndsPreserves ==
  ASSUME IInv, NEW t \in Thread, EmitEnds(t) PROVE IInv'
<1>1. /\ stack[t] # <<>> /\ Top(t).op = "emit" /\ Top(t).pc = "next"
      /\ mutex' = None /\ stack' = Popped(t)
      /\ UNCHANGED <<list, life, thread, type, tasks, emitted, called>>
  BY DEF EmitEnds, At, Top, connVars, history
<1>2. TypeInv'
  BY <1>1, PoppedKept DEF IInv, TypeInv
<1>3. mutex = t /\ Holds(Top(t)) /\ ~Waiting(Top(t))
  BY <1>1, TopFacts DEF IInv, HoldInv, Holds, Waiting
<1> QED BY <1>1, <1>2, <1>3, CallsUnchanged, QuietPop

LEMMA ReturnQueuedPreserves ==
  ASSUME IInv, NEW t \in Thread, ReturnQueued(t) PROVE IInv'
<1>1. /\ stack[t] # <<>> /\ Top(t).op = "call" /\ stack' = Popped(t)
      /\ UNCHANGED <<mutex, list, life, thread, type, tasks, emitted, called>>
  BY DEF ReturnQueued, At, Top, connectorVars, connVars, history
<1>2. TypeInv'
  BY <1>1, PoppedKept DEF IInv, TypeInv
<1> QED BY <1>1, <1>2, CallsUnchanged, QuietPop DEF Waiting

LEMMA ReleasePreserves ==
  ASSUME IInv, NEW t \in Thread, Release(t) PROVE IInv'
<1>1. PICK x \in {"released", "deleted"} :
        /\ stack[t] # <<>> /\ Top(t).op = "delete"
        /\ life' = [life EXCEPT ![Top(t).conn] = x]
        /\ UNCHANGED <<mutex, list, thread, type, tasks, emitted, called>>
  BY DEF Release, At, Top, connectorVars, history
<1> DEFINE f == [Top(t) EXCEPT !.pc = "lock"]
<1>2. stack' = Replaced(t, f) \/ stack' = Popped(t)
  BY DEF Release, Goes
<1>3. f \in FrameSet /\ Plain(f) /\ ~Holds(f)
  BY <1>1, TopFacts DEF FrameSet, Pcs, Plain, Emits, Holds, IsCall, IInv
<1>4. TypeInv'
  BY <1>1, <1>2, <1>3, PoppedKept, ReplacedKept DEF IInv, TypeInv, Lives
<1>5. CallsKept
  BY <1>1 DEF IInv, CalledInv, CallsKept, TypeInv
<1> QED BY <1>1, <1>2, <1>3, <1>4, <1>5, QuietPop, QuietReplace DEF Waiting

LEMMA UnlistPreserves ==
  ASSUME IInv, NEW t \in Thread, Unlist(t) PROVE IInv'
<1>1. /\ stack[t] # <<>> /\ Top(t).op = "delete" /\ stack' = Popped(t)
      /\ life' = [life EXCEPT ![Top(t).conn] = "deleted"] /\ list' \subseteq list
      /\ UNCHANGED <<mutex, thread, type, tasks, emitted, called>>
  BY DEF Unlist, At, Top, history
<1>2. TypeInv'
  BY <1>1, PoppedKept DEF IInv, TypeInv, Lives
<1>3. CallsKept
  BY <1>1 DEF IInv, CalledInv, CallsKept, TypeInv
<1> QED BY <1>1, <1>2, <1>3, QuietPop DEF Waiting

LEMMA DecidePreserves ==
  ASSUME IInv, NEW t \in Thread, Decide(t) PROVE IInv'
<1> DEFINE d == Frame("delete", "release", Top(t).conn, 0, None)
           p == Top(t).peer
<1>1. /\ stack[t] # <<>> /\ Top(t).op = "disconnect"
      /\ UNCHANGED <<mutex, list, life, thread, type, emitted, called>>
      /\ \/ stack' = Replaced(t, d) /\ tasks' = tasks
         \/ stack' = Popped(t) /\ tasks' = [tasks EXCEPT ![p] = Append(tasks[p], d)]
  BY DEF Decide, At, Top, connectorVars, connVars, history
<1>2. d \in FrameSet /\ d \in TaskSet /\ Plain(d) /\ ~Holds(d) /\ d.op = "delete"
  BY <1>1, TopFacts DEF Frame, FrameSet, TaskSet, Ops, Pcs, Plain, Emits, Holds, IsCall, IInv
<1>3. /\ tasks' \in [Thread -> Seq(TaskSet)]
      /\ \A u \in Thread : \A k \in DOMAIN tasks'[u] :
           tasks'[u][k].op = "call" => k \in DOMAIN tasks[u] /\ tasks'[u][k] = tasks[u][k]
  <2>1. tasks \in [Thread -> Seq(TaskSet)] /\ \A u \in Thread : DOMAIN tasks[u] = 1..Len(tasks[u])
    BY DEF IInv, TypeInv
  <2>2. CASE tasks' = tasks
    BY <2>1, <2>2
  <2>3. CASE p \in Thread /\ tasks' = [tasks EXCEPT ![p] = Append(tasks[p], d)]
    <3>1. /\ Append(tasks[p], d) \in Seq(TaskSet) /\ Len(tasks[p]) \in Nat
          /\ Len(Append(tasks[p], d)) = Len(tasks[p]) + 1
          /\ \A i \in 1..Len(tasks[p]) : Append(tasks[p], d)[i] = tasks[p][i]
          /\ Append(tasks[p], d)[Len(tasks[p]) + 1] = d
      BY <1>2, <2>1, <2>3, AppendFacts
    <3>2. /\ tasks' \in [Thread -> Seq(TaskSet)] /\ tasks'[p] = Append(tasks[p], d)
          /\ \A u \in Thread : u # p => tasks'[u] = tasks[u]
      BY <2>1, <2>3, <3>1
    <3>3. \A k \in DOMAIN tasks'[p] : k \in 1..Len(tasks[p]) \/ k = Len(tasks[p]) + 1
      BY <3>1, <3>2
    <3>4. \A k \in DOMAIN tasks'[p] :
            tasks'[p][k].op = "call" => k \in DOMAIN tasks[p] /\ tasks'[p][k] = tasks[p][k]
      BY <1>2, <2>1, <2>3, <3>1, <3>2, <3>3
    <3> QED BY <2>1, <3>2, <3>4
  <2>4. CASE p \notin Thread /\ tasks' = [tasks EXCEPT ![p] = Append(tasks[p], d)]
    BY <2>1, <2>4
  <2> QED BY <1>1, <2>2, <2>3, <2>4
<1>4. TypeInv'
  BY <1>1, <1>2, <1>3, PoppedKept, ReplacedKept DEF IInv, TypeInv
<1>5. CallsKept
  BY <1>1, <1>3 DEF IInv, CalledInv, CallsKept, TypeInv
<1> QED BY <1>1, <1>2, <1>4, <1>5, QuietPop, QuietReplace DEF Waiting

LEMMA DestroyNextPreserves ==
  ASSUME IInv, NEW t \in Thread, DestroyNext(t) PROVE IInv'
<1>1. PICK c \in Conn, x \in {"next", "read"} :
        /\ stack[t] # <<>> /\ Top(t).op = "destroy" /\ Top(t).pc = "next"
        /\ stack' = Replaced(t, [Top(t) EXCEPT !.conn = c, !.pc = x])
        /\ UNCHANGED <<mutex, list, life, thread, type, tasks, emitted, called>>
  BY DEF DestroyNext, At, Top, Following, Later, connectorVars, history, IInv, TypeInv
<1> DEFINE f == [Top(t) EXCEPT !.conn = c, !.pc = x]
<1>2. f \in FrameSet /\ Plain(f) /\ Holds(Top(t))
  BY <1>1, TopFacts DEF FrameSet, Pcs, Plain, Emits, Holds, IsCall, IInv
<1>3. TypeInv'
  BY <1>1, <1>2, ReplacedKept DEF IInv, TypeInv
<1> QED BY <1>1, <1>2, <1>3, CallsUnchanged, QuietReplace DEF Waiting

LEMMA DestroyConnectionPreserves ==
  ASSUME IInv, NEW t \in Thread, DestroyConnection(t) PROVE IInv'
<1> DEFINE f == [Top(t) EXCEPT !.pc = "next"]
<1>1. /\ stack[t] # <<>> /\ Top(t).op = "destroy" /\ Top(t).pc = "read" /\ stack' = Replaced(t, f)
      /\ life' = [life EXCEPT ![Top(t).conn] = "deleted"]
      /\ UNCHANGED <<mutex, list, thread, type, tasks, emitted, called>>
  BY DEF DestroyConnection, At, Top, Goes, connectorVars, history
<1>2. f \in FrameSet /\ Plain(f) /\ Holds(Top(t))
  BY <1>1, TopFacts DEF FrameSet, Pcs, Plain, Emits, Holds, IsCall, IInv
<1>3. TypeInv'
  BY <1>1, <1>2, ReplacedKept DEF IInv, TypeInv, Lives
<1>4. CallsKept
  BY <1>1 DEF IInv, CalledInv, CallsKept, TypeInv
<1> QED BY <1>1, <1>2, <1>3, <1>4, QuietReplace DEF Waiting

LEMMA DestroyEndsPreserves ==
  ASSUME IInv, NEW t \in Thread, DestroyEnds(t) PROVE IInv'
<1>1. /\ stack[t] # <<>> /\ Top(t).op = "destroy" /\ Top(t).pc = "next"
      /\ mutex' = None /\ stack' = Popped(t) /\ list' = {}
      /\ UNCHANGED <<life, thread, type, tasks, emitted, called>>
  BY DEF DestroyEnds, At, Top, connVars, history
<1>2. TypeInv'
  BY <1>1, PoppedKept DEF IInv, TypeInv
<1>3. mutex = t /\ Holds(Top(t)) /\ ~Waiting(Top(t))
  BY <1>1, TopFacts DEF IInv, HoldInv, Holds, Waiting
<1> QED BY <1>1, <1>2, <1>3, CallsUnchanged, QuietPop

\* Nobody is between the lock and the unlock.
LEMMA Unlocked ==
  ASSUME IInv, mutex = None
  PROVE  \A u \in Thread : \A i \in DOMAIN stack[u] : ~Holds(stack[u][i])
BY DEF IInv, HoldInv

LEMMA DestroyLocksPreserves ==
  ASSUME IInv, NEW t \in Thread, DestroyLocks(t) PROVE IInv'
<1> DEFINE f == [Top(t) EXCEPT !.pc = "next"]
<1>1. /\ stack[t] # <<>> /\ Top(t).op = "destroy" /\ mutex = None /\ mutex' = t
      /\ stack' = Replaced(t, f) /\ UNCHANGED <<list, life, thread, type, tasks, emitted, called>>
  BY DEF DestroyLocks, At, Top, Goes, connVars, history
<1>2. f \in FrameSet /\ Plain(f)
  BY <1>1, TopFacts DEF FrameSet, Pcs, Plain, Emits, IsCall, IInv
<1>3. TypeInv'
  BY <1>1, <1>2, ReplacedKept DEF IInv, TypeInv
<1>4. PICK m \in Nat : /\ m = Len(stack[t]) - 1 /\ m < Len(stack[t]) /\ Kept(t, m) /\ NewTop(t, m, f)
                       /\ DOMAIN stack[t] = 1..(m + 1)
  BY <1>1, <1>2, TopReplaced DEF IInv
<1>5. \A i \in 1..m : /\ stack[t][i].op = "emit" => stack[t][i].pc \in {"lock", "calls"}
                      /\ ~Holds(stack[t][i])
  BY <1>1, <1>4, Buried, Unlocked
<1>6. HoldKept(t, m)
  BY <1>1, <1>2, <1>4, <1>5, Unlocked DEF HoldKept, NewTop, Plain
<1> QED BY <1>1, <1>2, <1>3, <1>4, <1>6, CallsUnchanged, QuietStep DEF NewTop, Plain

LEMMA EmitLocksPreserves ==
  ASSUME IInv, NEW t \in Thread, EmitLocks(t) PROVE IInv'
<1> DEFINE n == Len(emitted) + 1
           f == Frame("emit", "next", 0, n, None)
<1>1. /\ stack[t] # <<>> /\ Top(t).op = "emit" /\ Top(t).pc = "lock" /\ mutex = None /\ mutex' = t
      /\ stack' = Replaced(t, f) /\ emitted' = Append(emitted, t)
      /\ UNCHANGED <<list, life, thread, type, tasks, called>>
  BY DEF EmitLocks, At, Top, connVars
<1>2. /\ emitted' \in Seq(Thread) /\ Len(emitted) \in Nat /\ Len(emitted') = n /\ emitted'[n] = t
      /\ \A k \in 1..Len(emitted) : emitted'[k] = emitted[k]
  BY <1>1, AppendFacts DEF IInv, TypeInv
<1>3. /\ f \in FrameSet /\ ~IsCall(f, "inPlace") /\ ~IsCall(f, "sync")
      /\ f.n = n /\ f.conn = 0 /\ f.pc = "next"
  BY <1>2 DEF Frame, FrameSet, Ops, Pcs, IsCall
<1>4. TypeInv'
  BY <1>1, <1>2, <1>3, ReplacedKept DEF IInv, TypeInv
<1>5. CallsKept
  BY <1>1, <1>2 DEF IInv, CalledInv, CallsKept, TypeInv
<1>6. PICK m \in Nat : /\ m = Len(stack[t]) - 1 /\ m < Len(stack[t]) /\ Kept(t, m) /\ NewTop(t, m, f)
                       /\ DOMAIN stack[t] = 1..(m + 1)
  BY <1>1, <1>3, TopReplaced DEF IInv
<1>7. \A i \in 1..m : /\ stack[t][i].op = "emit" => stack[t][i].pc \in {"lock", "calls"}
                      /\ ~Holds(stack[t][i])
  BY <1>1, <1>6, Buried, Unlocked
<1>8. HoldKept(t, m)
  BY <1>1, <1>2, <1>3, <1>6, <1>7, Unlocked DEF HoldKept, NewTop
<1>9. \A c \in Conn : NotYet(f, c)
  <2>1. \A k \in 1..Len(emitted) : k < n
    BY <1>2
  <2> QED BY <1>3, <2>1 DEF NotYet, IInv, CalledInv, PostInv
<1> QED BY <1>1, <1>3, <1>4, <1>5, <1>6, <1>8, <1>9, QuietStep DEF NewTop

\* The frame of an emission that is not at the lock.
LEMMA EmitterFacts ==
  ASSUME IInv, NEW t \in Thread, stack[t] # <<>>, Emits(Top(t))
  PROVE  /\ mutex = t /\ Top(t).n = Len(emitted) /\ Len(emitted) \in Nat \ {0} /\ emitted[Len(emitted)] = t
         /\ AtConnection(Top(t)) => Top(t).conn \in Conn /\ life[Top(t).conn] # "none"
         /\ \A i \in 1..(Len(stack[t]) - 1) : ~Holds(stack[t][i])
         /\ \A c \in Conn : Ahead(Top(t), c) => NotYet(Top(t), c)
         /\ Top(t).pc # "waits" =>
              \A u \in Thread : ~SyncRuns(u) /\ \A k \in DOMAIN tasks[u] : ~SyncTask(u, k)
<1>1. TypeInv /\ HoldInv /\ SyncInv /\ AheadInv
  BY DEF IInv
<1>2. PICK i \in DOMAIN stack[t] : Top(t) = stack[t][i] /\ i = Len(stack[t])
  BY <1>1, TopFacts
<1>3. /\ mutex = t /\ Top(t).n = Len(emitted) /\ Len(emitted) > 0 /\ emitted[Len(emitted)] = t
      /\ AtConnection(Top(t)) => Top(t).conn \in Conn /\ life[Top(t).conn] # "none"
  BY <1>1, <1>2 DEF HoldInv, Emits, Holds
<1>4. \A j \in 1..(Len(stack[t]) - 1) : ~Holds(stack[t][j])
  <2>1. \A j \in 1..(Len(stack[t]) - 1) : j \in DOMAIN stack[t] /\ j # i
    BY <1>1, <1>2, TopFacts
  <2> QED BY <1>1, <1>2, <2>1 DEF HoldInv, Emits, Holds
<1>5. \A c \in Conn : Ahead(Top(t), c) => NotYet(Top(t), c)
  BY <1>1, <1>2 DEF AheadInv, NotYet
<1>6. ASSUME NEW u, WaitsFor(u) PROVE Top(t).pc = "waits"
  <2>1. PICK j \in DOMAIN stack[u] : Last(stack[u]) = stack[u][j] /\ u \in Thread
    BY <1>1, <1>6, TopFacts DEF WaitsFor, Top
  <2>2. mutex = u
    BY <1>1, <1>6, <2>1 DEF HoldInv, WaitsFor, Holds
  <2> QED BY <1>3, <1>6, <2>2 DEF WaitsFor, Top
<1>7. Top(t).pc # "waits" =>
        \A u \in Thread : ~SyncRuns(u) /\ \A k \in DOMAIN tasks[u] : ~SyncTask(u, k)
  BY <1>1, <1>6 DEF SyncInv
<1>8. Len(emitted) \in Nat
  BY <1>1 DEF TypeInv
<1> QED BY <1>3, <1>4, <1>5, <1>7, <1>8

\* The frame of the emission changes: it goes on to the next connection.
LEMMA EmitterStep ==
  ASSUME IInv, TypeInv', CallsKept, NEW t \in Thread, stack[t] # <<>>, Emits(Top(t)),
         Top(t).pc # "waits", NEW f \in FrameSet, stack' = Replaced(t, f),
         f.op = "emit", f.n = Top(t).n, f.pc \in {"next", "read", "post"},
         AtConnection(f) => f.conn \in Conn /\ life'[f.conn] # "none",
         \A c \in Conn : Ahead(f, c) => Ahead(Top(t), c),
         f.pc = "post" => life[f.conn] # "none" /\ Ready(t, f.conn, f.peer),
         UNCHANGED <<mutex, emitted>>
  PROVE  IInv'
<1>1. PICK m \in Nat : /\ m = Len(stack[t]) - 1 /\ m < Len(stack[t]) /\ Kept(t, m) /\ NewTop(t, m, f)
  BY TopReplaced DEF IInv
<1>2. \A i \in 1..m : /\ stack[t][i].op = "emit" => stack[t][i].pc \in {"lock", "calls"}
                      /\ ~Holds(stack[t][i])
  BY <1>1, Buried, EmitterFacts
<1>3. ~IsCall(f, "inPlace") /\ ~IsCall(f, "sync") /\ ~Waiting(Top(t))
  BY DEF IsCall, Waiting
<1>4. HoldKept(t, m)
  BY <1>1, <1>2, <1>3, EmitterFacts DEF HoldKept, NewTop
<1>5. \A c \in Conn : Ahead(f, c) => NotYet(f, c)
  BY EmitterFacts DEF NotYet
<1> QED BY <1>1, <1>3, <1>4, <1>5, QuietStep DEF NewTop, Waiting

LEMMA EmitNextPreserves ==
  ASSUME IInv, NEW t \in Thread, EmitNext(t) PROVE IInv'
<1>1. PICK c \in Later(t), x \in {"next", "read"} :
        /\ stack[t] # <<>> /\ Top(t).op = "emit" /\ Top(t).pc = "next"
        /\ stack' = Replaced(t, [Top(t) EXCEPT !.conn = c, !.pc = x])
        /\ UNCHANGED <<mutex, list, life, thread, type, tasks, emitted, called>>
  BY DEF EmitNext, At, Top, Following, connectorVars, connVars, history
<1> DEFINE f == [Top(t) EXCEPT !.conn = c, !.pc = x]
<1>2. Top(t) \in FrameSet /\ c \in Conn /\ c > Top(t).conn /\ life[c] # "none"
  BY <1>1, TopFacts DEF Later, IInv, TypeInv, CalledInv
<1>3. /\ f \in FrameSet /\ f.op = "emit" /\ f.pc = x /\ f.conn = c /\ f.n = Top(t).n /\ Emits(Top(t))
  BY <1>1, <1>2 DEF FrameSet, Pcs, Emits
<1>4. \A d \in Conn : Ahead(f, d) => Ahead(Top(t), d)
  <2>1. Top(t).conn \in Int /\ Conn \subseteq Int
    BY <1>2 DEF FrameSet, Conn
  <2> QED BY <1>1, <1>2, <1>3, <2>1 DEF Ahead
<1>5. TypeInv'
  BY <1>1, <1>3, ReplacedKept DEF IInv, TypeInv
<1>6. CallsKept
  BY <1>1, CallsUnchanged
<1> HIDE DEF f
<1> QED BY <1>1, <1>2, <1>3, <1>4, <1>5, <1>6, EmitterStep DEF f

\* The function that was called in place returns to the emission below it.
LEMMA ReturnInPlacePreserves ==
  ASSUME IInv, NEW t \in Thread, ReturnInPlace(t) PROVE IInv'
<1>1. TypeInv /\ HoldInv /\ AheadInv
  BY DEF IInv
<1>2. /\ stack[t] # <<>> /\ IsCall(Top(t), "inPlace")
      /\ stack' = [stack EXCEPT ![t] =
           Append(Front(Front(stack[t])), [Last(Front(stack[t])) EXCEPT !.pc = "next"])]
      /\ UNCHANGED <<mutex, list, life, thread, type, tasks, emitted, called>>
  BY DEF ReturnInPlace, At, Top, IsCall, connectorVars, connVars, history
<1>3. PICK s \in Seq(FrameSet) :
        /\ s = Front(stack[t]) /\ Len(s) = Len(stack[t]) - 1
        /\ \A i \in 1..Len(s) : s[i] = stack[t][i]
  <2>1. PICK q \in Seq(FrameSet) : q = stack[t]
    BY <1>1 DEF TypeInv
  <2>2. PICK s \in Seq(FrameSet) : s = Front(q)
    BY <1>2, <2>1, FrontFacts
  <2>3. Len(s) = Len(q) - 1 /\ \A i \in 1..(Len(q) - 1) : s[i] = q[i]
    BY <1>2, <2>1, <2>2, FrontFacts
  <2> QED BY <2>1, <2>2, <2>3
<1>4. PICK n \in DOMAIN stack[t] :
        /\ n = Len(stack[t]) /\ n > 1 /\ DOMAIN stack[t] = 1..n
        /\ stack[t][n - 1].op = "emit" /\ stack[t][n - 1].pc = "calls"
  BY <1>1, <1>2, TopFacts DEF HoldInv
<1>5. PICK r \in Seq(FrameSet) :
        /\ r = Front(s) /\ Len(r) = n - 2 /\ \A i \in 1..(n - 2) : r[i] = stack[t][i]
        /\ Last(s) = stack[t][n - 1] /\ Last(s) \in FrameSet
  <2>1. s # <<>> /\ Len(s) = n - 1 /\ n - 1 \in 1..Len(s)
    BY <1>3, <1>4
  <2>2. PICK r \in Seq(FrameSet) : r = Front(s)
    BY <2>1, FrontFacts
  <2>3. Len(r) = n - 2 /\ \A i \in 1..(n - 2) : r[i] = s[i]
    <3>1. Len(r) = Len(s) - 1 /\ \A i \in 1..(Len(s) - 1) : r[i] = s[i]
      BY <2>1, <2>2, FrontFacts
    <3>2. Len(s) - 1 = n - 2
      BY <1>4, <2>1
    <3> QED BY <3>1, <3>2
  <2>4. Last(s) = s[n - 1] /\ Last(s) \in FrameSet
    BY <2>1, FrontFacts
  <2>5. Last(s) = stack[t][n - 1]
    BY <1>3, <2>1, <2>4
  <2>6. \A i \in 1..(n - 2) : r[i] = stack[t][i]
    <3>1. \A i \in 1..(n - 2) : i \in 1..Len(s)
      BY <1>4, <2>1
    <3> QED BY <1>3, <2>3, <3>1
  <2> WITNESS r \in Seq(FrameSet)
  <2> QED BY <2>2, <2>3, <2>4, <2>5, <2>6
<1>6. PICK f \in FrameSet : f = [stack[t][n - 1] EXCEPT !.pc = "next"]
  BY <1>5 DEF FrameSet, Pcs
<1>7. /\ stack' \in [Thread -> Seq(FrameSet)] /\ stack'[t] = Append(r, f)
      /\ \A u \in Thread : u # t => stack'[u] = stack[u]
  BY <1>1, <1>2, <1>3, <1>5, <1>6, AppendFacts DEF TypeInv
<1>8. PICK m \in Nat : m = n - 2
  BY <1>4, SMTT(20)
<1>9. Kept(t, m) /\ NewTop(t, m, f)
  <2>1. /\ Len(Append(r, f)) = m + 1 /\ Append(r, f)[m + 1] = f
        /\ \A i \in 1..m : Append(r, f)[i] = stack[t][i]
    BY <1>5, <1>8, AppendFacts
  <2> QED BY <1>4, <1>7, <1>8, <2>1 DEF Kept, NewTop
<1>10. TypeInv'
  BY <1>1, <1>2, <1>7 DEF TypeInv
<1>11. PICK k \in DOMAIN stack[t] : k = m + 1 /\ k = n - 1 /\ Emits(stack[t][k])
  BY <1>4, <1>8, SMTT(20) DEF Emits
<1>12. f.n = stack[t][k].n /\ f.conn = stack[t][k].conn /\ f.pc = "next" /\ f.op = "emit"
  BY <1>1, <1>4, <1>5, <1>6, <1>11 DEF FrameSet
<1>13. \A i \in 1..m : /\ stack[t][i].op = "emit" => stack[t][i].pc \in {"lock", "calls"}
                       /\ ~Holds(stack[t][i])
  <2>1. \A i \in 1..m : i \in DOMAIN stack[t] /\ i # k
    BY <1>4, <1>8, <1>11
  <2>2. \A i \in 1..m : ~Holds(stack[t][i])
    BY <1>1, <1>11, <2>1 DEF HoldInv, Holds, Emits
  <2>3. m < Len(stack[t])
    BY <1>4, <1>8
  <2> QED BY <2>2, <2>3, Buried
<1>14. HoldKept(t, m)
  <2>1. /\ mutex = t /\ stack[t][k].n = Len(emitted) /\ Len(emitted) > 0 /\ emitted[Len(emitted)] = t
    BY <1>1, <1>11 DEF HoldInv, Holds, Emits
  <2> QED BY <1>2, <1>9, <1>12, <1>13, <2>1 DEF HoldKept, NewTop, Emits, Holds, IsCall
<1>15. \A c \in Conn : Ahead(f, c) => NotYet(f, c)
  <2>1. \A c \in Conn : Ahead(f, c) => Ahead(stack[t][k], c)
    BY <1>12 DEF Ahead
  <2> QED BY <1>1, <1>11, <1>12, <2>1 DEF AheadInv, NotYet
<1>16. CallsKept
  BY <1>2, CallsUnchanged
<1> QED BY <1>2, <1>9, <1>10, <1>12, <1>14, <1>15, <1>16, QuietStep DEF NewTop, IsCall

(***************************************************************************)
(* The actions that post.                                                   *)
(***************************************************************************)
\* thread_ is read for the last time.
LEMMA PreparePreserves ==
  ASSUME IInv, NEW t \in Thread, Prepare(t) PROVE IInv'
<1> DEFINE c == Top(t).conn
           f == [Top(t) EXCEPT !.pc = "post", !.peer = thread[c]]
<1>1. /\ stack[t] # <<>> /\ Top(t).op = "emit" /\ Top(t).pc = "read"
      /\ ~InPlace(t, c) /\ thread[c] # None /\ stack' = Replaced(t, f)
      /\ UNCHANGED <<mutex, list, life, thread, type, tasks, emitted, called>>
  BY DEF Prepare, At, Top, connectorVars, connVars, history
<1>2. Top(t) \in FrameSet /\ c \in Conn /\ life[c] # "none" /\ Emits(Top(t))
  BY <1>1, TopFacts, EmitterFacts DEF IInv, Emits
<1>3. thread[c] \in Thread /\ type[c] # "Direct" /\ (type[c] # "Queued" => thread[c] # t)
  BY <1>1, <1>2 DEF IInv, TypeInv, InPlace
<1>4. /\ f \in FrameSet /\ f.op = "emit" /\ f.pc = "post" /\ f.conn = c /\ f.n = Top(t).n
      /\ f.peer = thread[c]
  BY <1>1, <1>2, <1>3 DEF FrameSet, Pcs
<1>5. Ready(t, c, thread[c])
  BY <1>1, <1>3 DEF Ready, IInv, PostInv
<1>6. \A d \in Conn : Ahead(f, d) => Ahead(Top(t), d)
  BY <1>1, <1>4 DEF Ahead
<1>7. TypeInv' /\ CallsKept
  BY <1>1, <1>4, ReplacedKept, CallsUnchanged DEF IInv, TypeInv
<1> HIDE DEF f
<1> QED BY <1>1, <1>2, <1>4, <1>5, <1>6, <1>7, EmitterStep

\* A call is posted to the thread of the connection; the emission goes on, or waits.
PostsCall(t, g, x) ==
  LET c == Top(t).conn
      p == Top(t).peer
  IN /\ stack[t] # <<>> /\ Top(t).op = "emit" /\ Top(t).pc = "post"
     /\ p \in Thread /\ g \in TaskSet
     /\ g.op = "call" /\ g.conn = c /\ g.n = Top(t).n
     /\ \/ g.pc = "queued" /\ type[c] \in {"Auto", "Queued"} /\ x = "next"
        \/ g.pc = "sync" /\ type[c] = "Sync" /\ g.peer = t /\ x = "waits"
     /\ tasks' = [tasks EXCEPT ![p] = Append(tasks[p], g)]
     /\ stack' = Handed(t, x)
     /\ UNCHANGED <<mutex, list, life, thread, type, emitted, called>>

\* No emission but the one of the step is between the lock and the unlock.
LEMMA OneEmits ==
  ASSUME IInv, NEW t \in Thread, stack[t] # <<>>, Emits(Top(t)),
         NEW u \in Thread, NEW i \in DOMAIN stack[u], Holds(stack[u][i])
  PROVE  u = t /\ i = Len(stack[t])
<1>1. TypeInv /\ HoldInv
  BY DEF IInv
<1>2. PICK k \in DOMAIN stack[t] : k = Len(stack[t]) /\ stack[t][k] = Top(t)
  BY <1>1, TopFacts
<1>3. Holds(stack[t][k])
  BY <1>2 DEF Emits, Holds
<1> QED BY <1>1, <1>2, <1>3 DEF HoldInv

LEMMA PostsTasks ==
  ASSUME IInv, NEW t \in Thread, NEW g, NEW x, PostsCall(t, g, x),
         NEW p \in Thread, p = Top(t).peer, NEW n \in Nat, n = Len(tasks[p]) + 1
  PROVE  /\ tasks' \in [Thread -> Seq(TaskSet)]
         /\ \A u \in Thread : \A k \in DOMAIN tasks'[u] :
              \/ k \in DOMAIN tasks[u] /\ tasks'[u][k] = tasks[u][k] /\ k \in Nat /\ (u = p => k < n)
              \/ u = p /\ k = n /\ tasks'[u][k] = g
<1>1. /\ tasks \in [Thread -> Seq(TaskSet)] /\ g \in TaskSet
      /\ tasks' = [tasks EXCEPT ![p] = Append(tasks[p], g)]
  BY DEF IInv, TypeInv, PostsCall
<1>2. /\ Append(tasks[p], g) \in Seq(TaskSet) /\ Len(tasks[p]) \in Nat
      /\ Len(Append(tasks[p], g)) = n
      /\ \A i \in 1..Len(tasks[p]) : Append(tasks[p], g)[i] = tasks[p][i]
      /\ Append(tasks[p], g)[n] = g
  BY <1>1, AppendFacts
<1>3. /\ tasks' \in [Thread -> Seq(TaskSet)] /\ tasks'[p] = Append(tasks[p], g)
      /\ \A u \in Thread : u # p => tasks'[u] = tasks[u]
  BY <1>1, <1>2
<1>4. \A u \in Thread : DOMAIN tasks[u] = 1..Len(tasks[u]) /\ Len(tasks[u]) \in Nat
  BY <1>1
<1>5. \A k \in DOMAIN tasks'[p] : k \in Nat /\ (k \in 1..Len(tasks[p]) \/ k = n)
  BY <1>2, <1>3
<1>6. \A k \in DOMAIN tasks'[p] :
        \/ k \in DOMAIN tasks[p] /\ tasks'[p][k] = tasks[p][k] /\ k < n
        \/ k = n /\ tasks'[p][k] = g
  BY <1>2, <1>3, <1>4, <1>5
<1>7. \A u \in Thread : \A k \in DOMAIN tasks[u] : k \in Nat
  BY <1>4
<1>8. \A u \in Thread : \A k \in DOMAIN tasks'[u] :
        \/ k \in DOMAIN tasks[u] /\ tasks'[u][k] = tasks[u][k] /\ k \in Nat /\ (u = p => k < n)
        \/ u = p /\ k = n /\ tasks'[u][k] = g
  BY <1>3, <1>6, <1>7
<1> QED BY <1>3, <1>8

\* Where the call is posted, and behind what.
LEMMA PostsWhere ==
  ASSUME IInv, NEW t \in Thread, NEW g, NEW x, PostsCall(t, g, x)
  PROVE  Top(t).peer \in Thread /\ Len(tasks[Top(t).peer]) + 1 \in Nat
<1>1. Top(t).peer \in Thread
  BY DEF PostsCall
<1> QED BY <1>1, Domains DEF IInv

LEMMA PostsPreserves ==
  ASSUME IInv, NEW t \in Thread, NEW g, NEW x, PostsCall(t, g, x) PROVE IInv'
<1>1. TypeInv /\ HoldInv /\ SyncInv /\ PostInv /\ CalledInv /\ AheadInv /\ InOrder /\ ReadyInv
  BY DEF IInv
<1>2. /\ stack[t] # <<>> /\ Emits(Top(t)) /\ Top(t).pc = "post" /\ x \in {"next", "waits"}
      /\ g.op = "call" /\ g.conn = Top(t).conn /\ g.n = Top(t).n
      /\ UNCHANGED <<mutex, list, life, thread, type, emitted, called>>
  BY DEF PostsCall, Emits
<1>0. PICK p \in Thread, n \in Nat : p = Top(t).peer /\ n = Len(tasks[p]) + 1
  BY PostsWhere
<1>3. /\ p = Top(t).peer /\ tasks' \in [Thread -> Seq(TaskSet)]
      /\ \A u \in Thread : \A k \in DOMAIN tasks'[u] :
           \/ k \in DOMAIN tasks[u] /\ tasks'[u][k] = tasks[u][k] /\ k \in Nat /\ (u = p => k < n)
           \/ u = p /\ k = n /\ tasks'[u][k] = g
  BY <1>0, PostsTasks
<1>4. PICK f \in FrameSet : /\ f = [Top(t) EXCEPT !.pc = x, !.peer = None] /\ stack' = Replaced(t, f)
                            /\ f.op = "emit" /\ f.pc = x /\ f.conn = Top(t).conn /\ f.n = Top(t).n
  <2>1. Top(t) \in FrameSet
    BY <1>1, <1>2, TopFacts
  <2> DEFINE r == [Top(t) EXCEPT !.pc = x, !.peer = None]
  <2>2. r \in FrameSet /\ r.op = Top(t).op /\ r.pc = x /\ r.conn = Top(t).conn /\ r.n = Top(t).n
    BY <1>2, <2>1 DEF FrameSet, Pcs
  <2>3. stack' = Replaced(t, r) /\ Top(t).op = "emit"
    BY DEF PostsCall, Handed
  <2> QED BY <2>2, <2>3
<1>5. TypeInv'
  BY <1>1, <1>2, <1>3, <1>4, ReplacedKept DEF TypeInv
<1>6. PICK m \in Nat : /\ m = Len(stack[t]) - 1 /\ m < Len(stack[t]) /\ Kept(t, m) /\ NewTop(t, m, f)
  BY <1>1, <1>2, <1>4, TopReplaced
<1>7. \A i \in 1..m : /\ stack[t][i].op = "emit" => stack[t][i].pc \in {"lock", "calls"}
                      /\ ~Holds(stack[t][i])
  BY <1>2, <1>6, Buried, EmitterFacts
<1>8. HoldInv'
  <2>1. HoldKept(t, m)
    <3>1. /\ mutex = t /\ f.n = Len(emitted) /\ Len(emitted) > 0 /\ emitted[Len(emitted)] = t
          /\ ~AtConnection(f) /\ f.op # "call"
      BY <1>2, <1>4, EmitterFacts
    <3> QED BY <1>2, <1>6, <1>7, <3>1 DEF HoldKept, NewTop, IsCall
  <2> QED BY <1>2, <1>5, <1>6, <2>1, HoldStep
<1>9. SyncInv'
  <2>1. \A u \in Thread : ~SyncRuns(u) /\ \A k \in DOMAIN tasks[u] : ~SyncTask(u, k)
    BY <1>2, EmitterFacts
  <2>2. \A u \in Thread : ~SyncRuns(u)'
    <3>1. \A u \in Thread : u # t => ~SyncRuns(u)'
      BY <1>6, <2>1 DEF Kept, SyncRuns
    <3>2. m = 0 => stack'[t][1] = f
      BY <1>6 DEF NewTop
    <3>3. m # 0 => stack'[t][1] = stack[t][1] /\ stack[t] # <<>>
      <4>1. m # 0 => 1 \in 1..m
        OBVIOUS
      <4> QED BY <1>2, <1>6, <4>1 DEF Kept
    <3> QED BY <1>4, <2>1, <3>1, <3>2, <3>3 DEF SyncRuns, IsCall
  <2>3. \A u \in Thread : \A k \in DOMAIN tasks'[u] :
          SyncTask(u, k)' => u = p /\ k = n /\ tasks'[u][k] = g /\ g.pc = "sync"
    BY <1>3, <2>1 DEF SyncTask, IsCall
  <2>4. g.pc = "sync" => WaitsFor(g.peer)'
    <3>1. stack'[t] \in Seq(FrameSet) /\ Len(stack'[t]) = m + 1 /\ stack'[t][m + 1] = f
      BY <1>5, <1>6 DEF TypeInv, NewTop
    <3>2. stack'[t] # <<>> /\ Last(stack'[t]) = f
      <4>1. PICK q \in Seq(FrameSet) : q = stack'[t]
        BY <3>1
      <4>2. q # <<>> /\ q[Len(q)] = f
        BY <3>1, <4>1
      <4> QED BY <4>1, <4>2, FrontFacts
    <3> QED BY <1>4, <3>2 DEF WaitsFor, PostsCall
  <2> QED BY <2>2, <2>3, <2>4 DEF SyncInv
<1>10. /\ Top(t).conn \in Conn /\ life[Top(t).conn] # "none" /\ NotYet(Top(t), Top(t).conn)
       /\ Top(t).n = Len(emitted) /\ Len(emitted) \in Nat \ {0} /\ emitted[Len(emitted)] = t
  BY <1>2, EmitterFacts DEF Ahead
<1>11. \A u \in Thread : \A k \in DOMAIN tasks'[u] :
         \/ Posted(u, k) /\ k \in DOMAIN tasks[u] /\ tasks'[u][k] = tasks[u][k] /\ (u = p => k < n)
         \/ ~Posted(u, k)'
         \/ u = p /\ k = n /\ tasks'[u][k] = g
  BY <1>3 DEF Posted
<1>15. /\ thread[Top(t).conn] \in {p, None} /\ (type[Top(t).conn] = "Auto" => p # t)
       /\ type[Top(t).conn] # "Direct"
       /\ \A u \in Thread : \A k \in DOMAIN tasks[u] :
            Posted(u, k) /\ tasks[u][k].conn = Top(t).conn => u = p
  BY <1>1, <1>2, <1>3 DEF ReadyInv, Ready, At, Top, Emits
<1>12. PostInv'
  <2> SUFFICES ASSUME NEW v \in Thread, NEW k \in DOMAIN tasks'[v], Posted(v, k)'
      PROVE  LET h == tasks'[v][k]
             IN /\ h.conn \in Conn /\ life[h.conn] # "none" /\ thread[h.conn] \in {v, None}
                /\ h.n \in 1..Len(emitted)
                /\ \/ h.pc = "sync" /\ type[h.conn] = "Sync"
                   \/ h.pc = "queued" /\ type[h.conn] \in {"Auto", "Queued"}
                /\ type[h.conn] = "Auto" => emitted[h.n] # v
                /\ \A u \in Thread : \A j \in DOMAIN tasks'[u] :
                     Posted(u, j)' /\ tasks'[u][j].conn = h.conn =>
                       u = v /\ (k < j => h.n < tasks'[u][j].n)
    BY <1>2 DEF PostInv
  <2>1. CASE Posted(v, k) /\ k \in DOMAIN tasks[v] /\ tasks'[v][k] = tasks[v][k] /\ (v = p => k < n)
    <3>1. PICK h \in TaskSet : h = tasks[v][k]
      BY <1>1, <2>1, Domains
    <3>2. /\ h.conn \in Conn /\ life[h.conn] # "none" /\ thread[h.conn] \in {v, None}
          /\ h.n \in 1..Len(emitted)
          /\ \/ h.pc = "sync" /\ type[h.conn] = "Sync"
             \/ h.pc = "queued" /\ type[h.conn] \in {"Auto", "Queued"}
          /\ type[h.conn] = "Auto" => emitted[h.n] # v
          /\ \A u \in Thread : \A j \in DOMAIN tasks[u] :
               Posted(u, j) /\ tasks[u][j].conn = h.conn => u = v /\ (k < j => h.n < tasks[u][j].n)
      BY <1>1, <2>1, <3>1 DEF PostInv
    <3>3. ASSUME NEW u \in Thread, NEW j \in DOMAIN tasks'[u], Posted(u, j)', tasks'[u][j].conn = h.conn
          PROVE  u = v /\ (k < j => h.n < tasks'[u][j].n)
      <4>1. CASE Posted(u, j) /\ j \in DOMAIN tasks[u] /\ tasks'[u][j] = tasks[u][j]
        BY <3>2, <3>3, <4>1
      <4>2. CASE u = p /\ j = n /\ tasks'[u][j] = g
        <5>1. h.conn = Top(t).conn
          BY <1>2, <3>3, <4>2
        <5>2. v = p
          BY <1>15, <2>1, <3>1, <5>1
        <5>3. h.n < g.n
          BY <1>2, <1>10, <2>1, <3>1, <5>1 DEF NotYet
        <5> QED BY <4>2, <5>2, <5>3
      <4> QED BY <1>11, <3>3, <4>1, <4>2
    <3> QED BY <2>1, <3>1, <3>2, <3>3
  <2>2. CASE v = p /\ k = n /\ tasks'[v][k] = g
    <3>1. /\ g.conn \in Conn /\ life[g.conn] # "none" /\ thread[g.conn] \in {v, None}
          /\ g.n \in 1..Len(emitted) /\ emitted[g.n] = t
      BY <1>2, <1>10, <1>15, <2>2
    <3>2. /\ \/ g.pc = "sync" /\ type[g.conn] = "Sync"
             \/ g.pc = "queued" /\ type[g.conn] \in {"Auto", "Queued"}
          /\ type[g.conn] = "Auto" => v # t
      BY <1>2, <1>15, <2>2 DEF PostsCall
    <3>3. ASSUME NEW u \in Thread, NEW j \in DOMAIN tasks'[u], Posted(u, j)', tasks'[u][j].conn = g.conn
          PROVE  u = v /\ ~(k < j)
      <4>1. CASE Posted(u, j) /\ j \in DOMAIN tasks[u] /\ tasks'[u][j] = tasks[u][j] /\ (u = p => j < n)
        <5>2. u = p
          BY <1>2, <1>15, <3>3, <4>1
        <5>3. j < n /\ j \in Nat
          BY <1>1, <4>1, <5>2, Domains
        <5> QED BY <2>2, <5>2, <5>3
      <4>2. CASE u = p /\ j = n
        BY <2>2, <4>2
      <4> QED BY <1>11, <3>3, <4>1, <4>2
    <3> QED BY <2>2, <3>1, <3>2, <3>3
  <2> QED BY <1>11, <2>1, <2>2
<1>13. InOrder' /\ CalledInv'
  <2>1. InOrder'
    BY <1>1, <1>2 DEF InOrder
  <2>2. ASSUME NEW c \in Conn, NEW j \in DOMAIN called[c], NEW v \in Thread, NEW k \in DOMAIN tasks'[v],
               Posted(v, k)', tasks'[v][k].conn = c, Alike(c, called[c][j], tasks'[v][k].n)
        PROVE  called[c][j] < tasks'[v][k].n
    <3>1. CASE Posted(v, k) /\ k \in DOMAIN tasks[v] /\ tasks'[v][k] = tasks[v][k]
      BY <1>1, <2>2, <3>1 DEF CalledInv
    <3>2. CASE tasks'[v][k] = g
      BY <1>2, <1>10, <2>2, <3>2 DEF NotYet
    <3> QED BY <1>11, <2>2, <3>1, <3>2
  <2> QED BY <1>1, <1>2, <2>1, <2>2 DEF CalledInv, Alike
<1>14. AheadInv'
  <2> SUFFICES ASSUME NEW v \in Thread, NEW i \in DOMAIN stack'[v], Emits(stack'[v][i]),
                      NEW c \in Conn, Ahead(stack'[v][i], c)
               PROVE  /\ \A j \in DOMAIN called[c] : called[c][j] < stack'[v][i].n
                      /\ \A u \in Thread : \A k \in DOMAIN tasks'[u] :
                           Posted(u, k)' /\ tasks'[u][k].conn = c => tasks'[u][k].n < stack'[v][i].n
    BY <1>2 DEF AheadInv, Ahead
  <2>1. v = t /\ i = m + 1
    <3>1. v # t => stack'[v] = stack[v]
      BY <1>6 DEF Kept
    <3>2. v = t
      BY <1>2, <3>1, OneEmits DEF Emits, Holds
    <3>3. i \in 1..(m + 1)
      <4>1. stack'[t] \in Seq(FrameSet) /\ Len(stack'[t]) = m + 1
        BY <1>5, <1>6 DEF TypeInv, NewTop
      <4> QED BY <3>2, <4>1
    <3>4. i \in 1..m => stack'[t][i] = stack[t][i] /\ ~Emits(stack[t][i])
      BY <1>6, <1>7 DEF Kept, Emits, Holds
    <3> QED BY <3>2, <3>3, <3>4
  <2>2. stack'[v][i] = f
    BY <1>6, <2>1 DEF NewTop
  <2>3. c # Top(t).conn /\ NotYet(Top(t), c)
    <3>1. c > Top(t).conn
      BY <1>2, <1>4, <2>2 DEF Ahead
    <3>2. Top(t).conn \in Int /\ c \in Int
      BY <1>10 DEF Conn
    <3> QED BY <1>2, <3>1, <3>2, EmitterFacts DEF Ahead
  <2>4. /\ \A j \in DOMAIN called[c] : called[c][j] < f.n
        /\ \A u \in Thread : \A k \in DOMAIN tasks[u] :
             Posted(u, k) /\ tasks[u][k].conn = c => tasks[u][k].n < f.n
    BY <1>4, <2>3 DEF NotYet
  <2>5. g.conn # c
    BY <1>2, <2>3
  <2> QED BY <1>11, <2>2, <2>4, <2>5
<1>16. ReadyInv'
  <2> SUFFICES ASSUME NEW v \in Thread, At(v, "emit", "post")' PROVE Ready(v, Top(v).conn, Top(v).peer)'
    BY DEF ReadyInv
  <2>1. PICK i \in DOMAIN stack'[v] : Last(stack'[v]) = stack'[v][i]
    BY <1>5, TopLast DEF At
  <2>2. v # t => stack'[v] = stack[v]
    BY <1>6 DEF Kept
  <2>3. v = t
    <3>1. Holds(stack'[v][i])
      BY <2>1 DEF At, Holds
    <3> SUFFICES ASSUME v # t PROVE FALSE
      OBVIOUS
    <3>2. i \in DOMAIN stack[v] /\ Holds(stack[v][i])
      BY <2>1, <2>2, <3>1
    <3> QED BY <1>2, <3>2, OneEmits
  <2>4. Last(stack'[t]) = f \/ (m \in 1..m /\ Last(stack'[t]) = stack[t][m])
    <3>1. stack'[t] # <<>>
      BY <2>3 DEF At
    <3>2. m > 0 => m \in 1..m
      OBVIOUS
    <3>3. \/ m > 0 /\ Last(stack'[t]) = stack[t][m]
          \/ Last(stack'[t]) = stack'[t][m + 1]
      BY <1>5, <1>6, <3>1, KeptTop
    <3>4. stack'[t][m + 1] = f
      BY <1>6 DEF NewTop
    <3> QED BY <3>2, <3>3, <3>4
  <2>5. Last(stack'[t]).op = "emit" /\ Last(stack'[t]).pc = "post"
    BY <2>3 DEF At
  <2> QED BY <1>2, <1>4, <1>7, <2>4, <2>5
<1> QED BY <1>5, <1>8, <1>9, <1>12, <1>13, <1>14, <1>16 DEF IInv

\* A task that is refused leaves the emission at its connection, which goes on.
LEMMA RefusedPreserves ==
  ASSUME IInv, NEW t \in Thread, stack[t] # <<>>, Top(t).op = "emit", Top(t).pc = "post",
         stack' = Handed(t, "next"),
         UNCHANGED <<mutex, list, life, thread, type, tasks, emitted, called>>
  PROVE  IInv'
<1> DEFINE f == [Top(t) EXCEPT !.pc = "next", !.peer = None]
<1>1. Top(t) \in FrameSet
  BY TopFacts DEF IInv
<1>2. /\ f \in FrameSet /\ f.op = "emit" /\ f.pc = "next" /\ f.conn = Top(t).conn /\ f.n = Top(t).n
      /\ Emits(Top(t)) /\ stack' = Replaced(t, f)
  BY <1>1 DEF FrameSet, Pcs, Emits, Handed
<1>3. \A c \in Conn : Ahead(f, c) => Ahead(Top(t), c)
  BY <1>2 DEF Ahead
<1>4. TypeInv' /\ CallsKept
  BY <1>2, ReplacedKept, CallsUnchanged DEF IInv, TypeInv
<1> HIDE DEF f
<1> QED BY <1>2, <1>3, <1>4, EmitterStep

LEMMA ReadyFacts ==
  ASSUME IInv, NEW t \in Thread, stack[t] # <<>>, Top(t).op = "emit", Top(t).pc = "post"
  PROVE  /\ Emits(Top(t)) /\ Top(t) \in FrameSet /\ Top(t).conn \in Conn /\ life[Top(t).conn] # "none"
         /\ Ready(t, Top(t).conn, Top(t).peer) /\ Top(t).peer \in Thread
<1>1. Emits(Top(t)) /\ Top(t) \in FrameSet
  BY TopFacts DEF IInv, Emits
<1>2. Ready(t, Top(t).conn, Top(t).peer)
  BY DEF IInv, ReadyInv, At, Top
<1> QED BY <1>1, <1>2, EmitterFacts DEF Ready

LEMMA PostPreserves ==
  ASSUME IInv, NEW t \in Thread, Post(t) PROVE IInv'
<1> DEFINE c == Top(t).conn
           p == Top(t).peer
           g == Frame("call", "queued", c, Top(t).n, None)
<1>1. /\ stack[t] # <<>> /\ Top(t).op = "emit" /\ Top(t).pc = "post"
      /\ type[c] # "Sync" /\ stack' = Handed(t, "next")
      /\ \/ tasks' = [tasks EXCEPT ![p] = Append(tasks[p], g)]
         \/ tasks' = tasks
      /\ UNCHANGED <<mutex, list, life, thread, type, emitted, called>>
  BY DEF Post, Posts, At, Top, connectorVars, connVars, history
<1>2. Top(t) \in FrameSet /\ c \in Conn /\ p \in Thread /\ Ready(t, c, p)
  BY <1>1, ReadyFacts
<1>3. g \in TaskSet /\ g.op = "call" /\ g.conn = c /\ g.n = Top(t).n /\ g.pc = "queued"
  BY <1>2 DEF Frame, FrameSet, TaskSet, Ops, Pcs
<1>4. type[c] \in {"Auto", "Queued"}
  BY <1>1, <1>2 DEF IInv, TypeInv, Ready, AllTypes
<1>5. CASE tasks' = tasks
  BY <1>1, <1>5, RefusedPreserves
<1>6. CASE tasks' = [tasks EXCEPT ![p] = Append(tasks[p], g)]
  <2>1. PostsCall(t, g, "next")
    BY <1>1, <1>2, <1>3, <1>4, <1>6 DEF PostsCall
  <2> QED BY <2>1, PostsPreserves
<1> QED BY <1>1, <1>5, <1>6

LEMMA PostSyncPreserves ==
  ASSUME IInv, NEW t \in Thread, PostSync(t) PROVE IInv'
<1> DEFINE c == Top(t).conn
           p == Top(t).peer
           g == Frame("call", "sync", c, Top(t).n, t)
<1>1. /\ stack[t] # <<>> /\ Top(t).op = "emit" /\ Top(t).pc = "post" /\ type[c] = "Sync"
      /\ \/ /\ tasks' = [tasks EXCEPT ![p] = Append(tasks[p], g)]
            /\ stack' = Handed(t, "waits")
         \/ tasks' = tasks /\ stack' = Handed(t, "next")
      /\ UNCHANGED <<mutex, list, life, thread, type, emitted, called>>
  BY DEF PostSync, Posts, At, Top, connectorVars, connVars, history
<1>2. Top(t) \in FrameSet /\ c \in Conn /\ p \in Thread
  BY <1>1, ReadyFacts
<1>3. g \in TaskSet /\ g.op = "call" /\ g.conn = c /\ g.n = Top(t).n /\ g.pc = "sync" /\ g.peer = t
  BY <1>2 DEF Frame, FrameSet, TaskSet, Ops, Pcs
<1>5. CASE tasks' = tasks /\ stack' = Handed(t, "next")
  BY <1>1, <1>5, RefusedPreserves
<1>6. CASE /\ tasks' = [tasks EXCEPT ![p] = Append(tasks[p], g)]
           /\ stack' = Handed(t, "waits")
  <2>1. PostsCall(t, g, "waits")
    BY <1>1, <1>2, <1>3, <1>6 DEF PostsCall
  <2> QED BY <2>1, PostsPreserves
<1> QED BY <1>1, <1>5, <1>6

(***************************************************************************)
(* The actions that call.                                                   *)
(***************************************************************************)
\* The emission m is added to the calls of c.
Calling(c, m) ==
  /\ c \in Conn /\ called[c] \in Seq(Nat) /\ Len(called'[c]) = Len(called[c]) + 1
  /\ called' \in [Conn -> Seq(Nat)]
  /\ \A j \in DOMAIN called'[c] :
       \/ j \in DOMAIN called[c] /\ called'[c][j] = called[c][j] /\ j <= Len(called[c])
       \/ j = Len(called[c]) + 1 /\ called'[c][j] = m
  /\ \A d \in Conn : d # c => called'[d] = called[d]

LEMMA CallingFacts ==
  ASSUME TypeInv, NEW c \in Conn, NEW m \in Nat, called' = [called EXCEPT ![c] = Append(@, m)]
  PROVE  Calling(c, m)
<1>1. called \in [Conn -> Seq(Nat)] /\ called[c] \in Seq(Nat)
  BY DEF TypeInv
<1>2. /\ Append(called[c], m) \in Seq(Nat) /\ Len(called[c]) \in Nat
      /\ Len(Append(called[c], m)) = Len(called[c]) + 1
      /\ \A i \in 1..Len(called[c]) : Append(called[c], m)[i] = called[c][i]
      /\ Append(called[c], m)[Len(called[c]) + 1] = m
  BY <1>1, AppendFacts
<1>3. /\ called' \in [Conn -> Seq(Nat)] /\ called'[c] = Append(called[c], m)
      /\ \A d \in Conn : d # c => called'[d] = called[d]
  BY <1>1, <1>2
<1>4. DOMAIN called[c] = 1..Len(called[c]) /\ DOMAIN called'[c] = 1..(Len(called[c]) + 1)
  BY <1>1, <1>2, <1>3
<1> QED BY <1>1, <1>2, <1>3, <1>4 DEF Calling

\* It is later than the calls before, of the same thread at least.
LEMMA OrderStep ==
  ASSUME IInv, NEW c \in Conn, NEW m \in 1..Len(emitted), Calling(c, m),
         \A j \in DOMAIN called[c] : Alike(c, called[c][j], m) => called[c][j] < m,
         UNCHANGED <<type, emitted>>
  PROVE  InOrder'
<1>1. InOrder /\ CalledInv /\ TypeInv
  BY DEF IInv
<1> SUFFICES ASSUME NEW d \in Conn, NEW j \in 1..Len(called'[d]), NEW k \in 1..Len(called'[d]),
                    j < k, Alike(d, called'[d][j], called'[d][k])
             PROVE  called'[d][j] < called'[d][k]
  BY DEF InOrder, Alike
<1>2. CASE d # c
  <2>1. called'[d] = called[d]
    BY <1>2 DEF Calling
  <2> QED BY <1>1, <2>1 DEF InOrder, Alike
<1>3. CASE d = c
  <2>1. /\ called'[c] \in Seq(Nat) /\ called[c] \in Seq(Nat)
    BY <1>1 DEF Calling, TypeInv
  <2>2. j \in DOMAIN called'[c] /\ k \in DOMAIN called'[c] /\ Len(called[c]) \in Nat
    BY <1>3, <2>1
  <2>3. /\ DOMAIN called[c] = 1..Len(called[c])
    BY <2>1
  <2>4. k \in 1..(Len(called[c]) + 1)
    BY <1>3 DEF Calling
  <2>5. j \in DOMAIN called[c] /\ called'[c][j] = called[c][j]
    <3>1. j # Len(called[c]) + 1
      BY <2>2, <2>4
    <3> QED BY <2>2, <3>1 DEF Calling
  <2>6. CASE k \in DOMAIN called[c] /\ called'[c][k] = called[c][k]
    BY <1>1, <1>3, <2>3, <2>5, <2>6 DEF InOrder, Alike
  <2>7. CASE called'[c][k] = m
    BY <1>3, <2>5, <2>7
  <2> QED BY <2>2, <2>6, <2>7 DEF Calling
<1> QED BY <1>2, <1>3

LEMMA CallInPlacePreserves ==
  ASSUME IInv, NEW t \in Thread, CallInPlace(t) PROVE IInv'
<1>1. TypeInv /\ HoldInv /\ SyncInv /\ PostInv /\ CalledInv /\ AheadInv /\ InOrder
  BY DEF IInv
<1>2. /\ stack[t] # <<>> /\ Top(t).op = "emit" /\ Top(t).pc = "read" /\ Emits(Top(t))
      /\ InPlace(t, Top(t).conn)
      /\ stack' = [stack EXCEPT ![t] =
           Append(Append(Front(stack[t]), [Top(t) EXCEPT !.pc = "calls"]), Called(t, Top(t), "inPlace"))]
      /\ called' = [called EXCEPT ![Top(t).conn] = Append(@, Top(t).n)]
      /\ UNCHANGED <<mutex, list, life, thread, type, tasks, emitted>>
  BY DEF CallInPlace, At, Top, Emits, connectorVars, connVars
<1>3. PICK c \in Conn, e \in 1..Len(emitted) : c = Top(t).conn /\ e = Top(t).n
  BY <1>2, EmitterFacts
<1>4. /\ Top(t) \in FrameSet /\ life[c] # "none" /\ NotYet(Top(t), c) /\ mutex = t
      /\ e = Len(emitted) /\ Len(emitted) > 0 /\ emitted[Len(emitted)] = t
      /\ \A u \in Thread : ~SyncRuns(u) /\ \A k \in DOMAIN tasks[u] : ~SyncTask(u, k)
  BY <1>1, <1>2, <1>3, TopFacts, EmitterFacts DEF Ahead
<1>5. PICK f \in FrameSet, h \in FrameSet :
        /\ f = [Top(t) EXCEPT !.pc = "calls"] /\ h = Called(t, Top(t), "inPlace")
        /\ f.op = "emit" /\ f.pc = "calls" /\ f.conn = c /\ f.n = e
        /\ h.op = "call" /\ h.pc = "inPlace"
  <2>1. PICK f \in FrameSet : /\ f = [Top(t) EXCEPT !.pc = "calls"]
                             /\ f.op = "emit" /\ f.pc = "calls" /\ f.conn = c /\ f.n = e
    <3>1. [Top(t) EXCEPT !.pc = "calls"] \in FrameSet
      BY <1>4 DEF FrameSet, Pcs
    <3>2. PICK f \in FrameSet : f = [Top(t) EXCEPT !.pc = "calls"]
      BY <3>1
    <3>3. f.op = Top(t).op /\ f.pc = "calls" /\ f.conn = Top(t).conn /\ f.n = Top(t).n
      BY <1>4, <3>2 DEF FrameSet
    <3> QED BY <1>2, <1>3, <3>2, <3>3
  <2>2. PICK h \in FrameSet : /\ h = Called(t, Top(t), "inPlace")
                             /\ h.op = "call" /\ h.pc = "inPlace"
    BY <1>2, <1>3, <1>4 DEF FrameSet, Pcs, Ops, Called, Frame
  <2> QED BY <2>1, <2>2
<1>6. PICK m \in Nat, s \in Seq(FrameSet) :
        /\ m = Len(stack[t]) - 1 /\ m < Len(stack[t]) /\ s = Front(stack[t])
        /\ Len(s) = m /\ \A i \in 1..m : s[i] = stack[t][i]
  <2>1. PICK q \in Seq(FrameSet) : q = stack[t]
    BY <1>1 DEF TypeInv
  <2>2. PICK s \in Seq(FrameSet) : s = Front(q)
    BY <1>2, <2>1, FrontFacts
  <2>3. Len(s) = Len(q) - 1 /\ \A i \in 1..(Len(q) - 1) : s[i] = q[i]
    BY <1>2, <2>1, <2>2, FrontFacts
  <2>4. Len(q) \in Nat \ {0}
    BY <1>2, <2>1
  <2>5. PICK m \in Nat : m = Len(q) - 1
    BY <2>4
  <2>6. m < Len(q)
    BY <2>4, <2>5
  <2>7. m = Len(stack[t]) - 1 /\ m < Len(stack[t]) /\ s = Front(stack[t])
    BY <2>1, <2>2, <2>5, <2>6
  <2>8. Len(s) = m /\ \A i \in 1..m : s[i] = stack[t][i]
    BY <2>1, <2>3, <2>5
  <2> WITNESS m \in Nat, s \in Seq(FrameSet)
  <2> QED BY <2>7, <2>8
<1>7. PICK r \in Seq(FrameSet) : /\ r = Append(Append(s, f), h) /\ Len(r) = m + 2
                               /\ r[m + 1] = f /\ r[m + 2] = h
                               /\ \A i \in 1..m : r[i] = stack[t][i]
  <2>1. PICK p \in Seq(FrameSet) : p = Append(s, f)
    BY AppendFacts
  <2>2. Len(p) = m + 1 /\ p[m + 1] = f /\ \A i \in 1..m : p[i] = stack[t][i]
    BY <1>6, <2>1, AppendFacts
  <2>3. PICK r \in Seq(FrameSet) : r = Append(p, h)
    BY AppendFacts
  <2>4. Len(r) = Len(p) + 1 /\ r[Len(p) + 1] = h /\ \A i \in 1..Len(p) : r[i] = p[i]
    BY <2>3, AppendFacts
  <2>5. \A i \in 1..m : i \in 1..Len(p)
    BY <2>2
  <2>6. m + 1 \in 1..Len(p) /\ Len(p) + 1 = m + 2
    BY <2>2
  <2>7. r = Append(Append(s, f), h) /\ Len(r) = m + 2 /\ r[m + 2] = h
    BY <2>1, <2>2, <2>3, <2>4, <2>6
  <2>8. r[m + 1] = f /\ \A i \in 1..m : r[i] = stack[t][i]
    BY <2>2, <2>4, <2>5, <2>6
  <2> WITNESS r \in Seq(FrameSet)
  <2> QED BY <2>7, <2>8
<1>8. /\ stack' \in [Thread -> Seq(FrameSet)] /\ stack'[t] = r
      /\ \A u \in Thread : u # t => stack'[u] = stack[u]
  BY <1>1, <1>2, <1>5, <1>6, <1>7 DEF TypeInv
<1>9. Calling(c, e)
  <2>1. e \in Nat /\ called' = [called EXCEPT ![c] = Append(@, e)]
    BY <1>2, <1>3
  <2> QED BY <1>1, <2>1, CallingFacts
<1>10. TypeInv'
  BY <1>1, <1>2, <1>8, <1>9 DEF TypeInv, Calling
<1>11. \A i \in DOMAIN stack'[t] :
         \/ i \in 1..m /\ i \in DOMAIN stack[t] /\ stack'[t][i] = stack[t][i] /\ ~Holds(stack[t][i])
         \/ i = m + 1 /\ stack'[t][i] = f
         \/ i = m + 2 /\ stack'[t][i] = h
  <2>1. DOMAIN stack'[t] = 1..(m + 2) /\ DOMAIN stack[t] = 1..(m + 1)
    <3>1. DOMAIN stack'[t] = 1..(m + 2)
      BY <1>7, <1>8
    <3> QED BY <1>1, <1>6, <3>1, Domains
  <2>2. \A i \in 1..m : ~Holds(stack[t][i])
    BY <1>2, <1>6, EmitterFacts
  <2>3. \A i \in 1..(m + 2) : i \in 1..m \/ i = m + 1 \/ i = m + 2
    OBVIOUS
  <2>4. \A i \in 1..m : i \in DOMAIN stack[t]
    BY <2>1
  <2> QED BY <1>7, <1>8, <2>1, <2>2, <2>3, <2>4
<1>12. \A u \in Thread : u # t => \A i \in DOMAIN stack[u] : ~Holds(stack[u][i])
  BY <1>2, OneEmits
<1>13. HoldInv'
  <2> SUFFICES ASSUME NEW u \in Thread, NEW i \in DOMAIN stack'[u]
      PROVE  /\ Holds(stack'[u][i]) => mutex' = u /\ \A j \in DOMAIN stack'[u] : Holds(stack'[u][j]) => i = j
             /\ Emits(stack'[u][i]) =>
                  /\ stack'[u][i].n = Len(emitted') /\ Len(emitted') > 0 /\ emitted'[Len(emitted')] = u
                  /\ stack'[u][i].pc # "calls" => i = Len(stack'[u])
                  /\ AtConnection(stack'[u][i]) => stack'[u][i].conn \in Conn /\ life'[stack'[u][i].conn] # "none"
             /\ IsCall(stack'[u][i], "inPlace") =>
                  i > 1 /\ stack'[u][i - 1].op = "emit" /\ stack'[u][i - 1].pc = "calls"
             /\ IsCall(stack'[u][i], "sync") => i = 1
    BY DEF HoldInv
  <2>1. CASE u # t
    BY <1>1, <1>2, <1>8, <2>1 DEF HoldInv
  <2>2. CASE u = t
    <3>1. \A j \in DOMAIN stack'[t] : Holds(stack'[t][j]) => j = m + 1 /\ stack'[t][j] = f
      BY <1>5, <1>11 DEF Holds
    <3>2. CASE i = m + 1 /\ stack'[t][i] = f
      BY <1>2, <1>4, <1>5, <2>2, <3>1, <3>2, ZenonT(40) DEF Emits, IsCall
    <3>3. CASE i = m + 2 /\ stack'[t][i] = h
      <4>1. stack'[t][m + 1] = f /\ (m + 2) - 1 = m + 1 /\ m + 2 > 1
        BY <1>7, <1>8
      <4> QED BY <1>5, <2>2, <3>3, <4>1 DEF Holds, Emits, IsCall
    <3>4. CASE i \in 1..m /\ i \in DOMAIN stack[t] /\ stack'[t][i] = stack[t][i] /\ ~Holds(stack[t][i])
      <4>1. ~Holds(stack'[t][i]) /\ ~Emits(stack'[t][i])
        BY <3>4 DEF Holds, Emits
      <4>2. /\ IsCall(stack[t][i], "inPlace") => i > 1 /\ stack[t][i - 1].op = "emit" /\ stack[t][i - 1].pc = "calls"
            /\ IsCall(stack[t][i], "sync") => i = 1
        BY <1>1, <3>4 DEF HoldInv
      <4>3. i > 1 => i - 1 \in 1..m
        BY <3>4
      <4>4. i > 1 => stack'[t][i - 1] = stack[t][i - 1]
        BY <1>7, <1>8, <4>3
      <4> QED BY <2>2, <3>4, <4>1, <4>2, <4>4
    <3> QED BY <1>11, <2>2, <3>2, <3>3, <3>4
  <2> QED BY <2>1, <2>2
<1>14. SyncInv'
  <2>1. \A u \in Thread : ~SyncRuns(u)'
    <3>1. \A u \in Thread : u # t => ~SyncRuns(u)'
      BY <1>4, <1>8 DEF SyncRuns
    <3>4. /\ ~IsCall(f, "sync") /\ ~IsCall(stack[t][1], "sync")
      BY <1>2, <1>4, <1>5 DEF SyncRuns, IsCall
    <3>2. m = 0 => stack'[t][1] = f
      BY <1>7, <1>8
    <3>3. m # 0 => stack'[t][1] = stack[t][1]
      <4>1. m # 0 => 1 \in 1..m
        OBVIOUS
      <4> QED BY <1>7, <1>8, <4>1
    <3>5. ~SyncRuns(t)'
      BY <3>2, <3>3, <3>4 DEF SyncRuns
    <3> QED BY <3>1, <3>5
  <2>2. \A u \in Thread : \A k \in DOMAIN tasks'[u] : ~SyncTask(u, k)'
    BY <1>2, <1>4 DEF SyncTask
  <2> QED BY <2>1, <2>2 DEF SyncInv
<1>15. PostInv'
  BY <1>1, <1>2 DEF PostInv, Posted
<1>16. \A j \in DOMAIN called[c] : called[c][j] < e
  BY <1>3, <1>4 DEF NotYet
<1>17. InOrder'
  BY <1>2, <1>9, <1>16, OrderStep
\* What is posted to it was emitted by another thread.
<1>18. ASSUME NEW u \in Thread, NEW k \in DOMAIN tasks[u], Posted(u, k), tasks[u][k].conn = c
       PROVE  ~Alike(c, e, tasks[u][k].n)
  <2>1. /\ thread[c] \in {u, None}
        /\ \/ tasks[u][k].pc = "sync" /\ type[c] = "Sync"
           \/ tasks[u][k].pc = "queued" /\ type[c] \in {"Auto", "Queued"}
        /\ type[c] = "Auto" => emitted[tasks[u][k].n] # u
    BY <1>1, <1>18 DEF PostInv
  <2>2. tasks[u][k].pc # "sync"
    BY <1>4, <1>18 DEF SyncTask, IsCall, Posted
  <2>3. type[c] = "Auto" /\ thread[c] = t
    BY <1>2, <1>3, <2>1, <2>2 DEF InPlace
  <2> QED BY <1>4, <2>1, <2>3 DEF Alike
<1>19. CalledInv'
  <2> SUFFICES ASSUME NEW d \in Conn
               PROVE  /\ \A j \in DOMAIN called'[d] : called'[d][j] \in 1..Len(emitted)
                      /\ life[d] = "none" => called'[d] = <<>>
                      /\ d \in list => life[d] # "none"
                      /\ \A j \in DOMAIN called'[d] : \A u \in Thread : \A k \in DOMAIN tasks[u] :
                           Posted(u, k) /\ tasks[u][k].conn = d /\ Alike(d, called'[d][j], tasks[u][k].n)
                             => called'[d][j] < tasks[u][k].n
    BY <1>2 DEF CalledInv, Posted, Alike
  <2>1. CASE d # c
    <3>1. called'[d] = called[d]
      BY <1>9, <2>1 DEF Calling
    <3> QED BY <1>1, <3>1 DEF CalledInv
  <2>2. CASE d = c
    <3>1. \A j \in DOMAIN called'[c] : \/ j \in DOMAIN called[c] /\ called'[c][j] = called[c][j]
                                      \/ called'[c][j] = e
      BY <1>9 DEF Calling
    <3>2. \A j \in DOMAIN called'[c] : called'[c][j] \in 1..Len(emitted)
      BY <1>1, <3>1 DEF CalledInv
    <3>3. ASSUME NEW j \in DOMAIN called'[c], NEW u \in Thread, NEW k \in DOMAIN tasks[u],
                 Posted(u, k), tasks[u][k].conn = c, Alike(c, called'[c][j], tasks[u][k].n)
          PROVE  called'[c][j] < tasks[u][k].n
      <4>1. CASE j \in DOMAIN called[c] /\ called'[c][j] = called[c][j]
        BY <1>1, <3>3, <4>1 DEF CalledInv
      <4>2. CASE called'[c][j] = e
        BY <1>18, <3>3, <4>2
      <4> QED BY <3>1, <4>1, <4>2
    <3> QED BY <1>1, <1>4, <2>2, <3>2, <3>3 DEF CalledInv
  <2> QED BY <2>1, <2>2
<1>20. AheadInv'
  <2> SUFFICES ASSUME NEW v \in Thread, NEW i \in DOMAIN stack'[v], Emits(stack'[v][i]),
                      NEW d \in Conn, Ahead(stack'[v][i], d)
               PROVE  /\ \A j \in DOMAIN called'[d] : called'[d][j] < stack'[v][i].n
                      /\ \A u \in Thread : \A k \in DOMAIN tasks[u] :
                           Posted(u, k) /\ tasks[u][k].conn = d => tasks[u][k].n < stack'[v][i].n
    BY <1>2, SMTT(20) DEF AheadInv, Ahead, Posted
  <2>1. v = t
    BY <1>8, <1>12, SMTT(20) DEF Emits, Holds
  <2>2. stack'[v][i] = f
    BY <1>5, <1>11, <2>1 DEF Emits, Holds
  <2>3. d # c /\ NotYet(Top(t), d)
    <3>1. d > c /\ c \in Int /\ d \in Int
      BY <1>5, <2>2 DEF Ahead, Conn
    <3> QED BY <1>2, <1>3, <3>1, EmitterFacts DEF Ahead
  <2>4. called'[d] = called[d]
    BY <1>9, <2>3 DEF Calling
  <2> QED BY <1>3, <1>5, <2>2, <2>3, <2>4 DEF NotYet
<1>21. ReadyInv'
  <2>1. ConnsKept
    BY <1>2 DEF ConnsKept
  <2>2. Last(stack'[t]) = h
    <3>1. PICK k \in Nat : Len(r) = k + 1 /\ k + 1 = m + 2
      BY <1>7
    <3>2. Last(r) = r[k + 1]
      BY <3>1, LastOf
    <3>3. Last(r) = h
      BY <1>7, <3>1, <3>2
    <3> QED BY <1>8, <3>3
  <2>3. ~At(t, "emit", "post")'
    BY <1>5, <2>2 DEF At
  <2> QED BY <1>8, <2>1, <2>3, ReadyStep
<1> QED BY <1>10, <1>13, <1>14, <1>15, <1>17, <1>19, <1>20, <1>21 DEF IInv

\* The first task of t becomes the only frame of its stack.
LEMMA RunFacts ==
  ASSUME TypeInv, NEW t \in Thread, stack[t] = <<>>, tasks[t] # <<>>,
         stack' = Pushed(t, Head(tasks[t])), tasks' = [tasks EXCEPT ![t] = Tail(@)]
  PROVE  /\ 1 \in DOMAIN tasks[t] /\ tasks[t][1] \in TaskSet /\ tasks[t][1] \in FrameSet
         /\ stack' \in [Thread -> Seq(FrameSet)] /\ tasks' \in [Thread -> Seq(TaskSet)]
         /\ Kept(t, 0) /\ NewTop(t, 0, tasks[t][1])
         /\ \A u \in Thread : \A k \in DOMAIN tasks'[u] :
              \E i \in DOMAIN tasks[u] :
                /\ tasks'[u][k] = tasks[u][i] /\ (u = t => i = k + 1 /\ i > 1)
                /\ (u # t => i = k) /\ k \in Nat /\ i \in Nat
<1>1. tasks \in [Thread -> Seq(TaskSet)] /\ tasks[t] \in Seq(TaskSet) /\ stack[t] = <<>>
  BY DEF TypeInv
<1>2. PICK f \in TaskSet : f = Head(tasks[t]) /\ f = tasks[t][1] /\ 1 \in DOMAIN tasks[t]
  BY <1>1
<1>3. f \in FrameSet
  BY DEF TaskSet
<1>4. Len(stack[t]) = 0
  BY <1>1
<1>5. stack' \in [Thread -> Seq(FrameSet)] /\ Kept(t, 0) /\ NewTop(t, 0, f)
  BY <1>2, <1>3, <1>4, PushedKept
<1>6. PICK s \in Seq(TaskSet) : /\ s = Tail(tasks[t]) /\ Len(s) = Len(tasks[t]) - 1
                              /\ \A k \in 1..Len(s) : s[k] = tasks[t][k + 1]
  <2>1. PICK q \in Seq(TaskSet) : q = tasks[t] /\ q # <<>>
    BY <1>1
  <2>2. PICK s \in Seq(TaskSet) : s = Tail(q)
    BY <2>1, HeadTailProperties
  <2>3. Len(s) = Len(q) - 1 /\ \A k \in 1..(Len(q) - 1) : s[k] = q[k + 1]
    BY <2>1, <2>2, HeadTailProperties
  <2> QED BY <2>1, <2>2, <2>3
<1>7. /\ tasks' \in [Thread -> Seq(TaskSet)] /\ tasks'[t] = s
      /\ \A u \in Thread : u # t => tasks'[u] = tasks[u]
  BY <1>1, <1>6
<1>8. ASSUME NEW k \in DOMAIN tasks'[t]
      PROVE  /\ k + 1 \in DOMAIN tasks[t] /\ tasks'[t][k] = tasks[t][k + 1]
             /\ k \in Nat /\ k + 1 \in Nat /\ k + 1 > 1
  <2>1. DOMAIN tasks[t] = 1..Len(tasks[t]) /\ Len(tasks[t]) \in Nat
    BY <1>1
  <2>2. k \in 1..Len(s)
    BY <1>7
  <2> QED BY <1>6, <1>7, <2>1, <2>2
<1>9. \A u \in Thread : \A k \in DOMAIN tasks[u] : k \in Nat
  BY <1>1
<1>10. ASSUME NEW u \in Thread, NEW k \in DOMAIN tasks'[u]
       PROVE  \E i \in DOMAIN tasks[u] :
                /\ tasks'[u][k] = tasks[u][i] /\ (u = t => i = k + 1 /\ i > 1)
                /\ (u # t => i = k) /\ k \in Nat /\ i \in Nat
  <2>1. CASE u = t
    BY <1>8, <2>1
  <2>2. CASE u # t
    BY <1>7, <1>9, <2>2
  <2> QED BY <2>1, <2>2
<1> QED BY <1>2, <1>3, <1>5, <1>7, <1>10

LEMMA RunPreserves ==
  ASSUME IInv, NEW t \in Thread, Run(t) PROVE IInv'
<1>1. TypeInv /\ HoldInv /\ SyncInv /\ PostInv /\ CalledInv /\ AheadInv /\ InOrder
  BY DEF IInv
<1>2. /\ stack[t] = <<>> /\ tasks[t] # <<>>
      /\ stack' = Pushed(t, Head(tasks[t])) /\ tasks' = [tasks EXCEPT ![t] = Tail(@)]
      /\ UNCHANGED <<mutex, list, life, thread, type, emitted>>
  BY DEF Run, connectorVars, connVars
<1>3. PICK f \in FrameSet : f = tasks[t][1] /\ f \in TaskSet /\ 1 \in DOMAIN tasks[t]
  BY <1>1, <1>2, RunFacts
<1>4. f.op = "call" \/ (f.op = "delete" /\ called' = called)
  <2>1. f = Head(tasks[t])
    BY <1>1, <1>3 DEF TypeInv
  <2> QED BY <1>3, <2>1 DEF Run, TaskSet
<1>5. f.op = "call" =>
        /\ f.conn \in Conn /\ life[f.conn] # "none" /\ f.n \in 1..Len(emitted)
        /\ f.pc \in {"sync", "queued"} /\ Posted(t, 1)
  BY <1>1, <1>3 DEF PostInv, Posted
<1>6. f.op = "call" => Calling(f.conn, f.n)
  <2>1. f.op = "call" => called' = [called EXCEPT ![f.conn] = Append(@, f.n)]
    <3>1. f = Head(tasks[t])
      BY <1>1, <1>3 DEF TypeInv
    <3> QED BY <3>1 DEF Run
  <2>2. f.n \in Nat
    BY DEF FrameSet
  <2> QED BY <1>1, <1>5, <2>1, <2>2, CallingFacts
<1>7. TypeInv'
  <2>1. called' \in [Conn -> Seq(Nat)]
    BY <1>1, <1>4, <1>6 DEF TypeInv, Calling
  <2> QED BY <1>1, <1>2, <2>1, RunFacts DEF TypeInv
<1>8. Kept(t, 0) /\ NewTop(t, 0, f) /\ stack'[t][1] = f /\ ~Holds(f) /\ ~Emits(f) /\ ~IsCall(f, "inPlace")
  <2>1. Kept(t, 0) /\ NewTop(t, 0, f)
    BY <1>1, <1>2, <1>3, RunFacts
  <2>2. f.op # "emit" /\ f.op # "destroy" /\ (f.op = "call" => f.pc # "inPlace")
    BY <1>4, <1>5
  <2> QED BY <2>1, <2>2 DEF NewTop, Holds, Emits, IsCall
<1>9. ASSUME NEW u \in Thread, NEW k \in DOMAIN tasks'[u]
      PROVE  \E i \in DOMAIN tasks[u] :
               /\ tasks'[u][k] = tasks[u][i] /\ (u = t => i = k + 1 /\ i > 1)
               /\ (u # t => i = k) /\ k \in Nat /\ i \in Nat
  BY <1>1, <1>2, RunFacts
<1>10. \A u \in Thread : u # t => stack'[u] = stack[u]
  BY <1>8 DEF Kept
<1>11. HoldInv'
  <2>1. HoldKept(t, 0)
    BY <1>2, <1>8 DEF HoldKept
  <2> QED BY <1>2, <1>7, <1>8, <2>1, HoldStep
\* A task that is left was there before, behind the first.
<1>12. ASSUME NEW u \in Thread, NEW k \in DOMAIN tasks'[u], Posted(u, k)'
       PROVE  \E i \in DOMAIN tasks[u] : Posted(u, i) /\ tasks'[u][k] = tasks[u][i] /\ (u = t => i > 1)
  BY <1>9, <1>12 DEF Posted
<1>13. SyncInv'
  <2>1. ~SyncRuns(t) /\ \A x : WaitsFor(x) => x # t
    BY <1>2 DEF SyncRuns, WaitsFor
  <2>2. \A u \in Thread : u # t => (SyncRuns(u)' <=> SyncRuns(u))
    BY <1>10 DEF SyncRuns
  <2>3. SyncRuns(t)' => SyncTask(t, 1) /\ stack'[t][1] = tasks[t][1]
    BY <1>3, <1>8 DEF SyncRuns, SyncTask
  <2>4. \A x : WaitsFor(x) => WaitsFor(x)'
    BY <1>10, <2>1 DEF WaitsFor
  <2>5. ASSUME NEW u \in Thread, NEW k \in DOMAIN tasks'[u], SyncTask(u, k)'
        PROVE  /\ WaitsFor(tasks[u][k].peer)'
               /\ \A v \in Thread : ~SyncRuns(v)' /\ \A j \in DOMAIN tasks'[v] : SyncTask(v, j)' => v = u /\ j = k
    <3>1. PICK i \in DOMAIN tasks[u] :
            /\ SyncTask(u, i) /\ tasks'[u][k] = tasks[u][i] /\ (u = t => i = k + 1 /\ i > 1)
            /\ (u # t => i = k) /\ k \in Nat /\ i \in Nat
      BY <1>9, <2>5 DEF SyncTask
    <3>2. /\ WaitsFor(tasks[u][i].peer)
          /\ \A v \in Thread : ~SyncRuns(v) /\ \A j \in DOMAIN tasks[v] : SyncTask(v, j) => v = u /\ j = i
      BY <1>1, <3>1 DEF SyncInv
    <3>3. ~SyncTask(t, 1)
      BY <1>3, <3>1, <3>2
    <3>4. \A v \in Thread : ~SyncRuns(v)'
      BY <2>2, <2>3, <3>2, <3>3
    <3>5. ASSUME NEW v \in Thread, NEW j \in DOMAIN tasks'[v], SyncTask(v, j)' PROVE v = u /\ j = k
      <4>1. PICK l \in DOMAIN tasks[v] :
              /\ SyncTask(v, l) /\ (v = t => l = j + 1) /\ (v # t => l = j) /\ j \in Nat /\ l \in Nat
        BY <1>9, <3>5 DEF SyncTask
      <4>2. v = u /\ l = i
        BY <3>2, <4>1
      <4> QED BY <3>1, <4>1, <4>2
    <3> QED BY <2>4, <3>1, <3>2, <3>4, <3>5
  <2>6. ASSUME NEW u \in Thread, SyncRuns(u)'
        PROVE  WaitsFor(stack[u][1].peer)' /\ \A v \in Thread : SyncRuns(v)' => v = u
    <3>1. CASE u = t
      BY <1>1, <1>3, <2>2, <2>3, <2>4, <2>6, <3>1 DEF SyncInv
    <3>2. CASE u # t
      <4>1. SyncRuns(u) /\ stack'[u] = stack[u]
        BY <1>10, <2>2, <2>6, <3>2
      <4>2. ~SyncTask(t, 1)
        BY <1>1, <1>3, <4>1 DEF SyncInv
      <4> QED BY <1>1, <2>2, <2>3, <2>4, <4>1, <4>2 DEF SyncInv
    <3> QED BY <3>1, <3>2
  <2> QED BY <2>5, <2>6 DEF SyncInv
<1>14. PostInv'
  <2> SUFFICES ASSUME NEW v \in Thread, NEW k \in DOMAIN tasks'[v], Posted(v, k)'
      PROVE  LET h == tasks'[v][k]
             IN /\ h.conn \in Conn /\ life[h.conn] # "none" /\ thread[h.conn] \in {v, None}
                /\ h.n \in 1..Len(emitted)
                /\ \/ h.pc = "sync" /\ type[h.conn] = "Sync"
                   \/ h.pc = "queued" /\ type[h.conn] \in {"Auto", "Queued"}
                /\ type[h.conn] = "Auto" => emitted[h.n] # v
                /\ \A u \in Thread : \A j \in DOMAIN tasks'[u] :
                     Posted(u, j)' /\ tasks'[u][j].conn = h.conn =>
                       u = v /\ (k < j => h.n < tasks'[u][j].n)
    BY <1>2 DEF PostInv
  <2>1. PICK i \in DOMAIN tasks[v] :
          /\ Posted(v, i) /\ tasks'[v][k] = tasks[v][i] /\ (v = t => i = k + 1)
          /\ (v # t => i = k) /\ k \in Nat /\ i \in Nat
    BY <1>9 DEF Posted
  <2>2. PICK h \in TaskSet : h = tasks[v][i]
    BY <1>1, <2>1, Domains
  <2>3. /\ h.conn \in Conn /\ life[h.conn] # "none" /\ thread[h.conn] \in {v, None}
        /\ h.n \in 1..Len(emitted)
        /\ \/ h.pc = "sync" /\ type[h.conn] = "Sync"
           \/ h.pc = "queued" /\ type[h.conn] \in {"Auto", "Queued"}
        /\ type[h.conn] = "Auto" => emitted[h.n] # v
        /\ \A u \in Thread : \A j \in DOMAIN tasks[u] :
             Posted(u, j) /\ tasks[u][j].conn = h.conn => u = v /\ (i < j => h.n < tasks[u][j].n)
    BY <1>1, <2>1, <2>2 DEF PostInv
  <2>4. ASSUME NEW u \in Thread, NEW j \in DOMAIN tasks'[u], Posted(u, j)', tasks'[u][j].conn = h.conn
        PROVE  u = v /\ (k < j => h.n < tasks'[u][j].n)
    <3>1. PICK l \in DOMAIN tasks[u] :
            /\ Posted(u, l) /\ tasks'[u][j] = tasks[u][l] /\ (u = t => l = j + 1)
            /\ (u # t => l = j) /\ j \in Nat /\ l \in Nat
      BY <1>9, <2>4 DEF Posted
    <3>2. u = v /\ (i < l => h.n < tasks[u][l].n)
      BY <2>3, <2>4, <3>1
    <3>3. k < j => i < l
      BY <2>1, <3>1, <3>2
    <3> QED BY <3>1, <3>2, <3>3
  <2> QED BY <2>1, <2>2, <2>3, <2>4
\* A call is an old one, or that of the first task.
<1>15. ASSUME NEW d \in Conn, NEW j \in DOMAIN called'[d]
       PROVE  \/ j \in DOMAIN called[d] /\ called'[d][j] = called[d][j]
              \/ Posted(t, 1) /\ tasks[t][1].conn = d /\ called'[d][j] = tasks[t][1].n
  <2>1. CASE f.op # "call"
    BY <1>4, <2>1
  <2>2. CASE f.op = "call" /\ d # f.conn
    BY <1>6, <2>2 DEF Calling
  <2>3. CASE f.op = "call" /\ d = f.conn
    BY <1>3, <1>5, <1>6, <2>3 DEF Calling
  <2> QED BY <2>1, <2>2, <2>3
<1>16. InOrder'
  <2>1. CASE f.op # "call"
    BY <1>1, <1>2, <1>4, <2>1 DEF InOrder
  <2>2. CASE f.op = "call"
    <3>1. \A j \in DOMAIN called[f.conn] :
            Alike(f.conn, called[f.conn][j], f.n) => called[f.conn][j] < f.n
      BY <1>1, <1>3, <1>5, <2>2 DEF CalledInv
    <3> QED BY <1>2, <1>5, <1>6, <2>2, <3>1, OrderStep
  <2> QED BY <2>1, <2>2
<1>17. CalledInv'
  <2> SUFFICES ASSUME NEW d \in Conn
               PROVE  /\ \A j \in DOMAIN called'[d] : called'[d][j] \in 1..Len(emitted)
                      /\ life[d] = "none" => called'[d] = <<>>
                      /\ d \in list => life[d] # "none"
                      /\ \A j \in DOMAIN called'[d] : \A u \in Thread : \A k \in DOMAIN tasks'[u] :
                           Posted(u, k)' /\ tasks'[u][k].conn = d /\ Alike(d, called'[d][j], tasks'[u][k].n)
                             => called'[d][j] < tasks'[u][k].n
    BY <1>2 DEF CalledInv, Alike
  <2>1. \A j \in DOMAIN called'[d] : called'[d][j] \in 1..Len(emitted)
    BY <1>1, <1>3, <1>15 DEF CalledInv, PostInv
  <2>2. life[d] = "none" => called'[d] = <<>>
    <3>1. f.op = "call" /\ d = f.conn => life[d] # "none"
      BY <1>5
    <3>2. ~(f.op = "call" /\ d = f.conn) => called'[d] = called[d]
      BY <1>4, <1>6 DEF Calling
    <3> QED BY <1>1, <3>1, <3>2 DEF CalledInv
  <2>3. ASSUME NEW j \in DOMAIN called'[d], NEW u \in Thread, NEW k \in DOMAIN tasks'[u],
               Posted(u, k)', tasks'[u][k].conn = d, Alike(d, called'[d][j], tasks'[u][k].n)
        PROVE  called'[d][j] < tasks'[u][k].n
    <3>1. PICK i \in DOMAIN tasks[u] : Posted(u, i) /\ tasks'[u][k] = tasks[u][i] /\ (u = t => i > 1)
      BY <1>12, <2>3
    <3>2. CASE j \in DOMAIN called[d] /\ called'[d][j] = called[d][j]
      BY <1>1, <2>3, <3>1, <3>2 DEF CalledInv
    <3>3. CASE Posted(t, 1) /\ tasks[t][1].conn = d /\ called'[d][j] = tasks[t][1].n
      <4>1. u = t /\ (1 < i => tasks[t][1].n < tasks[u][i].n)
        BY <1>1, <1>3, <2>3, <3>1, <3>3 DEF PostInv
      <4>2. i \in Nat
        BY <1>1, Domains
      <4> QED BY <3>1, <3>3, <4>1, <4>2
    <3> QED BY <1>15, <3>2, <3>3
  <2> QED BY <1>1, <2>1, <2>2, <2>3 DEF CalledInv
<1>18. AheadInv'
  <2> SUFFICES ASSUME NEW v \in Thread, NEW i \in DOMAIN stack'[v], Emits(stack'[v][i]),
                      NEW d \in Conn, Ahead(stack'[v][i], d)
               PROVE  /\ \A j \in DOMAIN called'[d] : called'[d][j] < stack'[v][i].n
                      /\ \A u \in Thread : \A k \in DOMAIN tasks'[u] :
                           Posted(u, k)' /\ tasks'[u][k].conn = d => tasks'[u][k].n < stack'[v][i].n
    BY DEF AheadInv, Ahead
  <2>1. v # t
    <3>1. stack'[t] \in Seq(FrameSet) /\ Len(stack'[t]) = 1
      BY <1>7, <1>8 DEF TypeInv, NewTop
    <3>2. v = t => i = 1
      BY <3>1
    <3> QED BY <1>8, <3>2
  <2>2. stack'[v] = stack[v]
    BY <1>10, <2>1
  <2>3. NotYet(stack[v][i], d)
    BY <1>1, <2>2 DEF AheadInv, NotYet
  <2> QED BY <1>3, <1>12, <1>15, <2>2, <2>3 DEF NotYet
<1>19. ReadyInv'
  <2>1. ConnsKept
    BY <1>2, <1>9 DEF ConnsKept
  <2>2. ~At(t, "emit", "post")'
    <3>1. stack'[t] # <<>> => Last(stack'[t]) = f
      BY <1>7, <1>8, KeptTop DEF NewTop
    <3> QED BY <1>8, <3>1 DEF At, Emits
  <2> QED BY <1>10, <2>1, <2>2, ReadyStep
<1> QED BY <1>7, <1>11, <1>13, <1>14, <1>16, <1>17, <1>18, <1>19 DEF IInv

\* The synchronous call is the only frame of its thread; the emission of another thread,
\* which waits, goes on.
LEMMA ReturnSyncPreserves ==
  ASSUME IInv, NEW t \in Thread, ReturnSync(t) PROVE IInv'
<1>1. TypeInv /\ HoldInv /\ SyncInv /\ PostInv /\ CalledInv /\ AheadInv /\ InOrder
  BY DEF IInv
<1>2. /\ stack[t] # <<>> /\ IsCall(Top(t), "sync")
      /\ UNCHANGED <<mutex, list, life, thread, type, tasks, emitted, called>>
  BY DEF ReturnSync, At, Top, IsCall, connectorVars, connVars, history
<1>3. /\ Len(stack[t]) = 1 /\ Top(t) = stack[t][1] /\ SyncRuns(t)
  <2>1. Len(stack[t]) = 1
    <3>1. PICK i \in DOMAIN stack[t] : i = Len(stack[t]) /\ Top(t) = stack[t][i]
      BY <1>1, <1>2, TopFacts
    <3>2. IsCall(stack[t][i], "sync")
      BY <1>2, <3>1
    <3>3. i = 1
      BY <1>1, <3>2 DEF HoldInv
    <3> QED BY <3>1, <3>3
  <2> QED BY <1>1, <1>2, <2>1, TopFacts DEF SyncRuns
<1>4. PICK u \in Thread : u = Top(t).peer /\ WaitsFor(u)
  BY <1>1, <1>3 DEF SyncInv, WaitsFor
<1>5. u # t /\ stack[u] # <<>> /\ Top(u).op = "emit" /\ Top(u).pc = "waits"
  BY <1>2, <1>4 DEF WaitsFor, Top, IsCall
<1>6. PICK f \in FrameSet : /\ f = [Top(u) EXCEPT !.pc = "next"]
                            /\ f.op = "emit" /\ f.pc = "next" /\ f.n = Top(u).n /\ f.conn = Top(u).conn
  <2>1. Top(u) \in FrameSet
    BY <1>1, <1>5, TopFacts
  <2>2. [Top(u) EXCEPT !.pc = "next"] \in FrameSet
    BY <2>1 DEF FrameSet, Pcs
  <2>3. PICK f \in FrameSet : f = [Top(u) EXCEPT !.pc = "next"]
    BY <2>2
  <2> QED BY <1>5, <2>1, <2>3 DEF FrameSet
<1>7. PICK m \in Nat, r \in Seq(FrameSet) :
        /\ m = Len(stack[u]) - 1 /\ r = Append(Front(stack[u]), f) /\ Len(r) = m + 1 /\ r[m + 1] = f
        /\ Top(u) = stack[u][m + 1] /\ \A i \in 1..m : r[i] = stack[u][i]
  <2>1. PICK q \in Seq(FrameSet) : q = stack[u] /\ q # <<>>
    BY <1>1, <1>5 DEF TypeInv
  <2>2. PICK s \in Seq(FrameSet) : s = Front(q)
    BY <2>1, FrontFacts
  <2>3. Len(s) = Len(q) - 1 /\ \A i \in 1..(Len(q) - 1) : s[i] = q[i]
    BY <2>1, <2>2, FrontFacts
  <2>4. PICK m \in Nat : m = Len(q) - 1 /\ Len(q) = m + 1
    <3>1. Len(q) \in Nat \ {0}
      BY <2>1
    <3>2. PICK m \in Nat : m = Len(q) - 1
      BY <3>1
    <3> QED BY <3>1, <3>2
  <2>5. PICK r \in Seq(FrameSet) : r = Append(s, f)
    BY AppendFacts
  <2>6. Len(r) = Len(s) + 1 /\ r[Len(s) + 1] = f /\ \A i \in 1..Len(s) : r[i] = s[i]
    BY <2>5, AppendFacts
  <2>7. Top(u) = stack[u][m + 1]
    BY <1>1, <1>5, <2>1, <2>4, TopFacts
  <2>8. Len(r) = m + 1 /\ r[m + 1] = f /\ \A i \in 1..m : r[i] = s[i] /\ s[i] = q[i]
    BY <2>3, <2>4, <2>6
  <2>9. m = Len(stack[u]) - 1 /\ r = Append(Front(stack[u]), f)
    BY <2>1, <2>2, <2>4, <2>5
  <2> WITNESS m \in Nat, r \in Seq(FrameSet)
  <2> QED BY <2>1, <2>7, <2>8, <2>9
<1>8. Front(stack[t]) \in Seq(FrameSet) /\ Front(stack[t]) = <<>>
  <2>1. PICK q \in Seq(FrameSet) : q = stack[t] /\ q # <<>> /\ Len(q) = 1
    BY <1>1, <1>2, <1>3 DEF TypeInv
  <2>2. PICK s \in Seq(FrameSet) : s = Front(q)
    BY <2>1, FrontFacts
  <2>3. Len(s) = 0
    BY <2>1, <2>2, FrontFacts
  <2>4. s = <<>>
    BY <2>3
  <2> QED BY <2>1, <2>2, <2>4
<1>9. /\ stack' \in [Thread -> Seq(FrameSet)] /\ stack'[t] = <<>> /\ stack'[u] = r
      /\ \A v \in Thread : v # t /\ v # u => stack'[v] = stack[v]
  <2>1. stack' = [stack EXCEPT ![t] = Front(@), ![u] = Append(Front(@), [Last(@) EXCEPT !.pc = "next"])]
    BY <1>4 DEF ReturnSync
  <2>2. stack' = [stack EXCEPT ![t] = <<>>, ![u] = r]
    BY <1>1, <1>5, <1>6, <1>7, <1>8, <2>1 DEF Top, TypeInv
  <2>3. <<>> \in Seq(FrameSet)
    OBVIOUS
  <2> QED BY <1>1, <1>5, <2>2, <2>3 DEF TypeInv
<1>10. TypeInv'
  BY <1>1, <1>2, <1>9 DEF TypeInv
\* Every frame that is left was there; one went from "waits" to "next".
<1>11. ASSUME NEW v \in Thread, NEW i \in DOMAIN stack'[v]
       PROVE  /\ v # t /\ Len(stack'[v]) = Len(stack[v]) /\ i \in DOMAIN stack[v]
              /\ \/ stack'[v][i] = stack[v][i]
                 \/ /\ v = u /\ i = m + 1 /\ stack'[v][i] = f
                    /\ Emits(stack[v][i]) /\ Emits(f) /\ stack[v][i].pc = "waits"
                    /\ stack[v][i].n = f.n /\ stack[v][i].conn = f.conn
  <2>1. v # t
    BY <1>9
  <2>2. CASE v # u
    BY <1>9, <2>1, <2>2
  <2>3. CASE v = u
    <3>1. DOMAIN stack[u] = 1..(m + 1) /\ Len(stack[u]) = m + 1
      BY <1>1, <1>7, Domains
    <3>2. DOMAIN stack'[u] = 1..(m + 1) /\ Len(stack'[u]) = m + 1
      BY <1>7, <1>9
    <3>3. i \in 1..m \/ i = m + 1
      BY <2>3, <3>2
    <3>4. CASE i \in 1..m
      BY <1>7, <1>9, <2>1, <2>3, <3>1, <3>2, <3>4
    <3>5. CASE i = m + 1
      BY <1>5, <1>6, <1>7, <1>9, <2>1, <2>3, <3>1, <3>2, <3>5 DEF Emits
    <3> QED BY <3>3, <3>4, <3>5
  <2> QED BY <2>2, <2>3
<1>12. ASSUME NEW v \in Thread, NEW i \in DOMAIN stack'[v]
       PROVE  /\ Holds(stack'[v][i]) <=> Holds(stack[v][i])
              /\ \A x : IsCall(stack'[v][i], x) => stack'[v][i] = stack[v][i]
              /\ Emits(stack'[v][i]) =>
                   /\ Emits(stack[v][i]) /\ stack'[v][i].n = stack[v][i].n
                   /\ stack'[v][i].conn = stack[v][i].conn
                   /\ \/ stack'[v][i] = stack[v][i]
                      \/ stack[v][i].pc = "waits" /\ stack'[v][i].pc = "next"
  <2>1. CASE stack'[v][i] = stack[v][i]
    BY <2>1
  <2>2. CASE stack'[v][i] = f /\ Emits(stack[v][i]) /\ Emits(f) /\ stack[v][i].pc = "waits"
             /\ stack[v][i].n = f.n /\ stack[v][i].conn = f.conn
    BY <1>6, <2>2 DEF Emits, Holds, IsCall
  <2> QED BY <1>11, <2>1, <2>2
<1>13. HoldInv'
  <2> SUFFICES ASSUME NEW v \in Thread, NEW i \in DOMAIN stack'[v]
      PROVE  /\ Holds(stack'[v][i]) => mutex' = v /\ \A j \in DOMAIN stack'[v] : Holds(stack'[v][j]) => i = j
             /\ Emits(stack'[v][i]) =>
                  /\ stack'[v][i].n = Len(emitted') /\ Len(emitted') > 0 /\ emitted'[Len(emitted')] = v
                  /\ stack'[v][i].pc # "calls" => i = Len(stack'[v])
                  /\ AtConnection(stack'[v][i]) => stack'[v][i].conn \in Conn /\ life'[stack'[v][i].conn] # "none"
             /\ IsCall(stack'[v][i], "inPlace") =>
                  i > 1 /\ stack'[v][i - 1].op = "emit" /\ stack'[v][i - 1].pc = "calls"
             /\ IsCall(stack'[v][i], "sync") => i = 1
    BY DEF HoldInv
  <2>1. i \in DOMAIN stack[v] /\ Len(stack'[v]) = Len(stack[v])
    BY <1>11
  <2>2. Holds(stack'[v][i]) => mutex' = v /\ \A j \in DOMAIN stack'[v] : Holds(stack'[v][j]) => i = j
    <3>1. \A j \in DOMAIN stack'[v] : j \in DOMAIN stack[v] /\ (Holds(stack'[v][j]) => Holds(stack[v][j]))
      BY <1>11, <1>12
    <3> QED BY <1>1, <1>2, <2>1, <3>1 DEF HoldInv
  <2>3. Emits(stack'[v][i]) =>
          /\ stack'[v][i].n = Len(emitted') /\ Len(emitted') > 0 /\ emitted'[Len(emitted')] = v
          /\ stack'[v][i].pc # "calls" => i = Len(stack'[v])
          /\ AtConnection(stack'[v][i]) => stack'[v][i].conn \in Conn /\ life'[stack'[v][i].conn] # "none"
    <3>1. Emits(stack[v][i]) =>
          /\ stack[v][i].n = Len(emitted) /\ Len(emitted) > 0 /\ emitted[Len(emitted)] = v
          /\ stack[v][i].pc # "calls" => i = Len(stack[v])
          /\ AtConnection(stack[v][i]) => stack[v][i].conn \in Conn /\ life[stack[v][i].conn] # "none"
      BY <1>1, <2>1 DEF HoldInv
    <3> QED BY <1>2, <1>12, <2>1, <3>1
  <2>4. IsCall(stack'[v][i], "inPlace") =>
          i > 1 /\ stack'[v][i - 1].op = "emit" /\ stack'[v][i - 1].pc = "calls"
    <3> SUFFICES ASSUME IsCall(stack'[v][i], "inPlace")
                 PROVE  i > 1 /\ stack'[v][i - 1].op = "emit" /\ stack'[v][i - 1].pc = "calls"
      OBVIOUS
    <3>1. i > 1 /\ stack[v][i - 1].op = "emit" /\ stack[v][i - 1].pc = "calls"
      <4>1. IsCall(stack[v][i], "inPlace")
        BY <1>12
      <4> QED BY <1>1, <2>1, <4>1 DEF HoldInv
    <3>2. i - 1 \in DOMAIN stack'[v]
      <4>1. stack'[v] \in Seq(FrameSet)
        BY <1>10 DEF TypeInv
      <4> QED BY <3>1, <4>1
    <3> QED BY <1>11, <3>1, <3>2
  <2>5. IsCall(stack'[v][i], "sync") => i = 1
    BY <1>1, <1>12, <2>1 DEF HoldInv
  <2> QED BY <2>2, <2>3, <2>4, <2>5
<1>14. SyncInv'
  <2>1. \A v \in Thread : ~SyncRuns(v)'
    <3> SUFFICES ASSUME NEW v \in Thread, SyncRuns(v)' PROVE FALSE
      OBVIOUS
    <3>1. 1 \in DOMAIN stack'[v]
      <4>1. stack'[v] \in Seq(FrameSet) /\ stack'[v] # <<>>
        BY <1>10 DEF TypeInv, SyncRuns
      <4> QED BY <4>1
    <3>2. v # t /\ IsCall(stack[v][1], "sync") /\ stack[v] # <<>>
      <4>1. v # t /\ 1 \in DOMAIN stack[v]
        BY <1>11, <3>1
      <4>2. stack'[v][1] = stack[v][1]
        BY <1>12, <3>1, ZenonT(40) DEF SyncRuns
      <4>3. stack[v] # <<>>
        BY <4>1
      <4> QED BY <4>1, <4>2, <4>3 DEF SyncRuns
    <3> QED BY <1>1, <1>3, <3>2 DEF SyncInv, SyncRuns
  <2>2. \A v \in Thread : \A k \in DOMAIN tasks'[v] : ~SyncTask(v, k)'
    BY <1>1, <1>2, <1>3 DEF SyncInv, SyncTask
  <2> QED BY <2>1, <2>2 DEF SyncInv
<1>15. CallsKept
  BY <1>2, CallsUnchanged
<1>16. PostInv' /\ CalledInv' /\ InOrder'
  BY <1>15, PostStep, CalledStep
<1>17. AheadInv'
  <2> SUFFICES ASSUME NEW v \in Thread, NEW i \in DOMAIN stack'[v], Emits(stack'[v][i]),
                      NEW c \in Conn, Ahead(stack'[v][i], c)
               PROVE  /\ \A j \in DOMAIN called[c] : called[c][j] < stack'[v][i].n
                      /\ \A w \in Thread : \A k \in DOMAIN tasks[w] :
                           Posted(w, k) /\ tasks[w][k].conn = c => tasks[w][k].n < stack'[v][i].n
    BY <1>2 DEF AheadInv, Ahead, Posted
  <2>1. i \in DOMAIN stack[v] /\ Emits(stack[v][i]) /\ stack'[v][i].n = stack[v][i].n
    BY <1>11, <1>12
  <2>2. Ahead(stack[v][i], c)
    BY <1>12 DEF Ahead
  <2> QED BY <1>1, <2>1, <2>2 DEF AheadInv
<1>18. ReadyInv'
  <2> SUFFICES ASSUME NEW v \in Thread, At(v, "emit", "post")' PROVE Ready(v, Top(v).conn, Top(v).peer)'
    BY DEF ReadyInv
  <2>1. PICK i \in DOMAIN stack'[v] : Last(stack'[v]) = stack'[v][i]
    BY <1>10, TopLast DEF At
  <2>2. i \in DOMAIN stack[v] /\ Holds(stack[v][i])
    BY <1>11, <1>12, <2>1 DEF At, Emits, Holds
  <2>3. v = u
    BY <1>1, <1>4, <1>5, <2>2, TopFacts DEF HoldInv, Holds
  <2>4. Last(stack'[u]) = f
    BY <1>7, <1>9, LastOf, ZenonT(40)
  <2> QED BY <1>6, <2>3, <2>4 DEF At
<1> QED BY <1>10, <1>13, <1>14, <1>16, <1>17, <1>18 DEF IInv

(***************************************************************************)
(* The theorem.                                                             *)
(***************************************************************************)
LEMMA InitInv == Init => IInv
<1> SUFFICES ASSUME Init PROVE IInv
  OBVIOUS
<1>1. TypeInv
  BY DEF Init, TypeInv, Lives, AllTypes
<1>2. \A t \in Thread : DOMAIN stack[t] = {} /\ DOMAIN tasks[t] = {} /\ stack[t] = <<>>
  BY DEF Init
<1>3. \A c \in Conn : called[c] = <<>> /\ DOMAIN called[c] = {} /\ 1..Len(called[c]) = {}
  BY DEF Init
<1>4. HoldInv /\ SyncInv /\ PostInv /\ AheadInv /\ ReadyInv
  BY <1>2 DEF HoldInv, SyncInv, PostInv, AheadInv, SyncRuns, ReadyInv, At
<1>5. CalledInv /\ InOrder
  BY <1>3 DEF CalledInv, InOrder, Init
<1> QED BY <1>1, <1>4, <1>5 DEF IInv

LEMMA StepInv == IInv /\ [Next]_vars => IInv'
<1> SUFFICES ASSUME IInv, [Next]_vars PROVE IInv'
  OBVIOUS
<1>1. CASE UNCHANGED vars
  <2>1. UNCHANGED <<list, mutex, life, thread, type, tasks, stack, emitted, called>>
    BY <1>1 DEF vars, connectorVars, connVars, threadVars, history
  <2>2. TypeInv'
    BY <2>1 DEF IInv, TypeInv
  <2> QED BY <2>1, <2>2, CallsUnchanged, StillStep
<1>2. ASSUME NEW t \in Thread, NEW c \in Conn, DestroyGuard(t, c) PROVE IInv'
  BY <1>2, DestroyGuardPreserves
<1>3. ASSUME NEW t \in Thread, NEW c \in Conn, NEW ty \in Types, Connect(t, c, ty) PROVE IInv'
  BY <1>3, ConnectPreserves
<1>4. ASSUME NEW t \in Thread,
             \/ Emit(t) \/ Destroy(t) \/ Finish(t)
             \/ EmitLocks(t) \/ EmitNext(t) \/ EmitEnds(t)
             \/ Decide(t) \/ Release(t) \/ Unlist(t)
             \/ DestroyLocks(t) \/ DestroyNext(t) \/ DestroyConnection(t) \/ DestroyEnds(t)
      PROVE  IInv'
  BY <1>4, EmitPreserves, DestroyPreserves, FinishPreserves, EmitLocksPreserves, EmitNextPreserves,
     EmitEndsPreserves, DecidePreserves, ReleasePreserves, UnlistPreserves, DestroyLocksPreserves,
     DestroyNextPreserves, DestroyConnectionPreserves, DestroyEndsPreserves
<1>5. ASSUME NEW t \in Thread,
             \/ CallInPlace(t) \/ Prepare(t) \/ Post(t) \/ PostSync(t)
             \/ Run(t) \/ ReturnQueued(t) \/ ReturnInPlace(t) \/ ReturnSync(t)
      PROVE  IInv'
  BY <1>5, CallInPlacePreserves, PreparePreserves, PostPreserves, PostSyncPreserves, RunPreserves,
     ReturnQueuedPreserves, ReturnInPlacePreserves, ReturnSyncPreserves
<1> QED BY <1>1, <1>2, <1>3, <1>4, <1>5 DEF Next

\* Whatever the threads, the connections and the emissions, and whatever users do with the
\* connector (no rule on Calls is assumed): the functions of a connection are called in the
\* order in which the emissions held the mutex, each once; an Auto connection at least for
\* the emissions of one thread (operator() of FunctionConnector).
THEOREM EmissionsInOrder == Spec => []InOrder
<1>1. Init => IInv
  BY InitInv
<1>2. IInv /\ [Next]_vars => IInv'
  BY StepInv
<1>3. IInv => InOrder
  BY DEF IInv
<1> QED BY <1>1, <1>2, <1>3, PTL DEF Spec

(***************************************************************************)
(* The deletion of a connection comes after its calls, if no guard is       *)
(* destroyed while an emission is at its connection.  Once thread_ is       *)
(* cleared nothing more is posted, and what was posted is in the thread the *)
(* deletion is posted to.                                                   *)
(***************************************************************************)
DeleteTask(t, k) == k \in DOMAIN tasks[t] /\ tasks[t][k].op = "delete"

\* A connection that is being disconnected from p: nothing is posted to another thread.
Leaves(c, p) ==
  /\ c \in Conn /\ p \in Thread /\ thread[c] = None /\ life[c] # "none"
  /\ \A u \in Thread : \A k \in DOMAIN tasks[u] : Posted(u, k) /\ tasks[u][k].conn = c => u = p
OwnInv ==
  /\ guarded \in [Conn -> BOOLEAN]
  /\ \A c \in Conn : thread[c] # None \/ guarded[c] => life[c] # "none"
DisconnectInv ==
  \A t \in Thread : \A f \in ToSet(stack[t]) : f.op = "disconnect" => Leaves(f.conn, f.peer)
Behind(t, k) ==
  LET c == tasks[t][k].conn
  IN /\ c \in Conn /\ thread[c] = None /\ life[c] # "none"
     /\ \A u \in Thread : \A j \in DOMAIN tasks[u] : Posted(u, j) /\ tasks[u][j].conn = c => u = t /\ j < k
BehindInv == \A t \in Thread : \A k \in DOMAIN tasks[t] : DeleteTask(t, k) => Behind(t, k)
\* A task that is being handed over is for a connection that has its thread.
Passes(f) == f.op = "emit" /\ f.pc = "post"
PassInv == \A t \in Thread : \A f \in ToSet(stack[t]) :
  Passes(f) => f.conn \in Conn /\ thread[f.conn] # None
DeletionInv == OwnInv /\ DisconnectInv /\ BehindInv /\ PassInv

NoDisconnectInPassing == "disconnectInPassing" \notin Calls

(***************************************************************************)
(* What is on a stack, as a set.                                            *)
(***************************************************************************)
LEMMA StackSets ==
  \A q \in Seq(FrameSet) :
    /\ \A f \in FrameSet : /\ Append(q, f) \in Seq(FrameSet) /\ Append(q, f) # <<>>
                           /\ Front(Append(q, f)) = q /\ Last(Append(q, f)) = f
                           /\ ToSet(Append(q, f)) = ToSet(q) \cup {f}
    /\ q # <<>> => /\ Front(q) \in Seq(FrameSet) /\ Last(q) \in FrameSet
                   /\ ToSet(q) = ToSet(Front(q)) \cup {Last(q)}
<1> SUFFICES ASSUME NEW q \in Seq(FrameSet)
             PROVE  /\ \A f \in FrameSet : /\ Append(q, f) \in Seq(FrameSet) /\ Append(q, f) # <<>>
                                           /\ Front(Append(q, f)) = q /\ Last(Append(q, f)) = f
                                           /\ ToSet(Append(q, f)) = ToSet(q) \cup {f}
                    /\ q # <<>> => /\ Front(q) \in Seq(FrameSet) /\ Last(q) \in FrameSet
                                   /\ ToSet(q) = ToSet(Front(q)) \cup {Last(q)}
  OBVIOUS
<1>1. ASSUME NEW f \in FrameSet
      PROVE  /\ Append(q, f) \in Seq(FrameSet) /\ Append(q, f) # <<>>
             /\ Front(Append(q, f)) = q /\ Last(Append(q, f)) = f
             /\ ToSet(Append(q, f)) = ToSet(q) \cup {f}
  <2>1. PICK r \in Seq(FrameSet) : r = Append(q, f)
    BY AppendFacts
  <2>2. /\ Len(r) = Len(q) + 1 /\ Len(q) \in Nat /\ r[Len(q) + 1] = f
        /\ \A i \in 1..Len(q) : r[i] = q[i]
    BY <2>1, AppendFacts
  <2>3. r # <<>> /\ DOMAIN r = 1..Len(r) /\ DOMAIN q = 1..Len(q)
    BY <2>2
  <2>4. PICK s \in Seq(FrameSet) : s = Front(r)
    BY <2>3, FrontFacts
  <2>5. Len(s) = Len(q) /\ \A i \in 1..Len(q) : s[i] = q[i]
    BY <2>2, <2>3, <2>4, FrontFacts
  <2>6. s = q
    BY <2>5
  <2>7. Last(r) = f
    BY <2>2, <2>3, FrontFacts
  <2>8. \A x : x \in ToSet(r) <=> x \in ToSet(q) \/ x = f
    <3>1. \A i \in 1..Len(r) : i \in 1..Len(q) \/ i = Len(q) + 1
      BY <2>2
    <3>2. Len(q) + 1 \in 1..Len(r) /\ \A i \in 1..Len(q) : i \in 1..Len(r)
      BY <2>2
    <3> QED BY <2>2, <2>3, <3>1, <3>2 DEF ToSet
  <2>9. ToSet(r) = ToSet(q) \cup {f}
    BY <2>8
  <2> QED BY <2>1, <2>3, <2>4, <2>6, <2>7, <2>9
<1>2. ASSUME q # <<>>
      PROVE  /\ Front(q) \in Seq(FrameSet) /\ Last(q) \in FrameSet
             /\ ToSet(q) = ToSet(Front(q)) \cup {Last(q)}
  <2>1. PICK s \in Seq(FrameSet) : s = Front(q)
    BY <1>2, FrontFacts
  <2>2. /\ Len(s) = Len(q) - 1 /\ Len(q) \in Nat \ {0} /\ Last(q) = q[Len(q)] /\ Last(q) \in FrameSet
        /\ \A i \in 1..(Len(q) - 1) : s[i] = q[i]
    BY <1>2, <2>1, FrontFacts
  <2>3. DOMAIN s = 1..Len(s) /\ DOMAIN q = 1..Len(q)
    BY <2>1
  <2>4. \A x : x \in ToSet(q) <=> x \in ToSet(s) \/ x = Last(q)
    <3>1. \A i \in 1..Len(q) : i \in 1..Len(s) \/ i = Len(q)
      BY <2>2
    <3>2. Len(q) \in 1..Len(q) /\ \A i \in 1..Len(s) : i \in 1..Len(q) /\ i \in 1..(Len(q) - 1)
      BY <2>2
    <3> QED BY <2>2, <2>3, <3>1, <3>2 DEF ToSet
  <2>5. ToSet(q) = ToSet(s) \cup {Last(q)}
    BY <2>4
  <2> QED BY <2>1, <2>2, <2>5
<1> QED BY <1>1, <1>2

\* A step of t takes the frames gone from its stack and puts the frames new on it; what
\* is below the top afterwards was below it, or is a frame others may lie on.
Lower(f) == f.op = "call" \/ (f.op = "emit" /\ f.pc = "calls")
Layered(s) == s # <<>> => \A f \in ToSet(Front(s)) : Lower(f)
Changes(t, old, new) ==
  /\ \A u \in Thread : u # t => stack'[u] = stack[u]
  /\ ToSet(stack'[t]) \subseteq ToSet(stack[t]) \cup new
  /\ ToSet(stack[t]) \subseteq ToSet(stack'[t]) \cup old
  /\ new \subseteq ToSet(stack'[t])
  /\ Layered(stack[t]) =>
       /\ Layered(stack'[t])
       /\ stack'[t] # <<>> => Lower(Last(stack'[t])) \/ Last(stack'[t]) \in new

LEMMA PushChanges ==
  ASSUME TypeInv, NEW t \in Thread, NEW f \in FrameSet, stack' = Pushed(t, f),
         stack[t] = <<>> \/ Lower(Top(t))
  PROVE  Changes(t, {}, {f})
<1>1. PICK q \in Seq(FrameSet) : q = stack[t]
  BY DEF TypeInv
<1>2. stack'[t] = Append(q, f) /\ \A u \in Thread : u # t => stack'[u] = stack[u]
  BY <1>1 DEF Pushed, TypeInv
<1>3. PICK r \in Seq(FrameSet) : r = stack'[t]
  BY <1>2, StackSets
<1>4. /\ r # <<>> /\ Front(r) = q /\ Last(r) = f /\ ToSet(r) = ToSet(q) \cup {f}
      /\ q # <<>> => ToSet(q) = ToSet(Front(q)) \cup {Last(q)}
  BY <1>2, <1>3, StackSets
<1>5. Layered(q) => Layered(r)
  <2>1. q = <<>> => ToSet(q) = {}
    BY DEF ToSet
  <2> QED BY <1>1, <1>4, <2>1 DEF Layered, Top
<1> QED BY <1>1, <1>2, <1>3, <1>4, <1>5 DEF Changes

LEMMA PopChanges ==
  ASSUME TypeInv, NEW t \in Thread, stack[t] # <<>>, stack' = Popped(t)
  PROVE  Changes(t, {Top(t)}, {})
<1>1. PICK q \in Seq(FrameSet) : q = stack[t]
  BY DEF TypeInv
<1>2. PICK r \in Seq(FrameSet) : r = Front(q) /\ ToSet(q) = ToSet(r) \cup {Last(q)}
  BY <1>1, StackSets
<1>3. stack'[t] = r /\ \A u \in Thread : u # t => stack'[u] = stack[u]
  BY <1>1, <1>2 DEF Popped, TypeInv
<1>4. r # <<>> => ToSet(r) = ToSet(Front(r)) \cup {Last(r)}
  BY StackSets
<1>5. Layered(q) => Layered(r) /\ (r # <<>> => Lower(Last(r)))
  BY <1>1, <1>2, <1>4 DEF Layered
<1> QED BY <1>1, <1>2, <1>3, <1>5 DEF Changes, Top

LEMMA ReplaceChanges ==
  ASSUME TypeInv, NEW t \in Thread, stack[t] # <<>>, NEW f \in FrameSet, stack' = Replaced(t, f)
  PROVE  Changes(t, {Top(t)}, {f})
<1>1. PICK q \in Seq(FrameSet) : q = stack[t]
  BY DEF TypeInv
<1>2. PICK s \in Seq(FrameSet) : s = Front(q) /\ ToSet(q) = ToSet(s) \cup {Last(q)}
  BY <1>1, StackSets
<1>3. PICK r \in Seq(FrameSet) : r = Append(s, f) /\ r # <<>> /\ Front(r) = s /\ Last(r) = f
                                 /\ ToSet(r) = ToSet(s) \cup {f}
  BY StackSets
<1>4. stack'[t] = r /\ \A u \in Thread : u # t => stack'[u] = stack[u]
  BY <1>1, <1>2, <1>3 DEF Replaced, TypeInv
<1>5. Layered(q) => Layered(r)
  BY <1>1, <1>2, <1>3 DEF Layered
<1> QED BY <1>1, <1>2, <1>3, <1>4, <1>5 DEF Changes, Top

LEMMA GoesNext ==
  ASSUME NEW e \in FrameSet, e.op = "emit"
  PROVE  \E g \in FrameSet : g = [e EXCEPT !.pc = "next"] /\ g.op = "emit" /\ g.pc = "next"
<1>1. [e EXCEPT !.pc = "next"] \in FrameSet
  BY DEF FrameSet, Pcs
<1>2. [e EXCEPT !.pc = "next"].op = "emit" /\ [e EXCEPT !.pc = "next"].pc = "next"
  BY DEF FrameSet
<1> QED BY <1>1, <1>2

\* The actions that change two frames.
LEMMA CallInPlaceChanges ==
  ASSUME IInv, NEW t \in Thread, CallInPlace(t)
  PROVE  \E g, h \in FrameSet :
           /\ stack[t] # <<>> /\ Top(t).op = "emit" /\ Top(t).pc = "read"
           /\ g.op = "emit" /\ g.pc = "calls" /\ g.conn = Top(t).conn
           /\ h.op = "call" /\ h.pc = "inPlace" /\ h.conn = Top(t).conn
           /\ Changes(t, {Top(t)}, {g, h}) /\ stack'[t] # <<>> /\ Last(stack'[t]) = h
<1>1. /\ stack[t] # <<>> /\ Top(t).op = "emit" /\ Top(t).pc = "read"
      /\ stack' = [stack EXCEPT ![t] =
           Append(Append(Front(@), [Top(t) EXCEPT !.pc = "calls"]), Called(t, Top(t), "inPlace"))]
  BY DEF CallInPlace, At, Top
<1>2. PICK q \in Seq(FrameSet) : q = stack[t] /\ q # <<>>
  BY <1>1 DEF IInv, TypeInv
<1>3. Top(t) \in FrameSet /\ Top(t) = Last(q)
  BY <1>1, <1>2, TopFacts DEF IInv, Top
<1>4. PICK g \in FrameSet : /\ g = [Top(t) EXCEPT !.pc = "calls"]
                            /\ g.op = "emit" /\ g.pc = "calls" /\ g.conn = Top(t).conn
  BY <1>1, <1>3 DEF FrameSet, Pcs
<1>5. PICK h \in FrameSet : /\ h = Called(t, Top(t), "inPlace")
                            /\ h.op = "call" /\ h.pc = "inPlace" /\ h.conn = Top(t).conn
  <2>1. Called(t, Top(t), "inPlace") \in FrameSet
    BY <1>3 DEF FrameSet, Pcs, Ops, Called, Frame
  <2>2. /\ Called(t, Top(t), "inPlace").op = "call" /\ Called(t, Top(t), "inPlace").pc = "inPlace"
        /\ Called(t, Top(t), "inPlace").conn = Top(t).conn
    BY DEF Called, Frame
  <2> QED BY <2>1, <2>2
<1>6. PICK s \in Seq(FrameSet) : s = Front(q) /\ ToSet(q) = ToSet(s) \cup {Last(q)}
  BY <1>2, StackSets
<1>7. PICK a \in Seq(FrameSet) : /\ a = Append(s, g) /\ a # <<>> /\ Front(a) = s /\ Last(a) = g
                                 /\ ToSet(a) = ToSet(s) \cup {g}
  BY StackSets
<1>8. PICK r \in Seq(FrameSet) : /\ r = Append(a, h) /\ r # <<>> /\ Front(r) = a /\ Last(r) = h
                                 /\ ToSet(r) = ToSet(a) \cup {h}
  BY StackSets
<1>9. stack'[t] = r /\ \A u \in Thread : u # t => stack'[u] = stack[u]
  BY <1>1, <1>2, <1>4, <1>5, <1>6, <1>7, <1>8 DEF IInv, TypeInv
<1>10. Layered(q) => Layered(r)
  BY <1>2, <1>4, <1>6, <1>7, <1>8 DEF Layered, Lower
<1>11. Changes(t, {Top(t)}, {g, h})
  BY <1>2, <1>3, <1>6, <1>7, <1>8, <1>9, <1>10 DEF Changes
<1> WITNESS g \in FrameSet, h \in FrameSet
<1> QED BY <1>1, <1>4, <1>5, <1>8, <1>9, <1>11

LEMMA ReturnInPlaceChanges ==
  ASSUME IInv, NEW t \in Thread, ReturnInPlace(t)
  PROVE  \E e, g \in FrameSet :
           /\ stack[t] # <<>> /\ Top(t).op = "call"
           /\ e \in ToSet(stack[t]) /\ e.op = "emit" /\ e.pc = "calls" /\ g.op = "emit" /\ g.pc = "next"
           /\ Changes(t, {Top(t), e}, {g})
<1>1. /\ stack[t] # <<>> /\ IsCall(Top(t), "inPlace") /\ Top(t).op = "call"
      /\ stack' = [stack EXCEPT ![t] =
           Append(Front(Front(stack[t])), [Last(Front(stack[t])) EXCEPT !.pc = "next"])]
  BY DEF ReturnInPlace, At, Top, IsCall
<1>2. PICK q \in Seq(FrameSet) : q = stack[t] /\ q # <<>> /\ Top(t) = Last(q)
  BY <1>1 DEF IInv, TypeInv, Top
<1>3. PICK s \in Seq(FrameSet) : s = Front(q) /\ ToSet(q) = ToSet(s) \cup {Last(q)}
  BY <1>2, StackSets
<1>4. s # <<>> /\ Last(s).op = "emit" /\ Last(s).pc = "calls"
  <2>1. PICK n \in DOMAIN q : n = Len(q) /\ n > 1 /\ q[n - 1].op = "emit" /\ q[n - 1].pc = "calls"
    BY <1>1, <1>2, TopFacts DEF IInv, HoldInv
  <2>2. Len(s) = Len(q) - 1 /\ Len(q) \in Nat /\ \A i \in 1..(Len(q) - 1) : s[i] = q[i]
    BY <1>2, <1>3, FrontFacts
  <2>3. Len(s) = n - 1 /\ n - 1 \in 1..(n - 1) /\ s # <<>>
    BY <2>1, <2>2
  <2>4. Last(s) = s[n - 1] /\ s[n - 1] = q[n - 1]
    BY <2>1, <2>2, <2>3 DEF Last
  <2> QED BY <2>1, <2>3, <2>4
<1>5. PICK b \in Seq(FrameSet) : b = Front(s) /\ ToSet(s) = ToSet(b) \cup {Last(s)}
  BY <1>4, StackSets
<1>6. PICK e \in FrameSet : e = Last(s)
  BY <1>4, StackSets
<1>7. PICK g \in FrameSet : g = [e EXCEPT !.pc = "next"] /\ g.op = "emit" /\ g.pc = "next"
  BY <1>4, <1>6, GoesNext
<1>8. PICK r \in Seq(FrameSet) : /\ r = Append(b, g) /\ r # <<>> /\ Front(r) = b /\ Last(r) = g
                                 /\ ToSet(r) = ToSet(b) \cup {g}
  BY StackSets
<1>9. stack'[t] = r /\ \A u \in Thread : u # t => stack'[u] = stack[u]
  BY <1>1, <1>2, <1>3, <1>5, <1>6, <1>7, <1>8 DEF IInv, TypeInv
<1>10. Layered(q) => Layered(r)
  BY <1>2, <1>3, <1>5, <1>8 DEF Layered
<1>11. Changes(t, {Top(t), e}, {g})
  BY <1>2, <1>3, <1>5, <1>6, <1>8, <1>9, <1>10 DEF Changes
<1> WITNESS e \in FrameSet, g \in FrameSet
<1> QED BY <1>1, <1>2, <1>3, <1>4, <1>5, <1>6, <1>7, <1>11

\* Two stacks: the call was all that t did, and the emission of u goes on.
SyncReturns(t, u, e, g) ==
  /\ u # t /\ stack'[t] = <<>>
  /\ stack[t] # <<>> /\ Top(t).op = "call" /\ ToSet(stack[t]) = {Top(t)}
  /\ \A v \in Thread : v # t /\ v # u => stack'[v] = stack[v]
  /\ e \in ToSet(stack[u]) /\ e.op = "emit" /\ e.pc = "waits" /\ g.op = "emit" /\ g.pc = "next"
  /\ ToSet(stack'[u]) \subseteq ToSet(stack[u]) \cup {g}
  /\ ToSet(stack[u]) \subseteq ToSet(stack'[u]) \cup {e} /\ g \in ToSet(stack'[u])
  /\ stack'[u] # <<>> /\ Last(stack'[u]) = g /\ (Layered(stack[u]) => Layered(stack'[u]))

LEMMA ReturnSyncChanges ==
  ASSUME IInv, NEW t \in Thread, ReturnSync(t)
  PROVE  \E u \in Thread, e, g \in FrameSet : SyncReturns(t, u, e, g)
<1>1. /\ stack[t] # <<>> /\ IsCall(Top(t), "sync")
      /\ stack' = [stack EXCEPT ![t] = Front(@), ![Top(t).peer] = Append(Front(@), [Last(@) EXCEPT !.pc = "next"])]
  BY DEF ReturnSync, At, Top, IsCall
<1>2. PICK q \in Seq(FrameSet) : q = stack[t] /\ q # <<>> /\ Top(t) = Last(q)
  BY <1>1 DEF IInv, TypeInv, Top
<1>3. Len(q) = 1 /\ q[1] = Top(t)
  <2>1. PICK i \in DOMAIN stack[t] : i = Len(stack[t]) /\ Top(t) = stack[t][i]
    BY <1>1, TopFacts DEF IInv
  <2>2. i = 1
    <3>1. IsCall(stack[t][i], "sync")
      BY <1>1, <2>1
    <3> QED BY <3>1 DEF IInv, HoldInv
  <2> QED BY <1>2, <2>1, <2>2
<1>4. Front(q) = <<>> /\ ToSet(q) = {Top(t)}
  <2>1. PICK s \in Seq(FrameSet) : s = Front(q) /\ Len(s) = Len(q) - 1
    BY <1>2, FrontFacts
  <2>2. s = <<>>
    BY <1>3, <2>1
  <2>3. ToSet(q) = ToSet(s) \cup {Last(q)}
    BY <1>2, <2>1, StackSets
  <2>4. ToSet(s) = {}
    BY <2>2 DEF ToSet
  <2> QED BY <1>2, <2>1, <2>2, <2>3, <2>4
<1>5. PICK u \in Thread : u = Top(t).peer /\ WaitsFor(u)
  BY <1>1, <1>2, <1>3 DEF IInv, SyncInv, SyncRuns, WaitsFor
<1>6. PICK p \in Seq(FrameSet) : p = stack[u] /\ p # <<>> /\ Last(p).op = "emit" /\ Last(p).pc = "waits"
  BY <1>5 DEF IInv, TypeInv, WaitsFor
<1>7. u # t
  BY <1>1, <1>2, <1>6 DEF IsCall
<1>8. PICK s \in Seq(FrameSet), e \in FrameSet : s = Front(p) /\ e = Last(p) /\ ToSet(p) = ToSet(s) \cup {e}
  BY <1>6, StackSets
<1>9. PICK g \in FrameSet : g = [e EXCEPT !.pc = "next"] /\ g.op = "emit" /\ g.pc = "next"
  BY <1>6, <1>8, GoesNext
<1>10. PICK r \in Seq(FrameSet) : /\ r = Append(s, g) /\ r # <<>> /\ Front(r) = s /\ Last(r) = g
                                  /\ ToSet(r) = ToSet(s) \cup {g}
  BY StackSets
<1>11. stack' = [stack EXCEPT ![t] = <<>>, ![u] = r]
  BY <1>1, <1>2, <1>4, <1>5, <1>6, <1>7, <1>8, <1>9, <1>10 DEF IInv, TypeInv
<1>12. stack'[t] = <<>> /\ stack'[u] = r /\ \A v \in Thread : v # t /\ v # u => stack'[v] = stack[v]
  BY <1>7, <1>11 DEF IInv, TypeInv
<1>13. Layered(p) => Layered(r)
  BY <1>6, <1>8, <1>10 DEF Layered
<1> WITNESS u \in Thread, e \in FrameSet, g \in FrameSet
<1> QED BY <1>1, <1>2, <1>4, <1>6, <1>7, <1>8, <1>9, <1>10, <1>12, <1>13 DEF SyncReturns, IsCall

(***************************************************************************)
(* The deletion stays behind.                                               *)
(***************************************************************************)
\* No thread starts to disconnect, nor to hand over a task.
Marks(f) == f.op = "disconnect" \/ Passes(f)
NoneLeaves ==
  \A t \in Thread : \A f \in ToSet(stack'[t]) : Marks(f) => f \in ToSet(stack[t])

USE DEF Marks, Passes

\* thread_ stays cleared.
OwnersKept ==
  /\ guarded' \in [Conn -> BOOLEAN]
  /\ \A c \in Conn : /\ life[c] # "none" => life'[c] # "none"
                     /\ life[c] # "none" /\ thread[c] = None => thread'[c] = None
                     /\ thread'[c] # None \/ guarded'[c] => thread[c] # None \/ guarded[c] \/ life'[c] # "none"

LEMMA ChangesLeaves ==
  ASSUME NEW t \in Thread, NEW old, NEW new, Changes(t, old, new), \A f \in new : ~Marks(f)
  PROVE  NoneLeaves
BY DEF Changes, NoneLeaves

LEMMA StackLeaves ==
  ASSUME TypeInv, NEW t \in Thread,
         \/ stack[t] # <<>> /\ stack' = Popped(t)
         \/ \E f \in FrameSet : ~Marks(f) /\ stack[t] # <<>> /\ stack' = Replaced(t, f)
         \/ \E f \in FrameSet : ~Marks(f) /\ (stack[t] = <<>> \/ Lower(Top(t))) /\ stack' = Pushed(t, f)
  PROVE  NoneLeaves
<1>1. CASE stack[t] # <<>> /\ stack' = Popped(t)
  <2>1. Changes(t, {Top(t)}, {})
    BY <1>1, PopChanges
  <2> QED BY <2>1, ChangesLeaves
<1>2. ASSUME NEW f \in FrameSet, ~Marks(f), stack[t] # <<>>, stack' = Replaced(t, f) PROVE NoneLeaves
  <2>1. Changes(t, {Top(t)}, {f})
    BY <1>2, ReplaceChanges
  <2> QED BY <1>2, <2>1, ChangesLeaves
<1>3. ASSUME NEW f \in FrameSet, ~Marks(f), stack[t] = <<>> \/ Lower(Top(t)), stack' = Pushed(t, f)
      PROVE  NoneLeaves
  <2>1. Changes(t, {}, {f})
    BY <1>3, PushChanges
  <2> QED BY <1>3, <2>1, ChangesLeaves
<1> QED BY <1>1, <1>2, <1>3

LEMMA OwnersSame ==
  ASSUME DeletionInv, UNCHANGED <<thread, guarded>>, \A c \in Conn : life[c] # "none" => life'[c] # "none"
  PROVE  OwnersKept
BY DEF DeletionInv, OwnInv, OwnersKept

LEMMA DeletionKept ==
  ASSUME DeletionInv, OwnersKept, NoneLeaves, UNCHANGED tasks,
         \A c \in Conn : thread[c] # None => thread'[c] # None
  PROVE  DeletionInv'
<1>1. OwnInv'
  BY DEF DeletionInv, OwnInv, OwnersKept
<1>2. DisconnectInv'
  <2> SUFFICES ASSUME NEW t \in Thread, NEW f \in ToSet(stack'[t]), f.op = "disconnect"
               PROVE  Leaves(f.conn, f.peer)'
    BY DEF DisconnectInv
  <2>1. Leaves(f.conn, f.peer)
    BY DEF DeletionInv, DisconnectInv, NoneLeaves
  <2> QED BY <2>1 DEF Leaves, OwnersKept, Posted
<1>3. BehindInv'
  <2> SUFFICES ASSUME NEW t \in Thread, NEW k \in DOMAIN tasks[t], DeleteTask(t, k) PROVE Behind(t, k)'
    BY DEF BehindInv, DeleteTask
  <2>1. Behind(t, k)
    BY DEF DeletionInv, BehindInv
  <2> QED BY <2>1 DEF Behind, OwnersKept, Posted
<1>4. PassInv'
  BY DEF DeletionInv, PassInv, NoneLeaves
<1> QED BY <1>1, <1>2, <1>3, <1>4 DEF DeletionInv

\* The actions that leave the queues alone.
LEMMA QueuesAlone ==
  ASSUME IInv, DeletionInv, NEW t \in Thread,
         \/ Emit(t) \/ Destroy(t) \/ Finish(t) \/ EmitLocks(t) \/ EmitNext(t) \/ EmitEnds(t) \/ CallInPlace(t)
         \/ ReturnQueued(t) \/ ReturnInPlace(t) \/ ReturnSync(t) \/ Release(t) \/ Unlist(t)
         \/ DestroyLocks(t) \/ DestroyNext(t) \/ DestroyConnection(t) \/ DestroyEnds(t)
  PROVE  DeletionInv'
<1>0. TypeInv /\ \A c \in Conn : life[c] \in Lives
  BY DEF IInv, TypeInv
<1>1. ASSUME UNCHANGED <<tasks, life, thread, guarded>>, NoneLeaves PROVE DeletionInv'
  BY <1>1, OwnersSame, DeletionKept
<1>2. CASE Emit(t)
  <2> DEFINE f == Frame("emit", "lock", 0, 0, None)
  <2>1. /\ stack' = Pushed(t, f) /\ UNCHANGED <<tasks, life, thread, guarded>>
        /\ stack[t] = <<>> \/ Top(t).op = "call"
    BY <1>2 DEF Emit, UserRuns, connVars
  <2>2. f \in FrameSet /\ f.op = "emit" /\ f.pc = "lock"
    BY DEF Frame, FrameSet, Ops, Pcs
  <2>3. Changes(t, {}, {f})
    BY <1>0, <2>1, <2>2, PushChanges DEF Lower
  <2> QED BY <1>1, <2>1, <2>2, <2>3, ChangesLeaves
<1>3. CASE Destroy(t)
  <2> DEFINE f == Frame("destroy", "lock", 0, 0, None)
  <2>1. /\ stack' = Pushed(t, f) /\ UNCHANGED <<tasks, life, thread, guarded>>
        /\ stack[t] = <<>> \/ Top(t).op = "call"
    BY <1>3 DEF Destroy, UserRuns, connVars
  <2>2. f \in FrameSet /\ f.op = "destroy"
    BY DEF Frame, FrameSet, Ops, Pcs
  <2>3. Changes(t, {}, {f})
    BY <1>0, <2>1, <2>2, PushChanges DEF Lower
  <2> QED BY <1>1, <2>1, <2>2, <2>3, ChangesLeaves
<1>4. CASE Finish(t)
  BY <1>1, <1>4 DEF Finish, connVars, NoneLeaves
<1>5. CASE EmitLocks(t) \/ EmitNext(t) \/ EmitEnds(t)
  <2>1. /\ stack[t] # <<>> /\ Top(t).op = "emit" /\ UNCHANGED <<tasks, life, thread, guarded>>
        /\ \/ stack' = Popped(t)
           \/ stack' = Replaced(t, Frame("emit", "next", 0, Len(emitted) + 1, None))
           \/ \E c \in list, x \in {"next", "read"} : stack' = Replaced(t, [Top(t) EXCEPT !.conn = c, !.pc = x])
    BY <1>5 DEF EmitLocks, EmitNext, EmitEnds, At, Top, connVars, Following, Later
  <2>2. CASE stack' = Popped(t)
    <3>0. NoneLeaves
      BY <1>0, <1>1, <2>1, <2>2, StackLeaves
    <3> QED BY <1>0, <1>1, <2>1, <2>2, <3>0
  <2>3. CASE stack' = Replaced(t, Frame("emit", "next", 0, Len(emitted) + 1, None))
    <3>1. PICK f \in FrameSet : f = Frame("emit", "next", 0, Len(emitted) + 1, None) /\ f.op = "emit" /\ f.pc = "next"
      <4>1. Len(emitted) + 1 \in Nat
        BY <1>0 DEF TypeInv
      <4>2. Frame("emit", "next", 0, Len(emitted) + 1, None) \in FrameSet
        BY <4>1 DEF Frame, FrameSet, Ops, Pcs
      <4> QED BY <4>2 DEF Frame
    <3>0. NoneLeaves
      BY <1>0, <1>1, <2>1, <2>3, <3>1, StackLeaves
    <3> QED BY <1>0, <1>1, <2>1, <2>3, <3>1, <3>0
  <2>4. ASSUME NEW c \in list, NEW x \in {"next", "read"}, stack' = Replaced(t, [Top(t) EXCEPT !.conn = c, !.pc = x])
        PROVE  DeletionInv'
    <3>1. PICK f \in FrameSet : f = [Top(t) EXCEPT !.conn = c, !.pc = x] /\ f.op = "emit" /\ f.pc = x
      <4>1. Top(t) \in FrameSet /\ c \in Conn
        BY <1>0, <2>1, TopFacts DEF TypeInv
      <4>2. /\ [Top(t) EXCEPT !.conn = c, !.pc = x] \in FrameSet /\ [Top(t) EXCEPT !.conn = c, !.pc = x].op = "emit"
            /\ [Top(t) EXCEPT !.conn = c, !.pc = x].pc = x
        BY <2>1, <4>1 DEF FrameSet, Pcs
      <4> QED BY <4>2
    <3>0. NoneLeaves
      BY <1>0, <1>1, <2>1, <2>4, <3>1, StackLeaves
    <3> QED BY <1>0, <1>1, <2>1, <2>4, <3>1, <3>0
  <2> QED BY <2>1, <2>2, <2>3, <2>4
<1>6. CASE CallInPlace(t)
  <2>1. PICK g, h \in FrameSet : g.op = "emit" /\ g.pc = "calls" /\ h.op = "call" /\ Changes(t, {Top(t)}, {g, h})
    BY <1>6, CallInPlaceChanges
  <2>2. NoneLeaves
    BY <2>1, ChangesLeaves
  <2> QED BY <1>1, <1>6, <2>2 DEF CallInPlace, connVars
<1>7. CASE ReturnInPlace(t)
  <2>1. PICK e, g \in FrameSet : g.op = "emit" /\ g.pc = "next" /\ Changes(t, {Top(t), e}, {g})
    BY <1>7, ReturnInPlaceChanges
  <2>2. NoneLeaves
    BY <2>1, ChangesLeaves
  <2> QED BY <1>1, <1>7, <2>2 DEF ReturnInPlace, connVars
<1>8. CASE ReturnSync(t)
  <2>1. PICK u \in Thread, e \in FrameSet, g \in FrameSet : SyncReturns(t, u, e, g)
    BY <1>8, ReturnSyncChanges
  <2>2. NoneLeaves
    BY <2>1 DEF SyncReturns, NoneLeaves, ToSet
  <2> QED BY <1>1, <1>8, <2>2 DEF ReturnSync, connVars
<1>9. CASE ReturnQueued(t)
  <2>1. stack[t] # <<>> /\ stack' = Popped(t) /\ UNCHANGED <<tasks, life, thread, guarded>>
    BY <1>9 DEF ReturnQueued, At, connVars
  <2>0. NoneLeaves
    BY <1>0, <1>1, <2>1, StackLeaves
  <2> QED BY <1>0, <1>1, <2>1, <2>0
<1>10. CASE Release(t) \/ Unlist(t) \/ DestroyConnection(t)
  <2>1. /\ stack[t] # <<>> /\ Top(t).op \in {"delete", "destroy"} /\ UNCHANGED <<tasks, thread>>
        /\ \/ stack' = Popped(t)
           \/ \E x \in {"lock", "next"} : stack' = Replaced(t, [Top(t) EXCEPT !.pc = x])
        /\ \A c \in Conn : life'[c] # "none" \/ life'[c] = life[c]
        /\ guarded' = guarded \/ guarded' = [guarded EXCEPT ![Top(t).conn] = FALSE]
    BY <1>0, <1>10 DEF Release, Unlist, DestroyConnection, At, Top, Goes, TypeInv
  <2>2. OwnersKept
    BY <2>1 DEF OwnersKept, DeletionInv, OwnInv
  <2>3. CASE stack' = Popped(t)
    <3>0. NoneLeaves
      BY <1>0, <2>1, <2>2, <2>3, StackLeaves
    <3> QED BY <1>0, <2>1, <2>2, <2>3, <3>0, DeletionKept
  <2>4. ASSUME NEW x \in {"lock", "next"}, stack' = Replaced(t, [Top(t) EXCEPT !.pc = x]) PROVE DeletionInv'
    <3>1. PICK f \in FrameSet : f = [Top(t) EXCEPT !.pc = x] /\ f.op \in {"delete", "destroy"}
      <4>1. Top(t) \in FrameSet
        BY <1>0, <2>1, TopFacts
      <4>2. [Top(t) EXCEPT !.pc = x] \in FrameSet /\ [Top(t) EXCEPT !.pc = x].op \in {"delete", "destroy"}
        BY <2>1, <4>1 DEF FrameSet, Pcs
      <4> QED BY <4>2
    <3>0. NoneLeaves
      BY <1>0, <2>1, <2>2, <2>4, <3>1, StackLeaves
    <3> QED BY <1>0, <2>1, <2>2, <2>4, <3>1, <3>0, DeletionKept
  <2> QED BY <2>1, <2>3, <2>4
<1>11. CASE DestroyLocks(t) \/ DestroyNext(t) \/ DestroyEnds(t)
  <2>1. /\ stack[t] # <<>> /\ Top(t).op = "destroy" /\ UNCHANGED <<tasks, life, thread, guarded>>
        /\ \/ stack' = Popped(t)
           \/ stack' = Replaced(t, [Top(t) EXCEPT !.pc = "next"])
           \/ \E c \in list, x \in {"next", "read"} : stack' = Replaced(t, [Top(t) EXCEPT !.conn = c, !.pc = x])
    BY <1>11 DEF DestroyLocks, DestroyNext, DestroyEnds, At, Top, Goes, connVars, Following, Later
  <2>2. Top(t) \in FrameSet
    BY <1>0, <2>1, TopFacts
  <2>3. CASE stack' = Popped(t)
    <3>0. NoneLeaves
      BY <1>0, <1>1, <2>1, <2>3, StackLeaves
    <3> QED BY <1>0, <1>1, <2>1, <2>3, <3>0
  <2>4. CASE stack' = Replaced(t, [Top(t) EXCEPT !.pc = "next"])
    <3>1. [Top(t) EXCEPT !.pc = "next"] \in FrameSet /\ [Top(t) EXCEPT !.pc = "next"].op \in {"delete", "destroy"}
      BY <2>1, <2>2 DEF FrameSet, Pcs
    <3>2. PICK f \in FrameSet : f = [Top(t) EXCEPT !.pc = "next"] /\ f.op \in {"delete", "destroy"}
      BY <3>1
    <3>0. NoneLeaves
      BY <1>0, <1>1, <2>1, <2>4, <3>2, StackLeaves
    <3> QED BY <1>0, <1>1, <2>1, <2>4, <3>2, <3>0
  <2>5. ASSUME NEW c \in list, NEW x \in {"next", "read"}, stack' = Replaced(t, [Top(t) EXCEPT !.conn = c, !.pc = x])
        PROVE  DeletionInv'
    <3>1. /\ [Top(t) EXCEPT !.conn = c, !.pc = x] \in FrameSet
          /\ [Top(t) EXCEPT !.conn = c, !.pc = x].op \in {"delete", "destroy"}
      BY <1>0, <2>1, <2>2 DEF FrameSet, Pcs, TypeInv
    <3>2. PICK f \in FrameSet : f = [Top(t) EXCEPT !.conn = c, !.pc = x] /\ f.op \in {"delete", "destroy"}
      BY <3>1
    <3>0. NoneLeaves
      BY <1>0, <1>1, <2>1, <2>5, <3>2, StackLeaves
    <3> QED BY <1>0, <1>1, <2>1, <2>5, <3>2, <3>0
  <2> QED BY <2>1, <2>3, <2>4, <2>5
<1> QED BY <1>2, <1>3, <1>4, <1>5, <1>6, <1>7, <1>8, <1>9, <1>10, <1>11

\* The calls posted for a connection are those that were posted before.
LEMMA LeavesKept ==
  ASSUME OwnersKept, NEW c, NEW p, Leaves(c, p),
         \A u \in Thread : \A k \in DOMAIN tasks'[u] :
           tasks'[u][k].op = "call" /\ tasks'[u][k].conn = c => \E i \in DOMAIN tasks[u] : tasks'[u][k] = tasks[u][i]
  PROVE  Leaves(c, p)'
<1>1. c \in Conn /\ p \in Thread /\ thread'[c] = None /\ life'[c] # "none"
  BY DEF Leaves, OwnersKept
<1>2. ASSUME NEW u \in Thread, NEW k \in DOMAIN tasks'[u], tasks'[u][k].op = "call", tasks'[u][k].conn = c
      PROVE  u = p
  BY <1>2 DEF Leaves, Posted
<1> QED BY <1>1, <1>2 DEF Leaves, Posted

LEMMA OwnersStay ==
  ASSUME DeletionInv, UNCHANGED <<thread, guarded, life>>
  PROVE  OwnersKept
BY OwnersSame

LEMMA RunDeletion ==
  ASSUME IInv, DeletionInv, NEW t \in Thread, Run(t)
  PROVE  DeletionInv'
<1>0. TypeInv
  BY DEF IInv
<1>1. /\ stack[t] = <<>> /\ tasks[t] # <<>> /\ stack' = Pushed(t, Head(tasks[t]))
      /\ tasks' = [tasks EXCEPT ![t] = Tail(@)] /\ UNCHANGED <<life, thread, guarded>>
  BY DEF Run, connVars
<1>2. \A u \in Thread : \A k \in DOMAIN tasks'[u] :
        \E i \in DOMAIN tasks[u] :
          /\ tasks'[u][k] = tasks[u][i] /\ (u = t => i = k + 1 /\ i > 1)
          /\ (u # t => i = k) /\ k \in Nat /\ i \in Nat
  BY <1>0, <1>1, RunFacts
<1>3. PICK f \in FrameSet : f = Head(tasks[t]) /\ f.op \in {"call", "delete"}
  <2>1. tasks[t][1] \in TaskSet /\ tasks[t][1] \in FrameSet
    BY <1>0, <1>1, RunFacts
  <2>2. tasks[t][1] = Head(tasks[t])
    BY <1>0, <1>1 DEF TypeInv
  <2> QED BY <2>1, <2>2 DEF TaskSet
<1>4. Changes(t, {}, {f})
  BY <1>0, <1>1, <1>3, PushChanges
<1>10. NoneLeaves
  <2>1. \A h \in {f} : ~Marks(h)
    BY <1>3
  <2> QED BY <1>4, <2>1, ChangesLeaves
<1>5. NoneLeaves /\ OwnersKept
  BY <1>1, <1>10, OwnersStay
<1>6. OwnInv'
  BY <1>5 DEF DeletionInv, OwnInv, OwnersKept
<1>7. DisconnectInv'
  <2> SUFFICES ASSUME NEW u \in Thread, NEW g \in ToSet(stack'[u]), g.op = "disconnect"
               PROVE  Leaves(g.conn, g.peer)'
    BY DEF DisconnectInv
  <2>1. Leaves(g.conn, g.peer)
    BY <1>5 DEF DeletionInv, DisconnectInv, NoneLeaves
  <2> QED BY <1>2, <1>5, <2>1, LeavesKept
<1>8. BehindInv'
  <2> SUFFICES ASSUME NEW u \in Thread, NEW k \in DOMAIN tasks'[u], tasks'[u][k].op = "delete" PROVE Behind(u, k)'
    BY DEF BehindInv, DeleteTask
  <2>1. PICK i \in DOMAIN tasks[u] : /\ tasks'[u][k] = tasks[u][i] /\ (u = t => i = k + 1 /\ i > 1)
                                     /\ (u # t => i = k) /\ k \in Nat /\ i \in Nat
    BY <1>2
  <2>2. Behind(u, i)
    BY <2>1 DEF DeletionInv, BehindInv, DeleteTask
  <2>3. ASSUME NEW v \in Thread, NEW j \in DOMAIN tasks'[v], tasks'[v][j].op = "call",
               tasks'[v][j].conn = tasks[u][i].conn
        PROVE  v = u /\ j < k
    <3>1. PICK l \in DOMAIN tasks[v] : /\ tasks'[v][j] = tasks[v][l] /\ (v = t => l = j + 1 /\ l > 1)
                                       /\ (v # t => l = j) /\ j \in Nat /\ l \in Nat
      BY <1>2
    <3>2. v = u /\ l < i
      BY <2>2, <2>3, <3>1 DEF Behind, Posted
    <3> QED BY <2>1, <3>1, <3>2
  <2> QED BY <1>1, <2>1, <2>2, <2>3 DEF Behind, Posted
<1>9. PassInv'
  BY <1>1, <1>5 DEF DeletionInv, PassInv, NoneLeaves
<1> QED BY <1>6, <1>7, <1>8, <1>9 DEF DeletionInv

\* thread_ is read for the last time: the connection has its thread.
LEMMA PrepareDeletion ==
  ASSUME IInv, DeletionInv, NEW t \in Thread, Prepare(t)
  PROVE  DeletionInv'
<1> DEFINE c == Top(t).conn
<1>1. /\ stack[t] # <<>> /\ Top(t).op = "emit" /\ Top(t).pc = "read" /\ thread[c] # None
      /\ stack' = Replaced(t, [Top(t) EXCEPT !.pc = "post", !.peer = thread[c]])
      /\ UNCHANGED <<tasks, life, thread, guarded>>
  BY DEF Prepare, At, Top, connVars
<1>2. Top(t) \in FrameSet /\ c \in Conn /\ TypeInv
  BY <1>1, TopFacts, EmitterFacts DEF IInv, Emits
<1>3. thread[c] \in Thread
  BY <1>1, <1>2 DEF TypeInv
<1>4. PICK f \in FrameSet : f = [Top(t) EXCEPT !.pc = "post", !.peer = thread[c]] /\ f.op = "emit" /\ f.conn = c
  <2>1. [Top(t) EXCEPT !.pc = "post", !.peer = thread[c]] \in FrameSet
    BY <1>2, <1>3 DEF FrameSet, Pcs
  <2> QED BY <1>1, <1>2, <2>1 DEF FrameSet
<1>5. Changes(t, {Top(t)}, {f})
  BY <1>1, <1>2, <1>4, ReplaceChanges
<1>6. OwnInv' /\ BehindInv'
  BY <1>1 DEF DeletionInv, OwnInv, BehindInv, DeleteTask, Behind, Posted
<1>7. DisconnectInv'
  <2> SUFFICES ASSUME NEW u \in Thread, NEW g \in ToSet(stack'[u]), g.op = "disconnect"
               PROVE  Leaves(g.conn, g.peer)'
    BY DEF DisconnectInv
  <2>1. Leaves(g.conn, g.peer)
    BY <1>4, <1>5 DEF DeletionInv, DisconnectInv, Changes
  <2> QED BY <1>1, <2>1 DEF Leaves, Posted
<1>8. PassInv'
  <2> SUFFICES ASSUME NEW u \in Thread, NEW g \in ToSet(stack'[u]), Passes(g)
               PROVE  g.conn \in Conn /\ thread[g.conn] # None
    BY <1>1 DEF PassInv
  <2>1. g \in ToSet(stack[u]) \/ g = f
    BY <1>5 DEF Changes
  <2>2. f.conn \in Conn /\ thread[f.conn] # None
    BY <1>1, <1>2, <1>4
  <2> QED BY <2>1, <2>2 DEF DeletionInv, PassInv
<1> QED BY <1>6, <1>7, <1>8 DEF DeletionInv

LEMMA HandedFacts ==
  ASSUME IInv, NEW t \in Thread, stack[t] # <<>>, Top(t).op = "emit", NEW x \in {"next", "waits"},
         stack' = Handed(t, x)
  PROVE  \E f \in FrameSet :
           /\ f.op = "emit" /\ f.pc = x /\ f.conn = Top(t).conn /\ f.n = Top(t).n /\ f.peer = None
           /\ f = [Top(t) EXCEPT !.pc = x, !.peer = None] /\ stack' = Replaced(t, f)
<1>1. Top(t) \in FrameSet
  BY TopFacts DEF IInv
<1>2. [Top(t) EXCEPT !.pc = x, !.peer = None] \in FrameSet
  BY <1>1 DEF FrameSet, Pcs
<1> QED BY <1>1, <1>2 DEF Handed, FrameSet

\* What is posted is not for a connection that is deleted.
LEMMA PostsDeletion ==
  ASSUME IInv, DeletionInv, NEW t \in Thread, NEW g, NEW x, PostsCall(t, g, x), UNCHANGED guarded
  PROVE  DeletionInv'
<1>0. TypeInv
  BY DEF IInv
<1>1. /\ stack[t] # <<>> /\ Top(t).op = "emit" /\ x \in {"next", "waits"}
      /\ Top(t).pc = "post" /\ g.op = "call" /\ g.conn = Top(t).conn
      /\ stack' = Handed(t, x) /\ UNCHANGED <<life, thread, guarded>>
  BY DEF PostsCall
<1>8. thread[Top(t).conn] # None
  <2>1. Top(t) \in ToSet(stack[t])
    BY <1>0, <1>1, TopFacts DEF ToSet
  <2> QED BY <1>1, <2>1 DEF DeletionInv, PassInv
<1>9. PICK p \in Thread, n \in Nat : p = Top(t).peer /\ n = Len(tasks[p]) + 1
  BY PostsWhere
<1>2. \A u \in Thread : \A k \in DOMAIN tasks'[u] :
        \/ k \in DOMAIN tasks[u] /\ tasks'[u][k] = tasks[u][k] /\ k \in Nat /\ (u = p => k < n)
        \/ u = p /\ k = n /\ tasks'[u][k] = g
  BY <1>9, PostsTasks
<1>3. NoneLeaves /\ OwnersKept
  <2>3. x \in {"next", "waits"}
    BY <1>1
  <2>4. \E f \in FrameSet :
          /\ f.op = "emit" /\ f.pc = x /\ f.conn = Top(t).conn /\ f.n = Top(t).n /\ f.peer = None
          /\ f = [Top(t) EXCEPT !.pc = x, !.peer = None] /\ stack' = Replaced(t, f)
    BY <1>1, <2>3, HandedFacts
  <2>1. PICK f \in FrameSet : f.op = "emit" /\ f.pc = x /\ stack' = Replaced(t, f)
    BY <2>4
  <2>2. NoneLeaves
    BY <1>0, <1>1, <2>1, StackLeaves
  <2> QED BY <1>1, <2>2, OwnersStay
<1>4. OwnInv'
  BY <1>3 DEF DeletionInv, OwnInv, OwnersKept
<1>5. DisconnectInv'
  <2> SUFFICES ASSUME NEW u \in Thread, NEW f \in ToSet(stack'[u]), f.op = "disconnect"
               PROVE  Leaves(f.conn, f.peer)'
    BY DEF DisconnectInv
  <2>1. Leaves(f.conn, f.peer)
    BY <1>3 DEF DeletionInv, DisconnectInv, NoneLeaves
  <2>2. f.conn # Top(t).conn
    BY <1>8, <2>1 DEF Leaves
  <2>3. \A v \in Thread : \A k \in DOMAIN tasks'[v] :
          tasks'[v][k].op = "call" /\ tasks'[v][k].conn = f.conn => \E i \in DOMAIN tasks[v] : tasks'[v][k] = tasks[v][i]
    BY <1>1, <1>2, <2>2
  <2> QED BY <1>3, <2>1, <2>3, LeavesKept
<1>6. BehindInv'
  <2> SUFFICES ASSUME NEW u \in Thread, NEW k \in DOMAIN tasks'[u], tasks'[u][k].op = "delete" PROVE Behind(u, k)'
    BY DEF BehindInv, DeleteTask
  <2>1. k \in DOMAIN tasks[u] /\ tasks'[u][k] = tasks[u][k]
    BY <1>1, <1>2
  <2>2. Behind(u, k)
    BY <2>1 DEF DeletionInv, BehindInv, DeleteTask
  <2>3. tasks[u][k].conn # Top(t).conn
    BY <1>8, <2>2 DEF Behind
  <2>4. ASSUME NEW v \in Thread, NEW j \in DOMAIN tasks'[v], tasks'[v][j].op = "call",
               tasks'[v][j].conn = tasks[u][k].conn
        PROVE  v = u /\ j < k
    <3>1. j \in DOMAIN tasks[v] /\ tasks'[v][j] = tasks[v][j]
      BY <1>1, <1>2, <2>3, <2>4
    <3> QED BY <2>2, <2>4, <3>1 DEF Behind, Posted
  <2> QED BY <1>1, <2>1, <2>2, <2>4 DEF Behind, Posted
<1>7. PassInv'
  BY <1>1, <1>3 DEF DeletionInv, PassInv, NoneLeaves
<1> QED BY <1>4, <1>5, <1>6, <1>7 DEF DeletionInv

LEMMA RefusedDeletion ==
  ASSUME IInv, DeletionInv, NEW t \in Thread, stack[t] # <<>>, Top(t).op = "emit",
         stack' = Handed(t, "next"), UNCHANGED <<tasks, life, thread, guarded>>
  PROVE  DeletionInv'
<1>1. PICK f \in FrameSet : f.op = "emit" /\ f.pc = "next" /\ stack' = Replaced(t, f)
  BY HandedFacts
<1>2. NoneLeaves
  BY <1>1, StackLeaves DEF IInv
<1> QED BY <1>2, OwnersStay, DeletionKept

LEMMA PostPosts ==
  ASSUME IInv, NEW t \in Thread, Post(t), UNCHANGED tasks => FALSE
  PROVE  \E g : PostsCall(t, g, "next") /\ g.pc = "queued"
<1> DEFINE c == Top(t).conn
           p == Top(t).peer
           g == Frame("call", "queued", c, Top(t).n, None)
<1>1. /\ stack[t] # <<>> /\ Top(t).op = "emit" /\ Top(t).pc = "post"
      /\ type[c] # "Sync" /\ stack' = Handed(t, "next")
      /\ tasks' = [tasks EXCEPT ![p] = Append(tasks[p], g)]
      /\ UNCHANGED <<mutex, list, life, thread, type, emitted, called>>
  BY DEF Post, Posts, At, Top, connectorVars, connVars, history
<1>2. Top(t) \in FrameSet /\ c \in Conn /\ p \in Thread /\ Ready(t, c, p)
  BY <1>1, ReadyFacts
<1>3. g \in TaskSet /\ g.op = "call" /\ g.conn = c /\ g.n = Top(t).n /\ g.pc = "queued"
  BY <1>2 DEF Frame, FrameSet, TaskSet, Ops, Pcs
<1>4. type[c] \in {"Auto", "Queued"}
  BY <1>1, <1>2 DEF IInv, TypeInv, Ready, AllTypes
<1> QED BY <1>1, <1>2, <1>3, <1>4 DEF PostsCall

LEMMA PostSyncPosts ==
  ASSUME IInv, NEW t \in Thread, PostSync(t), UNCHANGED tasks => FALSE
  PROVE  \E g : PostsCall(t, g, "waits") /\ g.pc = "sync"
<1> DEFINE c == Top(t).conn
           p == Top(t).peer
           g == Frame("call", "sync", c, Top(t).n, t)
<1>1. /\ stack[t] # <<>> /\ Top(t).op = "emit" /\ Top(t).pc = "post" /\ type[c] = "Sync"
      /\ tasks' = [tasks EXCEPT ![p] = Append(tasks[p], g)]
      /\ stack' = Handed(t, "waits")
      /\ UNCHANGED <<mutex, list, life, thread, type, emitted, called>>
  BY DEF PostSync, Posts, At, Top, connectorVars, connVars, history
<1>2. Top(t) \in FrameSet /\ c \in Conn /\ p \in Thread
  BY <1>1, ReadyFacts
<1>3. g \in TaskSet /\ g.op = "call" /\ g.conn = c /\ g.n = Top(t).n /\ g.pc = "sync" /\ g.peer = t
  BY <1>2 DEF Frame, FrameSet, TaskSet, Ops, Pcs
<1> QED BY <1>1, <1>2, <1>3 DEF PostsCall

LEMMA PostDeletion ==
  ASSUME IInv, DeletionInv, NEW t \in Thread, Post(t) \/ PostSync(t)
  PROVE  DeletionInv'
<1>1. UNCHANGED <<life, thread, guarded>> /\ stack[t] # <<>> /\ Top(t).op = "emit"
  BY DEF Post, PostSync, At, Top, connVars
<1>2. CASE UNCHANGED tasks
  <2>1. CASE stack' = Handed(t, "next")
    BY <1>1, <1>2, <2>1, RefusedDeletion
  <2>2. CASE stack' = Handed(t, "waits")
    <3>1. PICK f \in FrameSet : f.op = "emit" /\ f.pc = "waits" /\ stack' = Replaced(t, f)
      BY <1>1, <2>2, HandedFacts
    <3>2. NoneLeaves
      BY <1>1, <3>1, StackLeaves DEF IInv
    <3> QED BY <1>1, <1>2, <3>2, OwnersStay, DeletionKept
  <2> QED BY <2>1, <2>2 DEF Post, PostSync
<1>3. CASE ~UNCHANGED tasks
  <2>1. \E g, x : PostsCall(t, g, x)
    BY <1>3, PostPosts, PostSyncPosts
  <2> QED BY <1>1, <2>1, PostsDeletion
<1> QED BY <1>2, <1>3

\* connect() gives a thread to a connection that was not there.
LEMMA ConnectDeletion ==
  ASSUME IInv, DeletionInv, NEW t \in Thread, NEW c \in Conn, NEW ty \in Types, Connect(t, c, ty)
  PROVE  DeletionInv'
<1>1. /\ life[c] = "none" /\ life' = [life EXCEPT ![c] = "made"] /\ thread' = [thread EXCEPT ![c] = t]
      /\ guarded' = [guarded EXCEPT ![c] = TRUE] /\ UNCHANGED <<stack, tasks>>
  BY DEF Connect, threadVars
<1>2. NoneLeaves
  BY <1>1 DEF NoneLeaves
<1>3. OwnersKept
  <2>1. \A d \in Conn : d # c => life'[d] = life[d] /\ thread'[d] = thread[d] /\ guarded'[d] = guarded[d]
    BY <1>1 DEF IInv, TypeInv, DeletionInv, OwnInv
  <2>2. life'[c] = "made" /\ guarded' \in [Conn -> BOOLEAN]
    BY <1>1 DEF IInv, TypeInv, DeletionInv, OwnInv
  <2> QED BY <1>1, <2>1, <2>2 DEF OwnersKept
<1>4. \A d \in Conn : thread[d] # None => thread'[d] # None
  BY <1>1 DEF IInv, TypeInv, ConnectorAssumption
<1> QED BY <1>1, <1>2, <1>3, <1>4, DeletionKept

\* The guard clears thread_: what was posted until then is in the thread it was.
LEMMA DestroyGuardDeletion ==
  ASSUME NoDisconnectInPassing, IInv, DeletionInv, NEW t \in Thread, NEW c \in Conn, DestroyGuard(t, c)
  PROVE  DeletionInv'
<1>1. /\ guarded[c] /\ thread[c] # None /\ (stack[t] = <<>> \/ Top(t).op = "call")
      /\ stack' = Pushed(t, Frame("disconnect", "decide", c, 0, thread[c]))
      /\ thread' = [thread EXCEPT ![c] = None] /\ guarded' = [guarded EXCEPT ![c] = FALSE]
      /\ UNCHANGED <<tasks, life>>
  BY DEF DestroyGuard, UserRuns
<1>2. PICK p \in Thread : p = thread[c]
  BY <1>1 DEF IInv, TypeInv
<1>3. PICK f \in FrameSet : /\ f = Frame("disconnect", "decide", c, 0, p)
                            /\ f.op = "disconnect" /\ f.conn = c /\ f.peer = p
  <2>1. Frame("disconnect", "decide", c, 0, p) \in FrameSet
    BY DEF Frame, FrameSet, Ops, Pcs
  <2> QED BY <2>1 DEF Frame
<1>4. Changes(t, {}, {f})
  BY <1>1, <1>2, <1>3, PushChanges DEF IInv, Lower
<1>5. /\ thread'[c] = None /\ \A d \in Conn : d # c => thread'[d] = thread[d]
      /\ guarded' \in [Conn -> BOOLEAN] /\ \A d \in Conn : guarded'[d] => guarded[d]
  BY <1>1 DEF IInv, TypeInv, DeletionInv, OwnInv
<1>6. OwnersKept
  BY <1>1, <1>5 DEF OwnersKept
<1>7. Leaves(c, p)'
  <2>1. life[c] # "none"
    BY <1>1 DEF DeletionInv, OwnInv
  <2>2. \A u \in Thread : \A k \in DOMAIN tasks[u] : Posted(u, k) /\ tasks[u][k].conn = c => u = p
    BY <1>2 DEF IInv, PostInv, TypeInv
  <2> QED BY <1>1, <1>5, <2>1, <2>2 DEF Leaves, Posted
<1>8. DisconnectInv'
  <2> SUFFICES ASSUME NEW u \in Thread, NEW g \in ToSet(stack'[u]), g.op = "disconnect"
               PROVE  Leaves(g.conn, g.peer)'
    BY DEF DisconnectInv
  <2>1. g = f \/ g \in ToSet(stack[u])
    BY <1>4 DEF Changes
  <2>2. CASE g \in ToSet(stack[u])
    <3>1. Leaves(g.conn, g.peer)
      BY <2>2 DEF DeletionInv, DisconnectInv
    <3> QED BY <1>1, <1>6, <3>1, LeavesKept
  <2> QED BY <1>3, <1>7, <2>1, <2>2
<1>9. BehindInv'
  <2> SUFFICES ASSUME NEW u \in Thread, NEW k \in DOMAIN tasks[u], DeleteTask(u, k) PROVE Behind(u, k)'
    BY <1>1 DEF BehindInv, DeleteTask
  <2>1. Behind(u, k)
    BY DEF DeletionInv, BehindInv
  <2> QED BY <1>1, <1>6, <2>1 DEF Behind, OwnersKept, Posted
<1>10. OwnInv'
  BY <1>6 DEF DeletionInv, OwnInv, OwnersKept
<1>11. PassInv'
  <2> SUFFICES ASSUME NEW u \in Thread, NEW g \in ToSet(stack'[u]), Passes(g)
               PROVE  g.conn \in Conn /\ thread'[g.conn] # None
    BY DEF PassInv
  <2>1. g \in ToSet(stack[u])
    BY <1>3, <1>4 DEF Changes
  <2>2. g.conn \in Conn /\ thread[g.conn] # None
    BY <2>1 DEF DeletionInv, PassInv
  <2>3. g.conn # c
    <3> SUFFICES ASSUME g.conn = c PROVE FALSE
      OBVIOUS
    <3>1. PICK i \in DOMAIN stack[u] : stack[u][i] = g
      BY <2>1 DEF ToSet
    <3>2. DOMAIN stack[u] = 1..Len(stack[u])
      BY DEF IInv, TypeInv
    <3>3. IsAt(u, c)
      BY <3>1, <3>2 DEF IsAt, Frames
    <3>4. u = t
      BY <3>3 DEF DestroyGuard, MayDisconnect, NoDisconnectInPassing
    <3>5. i = Len(stack[t]) /\ stack[t] # <<>>
      BY <3>1, <3>2, <3>4 DEF IInv, HoldInv, Emits
    <3>6. Top(t) = g
      BY <3>1, <3>4, <3>5, TopFacts DEF IInv
    <3> QED BY <1>1, <3>5, <3>6
  <2> QED BY <1>5, <2>2, <2>3
<1> QED BY <1>8, <1>9, <1>10, <1>11 DEF DeletionInv

\* The deletion is posted behind the calls.
LEMMA DecideDeletion ==
  ASSUME IInv, DeletionInv, NEW t \in Thread, Decide(t)
  PROVE  DeletionInv'
<1>0. TypeInv
  BY DEF IInv
<1>1. /\ stack[t] # <<>> /\ Top(t).op = "disconnect" /\ UNCHANGED <<life, thread, guarded>>
      /\ \/ stack' = Replaced(t, Frame("delete", "release", Top(t).conn, 0, None)) /\ tasks' = tasks
         \/ /\ stack' = Popped(t)
            /\ tasks' = [tasks EXCEPT ![Top(t).peer] =
                           Append(tasks[Top(t).peer], Frame("delete", "release", Top(t).conn, 0, None))]
  BY DEF Decide, At, Top, connVars
<1>2. Top(t) \in FrameSet /\ Top(t) \in ToSet(stack[t])
  BY <1>0, <1>1, TopFacts DEF ToSet
<1>3. Leaves(Top(t).conn, Top(t).peer)
  BY <1>1, <1>2 DEF DeletionInv, DisconnectInv
<1>4. PICK c \in Conn, p \in Thread : c = Top(t).conn /\ p = Top(t).peer
  BY <1>3 DEF Leaves
<1>5. PICK d \in FrameSet : d = Frame("delete", "release", c, 0, None) /\ d \in TaskSet /\ d.op = "delete" /\ d.conn = c
  <2>1. Frame("delete", "release", c, 0, None) \in FrameSet
    BY DEF Frame, FrameSet, Ops, Pcs
  <2> QED BY <2>1 DEF Frame, TaskSet
<1>6. OwnersKept
  BY <1>1, OwnersStay
<1>7. CASE stack' = Replaced(t, d) /\ tasks' = tasks
  <2>1. NoneLeaves
    BY <1>0, <1>1, <1>5, <1>7, StackLeaves
  <2> QED BY <1>1, <1>6, <1>7, <2>1, DeletionKept
<1>8. CASE stack' = Popped(t) /\ tasks' = [tasks EXCEPT ![p] = Append(tasks[p], d)]
  <2>1. NoneLeaves
    BY <1>0, <1>1, <1>8, StackLeaves
  <2>2. PICK n \in Nat : n = Len(tasks[p]) + 1
    BY <1>0 DEF TypeInv
  <2>3. \A u \in Thread : \A k \in DOMAIN tasks[u] : k \in Nat /\ (u = p => k < n)
    BY <1>0, <2>2 DEF TypeInv
  <2>4. \A u \in Thread : \A k \in DOMAIN tasks'[u] :
          \/ k \in DOMAIN tasks[u] /\ tasks'[u][k] = tasks[u][k]
          \/ u = p /\ k = n /\ tasks'[u][k] = d
    <3>1. tasks \in [Thread -> Seq(TaskSet)] /\ tasks[p] \in Seq(TaskSet)
      BY <1>0 DEF TypeInv
    <3>2. PICK q \in Seq(TaskSet) : q = Append(tasks[p], d)
      <4>1. Append(tasks[p], d) \in Seq(TaskSet)
        BY <1>5, <3>1, AppendFacts
      <4> QED BY <4>1
    <3>3. /\ Len(q) = n /\ q[n] = d /\ \A i \in 1..Len(tasks[p]) : q[i] = tasks[p][i]
      BY <1>5, <2>2, <3>1, <3>2, AppendFacts
    <3>4. \A k \in DOMAIN q : k \in DOMAIN tasks[p] \/ k = n
      BY <2>2, <3>1, <3>2, <3>3
    <3>5. tasks'[p] = q /\ \A u \in Thread : u # p => tasks'[u] = tasks[u]
      BY <1>8, <3>1, <3>2
    <3>6. DOMAIN tasks[p] = 1..Len(tasks[p])
      BY <3>1
    <3> QED BY <3>3, <3>4, <3>5, <3>6
  <2>5. \A u \in Thread : \A k \in DOMAIN tasks'[u] :
          tasks'[u][k].op = "call" => k \in DOMAIN tasks[u] /\ tasks'[u][k] = tasks[u][k]
    BY <1>5, <2>4
  <2>6. DisconnectInv'
    <3> SUFFICES ASSUME NEW u \in Thread, NEW f \in ToSet(stack'[u]), f.op = "disconnect"
                 PROVE  Leaves(f.conn, f.peer)'
      BY DEF DisconnectInv
    <3>1. Leaves(f.conn, f.peer)
      BY <2>1 DEF DeletionInv, DisconnectInv, NoneLeaves
    <3> QED BY <1>6, <2>5, <3>1, LeavesKept
  <2>7. BehindInv'
    <3> SUFFICES ASSUME NEW u \in Thread, NEW k \in DOMAIN tasks'[u], tasks'[u][k].op = "delete" PROVE Behind(u, k)'
      BY DEF BehindInv, DeleteTask
    <3>1. CASE k \in DOMAIN tasks[u] /\ tasks'[u][k] = tasks[u][k]
      <4>1. Behind(u, k)
        BY <3>1 DEF DeletionInv, BehindInv, DeleteTask
      <4> QED BY <1>1, <2>5, <3>1, <4>1 DEF Behind, Posted
    <3>2. CASE u = p /\ k = n /\ tasks'[u][k] = d
      <4>1. ASSUME NEW v \in Thread, NEW j \in DOMAIN tasks'[v], tasks'[v][j].op = "call", tasks'[v][j].conn = c
            PROVE  v = p /\ j < n
        <5>1. j \in DOMAIN tasks[v] /\ Posted(v, j) /\ tasks[v][j].conn = c
          BY <2>5, <4>1 DEF Posted
        <5> QED BY <1>3, <1>4, <2>3, <5>1 DEF Leaves
      <4>2. c \in Conn /\ thread'[c] = None /\ life'[c] # "none"
        BY <1>1, <1>3, <1>4 DEF Leaves
      <4> QED BY <1>5, <3>2, <4>1, <4>2 DEF Behind, Posted
    <3> QED BY <2>4, <3>1, <3>2
  <2>8. OwnInv'
    BY <1>6 DEF DeletionInv, OwnInv, OwnersKept
  <2>9. PassInv'
    BY <1>1, <2>1 DEF DeletionInv, PassInv, NoneLeaves
  <2> QED BY <2>6, <2>7, <2>8, <2>9 DEF DeletionInv
<1> QED BY <1>1, <1>4, <1>5, <1>7, <1>8

LEMMA DeletionStep == NoDisconnectInPassing => (IInv /\ DeletionInv /\ [Next]_vars => DeletionInv')
<1> SUFFICES ASSUME NoDisconnectInPassing, IInv, DeletionInv, [Next]_vars PROVE DeletionInv'
  OBVIOUS
<1>1. CASE UNCHANGED vars
  <2>1. UNCHANGED <<life, thread, guarded, tasks, stack>>
    BY <1>1 DEF vars, connVars, threadVars
  <2>2. NoneLeaves
    BY <2>1 DEF NoneLeaves
  <2> QED BY <2>1, <2>2, OwnersStay, DeletionKept
<1>2. ASSUME NEW t \in Thread, NEW c \in Conn, DestroyGuard(t, c) PROVE DeletionInv'
  BY <1>2, DestroyGuardDeletion
<1>3. ASSUME NEW t \in Thread, NEW c \in Conn, NEW ty \in Types, Connect(t, c, ty) PROVE DeletionInv'
  BY <1>3, ConnectDeletion
<1>4. ASSUME NEW t \in Thread,
             \/ Emit(t) \/ Destroy(t) \/ Finish(t) \/ EmitLocks(t) \/ EmitNext(t) \/ EmitEnds(t) \/ CallInPlace(t)
             \/ ReturnQueued(t) \/ ReturnInPlace(t) \/ ReturnSync(t) \/ Release(t) \/ Unlist(t)
             \/ DestroyLocks(t) \/ DestroyNext(t) \/ DestroyConnection(t) \/ DestroyEnds(t)
      PROVE  DeletionInv'
  BY <1>4, QueuesAlone
<1>5. ASSUME NEW t \in Thread, Prepare(t) \/ Post(t) \/ PostSync(t) \/ Run(t) \/ Decide(t) PROVE DeletionInv'
  BY <1>5, PrepareDeletion, PostDeletion, RunDeletion, DecideDeletion
<1> QED BY <1>1, <1>2, <1>3, <1>4, <1>5 DEF Next

LEMMA DeletionInit == Init => DeletionInv
<1> SUFFICES ASSUME Init PROVE DeletionInv
  OBVIOUS
<1>1. \A t \in Thread : DOMAIN tasks[t] = {} /\ ToSet(stack[t]) = {}
  BY DEF Init, ToSet
<1>2. DisconnectInv /\ BehindInv /\ PassInv
  BY <1>1 DEF DisconnectInv, BehindInv, DeleteTask, PassInv
<1>3. OwnInv
  BY DEF Init, OwnInv
<1> QED BY <1>2, <1>3 DEF DeletionInv

\* Whatever the threads, the connections and the emissions, if no guard is destroyed while
\* an emission is at its connection (no other rule on Calls is assumed): the deletion that
\* destroyConnection() posts is behind every call that operator() has posted for the
\* connection, in the same thread, and none is posted behind it.
THEOREM DeletionAfterCalls == NoDisconnectInPassing => (Spec => []LastCallBeforeDeletion)
<1> SUFFICES ASSUME NoDisconnectInPassing PROVE Spec => []LastCallBeforeDeletion
  OBVIOUS
<1>1. Init => IInv /\ DeletionInv
  BY InitInv, DeletionInit
<1>2. IInv /\ DeletionInv /\ [Next]_vars => (IInv /\ DeletionInv)'
  BY StepInv, DeletionStep
<1>3. IInv /\ DeletionInv => LastCallBeforeDeletion
  <2> SUFFICES ASSUME IInv, BehindInv, NEW t \in Thread, NEW u \in Thread,
                      NEW k \in 1..Len(tasks[t]), NEW j \in 1..Len(tasks[u]),
                      tasks[t][k].op = "delete", tasks[u][j].op = "call", tasks[t][k].conn = tasks[u][j].conn
               PROVE  t = u /\ j < k
    BY DEF DeletionInv, LastCallBeforeDeletion
  <2>1. k \in DOMAIN tasks[t] /\ j \in DOMAIN tasks[u]
    BY Domains DEF IInv
  <2>2. Behind(t, k)
    BY <2>1 DEF BehindInv, DeleteTask
  <2> QED BY <2>1, <2>2 DEF Behind, Posted
<1> QED BY <1>1, <1>2, <1>3, PTL DEF Spec

(***************************************************************************)
(* No circle.  Who may have to wait for the mutex does not hold it, and no   *)
(* thread that uses the connector is one an emission may wait for.           *)
(***************************************************************************)
NoUseInCall == "useInCall" \notin Calls /\ "destroyInUse" \notin Calls

OpenInv == open \in [Thread -> BOOLEAN]
LayerInv == \A t \in Thread : Layered(stack[t])
HolderInv == mutex # None => \E f \in ToSet(stack[mutex]) : Holds(f)
\* The mutex is not held by the thread of a frame that locks it; a connection that is
\* disconnected by the holder is left to the loop of its thread.
Clear(t, f) ==
  /\ f.op = "delete" \/ (f.op \in {"emit", "destroy"} /\ f.pc = "lock") => mutex # t
  /\ f.op = "disconnect" /\ mutex = t => f.peer = t /\ open[t]
ClearInv == \A t \in Thread : \A f \in ToSet(stack[t]) : Clear(t, f)
\* An emission that waits does it for the thread of a synchronous connection.
Stands(t, f) ==
  f.op = "emit" /\ f.pc \in {"read", "post", "waits"} =>
    f.conn \in list /\ (f.pc = "waits" => type[f.conn] = "Sync" /\ thread[f.conn] # t)
StandsInv == \A t \in Thread : \A f \in ToSet(stack[t]) : Stands(t, f)
Emitting(v) == \E f \in ToSet(stack[v]) : f.op = "emit"
Deletes(u) == \E k \in DOMAIN tasks[u] : tasks[u][k].op = "delete"
Using(u) ==
  \/ \E f \in ToSet(stack[u]) : f.op # "call"
  \/ Deletes(u)
  \/ \E v \in Thread : \E f \in ToSet(stack[v]) : f.op = "disconnect" /\ f.peer = u
ApartInv == \A t, v \in Thread : v # t /\ Emitting(v) /\ Using(t) => t \notin Waited
CircleInv == OpenInv /\ LayerInv /\ HolderInv /\ ClearInv /\ StandsInv /\ ApartInv

LEMMA FramesSet ==
  ASSUME TypeInv, NEW t \in Thread
  PROVE  /\ Frames(t) = ToSet(stack[t]) /\ DOMAIN tasks[t] = 1..Len(tasks[t])
         /\ stack[t] # <<>> => Top(t) \in ToSet(stack[t])
<1>1. stack[t] \in Seq(FrameSet) /\ tasks[t] \in Seq(TaskSet)
  BY DEF TypeInv
<1>2. Frames(t) = ToSet(stack[t])
  BY <1>1 DEF Frames, ToSet
<1>3. stack[t] # <<>> => Top(t) \in ToSet(stack[t])
  BY TopFacts DEF ToSet
<1> QED BY <1>1, <1>2, <1>3

LEMMA UsingUses ==
  ASSUME TypeInv
  PROVE  /\ \A u \in Thread : Using(u) <=> Uses(u)
         /\ SomebodyEmits <=> \E u \in Thread : Emitting(u)
<1>1. \A u \in Thread : Frames(u) = ToSet(stack[u]) /\ DOMAIN tasks[u] = 1..Len(tasks[u])
  BY FramesSet
<1>2. \A u \in Thread : Deletes(u) <=> \E k \in 1..Len(tasks[u]) : tasks[u][k].op = "delete"
  BY <1>1 DEF Deletes
<1> QED BY <1>1, <1>2 DEF Using, Uses, SomebodyEmits, Emitting

\* Connections are not made, and keep their type and, until it is cleared, their thread.
ConnsLess ==
  /\ list' \subseteq list
  /\ \A c \in list : type'[c] = type[c] /\ thread'[c] \in {thread[c], None}

LEMMA WaitedLess == ASSUME ConnsLess PROVE Waited' \subseteq Waited
BY DEF ConnsLess, Waited

\* Nobody uses the connector who did not.
UseLess ==
  /\ \A u \in Thread : Emitting(u)' => Emitting(u)
  /\ \A u \in Thread : Using(u)' => Using(u)

LEMMA ApartKept ==
  ASSUME ApartInv, ConnsLess, UseLess PROVE ApartInv'
BY WaitedLess DEF ApartInv, UseLess

LEMMA UseLessChanges ==
  ASSUME NEW t \in Thread, NEW old, NEW new, Changes(t, old, new),
         \A f \in new : /\ f.op # "disconnect"
                        /\ f.op # "call" => Using(t)
                        /\ f.op = "emit" => Emitting(t),
         \A u \in Thread : Deletes(u)' => Using(u)
  PROVE  UseLess
<1>1. \A u \in Thread : \A f \in ToSet(stack'[u]) : f \in ToSet(stack[u]) \/ (u = t /\ f \in new)
  BY DEF Changes
<1>2. ASSUME NEW u \in Thread, Emitting(u)' PROVE Emitting(u)
  BY <1>1, <1>2 DEF Emitting
<1>3. ASSUME NEW u \in Thread, Using(u)' PROVE Using(u)
  <2>1. CASE \E f \in ToSet(stack'[u]) : f.op # "call"
    BY <1>1, <2>1 DEF Using
  <2>2. CASE Deletes(u)'
    BY <2>2
  <2>3. CASE \E v \in Thread : \E f \in ToSet(stack'[v]) : f.op = "disconnect" /\ f.peer = u
    BY <1>1, <2>3 DEF Using
  <2> QED BY <1>3, <2>1, <2>2, <2>3 DEF Using
<1> QED BY <1>2, <1>3 DEF UseLess

LEMMA LayerStep ==
  ASSUME LayerInv, NEW t \in Thread, NEW old, NEW new, Changes(t, old, new) PROVE LayerInv'
BY DEF LayerInv, Changes

LEMMA HolderStep ==
  ASSUME TypeInv, HolderInv, NEW t \in Thread, NEW old, NEW new, Changes(t, old, new), mutex' = mutex,
         \A f \in old : Holds(f) => \E g \in new : Holds(g)
  PROVE  HolderInv'
<1> SUFFICES ASSUME mutex # None PROVE \E f \in ToSet(stack'[mutex]) : Holds(f)
  BY DEF HolderInv
<1>1. PICK f \in ToSet(stack[mutex]) : Holds(f)
  BY DEF HolderInv
<1>2. mutex \in Thread
  BY DEF TypeInv
<1> QED BY <1>1, <1>2 DEF Changes

LEMMA ClearStep ==
  ASSUME ClearInv, NEW t \in Thread, NEW old, NEW new, Changes(t, old, new), UNCHANGED open,
         mutex' \in {mutex, None}, \A f \in new : Clear(t, f)
  PROVE  ClearInv'
<1> SUFFICES ASSUME NEW u \in Thread, NEW f \in ToSet(stack'[u]) PROVE Clear(u, f)'
  BY DEF ClearInv
<1>1. f \in ToSet(stack[u]) \/ (u = t /\ f \in new)
  BY DEF Changes
<1>2. Clear(u, f)
  BY <1>1 DEF ClearInv
<1> QED BY <1>2 DEF Clear

LEMMA StandsStep ==
  ASSUME StandsInv, NEW t \in Thread, NEW old, NEW new, Changes(t, old, new),
         ConnsLess, list' = list, \A f \in new : Stands(t, f)
  PROVE  StandsInv'
<1> SUFFICES ASSUME NEW u \in Thread, NEW f \in ToSet(stack'[u]) PROVE Stands(u, f)'
  BY DEF StandsInv
<1>1. f \in ToSet(stack[u]) \/ (u = t /\ f \in new)
  BY DEF Changes
<1>2. Stands(u, f)
  BY <1>1 DEF StandsInv
<1> QED BY <1>2 DEF Stands, ConnsLess

\* A step that begins no use of the connector.
Mild(t, old, new) ==
  /\ Changes(t, old, new) /\ UNCHANGED <<mutex, open, list, type, thread>>
  /\ \A f \in old : Holds(f) => \E g \in new : Holds(g)
  /\ \A f \in new : /\ \/ f.op = "call"
                       \/ Holds(f) /\ \E g \in ToSet(stack[t]) : g.op = f.op
                       \/ f.op = "delete" /\ \E g \in ToSet(stack[t]) : g.op = "delete"
                    /\ Stands(t, f)
  /\ \A u \in Thread : Deletes(u)' => Deletes(u)

LEMMA MildStep ==
  ASSUME TypeInv, CircleInv, NEW t \in Thread, NEW old, NEW new, Mild(t, old, new)
  PROVE  CircleInv'
<1>1. Changes(t, old, new) /\ UNCHANGED <<mutex, open, list, type, thread>>
  BY DEF Mild
<1>2. \A f \in new : Clear(t, f)
  BY DEF Mild, Clear, CircleInv, ClearInv, Holds
<1>3. ConnsLess
  BY <1>1 DEF ConnsLess
<1>4. \A f \in new : /\ f.op # "disconnect"
                     /\ f.op # "call" => Using(t)
                     /\ f.op = "emit" => Emitting(t)
  BY DEF Mild, Using, Emitting, Holds
<1>5. UseLess
  <2>1. \A u \in Thread : Deletes(u)' => Using(u)
    BY DEF Mild, Using
  <2> QED BY <1>1, <1>4, <2>1, UseLessChanges
<1>6. LayerInv' /\ HolderInv'
  BY <1>1, LayerStep, HolderStep DEF CircleInv, Mild
<1>7. ClearInv' /\ StandsInv'
  BY <1>1, <1>2, <1>3, ClearStep, StandsStep DEF CircleInv, Mild
<1>8. ApartInv'
  BY <1>3, <1>5, ApartKept DEF CircleInv
<1>9. OpenInv'
  BY <1>1 DEF CircleInv, OpenInv
<1> QED BY <1>6, <1>7, <1>8, <1>9 DEF CircleInv

LEMMA NobodyHolds ==
  ASSUME IInv, mutex = None
  PROVE  \A t \in Thread : \A f \in ToSet(stack[t]) : ~Holds(f)
BY DEF IInv, HoldInv, ToSet

\* The steps of the holder of the mutex: only its frames hold it.
LEMMA OnlyTop ==
  ASSUME IInv, NEW t \in Thread, stack[t] # <<>>, Holds(Top(t))
  PROVE  /\ mutex = t
         /\ \A u \in Thread : \A f \in ToSet(stack[u]) : Holds(f) => u = t /\ f = Top(t)
<1>1. TypeInv /\ HoldInv
  BY DEF IInv
<1>2. PICK k \in DOMAIN stack[t] : stack[t][k] = Top(t)
  BY <1>1, TopFacts
<1>3. mutex = t /\ \A j \in DOMAIN stack[t] : Holds(stack[t][j]) => j = k
  BY <1>1, <1>2 DEF HoldInv
<1>4. \A u \in Thread : \A f \in ToSet(stack[u]) : Holds(f) => u = t
  BY <1>1, <1>3 DEF HoldInv, ToSet
<1> QED BY <1>2, <1>3, <1>4 DEF ToSet

\* The loops over the list, and the emission that posts, goes on or waits.
LEMMA TopGoes ==
  ASSUME IInv, CircleInv, NEW t \in Thread, stack[t] # <<>>, NEW f \in FrameSet,
         stack' = Replaced(t, f), UNCHANGED <<mutex, open, list, type, thread>>,
         \/ Holds(f) /\ f.op = Top(t).op
         \/ f.op = "delete" /\ Top(t).op = "delete",
         Stands(t, f), \A u \in Thread : Deletes(u)' => Deletes(u)
  PROVE  CircleInv'
<1>1. TypeInv /\ Top(t) \in ToSet(stack[t])
  BY FramesSet DEF IInv
<1>2. Changes(t, {Top(t)}, {f})
  BY <1>1, ReplaceChanges
<1>3. Holds(Top(t)) => Holds(f)
  BY DEF Holds
<1>4. Mild(t, {Top(t)}, {f})
  BY <1>1, <1>2, <1>3 DEF Mild
<1> QED BY <1>1, <1>4, MildStep

LEMMA TopLeaves ==
  ASSUME IInv, CircleInv, NEW t \in Thread, stack[t] # <<>>, ~Holds(Top(t)),
         stack' = Popped(t), UNCHANGED <<mutex, open, list, type, thread>>,
         \A u \in Thread : Deletes(u)' => Deletes(u)
  PROVE  CircleInv'
<1>1. TypeInv
  BY DEF IInv
<1>2. Changes(t, {Top(t)}, {})
  BY <1>1, PopChanges
<1>3. Mild(t, {Top(t)}, {})
  BY <1>2 DEF Mild
<1> QED BY <1>1, <1>3, MildStep

LEMMA SameTasks == ASSUME tasks' = tasks PROVE \A u \in Thread : Deletes(u)' => Deletes(u)
BY DEF Deletes

LEMMA CircleLoops ==
  ASSUME IInv, CircleInv, NEW t \in Thread,
         EmitNext(t) \/ DestroyNext(t) \/ DestroyConnection(t) \/ Release(t) \/ ReturnQueued(t)
  PROVE  CircleInv'
<1>0. TypeInv
  BY DEF IInv
<1>1. CASE EmitNext(t) \/ DestroyNext(t)
  <2>1. /\ stack[t] # <<>> /\ Top(t).op \in {"emit", "destroy"} /\ tasks' = tasks
        /\ UNCHANGED <<mutex, open, list, type, thread>>
    BY <1>1 DEF EmitNext, DestroyNext, At, Top, connectorVars, connVars
  <2>2. PICK c \in list, x \in {"next", "read"} : stack' = Replaced(t, [Top(t) EXCEPT !.conn = c, !.pc = x])
    BY <1>1 DEF EmitNext, DestroyNext, Following, Later
  <2>3. Top(t) \in FrameSet /\ c \in Conn
    BY <1>0, <2>1, TopFacts DEF TypeInv
  <2>4. [Top(t) EXCEPT !.conn = c, !.pc = x] \in FrameSet
    BY <2>3 DEF FrameSet, Pcs
  <2>5. PICK f \in FrameSet : /\ f = [Top(t) EXCEPT !.conn = c, !.pc = x]
                              /\ f.op = Top(t).op /\ f.conn = c /\ f.pc = x
    BY <2>3, <2>4 DEF FrameSet
  <2>6. Holds(f) /\ Stands(t, f)
    BY <2>1, <2>5 DEF Holds, Stands
  <2>7. \A u \in Thread : Deletes(u)' => Deletes(u)
    BY <2>1, SameTasks
  <2> QED BY <2>1, <2>2, <2>5, <2>6, <2>7, TopGoes
<1>2. CASE DestroyConnection(t)
  <2>1. /\ stack[t] # <<>> /\ Top(t).op = "destroy" /\ tasks' = tasks
        /\ stack' = Replaced(t, [Top(t) EXCEPT !.pc = "next"])
        /\ UNCHANGED <<mutex, open, list, type, thread>>
    BY <1>2 DEF DestroyConnection, At, Top, Goes, connectorVars
  <2>2. Top(t) \in FrameSet
    BY <1>0, <2>1, TopFacts
  <2>3. [Top(t) EXCEPT !.pc = "next"] \in FrameSet
    BY <2>2 DEF FrameSet, Pcs
  <2>4. PICK f \in FrameSet : f = [Top(t) EXCEPT !.pc = "next"] /\ f.op = Top(t).op /\ f.pc = "next"
    BY <2>2, <2>3 DEF FrameSet
  <2>5. Holds(f) /\ Stands(t, f)
    BY <2>1, <2>4 DEF Holds, Stands
  <2>6. \A u \in Thread : Deletes(u)' => Deletes(u)
    BY <2>1, SameTasks
  <2> QED BY <2>1, <2>4, <2>5, <2>6, TopGoes
<1>3. CASE Release(t)
  <2>1. /\ stack[t] # <<>> /\ Top(t).op = "delete" /\ tasks' = tasks
        /\ \/ stack' = Popped(t)
           \/ stack' = Replaced(t, [Top(t) EXCEPT !.pc = "lock"])
        /\ UNCHANGED <<mutex, open, list, type, thread>>
    BY <1>3 DEF Release, At, Top, Goes, connectorVars
  <2>2. Top(t) \in FrameSet
    BY <1>0, <2>1, TopFacts
  <2>3. [Top(t) EXCEPT !.pc = "lock"] \in FrameSet
    BY <2>2 DEF FrameSet, Pcs
  <2>4. PICK f \in FrameSet : f = [Top(t) EXCEPT !.pc = "lock"] /\ f.op = "delete"
    BY <2>1, <2>2, <2>3 DEF FrameSet
  <2>5. ~Holds(Top(t)) /\ Stands(t, f)
    BY <2>1, <2>4 DEF Holds, Stands
  <2>6. \A u \in Thread : Deletes(u)' => Deletes(u)
    BY <2>1, SameTasks
  <2>7. CASE stack' = Popped(t)
    BY <2>1, <2>5, <2>6, <2>7, TopLeaves
  <2>8. CASE stack' = Replaced(t, f)
    BY <2>1, <2>4, <2>5, <2>6, <2>8, TopGoes
  <2> QED BY <2>1, <2>4, <2>7, <2>8
<1>4. CASE ReturnQueued(t)
  <2>1. /\ stack[t] # <<>> /\ Top(t).op = "call" /\ tasks' = tasks /\ stack' = Popped(t)
        /\ UNCHANGED <<mutex, open, list, type, thread>>
    BY <1>4 DEF ReturnQueued, At, Top, connectorVars, connVars
  <2>2. ~Holds(Top(t)) /\ \A u \in Thread : Deletes(u)' => Deletes(u)
    BY <2>1, SameTasks DEF Holds
  <2> QED BY <2>1, <2>2, TopLeaves
<1> QED BY <1>1, <1>2, <1>3, <1>4

LEMMA CirclePrepare ==
  ASSUME IInv, CircleInv, NEW t \in Thread, Prepare(t)
  PROVE  CircleInv'
<1> DEFINE c == Top(t).conn
<1>1. /\ stack[t] # <<>> /\ Top(t).op = "emit" /\ Top(t).pc = "read" /\ thread[c] # None /\ tasks' = tasks
      /\ stack' = Replaced(t, [Top(t) EXCEPT !.pc = "post", !.peer = thread[c]])
      /\ UNCHANGED <<mutex, open, list, type, thread>>
  BY DEF Prepare, At, Top, connectorVars, connVars
<1>2. Top(t) \in FrameSet /\ c \in Conn /\ TypeInv /\ Top(t) \in ToSet(stack[t])
  BY <1>1, TopFacts, EmitterFacts, FramesSet DEF IInv, Emits
<1>3. thread[c] \in Thread
  BY <1>1, <1>2 DEF TypeInv
<1>4. PICK f \in FrameSet : /\ f = [Top(t) EXCEPT !.pc = "post", !.peer = thread[c]]
                            /\ f.op = "emit" /\ f.pc = "post" /\ f.conn = c
  <2>1. [Top(t) EXCEPT !.pc = "post", !.peer = thread[c]] \in FrameSet
    BY <1>2, <1>3 DEF FrameSet, Pcs
  <2> QED BY <1>1, <1>2, <2>1 DEF FrameSet
<1>5. c \in list
  BY <1>1, <1>2 DEF CircleInv, StandsInv, Stands
<1>6. Holds(f) /\ Stands(t, f) /\ \A u \in Thread : Deletes(u)' => Deletes(u)
  BY <1>1, <1>4, <1>5, SameTasks DEF Holds, Stands
<1> QED BY <1>1, <1>4, <1>6, TopGoes

LEMMA CirclePost ==
  ASSUME IInv, CircleInv, NEW t \in Thread, Post(t) \/ PostSync(t)
  PROVE  CircleInv'
<1> DEFINE c == Top(t).conn
<1>1. /\ stack[t] # <<>> /\ Top(t).op = "emit" /\ Top(t).pc = "post"
      /\ UNCHANGED <<mutex, open, list, type, thread>>
  BY DEF Post, PostSync, At, Top, connectorVars, connVars
<1>2. PICK x \in {"next", "waits"} : stack' = Handed(t, x) /\ (x = "waits" => type[c] = "Sync")
  BY DEF Post, PostSync
<1>3. PICK f \in FrameSet : f.op = "emit" /\ f.pc = x /\ f.conn = c /\ stack' = Replaced(t, f)
  <2>1. x \in {"next", "waits"} /\ stack' = Handed(t, x)
    BY <1>2
  <2>2. \E f \in FrameSet :
          /\ f.op = "emit" /\ f.pc = x /\ f.conn = Top(t).conn /\ f.n = Top(t).n /\ f.peer = None
          /\ f = [Top(t) EXCEPT !.pc = x, !.peer = None] /\ stack' = Replaced(t, f)
    BY <1>1, <2>1, HandedFacts
  <2> QED BY <2>2
<1>4. Top(t) \in ToSet(stack[t]) /\ Ready(t, c, Top(t).peer)
  BY <1>1, FramesSet, ReadyFacts DEF IInv
<1>5. c \in list
  BY <1>1, <1>4 DEF CircleInv, StandsInv, Stands
<1>6. x = "waits" => thread[c] # t
  BY <1>2, <1>4 DEF Ready
<1>7. Stands(t, f) /\ Holds(f)
  BY <1>2, <1>3, <1>5, <1>6 DEF Stands, Holds
<1>8. \A u \in Thread : Deletes(u)' => Deletes(u)
  <2>1. CASE UNCHANGED tasks
    BY <2>1, SameTasks
  <2>2. ASSUME NEW g, NEW y, PostsCall(t, g, y) PROVE \A u \in Thread : Deletes(u)' => Deletes(u)
    <3>1. PICK p \in Thread, n \in Nat : p = Top(t).peer /\ n = Len(tasks[p]) + 1
      BY <2>2, PostsWhere
    <3>2. \A u \in Thread : \A k \in DOMAIN tasks'[u] :
            \/ k \in DOMAIN tasks[u] /\ tasks'[u][k] = tasks[u][k] /\ k \in Nat /\ (u = p => k < n)
            \/ u = p /\ k = n /\ tasks'[u][k] = g
      BY <2>2, <3>1, PostsTasks
    <3>3. g.op = "call"
      BY <2>2 DEF PostsCall
    <3> QED BY <3>2, <3>3 DEF Deletes
  <2>3. CASE ~UNCHANGED tasks
    <3>1. \E g, y : PostsCall(t, g, y)
      BY <2>3, PostPosts, PostSyncPosts
    <3> QED BY <2>2, <3>1
  <2> QED BY <2>1, <2>3
<1> QED BY <1>1, <1>3, <1>7, <1>8, TopGoes

LEMMA CircleCalls ==
  ASSUME IInv, CircleInv, NEW t \in Thread, CallInPlace(t) \/ ReturnInPlace(t)
  PROVE  CircleInv'
<1>0. TypeInv /\ UNCHANGED <<mutex, open, list, type, thread>> /\ \A u \in Thread : Deletes(u)' => Deletes(u)
  BY SameTasks DEF CallInPlace, ReturnInPlace, connectorVars, connVars, IInv
<1>1. CASE CallInPlace(t)
  <2>1. PICK g, h \in FrameSet :
           /\ stack[t] # <<>> /\ Top(t).op = "emit"
           /\ g.op = "emit" /\ g.pc = "calls" /\ h.op = "call" /\ Changes(t, {Top(t)}, {g, h})
    BY <1>1, CallInPlaceChanges
  <2>2. Top(t) \in ToSet(stack[t])
    BY <1>0, <2>1, FramesSet
  <2>3. Holds(g) /\ Stands(t, g) /\ Stands(t, h)
    BY <2>1 DEF Holds, Stands
  <2>4. Mild(t, {Top(t)}, {g, h})
    BY <1>0, <2>1, <2>2, <2>3 DEF Mild
  <2> QED BY <1>0, <2>4, MildStep
<1>2. CASE ReturnInPlace(t)
  <2>1. PICK e, g \in FrameSet :
           /\ e \in ToSet(stack[t]) /\ e.op = "emit" /\ g.op = "emit" /\ g.pc = "next"
           /\ Changes(t, {Top(t), e}, {g})
    BY <1>2, ReturnInPlaceChanges
  <2>2. Holds(g) /\ Stands(t, g)
    BY <2>1 DEF Holds, Stands
  <2>3. Mild(t, {Top(t), e}, {g})
    BY <1>0, <2>1, <2>2 DEF Mild
  <2> QED BY <1>0, <2>3, MildStep
<1> QED BY <1>1, <1>2

\* What a frame that is put on the stack of t adds to the use of the connector.
LEMMA PushUses ==
  ASSUME NEW t \in Thread, NEW f, Changes(t, {}, {f}), tasks' = tasks
  PROVE  /\ \A v \in Thread : Emitting(v)' => Emitting(v) \/ (v = t /\ f.op = "emit")
         /\ \A a \in Thread : Using(a)' => Using(a) \/ a = t \/ (f.op = "disconnect" /\ a = f.peer)
<1>1. \A u \in Thread : \A g \in ToSet(stack'[u]) : g \in ToSet(stack[u]) \/ (u = t /\ g = f)
  BY DEF Changes
<1>2. ASSUME NEW v \in Thread, Emitting(v)' PROVE Emitting(v) \/ (v = t /\ f.op = "emit")
  BY <1>1, <1>2 DEF Emitting
<1>3. ASSUME NEW a \in Thread, Using(a)' PROVE Using(a) \/ a = t \/ (f.op = "disconnect" /\ a = f.peer)
  <2>1. CASE \E g \in ToSet(stack'[a]) : g.op # "call"
    BY <1>1, <2>1 DEF Using
  <2>2. CASE Deletes(a)'
    BY <2>2, SameTasks DEF Using
  <2>3. CASE \E v \in Thread : \E g \in ToSet(stack'[v]) : g.op = "disconnect" /\ g.peer = a
    <3>0. PICK v \in Thread : \E g \in ToSet(stack'[v]) : g.op = "disconnect" /\ g.peer = a
      BY <2>3
    <3>1. PICK g \in ToSet(stack'[v]) : g.op = "disconnect" /\ g.peer = a
      BY <3>0
    <3>2. g \in ToSet(stack[v]) \/ g = f
      BY <1>1
    <3> QED BY <3>1, <3>2 DEF Using
  <2> QED BY <1>3, <2>1, <2>2, <2>3 DEF Using
<1> QED BY <1>2, <1>3

\* A user begins something: the rules on Calls are what keeps the threads apart.
LEMMA PushCircle ==
  ASSUME IInv, CircleInv, NEW t \in Thread, NEW f \in FrameSet,
         stack[t] = <<>> \/ Top(t).op = "call", stack' = Pushed(t, f),
         UNCHANGED <<mutex, open, list, type, tasks>>, ConnsLess,
         Clear(t, f), Stands(t, f),
         f.op = "emit" => \A a \in Thread : a # t /\ Using(a) => a \notin Waited,
         t \in Waited => ~\E v \in Thread : v # t /\ Emitting(v),
         f.op = "disconnect" /\ f.peer \in Waited => ~\E v \in Thread : Emitting(v)
  PROVE  CircleInv'
<1>1. TypeInv
  BY DEF IInv
<1>2. Changes(t, {}, {f})
  BY <1>1, PushChanges DEF Lower
<1>3. LayerInv' /\ HolderInv'
  BY <1>1, <1>2, LayerStep, HolderStep DEF CircleInv
<1>4. ClearInv' /\ StandsInv'
  BY <1>2, ClearStep, StandsStep DEF CircleInv
<1>5. OpenInv'
  BY DEF CircleInv, OpenInv
<1>6. ApartInv'
  <2> SUFFICES ASSUME NEW a \in Thread, NEW v \in Thread, v # a, Emitting(v)', Using(a)' PROVE a \notin Waited
    BY WaitedLess DEF ApartInv
  <2>1. Emitting(v) \/ (v = t /\ f.op = "emit")
    BY <1>2, PushUses
  <2>2. Using(a) \/ a = t \/ (f.op = "disconnect" /\ a = f.peer)
    BY <1>2, PushUses
  <2>3. CASE Emitting(v) /\ Using(a)
    BY <2>3 DEF CircleInv, ApartInv
  <2>4. CASE Emitting(v) /\ a = t
    BY <2>4
  <2>5. CASE Emitting(v) /\ f.op = "disconnect" /\ a = f.peer
    BY <2>5
  <2>6. CASE v = t /\ f.op = "emit"
    <3>1. Using(a)
      BY <2>2, <2>6
    <3> QED BY <2>6, <3>1
  <2> QED BY <2>1, <2>2, <2>3, <2>4, <2>5, <2>6
<1> QED BY <1>3, <1>4, <1>5, <1>6 DEF CircleInv

LEMMA CircleUsers ==
  ASSUME NoUseInCall, IInv, CircleInv, NEW t \in Thread,
         Emit(t) \/ Destroy(t) \/ \E c \in Conn : DestroyGuard(t, c)
  PROVE  CircleInv'
<1>0. TypeInv /\ (\A u \in Thread : Using(u) <=> Uses(u)) /\ (SomebodyEmits <=> \E u \in Thread : Emitting(u))
  BY UsingUses DEF IInv
<1>1. CASE Emit(t)
  <2>1. /\ stack[t] = <<>> \/ Top(t).op = "call"
        /\ stack' = Pushed(t, Frame("emit", "lock", 0, 0, None))
        /\ UNCHANGED <<mutex, open, list, type, thread, tasks>>
        /\ mutex # t /\ (t \in Waited => ~SomebodyEmits) /\ \A u \in Waited \ {t} : ~Uses(u)
    BY <1>1 DEF Emit, UserRuns, MayEmit, MayUse, NoUseInCall, connectorVars, connVars
  <2>2. PICK f \in FrameSet : f = Frame("emit", "lock", 0, 0, None) /\ f.op = "emit" /\ f.pc = "lock"
    <3>1. Frame("emit", "lock", 0, 0, None) \in FrameSet
      BY DEF Frame, FrameSet, Ops, Pcs
    <3> QED BY <3>1 DEF Frame
  <2>3. Clear(t, f) /\ Stands(t, f) /\ ConnsLess
    BY <2>1, <2>2 DEF Clear, Stands, ConnsLess
  <2>4. \A a \in Thread : a # t /\ Using(a) => a \notin Waited
    BY <1>0, <2>1
  <2>5. t \in Waited => ~\E v \in Thread : v # t /\ Emitting(v)
    BY <1>0, <2>1
  <2> QED BY <2>1, <2>2, <2>3, <2>4, <2>5, PushCircle
<1>2. CASE Destroy(t)
  <2>1. /\ stack[t] = <<>> \/ Top(t).op = "call"
        /\ stack' = Pushed(t, Frame("destroy", "lock", 0, 0, None))
        /\ UNCHANGED <<mutex, open, list, type, thread, tasks>>
        /\ mutex = None /\ \A u \in Thread : Uses(u) => u = t
    BY <1>2 DEF Destroy, UserRuns, MayDestroy, NoUseInCall, connectorVars, connVars
  <2>2. PICK f \in FrameSet : f = Frame("destroy", "lock", 0, 0, None) /\ f.op = "destroy" /\ f.pc = "lock"
    <3>1. Frame("destroy", "lock", 0, 0, None) \in FrameSet
      BY DEF Frame, FrameSet, Ops, Pcs
    <3> QED BY <3>1 DEF Frame
  <2>3. Clear(t, f) /\ Stands(t, f) /\ ConnsLess
    BY <2>1, <2>2 DEF Clear, Stands, ConnsLess
  <2>4. ~\E v \in Thread : v # t /\ Emitting(v)
    BY <1>0, <2>1 DEF Using, Emitting
  <2> QED BY <2>1, <2>2, <2>3, <2>4, PushCircle
<1>3. ASSUME NEW c \in Conn, DestroyGuard(t, c) PROVE CircleInv'
  <2>1. /\ stack[t] = <<>> \/ Top(t).op = "call"
        /\ thread[c] # None /\ stack' = Pushed(t, Frame("disconnect", "decide", c, 0, thread[c]))
        /\ thread' = [thread EXCEPT ![c] = None]
        /\ UNCHANGED <<mutex, open, list, type, tasks>>
        /\ mutex = t => t = thread[c] /\ open[t]
        /\ {t, thread[c]} \cap Waited # {} => ~SomebodyEmits
    BY <1>3 DEF DestroyGuard, UserRuns, MayDisconnect, NoUseInCall, connectorVars
  <2>2. PICK p \in Thread : p = thread[c]
    BY <1>0, <2>1 DEF TypeInv
  <2>3. PICK f \in FrameSet : /\ f = Frame("disconnect", "decide", c, 0, p)
                              /\ f.op = "disconnect" /\ f.pc = "decide" /\ f.peer = p
    <3>1. Frame("disconnect", "decide", c, 0, p) \in FrameSet
      BY DEF Frame, FrameSet, Ops, Pcs
    <3> QED BY <3>1 DEF Frame
  <2>4. Clear(t, f) /\ Stands(t, f)
    BY <2>1, <2>2, <2>3 DEF Clear, Stands
  <2>5. ConnsLess
    BY <1>0, <2>1 DEF ConnsLess, TypeInv
  <2>6. (t \in Waited \/ p \in Waited) => ~\E v \in Thread : Emitting(v)
    BY <1>0, <2>1, <2>2
  <2> QED BY <2>1, <2>2, <2>3, <2>4, <2>5, <2>6, PushCircle
<1> QED BY <1>1, <1>2, <1>3

LEMMA CircleSame ==
  ASSUME stack' = stack, tasks' = tasks
  PROVE  \A u \in Thread : (Emitting(u)' <=> Emitting(u)) /\ (Using(u)' <=> Using(u))
BY DEF Emitting, Using, Deletes

LEMMA CircleConnect ==
  ASSUME NoUseInCall, IInv, CircleInv, NEW t \in Thread, NEW c \in Conn, NEW ty \in Types, Connect(t, c, ty)
  PROVE  CircleInv'
<1>1. /\ mutex = None /\ life[c] = "none" /\ list' = list \cup {c}
      /\ thread' = [thread EXCEPT ![c] = t] /\ type' = [type EXCEPT ![c] = ty]
      /\ ty = "Sync" => ~SomebodyEmits
      /\ UNCHANGED <<mutex, open, stack, tasks>>
  BY DEF Connect, MayConnect, NoUseInCall, threadVars
<1>2. c \notin list /\ TypeInv
  BY <1>1 DEF IInv, CalledInv
<1>3. OpenInv' /\ LayerInv' /\ HolderInv'
  BY <1>1 DEF CircleInv, OpenInv, LayerInv, HolderInv
<1>4. ClearInv'
  BY <1>1 DEF CircleInv, ClearInv, Clear
<1>5. StandsInv'
  <2>1. \A u \in Thread : \A f \in ToSet(stack[u]) : ~Holds(f)
    BY <1>1, NobodyHolds
  <2> QED BY <1>1, <2>1 DEF StandsInv, Stands, Holds
<1>6. ApartInv'
  <2>1. \A d \in list : thread'[d] = thread[d] /\ type'[d] = type[d]
    BY <1>1, <1>2 DEF TypeInv
  <2>2. type'[c] = ty
    BY <1>1, <1>2 DEF TypeInv
  <2>3. CASE ty = "Sync"
    <3>1. ~\E u \in Thread : Emitting(u)
      BY <1>1, <1>2, <2>3, UsingUses
    <3> QED BY <1>1, <3>1, CircleSame DEF ApartInv
  <2>4. CASE ty # "Sync"
    <3>1. Waited' \subseteq Waited
      BY <1>1, <2>1, <2>2, <2>4 DEF Waited
    <3> QED BY <1>1, <3>1, CircleSame DEF CircleInv, ApartInv
  <2> QED BY <2>3, <2>4
<1> QED BY <1>3, <1>4, <1>5, <1>6 DEF CircleInv

LEMMA CircleFinish ==
  ASSUME CircleInv, NEW t \in Thread, Finish(t)
  PROVE  CircleInv'
<1>1. /\ stack[t] = <<>> /\ open' = [open EXCEPT ![t] = FALSE]
      /\ UNCHANGED <<list, mutex, thread, type, tasks, stack>>
  BY DEF Finish, connectorVars, connVars
<1>2. OpenInv' /\ LayerInv' /\ HolderInv' /\ StandsInv'
  BY <1>1 DEF CircleInv, OpenInv, LayerInv, HolderInv, StandsInv, Stands
<1>3. ClearInv'
  <2> SUFFICES ASSUME NEW u \in Thread, NEW f \in ToSet(stack[u]) PROVE Clear(u, f)'
    BY <1>1 DEF ClearInv
  <2>1. u # t
    BY <1>1 DEF ToSet
  <2>2. open'[u] = open[u]
    BY <1>1, <2>1 DEF CircleInv, OpenInv
  <2> QED BY <1>1, <2>2 DEF CircleInv, ClearInv, Clear
<1>4. ApartInv'
  <2>1. Waited' = Waited
    BY <1>1 DEF Waited
  <2> QED BY <1>1, <2>1, CircleSame DEF CircleInv, ApartInv
<1> QED BY <1>2, <1>3, <1>4 DEF CircleInv

\* The mutex is taken: what the thread does below is no use of it.
LEMMA LockCircle ==
  ASSUME IInv, CircleInv, NEW t \in Thread, stack[t] # <<>>, mutex' = t, NEW f \in FrameSet,
         Holds(f), f.op = Top(t).op, f.pc = "next",
         stack' = Replaced(t, f), UNCHANGED <<open, list, type, thread, tasks>>, mutex = None
  PROVE  CircleInv'
<1>0. TypeInv /\ Top(t) \in ToSet(stack[t])
  BY FramesSet DEF IInv
<1>1. Changes(t, {Top(t)}, {f}) /\ ConnsLess
  BY <1>0, ReplaceChanges DEF ConnsLess
<1>2. LayerInv'
  BY <1>1, LayerStep DEF CircleInv
<1>3. HolderInv'
  BY <1>1 DEF HolderInv, Changes
<1>4. \A g \in ToSet(stack'[t]) : Lower(g) \/ g = f
  <2>1. PICK r \in Seq(FrameSet) : r = stack'[t]
    <3>1. stack'[t] = Append(Front(stack[t]), f)
      BY <1>0 DEF Replaced, TypeInv
    <3>2. PICK s \in Seq(FrameSet) : s = Front(stack[t])
      BY <1>0, StackSets DEF TypeInv
    <3>3. Append(s, f) \in Seq(FrameSet)
      BY StackSets
    <3> QED BY <3>1, <3>2, <3>3
  <2>2. r # <<>>
    BY <1>1, <2>1 DEF Changes, ToSet
  <2>3. ToSet(r) = ToSet(Front(r)) \cup {Last(r)}
    BY <2>2, StackSets
  <2>4. \A g \in ToSet(Front(r)) : Lower(g)
    BY <1>2, <2>1, <2>2 DEF LayerInv, Layered
  <2>5. Lower(Last(r)) \/ Last(r) = f
    BY <1>1, <2>1, <2>2 DEF Changes, CircleInv, LayerInv
  <2> QED BY <2>1, <2>3, <2>4, <2>5
<1>5. ClearInv'
  <2> SUFFICES ASSUME NEW u \in Thread, NEW g \in ToSet(stack'[u]) PROVE Clear(u, g)'
    BY DEF ClearInv
  <2>1. CASE u = t
    <3>1. Lower(g) \/ g = f
      BY <1>4, <2>1
    <3> QED BY <3>1 DEF Clear, Lower, Holds
  <2>2. CASE u # t
    BY <2>2 DEF Clear
  <2> QED BY <2>1, <2>2
<1>6. StandsInv'
  <2>1. Stands(t, f)
    BY DEF Stands
  <2> QED BY <1>1, <2>1, StandsStep DEF CircleInv
<1>7. ApartInv'
  <2>1. /\ f.op # "disconnect"
        /\ f.op # "call" => Using(t)
        /\ f.op = "emit" => Emitting(t)
    BY <1>0 DEF Holds, Using, Emitting
  <2>2. \A u \in Thread : Deletes(u)' => Using(u)
    BY SameTasks DEF Using
  <2>3. UseLess
    BY <1>1, <2>1, <2>2, UseLessChanges
  <2> QED BY <1>1, <2>3, ApartKept DEF CircleInv
<1>8. OpenInv'
  BY DEF CircleInv, OpenInv
<1> QED BY <1>2, <1>3, <1>5, <1>6, <1>7, <1>8 DEF CircleInv

\* A frame leaves that held the mutex, or that is the last to see the connection.
LEMMA LetGoCircle ==
  ASSUME IInv, CircleInv, NEW t \in Thread, stack[t] # <<>>, mutex' = None, stack' = Popped(t),
         UNCHANGED <<open, type, thread, tasks>>, list' \subseteq list, StandsInv'
  PROVE  CircleInv'
<1>1. Changes(t, {Top(t)}, {}) /\ ConnsLess
  BY PopChanges DEF IInv, ConnsLess
<1>2. LayerInv' /\ HolderInv' /\ OpenInv'
  BY <1>1, LayerStep DEF CircleInv, HolderInv, OpenInv
<1>3. ClearInv'
  BY <1>1, ClearStep DEF CircleInv
<1>4. \A u \in Thread : Deletes(u)' => Using(u)
  BY SameTasks DEF Using
<1>5. UseLess
  BY <1>1, <1>4, UseLessChanges
<1>6. ApartInv'
  BY <1>1, <1>5, ApartKept DEF CircleInv
<1> QED BY <1>2, <1>3, <1>6 DEF CircleInv

LEMMA CircleMutex ==
  ASSUME IInv, CircleInv, NEW t \in Thread,
         EmitLocks(t) \/ DestroyLocks(t) \/ EmitEnds(t) \/ DestroyEnds(t) \/ Unlist(t)
  PROVE  CircleInv'
<1>0. TypeInv
  BY DEF IInv
<1>1. CASE EmitLocks(t)
  <2>1. /\ stack[t] # <<>> /\ Top(t).op = "emit" /\ mutex = None /\ mutex' = t
        /\ stack' = Replaced(t, Frame("emit", "next", 0, Len(emitted) + 1, None))
        /\ UNCHANGED <<open, list, type, thread, tasks>>
    BY <1>1 DEF EmitLocks, At, Top, connVars
  <2>2. PICK f \in FrameSet : f = Frame("emit", "next", 0, Len(emitted) + 1, None) /\ f.op = "emit" /\ f.pc = "next"
    <3>1. Len(emitted) + 1 \in Nat
      BY <1>0 DEF TypeInv
    <3>2. Frame("emit", "next", 0, Len(emitted) + 1, None) \in FrameSet
      BY <3>1 DEF Frame, FrameSet, Ops, Pcs
    <3> QED BY <3>2 DEF Frame
  <2>3. Holds(f)
    BY <2>2 DEF Holds
  <2> QED BY <2>1, <2>2, <2>3, LockCircle
<1>2. CASE DestroyLocks(t)
  <2>1. /\ stack[t] # <<>> /\ Top(t).op = "destroy" /\ mutex = None /\ mutex' = t
        /\ stack' = Replaced(t, [Top(t) EXCEPT !.pc = "next"])
        /\ UNCHANGED <<open, list, type, thread, tasks>>
    BY <1>2 DEF DestroyLocks, At, Top, Goes, connVars
  <2>2. Top(t) \in FrameSet
    BY <1>0, <2>1, TopFacts
  <2>3. [Top(t) EXCEPT !.pc = "next"] \in FrameSet
    BY <2>2 DEF FrameSet, Pcs
  <2>4. PICK f \in FrameSet : f = [Top(t) EXCEPT !.pc = "next"] /\ f.op = Top(t).op /\ f.pc = "next"
    BY <2>2, <2>3 DEF FrameSet
  <2>5. Holds(f)
    BY <2>1, <2>4 DEF Holds
  <2> QED BY <2>1, <2>4, <2>5, LockCircle
<1>3. CASE EmitEnds(t)
  <2>1. /\ stack[t] # <<>> /\ stack' = Popped(t) /\ mutex' = None
        /\ UNCHANGED <<open, list, type, thread, tasks>>
    BY <1>3 DEF EmitEnds, At, connVars
  <2>2. Changes(t, {Top(t)}, {}) /\ ConnsLess
    BY <1>0, <2>1, PopChanges DEF ConnsLess
  <2>3. StandsInv'
    BY <2>1, <2>2, StandsStep DEF CircleInv
  <2> QED BY <2>1, <2>3, LetGoCircle
<1>4. CASE DestroyEnds(t)
  <2>1. /\ stack[t] # <<>> /\ Top(t).op = "destroy" /\ Top(t).pc = "next"
        /\ stack' = Popped(t) /\ mutex' = None /\ list' = {}
        /\ UNCHANGED <<open, type, thread, tasks>>
    BY <1>4 DEF DestroyEnds, At, Top, connVars
  <2>2. Changes(t, {Top(t)}, {})
    BY <1>0, <2>1, PopChanges
  <2>3. StandsInv'
    <3> SUFFICES ASSUME NEW u \in Thread, NEW f \in ToSet(stack'[u]), f.op = "emit", f.pc \in {"read", "post", "waits"}
                 PROVE  FALSE
      BY DEF StandsInv, Stands
    <3>1. f \in ToSet(stack[u])
      BY <2>2 DEF Changes
    <3>2. Holds(f) /\ Holds(Top(t))
      BY <2>1 DEF Holds
    <3>3. f = Top(t)
      BY <2>1, <3>1, <3>2, OnlyTop
    <3> QED BY <2>1, <3>3
  <2> QED BY <2>1, <2>3, LetGoCircle
<1>5. CASE Unlist(t)
  <2>1. /\ stack[t] # <<>> /\ mutex = None /\ list' \subseteq list
        /\ stack' = Popped(t) /\ mutex' = None
        /\ UNCHANGED <<open, type, thread, tasks>>
    BY <1>5 DEF Unlist, At
  <2>2. Changes(t, {Top(t)}, {})
    BY <1>0, <2>1, PopChanges
  <2>3. StandsInv'
    <3> SUFFICES ASSUME NEW u \in Thread, NEW f \in ToSet(stack'[u]), f.op = "emit", f.pc \in {"read", "post", "waits"}
                 PROVE  FALSE
      BY DEF StandsInv, Stands
    <3>1. f \in ToSet(stack[u])
      BY <2>2 DEF Changes
    <3> QED BY <2>1, <3>1, NobodyHolds DEF Holds
  <2> QED BY <2>1, <2>3, LetGoCircle
<1> QED BY <1>1, <1>2, <1>3, <1>4, <1>5

\* A thread that runs a task was at its loop, and does not hold the mutex.
LEMMA CircleRun ==
  ASSUME IInv, CircleInv, NEW t \in Thread, Run(t)
  PROVE  CircleInv'
<1>0. TypeInv
  BY DEF IInv
<1>1. /\ stack[t] = <<>> /\ tasks[t] # <<>> /\ stack' = Pushed(t, Head(tasks[t]))
      /\ tasks' = [tasks EXCEPT ![t] = Tail(@)]
      /\ UNCHANGED <<mutex, open, list, type, thread>>
  BY DEF Run, connectorVars, connVars
<1>2. /\ 1 \in DOMAIN tasks[t] /\ tasks[t][1] \in TaskSet /\ tasks[t][1] \in FrameSet
      /\ \A u \in Thread : \A k \in DOMAIN tasks'[u] : \E i \in DOMAIN tasks[u] : tasks'[u][k] = tasks[u][i]
  <2>1. \A u \in Thread : \A k \in DOMAIN tasks'[u] :
          \E i \in DOMAIN tasks[u] :
            /\ tasks'[u][k] = tasks[u][i] /\ (u = t => i = k + 1 /\ i > 1)
            /\ (u # t => i = k) /\ k \in Nat /\ i \in Nat
    BY <1>0, <1>1, RunFacts
  <2>2. 1 \in DOMAIN tasks[t] /\ tasks[t][1] \in TaskSet /\ tasks[t][1] \in FrameSet
    BY <1>0, <1>1, RunFacts
  <2> QED BY <2>1, <2>2
<1>3. PICK f \in FrameSet : f = Head(tasks[t]) /\ f = tasks[t][1] /\ f.op \in {"call", "delete"}
  <2>1. tasks[t][1] = Head(tasks[t])
    BY <1>0, <1>1 DEF TypeInv
  <2> QED BY <1>2, <2>1 DEF TaskSet
<1>4. Changes(t, {}, {f}) /\ ConnsLess
  BY <1>0, <1>1, <1>3, PushChanges DEF ConnsLess
<1>5. mutex # t
  BY <1>1 DEF CircleInv, HolderInv, ToSet
<1>6. Clear(t, f) /\ Stands(t, f)
  BY <1>3, <1>5 DEF Clear, Stands
<1>7. LayerInv' /\ HolderInv'
  BY <1>0, <1>1, <1>4, LayerStep, HolderStep DEF CircleInv
<1>8. ClearInv' /\ StandsInv' /\ OpenInv'
  BY <1>1, <1>4, <1>6, ClearStep, StandsStep DEF CircleInv, OpenInv
<1>9. ApartInv'
  <2>1. \A u \in Thread : Deletes(u)' => Using(u)
    BY <1>2 DEF Using, Deletes
  <2>2. f.op # "call" => Using(t)
    BY <1>2, <1>3 DEF Using, Deletes
  <2>3. UseLess
    BY <1>3, <1>4, <2>1, <2>2, UseLessChanges
  <2> QED BY <1>4, <2>3, ApartKept DEF CircleInv
<1> QED BY <1>7, <1>8, <1>9 DEF CircleInv

\* The holder of the mutex posts the deletion.
LEMMA CircleDecide ==
  ASSUME IInv, CircleInv, NEW t \in Thread, Decide(t)
  PROVE  CircleInv'
<1>0. TypeInv
  BY DEF IInv
<1>1. /\ stack[t] # <<>> /\ Top(t).op = "disconnect"
      /\ UNCHANGED <<mutex, open, list, type, thread>>
      /\ \/ /\ Top(t).peer # t \/ ~open[Top(t).peer]
            /\ stack' = Replaced(t, Frame("delete", "release", Top(t).conn, 0, None)) /\ tasks' = tasks
         \/ /\ stack' = Popped(t)
            /\ tasks' = [tasks EXCEPT ![Top(t).peer] =
                           Append(tasks[Top(t).peer], Frame("delete", "release", Top(t).conn, 0, None))]
  BY DEF Decide, At, Top, connectorVars, connVars
<1>2. Top(t) \in FrameSet /\ Top(t) \in ToSet(stack[t]) /\ Using(t) /\ ConnsLess
  BY <1>0, <1>1, TopFacts, FramesSet DEF Using, ConnsLess
<1>3. OpenInv' /\ ~Holds(Top(t))
  BY <1>1 DEF CircleInv, OpenInv, Holds
<1>4. ASSUME Top(t).peer # t \/ ~open[Top(t).peer], tasks' = tasks,
             stack' = Replaced(t, Frame("delete", "release", Top(t).conn, 0, None))
      PROVE  CircleInv'
  <2>1. PICK d \in FrameSet : d = Frame("delete", "release", Top(t).conn, 0, None) /\ d.op = "delete"
    <3>1. Frame("delete", "release", Top(t).conn, 0, None) \in FrameSet
      BY <1>2 DEF Frame, FrameSet, Ops, Pcs
    <3> QED BY <3>1 DEF Frame
  <2>2. Changes(t, {Top(t)}, {d})
    BY <1>0, <1>1, <1>4, <2>1, ReplaceChanges
  <2>3. mutex # t
    BY <1>1, <1>2, <1>4 DEF CircleInv, ClearInv, Clear
  <2>4. Clear(t, d) /\ Stands(t, d)
    BY <2>1, <2>3 DEF Clear, Stands
  <2>5. LayerInv' /\ HolderInv'
    BY <1>0, <1>1, <1>3, <2>2, LayerStep, HolderStep DEF CircleInv
  <2>6. ClearInv' /\ StandsInv'
    BY <1>1, <1>2, <2>2, <2>4, ClearStep, StandsStep DEF CircleInv
  <2>7. \A u \in Thread : Deletes(u)' => Using(u)
    BY <1>4, SameTasks DEF Using
  <2>8. UseLess
    BY <1>2, <2>1, <2>2, <2>7, UseLessChanges
  <2>9. ApartInv'
    BY <1>2, <2>8, ApartKept DEF CircleInv
  <2> QED BY <1>3, <2>5, <2>6, <2>9 DEF CircleInv
<1>5. ASSUME stack' = Popped(t),
             tasks' = [tasks EXCEPT ![Top(t).peer] =
                         Append(tasks[Top(t).peer], Frame("delete", "release", Top(t).conn, 0, None))]
      PROVE  CircleInv'
  <2>1. Changes(t, {Top(t)}, {})
    BY <1>0, <1>1, <1>5, PopChanges
  <2>2. LayerInv' /\ HolderInv'
    BY <1>0, <1>1, <1>3, <2>1, LayerStep, HolderStep DEF CircleInv
  <2>3. ClearInv' /\ StandsInv'
    BY <1>1, <1>2, <2>1, ClearStep, StandsStep DEF CircleInv
  <2>4. ASSUME NEW u \in Thread, Deletes(u)' PROVE Using(u)
    <3>1. CASE u = Top(t).peer
      BY <1>1, <1>2, <3>1 DEF Using
    <3>2. CASE u # Top(t).peer
      <4>1. tasks'[u] = tasks[u]
        BY <1>0, <1>5, <3>2 DEF TypeInv
      <4> QED BY <2>4, <4>1 DEF Deletes, Using
    <3> QED BY <3>1, <3>2
  <2>5. UseLess
    BY <2>1, <2>4, UseLessChanges
  <2>6. ApartInv'
    BY <1>2, <2>5, ApartKept DEF CircleInv
  <2> QED BY <1>3, <2>2, <2>3, <2>6 DEF CircleInv
<1> QED BY <1>1, <1>4, <1>5

LEMMA CircleReturnSync ==
  ASSUME IInv, CircleInv, NEW t \in Thread, ReturnSync(t)
  PROVE  CircleInv'
<1>0. TypeInv
  BY DEF IInv
<1>1. PICK u \in Thread, e \in FrameSet, g \in FrameSet : SyncReturns(t, u, e, g)
  BY ReturnSyncChanges
<1>2. UNCHANGED <<mutex, open, list, type, thread, tasks>>
  BY DEF ReturnSync, connectorVars, connVars
<1>3. /\ g.op = "emit" /\ g.pc = "next" /\ Holds(g) /\ e.op = "emit" /\ e \in ToSet(stack[u])
      /\ g \in ToSet(stack'[u])
      /\ \A v \in Thread : \A f \in ToSet(stack'[v]) : f \in ToSet(stack[v]) \/ (v = u /\ f = g)
  <2>1. g.op = "emit" /\ g.pc = "next" /\ e.op = "emit" /\ e \in ToSet(stack[u]) /\ g \in ToSet(stack'[u])
    BY <1>1 DEF SyncReturns
  <2>2. Holds(g)
    BY <2>1 DEF Holds
  <2>3. ToSet(stack'[t]) = {}
    BY <1>1 DEF SyncReturns, ToSet
  <2>4. \A v \in Thread : \A f \in ToSet(stack'[v]) : f \in ToSet(stack[v]) \/ (v = u /\ f = g)
    BY <1>1, <2>3 DEF SyncReturns
  <2> QED BY <2>1, <2>2, <2>4
<1>4. LayerInv'
  BY <1>1 DEF SyncReturns, CircleInv, LayerInv, Layered
<1>5. HolderInv'
  <2> SUFFICES ASSUME mutex # None PROVE \E f \in ToSet(stack'[mutex]) : Holds(f)
    BY <1>2 DEF HolderInv
  <2>1. PICK f \in ToSet(stack[mutex]) : Holds(f)
    BY DEF CircleInv, HolderInv
  <2>2. mutex \in Thread
    BY <1>0 DEF TypeInv
  <2>3. mutex # t
    BY <1>1, <2>1 DEF SyncReturns, Holds
  <2>4. CASE mutex = u
    BY <1>3, <2>4
  <2>5. CASE mutex # u
    BY <1>1, <2>1, <2>2, <2>3, <2>5 DEF SyncReturns
  <2> QED BY <2>4, <2>5
<1>6. ClearInv'
  <2> SUFFICES ASSUME NEW v \in Thread, NEW f \in ToSet(stack'[v]) PROVE Clear(v, f)'
    BY DEF ClearInv
  <2>1. CASE f \in ToSet(stack[v])
    BY <1>2, <2>1 DEF CircleInv, ClearInv, Clear
  <2>2. CASE f = g
    BY <1>3, <2>2 DEF Clear
  <2> QED BY <1>3, <2>1, <2>2
<1>7. StandsInv'
  <2> SUFFICES ASSUME NEW v \in Thread, NEW f \in ToSet(stack'[v]) PROVE Stands(v, f)'
    BY DEF StandsInv
  <2>1. CASE f \in ToSet(stack[v])
    BY <1>2, <2>1 DEF CircleInv, StandsInv, Stands
  <2>2. CASE f = g
    BY <1>3, <2>2 DEF Stands
  <2> QED BY <1>3, <2>1, <2>2
<1>8. ApartInv'
  <2>1. ASSUME NEW v \in Thread, Emitting(v)' PROVE Emitting(v)
    BY <1>3, <2>1 DEF Emitting
  <2>2. ASSUME NEW v \in Thread, Using(v)' PROVE Using(v)
    <3>1. CASE \E f \in ToSet(stack'[v]) : f.op # "call"
      BY <1>3, <3>1 DEF Using
    <3>2. CASE Deletes(v)'
      BY <1>2, <3>2 DEF Using, Deletes
    <3>3. CASE \E w \in Thread : \E f \in ToSet(stack'[w]) : f.op = "disconnect" /\ f.peer = v
      BY <1>3, <3>3 DEF Using
    <3> QED BY <2>2, <3>1, <3>2, <3>3 DEF Using
  <2>3. UseLess /\ ConnsLess
    BY <1>2, <2>1, <2>2 DEF UseLess, ConnsLess
  <2> QED BY <2>3, ApartKept DEF CircleInv
<1>9. OpenInv'
  BY <1>2 DEF CircleInv, OpenInv
<1> QED BY <1>4, <1>5, <1>6, <1>7, <1>8, <1>9 DEF CircleInv

LEMMA CircleStep == NoUseInCall => (IInv /\ CircleInv /\ [Next]_vars => CircleInv')
<1> SUFFICES ASSUME NoUseInCall, IInv, CircleInv, [Next]_vars PROVE CircleInv'
  OBVIOUS
<1>1. CASE UNCHANGED vars
  <2>1. UNCHANGED <<mutex, open, list, type, thread, tasks, stack>>
    BY <1>1 DEF vars, connectorVars, connVars, threadVars
  <2>2. OpenInv' /\ LayerInv' /\ HolderInv' /\ ClearInv' /\ StandsInv'
    BY <2>1 DEF CircleInv, OpenInv, LayerInv, HolderInv, ClearInv, Clear, StandsInv, Stands
  <2>3. UseLess /\ ConnsLess
    BY <2>1, CircleSame DEF UseLess, ConnsLess
  <2> QED BY <2>2, <2>3, ApartKept DEF CircleInv
<1>2. ASSUME NEW t \in Thread, NEW c \in Conn, DestroyGuard(t, c) PROVE CircleInv'
  BY <1>2, CircleUsers
<1>3. ASSUME NEW t \in Thread, NEW c \in Conn, NEW ty \in Types, Connect(t, c, ty) PROVE CircleInv'
  BY <1>3, CircleConnect
<1>4. ASSUME NEW t \in Thread, Emit(t) \/ Destroy(t) \/ Finish(t) PROVE CircleInv'
  BY <1>4, CircleUsers, CircleFinish
<1>5. ASSUME NEW t \in Thread,
             \/ EmitNext(t) \/ DestroyNext(t) \/ DestroyConnection(t) \/ Release(t) \/ ReturnQueued(t)
             \/ Prepare(t) \/ Post(t) \/ PostSync(t) \/ CallInPlace(t) \/ ReturnInPlace(t)
      PROVE  CircleInv'
  BY <1>5, CircleLoops, CirclePrepare, CirclePost, CircleCalls
<1>6. ASSUME NEW t \in Thread,
             \/ EmitLocks(t) \/ DestroyLocks(t) \/ EmitEnds(t) \/ DestroyEnds(t) \/ Unlist(t)
             \/ Run(t) \/ Decide(t) \/ ReturnSync(t)
      PROVE  CircleInv'
  BY <1>6, CircleMutex, CircleRun, CircleDecide, CircleReturnSync
<1> QED BY <1>1, <1>2, <1>3, <1>4, <1>5, <1>6 DEF Next

LEMMA CircleInit == Init => CircleInv
<1> SUFFICES ASSUME Init PROVE CircleInv
  OBVIOUS
<1>1. \A t \in Thread : stack[t] = <<>> /\ ToSet(stack[t]) = {}
  BY DEF Init, ToSet
<1>2. LayerInv /\ ClearInv /\ StandsInv /\ ApartInv
  BY <1>1 DEF LayerInv, Layered, ClearInv, StandsInv, ApartInv, Emitting
<1>3. OpenInv /\ HolderInv
  BY DEF Init, OpenInv, HolderInv
<1> QED BY <1>2, <1>3 DEF CircleInv

\* No thread waits for itself.
LEMMA CircleOut == IInv /\ CircleInv => NoCircle
<1> SUFFICES ASSUME IInv, CircleInv PROVE NoCircle
  OBVIOUS
<1>0. TypeInv /\ \A t \in Thread : Frames(t) = ToSet(stack[t]) /\ (stack[t] # <<>> => Top(t) \in ToSet(stack[t]))
  BY FramesSet DEF IInv
<1>1. ASSUME NEW t \in Thread, At(t, "emit", "lock") \/ At(t, "delete", "lock") \/ At(t, "destroy", "lock")
      PROVE  /\ mutex # t
             /\ mutex # None => \A f \in Frames(mutex) :
                  f.op = "emit" /\ f.pc = "waits" => thread[f.conn] # t
  <2>1. /\ stack[t] # <<>> /\ Top(t) \in ToSet(stack[t]) /\ Top(t).op \in {"emit", "delete", "destroy"}
        /\ Top(t).op = "delete" \/ Top(t).pc = "lock"
    BY <1>0, <1>1 DEF At, Top
  <2>2. mutex # t
    BY <2>1 DEF CircleInv, ClearInv, Clear
  <2>3. ASSUME mutex # None, NEW f \in Frames(mutex), f.op = "emit", f.pc = "waits", thread[f.conn] = t PROVE FALSE
    <3>1. mutex \in Thread /\ f \in ToSet(stack[mutex])
      BY <1>0, <2>3 DEF TypeInv
    <3>2. f.conn \in list /\ type[f.conn] = "Sync"
      BY <2>3, <3>1 DEF CircleInv, StandsInv, Stands
    <3>3. t \in Waited
      BY <2>3, <3>2 DEF Waited
    <3>4. Emitting(mutex) /\ Using(t)
      BY <2>1, <2>3, <3>1 DEF Emitting, Using
    <3> QED BY <2>2, <3>1, <3>3, <3>4 DEF CircleInv, ApartInv
  <2> QED BY <2>2, <2>3
<1>2. mutex # None => \E f \in Frames(mutex) : f.op \in {"emit", "destroy"} /\ f.pc # "lock"
  BY <1>0 DEF CircleInv, HolderInv, Holds, TypeInv
<1> QED BY <1>1, <1>2 DEF NoCircle

\* If the connector is not used by the functions it calls in place, nor by the threads an
\* emission may wait for, and is destroyed when nobody uses it: no thread waits for a mutex
\* that it holds, or that is held by an emission which waits for this thread; and the mutex
\* is held only by those that let go of it (operator(), ~Connection, destroyConnection()).
THEOREM NobodyWaitsForItself == NoUseInCall => (Spec => []NoCircle)
<1> SUFFICES ASSUME NoUseInCall PROVE Spec => []NoCircle
  OBVIOUS
<1>1. Init => IInv /\ CircleInv
  BY InitInv, CircleInit
<1>2. IInv /\ CircleInv /\ [Next]_vars => (IInv /\ CircleInv)'
  BY StepInv, CircleStep
<1>3. IInv /\ CircleInv => NoCircle
  BY CircleOut
<1> QED BY <1>1, <1>2, <1>3, PTL DEF Spec

(***************************************************************************)
(* Nothing that was deleted is used, if the users keep all the rules.       *)
(***************************************************************************)
Orderly == Calls = {}

\* The mutex is held by ~AbstractFunctionConnector().
Destroying == \E t \in Thread : \E f \in ToSet(stack[t]) : f.op = "destroy" /\ f.pc # "lock"

\* A connection that has its thread is whole, and so is one that is listed.
GuardInv == \A c \in Conn : guarded[c] => thread[c] # None /\ life[c] = "made"
WholeInv ==
  /\ linked \in [Conn -> BOOLEAN]
  /\ \A c \in Conn :
       /\ thread[c] # None => life[c] = "made" \/ gone \/ Destroying
       /\ c \in list => Destroying \/ (linked[c] /\ life[c] \in {"made", "released"})
       /\ life[c] \in {"made", "released"} => (~gone => c \in list) /\ (gone => ~linked[c])

\* What is being deleted is whole until it lets go of its function, and no thread's any more.
Deletion(f) == f.op \in {"delete", "disconnect"}
Leaving(f) ==
  /\ Deletion(f) => /\ f.conn \in Conn /\ thread[f.conn] = None
                    /\ life[f.conn] = IF f.pc = "lock" THEN "released" ELSE "made"
  /\ f.op \in {"emit", "destroy"} \/ (f.op = "delete" /\ f.pc = "lock") => ~gone
LeavingInv ==
  /\ \A t \in Thread : \A f \in ToSet(stack[t]) : Leaving(f)
  /\ \A t \in Thread : \A k \in DOMAIN tasks[t] : DeleteTask(t, k) =>
       tasks[t][k].pc = "release" /\ life[tasks[t][k].conn] = "made"

\* A connection is deleted by one.
Removes(t, c) == \E f \in ToSet(stack[t]) : Deletion(f) /\ f.conn = c
RemovesLater(t, k, c) == DeleteTask(t, k) /\ tasks[t][k].conn = c
SoleInv == \A c \in Conn : \A t, u \in Thread :
  /\ Removes(t, c) /\ Removes(u, c) => t = u
  /\ Removes(t, c) => \A k \in DOMAIN tasks[u] : ~RemovesLater(u, k, c)
  /\ \A j \in DOMAIN tasks[t], k \in DOMAIN tasks[u] :
       RemovesLater(t, j, c) /\ RemovesLater(u, k, c) => t = u /\ j = k

\* While the connector is destroyed there are calls only; it has let go of what it passed.
Passed(f, c) == c < f.conn \/ (c = f.conn /\ f.pc = "next")
Alone(t, f) ==
  /\ \A u \in Thread : \A g \in ToSet(stack[u]) : g.op # "call" => u = t /\ g = f
  /\ \A u \in Thread : \A k \in DOMAIN tasks[u] : DeleteTask(u, k) => u = t
  /\ f.pc = "lock" => f.conn = 0
  /\ f.pc # "lock" => \A c \in list : /\ Passed(f, c) => ~linked[c]
                                      /\ ~Passed(f, c) /\ thread[c] # None => life[c] = "made"
  /\ f.pc = "read" => f.conn \in Conn /\ thread[f.conn] # None /\ life[f.conn] = "made" /\ ~linked[f.conn]
DestroyInv == \A t \in Thread : \A f \in ToSet(stack[t]) : f.op = "destroy" => Alone(t, f)

\* An emission at a connection finds it whole; only the loop of its own thread will delete it.
Busy(f) == f.op = "emit" /\ f.pc \in {"read", "post", "calls", "waits"}
OwnLoop(t, c) ==
  /\ \A u \in Thread : \A g \in ToSet(stack[u]) :
       Deletion(g) /\ g.conn = c => g.op = "disconnect" /\ u = t /\ g.peer = t /\ open[t]
  /\ \A u \in Thread : \A k \in DOMAIN tasks[u] : RemovesLater(u, k, c) => u = t
AtConn(t, f) ==
  /\ f.conn \in Conn /\ life[f.conn] = "made" /\ OwnLoop(t, f.conn)
  /\ f.pc # "calls" => thread[f.conn] # None
AtInv == \A t \in Thread : \A f \in ToSet(stack[t]) : Busy(f) => AtConn(t, f)

\* A call that holds nothing is one of the emission that waits for it, or is below it.
Bare(f) == f.op = "call" /\ f.pc \in {"inPlace", "sync"}
Theirs(f) == \A t \in Thread : \A e \in ToSet(stack[t]) : Emits(e) => Busy(e) /\ e.conn = f.conn
BareInv ==
  /\ \A t \in Thread : \A f \in ToSet(stack[t]) : Bare(f) => Theirs(f)
  /\ \A t \in Thread : \A k \in DOMAIN tasks[t] : Bare(tasks[t][k]) => Theirs(tasks[t][k])

\* A queued call holds its function, and nobody else is the same call.
QueuedCall(f, c, n) == f.op = "call" /\ f.pc = "queued" /\ f.conn = c /\ f.n = n
Runs(t, c, n) == \E f \in ToSet(stack[t]) : QueuedCall(f, c, n)
Waits(t, c, n) == \E k \in DOMAIN tasks[t] : QueuedCall(tasks[t][k], c, n)
Held(c) == {n \in Nat : \E t \in Thread : Runs(t, c, n) \/ Waits(t, c, n)}
CallsInv == \A t \in Thread : \A i \in DOMAIN stack[t] : stack[t][i].op = "call" =>
  /\ stack[t][i].pc = "queued" => i = 1 /\ stack[t][i].conn \in Conn
  /\ stack[t][i].pc \in {"queued", "inPlace", "sync"}
QueuedInv == \A t \in Thread, c \in Conn, n \in Nat : Runs(t, c, n) =>
  /\ \E j \in DOMAIN called[c] : called[c][j] = n
  /\ \A u \in Thread : ~Waits(u, c, n) /\ (Runs(u, c, n) => u = t)
Whole(c) == IF life[c] = "made" THEN 1 ELSE 0
\* A task that was made and is not handed over yet holds the function.
Hands(c) == type[c] # "Sync" /\ \E t \in Thread : \E f \in ToSet(stack[t]) : Passes(f) /\ f.conn = c
Owned(c) == Whole(c) + IF Hands(c) THEN 1 ELSE 0
RefInv ==
  /\ ref \in [Conn -> Int]
  /\ \A c \in Conn : Cardinality(Held(c)) + Owned(c) <= ref[c]

ConnInv == GuardInv /\ WholeInv
EndInv == LeavingInv /\ SoleInv /\ DestroyInv
UseInv == AtInv /\ BareInv
CountInv == CallsInv /\ QueuedInv /\ RefInv
LiveInv == ConnInv /\ EndInv /\ UseInv /\ CountInv

AllInv == IInv /\ DeletionInv /\ CircleInv /\ LiveInv

(***************************************************************************)
(* Frames above others.                                                     *)
(***************************************************************************)
\* Only the frame on top is neither a call nor an emission that called in place.
LEMMA TopAlone ==
  ASSUME IInv, CircleInv, NEW t \in Thread, stack[t] # <<>>
  PROVE  \A f \in ToSet(stack[t]) : Lower(f) \/ f = Top(t)
<1>1. PICK q \in Seq(FrameSet) : q = stack[t] /\ q # <<>> /\ ToSet(q) = ToSet(Front(q)) \cup {Last(q)}
  BY StackSets DEF IInv, TypeInv
<1>2. \A f \in ToSet(Front(q)) : Lower(f)
  BY <1>1 DEF CircleInv, LayerInv, Layered
<1> QED BY <1>1, <1>2 DEF Top

LEMMA NewAlone ==
  ASSUME TypeInv', CircleInv, NEW t \in Thread, NEW old, NEW new, Changes(t, old, new)
  PROVE  \A f \in ToSet(stack'[t]) : Lower(f) \/ f \in new
<1>1. PICK q \in Seq(FrameSet) : q = stack'[t] /\ (q # <<>> => ToSet(q) = ToSet(Front(q)) \cup {Last(q)})
  BY StackSets DEF TypeInv
<1>2. q = <<>> => ToSet(q) = {}
  BY DEF ToSet
<1>3. q # <<>> => (\A f \in ToSet(Front(q)) : Lower(f)) /\ (Lower(Last(q)) \/ Last(q) \in new)
  BY <1>1 DEF Changes, CircleInv, LayerInv, Layered
<1> QED BY <1>1, <1>2, <1>3

\* Between the lock and the unlock of the mutex there is one frame.
LEMMA OneHolds ==
  ASSUME IInv, NEW t \in Thread, NEW f \in ToSet(stack[t]), Holds(f),
         NEW u \in Thread, NEW g \in ToSet(stack[u]), Holds(g)
  PROVE  t = u /\ f = g /\ mutex = t
<1>1. PICK i \in DOMAIN stack[t], j \in DOMAIN stack[u] : f = stack[t][i] /\ g = stack[u][j]
  BY DEF ToSet
<1>2. mutex = t /\ mutex = u
  BY <1>1 DEF IInv, HoldInv
<1>3. i = j
  BY <1>1, <1>2 DEF IInv, HoldInv
<1> QED BY <1>1, <1>2, <1>3

\* A call that holds nothing has its emission, which called it or waits for it.
LEMMA BareEmits ==
  ASSUME IInv,
         \/ \E t \in Thread : \E f \in ToSet(stack[t]) : Bare(f)
         \/ \E t \in Thread : \E k \in DOMAIN tasks[t] : Bare(tasks[t][k])
  PROVE  \E u \in Thread : \E e \in ToSet(stack[u]) : Emits(e) /\ e.pc \in {"calls", "waits"}
<1>0. TypeInv /\ HoldInv /\ SyncInv /\ PostInv
  BY DEF IInv
<1>1. ASSUME NEW u, WaitsFor(u) PROVE u \in Thread /\ \E e \in ToSet(stack[u]) : Emits(e) /\ e.pc = "waits"
  <2>1. u \in Thread /\ stack[u] # <<>>
    BY <1>1 DEF WaitsFor
  <2>2. Top(u) \in ToSet(stack[u])
    BY <1>0, <2>1, FramesSet
  <2> QED BY <1>1, <2>1, <2>2 DEF WaitsFor, Emits, Top
<1>2. ASSUME NEW t \in Thread, NEW f \in ToSet(stack[t]), Bare(f)
      PROVE  \E u \in Thread : \E e \in ToSet(stack[u]) : Emits(e) /\ e.pc \in {"calls", "waits"}
  <2>1. PICK i \in DOMAIN stack[t] : f = stack[t][i]
    BY <1>2 DEF ToSet
  <2>2. DOMAIN stack[t] = 1..Len(stack[t]) /\ Len(stack[t]) \in Nat /\ (stack[t] = <<>> <=> Len(stack[t]) = 0)
    BY <1>0, Domains
  <2>3. CASE IsCall(f, "inPlace")
    <3>1. i > 1 /\ stack[t][i - 1].op = "emit" /\ stack[t][i - 1].pc = "calls"
      BY <1>0, <2>1, <2>3 DEF HoldInv
    <3>2. i - 1 \in DOMAIN stack[t]
      BY <2>2, <3>1
    <3> QED BY <3>1, <3>2 DEF ToSet, Emits
  <2>4. CASE IsCall(f, "sync")
    <3>1. i = 1
      BY <1>0, <2>1, <2>4 DEF HoldInv
    <3>2. SyncRuns(t)
      BY <2>1, <2>2, <2>4, <3>1 DEF SyncRuns
    <3>3. WaitsFor(stack[t][1].peer)
      BY <1>0, <3>2 DEF SyncInv
    <3> QED BY <1>1, <3>3
  <2> QED BY <1>2, <2>3, <2>4 DEF Bare, IsCall
<1>3. ASSUME NEW t \in Thread, NEW k \in DOMAIN tasks[t], Bare(tasks[t][k])
      PROVE  \E u \in Thread : \E e \in ToSet(stack[u]) : Emits(e) /\ e.pc \in {"calls", "waits"}
  <2>1. Posted(t, k)
    BY <1>3 DEF Posted, Bare
  <2>2. tasks[t][k].pc \in {"sync", "queued"}
    BY <1>0, <2>1 DEF PostInv
  <2>3. SyncTask(t, k)
    BY <1>3, <2>2 DEF SyncTask, IsCall, Bare
  <2>4. WaitsFor(tasks[t][k].peer)
    BY <1>0, <2>3 DEF SyncInv
  <2> QED BY <1>1, <2>4
<1> QED BY <1>2, <1>3

NoBare ==
  /\ \A t \in Thread : \A f \in ToSet(stack[t]) : ~Bare(f)
  /\ \A t \in Thread : \A k \in DOMAIN tasks[t] : ~Bare(tasks[t][k])

LEMMA NoneBare ==
  ASSUME IInv,
         \/ mutex = None
         \/ \E t \in Thread : stack[t] # <<>> /\ Holds(Top(t)) /\ Top(t).pc \in {"next", "read", "post"}
  PROVE  NoBare
<1> SUFFICES ASSUME NEW u \in Thread, NEW e \in ToSet(stack[u]), Emits(e), e.pc \in {"calls", "waits"} PROVE FALSE
  BY BareEmits DEF NoBare
<1>1. Holds(e)
  BY DEF Holds, Emits
<1>2. mutex # None
  BY <1>1, NobodyHolds
<1>3. PICK t \in Thread : stack[t] # <<>> /\ Holds(Top(t)) /\ Top(t).pc \in {"next", "read", "post"}
  BY <1>2
<1>4. Top(t) \in ToSet(stack[t])
  BY <1>3, FramesSet DEF IInv
<1>5. Top(t) = e
  BY <1>1, <1>3, <1>4, OneHolds
<1> QED BY <1>3, <1>5

(***************************************************************************)
(* Steps that begin no deletion and no destruction.                         *)
(***************************************************************************)
\* The frames that are no calls are as before, but for where an emission is.
NoNewEnd == \A t \in Thread : \A f \in ToSet(stack'[t]) : f.op # "call" =>
  \E g \in ToSet(stack[t]) : g.op = f.op /\ (f.op # "emit" => g = f)
\* The destructor goes on.
DestroyStays == \A t \in Thread : \A f \in ToSet(stack[t]) : f.op = "destroy" => f \in ToSet(stack'[t])
\* The deletions that are posted have, in each queue, moved on by some places.
Moved(s) == \A t \in Thread : \A k \in DOMAIN tasks'[t] : tasks'[t][k].op = "delete" =>
  /\ k \in Nat /\ k + s[t] \in DOMAIN tasks[t] /\ tasks'[t][k] = tasks[t][k + s[t]]
NoNewTask == \E s \in [Thread -> Nat] : Moved(s)
ConnsSame == UNCHANGED <<list, gone, life, thread, type, linked, guarded>>
Tame == NoNewEnd /\ DestroyStays /\ NoNewTask /\ ConnsSame

LEMMA SameConn ==
  ASSUME ConnInv, ConnsSame, Destroying => Destroying' PROVE ConnInv'
BY DEF ConnInv, GuardInv, WholeInv, ConnsSame

LEMMA StaysDestroying == DestroyStays => (Destroying => Destroying')
BY DEF DestroyStays, Destroying

LEMMA TameRemoves ==
  ASSUME NoNewEnd PROVE \A t \in Thread, c \in Conn : Removes(t, c)' => Removes(t, c)
<1> SUFFICES ASSUME NEW t \in Thread, NEW c \in Conn, Removes(t, c)' PROVE Removes(t, c)
  OBVIOUS
<1>1. PICK f \in ToSet(stack'[t]) : Deletion(f) /\ f.conn = c
  BY DEF Removes
<1>2. f \in ToSet(stack[t])
  BY <1>1 DEF NoNewEnd, Deletion
<1> QED BY <1>1, <1>2 DEF Removes

LEMMA SoleKept ==
  ASSUME SoleInv, \A t \in Thread, c \in Conn : Removes(t, c)' => Removes(t, c), NoNewTask
  PROVE  SoleInv'
<1>1. PICK s \in [Thread -> Nat] : Moved(s)
  BY DEF NoNewTask
<1>2. \A t \in Thread, c \in Conn : \A k \in DOMAIN tasks'[t] : RemovesLater(t, k, c)' =>
        k + s[t] \in DOMAIN tasks[t] /\ k \in Nat /\ RemovesLater(t, k + s[t], c)
  BY <1>1 DEF Moved, RemovesLater, DeleteTask
<1>3. ASSUME NEW c \in Conn, NEW t \in Thread, NEW u \in Thread, Removes(t, c)',
             NEW k \in DOMAIN tasks'[u], RemovesLater(u, k, c)'
      PROVE  FALSE
  <2>1. Removes(t, c) /\ k + s[u] \in DOMAIN tasks[u] /\ RemovesLater(u, k + s[u], c)
    BY <1>2, <1>3
  <2> QED BY <2>1 DEF SoleInv
<1>4. ASSUME NEW c \in Conn, NEW t \in Thread, NEW u \in Thread,
             NEW j \in DOMAIN tasks'[t], NEW k \in DOMAIN tasks'[u], RemovesLater(t, j, c)', RemovesLater(u, k, c)'
      PROVE  t = u /\ j = k
  <2>1. /\ j + s[t] \in DOMAIN tasks[t] /\ RemovesLater(t, j + s[t], c) /\ j \in Nat
        /\ k + s[u] \in DOMAIN tasks[u] /\ RemovesLater(u, k + s[u], c) /\ k \in Nat
    BY <1>2, <1>4
  <2>2. t = u /\ j + s[t] = k + s[u]
    BY <2>1 DEF SoleInv
  <2>3. s[t] \in Nat
    OBVIOUS
  <2> QED BY <2>1, <2>2, <2>3
<1>5. \A c \in Conn : \A t, u \in Thread : Removes(t, c)' /\ Removes(u, c)' => t = u
  BY DEF SoleInv
<1> QED BY <1>3, <1>4, <1>5 DEF SoleInv

LEMMA TameAlone ==
  ASSUME DestroyInv, Tame PROVE DestroyInv'
<1> SUFFICES ASSUME NEW t \in Thread, NEW f \in ToSet(stack'[t]), f.op = "destroy" PROVE Alone(t, f)'
  BY DEF DestroyInv
<1>1. f \in ToSet(stack[t])
  BY DEF Tame, NoNewEnd
<1>2. Alone(t, f)
  BY <1>1 DEF DestroyInv
<1>3. ASSUME NEW u \in Thread, NEW g \in ToSet(stack'[u]), g.op # "call" PROVE u = t /\ g = f
  <2>1. PICK h \in ToSet(stack[u]) : h.op = g.op /\ (g.op # "emit" => h = g)
    BY <1>3 DEF Tame, NoNewEnd
  <2>2. u = t /\ h = f
    BY <1>2, <1>3, <2>1 DEF Alone
  <2> QED BY <2>1, <2>2
<1>4. ASSUME NEW u \in Thread, NEW k \in DOMAIN tasks'[u], DeleteTask(u, k)' PROVE u = t
  <2>1. PICK s \in [Thread -> Nat] : Moved(s)
    BY DEF Tame, NoNewTask
  <2>2. DeleteTask(u, k + s[u]) /\ k + s[u] \in DOMAIN tasks[u]
    BY <1>4, <2>1 DEF Moved, DeleteTask
  <2> QED BY <1>2, <2>2 DEF Alone
<1> QED BY <1>2, <1>3, <1>4 DEF Alone, Passed, Tame, ConnsSame

LEMMA TameLeaving ==
  ASSUME LeavingInv, NoNewEnd, NoNewTask, UNCHANGED <<gone, life, thread>> PROVE LeavingInv'
<1>1. ASSUME NEW t \in Thread, NEW f \in ToSet(stack'[t]) PROVE Leaving(f)'
  <2>1. CASE f.op = "call"
    BY <2>1 DEF Leaving, Deletion
  <2>2. CASE f.op = "emit"
    <3>1. PICK g \in ToSet(stack[t]) : g.op = "emit"
      BY <2>2 DEF NoNewEnd
    <3>2. ~gone
      BY <3>1 DEF LeavingInv, Leaving
    <3> QED BY <2>2, <3>2 DEF Leaving, Deletion
  <2>3. CASE f.op # "call" /\ f.op # "emit"
    <3>1. f \in ToSet(stack[t])
      BY <2>3 DEF NoNewEnd
    <3> QED BY <3>1 DEF LeavingInv, Leaving
  <2> QED BY <2>1, <2>2, <2>3
<1>2. ASSUME NEW t \in Thread, NEW k \in DOMAIN tasks'[t], DeleteTask(t, k)'
      PROVE  tasks'[t][k].pc = "release" /\ life'[tasks'[t][k].conn] = "made"
  <2>1. PICK s \in [Thread -> Nat] : Moved(s)
    BY DEF NoNewTask
  <2>2. DeleteTask(t, k + s[t]) /\ k + s[t] \in DOMAIN tasks[t] /\ tasks'[t][k] = tasks[t][k + s[t]]
    BY <1>2, <2>1 DEF Moved, DeleteTask
  <2> QED BY <2>2 DEF LeavingInv
<1> QED BY <1>1, <1>2 DEF LeavingInv

LEMMA TameStep ==
  ASSUME ConnInv, EndInv, Tame PROVE ConnInv' /\ EndInv'
<1>1. ConnInv'
  BY SameConn, StaysDestroying DEF Tame
<1>2. LeavingInv'
  BY TameLeaving DEF EndInv, Tame, ConnsSame
<1>3. SoleInv'
  BY TameRemoves, SoleKept DEF EndInv, Tame
<1>4. DestroyInv'
  BY TameAlone DEF EndInv
<1> QED BY <1>1, <1>2, <1>3, <1>4 DEF EndInv

\* The loop of the thread keeps the connections it has to delete.
LEMMA LoopKept ==
  ASSUME NoNewEnd, NoNewTask, NEW t \in Thread, open'[t] = open[t], NEW c, OwnLoop(t, c)
  PROVE  OwnLoop(t, c)'
<1>1. ASSUME NEW u \in Thread, NEW g \in ToSet(stack'[u]), Deletion(g), g.conn = c
      PROVE  g.op = "disconnect" /\ u = t /\ g.peer = t /\ open'[t]
  <2>1. g \in ToSet(stack[u])
    BY <1>1 DEF NoNewEnd, Deletion
  <2> QED BY <1>1, <2>1 DEF OwnLoop
<1>2. ASSUME NEW u \in Thread, NEW k \in DOMAIN tasks'[u], RemovesLater(u, k, c)' PROVE u = t
  <2>1. PICK s \in [Thread -> Nat] : Moved(s)
    BY DEF NoNewTask
  <2>2. RemovesLater(u, k + s[u], c) /\ k + s[u] \in DOMAIN tasks[u]
    BY <1>2, <2>1 DEF Moved, RemovesLater, DeleteTask
  <2> QED BY <2>2 DEF OwnLoop
<1> QED BY <1>1, <1>2 DEF OwnLoop

(***************************************************************************)
(* What a step leaves of the emissions and of the calls.                    *)
(***************************************************************************)
LEMMA AtKept ==
  ASSUME AtInv, NoNewEnd, NoNewTask, UNCHANGED <<life, thread, open>>,
         \A t \in Thread : \A f \in ToSet(stack'[t]) : Busy(f) =>
           \/ AtConn(t, f)'
           \/ \E g \in ToSet(stack[t]) : Busy(g) /\ g.conn = f.conn /\ (f.pc # "calls" => g.pc # "calls")
  PROVE  AtInv'
<1> SUFFICES ASSUME NEW t \in Thread, NEW f \in ToSet(stack'[t]), Busy(f) PROVE AtConn(t, f)'
  BY DEF AtInv
<1>1. ASSUME NEW g \in ToSet(stack[t]), Busy(g), g.conn = f.conn, f.pc # "calls" => g.pc # "calls"
      PROVE  AtConn(t, f)'
  <2>1. AtConn(t, g)
    BY <1>1 DEF AtInv
  <2>2. OwnLoop(t, g.conn)'
    BY <2>1, LoopKept DEF AtConn
  <2> QED BY <1>1, <2>1, <2>2 DEF AtConn
<1> QED BY <1>1

NoBusy == \A t \in Thread : \A f \in ToSet(stack[t]) : ~Busy(f)

LEMMA BareKept ==
  ASSUME BareInv,
         \A t \in Thread : \A f \in ToSet(stack'[t]) : Emits(f) => f \in ToSet(stack[t]),
         \A t \in Thread : \A f \in ToSet(stack'[t]) : Bare(f) =>
           f \in ToSet(stack[t]) \/ \E k \in DOMAIN tasks[t] : tasks[t][k] = f,
         \A t \in Thread : \A k \in DOMAIN tasks'[t] : Bare(tasks'[t][k]) =>
           \E j \in DOMAIN tasks[t] : tasks[t][j] = tasks'[t][k]
  PROVE  BareInv'
<1>1. \A f : Theirs(f) => Theirs(f)'
  BY DEF Theirs
<1> QED BY <1>1 DEF BareInv

\* Calls stay where they are, or are made in place.
CallsStay == \A t \in Thread : \A i \in DOMAIN stack'[t] : stack'[t][i].op = "call" =>
  (i \in DOMAIN stack[t] /\ stack'[t][i] = stack[t][i]) \/ stack'[t][i].pc = "inPlace"

LEMMA StayCalls == CallsInv /\ CallsStay => CallsInv'
BY DEF CallsInv, CallsStay

LEMMA StayRuns ==
  ASSUME CallsStay PROVE \A t \in Thread : \A c, n : Runs(t, c, n)' => Runs(t, c, n)
BY DEF CallsStay, Runs, QueuedCall, ToSet

\* The posted calls are those there were.
TasksStay == \A t \in Thread : \A k \in DOMAIN tasks'[t] : tasks'[t][k].op = "call" =>
  \E j \in DOMAIN tasks[t] : tasks'[t][k] = tasks[t][j]

LEMMA StayWaits ==
  ASSUME TasksStay PROVE \A t \in Thread : \A c, n : Waits(t, c, n)' => Waits(t, c, n)
BY DEF TasksStay, Waits, QueuedCall

LEMMA HeldFinite ==
  ASSUME IInv, QueuedInv, NEW c \in Conn
  PROVE  /\ Held(c) \subseteq 1..Len(emitted) /\ IsFiniteSet(Held(c)) /\ Cardinality(Held(c)) \in Nat
         /\ IsFiniteSet(1..Len(emitted))
<1>1. Len(emitted) \in Nat
  BY DEF IInv, TypeInv
<1>2. IsFiniteSet(1..Len(emitted))
  BY <1>1, FS_Interval
<1>3. ASSUME NEW n \in Nat, NEW t \in Thread, Runs(t, c, n) PROVE n \in 1..Len(emitted)
  BY <1>3 DEF QueuedInv, IInv, CalledInv
<1>4. ASSUME NEW n \in Nat, NEW t \in Thread, Waits(t, c, n) PROVE n \in 1..Len(emitted)
  <2>1. PICK k \in DOMAIN tasks[t] : QueuedCall(tasks[t][k], c, n)
    BY <1>4 DEF Waits
  <2>2. Posted(t, k) /\ tasks[t][k].n = n
    BY <2>1 DEF Posted, QueuedCall
  <2> QED BY <2>2 DEF IInv, PostInv
<1>5. Held(c) \subseteq 1..Len(emitted)
  BY <1>3, <1>4 DEF Held
<1>6. IsFiniteSet(Held(c))
  BY <1>2, <1>5, FS_Subset
<1>7. Cardinality(Held(c)) \in Nat
  BY <1>6, FS_CardinalityType
<1> QED BY <1>2, <1>5, <1>6, <1>7

\* Calls are made, and are not forgotten.
CalledMore == \A c \in Conn : \A j \in DOMAIN called[c] :
  j \in DOMAIN called'[c] /\ called'[c][j] = called[c][j]

LEMMA QueuedKept ==
  ASSUME QueuedInv, CalledMore,
         \A t \in Thread, c \in Conn, n \in Nat :
           (Runs(t, c, n)' => Runs(t, c, n)) /\ (Waits(t, c, n)' => Waits(t, c, n))
  PROVE  QueuedInv' /\ \A c \in Conn : Held(c)' \subseteq Held(c)
<1>1. QueuedInv'
  <2> SUFFICES ASSUME NEW t \in Thread, NEW c \in Conn, NEW n \in Nat, Runs(t, c, n)'
               PROVE  /\ \E j \in DOMAIN called'[c] : called'[c][j] = n
                      /\ \A u \in Thread : ~Waits(u, c, n)' /\ (Runs(u, c, n)' => u = t)
    BY DEF QueuedInv
  <2>1. Runs(t, c, n)
    OBVIOUS
  <2>2. PICK j \in DOMAIN called[c] : called[c][j] = n
    BY <2>1 DEF QueuedInv
  <2>3. j \in DOMAIN called'[c] /\ called'[c][j] = n
    BY <2>2 DEF CalledMore
  <2>4. \A u \in Thread : ~Waits(u, c, n) /\ (Runs(u, c, n) => u = t)
    BY <2>1 DEF QueuedInv
  <2> QED BY <2>3, <2>4
<1>2. \A c \in Conn : Held(c)' \subseteq Held(c)
  BY DEF Held
<1> QED BY <1>1, <1>2

\* No task is made.
NoNewHands == \A c \in Conn : Hands(c)' => Hands(c)

LEMMA StayHands ==
  ASSUME type' = type, \A t \in Thread : \A f \in ToSet(stack'[t]) : Passes(f) => f \in ToSet(stack[t])
  PROVE  NoNewHands
BY DEF NoNewHands, Hands

LEMMA OwnedFacts ==
  \A c \in Conn : /\ Owned(c) \in Nat /\ Whole(c) <= Owned(c) /\ Whole(c) \in {0, 1}
                  /\ Owned(c) = Whole(c) + (IF Hands(c) THEN 1 ELSE 0)
BY DEF Owned, Whole

LEMMA OwnedNext == (\A c \in Conn : /\ Owned(c) \in Nat /\ Whole(c) <= Owned(c) /\ Whole(c) \in {0, 1}
                                   /\ Owned(c) = Whole(c) + (IF Hands(c) THEN 1 ELSE 0))'
BY DEF Owned, Whole

LEMMA OwnedMore ==
  ASSUME RefInv, NoNewHands, ref' \in [Conn -> Int], \A c \in Conn : ref[c] - Whole(c) <= ref'[c] - Whole(c)'
  PROVE  \A c \in Conn : ref[c] - Owned(c) <= ref'[c] - Owned(c)'
<1> SUFFICES ASSUME NEW c \in Conn PROVE ref[c] - Owned(c) <= ref'[c] - Owned(c)'
  OBVIOUS
<1>1. PICK h, g \in {0, 1} : Owned(c) = Whole(c) + h /\ Owned(c)' = Whole(c)' + g /\ g <= h
  <2>1. PICK h, g : h = (IF Hands(c) THEN 1 ELSE 0) /\ g = (IF Hands(c)' THEN 1 ELSE 0)
    OBVIOUS
  <2>2. h \in {0, 1} /\ g \in {0, 1} /\ g <= h
    BY <2>1 DEF NoNewHands
  <2> QED BY <2>1, <2>2, OwnedFacts, OwnedNext
<1>2. /\ Whole(c) \in Int /\ Whole(c)' \in Int /\ ref[c] \in Int /\ ref'[c] \in Int
      /\ ref[c] - Whole(c) <= ref'[c] - Whole(c)'
  BY OwnedFacts, OwnedNext DEF RefInv
<1> QED BY <1>1, <1>2

LEMMA OwnedSame ==
  ASSUME RefInv, NoNewHands, UNCHANGED <<life, ref>>
  PROVE  ref' \in [Conn -> Int] /\ \A c \in Conn : ref[c] - Owned(c) <= ref'[c] - Owned(c)'
<1>1. ref' \in [Conn -> Int] /\ \A c \in Conn : ref[c] - Whole(c) <= ref'[c] - Whole(c)'
  BY DEF RefInv, Whole
<1> QED BY <1>1, OwnedMore

LEMMA RefKept ==
  ASSUME IInv, CountInv, \A c \in Conn : Held(c)' \subseteq Held(c),
         ref' \in [Conn -> Int], \A c \in Conn : ref[c] - Owned(c) <= ref'[c] - Owned(c)'
  PROVE  RefInv'
<1> SUFFICES ASSUME NEW c \in Conn PROVE Cardinality(Held(c))' + Owned(c)' <= ref'[c]
  BY DEF RefInv
<1>1. IsFiniteSet(Held(c)) /\ Cardinality(Held(c)) \in Nat
  BY HeldFinite DEF CountInv
<1>2. /\ Cardinality(Held(c)') \in Nat /\ Cardinality(Held(c)') <= Cardinality(Held(c))
  BY <1>1, FS_Subset, FS_CardinalityType
<1>3. Owned(c) \in Int /\ Owned(c)' \in Int /\ ref[c] \in Int /\ ref'[c] \in Int
  BY OwnedFacts, OwnedNext DEF CountInv, RefInv
<1>4. Cardinality(Held(c)) + Owned(c) <= ref[c]
  BY DEF CountInv, RefInv
<1>5. \A h, g, w, x, r, s \in Int : g <= h /\ h + w <= r /\ r - w <= s - x => g + x <= s
  OBVIOUS
<1> QED BY <1>1, <1>2, <1>3, <1>4, <1>5

\* The steps that leave the functions alone.
LEMMA CountKept ==
  ASSUME IInv, CountInv, CallsStay, TasksStay, CalledMore, NoNewHands, UNCHANGED <<life, ref>>
  PROVE  CountInv'
<1>1. QueuedInv' /\ \A c \in Conn : Held(c)' \subseteq Held(c)
  BY StayRuns, StayWaits, QueuedKept DEF CountInv
<1>2. ref' \in [Conn -> Int] /\ \A c \in Conn : ref[c] - Owned(c) <= ref'[c] - Owned(c)'
  BY OwnedSame DEF CountInv
<1>3. RefInv'
  BY <1>1, <1>2, RefKept
<1> QED BY <1>1, <1>3, StayCalls DEF CountInv

\* What changes one frame leaves the calls where they are.
LEMMA KeptCalls ==
  ASSUME TypeInv, TypeInv', NEW t \in Thread, NEW m \in Nat, Kept(t, m),
         Len(stack'[t]) = m + 1 => stack'[t][m + 1].op # "call"
  PROVE  CallsStay
<1> SUFFICES ASSUME NEW u \in Thread, NEW i \in DOMAIN stack'[u], stack'[u][i].op = "call"
             PROVE  i \in DOMAIN stack[u] /\ stack'[u][i] = stack[u][i]
  BY DEF CallsStay
<1>1. CASE u # t
  BY <1>1 DEF Kept
<1>2. CASE u = t
  <2>1. DOMAIN stack'[t] = 1..Len(stack'[t]) /\ DOMAIN stack[t] = 1..Len(stack[t])
    BY SeqFacts DEF TypeInv
  <2>2. i \in 1..m
    BY <1>2, <2>1 DEF Kept
  <2>3. m <= Len(stack[t]) /\ Len(stack[t]) \in Nat
    BY DEF Kept
  <2> QED BY <1>2, <2>1, <2>2, <2>3 DEF Kept
<1> QED BY <1>1, <1>2

(***************************************************************************)
(* An emission goes on.                                                     *)
(***************************************************************************)
LEMMA ChangesTame ==
  ASSUME NEW t \in Thread, NEW old, NEW new, Changes(t, old, new),
         \A f \in old : f.op # "destroy",
         \A f \in new : f.op = "call" \/ (f.op = "emit" /\ \E g \in ToSet(stack[t]) : g.op = "emit")
  PROVE  NoNewEnd /\ DestroyStays
<1>1. \A u \in Thread : \A f \in ToSet(stack'[u]) : f \in ToSet(stack[u]) \/ (u = t /\ f \in new)
  BY DEF Changes
<1>2. \A u \in Thread : \A f \in ToSet(stack[u]) : f \in ToSet(stack'[u]) \/ f \in old
  BY DEF Changes
<1>3. NoNewEnd
  BY <1>1 DEF NoNewEnd
<1>4. DestroyStays
  BY <1>2 DEF DestroyStays
<1> QED BY <1>3, <1>4

LEMMA QueuesSame ==
  ASSUME TypeInv, tasks' = tasks PROVE NoNewTask /\ TasksStay
<1>1. \A u \in Thread : \A k \in DOMAIN tasks[u] : k \in Nat /\ k + 0 = k
  BY DEF TypeInv
<1>2. Moved([u \in Thread |-> 0])
  BY <1>1 DEF Moved
<1> QED BY <1>2 DEF NoNewTask, TasksStay

\* What has its thread is not being deleted.
LEMMA NoDeletion ==
  ASSUME DeletionInv, LiveInv, NEW c \in Conn, thread[c] # None
  PROVE  \A u \in Thread : /\ ~Removes(u, c) /\ \A k \in DOMAIN tasks[u] : ~RemovesLater(u, k, c)
                           /\ OwnLoop(u, c)
<1>1. \A u \in Thread : \A f \in ToSet(stack[u]) : ~(Deletion(f) /\ f.conn = c)
  BY DEF LiveInv, EndInv, LeavingInv, Leaving
<1>2. \A u \in Thread : \A k \in DOMAIN tasks[u] : ~RemovesLater(u, k, c)
  BY DEF RemovesLater, DeletionInv, BehindInv, Behind
<1> QED BY <1>1, <1>2 DEF Removes, OwnLoop

LEMMA EmitsLive ==
  ASSUME IInv, LiveInv, NEW t \in Thread, NEW f \in ToSet(stack[t]), Emits(f)
  PROVE  ~Destroying /\ ~gone
<1>1. ~gone
  BY DEF Emits, LiveInv, EndInv, LeavingInv, Leaving
<1>2. ASSUME NEW u \in Thread, NEW g \in ToSet(stack[u]), g.op = "destroy", g.pc # "lock" PROVE FALSE
  <2>1. Holds(f) /\ Holds(g)
    BY <1>2 DEF Holds, Emits
  <2>2. f = g
    BY <2>1, OneHolds
  <2> QED BY <1>2, <2>2 DEF Emits
<1> QED BY <1>1, <1>2 DEF Destroying

\* The emission of the step is the only one that holds the mutex.
LEMMA OneEmission ==
  ASSUME AllInv, IInv', NEW t \in Thread, stack[t] # <<>>, Holds(Top(t)), ~Lower(Top(t)),
         NEW old, NEW new, Changes(t, old, new)
  PROVE  \A u \in Thread : \A e \in ToSet(stack'[u]) : Emits(e) => u = t /\ e \in new
<1> SUFFICES ASSUME NEW u \in Thread, NEW e \in ToSet(stack'[u]), Emits(e) PROVE u = t /\ e \in new
  OBVIOUS
<1>0. IInv /\ TypeInv /\ TypeInv' /\ CircleInv
  BY DEF AllInv, IInv
<1>1. Top(t) \in ToSet(stack[t])
  BY <1>0, FramesSet
<1>2. e \in ToSet(stack[u]) \/ (u = t /\ e \in new)
  BY DEF Changes
<1>3. CASE e \in ToSet(stack[u])
  <2>1. Holds(e)
    BY DEF Holds, Emits
  <2>2. u = t /\ e = Top(t)
    BY <1>0, <1>1, <1>3, <2>1, OneHolds
  <2>3. Lower(e) \/ e \in new
    BY <1>0, <2>2, NewAlone
  <2> QED BY <2>2, <2>3
<1> QED BY <1>2, <1>3

LEMMA EmitterLive ==
  ASSUME AllInv, IInv', NEW t \in Thread, stack[t] # <<>>, Top(t).op = "emit",
         \/ stack' = Popped(t)
         \/ \E g \in FrameSet : g.op = "emit" /\ stack' = Replaced(t, g) /\ (Busy(g) => AtConn(t, g)'),
         ConnsSame, UNCHANGED <<open, tasks, called>>, NoBare,
         ref' \in [Conn -> Int], \A c \in Conn : ref[c] - Owned(c) <= ref'[c] - Owned(c)'
  PROVE  LiveInv'
<1>0. TypeInv /\ TypeInv' /\ Top(t) \in ToSet(stack[t])
  BY FramesSet DEF AllInv, IInv
<1>1. PICK new : /\ Changes(t, {Top(t)}, new) /\ CallsStay
                 /\ \A g \in new : g.op = "emit" /\ (Busy(g) => AtConn(t, g)')
  <2>0. SUFFICES \E new : /\ Changes(t, {Top(t)}, new) /\ CallsStay
                         /\ \A g \in new : g.op = "emit" /\ (Busy(g) => AtConn(t, g)')
    OBVIOUS
  <2>1. CASE stack' = Popped(t)
    <3>1. Kept(t, Len(stack[t]) - 1) /\ Len(stack'[t]) = Len(stack[t]) - 1 /\ Len(stack[t]) \in Nat \ {0}
      BY <1>0, <2>1, PoppedKept
    <3>2. PICK m \in Nat : m = Len(stack[t]) - 1
      BY <3>1
    <3>3. CallsStay
      BY <1>0, <3>1, <3>2, KeptCalls
    <3>4. Changes(t, {Top(t)}, {})
      BY <1>0, <2>1, PopChanges
    <3> WITNESS {}
    <3> QED BY <3>3, <3>4
  <2>2. ASSUME NEW g \in FrameSet, g.op = "emit", stack' = Replaced(t, g), Busy(g) => AtConn(t, g)'
        PROVE  \E new : /\ Changes(t, {Top(t)}, new) /\ CallsStay
                        /\ \A h \in new : h.op = "emit" /\ (Busy(h) => AtConn(t, h)')
    <3>1. PICK m \in Nat : Kept(t, m) /\ NewTop(t, m, g)
      BY <1>0, <2>2, TopReplaced
    <3>2. CallsStay
      BY <1>0, <2>2, <3>1, KeptCalls DEF NewTop
    <3>3. Changes(t, {Top(t)}, {g})
      BY <1>0, <2>2, ReplaceChanges
    <3>4. \A h \in {g} : h.op = "emit" /\ (Busy(h) => AtConn(t, h)')
      BY <2>2
    <3> WITNESS {g}
    <3> QED BY <3>2, <3>3, <3>4
  <2> QED BY <2>1, <2>2
<1>2. NoNewEnd /\ DestroyStays
  BY <1>0, <1>1, ChangesTame
<1>3. NoNewTask /\ TasksStay
  BY <1>0, QueuesSame
<1>4. ConnInv' /\ EndInv'
  BY <1>2, <1>3, TameStep DEF Tame, AllInv, LiveInv
<1>5. \A u \in Thread : \A f \in ToSet(stack'[u]) : f \in ToSet(stack[u]) \/ (u = t /\ f \in new)
  BY <1>1 DEF Changes
<1>6. AtInv'
  <2>1. AtInv /\ UNCHANGED <<life, thread, open>>
    BY DEF AllInv, LiveInv, UseInv, ConnsSame
  <2> QED BY <1>1, <1>2, <1>3, <1>5, <2>1, AtKept
<1>7. BareInv'
  <2>1. NoBare'
    BY <1>1, <1>5 DEF NoBare, Bare
  <2> QED BY <2>1 DEF NoBare, BareInv
<1>8. CountInv'
  <2>0. IInv /\ CountInv
    BY DEF AllInv, LiveInv
  <2>1. CalledMore
    BY DEF CalledMore
  <2>2. QueuedInv' /\ \A c \in Conn : Held(c)' \subseteq Held(c)
    BY <1>1, <1>3, <2>0, <2>1, StayRuns, StayWaits, QueuedKept DEF CountInv
  <2>3. RefInv'
    BY <2>0, <2>2, RefKept
  <2>4. CallsInv'
    BY <1>1, <2>0, StayCalls DEF CountInv
  <2> QED BY <2>2, <2>3, <2>4 DEF CountInv
<1> QED BY <1>4, <1>6, <1>7, <1>8 DEF LiveInv, UseInv

\* What is not about to be handed over.
LEMMA EmitterOwns ==
  ASSUME AllInv, NEW t \in Thread, stack[t] # <<>>,
         stack' = Popped(t) \/ \E g \in FrameSet : ~Passes(g) /\ stack' = Replaced(t, g),
         ConnsSame, ref' = ref
  PROVE  ref' \in [Conn -> Int] /\ \A c \in Conn : ref[c] - Owned(c) <= ref'[c] - Owned(c)'
<1>0. TypeInv /\ RefInv
  BY DEF AllInv, IInv, LiveInv, CountInv
<1>1. \A u \in Thread : \A f \in ToSet(stack'[u]) : Passes(f) => f \in ToSet(stack[u])
  <2>1. CASE stack' = Popped(t)
    <3>1. Changes(t, {Top(t)}, {})
      BY <1>0, <2>1, PopChanges
    <3> QED BY <3>1 DEF Changes
  <2>2. ASSUME NEW g \in FrameSet, ~Passes(g), stack' = Replaced(t, g)
        PROVE  \A u \in Thread : \A f \in ToSet(stack'[u]) : Passes(f) => f \in ToSet(stack[u])
    <3>1. Changes(t, {Top(t)}, {g})
      BY <1>0, <2>2, ReplaceChanges
    <3> QED BY <2>2, <3>1 DEF Changes
  <2> QED BY <2>1, <2>2
<1>2. NoNewHands
  BY <1>1, StayHands DEF ConnsSame
<1> QED BY <1>0, <1>2, OwnedSame DEF ConnsSame

LEMMA ReplaceTame ==
  ASSUME TypeInv, NEW t \in Thread, stack[t] # <<>>, Top(t).op = "emit",
         NEW f \in FrameSet, f.op = "emit", stack' = Replaced(t, f)
  PROVE  Changes(t, {Top(t)}, {f}) /\ NoNewEnd /\ DestroyStays
<1>1. Top(t) \in ToSet(stack[t])
  BY FramesSet
<1>2. PICK old, new : old = {Top(t)} /\ new = {f}
  OBVIOUS
<1>3. Changes(t, old, new)
  BY <1>2, ReplaceChanges
<1>4. /\ \A h \in old : h.op # "destroy"
      /\ \A h \in new : h.op = "call" \/ (h.op = "emit" /\ \E g \in ToSet(stack[t]) : g.op = "emit")
  BY <1>1, <1>2
<1>5. NoNewEnd /\ DestroyStays
  BY <1>3, <1>4, ChangesTame
<1> QED BY <1>2, <1>3, <1>5

LEMMA EmissionLive ==
  ASSUME AllInv, IInv', NEW t \in Thread, EmitLocks(t) \/ EmitNext(t) \/ EmitEnds(t)
  PROVE  LiveInv'
<1>0. TypeInv /\ IInv
  BY DEF AllInv, IInv
<1>1. CASE EmitLocks(t)
  <2>1. /\ stack[t] # <<>> /\ Top(t).op = "emit" /\ mutex = None
        /\ stack' = Replaced(t, Frame("emit", "next", 0, Len(emitted) + 1, None))
        /\ ConnsSame /\ UNCHANGED <<open, tasks, ref, called>>
    BY <1>1 DEF EmitLocks, At, Top, connVars, ConnsSame
  <2>2. PICK g \in FrameSet : g = Frame("emit", "next", 0, Len(emitted) + 1, None) /\ g.op = "emit" /\ g.pc = "next"
    <3>1. Len(emitted) + 1 \in Nat
      BY <1>0 DEF TypeInv
    <3>2. Frame("emit", "next", 0, Len(emitted) + 1, None) \in FrameSet
      BY <3>1 DEF Frame, FrameSet, Ops, Pcs
    <3> QED BY <3>2 DEF Frame
  <2>3. NoBare
    BY <1>0, <2>1, NoneBare
  <2>4. ~Busy(g)
    BY <2>2 DEF Busy
  <2>5. ref' \in [Conn -> Int] /\ \A d \in Conn : ref[d] - Owned(d) <= ref'[d] - Owned(d)'
    BY <2>1, <2>2, EmitterOwns
  <2> QED BY <2>1, <2>2, <2>3, <2>4, <2>5, EmitterLive
<1>2. CASE EmitNext(t)
  <2>1. PICK c \in list, x \in {"next", "read"} :
          /\ stack[t] # <<>> /\ Top(t).op = "emit" /\ Top(t).pc = "next"
          /\ stack' = Replaced(t, [Top(t) EXCEPT !.conn = c, !.pc = x])
          /\ x = "read" => thread[c] # None
    BY <1>2 DEF EmitNext, At, Top, Following, Later
  <2>2. ConnsSame /\ UNCHANGED <<open, tasks, ref, called>>
    BY <1>2 DEF EmitNext, connectorVars, connVars, history, ConnsSame
  <2>3. Top(t) \in FrameSet /\ c \in Conn /\ Top(t) \in ToSet(stack[t]) /\ Emits(Top(t)) /\ Holds(Top(t))
    BY <1>0, <2>1, TopFacts, FramesSet DEF TypeInv, Emits, Holds
  <2>4. [Top(t) EXCEPT !.conn = c, !.pc = x] \in FrameSet
    BY <2>1, <2>3 DEF FrameSet, Pcs
  <2>5. PICK g \in FrameSet : g = [Top(t) EXCEPT !.conn = c, !.pc = x] /\ g.op = "emit" /\ g.pc = x /\ g.conn = c
    BY <2>1, <2>3, <2>4 DEF FrameSet
  <2>6. NoBare
    BY <1>0, <2>1, <2>3, NoneBare
  <2>7. ASSUME Busy(g) PROVE AtConn(t, g)'
    <3>1. thread[c] # None
      BY <2>1, <2>5, <2>7 DEF Busy
    <3>2. life[c] = "made"
      BY <1>0, <2>3, <3>1, EmitsLive DEF AllInv, LiveInv, ConnInv, WholeInv
    <3>3. OwnLoop(t, c)
      BY <2>3, <3>1, NoDeletion DEF AllInv
    <3>5. NoNewEnd
      BY <1>0, <2>1, <2>5, ReplaceTame
    <3>6. NoNewTask
      BY <1>0, <2>2, QueuesSame
    <3>7. OwnLoop(t, c)'
      BY <2>2, <3>3, <3>5, <3>6, LoopKept
    <3> QED BY <2>2, <2>3, <2>5, <3>1, <3>2, <3>7 DEF AtConn, ConnsSame
  <2>8. ref' \in [Conn -> Int] /\ \A d \in Conn : ref[d] - Owned(d) <= ref'[d] - Owned(d)'
    BY <2>1, <2>2, <2>5, EmitterOwns
  <2> QED BY <2>1, <2>2, <2>5, <2>6, <2>7, <2>8, EmitterLive
<1>3. CASE EmitEnds(t)
  <2>1. /\ stack[t] # <<>> /\ Top(t).op = "emit" /\ Top(t).pc = "next" /\ stack' = Popped(t)
        /\ ConnsSame /\ UNCHANGED <<open, tasks, ref, called>>
    BY <1>3 DEF EmitEnds, At, Top, connVars, history, ConnsSame
  <2>2. NoBare
    BY <1>0, <2>1, NoneBare DEF Holds
  <2>3. ref' \in [Conn -> Int] /\ \A d \in Conn : ref[d] - Owned(d) <= ref'[d] - Owned(d)'
    BY <2>1, EmitterOwns
  <2> QED BY <2>1, <2>2, <2>3, EmitterLive
<1> QED BY <1>1, <1>2, <1>3

LEMMA AddOne ==
  ASSUME NEW S, IsFiniteSet(S), NEW x, NEW T \in SUBSET (S \cup {x})
  PROVE  IsFiniteSet(T) /\ Cardinality(T) \in Nat /\ Cardinality(S) \in Nat /\ Cardinality(T) <= Cardinality(S) + 1
<1>1. /\ IsFiniteSet(S \cup {x}) /\ Cardinality(S) \in Nat
      /\ Cardinality(S \cup {x}) = Cardinality(S) \/ Cardinality(S \cup {x}) = Cardinality(S) + 1
  BY FS_AddElement, FS_CardinalityType
<1>2. IsFiniteSet(T) /\ Cardinality(T) \in Nat /\ Cardinality(T) <= Cardinality(S \cup {x})
  BY <1>1, FS_Subset, FS_CardinalityType
<1> QED BY <1>1, <1>2

\* A call is posted: a queued one holds the function, the emission waits for the other.
LEMMA PostsLive ==
  ASSUME AllInv, IInv', NEW t \in Thread, NEW g, NEW x, PostsCall(t, g, x), ConnsSame,
         UNCHANGED <<open, called, ref>>
  PROVE  LiveInv'
<1>0. IInv /\ TypeInv /\ TypeInv' /\ CountInv
  BY DEF AllInv, IInv, LiveInv
<1>1. /\ stack[t] # <<>> /\ Top(t).op = "emit" /\ Top(t).pc = "post" /\ Emits(Top(t)) /\ Holds(Top(t))
      /\ stack' = Handed(t, x) /\ x \in {"next", "waits"}
      /\ g.op = "call" /\ g.conn = Top(t).conn /\ g.n = Top(t).n
      /\ (g.pc = "queued" /\ x = "next") \/ (g.pc = "sync" /\ x = "waits")
      /\ g.pc = "queued" => type[Top(t).conn] # "Sync"
  BY DEF PostsCall, Emits, Holds
<1>2. Top(t) \in FrameSet /\ Top(t) \in ToSet(stack[t])
  BY <1>0, <1>1, TopFacts, FramesSet
<1>3. \E f \in FrameSet :
        /\ f.op = "emit" /\ f.pc = x /\ f.conn = Top(t).conn /\ f.n = Top(t).n /\ f.peer = None
        /\ f = [Top(t) EXCEPT !.pc = x, !.peer = None] /\ stack' = Replaced(t, f)
  BY <1>0, <1>1, HandedFacts
<1>4. PICK f \in FrameSet : f.op = "emit" /\ f.pc = x /\ f.conn = Top(t).conn /\ stack' = Replaced(t, f)
  BY <1>3
<1>5. PICK p \in Thread, n \in Nat : \A u \in Thread : \A k \in DOMAIN tasks'[u] :
        \/ k \in DOMAIN tasks[u] /\ tasks'[u][k] = tasks[u][k] /\ k \in Nat
        \/ u = p /\ k = n /\ tasks'[u][k] = g
  <2>1. PICK p \in Thread, n \in Nat : p = Top(t).peer /\ n = Len(tasks[p]) + 1
    BY <1>0, PostsWhere
  <2>2. \A u \in Thread : \A k \in DOMAIN tasks'[u] :
          \/ k \in DOMAIN tasks[u] /\ tasks'[u][k] = tasks[u][k] /\ k \in Nat /\ (u = p => k < n)
          \/ u = p /\ k = n /\ tasks'[u][k] = g
    BY <1>0, <2>1, PostsTasks
  <2> QED BY <2>2
<1>6. Changes(t, {Top(t)}, {f}) /\ NoNewEnd /\ DestroyStays
  BY <1>0, <1>1, <1>4, ReplaceTame
<1>7. NoNewTask
  <2>1. Moved([u \in Thread |-> 0])
    BY <1>1, <1>5 DEF Moved
  <2> QED BY <2>1 DEF NoNewTask
<1>8. CallsStay
  <2>1. PICK m \in Nat : Kept(t, m) /\ NewTop(t, m, f)
    BY <1>0, <1>1, <1>4, TopReplaced
  <2> QED BY <1>0, <1>4, <2>1, KeptCalls DEF NewTop
<1>9. ConnInv' /\ EndInv'
  BY <1>6, <1>7, TameStep DEF Tame, AllInv, LiveInv
<1>10. \A u \in Thread : \A h \in ToSet(stack'[u]) : h \in ToSet(stack[u]) \/ (u = t /\ h = f)
  BY <1>6 DEF Changes
<1>11. AtInv'
  <2>1. AtInv /\ UNCHANGED <<life, thread, open>>
    BY DEF AllInv, LiveInv, UseInv, ConnsSame
  <2>2. Busy(Top(t))
    BY <1>1 DEF Busy
  <2> QED BY <1>1, <1>2, <1>4, <1>6, <1>7, <1>10, <2>1, <2>2, AtKept
<1>15. \A u \in Thread : \A e \in ToSet(stack'[u]) : Emits(e) => u = t /\ e = f
  <2>1. PICK old, new : old = {Top(t)} /\ new = {f}
    OBVIOUS
  <2>2. Changes(t, old, new) /\ ~Lower(Top(t))
    BY <1>1, <1>6, <2>1 DEF Lower
  <2>3. \A u \in Thread : \A e \in ToSet(stack'[u]) : Emits(e) => u = t /\ e \in new
    BY <1>1, <2>2, OneEmission
  <2> QED BY <2>1, <2>3
<1>12. NoBare
  BY <1>0, <1>1, NoneBare
<1>13. BareInv'
  <2>1. \A u \in Thread : \A h \in ToSet(stack'[u]) : ~Bare(h)
    BY <1>4, <1>10, <1>12 DEF NoBare, Bare
  <2>2. \A u \in Thread : \A k \in DOMAIN tasks'[u] : Bare(tasks'[u][k]) => tasks'[u][k] = g /\ x = "waits"
    BY <1>1, <1>5, <1>12 DEF NoBare, Bare
  <2>3. ASSUME x = "waits", NEW u \in Thread, NEW e \in ToSet(stack'[u]), Emits(e)
        PROVE  Busy(e) /\ e.conn = g.conn
    BY <1>1, <1>4, <1>15, <2>3 DEF Busy
  <2>4. x = "waits" => Theirs(g)'
    BY <2>3 DEF Theirs
  <2> QED BY <2>1, <2>2, <2>4 DEF BareInv
<1>14. CountInv'
  <2> DEFINE c == Top(t).conn
  <2>0. c \in Conn /\ Top(t).n = Len(emitted) /\ Top(t).n \in Nat /\ NotYet(Top(t), c)
    <3>1. c \in Conn /\ Top(t).n = Len(emitted) /\ Len(emitted) \in Nat
      BY <1>0, <1>1, EmitterFacts
    <3>2. Ahead(Top(t), c)
      BY <1>1 DEF Ahead
    <3> QED BY <1>0, <1>1, <3>1, <3>2, EmitterFacts
  <2>1. \A u \in Thread : \A d, m : Runs(u, d, m)' => Runs(u, d, m)
    BY <1>8, StayRuns
  <2>2. \A u \in Thread : \A d, m : Waits(u, d, m)' =>
          Waits(u, d, m) \/ (d = c /\ m = Top(t).n /\ g.pc = "queued")
    BY <1>1, <1>5 DEF Waits, QueuedCall
  <2>3. QueuedInv'
    <3> SUFFICES ASSUME NEW u \in Thread, NEW d \in Conn, NEW m \in Nat, Runs(u, d, m)'
                 PROVE  /\ \E j \in DOMAIN called'[d] : called'[d][j] = m
                        /\ \A v \in Thread : ~Waits(v, d, m)' /\ (Runs(v, d, m)' => v = u)
      BY DEF QueuedInv
    <3>1. Runs(u, d, m)
      BY <2>1
    <3>2. PICK j \in DOMAIN called[d] : called[d][j] = m
      BY <1>0, <3>1 DEF CountInv, QueuedInv
    <3>3. \A v \in Thread : ~Waits(v, d, m) /\ (Runs(v, d, m) => v = u)
      BY <1>0, <3>1 DEF CountInv, QueuedInv
    <3>4. ~(d = c /\ m = Top(t).n)
      BY <2>0, <3>2 DEF NotYet
    <3> QED BY <2>1, <2>2, <3>2, <3>3, <3>4
  <2>4. RefInv'
    <3>0. \A d \in Conn : ~Hands(d)'
      BY <1>1, <1>4, <1>15 DEF Hands, Emits
    <3>1. ASSUME NEW d \in Conn PROVE Cardinality(Held(d))' + Owned(d)' <= ref'[d]
      <4>1. /\ IsFiniteSet(Held(d)) /\ Cardinality(Held(d)) \in Nat
            /\ Cardinality(Held(d)) + Owned(d) <= ref[d] /\ ref[d] \in Int /\ ref'[d] = ref[d]
        BY <1>0, HeldFinite DEF CountInv, RefInv
      <4>0. Owned(d)' = Whole(d) /\ Whole(d) \in {0, 1} /\ Whole(d) <= Owned(d) /\ Owned(d) \in Nat
        BY <3>0, OwnedFacts DEF Owned, Whole, ConnsSame
      <4>2. CASE d = c /\ g.pc = "queued"
        <5>1. Held(d)' \subseteq Held(d) \cup {Top(t).n}
          BY <2>1, <2>2 DEF Held
        <5>2. Cardinality(Held(d)') <= Cardinality(Held(d)) + 1 /\ Cardinality(Held(d)') \in Nat
          BY <4>1, <5>1, AddOne
        <5>3. Owned(d) = Whole(d) + 1
          <6>1. Hands(d)
            BY <1>1, <1>2, <4>2 DEF Hands
          <6> QED BY <6>1 DEF Owned
        <5> QED BY <4>0, <4>1, <5>2, <5>3
      <4>3. CASE d # c \/ g.pc # "queued"
        <5>1. Held(d)' \subseteq Held(d)
          BY <2>1, <2>2, <4>3 DEF Held
        <5>2. Cardinality(Held(d)') <= Cardinality(Held(d)) /\ Cardinality(Held(d)') \in Nat
          BY <4>1, <5>1, FS_Subset, FS_CardinalityType
        <5> QED BY <4>0, <4>1, <5>2
      <4> QED BY <4>2, <4>3
    <3>2. ref' \in [Conn -> Int]
      BY <1>0 DEF CountInv, RefInv
    <3> QED BY <3>1, <3>2 DEF RefInv
  <2> QED BY <1>0, <1>8, <2>3, <2>4, StayCalls DEF CountInv
<1> QED BY <1>9, <1>11, <1>13, <1>14 DEF LiveInv, UseInv

LEMMA PostLive ==
  ASSUME AllInv, IInv', NEW t \in Thread, Post(t) \/ PostSync(t)
  PROVE  LiveInv'
<1> DEFINE c == Top(t).conn
<1>0. IInv /\ TypeInv /\ RefInv
  BY DEF AllInv, IInv, LiveInv, CountInv
<1>1. /\ stack[t] # <<>> /\ Top(t).op = "emit" /\ Top(t).pc = "post" /\ Holds(Top(t)) /\ ~Lower(Top(t))
      /\ ConnsSame /\ UNCHANGED <<open, called>>
  BY DEF Post, PostSync, At, Top, connectorVars, connVars, history, ConnsSame, Holds, Lower
<1>2. c \in Conn /\ Top(t) \in ToSet(stack[t])
  BY <1>0, <1>1, ReadyFacts, FramesSet
<1>3. CASE ~UNCHANGED tasks
  <2>1. UNCHANGED ref
    BY <1>3 DEF Post, PostSync
  <2>2. \E g, x : PostsCall(t, g, x)
    BY <1>0, <1>3, PostPosts, PostSyncPosts
  <2> QED BY <1>1, <2>1, <2>2, PostsLive
<1>4. CASE UNCHANGED tasks
  <2>1. /\ stack' = Handed(t, "next")
        /\ \/ type[c] # "Sync" /\ ref' = [ref EXCEPT ![c] = @ - 1]
           \/ type[c] = "Sync" /\ ref' = ref
    <3>1. ASSUME NEW k, NEW q PROVE tasks # [tasks EXCEPT ![Top(t).peer] = Append(@, Frame("call", k, c, Top(t).n, q))]
      <4>1. Top(t).peer \in Thread /\ Top(t).n \in Nat
        BY <1>0, <1>1, ReadyFacts DEF FrameSet
      <4>2. PICK p \in Thread : p = Top(t).peer
        BY <4>1
      <4>3. tasks[p] \in Seq(TaskSet) /\ tasks \in [Thread -> Seq(TaskSet)]
        BY <1>0 DEF TypeInv
      <4>4. Append(tasks[p], Frame("call", k, c, Top(t).n, q)) # tasks[p]
        BY <4>3
      <4> QED BY <4>2, <4>3, <4>4
    <3> QED BY <1>4, <3>1 DEF Post, PostSync, Posts
  <2>2. PICK f \in FrameSet : f.op = "emit" /\ f.pc = "next" /\ f.conn = c /\ stack' = Replaced(t, f)
    <3>1. PICK x \in {"next", "waits"} : x = "next"
      OBVIOUS
    <3>2. \E f \in FrameSet :
            /\ f.op = "emit" /\ f.pc = x /\ f.conn = Top(t).conn /\ f.n = Top(t).n /\ f.peer = None
            /\ f = [Top(t) EXCEPT !.pc = x, !.peer = None] /\ stack' = Replaced(t, f)
      BY <1>0, <1>1, <2>1, <3>1, HandedFacts
    <3> QED BY <3>1, <3>2
  <2>3. ~Busy(f)
    BY <2>2 DEF Busy
  <2>4. NoBare
    BY <1>0, <1>1, NoneBare
  <2>5. ref' \in [Conn -> Int] /\ \A d \in Conn : ref[d] - Owned(d) <= ref'[d] - Owned(d)'
    <3>1. CASE ref' = ref
      BY <1>1, <2>2, <3>1, EmitterOwns
    <3>2. CASE type[c] # "Sync" /\ ref' = [ref EXCEPT ![c] = @ - 1]
      <4>1. PICK old, new : old = {Top(t)} /\ new = {f} /\ Changes(t, old, new)
        BY <1>0, <1>1, <2>2, ReplaceChanges
      <4>2. \A u \in Thread : \A e \in ToSet(stack'[u]) : Emits(e) => e \in new
        BY <1>1, <4>1, OneEmission
      <4>3. \A d \in Conn : ~Hands(d)'
        BY <2>2, <4>1, <4>2 DEF Hands, Emits
      <4>4. Hands(c)
        BY <1>1, <1>2, <3>2 DEF Hands
      <4>5. \A d \in Conn : /\ Owned(d)' = Whole(d) /\ Whole(d) \in {0, 1} /\ Owned(d) \in Nat
                            /\ Whole(d) <= Owned(d) /\ (d = c => Owned(d) = Whole(d) + 1)
        BY <1>1, <4>3, <4>4, OwnedFacts DEF Owned, Whole, ConnsSame
      <4>6. ref \in [Conn -> Int]
        BY <1>0 DEF RefInv
      <4>7. ASSUME NEW d \in Conn PROVE ref[d] - Owned(d) <= ref'[d] - Owned(d)'
        <5>1. ref[d] \in Int /\ ref'[d] = IF d = c THEN ref[d] - 1 ELSE ref[d]
          BY <1>2, <3>2, <4>6
        <5> QED BY <4>5, <5>1
      <4> QED BY <1>2, <3>2, <4>6, <4>7
    <3> QED BY <2>1, <3>1, <3>2
  <2> QED BY <1>1, <1>4, <2>2, <2>3, <2>4, <2>5, EmitterLive
<1> QED BY <1>3, <1>4

\* A task is made, which holds the function: the emission finds it whole.
LEMMA PrepareLive ==
  ASSUME AllInv, IInv', NEW t \in Thread, Prepare(t)
  PROVE  LiveInv'
<1> DEFINE c == Top(t).conn
<1>0. IInv /\ TypeInv /\ RefInv
  BY DEF AllInv, IInv, LiveInv, CountInv
<1>1. /\ stack[t] # <<>> /\ Top(t).op = "emit" /\ Top(t).pc = "read" /\ thread[c] # None
      /\ Holds(Top(t)) /\ ~Lower(Top(t)) /\ Emits(Top(t)) /\ Busy(Top(t))
      /\ ref' = IF type[c] = "Sync" THEN ref ELSE [ref EXCEPT ![c] = @ + 1]
      /\ stack' = Replaced(t, [Top(t) EXCEPT !.pc = "post", !.peer = thread[c]])
      /\ ConnsSame /\ UNCHANGED <<open, tasks, called>>
  BY DEF Prepare, At, Top, connectorVars, connVars, history, ConnsSame, Holds, Lower, Emits, Busy
<1>2. c \in Conn /\ Top(t) \in ToSet(stack[t]) /\ Top(t) \in FrameSet
  BY <1>0, <1>1, EmitterFacts, TopFacts, FramesSet
<1>3. thread[c] \in Thread
  BY <1>0, <1>1, <1>2 DEF TypeInv
<1>4. PICK f \in FrameSet : f.op = "emit" /\ f.pc = "post" /\ f.conn = c /\ stack' = Replaced(t, f)
  <2>1. [Top(t) EXCEPT !.pc = "post", !.peer = thread[c]] \in FrameSet
    BY <1>2, <1>3 DEF FrameSet, Pcs
  <2> QED BY <1>1, <1>2, <2>1 DEF FrameSet
<1>5. NoBare
  BY <1>0, <1>1, NoneBare
<1>6. AtConn(t, f)'
  <2>1. AtConn(t, Top(t))
    BY <1>1, <1>2 DEF AllInv, LiveInv, UseInv, AtInv
  <2>2. OwnLoop(t, f.conn) /\ life[f.conn] = "made" /\ thread[f.conn] # None /\ f.conn \in Conn
    BY <1>1, <1>2, <1>4, <2>1 DEF AtConn
  <2>3. NoNewEnd
    BY <1>0, <1>1, <1>4, ReplaceTame
  <2>4. NoNewTask
    BY <1>0, <1>1, QueuesSame
  <2>5. open'[t] = open[t]
    BY <1>1
  <2>6. OwnLoop(t, f.conn)'
    BY <2>2, <2>3, <2>4, <2>5, LoopKept
  <2> QED BY <1>1, <2>2, <2>6 DEF AtConn, ConnsSame
<1>7. ref' \in [Conn -> Int] /\ \A d \in Conn : ref[d] - Owned(d) <= ref'[d] - Owned(d)'
  <2>1. PICK old, new : old = {Top(t)} /\ new = {f} /\ Changes(t, old, new)
    BY <1>0, <1>1, <1>4, ReplaceChanges
  <2>2. \A u \in Thread : \A e \in ToSet(stack'[u]) : Emits(e) => e \in new
    BY <1>1, <2>1, OneEmission
  <2>3. \A d \in Conn : Hands(d)' => d = c /\ type[c] # "Sync"
    BY <1>1, <1>4, <2>1, <2>2 DEF Hands, Emits, ConnsSame
  <2>4. ref \in [Conn -> Int]
    BY <1>0 DEF RefInv
  <2>5. ASSUME NEW d \in Conn PROVE ref[d] - Owned(d) <= ref'[d] - Owned(d)'
    <3>1. /\ Owned(d) \in Nat /\ Whole(d) <= Owned(d) /\ Whole(d) \in {0, 1} /\ Whole(d)' = Whole(d)
          /\ Owned(d)' = Whole(d)' + (IF Hands(d)' THEN 1 ELSE 0)
      BY <1>1, OwnedFacts, OwnedNext DEF Whole, ConnsSame
    <3>2. CASE d = c /\ type[c] # "Sync"
      <4>1. ref[d] \in Int /\ ref'[d] = ref[d] + 1
        BY <1>1, <1>2, <2>4, <3>2
      <4>2. Owned(d)' <= Whole(d) + 1 /\ Owned(d)' \in Nat
        BY <3>1
      <4> QED BY <3>1, <4>1, <4>2
    <3>3. CASE ~(d = c /\ type[c] # "Sync")
      <4>1. ref[d] \in Int /\ ref'[d] = ref[d]
        BY <1>1, <1>2, <2>4, <3>3
      <4>2. Owned(d)' = Whole(d)
        BY <2>3, <3>1, <3>3
      <4> QED BY <3>1, <4>1, <4>2
    <3> QED BY <3>2, <3>3
  <2> QED BY <1>1, <1>2, <2>4, <2>5
<1> QED BY <1>1, <1>4, <1>5, <1>6, <1>7, EmitterLive

(***************************************************************************)
(* The functions return.                                                    *)
(***************************************************************************)
LEMMA ReturnQueuedLive ==
  ASSUME AllInv, IInv', NEW t \in Thread, ReturnQueued(t)
  PROVE  LiveInv'
<1>0. IInv /\ TypeInv /\ TypeInv' /\ CountInv
  BY DEF AllInv, IInv, LiveInv
<1>1. /\ stack[t] # <<>> /\ Top(t).op = "call" /\ Top(t).pc = "queued" /\ stack' = Popped(t)
      /\ ref' = [ref EXCEPT ![Top(t).conn] = @ - 1] /\ ConnsSame /\ UNCHANGED <<open, tasks, called>>
  BY DEF ReturnQueued, At, Top, connectorVars, connVars, history, ConnsSame
<1>2. Top(t) \in FrameSet /\ Top(t) \in ToSet(stack[t])
  BY <1>0, <1>1, TopFacts, FramesSet
<1>3. PICK c, n : c = Top(t).conn /\ n = Top(t).n /\ c \in Conn /\ n \in Nat /\ Len(stack[t]) = 1
  <2>1. PICK i \in DOMAIN stack[t] : Top(t) = stack[t][i] /\ i = Len(stack[t])
    BY <1>0, <1>1, TopFacts
  <2>2. i = 1 /\ Top(t).conn \in Conn
    BY <1>0, <1>1, <2>1 DEF CountInv, CallsInv
  <2> QED BY <1>2, <2>1, <2>2 DEF FrameSet
<1>4. Kept(t, 0) /\ Len(stack'[t]) = 0
  <2>1. Kept(t, Len(stack[t]) - 1) /\ Len(stack'[t]) = Len(stack[t]) - 1
    BY <1>0, <1>1, PoppedKept
  <2> QED BY <1>3, <2>1
<1>5. stack'[t] = <<>> /\ ToSet(stack'[t]) = {}
  BY <1>0, <1>4 DEF TypeInv, ToSet
<1>6. CallsStay
  BY <1>0, <1>4, KeptCalls
<1>7. \A u \in Thread : ToSet(stack'[u]) \subseteq ToSet(stack[u])
  BY <1>4, <1>5 DEF Kept
<1>8. NoNewEnd
  BY <1>7 DEF NoNewEnd
<1>9. DestroyStays
  <2>1. Changes(t, {Top(t)}, {})
    BY <1>0, <1>1, PopChanges
  <2> QED BY <1>1, <2>1 DEF DestroyStays, Changes
<1>10. NoNewTask /\ TasksStay
  BY <1>0, <1>1, QueuesSame
<1>11. ConnInv' /\ EndInv'
  BY <1>1, <1>8, <1>9, <1>10, TameStep DEF Tame, AllInv, LiveInv
<1>12. AtInv'
  <2>1. AtInv /\ UNCHANGED <<life, thread, open>>
    BY <1>1 DEF AllInv, LiveInv, UseInv, ConnsSame
  <2> QED BY <1>7, <1>8, <1>10, <2>1, AtKept
<1>13. BareInv'
  BY <1>1, <1>7, BareKept DEF AllInv, LiveInv, UseInv
<1>14. \A u \in Thread : \A d, m : (Runs(u, d, m)' => Runs(u, d, m)) /\ (Waits(u, d, m)' => Waits(u, d, m))
  BY <1>6, <1>10, StayRuns, StayWaits
<1>15. QueuedInv' /\ \A d \in Conn : Held(d)' \subseteq Held(d)
  <2>1. CalledMore
    BY <1>1 DEF CalledMore
  <2> QED BY <1>0, <1>14, <2>1, QueuedKept DEF CountInv
<1>16. n \in Held(c) /\ n \notin Held(c)'
  <2>1. Runs(t, c, n)
    BY <1>1, <1>2, <1>3 DEF Runs, QueuedCall
  <2>2. n \in Held(c)
    BY <1>3, <2>1 DEF Held
  <2>3. \A u \in Thread : ~Waits(u, c, n) /\ (Runs(u, c, n) => u = t)
    BY <1>0, <1>3, <2>1 DEF CountInv, QueuedInv
  <2>4. ~Runs(t, c, n)'
    BY <1>5 DEF Runs
  <2>5. n \notin Held(c)'
    BY <1>14, <2>3, <2>4 DEF Held
  <2> QED BY <2>2, <2>5
<1>17. RefInv'
  <2>0. NoNewHands
    BY <1>1, <1>7, StayHands DEF ConnsSame
  <2>1. ASSUME NEW d \in Conn PROVE Cardinality(Held(d))' + Owned(d)' <= ref'[d]
    <3>1. /\ IsFiniteSet(Held(d)) /\ Cardinality(Held(d)) \in Nat
          /\ Cardinality(Held(d)) + Owned(d) <= ref[d] /\ ref[d] \in Int
          /\ Owned(d)' <= Owned(d) /\ Owned(d) \in Int /\ Owned(d)' \in Int
      <4>1. /\ IsFiniteSet(Held(d)) /\ Cardinality(Held(d)) \in Nat
            /\ Cardinality(Held(d)) + Owned(d) <= ref[d] /\ ref[d] \in Int
        BY <1>0, HeldFinite DEF CountInv, RefInv
      <4>2. Owned(d)' <= Owned(d) /\ Owned(d) \in Int /\ Owned(d)' \in Int
        BY <1>1, <2>0 DEF Owned, Whole, NoNewHands, ConnsSame
      <4> QED BY <4>1, <4>2
    <3>2. CASE d = c
      <4>1. Held(c)' \subseteq Held(c) \ {n}
        BY <1>3, <1>15, <1>16
      <4>2. Cardinality(Held(c) \ {n}) = Cardinality(Held(c)) - 1 /\ IsFiniteSet(Held(c) \ {n})
        BY <1>16, <3>1, <3>2, FS_RemoveElement
      <4>3. Cardinality(Held(c)') <= Cardinality(Held(c)) - 1 /\ Cardinality(Held(c)') \in Nat
        BY <4>1, <4>2, FS_Subset, FS_CardinalityType
      <4>4. ref'[c] = ref[c] - 1
        BY <1>0, <1>1, <1>3 DEF CountInv, RefInv
      <4> QED BY <3>1, <3>2, <4>3, <4>4
    <3>3. CASE d # c
      <4>1. Cardinality(Held(d)') <= Cardinality(Held(d)) /\ Cardinality(Held(d)') \in Nat
        BY <1>15, <3>1, FS_Subset, FS_CardinalityType
      <4>2. ref'[d] = ref[d]
        BY <1>0, <1>1, <1>3, <3>3 DEF CountInv, RefInv
      <4> QED BY <3>1, <4>1, <4>2
    <3> QED BY <3>2, <3>3
  <2>2. ref' \in [Conn -> Int]
    BY <1>0, <1>1, <1>3 DEF CountInv, RefInv
  <2> QED BY <2>1, <2>2 DEF RefInv
<1>18. CountInv'
  BY <1>0, <1>6, <1>15, <1>17, StayCalls DEF CountInv
<1> QED BY <1>11, <1>12, <1>13, <1>18 DEF LiveInv, UseInv

\* The calls below the frames that a step changes.
LEMMA PrefixStay ==
  ASSUME TypeInv, TypeInv', NEW t \in Thread, NEW m \in Nat,
         \A i \in 1..m : i \in DOMAIN stack[t] /\ stack'[t][i] = stack[t][i],
         \A i \in DOMAIN stack'[t] : i > m => stack'[t][i].op # "call" \/ stack'[t][i].pc = "inPlace",
         \A u \in Thread : u # t => stack'[u] = stack[u] \/ stack'[u] = <<>>
  PROVE  CallsStay
<1> SUFFICES ASSUME NEW u \in Thread, NEW i \in DOMAIN stack'[u], stack'[u][i].op = "call"
             PROVE  (i \in DOMAIN stack[u] /\ stack'[u][i] = stack[u][i]) \/ stack'[u][i].pc = "inPlace"
  BY DEF CallsStay
<1>1. DOMAIN stack'[u] = 1..Len(stack'[u]) /\ (stack'[u] = <<>> => Len(stack'[u]) = 0)
  BY DEF TypeInv
<1>2. CASE u # t
  BY <1>1, <1>2
<1>3. CASE u = t
  <2>1. i \in 1..m \/ i > m
    BY <1>1
  <2> QED BY <1>3, <2>1
<1> QED BY <1>2, <1>3

LEMMA AppendLast ==
  \A q \in Seq(FrameSet), f \in FrameSet, m \in Nat : Len(q) = m =>
    \E r \in Seq(FrameSet) : /\ r = Append(q, f) /\ Len(r) = m + 1 /\ r[m + 1] = f
                            /\ \A i \in 1..m : r[i] = q[i]
<1> SUFFICES ASSUME NEW q \in Seq(FrameSet), NEW f \in FrameSet, NEW m \in Nat, Len(q) = m
             PROVE  \E r \in Seq(FrameSet) : /\ r = Append(q, f) /\ Len(r) = m + 1 /\ r[m + 1] = f
                                             /\ \A i \in 1..m : r[i] = q[i]
  OBVIOUS
<1>1. Append(q, f) \in Seq(FrameSet)
  BY AppendFacts
<1>2. PICK r \in Seq(FrameSet) : r = Append(q, f)
  BY <1>1
<1>3. Len(r) = m + 1 /\ r[m + 1] = f /\ \A i \in 1..m : r[i] = q[i]
  BY <1>2, AppendFacts
<1> QED BY <1>2, <1>3

LEMMA CallInPlaceStay ==
  ASSUME IInv, TypeInv', NEW t \in Thread, CallInPlace(t) PROVE CallsStay
<1>1. /\ stack[t] # <<>>
      /\ stack' = [stack EXCEPT ![t] =
           Append(Append(Front(@), [Top(t) EXCEPT !.pc = "calls"]), Called(t, Top(t), "inPlace"))]
      /\ Top(t).op = "emit"
  BY DEF CallInPlace, At, Top
<1>2. PICK q \in Seq(FrameSet) : q = stack[t] /\ q # <<>>
  BY <1>1 DEF IInv, TypeInv
<1>3. Top(t) \in FrameSet /\ TypeInv
  BY <1>1, TopFacts DEF IInv
<1>4. PICK g \in FrameSet : g = [Top(t) EXCEPT !.pc = "calls"] /\ g.op = "emit"
  BY <1>1, <1>3, SMTT(20) DEF FrameSet, Pcs
<1>5. PICK h \in FrameSet : h = Called(t, Top(t), "inPlace") /\ h.pc = "inPlace"
  <2>1. Called(t, Top(t), "inPlace") \in FrameSet
    BY <1>3 DEF FrameSet, Pcs, Ops, Called, Frame
  <2> QED BY <2>1 DEF Called, Frame
<1>6. PICK s \in Seq(FrameSet), m \in Nat :
        /\ s = Front(q) /\ m = Len(q) - 1 /\ Len(s) = m /\ m + 1 = Len(q) /\ \A i \in 1..m : s[i] = q[i]
  <2>1. Front(q) \in Seq(FrameSet) /\ Len(Front(q)) = Len(q) - 1 /\ Len(q) - 1 \in Nat /\ Len(q) - 1 + 1 = Len(q)
        /\ \A i \in 1..(Len(q) - 1) : Front(q)[i] = q[i]
    BY <1>2, FrontFacts
  <2> QED BY <2>1
<1>7. PICK a \in Seq(FrameSet) : /\ a = Append(s, g) /\ Len(a) = m + 1 /\ a[m + 1] = g
                                 /\ \A i \in 1..m : a[i] = s[i]
  BY <1>6, AppendLast, ZenonT(40)
<1>8. PICK r \in Seq(FrameSet) : /\ r = Append(a, h) /\ Len(r) = m + 2 /\ r[m + 2] = h
                                 /\ \A i \in 1..(m + 1) : r[i] = a[i]
  <2>1. PICK k \in Nat : k = m + 1 /\ Len(a) = k
    BY <1>7
  <2>2. PICK r \in Seq(FrameSet) : /\ r = Append(a, h) /\ Len(r) = k + 1 /\ r[k + 1] = h
                                   /\ \A i \in 1..k : r[i] = a[i]
    BY <2>1, AppendLast, ZenonT(40)
  <2>3. k + 1 = m + 2
    BY <2>1
  <2> QED BY <2>1, <2>2, <2>3
<1>9. stack'[t] = r /\ \A u \in Thread : u # t => stack'[u] = stack[u]
  BY <1>1, <1>2, <1>3, <1>4, <1>5, <1>6, <1>7, <1>8 DEF TypeInv
<1>10. \A i \in 1..m : i \in DOMAIN q /\ r[i] = q[i]
  <2>1. \A i \in 1..m : i \in 1..(m + 1)
    OBVIOUS
  <2> QED BY <1>6, <1>7, <1>8, <2>1
<1>11. \A i \in DOMAIN r : i > m => r[i].op # "call" \/ r[i].pc = "inPlace"
  <2>1. \A i \in DOMAIN r : i > m => i = m + 1 \/ i = m + 2
    BY <1>8
  <2>2. r[m + 1] = g
    BY <1>7, <1>8
  <2> QED BY <1>4, <1>5, <1>8, <2>1, <2>2
<1>12. \A i \in 1..m : i \in DOMAIN stack[t] /\ stack'[t][i] = stack[t][i]
  BY <1>2, <1>9, <1>10
<1>13. \A i \in DOMAIN stack'[t] : i > m => stack'[t][i].op # "call" \/ stack'[t][i].pc = "inPlace"
  BY <1>9, <1>11
<1>14. \A u \in Thread : u # t => stack'[u] = stack[u] \/ stack'[u] = <<>>
  BY <1>9
<1> QED BY <1>3, <1>12, <1>13, <1>14, PrefixStay

LEMMA ReturnInPlaceStay ==
  ASSUME IInv, TypeInv', NEW t \in Thread, ReturnInPlace(t) PROVE CallsStay
<1>1. /\ stack[t] # <<>> /\ IsCall(Top(t), "inPlace")
      /\ stack' = [stack EXCEPT ![t] =
           Append(Front(Front(stack[t])), [Last(Front(stack[t])) EXCEPT !.pc = "next"])]
  BY DEF ReturnInPlace, At, Top, IsCall
<1>2. PICK q \in Seq(FrameSet) : q = stack[t] /\ q # <<>> /\ Top(t) = Last(q) /\ TypeInv
  BY <1>1 DEF IInv, TypeInv, Top
<1>3. PICK s \in Seq(FrameSet), n \in Nat :
        /\ s = Front(q) /\ n = Len(q) /\ Len(s) = n - 1 /\ \A i \in 1..(n - 1) : s[i] = q[i]
  <2>1. Front(q) \in Seq(FrameSet) /\ Len(Front(q)) = Len(q) - 1 /\ Len(q) \in Nat
        /\ \A i \in 1..(Len(q) - 1) : Front(q)[i] = q[i]
    BY <1>2, FrontFacts
  <2> QED BY <2>1
<1>4. n > 1 /\ q[n - 1].op = "emit" /\ s # <<>>
  <2>1. PICK i \in DOMAIN q : i = n /\ i > 1 /\ q[i - 1].op = "emit"
    BY <1>1, <1>2, <1>3, TopFacts DEF IInv, HoldInv
  <2> QED BY <1>3, <2>1
<1>5. PICK w \in FrameSet : w = Last(s) /\ w.op = "emit"
  <2>1. Last(s) = s[n - 1] /\ Last(s) \in FrameSet
    BY <1>3, <1>4, FrontFacts
  <2>2. n - 1 \in 1..(n - 1)
    BY <1>4
  <2> QED BY <1>3, <1>4, <2>1, <2>2
<1>6. PICK g \in FrameSet : g = [w EXCEPT !.pc = "next"] /\ g.op = "emit"
  BY <1>5, GoesNext
<1>7. PICK b \in Seq(FrameSet), m \in Nat : /\ b = Front(s) /\ m = n - 2 /\ Len(b) = m
                                            /\ \A i \in 1..m : b[i] = s[i]
  <2>1. Front(s) \in Seq(FrameSet) /\ Len(Front(s)) = Len(s) - 1 /\ \A i \in 1..(Len(s) - 1) : Front(s)[i] = s[i]
    BY <1>4, FrontFacts
  <2>2. Len(s) - 1 = n - 2 /\ n - 2 \in Nat
    BY <1>3, <1>4
  <2> QED BY <2>1, <2>2
<1>8. PICK r \in Seq(FrameSet) : /\ r = Append(b, g) /\ Len(r) = m + 1 /\ r[m + 1] = g
                                 /\ \A i \in 1..m : r[i] = b[i]
  <2>1. Len(b) = m
    BY <1>7
  <2>2. PICK r \in Seq(FrameSet) : r = Append(b, g)
    BY AppendFacts
  <2>3. Len(r) = m + 1 /\ r[m + 1] = g /\ \A i \in 1..m : r[i] = b[i]
    BY <2>1, <2>2, AppendFacts
  <2> QED BY <2>2, <2>3
<1>9. stack'[t] = r /\ \A u \in Thread : u # t => stack'[u] = stack[u]
  BY <1>1, <1>2, <1>3, <1>5, <1>6, <1>7, <1>8 DEF TypeInv
<1>10. \A i \in 1..m : i \in DOMAIN q /\ r[i] = q[i]
  <2>1. \A i \in 1..m : i \in 1..(n - 1) /\ i \in 1..n
    BY <1>7
  <2> QED BY <1>3, <1>7, <1>8, <2>1
<1>11. \A i \in DOMAIN r : i > m => r[i].op # "call" \/ r[i].pc = "inPlace"
  <2>1. \A i \in DOMAIN r : i > m => i = m + 1
    BY <1>8
  <2> QED BY <1>6, <1>8, <2>1
<1>12. \A i \in 1..m : i \in DOMAIN stack[t] /\ stack'[t][i] = stack[t][i]
  BY <1>2, <1>9, <1>10
<1>13. \A i \in DOMAIN stack'[t] : i > m => stack'[t][i].op # "call" \/ stack'[t][i].pc = "inPlace"
  BY <1>9, <1>11
<1> QED BY <1>2, <1>9, <1>12, <1>13, PrefixStay

LEMMA ReturnSyncStay ==
  ASSUME IInv, TypeInv', NEW t \in Thread, ReturnSync(t) PROVE CallsStay
<1>0. PICK u \in Thread, w, g \in FrameSet : SyncReturns(t, u, w, g)
  BY ReturnSyncChanges
<1>1. /\ stack[t] # <<>> /\ IsCall(Top(t), "sync")
      /\ stack' = [stack EXCEPT ![t] = Front(@), ![Top(t).peer] = Append(Front(@), [Last(@) EXCEPT !.pc = "next"])]
  BY DEF ReturnSync, At, Top, IsCall
<1>2. stack'[t] = <<>> /\ \A v \in Thread : v # t /\ v # u => stack'[v] = stack[v]
  BY <1>0 DEF SyncReturns
<1>3. PICK q \in Seq(FrameSet) : q = stack[u] /\ q # <<>> /\ TypeInv
  <2>1. PICK q \in Seq(FrameSet) : q = stack[u]
    BY DEF IInv, TypeInv
  <2>2. w \in ToSet(q)
    BY <1>0, <2>1 DEF SyncReturns
  <2>3. q # <<>>
    BY <2>2 DEF ToSet
  <2> QED BY <2>1, <2>3 DEF IInv
<1>4. Top(t).peer = u
  <2>1. CASE Top(t).peer # u
    <3>1. stack'[u] = stack[u]
      BY <1>0, <1>1, <2>1 DEF SyncReturns, IInv, TypeInv
    <3>2. g \in ToSet(stack[u]) /\ Last(stack[u]) = g
      BY <1>0, <3>1 DEF SyncReturns
    <3>3. w.op = "emit" /\ w.pc = "waits" /\ g.op = "emit" /\ g.pc = "next" /\ w \in ToSet(stack[u])
      BY <1>0 DEF SyncReturns
    <3>4. g = w
      BY <3>2, <3>3, OneHolds DEF Holds
    <3> QED BY <3>3, <3>4
  <2> QED BY <2>1
<1>5. PICK s \in Seq(FrameSet), m \in Nat :
        /\ s = Front(q) /\ m = Len(q) - 1 /\ Len(s) = m /\ m + 1 = Len(q) /\ \A i \in 1..m : s[i] = q[i]
  <2>1. Front(q) \in Seq(FrameSet) /\ Len(Front(q)) = Len(q) - 1 /\ Len(q) - 1 \in Nat /\ Len(q) - 1 + 1 = Len(q)
        /\ \A i \in 1..(Len(q) - 1) : Front(q)[i] = q[i]
    BY <1>3, FrontFacts
  <2> QED BY <2>1
<1>6. stack'[u] = Append(s, [Last(q) EXCEPT !.pc = "next"])
  BY <1>0, <1>1, <1>3, <1>4, <1>5 DEF SyncReturns, IInv, TypeInv
<1>7. PICK h \in FrameSet : h = [Last(q) EXCEPT !.pc = "next"]
  <2>1. Last(q) \in FrameSet
    BY <1>3, FrontFacts
  <2>2. [Last(q) EXCEPT !.pc = "next"] \in FrameSet
    BY <2>1 DEF FrameSet, Pcs
  <2> QED BY <2>2
<1>8. PICK r \in Seq(FrameSet) : /\ r = Append(s, h) /\ Len(r) = m + 1 /\ r[m + 1] = h
                                 /\ \A i \in 1..m : r[i] = s[i]
  <2>1. Len(s) = m
    BY <1>5
  <2>2. PICK r \in Seq(FrameSet) : r = Append(s, h)
    BY AppendFacts
  <2>3. Len(r) = m + 1 /\ r[m + 1] = h /\ \A i \in 1..m : r[i] = s[i]
    BY <2>1, <2>2, AppendFacts
  <2> QED BY <2>2, <2>3
<1>9. stack'[u] = r
  BY <1>6, <1>7, <1>8
<1>10. h.op = "emit"
  <2>1. Last(r) = h
    BY <1>8, StackSets
  <2>2. Last(stack'[u]) = g /\ g.op = "emit"
    BY <1>0 DEF SyncReturns
  <2> QED BY <1>9, <2>1, <2>2
<1>11. \A i \in 1..m : i \in DOMAIN stack[u] /\ stack'[u][i] = stack[u][i]
  BY <1>3, <1>5, <1>8, <1>9
<1>12. \A i \in DOMAIN stack'[u] : i > m => stack'[u][i].op # "call" \/ stack'[u][i].pc = "inPlace"
  <2>1. \A i \in DOMAIN r : i > m => i = m + 1
    BY <1>8
  <2> QED BY <1>8, <1>9, <1>10, <2>1
<1>13. \A v \in Thread : v # u => stack'[v] = stack[v] \/ stack'[v] = <<>>
  BY <1>2
<1> QED BY <1>3, <1>11, <1>12, <1>13, PrefixStay

(***************************************************************************)
(* Calls in place, and the ends of those the emission waited for.           *)
(***************************************************************************)
LEMMA NextBare ==
  (IInv /\ (\E t \in Thread : \E f \in ToSet(stack[t]) : Holds(f) /\ f.pc \in {"next", "read", "post"}) => NoBare)'
<1>1. IInv /\ (\E t \in Thread : \E f \in ToSet(stack[t]) : Holds(f) /\ f.pc \in {"next", "read", "post"}) => NoBare
  <2> SUFFICES ASSUME IInv, NEW t \in Thread, NEW f \in ToSet(stack[t]), Holds(f), f.pc \in {"next", "read", "post"},
                      NEW u \in Thread, NEW e \in ToSet(stack[u]), Emits(e), e.pc \in {"calls", "waits"}
               PROVE  FALSE
    BY BareEmits DEF NoBare
  <2>1. Holds(e)
    BY DEF Holds, Emits
  <2>2. e = f
    BY <2>1, OneHolds
  <2> QED BY <2>2
<1> QED BY <1>1, PTL

LEMMA GoesOnLive ==
  ASSUME AllInv, NoNewEnd, DestroyStays, ConnsSame, UNCHANGED <<open, tasks, ref>>, CallsStay, CalledMore, NoNewHands,
         \A t \in Thread : \A f \in ToSet(stack'[t]) : Busy(f) =>
           \E g \in ToSet(stack[t]) : Busy(g) /\ g.conn = f.conn /\ (f.pc # "calls" => g.pc # "calls"),
         BareInv'
  PROVE  LiveInv'
<1>0. TypeInv /\ IInv /\ CountInv
  BY DEF AllInv, IInv, LiveInv
<1>1. NoNewTask /\ TasksStay
  BY <1>0, QueuesSame
<1>2. ConnInv' /\ EndInv'
  BY <1>1, TameStep DEF Tame, AllInv, LiveInv
<1>3. AtInv'
  <2>1. AtInv /\ UNCHANGED <<life, thread, open>>
    BY DEF AllInv, LiveInv, UseInv, ConnsSame
  <2> QED BY <1>1, <2>1, AtKept
<1>4. CountInv'
  <2>1. UNCHANGED <<life, ref>>
    BY DEF ConnsSame
  <2> QED BY <1>0, <1>1, <2>1, CountKept
<1> QED BY <1>2, <1>3, <1>4 DEF LiveInv, UseInv

LEMMA CallInPlaceLive ==
  ASSUME AllInv, IInv', NEW t \in Thread, CallInPlace(t)
  PROVE  LiveInv'
<1>0. IInv /\ TypeInv /\ TypeInv'
  BY DEF AllInv, IInv
<1>1. PICK g, h \in FrameSet :
           /\ stack[t] # <<>> /\ Top(t).op = "emit" /\ Top(t).pc = "read"
           /\ g.op = "emit" /\ g.pc = "calls" /\ g.conn = Top(t).conn
           /\ h.op = "call" /\ h.pc = "inPlace" /\ h.conn = Top(t).conn
           /\ Changes(t, {Top(t)}, {g, h})
  BY <1>0, CallInPlaceChanges
<1>2. /\ ConnsSame /\ UNCHANGED <<open, tasks, ref>>
      /\ called' = [called EXCEPT ![Top(t).conn] = Append(@, Top(t).n)]
  BY DEF CallInPlace, connectorVars, connVars, ConnsSame
<1>3. PICK old, new : old = {Top(t)} /\ new = {g, h} /\ Changes(t, old, new)
  BY <1>1
<1>4. Top(t) \in ToSet(stack[t]) /\ Top(t) \in FrameSet /\ Holds(Top(t)) /\ ~Lower(Top(t)) /\ Busy(Top(t)) /\ Emits(Top(t))
  BY <1>0, <1>1, FramesSet, TopFacts DEF Holds, Lower, Busy, Emits
<1>5. NoNewEnd /\ DestroyStays
  <2>1. /\ \A f \in old : f.op # "destroy"
        /\ \A f \in new : f.op = "call" \/ (f.op = "emit" /\ \E x \in ToSet(stack[t]) : x.op = "emit")
    BY <1>1, <1>3, <1>4
  <2> QED BY <1>3, <2>1, ChangesTame
<1>6. CallsStay
  BY <1>0, CallInPlaceStay
<1>7. CalledMore
  <2>1. Top(t).conn \in Conn /\ Top(t).n \in Nat
    BY <1>0, <1>1, <1>4, EmitterFacts DEF FrameSet
  <2>2. Calling(Top(t).conn, Top(t).n)
    BY <1>0, <1>2, <2>1, CallingFacts
  <2>3. PICK c, m : c = Top(t).conn /\ m = Top(t).n
    OBVIOUS
  <2>4. /\ called' = [called EXCEPT ![c] = Append(@, m)] /\ c \in Conn /\ m \in Nat
        /\ called \in [Conn -> Seq(Nat)]
    BY <1>0, <1>2, <2>1, <2>3 DEF TypeInv
  <2>5. ASSUME NEW d \in Conn, NEW j \in DOMAIN called[d]
        PROVE  j \in DOMAIN called'[d] /\ called'[d][j] = called[d][j]
    <3>1. CASE d # c
      BY <2>4, <3>1
    <3>2. CASE d = c
      <4>1. called'[d] = Append(called[d], m) /\ called[d] \in Seq(Nat)
        BY <2>4, <3>2
      <4> QED BY <2>4, <4>1
    <3> QED BY <3>1, <3>2
  <2> QED BY <2>5 DEF CalledMore
<1>8. \A u \in Thread : \A f \in ToSet(stack'[u]) : f \in ToSet(stack[u]) \/ (u = t /\ f \in {g, h})
  BY <1>1 DEF Changes
<1>9. ASSUME NEW u \in Thread, NEW f \in ToSet(stack'[u]), Busy(f)
      PROVE  \E x \in ToSet(stack[u]) : Busy(x) /\ x.conn = f.conn /\ (f.pc # "calls" => x.pc # "calls")
  <2>1. CASE f \in ToSet(stack[u])
    BY <1>9, <2>1
  <2>2. CASE u = t /\ f = g
    BY <1>1, <1>4, <2>2
  <2> QED BY <1>1, <1>8, <1>9, <2>1, <2>2 DEF Busy
<1>10. BareInv'
  <2>1. NoBare
    BY <1>0, <1>1, <1>4, NoneBare
  <2>2. \A u \in Thread : \A e \in ToSet(stack'[u]) : Emits(e) => e \in new
    BY <1>0, <1>1, <1>3, <1>4, OneEmission DEF AllInv
  <2>3. \A u \in Thread : \A e \in ToSet(stack'[u]) : Emits(e) => Busy(e) /\ e.conn = h.conn
    BY <1>1, <1>3, <2>2 DEF Emits, Busy
  <2>4. Theirs(h)'
    BY <2>3 DEF Theirs
  <2>5. \A u \in Thread : \A f \in ToSet(stack'[u]) : Bare(f) => f = h
    BY <1>1, <1>8, <2>1 DEF NoBare, Bare
  <2>6. \A u \in Thread : \A k \in DOMAIN tasks'[u] : ~Bare(tasks'[u][k])
    BY <1>2, <2>1 DEF NoBare
  <2> QED BY <2>4, <2>5, <2>6 DEF BareInv
<1>11. NoNewHands
  <2>1. ~Passes(g) /\ ~Passes(h)
    BY <1>1
  <2> QED BY <1>2, <1>8, <2>1, StayHands DEF ConnsSame
<1> QED BY <1>2, <1>5, <1>6, <1>7, <1>9, <1>10, <1>11, GoesOnLive

\* The emission goes on when the call returns.
LEMMA GoesNextLive ==
  ASSUME AllInv, IInv', NoNewEnd, DestroyStays, ConnsSame, UNCHANGED <<open, tasks, ref, called>>, CallsStay,
         NEW t \in Thread, NEW g \in ToSet(stack'[t]), g.op = "emit", g.pc = "next",
         \A u \in Thread : \A f \in ToSet(stack'[u]) : f \in ToSet(stack[u]) \/ f = g
  PROVE  LiveInv'
<1>1. BareInv'
  <2>1. Holds(g)
    BY DEF Holds
  <2>2. NoBare'
    BY <2>1, NextBare
  <2> QED BY <2>2 DEF NoBare, BareInv
<1>2. CalledMore
  BY DEF CalledMore
<1>3. ~Busy(g)
  BY DEF Busy
<1>4. NoNewHands
  <2>1. ~Passes(g)
    OBVIOUS
  <2> QED BY <2>1, StayHands DEF ConnsSame
<1> QED BY <1>1, <1>2, <1>3, <1>4, GoesOnLive

LEMMA ReturnInPlaceLive ==
  ASSUME AllInv, IInv', NEW t \in Thread, ReturnInPlace(t)
  PROVE  LiveInv'
<1>0. IInv /\ TypeInv'
  BY DEF AllInv, IInv
<1>1. PICK e, g \in FrameSet :
           /\ stack[t] # <<>> /\ Top(t).op = "call"
           /\ e \in ToSet(stack[t]) /\ e.op = "emit" /\ e.pc = "calls" /\ g.op = "emit" /\ g.pc = "next"
           /\ Changes(t, {Top(t), e}, {g})
  BY <1>0, ReturnInPlaceChanges
<1>2. PICK old, new : old = {Top(t), e} /\ new = {g} /\ Changes(t, old, new)
  BY <1>1
<1>3. NoNewEnd /\ DestroyStays
  <2>1. /\ \A f \in old : f.op # "destroy"
        /\ \A f \in new : f.op = "call" \/ (f.op = "emit" /\ \E x \in ToSet(stack[t]) : x.op = "emit")
    BY <1>1, <1>2
  <2> QED BY <1>2, <2>1, ChangesTame
<1>4. CallsStay
  BY <1>0, ReturnInPlaceStay
<1>5. g \in ToSet(stack'[t]) /\ \A u \in Thread : \A f \in ToSet(stack'[u]) : f \in ToSet(stack[u]) \/ f = g
  BY <1>2 DEF Changes
<1>6. ConnsSame /\ UNCHANGED <<open, tasks, ref, called>>
  BY DEF ReturnInPlace, connectorVars, connVars, history, ConnsSame
<1> QED BY <1>1, <1>3, <1>4, <1>5, <1>6, GoesNextLive

LEMMA ReturnSyncLive ==
  ASSUME AllInv, IInv', NEW t \in Thread, ReturnSync(t)
  PROVE  LiveInv'
<1>0. IInv /\ TypeInv'
  BY DEF AllInv, IInv
<1>1. PICK u \in Thread, e, g \in FrameSet : SyncReturns(t, u, e, g)
  BY <1>0, ReturnSyncChanges
<1>2. /\ g.op = "emit" /\ g.pc = "next" /\ g \in ToSet(stack'[u]) /\ e \in ToSet(stack[u]) /\ e.op = "emit"
      /\ Top(t).op = "call" /\ ToSet(stack[t]) = {Top(t)}
  BY <1>1 DEF SyncReturns
<1>3. \A v \in Thread : \A f \in ToSet(stack'[v]) : f \in ToSet(stack[v]) \/ (v = u /\ f = g)
  <2>1. ToSet(stack'[t]) = {}
    BY <1>1 DEF SyncReturns, ToSet
  <2> QED BY <1>1, <2>1 DEF SyncReturns
<1>4. NoNewEnd
  BY <1>2, <1>3 DEF NoNewEnd
<1>5. DestroyStays
  <2> SUFFICES ASSUME NEW v \in Thread, NEW f \in ToSet(stack[v]), f.op = "destroy" PROVE f \in ToSet(stack'[v])
    BY DEF DestroyStays
  <2>1. v # t
    BY <1>2
  <2> QED BY <1>1, <1>2, <2>1 DEF SyncReturns
<1>6. CallsStay
  BY <1>0, ReturnSyncStay
<1>7. ConnsSame /\ UNCHANGED <<open, tasks, ref, called>>
  BY DEF ReturnSync, connectorVars, connVars, history, ConnsSame
<1> QED BY <1>2, <1>3, <1>4, <1>5, <1>6, <1>7, GoesNextLive

(***************************************************************************)
(* The loop of a thread.                                                    *)
(***************************************************************************)
LEMMA RunMoves ==
  ASSUME TypeInv, NEW t \in Thread, Run(t)
  PROVE  \E f \in TaskSet :
           /\ 1 \in DOMAIN tasks[t] /\ f = tasks[t][1] /\ f \in FrameSet
           /\ stack[t] = <<>> /\ ToSet(stack[t]) = {} /\ Kept(t, 0) /\ NewTop(t, 0, f)
           /\ Changes(t, {}, {f}) /\ ConnsSame /\ UNCHANGED <<open, ref, mutex, emitted>>
           /\ called' = IF f.op = "call" THEN [called EXCEPT ![f.conn] = Append(@, f.n)] ELSE called
           /\ NoNewTask
           /\ \A u \in Thread : \A k \in DOMAIN tasks'[u] :
                \E i \in DOMAIN tasks[u] : tasks'[u][k] = tasks[u][i] /\ (u = t => i = k + 1 /\ i > 1) /\ (u # t => i = k)
                                           /\ k \in Nat /\ i \in Nat
<1>1. /\ stack[t] = <<>> /\ tasks[t] # <<>>
      /\ stack' = Pushed(t, Head(tasks[t])) /\ tasks' = [tasks EXCEPT ![t] = Tail(@)]
      /\ called' = IF Head(tasks[t]).op = "call"
                   THEN [called EXCEPT ![Head(tasks[t]).conn] = Append(@, Head(tasks[t]).n)] ELSE called
  BY DEF Run
<1>2. ConnsSame /\ UNCHANGED <<open, ref, mutex, emitted>>
  BY DEF Run, connectorVars, connVars, ConnsSame
<1>3. PICK f \in TaskSet : f = tasks[t][1] /\ f = Head(tasks[t]) /\ f \in FrameSet /\ 1 \in DOMAIN tasks[t]
  <2>1. 1 \in DOMAIN tasks[t] /\ tasks[t][1] \in TaskSet /\ tasks[t][1] \in FrameSet
    BY <1>1, RunFacts
  <2>2. Head(tasks[t]) = tasks[t][1]
    BY <1>1 DEF TypeInv
  <2> QED BY <2>1, <2>2
<1>4. Kept(t, 0) /\ NewTop(t, 0, f)
  <2>1. Kept(t, 0) /\ NewTop(t, 0, tasks[t][1])
    BY <1>1, RunFacts
  <2> QED BY <1>3, <2>1 DEF NewTop
<1>5. Changes(t, {}, {f})
  BY <1>1, <1>3, PushChanges
<1>6. ToSet(stack[t]) = {}
  BY <1>1 DEF ToSet
<1>7. \A u \in Thread : \A k \in DOMAIN tasks'[u] :
        \E i \in DOMAIN tasks[u] : tasks'[u][k] = tasks[u][i] /\ (u = t => i = k + 1 /\ i > 1) /\ (u # t => i = k)
                                   /\ k \in Nat /\ i \in Nat
  BY <1>1, RunFacts
<1>8. NoNewTask
  <2>1. PICK s : s = [u \in Thread |-> IF u = t THEN 1 ELSE 0]
    OBVIOUS
  <2>2. s \in [Thread -> Nat]
    BY <2>1
  <2>3. ASSUME NEW u \in Thread, NEW k \in DOMAIN tasks'[u]
        PROVE  k \in Nat /\ k + s[u] \in DOMAIN tasks[u] /\ tasks'[u][k] = tasks[u][k + s[u]]
    <3>1. PICK i \in DOMAIN tasks[u] : /\ tasks'[u][k] = tasks[u][i] /\ (u = t => i = k + 1) /\ (u # t => i = k)
                                       /\ k \in Nat
      BY <1>7
    <3>2. i = k + s[u]
      BY <2>1, <3>1
    <3> QED BY <3>1, <3>2
  <2>4. Moved(s)
    BY <2>3 DEF Moved
  <2> QED BY <2>2, <2>4 DEF NoNewTask
<1> QED BY <1>1, <1>2, <1>3, <1>4, <1>5, <1>6, <1>7, <1>8

LEMMA RunCallLive ==
  ASSUME AllInv, IInv', NEW t \in Thread, Run(t), tasks[t][1].op = "call"
  PROVE  LiveInv'
<1>0. IInv /\ TypeInv /\ TypeInv' /\ CountInv /\ PostInv
  BY DEF AllInv, IInv, LiveInv
<1>1. PICK f \in TaskSet :
           /\ 1 \in DOMAIN tasks[t] /\ f = tasks[t][1] /\ f \in FrameSet
           /\ stack[t] = <<>> /\ ToSet(stack[t]) = {} /\ Kept(t, 0) /\ NewTop(t, 0, f)
           /\ Changes(t, {}, {f}) /\ ConnsSame /\ UNCHANGED <<open, ref, mutex, emitted>>
           /\ called' = IF f.op = "call" THEN [called EXCEPT ![f.conn] = Append(@, f.n)] ELSE called
           /\ NoNewTask
           /\ \A u \in Thread : \A k \in DOMAIN tasks'[u] :
                \E i \in DOMAIN tasks[u] : tasks'[u][k] = tasks[u][i] /\ (u = t => i = k + 1 /\ i > 1) /\ (u # t => i = k)
                                           /\ k \in Nat /\ i \in Nat
  BY <1>0, RunMoves
<1>2. /\ f.op = "call" /\ f.conn \in Conn /\ f.n \in Nat /\ f.pc \in {"queued", "sync"}
      /\ \A u \in Thread : \A j \in DOMAIN tasks[u] :
           Posted(u, j) /\ tasks[u][j].conn = f.conn => u = t /\ (1 < j => f.n < tasks[u][j].n)
  <2>1. f.op = "call" /\ f.n \in Nat
    BY <1>1 DEF FrameSet
  <2>2. Posted(t, 1)
    BY <1>1, <2>1 DEF Posted
  <2> QED BY <1>0, <1>1, <2>1, <2>2 DEF PostInv
<1>3. \A u \in Thread : \A g \in ToSet(stack'[u]) : g \in ToSet(stack[u]) \/ (u = t /\ g = f)
  BY <1>1 DEF Changes
<1>4. NoNewEnd /\ DestroyStays
  <2>1. PICK old, new : old = {} /\ new = {f} /\ Changes(t, old, new)
    BY <1>1
  <2> QED BY <1>2, <2>1, ChangesTame
<1>5. ConnInv' /\ EndInv'
  BY <1>1, <1>4, TameStep DEF Tame, AllInv, LiveInv
<1>6. AtInv'
  <2>1. AtInv /\ UNCHANGED <<life, thread, open>>
    BY <1>1 DEF AllInv, LiveInv, UseInv, ConnsSame
  <2>2. ~Busy(f)
    BY <1>2 DEF Busy
  <2> QED BY <1>1, <1>3, <1>4, <2>1, <2>2, AtKept
<1>7. BareInv'
  <2>1. ~Emits(f)
    BY <1>2 DEF Emits
  <2>2. \A u \in Thread : \A g \in ToSet(stack'[u]) : Bare(g) =>
           g \in ToSet(stack[u]) \/ \E k \in DOMAIN tasks[u] : tasks[u][k] = g
    BY <1>1, <1>3
  <2>3. \A u \in Thread : \A k \in DOMAIN tasks'[u] : \E j \in DOMAIN tasks[u] : tasks[u][j] = tasks'[u][k]
    BY <1>1
  <2> QED BY <1>3, <2>1, <2>2, <2>3, BareKept DEF AllInv, LiveInv, UseInv
<1>8. \A u \in Thread : \A c, n : Runs(u, c, n)' => Runs(u, c, n) \/ (u = t /\ QueuedCall(f, c, n))
  BY <1>3 DEF Runs
<1>9. \A u \in Thread : \A c, n : Waits(u, c, n)' => Waits(u, c, n) /\ ~QueuedCall(f, c, n)
  <2> SUFFICES ASSUME NEW u \in Thread, NEW c, NEW n, Waits(u, c, n)'
               PROVE  Waits(u, c, n) /\ ~QueuedCall(f, c, n)
    OBVIOUS
  <2>1. PICK k \in DOMAIN tasks'[u] : QueuedCall(tasks'[u][k], c, n)
    BY DEF Waits
  <2>2. PICK i \in DOMAIN tasks[u] : tasks'[u][k] = tasks[u][i] /\ (u = t => i > 1) /\ i \in Nat
    BY <1>1
  <2>3. QueuedCall(tasks[u][i], c, n) /\ Waits(u, c, n)
    BY <2>1, <2>2 DEF Waits
  <2>4. ASSUME QueuedCall(f, c, n) PROVE FALSE
    <3>1. Posted(u, i) /\ tasks[u][i].conn = f.conn /\ tasks[u][i].n = f.n
      BY <2>3, <2>4 DEF Posted, QueuedCall
    <3>2. u = t /\ (1 < i => f.n < tasks[u][i].n)
      BY <1>2, <3>1
    <3>3. f.n < f.n
      BY <2>2, <3>1, <3>2
    <3> QED BY <1>2, <3>3
  <2> QED BY <2>3, <2>4
<1>10. \A c, n : QueuedCall(f, c, n) => Waits(t, c, n)
  BY <1>1 DEF Waits
<1>11. CalledMore /\ (\E j \in DOMAIN called'[f.conn] : called'[f.conn][j] = f.n)
  <2>1. PICK c, m : c = f.conn /\ m = f.n
    OBVIOUS
  <2>2. /\ called' = [called EXCEPT ![c] = Append(@, m)] /\ c \in Conn /\ m \in Nat
        /\ called \in [Conn -> Seq(Nat)]
    BY <1>0, <1>1, <1>2, <2>1 DEF TypeInv
  <2>3. ASSUME NEW d \in Conn, NEW j \in DOMAIN called[d]
        PROVE  j \in DOMAIN called'[d] /\ called'[d][j] = called[d][j]
    <3>1. CASE d # c
      BY <2>2, <3>1
    <3>2. CASE d = c
      <4>1. called'[d] = Append(called[d], m) /\ called[d] \in Seq(Nat)
        BY <2>2, <3>2
      <4> QED BY <2>2, <4>1
    <3> QED BY <3>1, <3>2
  <2>4. \E j \in DOMAIN called'[c] : called'[c][j] = m
    <3>1. PICK q \in Seq(Nat) : q = called[c] /\ called'[c] = Append(q, m)
      BY <2>2
    <3>2. Len(q) + 1 \in DOMAIN Append(q, m) /\ Append(q, m)[Len(q) + 1] = m
      BY <2>2
    <3> QED BY <3>1, <3>2
  <2> QED BY <2>1, <2>3, <2>4 DEF CalledMore
<1>12. QueuedInv'
  <2> SUFFICES ASSUME NEW u \in Thread, NEW c \in Conn, NEW n \in Nat, Runs(u, c, n)'
               PROVE  /\ \E j \in DOMAIN called'[c] : called'[c][j] = n
                      /\ \A v \in Thread : ~Waits(v, c, n)' /\ (Runs(v, c, n)' => v = u)
    BY DEF QueuedInv
  <2>1. CASE QueuedCall(f, c, n)
    <3>1. Waits(t, c, n)
      BY <1>10, <2>1
    <3>2. \A v \in Thread : ~Runs(v, c, n)
      BY <1>0, <3>1 DEF CountInv, QueuedInv
    <3>3. \E j \in DOMAIN called'[c] : called'[c][j] = n
      BY <1>11, <2>1 DEF QueuedCall
    <3> QED BY <1>8, <1>9, <2>1, <3>2, <3>3
  <2>2. CASE ~QueuedCall(f, c, n)
    <3>1. Runs(u, c, n)
      BY <1>8, <2>2
    <3>2. PICK j \in DOMAIN called[c] : called[c][j] = n
      BY <1>0, <3>1 DEF CountInv, QueuedInv
    <3>3. \A v \in Thread : ~Waits(v, c, n) /\ (Runs(v, c, n) => v = u)
      BY <1>0, <3>1 DEF CountInv, QueuedInv
    <3>4. j \in DOMAIN called'[c] /\ called'[c][j] = n
      BY <1>11, <3>2 DEF CalledMore
    <3> QED BY <1>8, <1>9, <2>2, <3>3, <3>4
  <2> QED BY <2>1, <2>2
<1>13. \A c \in Conn : Held(c)' \subseteq Held(c)
  BY <1>8, <1>9, <1>10 DEF Held
<1>14. RefInv'
  <2>1. NoNewHands
    <3>1. ~Passes(f)
      BY <1>2
    <3> QED BY <1>1, <1>3, <3>1, StayHands DEF ConnsSame
  <2>2. RefInv /\ UNCHANGED <<life, ref>>
    BY <1>0, <1>1 DEF CountInv, ConnsSame
  <2>3. ref' \in [Conn -> Int] /\ \A c \in Conn : ref[c] - Owned(c) <= ref'[c] - Owned(c)'
    BY <2>1, <2>2, OwnedSame
  <2> QED BY <1>0, <1>13, <2>3, RefKept
<1>15. CallsInv'
  <2> SUFFICES ASSUME NEW u \in Thread, NEW i \in DOMAIN stack'[u], stack'[u][i].op = "call"
               PROVE  /\ stack'[u][i].pc = "queued" => i = 1 /\ stack'[u][i].conn \in Conn
                      /\ stack'[u][i].pc \in {"queued", "inPlace", "sync"}
    BY DEF CallsInv
  <2>1. CASE u = t
    <3>1. Len(stack'[t]) = 1 /\ stack'[t][1] = f /\ DOMAIN stack'[t] = 1..Len(stack'[t])
      BY <1>0, <1>1 DEF NewTop, TypeInv
    <3>2. i = 1
      BY <2>1, <3>1
    <3> QED BY <1>2, <2>1, <3>1, <3>2
  <2>2. CASE u # t
    BY <1>0, <1>1, <2>2 DEF Kept, CountInv, CallsInv
  <2> QED BY <2>1, <2>2
<1> QED BY <1>5, <1>6, <1>7, <1>12, <1>14, <1>15 DEF LiveInv, UseInv, CountInv

LEMMA RunDeleteLive ==
  ASSUME AllInv, IInv', NEW t \in Thread, Run(t), tasks[t][1].op # "call"
  PROVE  LiveInv'
<1>0. IInv /\ TypeInv /\ TypeInv' /\ CountInv /\ DeletionInv /\ EndInv /\ UseInv /\ ConnInv
  BY DEF AllInv, IInv, LiveInv
<1>1. PICK f \in TaskSet :
           /\ 1 \in DOMAIN tasks[t] /\ f = tasks[t][1] /\ f \in FrameSet
           /\ stack[t] = <<>> /\ ToSet(stack[t]) = {} /\ Kept(t, 0) /\ NewTop(t, 0, f)
           /\ Changes(t, {}, {f}) /\ ConnsSame /\ UNCHANGED <<open, ref, mutex, emitted>>
           /\ called' = IF f.op = "call" THEN [called EXCEPT ![f.conn] = Append(@, f.n)] ELSE called
           /\ NoNewTask
           /\ \A u \in Thread : \A k \in DOMAIN tasks'[u] :
                \E i \in DOMAIN tasks[u] : tasks'[u][k] = tasks[u][i] /\ (u = t => i = k + 1 /\ i > 1) /\ (u # t => i = k)
                                           /\ k \in Nat /\ i \in Nat
  BY <1>0, RunMoves
<1>2. f.op = "delete" /\ called' = called
  BY <1>1 DEF TaskSet
<1>3. /\ DeleteTask(t, 1) /\ f.conn \in Conn /\ thread[f.conn] = None /\ f.pc = "release" /\ life[f.conn] = "made"
      /\ RemovesLater(t, 1, f.conn)
  <2>1. DeleteTask(t, 1)
    BY <1>1, <1>2 DEF DeleteTask
  <2>2. Behind(t, 1)
    BY <1>0, <1>1, <2>1 DEF DeletionInv, BehindInv
  <2> QED BY <1>0, <1>1, <2>1, <2>2 DEF Behind, EndInv, LeavingInv, RemovesLater
<1>4. \A u \in Thread : \A g \in ToSet(stack'[u]) : g \in ToSet(stack[u]) \/ (u = t /\ g = f)
  BY <1>1 DEF Changes
<1>5. \A u \in Thread : \A g \in ToSet(stack[u]) : g.op # "destroy"
  BY <1>0, <1>1, <1>3 DEF EndInv, DestroyInv, Alone
<1>6. ConnInv'
  <2>1. ~Destroying
    BY <1>5 DEF Destroying
  <2> QED BY <1>0, <1>1, <2>1, SameConn
<1>7. LeavingInv'
  <2>1. ASSUME NEW u \in Thread, NEW g \in ToSet(stack'[u]) PROVE Leaving(g)'
    <3>1. CASE g \in ToSet(stack[u])
      BY <1>0, <1>1, <3>1 DEF EndInv, LeavingInv, Leaving, ConnsSame
    <3>2. CASE g = f
      BY <1>1, <1>2, <1>3, <3>2 DEF Leaving, ConnsSame
    <3> QED BY <1>4, <3>1, <3>2
  <2>2. \A u \in Thread : \A k \in DOMAIN tasks'[u] : DeleteTask(u, k)' =>
           tasks'[u][k].pc = "release" /\ life'[tasks'[u][k].conn] = "made"
    BY <1>0, <1>1 DEF EndInv, LeavingInv, DeleteTask, ConnsSame
  <2> QED BY <2>1, <2>2 DEF LeavingInv
<1>8. \A u \in Thread : \A c : Removes(u, c)' => Removes(u, c) \/ (u = t /\ RemovesLater(t, 1, c))
  BY <1>1, <1>3, <1>4 DEF Removes, RemovesLater
<1>9. \A u \in Thread : \A k \in DOMAIN tasks'[u] : \A c : RemovesLater(u, k, c)' =>
        \E i \in DOMAIN tasks[u] : RemovesLater(u, i, c) /\ (u = t => i = k + 1 /\ i > 1) /\ (u # t => i = k)
                                   /\ k \in Nat /\ i \in Nat
  BY <1>1 DEF RemovesLater, DeleteTask
<1>10. SoleInv'
  <2> SUFFICES ASSUME NEW c \in Conn, NEW u \in Thread, NEW v \in Thread
               PROVE  /\ Removes(u, c)' /\ Removes(v, c)' => u = v
                      /\ Removes(u, c)' => \A k \in DOMAIN tasks'[v] : ~RemovesLater(v, k, c)'
                      /\ \A j \in DOMAIN tasks'[u], k \in DOMAIN tasks'[v] :
                           RemovesLater(u, j, c)' /\ RemovesLater(v, k, c)' => u = v /\ j = k
    BY DEF SoleInv
  <2>0. /\ \A x, y \in Thread : /\ Removes(x, c) /\ Removes(y, c) => x = y
                                /\ Removes(x, c) => \A k \in DOMAIN tasks[y] : ~RemovesLater(y, k, c)
        /\ \A x, y \in Thread : \A j \in DOMAIN tasks[x], k \in DOMAIN tasks[y] :
             RemovesLater(x, j, c) /\ RemovesLater(y, k, c) => x = y /\ j = k
    BY <1>0 DEF EndInv, SoleInv
  <2>1. Removes(u, c)' /\ Removes(v, c)' => u = v
    BY <1>1, <1>8, <2>0
  <2>2. ASSUME Removes(u, c)', NEW k \in DOMAIN tasks'[v], RemovesLater(v, k, c)' PROVE FALSE
    <3>1. PICK i \in DOMAIN tasks[v] : RemovesLater(v, i, c) /\ (v = t => i > 1) /\ i \in Nat
      BY <1>9, <2>2
    <3>2. ~Removes(u, c)
      BY <2>0, <3>1
    <3>3. RemovesLater(t, 1, c)
      BY <1>8, <2>2, <3>2
    <3>4. v = t /\ i = 1
      BY <1>1, <2>0, <3>1, <3>3
    <3> QED BY <3>1, <3>4
  <2>3. ASSUME NEW j \in DOMAIN tasks'[u], NEW k \in DOMAIN tasks'[v], RemovesLater(u, j, c)', RemovesLater(v, k, c)'
        PROVE  u = v /\ j = k
    <3>1. PICK a \in DOMAIN tasks[u] : RemovesLater(u, a, c) /\ (u = t => a = j + 1) /\ (u # t => a = j) /\ j \in Nat
      BY <1>9, <2>3
    <3>2. PICK b \in DOMAIN tasks[v] : RemovesLater(v, b, c) /\ (v = t => b = k + 1) /\ (v # t => b = k) /\ k \in Nat
      BY <1>9, <2>3
    <3>3. u = v /\ a = b
      BY <2>0, <3>1, <3>2
    <3> QED BY <3>1, <3>2, <3>3
  <2> QED BY <2>1, <2>2, <2>3
<1>11. DestroyInv'
  BY <1>2, <1>4, <1>5 DEF DestroyInv
<1>12. AtInv'
  <2> SUFFICES ASSUME NEW u \in Thread, NEW g \in ToSet(stack'[u]), Busy(g) PROVE AtConn(u, g)'
    BY DEF AtInv
  <2>1. g \in ToSet(stack[u]) /\ AtConn(u, g)
    BY <1>0, <1>2, <1>4 DEF Busy, UseInv, AtInv
  <2>2. f.conn # g.conn
    <3>1. u # t
      BY <1>1, <2>1
    <3> QED BY <1>1, <1>3, <2>1, <3>1 DEF AtConn, OwnLoop
  <2>3. PICK c : c = g.conn
    OBVIOUS
  <2>4. OwnLoop(u, c)'
    <3>1. ASSUME NEW v \in Thread, NEW x \in ToSet(stack'[v]), Deletion(x), x.conn = c
          PROVE  x.op = "disconnect" /\ v = u /\ x.peer = u /\ open'[u]
      <4>1. x \in ToSet(stack[v])
        BY <1>4, <2>2, <2>3, <3>1
      <4> QED BY <1>1, <2>1, <2>3, <3>1, <4>1 DEF AtConn, OwnLoop
    <3>2. ASSUME NEW v \in Thread, NEW k \in DOMAIN tasks'[v], RemovesLater(v, k, c)' PROVE v = u
      BY <1>9, <2>1, <2>3, <3>2 DEF AtConn, OwnLoop
    <3> QED BY <3>1, <3>2 DEF OwnLoop
  <2> QED BY <1>1, <2>1, <2>3, <2>4 DEF AtConn, ConnsSame
<1>13. BareInv'
  <2>1. ~Emits(f) /\ ~Bare(f)
    BY <1>2 DEF Emits, Bare
  <2>2. \A u \in Thread : \A k \in DOMAIN tasks'[u] : \E j \in DOMAIN tasks[u] : tasks[u][j] = tasks'[u][k]
    BY <1>1
  <2> QED BY <1>0, <1>4, <2>1, <2>2, BareKept DEF UseInv
<1>14. CountInv'
  <2>1. CallsStay
    BY <1>0, <1>1, <1>2, KeptCalls DEF NewTop
  <2>2. TasksStay
    BY <1>1 DEF TasksStay
  <2>3. CalledMore /\ UNCHANGED <<life, ref>>
    BY <1>1, <1>2 DEF CalledMore, ConnsSame
  <2>4. NoNewHands
    <3>1. ~Passes(f)
      BY <1>2
    <3> QED BY <1>1, <1>4, <3>1, StayHands DEF ConnsSame
  <2> QED BY <1>0, <2>1, <2>2, <2>3, <2>4, CountKept
<1> QED BY <1>6, <1>7, <1>10, <1>11, <1>12, <1>13, <1>14 DEF LiveInv, UseInv, EndInv

(***************************************************************************)
(* The steps of the users, and the steps that delete and destroy.           *)
(***************************************************************************)
LEMMA BareStays ==
  ASSUME BareInv, TasksStay, \A t \in Thread : \A f \in ToSet(stack'[t]) : Emits(f) \/ Bare(f) => f \in ToSet(stack[t])
  PROVE  BareInv'
<1>1. \A t \in Thread : \A k \in DOMAIN tasks'[t] : Bare(tasks'[t][k]) =>
        \E j \in DOMAIN tasks[t] : tasks[t][j] = tasks'[t][k]
  BY DEF TasksStay, Bare
<1> QED BY <1>1, BareKept

LEMMA CountStays ==
  ASSUME IInv, CountInv, CallsStay, TasksStay, called' = called, NoNewHands,
         ref' \in [Conn -> Int], \A c \in Conn : ref[c] - Whole(c) <= ref'[c] - Whole(c)'
  PROVE  CountInv'
<1>1. CalledMore
  BY DEF CalledMore
<1>2. QueuedInv' /\ \A c \in Conn : Held(c)' \subseteq Held(c)
  BY <1>1, StayRuns, StayWaits, QueuedKept DEF CountInv
<1>3. RefInv'
  <2>1. \A c \in Conn : ref[c] - Owned(c) <= ref'[c] - Owned(c)'
    BY OwnedMore DEF CountInv
  <2> QED BY <1>2, <2>1, RefKept
<1> QED BY <1>2, <1>3, StayCalls DEF CountInv

\* What an emission is at is not touched; its own thread, which has taken it, may disconnect it.
Untouched(t, f) ==
  /\ f \in ToSet(stack[t]) /\ life'[f.conn] = life[f.conn] /\ open'[t] = open[t]
  /\ f.pc # "calls" => thread'[f.conn] = thread[f.conn]
  /\ \A u \in Thread : \A g \in ToSet(stack'[u]) : Deletion(g) /\ g.conn = f.conn =>
       g \in ToSet(stack[u]) \/ (g.op = "disconnect" /\ u = t /\ g.peer = t /\ open[t])
  /\ \A u \in Thread : \A k \in DOMAIN tasks'[u] : RemovesLater(u, k, f.conn)' =>
       u = t \/ \E j \in DOMAIN tasks[u] : RemovesLater(u, j, f.conn)

LEMMA AtStays ==
  ASSUME AtInv, \A t \in Thread : \A f \in ToSet(stack'[t]) : Busy(f) => Untouched(t, f)
  PROVE  AtInv'
<1> SUFFICES ASSUME NEW t \in Thread, NEW f \in ToSet(stack'[t]), Busy(f) PROVE AtConn(t, f)'
  BY DEF AtInv
<1>1. Untouched(t, f) /\ AtConn(t, f)
  BY DEF AtInv, Untouched
<1>2. PICK c : c = f.conn
  OBVIOUS
<1>3. OwnLoop(t, c)'
  <2>1. ASSUME NEW u \in Thread, NEW g \in ToSet(stack'[u]), Deletion(g), g.conn = c
        PROVE  g.op = "disconnect" /\ u = t /\ g.peer = t /\ open'[t]
    BY <1>1, <1>2, <2>1 DEF Untouched, AtConn, OwnLoop
  <2>2. ASSUME NEW u \in Thread, NEW k \in DOMAIN tasks'[u], RemovesLater(u, k, c)' PROVE u = t
    <3>1. u = t \/ \E j \in DOMAIN tasks[u] : RemovesLater(u, j, c)
      BY <1>1, <1>2, <2>2 DEF Untouched
    <3> QED BY <1>1, <1>2, <3>1 DEF AtConn, OwnLoop
  <2> QED BY <2>1, <2>2 DEF OwnLoop
<1> QED BY <1>1, <1>2, <1>3 DEF AtConn, Untouched

\* What the users are told.
LEMMA NobodyDestroys ==
  ASSUME Orderly, TypeInv, NEW t \in Thread,
         MayUse(t) \/ (\E ty \in Types : MayConnect(t, ty)) \/ \E c \in Conn : MayDisconnect(t, c)
  PROVE  \A u \in Thread : \A f \in ToSet(stack[u]) : f.op # "destroy"
<1>1. ~SomebodyDestroys
  BY DEF Orderly, MayUse, MayConnect, MayDisconnect
<1> QED BY <1>1, FramesSet DEF SomebodyDestroys

LEMMA PushStays ==
  ASSUME TypeInv, TypeInv', NEW t \in Thread, NEW f \in FrameSet, f.op # "call",
         stack[t] = <<>> \/ Top(t).op = "call", stack' = Pushed(t, f), tasks' = tasks
  PROVE  /\ CallsStay /\ TasksStay /\ NoNewTask /\ DestroyStays
         /\ \A u \in Thread : \A g \in ToSet(stack'[u]) : g \in ToSet(stack[u]) \/ (u = t /\ g = f)
         /\ f \in ToSet(stack'[t])
<1>1. Changes(t, {}, {f})
  BY PushChanges DEF Lower
<1>2. PICK m \in Nat : m = Len(stack[t]) /\ Kept(t, m) /\ NewTop(t, m, f)
  <2>1. Kept(t, Len(stack[t])) /\ NewTop(t, Len(stack[t]), f)
    BY PushedKept
  <2>2. PICK m \in Nat : m = Len(stack[t])
    BY DEF TypeInv
  <2> QED BY <2>1, <2>2
<1>3. CallsStay
  BY <1>2, KeptCalls DEF NewTop
<1> QED BY <1>1, <1>3, QueuesSame DEF Changes, DestroyStays

LEMMA UserLive ==
  ASSUME AllInv, IInv', NEW t \in Thread, NEW f \in FrameSet, f.op \in {"emit", "destroy"}, f.pc = "lock", ~gone,
         stack[t] = <<>> \/ Top(t).op = "call", stack' = Pushed(t, f), ConnsSame, UNCHANGED <<open, tasks, ref, called>>,
         DestroyInv'
  PROVE  LiveInv'
<1>0. IInv /\ TypeInv /\ TypeInv' /\ CountInv /\ EndInv /\ UseInv /\ ConnInv
  BY DEF AllInv, IInv, LiveInv
<1>1. /\ CallsStay /\ TasksStay /\ NoNewTask /\ DestroyStays
      /\ \A u \in Thread : \A g \in ToSet(stack'[u]) : g \in ToSet(stack[u]) \/ (u = t /\ g = f)
  BY <1>0, PushStays
<1>2. ~Deletion(f) /\ ~Busy(f) /\ ~Emits(f) /\ ~Bare(f)
  BY DEF Deletion, Busy, Emits, Bare
<1>3. ConnInv'
  BY <1>0, <1>1, SameConn, StaysDestroying
<1>4. LeavingInv'
  <2>1. ASSUME NEW u \in Thread, NEW g \in ToSet(stack'[u]) PROVE Leaving(g)'
    BY <1>0, <1>1, <1>2 DEF EndInv, LeavingInv, Leaving, ConnsSame
  <2> QED BY <1>0, <2>1 DEF EndInv, LeavingInv, DeleteTask, ConnsSame
<1>5. SoleInv'
  <2>1. \A u \in Thread, c \in Conn : Removes(u, c)' => Removes(u, c)
    BY <1>1, <1>2 DEF Removes
  <2> QED BY <1>0, <1>1, <2>1, SoleKept DEF EndInv
<1>6. AtInv'
  <2>1. \A u \in Thread : \A g \in ToSet(stack'[u]) : Busy(g) => Untouched(u, g)
    BY <1>1, <1>2 DEF Untouched, ConnsSame, RemovesLater, DeleteTask
  <2> QED BY <1>0, <2>1, AtStays DEF UseInv
<1>7. BareInv'
  BY <1>0, <1>1, <1>2, BareStays DEF UseInv
<1>8. CountInv'
  <2>1. CalledMore /\ UNCHANGED <<life, ref>>
    BY DEF CalledMore, ConnsSame
  <2>2. NoNewHands
    <3>1. ~Passes(f)
      OBVIOUS
    <3> QED BY <1>1, <3>1, StayHands DEF ConnsSame
  <2> QED BY <1>0, <1>1, <2>1, <2>2, CountKept
<1> QED BY <1>3, <1>4, <1>5, <1>6, <1>7, <1>8 DEF LiveInv, EndInv, UseInv

LEMMA EmitLive ==
  ASSUME Orderly, AllInv, IInv', NEW t \in Thread, Emit(t) PROVE LiveInv'
<1>0. IInv /\ TypeInv /\ TypeInv'
  BY DEF AllInv, IInv
<1>1. /\ stack[t] = <<>> \/ Top(t).op = "call"
      /\ stack' = Pushed(t, Frame("emit", "lock", 0, 0, None)) /\ ~gone /\ MayUse(t)
      /\ ConnsSame /\ UNCHANGED <<open, tasks, ref, called>>
  BY DEF Emit, UserRuns, MayEmit, connectorVars, connVars, history, ConnsSame
<1>2. PICK f \in FrameSet : f = Frame("emit", "lock", 0, 0, None) /\ f.op = "emit" /\ f.pc = "lock"
  <2>1. Frame("emit", "lock", 0, 0, None) \in FrameSet
    BY DEF Frame, FrameSet, Ops, Pcs
  <2> QED BY <2>1 DEF Frame
<1>3. DestroyInv'
  <2>1. \A u \in Thread : \A g \in ToSet(stack[u]) : g.op # "destroy"
    BY <1>0, <1>1, NobodyDestroys
  <2>2. \A u \in Thread : \A g \in ToSet(stack'[u]) : g \in ToSet(stack[u]) \/ g = f
    BY <1>0, <1>1, <1>2, PushStays
  <2> QED BY <1>2, <2>1, <2>2 DEF DestroyInv
<1> QED BY <1>1, <1>2, <1>3, UserLive

LEMMA DestroyLive ==
  ASSUME Orderly, AllInv, IInv', NEW t \in Thread, Destroy(t) PROVE LiveInv'
<1>0. IInv /\ TypeInv /\ TypeInv'
  BY DEF AllInv, IInv
<1>1. /\ stack[t] = <<>> \/ Top(t).op = "call"
      /\ stack' = Pushed(t, Frame("destroy", "lock", 0, 0, None)) /\ ~gone
      /\ ConnsSame /\ UNCHANGED <<open, tasks, ref, called>>
      /\ \A u \in Thread : Uses(u) => u = t /\ \A f \in Frames(t) : f.op = "call"
  BY DEF Destroy, UserRuns, MayDestroy, Orderly, connectorVars, connVars, history, ConnsSame
<1>2. PICK f \in FrameSet : f = Frame("destroy", "lock", 0, 0, None) /\ f.op = "destroy" /\ f.pc = "lock" /\ f.conn = 0
  <2>1. Frame("destroy", "lock", 0, 0, None) \in FrameSet
    BY DEF Frame, FrameSet, Ops, Pcs
  <2> QED BY <2>1 DEF Frame
<1>3. \A u \in Thread : Using(u) => u = t /\ \A g \in ToSet(stack[t]) : g.op = "call"
  BY <1>0, <1>1, UsingUses, FramesSet
<1>4. \A u \in Thread : \A g \in ToSet(stack[u]) : g.op = "call"
  BY <1>3 DEF Using
<1>5. \A u \in Thread : \A g \in ToSet(stack'[u]) : g \in ToSet(stack[u]) \/ (u = t /\ g = f)
  BY <1>0, <1>1, <1>2, PushStays
<1>6. \A u \in Thread : \A k \in DOMAIN tasks'[u] : DeleteTask(u, k)' => u = t
  BY <1>1, <1>3 DEF DeleteTask, Using, Deletes
<1>7. Alone(t, f)'
  BY <1>2, <1>4, <1>5, <1>6 DEF Alone
<1>8. DestroyInv'
  BY <1>4, <1>5, <1>7 DEF DestroyInv
<1> QED BY <1>1, <1>2, <1>8, UserLive

LEMMA FinishLive ==
  ASSUME AllInv, IInv', NEW t \in Thread, Finish(t) PROVE LiveInv'
<1>0. IInv /\ CountInv /\ EndInv /\ UseInv /\ ConnInv
  BY DEF AllInv, IInv, LiveInv
<1>1. /\ stack[t] = <<>> /\ open' = [open EXCEPT ![t] = FALSE] /\ ConnsSame
      /\ UNCHANGED <<stack, tasks, ref, called>>
  BY DEF Finish, connectorVars, connVars, history, ConnsSame
<1>2. ConnInv' /\ EndInv'
  BY <1>0, <1>1 DEF ConnInv, GuardInv, WholeInv, Destroying, EndInv, LeavingInv, Leaving, DeleteTask,
     SoleInv, Removes, RemovesLater, DestroyInv, Alone, Passed, ConnsSame
<1>3. AtInv'
  <2>1. ASSUME NEW u \in Thread, NEW g \in ToSet(stack'[u]), Busy(g) PROVE Untouched(u, g)
    <3>1. u # t
      BY <1>1, <2>1 DEF ToSet
    <3>2. open'[u] = open[u]
      BY <1>1, <3>1 DEF AllInv, CircleInv, OpenInv
    <3> QED BY <1>1, <3>2 DEF Untouched, ConnsSame, RemovesLater, DeleteTask
  <2> QED BY <1>0, <2>1, AtStays DEF UseInv
<1>4. BareInv'
  BY <1>0, <1>1 DEF UseInv, BareInv, Theirs
<1>5. CountInv'
  <2>1. CallsStay /\ TasksStay /\ CalledMore /\ UNCHANGED <<life, ref>>
    BY <1>1 DEF CallsStay, TasksStay, CalledMore, ConnsSame
  <2>2. NoNewHands
    BY <1>1, StayHands DEF ConnsSame
  <2> QED BY <1>0, <2>1, <2>2, CountKept
<1> QED BY <1>2, <1>3, <1>4, <1>5 DEF LiveInv, UseInv

LEMMA DestroyGuardLive ==
  ASSUME Orderly, AllInv, IInv', NEW t \in Thread, NEW c \in Conn, DestroyGuard(t, c) PROVE LiveInv'
<1>0. IInv /\ TypeInv /\ TypeInv' /\ CountInv /\ EndInv /\ UseInv /\ ConnInv /\ DeletionInv /\ CircleInv
  BY DEF AllInv, IInv, LiveInv
<1>1. /\ stack[t] = <<>> \/ Top(t).op = "call"
      /\ guarded[c] /\ thread[c] # None /\ MayDisconnect(t, c)
      /\ stack' = Pushed(t, Frame("disconnect", "decide", c, 0, thread[c]))
      /\ thread' = [thread EXCEPT ![c] = None] /\ guarded' = [guarded EXCEPT ![c] = FALSE]
      /\ UNCHANGED <<list, mutex, gone, life, type, linked, ref, open, tasks, called>>
  BY DEF DestroyGuard, UserRuns, connectorVars, history
<1>2. PICK f \in FrameSet : f = Frame("disconnect", "decide", c, 0, thread[c])
                            /\ f.op = "disconnect" /\ f.pc = "decide" /\ f.conn = c /\ f.peer = thread[c]
  <2>1. thread[c] \in Thread
    BY <1>0, <1>1 DEF TypeInv
  <2>2. Frame("disconnect", "decide", c, 0, thread[c]) \in FrameSet
    BY <2>1 DEF Frame, FrameSet, Ops, Pcs
  <2> QED BY <2>2 DEF Frame
<1>3. /\ CallsStay /\ TasksStay /\ NoNewTask /\ DestroyStays
      /\ \A u \in Thread : \A g \in ToSet(stack'[u]) : g \in ToSet(stack[u]) \/ (u = t /\ g = f)
  <2>1. stack' = Pushed(t, f) /\ tasks' = tasks /\ f.op # "call" /\ (stack[t] = <<>> \/ Top(t).op = "call")
    BY <1>1, <1>2
  <2> QED BY <1>0, <2>1, PushStays
<1>4. \A u \in Thread : \A g \in ToSet(stack[u]) : g.op # "destroy"
  BY <1>0, <1>1, NobodyDestroys
<1>5. thread'[c] = None /\ ~guarded'[c] /\ \A d \in Conn : d # c => thread'[d] = thread[d] /\ guarded'[d] = guarded[d]
  BY <1>0, <1>1 DEF TypeInv, DeletionInv, OwnInv
<1>6. \A u \in Thread : ~Removes(u, c) /\ \A k \in DOMAIN tasks[u] : ~RemovesLater(u, k, c)
  BY <1>1, NoDeletion DEF AllInv
<1>7. life[c] = "made"
  BY <1>0, <1>1 DEF ConnInv, GuardInv
<1>8. ConnInv'
  <2>1. ~Destroying
    BY <1>4 DEF Destroying
  <2>2. GuardInv'
    BY <1>0, <1>1, <1>5 DEF ConnInv, GuardInv
  <2>3. WholeInv'
    BY <1>0, <1>1, <1>5, <2>1 DEF ConnInv, WholeInv
  <2> QED BY <2>2, <2>3 DEF ConnInv
<1>9. LeavingInv'
  <2>1. ASSUME NEW u \in Thread, NEW g \in ToSet(stack'[u]) PROVE Leaving(g)'
    <3>1. CASE g = f
      BY <1>1, <1>2, <1>5, <1>7, <3>1 DEF Leaving
    <3>2. CASE g \in ToSet(stack[u])
      <4>1. Leaving(g)
        BY <1>0, <3>2 DEF EndInv, LeavingInv
      <4>2. Deletion(g) => g.conn \in Conn /\ thread'[g.conn] = None
        BY <1>5, <4>1 DEF Leaving
      <4> QED BY <1>1, <4>1, <4>2 DEF Leaving
    <3> QED BY <1>3, <3>1, <3>2
  <2> QED BY <1>0, <1>1, <2>1 DEF EndInv, LeavingInv, DeleteTask
<1>10. SoleInv'
  <2>1. \A u \in Thread : \A d \in Conn : Removes(u, d)' => Removes(u, d) \/ (u = t /\ d = c)
    BY <1>2, <1>3 DEF Removes
  <2>2. \A u \in Thread : \A d : \A k \in DOMAIN tasks'[u] : RemovesLater(u, k, d)' => RemovesLater(u, k, d)
    BY <1>1 DEF RemovesLater, DeleteTask
  <2> QED BY <1>0, <1>1, <1>6, <2>1, <2>2 DEF EndInv, SoleInv
<1>11. DestroyInv'
  BY <1>2, <1>3, <1>4 DEF DestroyInv
<1>12. AtInv'
  <2>1. ASSUME NEW u \in Thread, NEW g \in ToSet(stack'[u]), Busy(g) PROVE Untouched(u, g)
    <3>1. g \in ToSet(stack[u]) /\ AtConn(u, g)
      BY <1>0, <1>2, <1>3, <2>1 DEF Busy, UseInv, AtInv
    <3>2. \A v \in Thread : \A k \in DOMAIN tasks'[v] : RemovesLater(v, k, g.conn)' => RemovesLater(v, k, g.conn)
      BY <1>1 DEF RemovesLater, DeleteTask
    <3>3. CASE g.conn # c
      <4>1. thread'[g.conn] = thread[g.conn]
        BY <1>5, <3>1, <3>3 DEF AtConn
      <4>2. \A v \in Thread : \A x \in ToSet(stack'[v]) : Deletion(x) /\ x.conn = g.conn => x \in ToSet(stack[v])
        BY <1>2, <1>3, <3>3
      <4> QED BY <1>1, <3>1, <3>2, <4>1, <4>2 DEF Untouched
    <3>4. CASE g.conn = c
      <4>1. IsAt(u, c)
        <5>1. g \in Frames(u)
          BY <1>0, <3>1, FramesSet
        <5> QED BY <2>1, <3>4, <5>1 DEF IsAt, Busy
      <4>2. u = t /\ t = thread[c]
        BY <1>1, <4>1 DEF MayDisconnect, Orderly
      <4>3. mutex = t
        <5>1. PICK i \in DOMAIN stack[u] : g = stack[u][i]
          BY <3>1 DEF ToSet
        <5>2. Holds(g)
          BY <2>1 DEF Busy, Holds
        <5> QED BY <1>0, <4>2, <5>1, <5>2 DEF IInv, HoldInv
      <4>4. open[t]
        BY <1>1, <4>3 DEF MayDisconnect, Orderly
      <4>5. g.pc = "calls"
        <5>1. stack[t] # <<>>
          BY <3>1, <4>2 DEF ToSet
        <5>2. Lower(g) \/ g = Top(t)
          BY <1>0, <3>1, <4>2, <5>1, TopAlone
        <5> QED BY <1>1, <2>1, <5>1, <5>2 DEF Lower, Busy
      <4>6. \A v \in Thread : \A x \in ToSet(stack'[v]) : Deletion(x) /\ x.conn = c =>
               x \in ToSet(stack[v]) \/ (x.op = "disconnect" /\ v = t /\ x.peer = t /\ open[t])
        BY <1>2, <1>3, <4>2, <4>4
      <4> QED BY <1>1, <3>1, <3>2, <3>4, <4>2, <4>5, <4>6 DEF Untouched
    <3> QED BY <3>3, <3>4
  <2> QED BY <1>0, <2>1, AtStays DEF UseInv
<1>13. BareInv'
  <2>1. ~Emits(f) /\ ~Bare(f)
    BY <1>2 DEF Emits, Bare
  <2> QED BY <1>0, <1>3, <2>1, BareStays DEF UseInv
<1>14. CountInv'
  <2>1. CalledMore /\ UNCHANGED <<life, ref>>
    BY <1>1 DEF CalledMore
  <2>2. NoNewHands
    <3>1. ~Passes(f)
      BY <1>2
    <3> QED BY <1>1, <1>3, <3>1, StayHands
  <2> QED BY <1>0, <1>3, <2>1, <2>2, CountKept
<1> QED BY <1>8, <1>9, <1>10, <1>11, <1>12, <1>13, <1>14 DEF LiveInv, EndInv, UseInv

LEMMA ConnectLive ==
  ASSUME Orderly, AllInv, IInv', NEW t \in Thread, NEW c \in Conn, NEW ty \in Types, Connect(t, c, ty) PROVE LiveInv'
<1>0. IInv /\ TypeInv /\ TypeInv' /\ CountInv /\ EndInv /\ UseInv /\ ConnInv /\ DeletionInv /\ RefInv
  BY DEF AllInv, IInv, LiveInv, CountInv
<1>1. /\ mutex = None /\ life[c] = "none" /\ ~gone /\ list' = list \cup {c} /\ MayConnect(t, ty)
      /\ life' = [life EXCEPT ![c] = "made"] /\ thread' = [thread EXCEPT ![c] = t]
      /\ linked' = [linked EXCEPT ![c] = TRUE] /\ guarded' = [guarded EXCEPT ![c] = TRUE]
      /\ ref' = [ref EXCEPT ![c] = 1]
      /\ UNCHANGED <<gone, open, tasks, stack, called>>
  BY DEF Connect, threadVars, history
<1>2. \A u \in Thread : \A g \in ToSet(stack[u]) : g.op # "destroy"
  BY <1>0, <1>1, NobodyDestroys
<1>3. /\ life'[c] = "made" /\ thread'[c] = t /\ t # None
      /\ \A d \in Conn : d # c => life'[d] = life[d] /\ thread'[d] = thread[d] /\ guarded'[d] = guarded[d]
  BY <1>0, <1>1 DEF TypeInv, DeletionInv, OwnInv
<1>4. linked' \in [Conn -> BOOLEAN] /\ \A d \in Conn : d # c => linked'[d] = linked[d]
  BY <1>0, <1>1 DEF ConnInv, WholeInv
<1>5. c \notin list
  BY <1>0, <1>1 DEF IInv, CalledInv
<1>6. ~Destroying
  BY <1>2 DEF Destroying
<1>7. GuardInv'
  BY <1>0, <1>1, <1>3 DEF ConnInv, GuardInv
<1>8. WholeInv'
  <2> SUFFICES ASSUME NEW d \in Conn
               PROVE  /\ thread'[d] # None => life'[d] = "made" \/ gone' \/ Destroying'
                      /\ d \in list' => Destroying' \/ (linked'[d] /\ life'[d] \in {"made", "released"})
                      /\ life'[d] \in {"made", "released"} => (~gone' => d \in list') /\ (gone' => ~linked'[d])
    BY <1>4 DEF WholeInv
  <2>1. CASE d # c
    BY <1>0, <1>1, <1>3, <1>4, <1>6, <2>1 DEF ConnInv, WholeInv
  <2>2. CASE d = c
    <3>1. linked'[d]
      BY <1>0, <1>1, <2>2 DEF ConnInv, WholeInv
    <3> QED BY <1>1, <1>3, <2>2, <3>1
  <2> QED BY <2>1, <2>2
<1>9. LeavingInv'
  <2>1. ASSUME NEW u \in Thread, NEW g \in ToSet(stack'[u]) PROVE Leaving(g)'
    <3>1. Leaving(g)
      BY <1>0, <1>1 DEF EndInv, LeavingInv
    <3>2. Deletion(g) => g.conn # c
      BY <1>1, <3>1 DEF Leaving
    <3> QED BY <1>1, <1>3, <3>1, <3>2 DEF Leaving
  <2>2. ASSUME NEW u \in Thread, NEW k \in DOMAIN tasks'[u], DeleteTask(u, k)'
        PROVE  tasks'[u][k].pc = "release" /\ life'[tasks'[u][k].conn] = "made"
    <3>1. DeleteTask(u, k)
      BY <1>1, <2>2 DEF DeleteTask
    <3>2. tasks[u][k].pc = "release" /\ life[tasks[u][k].conn] = "made" /\ tasks[u][k].conn \in Conn
      BY <1>0, <1>1, <3>1 DEF EndInv, LeavingInv, DeletionInv, BehindInv, Behind
    <3> QED BY <1>1, <1>3, <3>2
  <2> QED BY <2>1, <2>2 DEF LeavingInv
<1>10. SoleInv'
  BY <1>0, <1>1 DEF EndInv, SoleInv, Removes, RemovesLater, DeleteTask
<1>11. DestroyInv'
  BY <1>1, <1>2 DEF DestroyInv
<1>12. AtInv'
  <2>1. \A u \in Thread : \A g \in ToSet(stack[u]) : ~Busy(g)
    BY <1>0, <1>1, NobodyHolds DEF Busy, Holds
  <2> QED BY <1>1, <2>1 DEF AtInv
<1>13. BareInv'
  BY <1>0, <1>1 DEF UseInv, BareInv, Theirs
<1>14. CallsInv' /\ QueuedInv'
  BY <1>0, <1>1 DEF CountInv, CallsInv, QueuedInv, Runs, Waits
<1>15. RefInv'
  <2>1. \A n \in Nat : \A u \in Thread : ~Runs(u, c, n) /\ ~Waits(u, c, n)
    <3> SUFFICES ASSUME NEW n \in Nat, NEW u \in Thread PROVE ~Runs(u, c, n) /\ ~Waits(u, c, n)
      OBVIOUS
    <3>1. called[c] = <<>>
      BY <1>0, <1>1 DEF IInv, CalledInv
    <3>2. ~Runs(u, c, n)
      BY <1>0, <3>1 DEF CountInv, QueuedInv
    <3>3. ASSUME NEW k \in DOMAIN tasks[u], QueuedCall(tasks[u][k], c, n) PROVE FALSE
      <4>1. Posted(u, k) /\ tasks[u][k].conn = c
        BY <3>3 DEF Posted, QueuedCall
      <4>2. life[c] # "none"
        BY <1>0, <4>1 DEF IInv, PostInv
      <4> QED BY <1>1, <4>2
    <3> QED BY <3>2, <3>3 DEF Waits
  <2>2. Held(c) = {}
    BY <2>1 DEF Held
  <2>3. \A d \in Conn : Held(d)' = Held(d)
    BY <1>1 DEF Held, Runs, Waits
  <2>0. \A u \in Thread : \A g \in ToSet(stack[u]) : ~Passes(g)
    BY <1>0, <1>1, NobodyHolds DEF Holds
  <2>4. ASSUME NEW d \in Conn PROVE Cardinality(Held(d))' + Owned(d)' <= ref'[d]
    <3>0. Owned(d) = Whole(d) /\ Owned(d)' = Whole(d)'
      BY <1>1, <2>0 DEF Owned, Hands, Whole
    <3>1. CASE d = c
      <4>1. Cardinality(Held(d)') = 0
        BY <2>2, <2>3, <3>1, FS_EmptySet
      <4>2. ref'[d] = 1 /\ Whole(d)' = 1
        BY <1>0, <1>1, <1>3, <3>1 DEF Whole, RefInv
      <4> QED BY <3>0, <4>1, <4>2
    <3>2. CASE d # c
      <4>1. ref'[d] = ref[d] /\ Whole(d)' = Whole(d) /\ Cardinality(Held(d)') = Cardinality(Held(d))
        BY <1>0, <1>1, <1>3, <2>3, <3>2 DEF Whole, RefInv
      <4>2. Cardinality(Held(d)) + Owned(d) <= ref[d]
        BY <1>0 DEF RefInv
      <4> QED BY <3>0, <4>1, <4>2
    <3> QED BY <3>1, <3>2
  <2>5. ref' \in [Conn -> Int]
    BY <1>0, <1>1 DEF RefInv
  <2> QED BY <2>4, <2>5 DEF RefInv
<1> QED BY <1>7, <1>8, <1>9, <1>10, <1>11, <1>12, <1>13, <1>14, <1>15 DEF LiveInv, ConnInv, EndInv, UseInv, CountInv

\* The frame on top is taken away, or another takes its place.
LEMMA PopStays ==
  ASSUME IInv, TypeInv', CircleInv, NEW t \in Thread, stack[t] # <<>>, stack' = Popped(t)
  PROVE  /\ CallsStay
         /\ \A u \in Thread : \A f \in ToSet(stack'[u]) : f \in ToSet(stack[u])
         /\ \A f \in ToSet(stack'[t]) : Lower(f)
         /\ \A u \in Thread : \A f \in ToSet(stack[u]) : f \in ToSet(stack'[u]) \/ (u = t /\ f = Top(t))
<1>0. TypeInv
  BY DEF IInv
<1>1. Changes(t, {Top(t)}, {})
  BY <1>0, PopChanges
<1>2. \A f \in ToSet(stack'[t]) : Lower(f)
  BY <1>1, NewAlone
<1>3. CallsStay
  <2>1. Kept(t, Len(stack[t]) - 1) /\ Len(stack'[t]) = Len(stack[t]) - 1 /\ Len(stack[t]) \in Nat \ {0}
    BY <1>0, PoppedKept
  <2>2. PICK m \in Nat : m = Len(stack[t]) - 1
    BY <2>1
  <2> QED BY <1>0, <2>1, <2>2, KeptCalls
<1> QED BY <1>1, <1>2, <1>3 DEF Changes

LEMMA ReplaceStays ==
  ASSUME IInv, TypeInv', CircleInv, NEW t \in Thread, stack[t] # <<>>,
         NEW g \in FrameSet, g.op # "call", stack' = Replaced(t, g)
  PROVE  /\ CallsStay
         /\ \A u \in Thread : \A f \in ToSet(stack'[u]) : f \in ToSet(stack[u]) \/ (u = t /\ f = g)
         /\ \A f \in ToSet(stack'[t]) : Lower(f) \/ f = g
         /\ \A u \in Thread : \A f \in ToSet(stack[u]) : f \in ToSet(stack'[u]) \/ (u = t /\ f = Top(t))
         /\ g \in ToSet(stack'[t])
<1>0. TypeInv
  BY DEF IInv
<1>1. Changes(t, {Top(t)}, {g})
  BY <1>0, ReplaceChanges
<1>2. \A f \in ToSet(stack'[t]) : Lower(f) \/ f = g
  BY <1>1, NewAlone
<1>3. CallsStay
  <2>1. PICK m \in Nat : Kept(t, m) /\ NewTop(t, m, g)
    BY <1>0, TopReplaced
  <2> QED BY <1>0, <2>1, KeptCalls DEF NewTop
<1> QED BY <1>1, <1>2, <1>3 DEF Changes

LEMMA AppendedTask ==
  ASSUME TypeInv, NEW p \in Thread, NEW d \in TaskSet, tasks' = [tasks EXCEPT ![p] = Append(@, d)]
  PROVE  \E n \in Nat : \A u \in Thread : \A k \in DOMAIN tasks'[u] :
           \/ k \in DOMAIN tasks[u] /\ tasks'[u][k] = tasks[u][k]
           \/ u = p /\ k = n /\ tasks'[u][k] = d
<1>1. tasks \in [Thread -> Seq(TaskSet)] /\ tasks[p] \in Seq(TaskSet)
  BY DEF TypeInv
<1>2. PICK n \in Nat : n = Len(tasks[p]) + 1
  BY <1>1
<1>3. PICK q \in Seq(TaskSet) : q = Append(tasks[p], d)
  <2>1. Append(tasks[p], d) \in Seq(TaskSet)
    BY <1>1, AppendFacts
  <2> QED BY <2>1
<1>4. /\ Len(q) = n /\ q[n] = d /\ \A i \in 1..Len(tasks[p]) : q[i] = tasks[p][i]
  BY <1>1, <1>2, <1>3, AppendFacts
<1>5. \A k \in DOMAIN q : k \in DOMAIN tasks[p] \/ k = n
  BY <1>1, <1>2, <1>3, <1>4
<1>6. tasks'[p] = q /\ \A u \in Thread : u # p => tasks'[u] = tasks[u]
  BY <1>1, <1>3
<1>7. DOMAIN tasks[p] = 1..Len(tasks[p])
  BY <1>1
<1> QED BY <1>4, <1>5, <1>6, <1>7

LEMMA NotDestroyed ==
  ASSUME DestroyInv, NEW t \in Thread, NEW f \in ToSet(stack[t]), f.op \in {"delete", "disconnect", "emit"}
  PROVE  \A u \in Thread : \A g \in ToSet(stack[u]) : g.op # "destroy"
BY DEF DestroyInv, Alone

LEMMA DecideLive ==
  ASSUME AllInv, IInv', NEW t \in Thread, Decide(t) PROVE LiveInv'
<1>0. IInv /\ TypeInv /\ TypeInv' /\ CountInv /\ EndInv /\ UseInv /\ ConnInv /\ DeletionInv /\ CircleInv
  BY DEF AllInv, IInv, LiveInv
<1> DEFINE x == Frame("delete", "release", Top(t).conn, 0, None)
<1>1. /\ stack[t] # <<>> /\ Top(t).op = "disconnect" /\ Top(t).pc = "decide"
      /\ ConnsSame /\ UNCHANGED <<ref, open, called>>
      /\ \/ /\ Top(t).peer # t \/ ~open[Top(t).peer]
            /\ stack' = Replaced(t, x) /\ tasks' = tasks
         \/ stack' = Popped(t) /\ tasks' = [tasks EXCEPT ![Top(t).peer] = Append(@, x)]
  BY DEF Decide, At, Top, connectorVars, connVars, history, ConnsSame
<1>2. Top(t) \in ToSet(stack[t])
  BY <1>0, <1>1, FramesSet
<1>3. PICK c \in Conn, p \in Thread : c = Top(t).conn /\ p = Top(t).peer
  BY <1>0, <1>1, <1>2 DEF DeletionInv, DisconnectInv, Leaves
<1>4. PICK d \in FrameSet : d = x /\ d \in TaskSet /\ d.op = "delete" /\ d.conn = c /\ d.pc = "release"
  <2>1. x \in FrameSet
    BY <1>3 DEF Frame, FrameSet, Ops, Pcs
  <2> QED BY <1>3, <2>1 DEF Frame, TaskSet
<1>5. thread[c] = None /\ life[c] = "made" /\ Removes(t, c)
  <2>1. Leaving(Top(t))
    BY <1>0, <1>2 DEF EndInv, LeavingInv
  <2> QED BY <1>1, <1>2, <1>3, <2>1 DEF Leaving, Deletion, Removes
<1>6. \A u \in Thread : \A g \in ToSet(stack[u]) : g.op # "destroy"
  BY <1>0, <1>1, <1>2, NotDestroyed DEF EndInv
<1>7. ConnInv'
  <2>1. ~Destroying
    BY <1>6 DEF Destroying
  <2> QED BY <1>0, <1>1, <2>1, SameConn
<1>8. \A u \in Thread : \A g \in ToSet(stack[u]) : Busy(g) /\ g.conn = c => u = t /\ p = t /\ open[t]
  <2>1. ASSUME NEW u \in Thread, NEW g \in ToSet(stack[u]), Busy(g), g.conn = c PROVE u = t /\ p = t /\ open[t]
    <3>1. OwnLoop(u, c)
      BY <1>0, <2>1 DEF UseInv, AtInv, AtConn
    <3> QED BY <1>1, <1>2, <1>3, <3>1 DEF OwnLoop, Deletion
  <2> QED BY <2>1
<1>9. CASE (p # t \/ ~open[p]) /\ stack' = Replaced(t, d) /\ tasks' = tasks
  <2>1. /\ CallsStay
        /\ \A u \in Thread : \A f \in ToSet(stack'[u]) : f \in ToSet(stack[u]) \/ (u = t /\ f = d)
    <3>1. d.op # "call" /\ stack[t] # <<>> /\ stack' = Replaced(t, d)
      BY <1>1, <1>4, <1>9
    <3> QED BY <1>0, <3>1, ReplaceStays
  <2>2. NoNewTask /\ TasksStay
    BY <1>0, <1>9, QueuesSame
  <2>3. LeavingInv'
    <3>1. ASSUME NEW u \in Thread, NEW g \in ToSet(stack'[u]) PROVE Leaving(g)'
      <4>1. CASE g = d
        BY <1>1, <1>4, <1>5, <4>1 DEF Leaving, ConnsSame
      <4>2. CASE g \in ToSet(stack[u])
        BY <1>0, <1>1, <4>2 DEF EndInv, LeavingInv, Leaving, ConnsSame
      <4> QED BY <2>1, <4>1, <4>2
    <3> QED BY <1>0, <1>1, <1>9, <3>1 DEF EndInv, LeavingInv, DeleteTask, ConnsSame
  <2>4. SoleInv'
    <3>1. \A u \in Thread, b \in Conn : Removes(u, b)' => Removes(u, b)
      BY <1>4, <1>5, <2>1 DEF Removes
    <3> QED BY <1>0, <2>2, <3>1, SoleKept DEF EndInv
  <2>5. DestroyInv'
    BY <1>4, <1>6, <2>1 DEF DestroyInv
  <2>6. AtInv'
    <3>1. ASSUME NEW u \in Thread, NEW g \in ToSet(stack'[u]), Busy(g) PROVE Untouched(u, g)
      <4>1. g \in ToSet(stack[u])
        BY <1>4, <2>1, <3>1 DEF Busy
      <4>2. g.conn # c
        BY <1>8, <1>9, <3>1, <4>1
      <4> QED BY <1>1, <1>4, <1>9, <2>1, <4>1, <4>2 DEF Untouched, ConnsSame, RemovesLater, DeleteTask
    <3> QED BY <1>0, <3>1, AtStays DEF UseInv
  <2>7. BareInv'
    <3>1. ~Emits(d) /\ ~Bare(d)
      BY <1>4 DEF Emits, Bare
    <3> QED BY <1>0, <2>1, <2>2, <3>1, BareStays DEF UseInv
  <2>8. CountInv'
    <3>1. CalledMore /\ UNCHANGED <<life, ref>>
      BY <1>1 DEF CalledMore, ConnsSame
    <3>2. NoNewHands
      <4>1. ~Passes(d)
        BY <1>4
      <4> QED BY <1>1, <2>1, <4>1, StayHands DEF ConnsSame
    <3> QED BY <1>0, <2>1, <2>2, <3>1, <3>2, CountKept
  <2> QED BY <1>7, <2>3, <2>4, <2>5, <2>6, <2>7, <2>8 DEF LiveInv, EndInv, UseInv
<1>10. CASE stack' = Popped(t) /\ tasks' = [tasks EXCEPT ![p] = Append(@, d)]
  <2>1. /\ CallsStay
        /\ \A u \in Thread : \A f \in ToSet(stack'[u]) : f \in ToSet(stack[u])
        /\ \A f \in ToSet(stack'[t]) : Lower(f)
    BY <1>0, <1>1, <1>10, PopStays
  <2>2. PICK n \in Nat : \A u \in Thread : \A k \in DOMAIN tasks'[u] :
           \/ k \in DOMAIN tasks[u] /\ tasks'[u][k] = tasks[u][k]
           \/ u = p /\ k = n /\ tasks'[u][k] = d
    BY <1>0, <1>4, <1>10, AppendedTask
  <2>3. TasksStay
    BY <1>4, <2>2 DEF TasksStay
  <2>4. LeavingInv'
    <3>1. ASSUME NEW u \in Thread, NEW g \in ToSet(stack'[u]) PROVE Leaving(g)'
      BY <1>0, <1>1, <2>1, <3>1 DEF EndInv, LeavingInv, Leaving, ConnsSame
    <3>2. ASSUME NEW u \in Thread, NEW k \in DOMAIN tasks'[u], DeleteTask(u, k)'
          PROVE  tasks'[u][k].pc = "release" /\ life'[tasks'[u][k].conn] = "made"
      <4>1. CASE k \in DOMAIN tasks[u] /\ tasks'[u][k] = tasks[u][k]
        BY <1>0, <1>1, <3>2, <4>1 DEF EndInv, LeavingInv, DeleteTask, ConnsSame
      <4>2. CASE tasks'[u][k] = d
        BY <1>1, <1>4, <1>5, <4>2 DEF ConnsSame
      <4> QED BY <2>2, <4>1, <4>2
    <3> QED BY <3>1, <3>2 DEF LeavingInv
  <2>5. SoleInv'
    <3>1. \A u \in Thread : \A b : Removes(u, b)' => Removes(u, b)
      BY <2>1 DEF Removes
    <3>2. \A u \in Thread : ~Removes(u, c)'
      <4>1. ~Removes(t, c)'
        BY <2>1 DEF Removes, Deletion, Lower
      <4>2. \A u \in Thread : Removes(u, c) => u = t
        BY <1>0, <1>5 DEF EndInv, SoleInv
      <4> QED BY <3>1, <4>1, <4>2
    <3>3. \A u \in Thread : \A k \in DOMAIN tasks'[u] : \A b : RemovesLater(u, k, b)' =>
             (k \in DOMAIN tasks[u] /\ RemovesLater(u, k, b)) \/ (b = c /\ u = p /\ k = n)
      BY <1>4, <2>2 DEF RemovesLater, DeleteTask
    <3>4. \A u \in Thread : \A k \in DOMAIN tasks[u] : ~RemovesLater(u, k, c)
      BY <1>0, <1>5 DEF EndInv, SoleInv
    <3> QED BY <1>0, <3>1, <3>2, <3>3, <3>4 DEF EndInv, SoleInv
  <2>6. DestroyInv'
    BY <1>6, <2>1 DEF DestroyInv
  <2>7. AtInv'
    <3>1. ASSUME NEW u \in Thread, NEW g \in ToSet(stack'[u]), Busy(g) PROVE Untouched(u, g)
      <4>1. g \in ToSet(stack[u])
        BY <2>1
      <4>2. ASSUME NEW v \in Thread, NEW k \in DOMAIN tasks'[v], RemovesLater(v, k, g.conn)'
            PROVE  v = u \/ \E j \in DOMAIN tasks[v] : RemovesLater(v, j, g.conn)
        <5>1. CASE k \in DOMAIN tasks[v] /\ tasks'[v][k] = tasks[v][k]
          BY <4>2, <5>1 DEF RemovesLater, DeleteTask
        <5>2. CASE v = p /\ tasks'[v][k] = d
          <6>1. g.conn = c
            BY <1>4, <4>2, <5>2 DEF RemovesLater
          <6> QED BY <1>8, <3>1, <4>1, <5>2, <6>1
        <5> QED BY <2>2, <5>1, <5>2
      <4> QED BY <1>1, <2>1, <4>1, <4>2 DEF Untouched, ConnsSame
    <3> QED BY <1>0, <3>1, AtStays DEF UseInv
  <2>8. BareInv'
    BY <1>0, <2>1, <2>3, BareStays DEF UseInv
  <2>9. CountInv'
    <3>1. CalledMore /\ UNCHANGED <<life, ref>>
      BY <1>1 DEF CalledMore, ConnsSame
    <3>2. NoNewHands
      BY <1>1, <2>1, StayHands DEF ConnsSame
    <3> QED BY <1>0, <2>1, <2>3, <3>1, <3>2, CountKept
  <2> QED BY <1>7, <2>4, <2>5, <2>6, <2>7, <2>8, <2>9 DEF LiveInv, EndInv, UseInv
<1> HIDE DEF x
<1> QED BY <1>1, <1>3, <1>4, <1>9, <1>10

\* ~Connection() lets go of the function, or has taken the connection out of the list.
LEMMA DeletingLive ==
  ASSUME AllInv, IInv', NEW t \in Thread, stack[t] # <<>>, Top(t).op = "delete",
         NEW c, c = Top(t).conn, NEW x \in {"released", "deleted"}, life' = [life EXCEPT ![c] = x],
         \/ x = "deleted" /\ stack' = Popped(t)
         \/ x = "released" /\ ~gone /\ stack' = Replaced(t, [Top(t) EXCEPT !.pc = "lock"]),
         UNCHANGED <<gone, thread, type, linked, guarded, open, tasks, called>>,
         WholeInv', ref' \in [Conn -> Int], \A d \in Conn : ref[d] - Whole(d) <= ref'[d] - Whole(d)'
  PROVE  LiveInv'
<1>0. IInv /\ TypeInv /\ TypeInv' /\ CountInv /\ EndInv /\ UseInv /\ ConnInv /\ DeletionInv /\ CircleInv
  BY DEF AllInv, IInv, LiveInv
<1>1. Top(t) \in ToSet(stack[t]) /\ Top(t) \in FrameSet
  BY <1>0, FramesSet, TopFacts
<1>2. c \in Conn /\ thread[c] = None /\ Deletion(Top(t)) /\ Removes(t, c)
  BY <1>0, <1>1 DEF EndInv, LeavingInv, Leaving, Deletion, Removes
<1>3. \A u \in Thread : \A g \in ToSet(stack[u]) : g.op # "destroy"
  BY <1>0, <1>1, NotDestroyed DEF EndInv
<1>4. life'[c] = x /\ \A d \in Conn : d # c => life'[d] = life[d]
  BY <1>0, <1>2 DEF TypeInv
<1>5. PICK h \in FrameSet : h = [Top(t) EXCEPT !.pc = "lock"] /\ h.op = "delete" /\ h.pc = "lock" /\ h.conn = c
  <2>1. [Top(t) EXCEPT !.pc = "lock"] \in FrameSet
    BY <1>1 DEF FrameSet, Pcs
  <2> QED BY <1>1, <2>1 DEF FrameSet
<1>6. /\ CallsStay
      /\ \A u \in Thread : \A f \in ToSet(stack'[u]) : f \in ToSet(stack[u]) \/ (u = t /\ f = h /\ x = "released")
      /\ \A f \in ToSet(stack'[t]) : Lower(f) \/ (f = h /\ x = "released")
  <2>1. CASE x = "deleted" /\ stack' = Popped(t)
    BY <1>0, <2>1, PopStays
  <2>2. CASE x = "released" /\ ~gone /\ stack' = Replaced(t, [Top(t) EXCEPT !.pc = "lock"])
    <3>1. h.op # "call" /\ stack' = Replaced(t, h)
      BY <1>5, <2>2
    <3> QED BY <1>0, <2>2, <3>1, ReplaceStays
  <2> QED BY <2>1, <2>2
<1>7. NoNewTask /\ TasksStay
  BY <1>0, QueuesSame
<1>8. GuardInv'
  BY <1>0, <1>2, <1>4 DEF ConnInv, GuardInv
<1>9. /\ \A u \in Thread : Removes(u, c) => u = t
      /\ \A u \in Thread : \A k \in DOMAIN tasks[u] : ~RemovesLater(u, k, c)
  BY <1>0, <1>2 DEF EndInv, SoleInv
<1>10. LeavingInv'
  <2>1. ASSUME NEW u \in Thread, NEW g \in ToSet(stack'[u]) PROVE Leaving(g)'
    <3>1. CASE g = h /\ x = "released"
      <4>1. ~gone
        BY <3>1
      <4> QED BY <1>2, <1>4, <1>5, <3>1, <4>1 DEF Leaving
    <3>2. CASE ~(g = h /\ x = "released")
      <4>1. g \in ToSet(stack[u]) /\ Leaving(g)
        BY <1>0, <1>6, <3>2 DEF EndInv, LeavingInv
      <4>2. ASSUME Deletion(g) PROVE g.conn # c
        <5>1. u # t
          BY <1>6, <3>2, <4>2 DEF Lower, Deletion
        <5> QED BY <1>9, <4>1, <4>2, <5>1 DEF Removes
      <4> QED BY <1>4, <4>1, <4>2 DEF Leaving
    <3> QED BY <3>1, <3>2
  <2>2. ASSUME NEW u \in Thread, NEW k \in DOMAIN tasks'[u], DeleteTask(u, k)'
        PROVE  tasks'[u][k].pc = "release" /\ life'[tasks'[u][k].conn] = "made"
    <3>1. DeleteTask(u, k)
      BY <2>2 DEF DeleteTask
    <3>2. tasks[u][k].conn \in Conn /\ tasks[u][k].conn # c
      BY <1>0, <1>9, <3>1 DEF DeletionInv, BehindInv, Behind, RemovesLater, DeleteTask
    <3> QED BY <1>0, <1>4, <3>1, <3>2 DEF EndInv, LeavingInv, DeleteTask
  <2> QED BY <2>1, <2>2 DEF LeavingInv
<1>11. SoleInv'
  <2>1. \A u \in Thread, b \in Conn : Removes(u, b)' => Removes(u, b)
    BY <1>2, <1>5, <1>6 DEF Removes
  <2> QED BY <1>0, <1>7, <2>1, SoleKept DEF EndInv
<1>12. DestroyInv'
  BY <1>3, <1>5, <1>6 DEF DestroyInv
<1>13. AtInv'
  <2>1. ASSUME NEW u \in Thread, NEW g \in ToSet(stack'[u]), Busy(g) PROVE Untouched(u, g)
    <3>1. g \in ToSet(stack[u]) /\ AtConn(u, g)
      BY <1>0, <1>5, <1>6, <2>1 DEF Busy, UseInv, AtInv
    <3>2. g.conn # c
      BY <1>1, <1>2, <3>1 DEF AtConn, OwnLoop
    <3>3. life'[g.conn] = life[g.conn]
      BY <1>4, <3>1, <3>2 DEF AtConn
    <3> QED BY <1>5, <1>6, <3>1, <3>2, <3>3 DEF Untouched, RemovesLater, DeleteTask
  <2> QED BY <1>0, <2>1, AtStays DEF UseInv
<1>14. BareInv'
  <2>1. ~Emits(h) /\ ~Bare(h)
    BY <1>5 DEF Emits, Bare
  <2> QED BY <1>0, <1>6, <1>7, <2>1, BareStays DEF UseInv
<1>15. CountInv'
  <2>1. NoNewHands
    <3>1. ~Passes(h)
      BY <1>5
    <3> QED BY <1>6, <3>1, StayHands
  <2> QED BY <1>0, <1>6, <1>7, <2>1, CountStays
<1> QED BY <1>8, <1>10, <1>11, <1>12, <1>13, <1>14, <1>15 DEF LiveInv, ConnInv, EndInv, UseInv

LEMMA ReleaseLive ==
  ASSUME AllInv, IInv', NEW t \in Thread, Release(t) PROVE LiveInv'
<1>0. IInv /\ TypeInv /\ TypeInv' /\ CountInv /\ EndInv /\ ConnInv
  BY DEF AllInv, IInv, LiveInv
<1>1. PICK c, x : /\ c = Top(t).conn /\ stack[t] # <<>> /\ Top(t).op = "delete" /\ Top(t).pc = "release"
                  /\ ref' = [ref EXCEPT ![c] = @ - 1] /\ x = IF linked[c] THEN "released" ELSE "deleted"
                  /\ life' = [life EXCEPT ![c] = x]
                  /\ stack' = IF linked[c] THEN Replaced(t, [Top(t) EXCEPT !.pc = "lock"]) ELSE Popped(t)
                  /\ UNCHANGED <<list, gone, thread, type, linked, guarded, open, tasks, called>>
  BY DEF Release, At, Top, Goes, connectorVars, history
<1>2. Top(t) \in ToSet(stack[t])
  BY <1>0, <1>1, FramesSet
<1>3. c \in Conn /\ thread[c] = None /\ life[c] = "made"
  BY <1>0, <1>1, <1>2 DEF EndInv, LeavingInv, Leaving, Deletion
<1>4. ~Destroying
  BY <1>0, <1>1, <1>2, NotDestroyed DEF EndInv, Destroying
<1>5. life'[c] = x /\ \A d \in Conn : d # c => life'[d] = life[d]
  BY <1>0, <1>1, <1>3 DEF TypeInv
<1>6. linked[c] => ~gone
  BY <1>0, <1>3 DEF ConnInv, WholeInv
<1>7. WholeInv'
  <2>1. linked \in [Conn -> BOOLEAN]
    BY <1>0 DEF ConnInv, WholeInv
  <2>2. ASSUME NEW d \in Conn
        PROVE  /\ thread[d] # None => life'[d] = "made" \/ gone
               /\ d \in list => (linked[d] /\ life'[d] \in {"made", "released"})
               /\ life'[d] \in {"made", "released"} => (~gone => d \in list) /\ (gone => ~linked[d])
    <3>1. /\ thread[d] # None => life[d] = "made" \/ gone
          /\ d \in list => (linked[d] /\ life[d] \in {"made", "released"})
          /\ life[d] \in {"made", "released"} => (~gone => d \in list) /\ (gone => ~linked[d])
      BY <1>0, <1>4 DEF ConnInv, WholeInv
    <3>2. CASE d # c
      BY <1>5, <3>1, <3>2
    <3>3. CASE d = c
      BY <1>1, <1>3, <1>5, <3>1, <3>3
    <3> QED BY <3>2, <3>3
  <2> QED BY <1>1, <2>1, <2>2 DEF WholeInv
<1>8. ref' \in [Conn -> Int] /\ \A d \in Conn : ref[d] - Whole(d) <= ref'[d] - Whole(d)'
  <2>1. ref \in [Conn -> Int]
    BY <1>0 DEF CountInv, RefInv
  <2>2. Whole(c) = 1 /\ Whole(c)' = 0 /\ \A d \in Conn : d # c => Whole(d)' = Whole(d)
    BY <1>1, <1>3, <1>5 DEF Whole
  <2>3. \A d \in Conn : Whole(d) \in Int
    BY DEF Whole
  <2> QED BY <1>1, <1>3, <2>1, <2>2, <2>3
<1>9. x \in {"released", "deleted"}
  BY <1>1
<1>10. \/ x = "deleted" /\ stack' = Popped(t)
       \/ x = "released" /\ ~gone /\ stack' = Replaced(t, [Top(t) EXCEPT !.pc = "lock"])
  BY <1>1, <1>6
<1> QED BY <1>1, <1>7, <1>8, <1>9, <1>10, DeletingLive

LEMMA UnlistLive ==
  ASSUME AllInv, IInv', NEW t \in Thread, Unlist(t) PROVE LiveInv'
<1>0. IInv /\ TypeInv /\ TypeInv' /\ CountInv /\ EndInv /\ ConnInv
  BY DEF AllInv, IInv, LiveInv
<1>1. PICK c : /\ c = Top(t).conn /\ stack[t] # <<>> /\ Top(t).op = "delete" /\ Top(t).pc = "lock"
               /\ list' = list \ {c} /\ life' = [life EXCEPT ![c] = "deleted"] /\ stack' = Popped(t)
               /\ UNCHANGED <<ref, gone, thread, type, linked, guarded, open, tasks, called>>
  BY DEF Unlist, At, Top, history
<1>2. Top(t) \in ToSet(stack[t])
  BY <1>0, <1>1, FramesSet
<1>3. c \in Conn /\ thread[c] = None /\ life[c] = "released"
  BY <1>0, <1>1, <1>2 DEF EndInv, LeavingInv, Leaving, Deletion
<1>4. ~Destroying
  BY <1>0, <1>1, <1>2, NotDestroyed DEF EndInv, Destroying
<1>5. life'[c] = "deleted" /\ \A d \in Conn : d # c => life'[d] = life[d]
  BY <1>0, <1>1, <1>3 DEF TypeInv
<1>6. WholeInv'
  <2>1. linked \in [Conn -> BOOLEAN]
    BY <1>0 DEF ConnInv, WholeInv
  <2>2. ASSUME NEW d \in Conn
        PROVE  /\ thread[d] # None => life'[d] = "made" \/ gone
               /\ d \in list' => (linked[d] /\ life'[d] \in {"made", "released"})
               /\ life'[d] \in {"made", "released"} => (~gone => d \in list') /\ (gone => ~linked[d])
    <3>1. /\ thread[d] # None => life[d] = "made" \/ gone
          /\ d \in list => (linked[d] /\ life[d] \in {"made", "released"})
          /\ life[d] \in {"made", "released"} => (~gone => d \in list) /\ (gone => ~linked[d])
      BY <1>0, <1>4 DEF ConnInv, WholeInv
    <3> QED BY <1>1, <1>3, <1>5, <3>1
  <2> QED BY <1>1, <2>1, <2>2 DEF WholeInv
<1>7. ref' \in [Conn -> Int] /\ \A d \in Conn : ref[d] - Whole(d) <= ref'[d] - Whole(d)'
  <2>1. \A d \in Conn : Whole(d)' = Whole(d) /\ Whole(d) \in Int
    BY <1>3, <1>5 DEF Whole
  <2> QED BY <1>0, <1>1, <2>1 DEF CountInv, RefInv
<1> QED BY <1>1, <1>6, <1>7, DeletingLive

(***************************************************************************)
(* ~AbstractFunctionConnector().                                            *)
(***************************************************************************)
Reached(f) ==
  /\ f.pc # "lock" => \A c \in list : /\ Passed(f, c) => ~linked[c]
                                      /\ ~Passed(f, c) /\ thread[c] # None => life[c] = "made"
  /\ f.pc = "read" => f.conn \in Conn /\ thread[f.conn] # None /\ life[f.conn] = "made" /\ ~linked[f.conn]

LEMMA DestroyerLive ==
  ASSUME AllInv, IInv', NEW t \in Thread, stack[t] # <<>>, Top(t).op = "destroy",
         \/ stack' = Popped(t)
         \/ \E g \in FrameSet : /\ g.op = "destroy" /\ g.pc # "lock" /\ stack' = Replaced(t, g)
                                /\ ~gone' /\ Reached(g)',
         ConnInv', UNCHANGED <<thread, type, open, tasks, called>>,
         \A c \in Conn : thread[c] = None => life'[c] = life[c],
         ref' \in [Conn -> Int], \A d \in Conn : ref[d] - Whole(d) <= ref'[d] - Whole(d)'
  PROVE  LiveInv'
<1>0. IInv /\ TypeInv /\ TypeInv' /\ CountInv /\ EndInv /\ UseInv /\ ConnInv /\ DeletionInv /\ CircleInv
  BY DEF AllInv, IInv, LiveInv
<1>1. Top(t) \in ToSet(stack[t]) /\ ~Lower(Top(t))
  BY <1>0, FramesSet DEF Lower
<1>2. Alone(t, Top(t))
  BY <1>0, <1>1 DEF EndInv, DestroyInv
<1>3. \A u \in Thread : \A g \in ToSet(stack[u]) : g.op # "call" => u = t /\ g = Top(t)
  BY <1>2 DEF Alone
<1>4. /\ CallsStay
      /\ \A u \in Thread : \A h \in ToSet(stack'[u]) : h.op = "call" =>  h \in ToSet(stack[u])
      /\ \A u \in Thread : \A h \in ToSet(stack'[u]) : h.op # "call" =>
           u = t /\ h.op = "destroy" /\ h.pc # "lock" /\ ~gone' /\ Reached(h)'
      /\ \A h, i \in ToSet(stack'[t]) : h.op # "call" /\ i.op # "call" => h = i
  <2>1. CASE stack' = Popped(t)
    <3>1. /\ CallsStay
          /\ \A u \in Thread : \A h \in ToSet(stack'[u]) : h \in ToSet(stack[u])
          /\ \A h \in ToSet(stack'[t]) : Lower(h)
      BY <1>0, <2>1, PopStays
    <3>2. \A u \in Thread : \A h \in ToSet(stack'[u]) : h.op = "call"
      BY <1>1, <1>3, <3>1
    <3> QED BY <3>1, <3>2
  <2>2. ASSUME NEW g \in FrameSet, g.op = "destroy", g.pc # "lock", stack' = Replaced(t, g), ~gone', Reached(g)'
        PROVE  /\ CallsStay
               /\ \A u \in Thread : \A h \in ToSet(stack'[u]) : h.op = "call" =>  h \in ToSet(stack[u])
               /\ \A u \in Thread : \A h \in ToSet(stack'[u]) : h.op # "call" => u = t /\ h = g
    <3>1. /\ CallsStay
          /\ \A u \in Thread : \A h \in ToSet(stack'[u]) : h \in ToSet(stack[u]) \/ (u = t /\ h = g)
          /\ \A h \in ToSet(stack'[t]) : Lower(h) \/ h = g
      BY <1>0, <2>2, ReplaceStays
    <3> QED BY <1>1, <1>3, <2>2, <3>1
  <2>3. ASSUME NEW g \in FrameSet, g.op = "destroy", g.pc # "lock", stack' = Replaced(t, g), ~gone', Reached(g)'
        PROVE  /\ CallsStay
               /\ \A u \in Thread : \A h \in ToSet(stack'[u]) : h.op = "call" =>  h \in ToSet(stack[u])
               /\ \A u \in Thread : \A h \in ToSet(stack'[u]) : h.op # "call" =>
                    u = t /\ h.op = "destroy" /\ h.pc # "lock" /\ ~gone' /\ Reached(h)'
               /\ \A h, i \in ToSet(stack'[t]) : h.op # "call" /\ i.op # "call" => h = i
    <3>1. /\ CallsStay
          /\ \A u \in Thread : \A h \in ToSet(stack'[u]) : h.op = "call" =>  h \in ToSet(stack[u])
          /\ \A u \in Thread : \A h \in ToSet(stack'[u]) : h.op # "call" => u = t /\ h = g
      BY <2>2, <2>3
    <3>2. ASSUME NEW h, h = g PROVE h.op = "destroy" /\ h.pc # "lock" /\ ~gone' /\ Reached(h)'
      BY <2>3, <3>2
    <3> QED BY <3>1, <3>2
  <2> QED BY <2>1, <2>3
<1>5. NoNewTask /\ TasksStay
  BY <1>0, QueuesSame
<1>6. LeavingInv'
  <2>1. ASSUME NEW u \in Thread, NEW h \in ToSet(stack'[u]) PROVE Leaving(h)'
    BY <1>4, <2>1 DEF Leaving, Deletion
  <2>2. ASSUME NEW u \in Thread, NEW k \in DOMAIN tasks'[u], DeleteTask(u, k)'
        PROVE  tasks'[u][k].pc = "release" /\ life'[tasks'[u][k].conn] = "made"
    <3>1. DeleteTask(u, k)
      BY <2>2 DEF DeleteTask
    <3>2. tasks[u][k].conn \in Conn /\ thread[tasks[u][k].conn] = None
      BY <1>0, <3>1 DEF DeletionInv, BehindInv, Behind, DeleteTask
    <3> QED BY <1>0, <3>1, <3>2 DEF EndInv, LeavingInv, DeleteTask
  <2> QED BY <2>1, <2>2 DEF LeavingInv
<1>7. SoleInv'
  <2>1. \A u \in Thread, b \in Conn : ~Removes(u, b)'
    BY <1>4 DEF Removes, Deletion
  <2> QED BY <1>0, <1>5, <2>1, SoleKept DEF EndInv
<1>8. DestroyInv'
  <2>1. ASSUME NEW u \in Thread, NEW h \in ToSet(stack'[u]), h.op = "destroy" PROVE Alone(u, h)'
    <3>1. u = t /\ h.pc # "lock" /\ Reached(h)'
      BY <1>4, <2>1
    <3>2. \A v \in Thread : \A i \in ToSet(stack'[v]) : i.op # "call" => v = u /\ i = h
      BY <1>4, <2>1, <3>1
    <3>3. \A v \in Thread : \A k \in DOMAIN tasks'[v] : DeleteTask(v, k)' => v = u
      BY <1>2, <3>1 DEF Alone, DeleteTask
    <3> QED BY <3>1, <3>2, <3>3 DEF Alone, Reached
  <2> QED BY <2>1 DEF DestroyInv
<1>9. AtInv'
  BY <1>4 DEF AtInv, Busy
<1>10. BareInv'
  BY <1>0, <1>4, <1>5, BareStays DEF UseInv, Emits, Bare
<1>11. CountInv'
  <2>1. \A u \in Thread : \A h \in ToSet(stack'[u]) : ~Passes(h)
    BY <1>4
  <2>2. NoNewHands
    BY <2>1, StayHands
  <2> QED BY <1>0, <1>4, <1>5, <2>2, CountStays
<1> QED BY <1>6, <1>7, <1>8, <1>9, <1>10, <1>11 DEF LiveInv, EndInv, UseInv

\* Nothing changes for the connections, or the functions.
LEMMA RefSame ==
  ASSUME CountInv, UNCHANGED <<life, ref>>
  PROVE  ref' \in [Conn -> Int] /\ \A d \in Conn : ref[d] - Whole(d) <= ref'[d] - Whole(d)'
BY DEF CountInv, RefInv, Whole

LEMMA DestroyLocksLive ==
  ASSUME AllInv, IInv', NEW t \in Thread, DestroyLocks(t) PROVE LiveInv'
<1>0. IInv /\ TypeInv /\ TypeInv' /\ CountInv /\ EndInv /\ ConnInv /\ CircleInv
  BY DEF AllInv, IInv, LiveInv
<1>1. /\ stack[t] # <<>> /\ Top(t).op = "destroy" /\ Top(t).pc = "lock"
      /\ stack' = Replaced(t, [Top(t) EXCEPT !.pc = "next"]) /\ ConnsSame /\ UNCHANGED <<ref, open, tasks, called>>
  BY DEF DestroyLocks, At, Top, Goes, connVars, history, ConnsSame
<1>2. Top(t) \in ToSet(stack[t]) /\ Top(t) \in FrameSet
  BY <1>0, <1>1, FramesSet, TopFacts
<1>3. Alone(t, Top(t)) /\ ~gone
  BY <1>0, <1>1, <1>2 DEF EndInv, DestroyInv, LeavingInv, Leaving
<1>4. PICK g \in FrameSet : g = [Top(t) EXCEPT !.pc = "next"] /\ g.op = "destroy" /\ g.pc = "next" /\ g.conn = 0
  <2>1. [Top(t) EXCEPT !.pc = "next"] \in FrameSet
    BY <1>2 DEF FrameSet, Pcs
  <2>2. Top(t).conn = 0
    BY <1>1, <1>3 DEF Alone
  <2> QED BY <1>1, <1>2, <2>1, <2>2 DEF FrameSet
<1>5. ~Destroying
  BY <1>1, <1>3 DEF Destroying, Alone
<1>6. ConnInv'
  BY <1>0, <1>1, <1>5, SameConn
<1>7. Reached(g)
  <2>1. ASSUME NEW c \in list PROVE ~Passed(g, c) /\ (thread[c] # None => life[c] = "made")
    <3>1. c \in Conn /\ c > 0
      BY <1>0 DEF TypeInv, Conn
    <3>2. ~Passed(g, c)
      BY <1>4, <3>1 DEF Passed, Conn
    <3> QED BY <1>0, <1>3, <1>5, <3>1, <3>2 DEF ConnInv, WholeInv
  <2> QED BY <1>4, <2>1 DEF Reached
<1>8. Reached(g)' /\ ~gone'
  BY <1>1, <1>3, <1>7 DEF Reached, Passed, ConnsSame
<1>9. stack' = Replaced(t, g) /\ g.pc # "lock"
  BY <1>1, <1>4
<1>10. ref' \in [Conn -> Int] /\ \A d \in Conn : ref[d] - Whole(d) <= ref'[d] - Whole(d)'
  BY <1>0, <1>1, RefSame DEF ConnsSame
<1>11. UNCHANGED <<life, thread, type>>
  BY <1>1 DEF ConnsSame
<1> QED BY <1>1, <1>4, <1>6, <1>8, <1>9, <1>10, <1>11, DestroyerLive

\* The destructor that is on top.
LEMMA DestroyerTop ==
  ASSUME AllInv, NEW t \in Thread, stack[t] # <<>>, Top(t).op = "destroy", Top(t).pc # "lock"
  PROVE  ~gone /\ Destroying /\ Reached(Top(t)) /\ Top(t) \in FrameSet
<1>0. IInv /\ TypeInv /\ EndInv
  BY DEF AllInv, IInv, LiveInv
<1>1. Top(t) \in ToSet(stack[t]) /\ Top(t) \in FrameSet
  BY <1>0, FramesSet, TopFacts
<1>2. Alone(t, Top(t)) /\ ~gone
  BY <1>0, <1>1 DEF EndInv, DestroyInv, LeavingInv, Leaving
<1>3. Destroying
  BY <1>1 DEF Destroying
<1> QED BY <1>1, <1>2, <1>3 DEF Alone, Reached

\* While it goes on, it holds the mutex.
LEMMA StillDestroying ==
  ASSUME AllInv, IInv', NEW t \in Thread, stack[t] # <<>>,
         NEW g \in FrameSet, g.op = "destroy", g.pc # "lock", stack' = Replaced(t, g)
  PROVE  Destroying'
<1>0. IInv /\ TypeInv' /\ CircleInv
  BY DEF AllInv, IInv
<1>1. g \in ToSet(stack'[t])
  BY <1>0, ReplaceStays
<1> QED BY <1>1 DEF Destroying

LEMMA DestroyNextLive ==
  ASSUME AllInv, IInv', NEW t \in Thread, DestroyNext(t) PROVE LiveInv'
<1>0. IInv /\ TypeInv /\ CountInv /\ ConnInv
  BY DEF AllInv, IInv, LiveInv
<1>1. PICK c, x : /\ c \in Following(t) /\ x = IF thread[c] = None THEN "next" ELSE "read"
                  /\ stack[t] # <<>> /\ Top(t).op = "destroy" /\ Top(t).pc = "next"
                  /\ linked' = [linked EXCEPT ![c] = FALSE]
                  /\ stack' = Replaced(t, [Top(t) EXCEPT !.conn = c, !.pc = x])
                  /\ UNCHANGED <<list, gone, life, thread, type, guarded, ref, open, tasks, called>>
  BY DEF DestroyNext, At, Top, connectorVars, history
<1>2. ~gone /\ Destroying /\ Reached(Top(t)) /\ Top(t) \in FrameSet
  BY <1>1, DestroyerTop
<1>3. PICK m \in Conn \cup {0} : m = Top(t).conn
  BY <1>2 DEF FrameSet
<1>4. c \in list /\ c > m /\ \A d \in list : d > m => c <= d
  BY <1>1, <1>3 DEF Following, Later
<1>5. list \subseteq Conn /\ c \in Conn
  BY <1>0, <1>4 DEF TypeInv
<1>6. PICK g \in FrameSet : /\ g = [Top(t) EXCEPT !.conn = c, !.pc = x]
                            /\ g.op = "destroy" /\ g.pc = x /\ g.conn = c
  <2>1. [Top(t) EXCEPT !.conn = c, !.pc = x] \in FrameSet
    BY <1>1, <1>2, <1>5 DEF FrameSet, Pcs
  <2> QED BY <1>1, <1>2, <2>1 DEF FrameSet
<1>7. g.pc # "lock" /\ g.pc \in {"next", "read"} /\ stack' = Replaced(t, g)
  BY <1>1, <1>6
<1>8. Destroying'
  BY <1>1, <1>6, <1>7, StillDestroying
<1>9. linked' \in [Conn -> BOOLEAN] /\ ~linked'[c] /\ \A d \in Conn : d # c => linked'[d] = linked[d]
  BY <1>0, <1>1, <1>5 DEF ConnInv, WholeInv
<1>10. ConnInv'
  <2>1. GuardInv'
    BY <1>0, <1>1 DEF ConnInv, GuardInv
  <2>2. WholeInv'
    BY <1>0, <1>1, <1>2, <1>8, <1>9 DEF ConnInv, WholeInv
  <2> QED BY <2>1, <2>2 DEF ConnInv
<1>11. Reached(g)'
  <2>1. ASSUME NEW d \in list, Passed(g, d) PROVE ~linked'[d]
    <3>1. CASE d = c
      BY <1>9, <3>1
    <3>2. CASE d # c
      <4>1. d < c
        BY <1>6, <2>1, <3>2 DEF Passed
      <4>2. ~(d > m) /\ d \in Conn
        BY <1>4, <1>5, <4>1 DEF Conn
      <4>3. Passed(Top(t), d)
        BY <1>1, <1>3, <4>2 DEF Passed, Conn
      <4> QED BY <1>1, <1>2, <1>9, <3>2, <4>2, <4>3 DEF Reached
    <3> QED BY <3>1, <3>2
  <2>2. ASSUME NEW d \in list, ~Passed(g, d), thread[d] # None PROVE life[d] = "made"
    <3>1. d \in Conn /\ ~(d < c)
      BY <1>5, <1>6, <2>2 DEF Passed
    <3>2. ~Passed(Top(t), d)
      BY <1>1, <1>3, <1>4, <1>5, <3>1 DEF Passed, Conn
    <3> QED BY <1>1, <1>2, <2>2, <3>2 DEF Reached
  <2>3. ASSUME g.pc = "read" PROVE thread[c] # None /\ life[c] = "made"
    <3>1. thread[c] # None
      BY <1>1, <1>6, <2>3
    <3>2. ~Passed(g, c)
      BY <1>5, <1>6, <2>3 DEF Passed, Conn
    <3> QED BY <1>4, <2>2, <3>1, <3>2
  <2>4. /\ \A d \in list : (Passed(g, d) => ~linked'[d]) /\ (~Passed(g, d) /\ thread[d] # None => life[d] = "made")
        /\ g.pc = "read" => g.conn \in Conn /\ thread[g.conn] # None /\ life[g.conn] = "made" /\ ~linked'[g.conn]
    BY <1>5, <1>6, <1>9, <2>1, <2>2, <2>3
  <2> QED BY <1>1, <2>4 DEF Reached, Passed
<1>12. ref' \in [Conn -> Int] /\ \A d \in Conn : ref[d] - Whole(d) <= ref'[d] - Whole(d)'
  BY <1>0, <1>1, RefSame
<1>13. ~gone' /\ \A d \in Conn : thread[d] = None => life'[d] = life[d]
  BY <1>1, <1>2
<1> QED BY <1>1, <1>6, <1>7, <1>10, <1>11, <1>12, <1>13, DestroyerLive

LEMMA DestroyConnectionLive ==
  ASSUME AllInv, IInv', NEW t \in Thread, DestroyConnection(t) PROVE LiveInv'
<1>0. IInv /\ TypeInv /\ CountInv /\ ConnInv /\ OwnInv
  BY DEF AllInv, IInv, LiveInv, DeletionInv
<1>1. PICK c : /\ c = Top(t).conn /\ stack[t] # <<>> /\ Top(t).op = "destroy" /\ Top(t).pc = "read"
               /\ ref' = [ref EXCEPT ![c] = @ - 1] /\ life' = [life EXCEPT ![c] = "deleted"]
               /\ guarded' = [guarded EXCEPT ![c] = FALSE]
               /\ stack' = Replaced(t, [Top(t) EXCEPT !.pc = "next"])
               /\ UNCHANGED <<list, gone, thread, type, linked, open, tasks, called>>
  BY DEF DestroyConnection, At, Top, Goes, connectorVars, history
<1>2. ~gone /\ Destroying /\ Reached(Top(t)) /\ Top(t) \in FrameSet
  BY <1>1, DestroyerTop
<1>3. c \in Conn /\ thread[c] # None /\ life[c] = "made" /\ ~linked[c]
  BY <1>1, <1>2 DEF Reached
<1>4. PICK g \in FrameSet : g = [Top(t) EXCEPT !.pc = "next"] /\ g.op = "destroy" /\ g.pc = "next" /\ g.conn = c
  <2>1. [Top(t) EXCEPT !.pc = "next"] \in FrameSet
    BY <1>2 DEF FrameSet, Pcs
  <2> QED BY <1>1, <1>2, <2>1 DEF FrameSet
<1>5. g.pc # "lock" /\ stack' = Replaced(t, g)
  BY <1>1, <1>4
<1>6. Destroying'
  BY <1>1, <1>4, <1>5, StillDestroying
<1>7. /\ life'[c] = "deleted" /\ ~guarded'[c]
      /\ \A d \in Conn : d # c => life'[d] = life[d] /\ guarded'[d] = guarded[d]
  BY <1>0, <1>1, <1>3 DEF TypeInv, OwnInv
<1>8. ConnInv'
  <2>1. GuardInv'
    BY <1>0, <1>1, <1>7 DEF ConnInv, GuardInv
  <2>2. ASSUME NEW d \in Conn
        PROVE  life'[d] \in {"made", "released"} => (~gone => d \in list) /\ (gone => ~linked[d])
    BY <1>0, <1>7 DEF ConnInv, WholeInv
  <2>3. WholeInv'
    BY <1>0, <1>1, <1>6, <2>2 DEF ConnInv, WholeInv
  <2> QED BY <2>1, <2>3 DEF ConnInv
<1>9. Reached(g)'
  <2>1. ASSUME NEW d \in list
        PROVE  (Passed(g, d) => ~linked[d]) /\ (~Passed(g, d) /\ thread[d] # None => life'[d] = "made")
    <3>1. d \in Conn
      BY <1>0 DEF TypeInv
    <3>2. CASE d = c
      BY <1>3, <1>4, <3>2 DEF Passed
    <3>3. CASE d # c
      <4>1. Passed(g, d) <=> Passed(Top(t), d)
        BY <1>1, <1>4, <3>3 DEF Passed
      <4> QED BY <1>1, <1>2, <1>7, <3>1, <3>3, <4>1 DEF Reached
    <3> QED BY <3>2, <3>3
  <2> QED BY <1>1, <1>4, <2>1 DEF Reached, Passed
<1>10. ref' \in [Conn -> Int] /\ \A d \in Conn : ref[d] - Whole(d) <= ref'[d] - Whole(d)'
  <2>1. ref \in [Conn -> Int]
    BY <1>0 DEF CountInv, RefInv
  <2>2. Whole(c) = 1 /\ Whole(c)' = 0 /\ \A d \in Conn : d # c => Whole(d)' = Whole(d)
    BY <1>3, <1>7 DEF Whole
  <2>3. \A d \in Conn : Whole(d) \in Int
    BY DEF Whole
  <2> QED BY <1>1, <1>3, <2>1, <2>2, <2>3
<1>11. ~gone' /\ \A d \in Conn : thread[d] = None => life'[d] = life[d]
  BY <1>1, <1>2, <1>3, <1>7
<1> QED BY <1>1, <1>4, <1>5, <1>8, <1>9, <1>10, <1>11, DestroyerLive

LEMMA DestroyEndsLive ==
  ASSUME AllInv, IInv', NEW t \in Thread, DestroyEnds(t) PROVE LiveInv'
<1>0. IInv /\ TypeInv /\ CountInv /\ ConnInv
  BY DEF AllInv, IInv, LiveInv
<1>1. /\ stack[t] # <<>> /\ Top(t).op = "destroy" /\ Top(t).pc = "next" /\ Later(t) = {}
      /\ gone' = TRUE /\ list' = {} /\ stack' = Popped(t)
      /\ UNCHANGED <<life, thread, type, linked, guarded, ref, open, tasks, called>>
  BY DEF DestroyEnds, At, Top, connVars, history
<1>2. ~gone /\ Reached(Top(t)) /\ Top(t) \in FrameSet
  BY <1>1, DestroyerTop
<1>3. PICK m \in Conn \cup {0} : m = Top(t).conn
  BY <1>2 DEF FrameSet
<1>4. ASSUME NEW d \in list PROVE ~linked[d]
  <2>1. d \in Conn /\ ~(d > m)
    BY <1>0, <1>1, <1>3 DEF TypeInv, Later
  <2>2. Passed(Top(t), d)
    BY <1>1, <1>3, <2>1 DEF Passed, Conn
  <2> QED BY <1>1, <1>2, <2>2 DEF Reached
<1>5. ASSUME NEW d \in Conn, life[d] \in {"made", "released"} PROVE ~linked[d]
  <2>1. d \in list
    BY <1>0, <1>2, <1>5 DEF ConnInv, WholeInv
  <2> QED BY <1>4, <2>1
<1>6. ConnInv'
  <2>1. GuardInv'
    BY <1>0, <1>1 DEF ConnInv, GuardInv
  <2>2. WholeInv'
    BY <1>0, <1>1, <1>5 DEF ConnInv, WholeInv
  <2> QED BY <2>1, <2>2 DEF ConnInv
<1>7. ref' \in [Conn -> Int] /\ \A d \in Conn : ref[d] - Whole(d) <= ref'[d] - Whole(d)'
  BY <1>0, <1>1, RefSame
<1>8. \A d \in Conn : thread[d] = None => life'[d] = life[d]
  BY <1>1
<1> QED BY <1>1, <1>6, <1>7, <1>8, DestroyerLive

LEMMA LiveStep == Orderly => (AllInv /\ IInv' /\ [Next]_vars => LiveInv')
<1> SUFFICES ASSUME Orderly, AllInv, IInv', [Next]_vars PROVE LiveInv'
  OBVIOUS
<1>1. CASE UNCHANGED vars
  <2>1. /\ UNCHANGED <<list, gone, life, thread, type, linked, guarded, ref, open, tasks, stack, called>>
    BY <1>1 DEF vars, connectorVars, connVars, threadVars, history
  <2>2. ConnInv /\ EndInv /\ UseInv /\ CountInv
    BY DEF AllInv, LiveInv
  <2>3. ConnInv'
    BY <2>1, <2>2 DEF ConnInv, GuardInv, WholeInv, Destroying
  <2>4. LeavingInv' /\ SoleInv'
    BY <2>1, <2>2 DEF EndInv, LeavingInv, Leaving, SoleInv, Removes, RemovesLater, DeleteTask
  <2>5. DestroyInv'
    BY <2>1, <2>2 DEF EndInv, DestroyInv, Alone, Passed, DeleteTask
  <2>6. AtInv' /\ BareInv'
    BY <2>1, <2>2 DEF UseInv, AtInv, AtConn, OwnLoop, RemovesLater, DeleteTask, BareInv, Theirs
  <2>7. CallsInv' /\ QueuedInv'
    BY <2>1, <2>2 DEF CountInv, CallsInv, QueuedInv, Runs, Waits
  <2>8. RefInv'
    <3>1. \A c \in Conn : Held(c)' = Held(c) /\ Owned(c)' = Owned(c)
      BY <2>1 DEF Held, Runs, Waits, Owned, Hands, Whole
    <3> QED BY <2>1, <2>2, <3>1 DEF CountInv, RefInv
  <2> QED BY <2>3, <2>4, <2>5, <2>6, <2>7, <2>8 DEF LiveInv, EndInv, UseInv, CountInv
<1>2. ASSUME NEW t \in Thread, NEW c \in Conn, DestroyGuard(t, c) PROVE LiveInv'
  BY <1>2, DestroyGuardLive
<1>3. ASSUME NEW t \in Thread, NEW c \in Conn, NEW ty \in Types, Connect(t, c, ty) PROVE LiveInv'
  BY <1>3, ConnectLive
<1>4. ASSUME NEW t \in Thread, Emit(t) \/ Destroy(t) \/ Finish(t) PROVE LiveInv'
  BY <1>4, EmitLive, DestroyLive, FinishLive
<1>5. ASSUME NEW t \in Thread,
             \/ EmitLocks(t) \/ EmitNext(t) \/ EmitEnds(t) \/ CallInPlace(t) \/ Prepare(t) \/ Post(t) \/ PostSync(t)
             \/ Run(t) \/ ReturnQueued(t) \/ ReturnInPlace(t) \/ ReturnSync(t)
      PROVE  LiveInv'
  BY <1>5, EmissionLive, CallInPlaceLive, PrepareLive, PostLive, RunCallLive, RunDeleteLive, ReturnQueuedLive,
     ReturnInPlaceLive, ReturnSyncLive
<1>6. ASSUME NEW t \in Thread,
             \/ Decide(t) \/ Release(t) \/ Unlist(t)
             \/ DestroyLocks(t) \/ DestroyNext(t) \/ DestroyConnection(t) \/ DestroyEnds(t)
      PROVE  LiveInv'
  BY <1>6, DecideLive, ReleaseLive, UnlistLive, DestroyLocksLive, DestroyNextLive, DestroyConnectionLive,
     DestroyEndsLive
<1> QED BY <1>1, <1>2, <1>3, <1>4, <1>5, <1>6 DEF Next

LEMMA LiveInit == Init => LiveInv
<1> SUFFICES ASSUME Init PROVE LiveInv
  OBVIOUS
<1>1. \A t \in Thread : stack[t] = <<>> /\ ToSet(stack[t]) = {} /\ DOMAIN tasks[t] = {} /\ DOMAIN stack[t] = {}
  BY DEF Init, ToSet
<1>2. ConnInv
  BY DEF Init, ConnInv, GuardInv, WholeInv
<1>3. EndInv
  BY <1>1 DEF EndInv, LeavingInv, SoleInv, DestroyInv, Removes
<1>4. UseInv
  BY <1>1 DEF UseInv, AtInv, BareInv
<1>5. CallsInv /\ QueuedInv
  BY <1>1 DEF CallsInv, QueuedInv, Runs
<1>6. RefInv
  <2>1. ref \in [Conn -> Int]
    BY DEF Init
  <2>2. ASSUME NEW c \in Conn PROVE Cardinality(Held(c)) + Owned(c) <= ref[c]
    <3>1. Held(c) = {}
      BY <1>1 DEF Held, Runs, Waits
    <3>2. Cardinality(Held(c)) = 0
      BY <3>1, FS_EmptySet
    <3>3. Owned(c) = 0 /\ ref[c] = 0
      BY <1>1 DEF Init, Owned, Hands, Whole
    <3> QED BY <3>2, <3>3
  <2> QED BY <2>1, <2>2 DEF RefInv
<1> QED BY <1>2, <1>3, <1>4, <1>5, <1>6 DEF LiveInv, CountInv

(***************************************************************************)
(* What follows.                                                            *)
(***************************************************************************)
LEMMA WholeHolds ==
  ASSUME IInv, CountInv, NEW c \in Conn, life[c] = "made" \/ \E n \in Nat : n \in Held(c)
  PROVE  ref[c] > 0
<1>1. IsFiniteSet(Held(c)) /\ Cardinality(Held(c)) \in Nat
  BY HeldFinite DEF CountInv
<1>2. /\ Cardinality(Held(c)) + Owned(c) <= ref[c] /\ ref[c] \in Int
      /\ Owned(c) \in Nat /\ Whole(c) <= Owned(c) /\ Whole(c) \in {0, 1}
  BY OwnedFacts DEF CountInv, RefInv
<1>3. CASE life[c] = "made"
  <2>1. Whole(c) = 1
    BY <1>3 DEF Whole
  <2> QED BY <1>1, <1>2, <2>1
<1>4. CASE \E n \in Nat : n \in Held(c)
  <2>1. Held(c) # {}
    BY <1>4
  <2>2. Cardinality(Held(c)) # 0
    BY <1>1, <2>1, FS_EmptySet
  <2> QED BY <1>1, <1>2, <2>2
<1> QED BY <1>3, <1>4

\* A call that holds nothing is called by an emission, which is at its connection.
LEMMA BareHolds ==
  ASSUME IInv, LiveInv, NEW f, Bare(f),
         \/ \E t \in Thread : f \in ToSet(stack[t])
         \/ \E t \in Thread : \E k \in DOMAIN tasks[t] : f = tasks[t][k]
  PROVE  ref[f.conn] > 0
<1>1. PICK u \in Thread : \E e \in ToSet(stack[u]) : Emits(e) /\ e.pc \in {"calls", "waits"}
  BY BareEmits
<1>2. PICK e \in ToSet(stack[u]) : Emits(e) /\ e.pc \in {"calls", "waits"}
  BY <1>1
<1>3. Theirs(f)
  BY DEF LiveInv, UseInv, BareInv
<1>4. Busy(e) /\ e.conn = f.conn
  BY <1>2, <1>3 DEF Theirs
<1>5. f.conn \in Conn /\ life[f.conn] = "made"
  BY <1>4 DEF LiveInv, UseInv, AtInv, AtConn
<1> QED BY <1>5, WholeHolds DEF LiveInv

LEMMA FramesLive ==
  ASSUME IInv, LiveInv, NEW t \in Thread, NEW f \in ToSet(stack[t])
  PROVE  /\ f.op = "call" => ref[f.conn] > 0
         /\ f.op = "emit" /\ f.pc = "read" => thread[f.conn] # None /\ ref[f.conn] > 0
         /\ f.op = "emit" /\ f.pc = "post" => ref[f.conn] > 0
         /\ f.op = "emit" /\ f.pc # "lock" => \A c \in list : life[c] # "deleted"
         /\ f.op = "delete" /\ f.pc = "lock" => ~gone
<1>0. TypeInv /\ CountInv
  BY DEF IInv, LiveInv
<1>1. ASSUME f.op = "call" PROVE ref[f.conn] > 0
  <2>1. PICK i \in DOMAIN stack[t] : f = stack[t][i]
    BY DEF ToSet
  <2>2. /\ f.pc = "queued" => f.conn \in Conn
        /\ f.pc \in {"queued", "inPlace", "sync"} /\ f.n \in Nat
    BY <1>0, <1>1, <2>1, Domains DEF CountInv, CallsInv, FrameSet
  <2>3. CASE f.pc = "queued"
    <3>1. Runs(t, f.conn, f.n)
      BY <1>1, <2>3 DEF Runs, QueuedCall
    <3>2. f.n \in Held(f.conn)
      BY <2>2, <3>1 DEF Held
    <3> QED BY <1>0, <2>2, <2>3, <3>2, WholeHolds
  <2>4. CASE f.pc # "queued"
    <3>1. Bare(f)
      BY <1>1, <2>2, <2>4 DEF Bare
    <3> QED BY <3>1, BareHolds
  <2> QED BY <2>3, <2>4
<1>2. ASSUME f.op = "emit", f.pc = "read" PROVE thread[f.conn] # None /\ ref[f.conn] > 0
  <2>1. f.conn \in Conn /\ life[f.conn] = "made" /\ thread[f.conn] # None
    BY <1>2 DEF LiveInv, UseInv, AtInv, AtConn, Busy
  <2> QED BY <1>0, <2>1, WholeHolds
<1>3. ASSUME f.op = "emit", f.pc # "lock" PROVE \A c \in list : life[c] # "deleted"
  <2>1. ~Destroying
    BY <1>3, EmitsLive DEF Emits
  <2> QED BY <1>0, <2>1 DEF LiveInv, ConnInv, WholeInv, TypeInv
<1>4. ASSUME f.op = "delete", f.pc = "lock" PROVE ~gone
  BY <1>4 DEF LiveInv, EndInv, LeavingInv, Leaving
<1>5. ASSUME f.op = "emit", f.pc = "post" PROVE ref[f.conn] > 0
  <2>1. f.conn \in Conn /\ life[f.conn] = "made"
    BY <1>5 DEF LiveInv, UseInv, AtInv, AtConn, Busy
  <2> QED BY <1>0, <2>1, WholeHolds
<1> QED BY <1>1, <1>2, <1>3, <1>4, <1>5

LEMMA TasksLive ==
  ASSUME IInv, LiveInv, NEW t \in Thread, NEW k \in DOMAIN tasks[t], tasks[t][k].op = "call"
  PROVE  ref[tasks[t][k].conn] > 0
<1>0. CountInv /\ PostInv /\ Posted(t, k)
  BY DEF IInv, LiveInv, Posted
<1>1. PICK f : f = tasks[t][k]
  OBVIOUS
<1>2. /\ f.op = "call" /\ f.conn \in Conn /\ f.n \in 1..Len(emitted) /\ f.pc \in {"sync", "queued"}
  BY <1>0, <1>1 DEF PostInv
<1>3. CASE f.pc = "queued"
  <2>1. Waits(t, f.conn, f.n)
    BY <1>1, <1>2, <1>3 DEF Waits, QueuedCall
  <2>2. f.n \in Held(f.conn)
    BY <1>2, <2>1 DEF Held
  <2> QED BY <1>0, <1>1, <1>2, <2>2, WholeHolds
<1>4. CASE f.pc = "sync"
  <2>1. Bare(f)
    BY <1>2, <1>4 DEF Bare
  <2> QED BY <1>1, <2>1, BareHolds
<1> QED BY <1>2, <1>3, <1>4

LEMMA OneOfThree ==
  ASSUME NEW A, NEW B, NEW C, NEW v \in {0, 1},
         \/ A = {} /\ B = {} /\ C = {}
         \/ v = 1 /\ \E u : \/ A = {u} /\ B = {} /\ C = {}
                            \/ A = {} /\ B = {u} /\ C = {}
                            \/ A = {} /\ B = {} /\ C = {u}
  PROVE  Cardinality(A) + Cardinality(B) + Cardinality(C) <= v
<1>1. Cardinality({}) = 0 /\ \A u : Cardinality({u}) = 1
  BY FS_EmptySet, FS_Singleton
<1>2. PICK i, j, k : i = Cardinality(A) /\ j = Cardinality(B) /\ k = Cardinality(C)
  OBVIOUS
<1>3. CASE A = {} /\ B = {} /\ C = {}
  <2>1. i = 0 /\ j = 0 /\ k = 0
    BY <1>1, <1>2, <1>3
  <2> QED BY <1>2, <2>1
<1>4. ASSUME NEW u, v = 1, \/ A = {u} /\ B = {} /\ C = {}
                           \/ A = {} /\ B = {u} /\ C = {}
                           \/ A = {} /\ B = {} /\ C = {u}
      PROVE  i + j + k <= v
  <2>1. (i = 1 /\ j = 0 /\ k = 0) \/ (i = 0 /\ j = 1 /\ k = 0) \/ (i = 0 /\ j = 0 /\ k = 1)
    BY <1>1, <1>2, <1>4, Zenon
  <2> QED BY <1>4, <2>1
<1> QED BY <1>2, <1>3, <1>4

LEMMA DeletersLive ==
  ASSUME IInv, DeletionInv, LiveInv, NEW c \in Conn
  PROVE  Deleters(c) <= (IF life[c] \in {"made", "released"} THEN 1 ELSE 0)
<1>0. TypeInv /\ EndInv
  BY DEF IInv, LiveInv
<1> DEFINE A == {u \in Thread : \E f \in Frames(u) : f.conn = c /\ f.op \in {"delete", "disconnect"}}
           B == {u \in Thread : \E f \in Frames(u) : f.conn = c /\ f.op = "destroy" /\ f.pc = "read"}
           C == {u \in Thread : \E k \in 1..Len(tasks[u]) : tasks[u][k].op = "delete" /\ tasks[u][k].conn = c}
           v == IF life[c] \in {"made", "released"} THEN 1 ELSE 0
<1>1. /\ \A u \in Thread : u \in A <=> Removes(u, c)
      /\ \A u \in Thread : u \in B <=> \E f \in ToSet(stack[u]) : f.conn = c /\ f.op = "destroy" /\ f.pc = "read"
      /\ \A u \in Thread : u \in C <=> \E k \in DOMAIN tasks[u] : RemovesLater(u, k, c)
      /\ A \subseteq Thread /\ B \subseteq Thread /\ C \subseteq Thread
  BY <1>0, FramesSet DEF Removes, Deletion, RemovesLater, DeleteTask
<1>2. Deleters(c) = Cardinality(A) + Cardinality(B) + Cardinality(C)
  BY DEF Deleters
<1>3. v \in {0, 1} /\ (life[c] \in {"made", "released"} => v = 1)
  OBVIOUS
<1> HIDE DEF A, B, C, v
<1>4. \A u \in A : thread[c] = None /\ life[c] \in {"made", "released"}
  BY <1>0, <1>1 DEF Removes, EndInv, LeavingInv, Leaving
<1>5. \A u \in B : thread[c] # None /\ life[c] = "made" /\ \A w \in B : w = u
  <2> SUFFICES ASSUME NEW u \in B PROVE thread[c] # None /\ life[c] = "made" /\ \A w \in B : w = u
    OBVIOUS
  <2>1. PICK f \in ToSet(stack[u]) : f.conn = c /\ f.op = "destroy" /\ f.pc = "read"
    BY <1>1
  <2>2. u \in Thread
    BY <1>1
  <2>3. Alone(u, f)
    BY <1>0, <2>1, <2>2 DEF EndInv, DestroyInv
  <2>4. \A w \in B : w = u
    BY <1>1, <2>3 DEF Alone
  <2> QED BY <2>1, <2>3, <2>4 DEF Alone
<1>6. \A u \in C : life[c] = "made"
  BY <1>0, <1>1 DEF RemovesLater, DeleteTask, EndInv, LeavingInv
<1>7. CASE \E u : u \in A
  <2>1. PICK u \in A : u \in Thread /\ Removes(u, c)
    BY <1>1, <1>7
  <2>2. A = {u} /\ C = {}
    BY <1>0, <1>1, <2>1 DEF EndInv, SoleInv
  <2>3. B = {}
    BY <1>4, <1>5, <2>1
  <2> QED BY <1>2, <1>3, <1>4, <2>1, <2>2, <2>3, OneOfThree DEF v
<1>8. CASE \E u : u \in B
  <2>1. PICK u \in B : TRUE
    BY <1>8
  <2>2. B = {u} /\ thread[c] # None
    BY <1>5, <2>1
  <2>3. A = {} /\ C = {}
    BY <1>1, <2>2, NoDeletion
  <2> QED BY <1>2, <1>3, <1>5, <2>1, <2>2, <2>3, OneOfThree DEF v
<1>9. CASE A = {} /\ B = {} /\ \E u : u \in C
  <2>1. PICK u \in C : u \in Thread /\ \E k \in DOMAIN tasks[u] : RemovesLater(u, k, c)
    BY <1>1, <1>9
  <2>2. C = {u}
    BY <1>0, <1>1, <2>1 DEF EndInv, SoleInv
  <2> QED BY <1>2, <1>3, <1>6, <1>9, <2>1, <2>2, OneOfThree DEF v
<1>10. CASE A = {} /\ B = {} /\ C = {}
  BY <1>2, <1>3, <1>10, OneOfThree DEF v
<1> QED BY <1>7, <1>8, <1>9, <1>10

LEMMA LiveOut == AllInv => InUseIsLive
<1> SUFFICES ASSUME AllInv PROVE InUseIsLive
  OBVIOUS
<1>0. IInv /\ DeletionInv /\ LiveInv /\ TypeInv
  BY DEF AllInv, IInv
<1>1. \A t \in Thread : Frames(t) = ToSet(stack[t]) /\ DOMAIN tasks[t] = 1..Len(tasks[t])
  BY <1>0, FramesSet
<1>2. \A t \in Thread : \A k \in 1..Len(tasks[t]) : tasks[t][k].op = "call" => ref[tasks[t][k].conn] > 0
  BY <1>0, <1>1, TasksLive
<1>3. \A t \in Thread : \A f \in Frames(t) :
        /\ f.op = "call" => ref[f.conn] > 0
        /\ f.op = "emit" /\ f.pc = "read" => thread[f.conn] # None /\ ref[f.conn] > 0
        /\ f.op = "emit" /\ f.pc = "post" => ref[f.conn] > 0
        /\ f.op = "emit" /\ f.pc # "lock" => \A c \in list : life[c] # "deleted"
        /\ f.op = "delete" /\ f.pc = "lock" => ~gone
  BY <1>0, <1>1, FramesLive
<1>4. \A c \in Conn : Deleters(c) <= (IF life[c] \in {"made", "released"} THEN 1 ELSE 0)
  BY <1>0, DeletersLive
<1> QED BY <1>2, <1>3, <1>4 DEF InUseIsLive

\* If users keep all the rules (they do not disconnect what an emission of another thread is
\* at, nor use the connector in a function it calls in place or in a thread an emission may
\* wait for, and destroy it when nobody uses it): whatever the threads, the connections and
\* the emissions, nothing that was deleted is used.  An emission finds each connection, its
\* thread and its function; a function that is called or posted is held; one only deletes a
\* connection, and finds the connector (operator(), QueuedTask, ~Connection,
\* destroyConnection(), ~AbstractFunctionConnector()).
THEOREM InUseStaysLive == Orderly => (Spec => []InUseIsLive)
<1> SUFFICES ASSUME Orderly PROVE Spec => []InUseIsLive
  OBVIOUS
<1>0. NoUseInCall /\ NoDisconnectInPassing
  BY DEF Orderly, NoUseInCall, NoDisconnectInPassing
<1>1. Init => AllInv
  BY InitInv, DeletionInit, CircleInit, LiveInit DEF AllInv
<1>2. AllInv /\ [Next]_vars => AllInv'
  <2> SUFFICES ASSUME AllInv, [Next]_vars PROVE AllInv'
    OBVIOUS
  <2>1. IInv' /\ DeletionInv' /\ CircleInv'
    BY <1>0, StepInv, DeletionStep, CircleStep DEF AllInv
  <2>2. LiveInv'
    BY <2>1, LiveStep
  <2> QED BY <2>1, <2>2 DEF AllInv
<1>3. AllInv => InUseIsLive
  BY LiveOut
<1> QED BY <1>1, <1>2, <1>3, PTL DEF Spec
=============================================================================

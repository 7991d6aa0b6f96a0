------------------------- MODULE ThreadPool_proofs -------------------------
(***************************************************************************)
(* Theorems about ThreadPool, for any number of threads and jobs.  A job is *)
(* never lost or run twice, whatever the users of a pool do; a worker is    *)
(* destroyed once, and not while it is used, if they keep to the rules of   *)
(* MayAsk, MayCreate, MayDestroy, MayQuit and MayExit.                      *)
(***************************************************************************)
EXTENDS ThreadPool, SequenceTheorems, FiniteSetTheorems, TLAPS

USE PoolAssumption DEF PoolAssumption

(***************************************************************************)
(* Types.  A frame or a message has a job exactly when it is about one.     *)
(***************************************************************************)
Pcs == {"body", "job", "sync1", "sync2"} \cup OpPc
Kinds == {"job", "result", "get", "erase", "delete"}
Asked == {"get", "erase"}
Phases == {"none", "made", "open", "closing", "finished", "deleted"}

FrameSet ==
  {f \in [pc : Pcs, thread : Thread \cup {None}, job : Job \cup {None}, for : Thread \cup {None}] :
     /\ f.pc \in {"get", "post", "job"} <=> f.job # None
     /\ f.pc \in {"start", "flush"} \cup DestroyPc => f.thread \in Worker
     /\ f.pc = "post" => f.thread \in Worker \cup {None}
     /\ f.pc # "start" => f.for = None}
MessageSet ==
  {m \in [kind : Kinds, thread : Thread \cup {None}, job : Job \cup {None}] :
     /\ m.kind \in {"job", "result"} <=> m.job # None
     /\ m.kind \in Asked => m.thread \in Thread \ {Main}
     /\ m.kind = "delete" => m.thread \in Worker}

\* The frames that have others above them.
Below(p) == {"body", "job", "quit"} \cup (IF p = Main THEN {"get", "erase", "sync1", "sync2"} ELSE {})
StackOK(p, s) ==
  /\ s \in Seq(FrameSet)
  /\ \A i \in 1..Len(s) : s[i].pc \in {"sync1", "sync2"} => p = Main
  /\ \A i \in 1..(Len(s) - 1) : s[i].pc \in Below(p)

StackType == stack \in [Thread -> Seq(FrameSet)] /\ \A p \in Thread : StackOK(p, stack[p])
QueueType == tasks \in [Thread -> Seq(MessageSet)] /\ batch \in [Thread -> Seq(MessageSet)]
PoolType ==
  /\ phase \in [Thread -> Phases] /\ told \in [Thread -> BOOLEAN]
  /\ threads \subseteq Worker /\ workThreads \in Seq(Worker) /\ gone \in BOOLEAN
  /\ caller \in [Job -> Thread \cup {None}] /\ ended \subseteq Job /\ dropped \subseteq Job
  /\ calls \in Nat /\ callbacks \in Nat
TypeOK == StackType /\ QueueType /\ PoolType

(***************************************************************************)
(* What a sequence carries: the values, other than None, of a function of   *)
(* its elements.                                                            *)
(***************************************************************************)
Values(q, V) == {V[q[i]] : i \in DOMAIN q} \ {None}
Once(q, V) == \A i, j \in DOMAIN q : V[q[i]] = V[q[j]] => i = j \/ V[q[i]] = None

\* A set of values without c, and with d.
Swapped(S, c, d) == (S \ {c}) \cup ({d} \ {None})

JobOf == [m \in MessageSet |-> m.job]
JobIn == [f \in FrameSet |-> f.job]

(***************************************************************************)
(* Where things are carried.                                                *)
(***************************************************************************)
Carriers == {"tasks", "batch", "stack"} \X Thread
Content(V, U, x) ==
  CASE x[1] = "tasks" -> Values(tasks[x[2]], V)
    [] x[1] = "batch" -> Values(batch[x[2]], V)
    [] OTHER -> Values(stack[x[2]], U)
Carried(V, U) == UNION {Content(V, U, x) : x \in Carriers}
CarriedOnce(V, U) ==
  /\ \A t \in Thread : Once(tasks[t], V) /\ Once(batch[t], V) /\ Once(stack[t], U)
  /\ \A x, y \in Carriers : x # y => Content(V, U, x) \cap Content(V, U, y) = {}

(***************************************************************************)
(* A call that waits for Main has one message in its queues, or a thread    *)
(* that is being started for it.                                            *)
(***************************************************************************)
Asks == [m \in MessageSet |-> IF m.kind \in Asked THEN m.thread ELSE None]
Starts == [f \in FrameSet |-> IF f.pc = "start" THEN f.for ELSE None]

Waits(t, m) == m.kind \in Asked => t = Main /\ At(m.thread, m.kind)
StartFor(p, q) ==
  /\ p = Main
  /\ q # Main => At(q, "get")
  /\ q = Main => Len(stack[Main]) >= 2 /\ stack[Main][Len(stack[Main]) - 1].pc = "get"
AskInv ==
  /\ \A t \in Thread : \A m \in ToSet(tasks[t]) \cup ToSet(batch[t]) : Waits(t, m)
  /\ \A p, q \in Thread : At(p, "start") /\ Top(p).for = q => StartFor(p, q)
  /\ CarriedOnce(Asks, Starts)

(***************************************************************************)
(* A thread has tasks while it is open only, and a batch until it finishes. *)
(***************************************************************************)
Begun(t) == phase[t] \notin {"none", "made"}
PostTo == [f \in FrameSet |-> IF f.pc = "post" THEN f.thread ELSE None]
QueueLife ==
  /\ \A t \in Thread : /\ tasks[t] # <<>> => phase[t] = "open"
                       /\ batch[t] # <<>> => phase[t] \in {"open", "closing"}
  /\ phase[Main] \in {"open", "closing", "finished"}
StackLife ==
  \A p \in Thread : /\ stack[p] # <<>> => Begun(p)
                    /\ \A w \in Values(stack[p], PostTo) : Begun(w)
RefLife ==
  /\ \A j \in Job : caller[j] # None => Begun(caller[j])
  /\ \A w \in ToSet(workThreads) : Begun(w)
  /\ \A w \in threads : phase[w] # "none"
LifeInv == QueueLife /\ StackLife /\ RefLife

JobInv ==
  /\ CarriedOnce(JobOf, JobIn)
  /\ ended \cap dropped = {} /\ Carried(JobOf, JobIn) \cap (ended \cup dropped) = {}
  /\ Carried(JobOf, JobIn) \cup ended \cup dropped = {j \in Job : caller[j] # None}

IInv == TypeOK /\ AskInv /\ LifeInv /\ JobInv

-----------------------------------------------------------------------------
(***************************************************************************)
(* Sequences and what they carry.                                           *)
(***************************************************************************)
LEMMA Appending ==
  ASSUME NEW S, NEW q \in Seq(S), NEW m \in S, NEW V
  PROVE  LET r == Append(q, m)
         IN /\ r \in Seq(S) /\ Len(r) = Len(q) + 1 /\ r # <<>> /\ Last(r) = m
            /\ \A i \in 1..Len(q) : r[i] = q[i]
            /\ Values(r, V) = Values(q, V) \cup ({V[m]} \ {None})
            /\ Once(q, V) /\ V[m] \notin Values(q, V) => Once(r, V)
<1> DEFINE r == Append(q, m)
<1>1. /\ r \in Seq(S) /\ Len(r) = Len(q) + 1 /\ r # <<>> /\ Len(q) \in Nat
      /\ DOMAIN r = 1..Len(r) /\ DOMAIN q = 1..Len(q)
  OBVIOUS
<1>2. \A i \in 1..Len(q) : r[i] = q[i]
  OBVIOUS
<1>3. r[Len(q) + 1] = m
  OBVIOUS
<1> HIDE DEF r
<1>4. DOMAIN r = DOMAIN q \cup {Len(q) + 1}
  BY <1>1
<1>5. Values(r, V) = Values(q, V) \cup ({V[m]} \ {None})
  BY <1>1, <1>2, <1>3, <1>4 DEF Values
<1>6. ASSUME Once(q, V), V[m] \notin Values(q, V) PROVE Once(r, V)
  <2>1. \A i \in DOMAIN q : V[q[i]] = V[m] => V[m] = None
    BY <1>6 DEF Values
  <2> QED BY <1>1, <1>2, <1>3, <1>4, <1>6, <2>1 DEF Once
<1> QED BY <1>1, <1>2, <1>3, <1>5, <1>6 DEF Last, r

LEMMA Taking ==
  ASSUME NEW S, NEW q \in Seq(S), q # <<>>, NEW V
  PROVE  /\ Tail(q) \in Seq(S) /\ Head(q) \in S
         /\ Values(Tail(q), V) \subseteq Values(q, V)
         /\ V[Head(q)] \in Values(q, V) \cup {None}
         /\ ToSet(Tail(q)) \subseteq ToSet(q) /\ Head(q) \in ToSet(q)
         /\ Once(q, V) => Once(Tail(q), V) /\ Values(Tail(q), V) = Values(q, V) \ {V[Head(q)]}
<1> DEFINE r == Tail(q)
<1>1. /\ r \in Seq(S) /\ Len(r) = Len(q) - 1 /\ Len(q) \in Nat \ {0} /\ Head(q) \in S
      /\ DOMAIN r = 1..Len(r) /\ DOMAIN q = 1..Len(q) /\ Head(q) = q[1]
  OBVIOUS
<1>2. \A i \in 1..Len(r) : r[i] = q[i + 1]
  OBVIOUS
<1> HIDE DEF r
<1>3. \A i \in DOMAIN r : i + 1 \in DOMAIN q /\ i + 1 # 1 /\ i \in Nat
  BY <1>1
<1>4. \A i \in DOMAIN q : i # 1 => i - 1 \in DOMAIN r /\ r[i - 1] = q[i]
  BY <1>1, <1>2
<1>5. 1 \in DOMAIN q
  BY <1>1
<1>6. Values(r, V) \subseteq Values(q, V) /\ ToSet(r) \subseteq ToSet(q) /\ q[1] \in ToSet(q)
      /\ V[q[1]] \in Values(q, V) \cup {None}
  BY <1>1, <1>2, <1>3, <1>5 DEF Values, ToSet
<1>7. ASSUME Once(q, V) PROVE Once(r, V) /\ Values(r, V) = Values(q, V) \ {V[q[1]]}
  <2>1. Once(r, V)
    BY <1>1, <1>2, <1>3, <1>7 DEF Once
  <2>2. ASSUME NEW i \in DOMAIN r, V[r[i]] # None PROVE V[r[i]] # V[q[1]]
    BY <1>1, <1>2, <1>3, <1>5, <1>7, <2>2 DEF Once
  <2>3. ASSUME NEW i \in DOMAIN q, V[q[i]] # V[q[1]], V[q[i]] # None PROVE V[q[i]] \in Values(r, V)
    BY <1>4, <2>3 DEF Values
  <2>4. Values(q, V) \ {V[q[1]]} \subseteq Values(r, V)
    BY <2>3 DEF Values
  <2>5. V[q[1]] \notin Values(r, V)
    BY <2>2, SMTT(30) DEF Values
  <2> QED BY <1>6, <2>1, <2>4, <2>5
<1> QED BY <1>1, <1>6, <1>7 DEF r

\* The top of a stack is replaced.
LEMMA Replacing ==
  ASSUME NEW S, NEW q \in Seq(S), q # <<>>, NEW f \in S, NEW U
  PROVE  LET r == [q EXCEPT ![Len(q)] = f]
         IN /\ r \in Seq(S) /\ Len(r) = Len(q) /\ r # <<>> /\ Last(r) = f /\ Last(q) \in S
            /\ U[Last(q)] \in Values(q, U) \cup {None}
            /\ \A i \in 1..(Len(q) - 1) : r[i] = q[i]
            /\ Values(r, U) \subseteq Values(q, U) \cup ({U[f]} \ {None})
<1> DEFINE n == Len(q)
           r == [q EXCEPT ![n] = f]
<1>1. n \in Nat \ {0} /\ n \in 1..n /\ DOMAIN q = 1..n /\ q[n] \in S
  OBVIOUS
<1>2. r \in Seq(S) /\ Len(r) = n /\ DOMAIN r = 1..n
  BY <1>1, ExceptSeq, SMTT(30)
<1>3. r[n] = f /\ \A i \in 1..n : i # n => r[i] = q[i]
  BY <1>1
<1>4. r # <<>>
  BY <1>1, <1>2
<1>5. U[q[n]] \in Values(q, U) \cup {None}
  BY <1>1 DEF Values
<1>6. \A i \in 1..(n - 1) : i \in 1..n /\ i # n
  <2> HIDE DEF n
  <2> QED BY <1>1
<1> HIDE DEF r, n
<1>8. Values(r, U) \subseteq Values(q, U) \cup ({U[f]} \ {None})
  BY <1>1, <1>2, <1>3 DEF Values
<1> QED BY <1>1, <1>2, <1>3, <1>4, <1>5, <1>6, <1>8 DEF Last, r, n

OnTop(q, f) == [q EXCEPT ![Len(q)] = f]

LEMMA ReplacingOnce ==
  ASSUME NEW S, NEW q \in Seq(S), q # <<>>, NEW f \in S, NEW U, Once(q, U),
         U[f] = U[Last(q)] \/ U[f] \notin Values(q, U)
  PROVE  /\ Once(OnTop(q, f), U)
         /\ Values(OnTop(q, f), U) = (Values(q, U) \ {U[Last(q)]}) \cup ({U[f]} \ {None})
<1> DEFINE n == Len(q)
           r == [q EXCEPT ![n] = f]
<1>1. n \in Nat \ {0} /\ n \in 1..n /\ DOMAIN q = 1..n /\ q[n] \in S
  OBVIOUS
<1>2. r \in Seq(S) /\ Len(r) = n /\ DOMAIN r = 1..n
  BY <1>1, ExceptSeq
<1>3. r[n] = f /\ \A i \in 1..n : i # n => r[i] = q[i]
  BY <1>1
<1>4. r # <<>>
  BY <1>1, <1>2
<1>5. U[q[n]] \in Values(q, U) \cup {None}
  BY <1>1 DEF Values
<1>6. \A i \in 1..(n - 1) : i \in 1..n /\ i # n
  <2> HIDE DEF n
  <2> QED BY <1>1
<1>7. U[f] = U[q[n]] \/ U[f] \notin Values(q, U)
  BY DEF Last
<1> HIDE DEF r, n
<1>11. \A i \in 1..n : i # n => U[q[i]] = None \/ (U[q[i]] # U[q[n]] /\ U[q[i]] \in Values(q, U))
  BY <1>1 DEF Once, Values
<1>12. \A i \in 1..n : i # n => U[r[i]] = None \/ U[r[i]] # U[r[n]]
  BY <1>3, <1>7, <1>11
<1>13. Once(r, U)
  <2> SUFFICES ASSUME NEW i \in 1..n, NEW j \in 1..n, U[r[i]] = U[r[j]], i # j PROVE U[r[i]] = None
    BY <1>2 DEF Once
  <2>1. CASE i = n \/ j = n
    BY <1>12, <2>1
  <2>2. CASE i # n /\ j # n
    BY <1>1, <1>3, <2>2 DEF Once
  <2> QED BY <2>1, <2>2
<1>14. Values(r, U) \subseteq (Values(q, U) \ {U[q[n]]}) \cup ({U[f]} \ {None})
  BY <1>1, <1>2, <1>3, <1>11 DEF Values
<1>15. ASSUME NEW v \in Values(q, U), v # U[q[n]] PROVE v \in Values(r, U)
  <2>1. PICK i \in 1..n : v = U[q[i]] /\ v # None
    BY <1>1 DEF Values
  <2>2. i # n /\ r[i] = q[i]
    BY <1>3, <1>15, <2>1
  <2> QED BY <1>2, <2>1, <2>2 DEF Values
<1>16. {U[f]} \ {None} \subseteq Values(r, U)
  BY <1>1, <1>2, <1>3 DEF Values
<1> QED BY <1>13, <1>14, <1>15, <1>16 DEF Last, r, n, OnTop

LEMMA Popping ==
  ASSUME NEW S, NEW q \in Seq(S), q # <<>>, NEW U
  PROVE  LET r == Front(q)
         IN /\ r \in Seq(S) /\ Len(r) = Len(q) - 1 /\ Last(q) \in S
            /\ U[Last(q)] \in Values(q, U) \cup {None}
            /\ \A i \in 1..Len(r) : r[i] = q[i]
            /\ Values(r, U) \subseteq Values(q, U)
            /\ Once(q, U) => Once(r, U) /\ Values(r, U) = Values(q, U) \ {U[Last(q)]}
<1> DEFINE n == Len(q)
           r == Front(q)
<1>1. n \in Nat \ {0} /\ n \in 1..n /\ DOMAIN q = 1..n /\ q[n] \in S
      /\ \A i \in 1..(n - 1) : q[i] \in S
  OBVIOUS
<1>2. /\ r \in Seq(S) /\ Len(r) = n - 1
      /\ \A i \in 1..(n - 1) : r[i] = q[i]
  <2>1. r = SubSeq(q, 1, n - 1) /\ 1 \in Int /\ n - 1 \in Int
    BY <1>1 DEF Front
  <2>2. /\ SubSeq(q, 1, n - 1) \in Seq(S)
        /\ Len(SubSeq(q, 1, n - 1)) = IF 1 <= n - 1 THEN n - 1 - 1 + 1 ELSE 0
        /\ \A i \in 1..(n - 1 - 1 + 1) : SubSeq(q, 1, n - 1)[i] = q[1 + i - 1]
    BY <1>1, <2>1, SubSeqProperties
  <2>3. \A i \in 1..(n - 1) : i \in 1..(n - 1 - 1 + 1) /\ 1 + i - 1 = i
    BY <1>1
  <2>4. (IF 1 <= n - 1 THEN n - 1 - 1 + 1 ELSE 0) = n - 1
    BY <1>1
  <2> HIDE DEF r
  <2> QED BY <2>1, <2>2, <2>3, <2>4
<1>3. DOMAIN r = 1..(n - 1)
  BY <1>2
<1>4. /\ \A i \in 1..n : i = n \/ i \in 1..(n - 1)
      /\ \A i \in 1..(n - 1) : i \in 1..n /\ i # n
  <2> HIDE DEF n
  <2> QED BY <1>1
<1>6. U[q[n]] \in Values(q, U) \cup {None}
  BY <1>1 DEF Values
<1> HIDE DEF r, n
<1>7. Values(r, U) \subseteq Values(q, U)
  BY <1>1, <1>2, <1>3, <1>4 DEF Values
<1>8. ASSUME Once(q, U) PROVE Once(r, U) /\ Values(r, U) = Values(q, U) \ {U[q[n]]}
  <2>1. Once(r, U)
    BY <1>1, <1>2, <1>3, <1>4, <1>8 DEF Once
  <2>2. ASSUME NEW i \in 1..(n - 1), U[r[i]] # None PROVE U[r[i]] # U[q[n]]
    BY <1>1, <1>2, <1>4, <1>8, <2>2 DEF Once
  <2>3. U[q[n]] \notin Values(r, U)
    BY <1>3, <2>2 DEF Values
  <2>4. ASSUME NEW i \in 1..n, U[q[i]] # U[q[n]], U[q[i]] # None PROVE U[q[i]] \in Values(r, U)
    BY <1>2, <1>3, <1>4, <2>4 DEF Values
  <2>5. Values(q, U) \ {U[q[n]]} \subseteq Values(r, U)
    BY <1>1, <2>4 DEF Values
  <2> QED BY <1>7, <2>1, <2>3, <2>5
<1> QED BY <1>1, <1>2, <1>6, <1>7, <1>8 DEF Last, r, n

LEMMA Nothing ==
  ASSUME NEW V
  PROVE  Values(<<>>, V) = {} /\ Once(<<>>, V) /\ ToSet(<<>>) = {}
BY DEF Values, Once, ToSet
-----------------------------------------------------------------------------
(***************************************************************************)
(* What moves from one carrier to another.                                  *)
(***************************************************************************)
LEMMA NoneValue ==
  ASSUME NEW q, NEW V
  PROVE  None \notin Values(q, V)
BY DEF Values

LEMMA Contents ==
  ASSUME NEW t \in Thread
  PROVE  <<"tasks", t>> \in Carriers /\ <<"batch", t>> \in Carriers /\ <<"stack", t>> \in Carriers
BY DEF Carriers

LEMMA CarrierCases ==
  ASSUME NEW x \in Carriers
  PROVE  \E t \in Thread : x = <<"tasks", t>> \/ x = <<"batch", t>> \/ x = <<"stack", t>>
BY DEF Carriers

\* x, which carried old, loses c if it is lose, and gains d if it is gain.
Moved(x, old, lose, c, gain, d) ==
  (IF x = lose THEN old \ {c} ELSE old) \cup (IF x = gain THEN {d} \ {None} ELSE {})
Moves(V, U, lose, c, gain, d) ==
  /\ c \in Content(V, U, lose) \cup {None}
  /\ d = None \/ d = c \/ d \notin Carried(V, U)
  /\ \A x \in Carriers : Content(V, U, x)' = Moved(x, Content(V, U, x), lose, c, gain, d)

LEMMA CarriedMoves ==
  ASSUME NEW V, NEW U, CarriedOnce(V, U), NEW lose \in Carriers, NEW gain \in Carriers, NEW c, NEW d,
         Moves(V, U, lose, c, gain, d),
         \A t \in Thread : Once(tasks'[t], V) /\ Once(batch'[t], V) /\ Once(stack'[t], U)
  PROVE  CarriedOnce(V, U)' /\ Carried(V, U)' = Swapped(Carried(V, U), c, d)
<1> DEFINE B(x) == Content(V, U, x)
           A(x) == Content(V, U, x)'
<1>1. \A x \in Carriers : A(x) = Moved(x, B(x), lose, c, gain, d)
  BY DEF Moves
<1>2. \A x \in Carriers : None \notin B(x)
  BY DEF Content, Values, Carriers
<1>3. \A x \in Carriers : x # lose => c \notin B(x)
  BY <1>2 DEF Moves, CarriedOnce
<1>4. Carried(V, U) = UNION {B(x) : x \in Carriers} /\ Carried(V, U)' = UNION {A(x) : x \in Carriers}
  BY DEF Carried
<1>5. \A x, y \in Carriers : x # y => B(x) \cap B(y) = {}
  BY DEF CarriedOnce
<1>6. d = None \/ d = c \/ \A x \in Carriers : d \notin B(x)
  BY <1>4 DEF Moves
<1> HIDE DEF A, B
<1>7. \A x \in Carriers : A(x) \subseteq B(x) \cup ({d} \ {None}) /\ c \in A(x) => c = d /\ x = gain
  BY <1>1, <1>2, <1>3 DEF Moved
<1>8. \A x, y \in Carriers : x # y => A(x) \cap A(y) = {}
  <2> SUFFICES ASSUME NEW x \in Carriers, NEW y \in Carriers, NEW v, v \in A(x), v \in A(y)
               PROVE  x = y
    OBVIOUS
  <2>1. CASE v = d
    <3>1. v # None
      BY <1>1, <1>2 DEF Moved
    <3>2. \A z \in Carriers : v \in A(z) => z = gain
      BY <1>1, <1>3, <1>6, <2>1, <3>1 DEF Moved
    <3> QED BY <3>2
  <2>2. CASE v # d
    <3>1. v \in B(x) /\ v \in B(y)
      BY <1>1, <2>2 DEF Moved
    <3> QED BY <1>5, <3>1
  <2> QED BY <2>1, <2>2
<1>9. Carried(V, U)' = (Carried(V, U) \ {c}) \cup ({d} \ {None})
  <2>1. ASSUME NEW x \in Carriers, NEW v \in A(x) PROVE v \in (Carried(V, U) \ {c}) \cup ({d} \ {None})
    BY <1>1, <1>2, <1>3, <1>4, <2>1 DEF Moved
  <2>2. ASSUME NEW x \in Carriers, NEW v \in B(x), v # c PROVE v \in A(x)
    BY <1>1, <2>2 DEF Moved
  <2>3. {d} \ {None} \subseteq A(gain)
    BY <1>1 DEF Moved
  <2> QED BY <1>4, <2>1, <2>2, <2>3
<1> QED BY <1>8, <1>9 DEF CarriedOnce, A, Swapped

\* Only a stack changes.
StackMoves(V, U, p, r, c, d) ==
  /\ stack' = [stack EXCEPT ![p] = r]
  /\ UNCHANGED <<tasks, batch>>
  /\ Once(r, U)
  /\ c \in Values(stack[p], U) \cup {None}
  /\ d = None \/ d = c \/ d \notin Carried(V, U)
  /\ Values(r, U) = Swapped(Values(stack[p], U), c, d)

LEMMA StackCarries ==
  ASSUME TypeOK, NEW V, NEW U, CarriedOnce(V, U), NEW p \in Thread, NEW r, NEW c, NEW d,
         StackMoves(V, U, p, r, c, d)
  PROVE  CarriedOnce(V, U)' /\ Carried(V, U)' = Swapped(Carried(V, U), c, d)
<1> USE DEF StackMoves
<1>1. /\ stack'[p] = r
      /\ \A t \in Thread : t # p => stack'[t] = stack[t]
  BY DEF TypeOK, StackType
<1>2. \A t \in Thread : Once(tasks'[t], V) /\ Once(batch'[t], V) /\ Once(stack'[t], U)
  BY <1>1 DEF CarriedOnce
<1>3. <<"stack", p>> \in Carriers
  BY Contents
<1>4. \A x \in Carriers :
        Content(V, U, x)' = Moved(x, Content(V, U, x), <<"stack", p>>, c, <<"stack", p>>, d)
  <2> TAKE x \in Carriers
  <2>1. PICK t \in Thread : x = <<"tasks", t>> \/ x = <<"batch", t>> \/ x = <<"stack", t>>
    BY CarrierCases
  <2>2. CASE x # <<"stack", p>>
    BY <1>1, <2>1, <2>2 DEF Moved, Content
  <2>3. CASE x = <<"stack", p>>
    BY <1>1, <2>3, NoneValue DEF Moved, Content, Swapped
  <2> QED BY <2>2, <2>3
<1>5. Moves(V, U, <<"stack", p>>, c, <<"stack", p>>, d)
  BY <1>4 DEF Moves, Content
<1> QED BY <1>2, <1>3, <1>5, CarriedMoves

\* A message is posted, and a stack changes.
PostMoves(V, U, p, r, c, d, t, m) ==
  /\ stack' = [stack EXCEPT ![p] = r]
  /\ Post(t, m) /\ batch' = batch
  /\ Once(r, U)
  /\ c \in Values(stack[p], U) \cup {None}
  /\ d = None \/ d = c \/ d \notin Carried(V, U)
  /\ \/ V[m] = None /\ Values(r, U) = Swapped(Values(stack[p], U), c, d)
     \/ V[m] = d /\ Values(r, U) = Swapped(Values(stack[p], U), c, None)

LEMMA PostCarries ==
  ASSUME TypeOK, NEW V, NEW U, CarriedOnce(V, U), NEW p \in Thread, NEW r, NEW c, NEW d,
         NEW t \in Thread, NEW m \in MessageSet, PostMoves(V, U, p, r, c, d, t, m)
  PROVE  CarriedOnce(V, U)' /\ Carried(V, U)' = Swapped(Carried(V, U), c, d)
<1> USE DEF PostMoves
<1>0. tasks[t] \in Seq(MessageSet)
  BY DEF TypeOK, QueueType
<1>1. /\ stack'[p] = r
      /\ \A u \in Thread : u # p => stack'[u] = stack[u]
      /\ tasks'[t] = Append(tasks[t], m)
      /\ \A u \in Thread : u # t => tasks'[u] = tasks[u]
  BY DEF TypeOK, StackType, QueueType, Post
<1>2. /\ Values(tasks'[t], V) = Values(tasks[t], V) \cup ({V[m]} \ {None})
      /\ Once(tasks[t], V) /\ V[m] \notin Values(tasks[t], V) => Once(tasks'[t], V)
  BY <1>0, <1>1, Appending
<1>3. V[m] \notin Values(tasks[t], V)
  <2>1. CASE V[m] = None
    BY <2>1 DEF Values
  <2>2. CASE V[m] # None /\ V[m] \notin Carried(V, U)
    <3>1. Content(V, U, <<"tasks", t>>) \subseteq Carried(V, U)
      BY Contents DEF Carried
    <3> QED BY <2>2, <3>1 DEF Content
  <2>3. CASE V[m] # None /\ V[m] = c
    <3>1. c \in Content(V, U, <<"stack", p>>)
      BY <2>3 DEF Content
    <3>2. <<"stack", p>> # <<"tasks", t>>
      OBVIOUS
    <3>3. c \notin Content(V, U, <<"tasks", t>>)
      BY <3>1, <3>2, Contents DEF CarriedOnce
    <3> QED BY <2>3, <3>3 DEF Content
  <2> QED BY <2>1, <2>2, <2>3
<1>4. \A u \in Thread : Once(tasks'[u], V) /\ Once(batch'[u], V) /\ Once(stack'[u], U)
  BY <1>1, <1>2, <1>3 DEF CarriedOnce
<1> DEFINE g == IF V[m] = None THEN <<"stack", p>> ELSE <<"tasks", t>>
<1>5. <<"stack", p>> \in Carriers /\ g \in Carriers
  BY Contents
<1>6. \A x \in Carriers :
        Content(V, U, x)' = Moved(x, Content(V, U, x), <<"stack", p>>, c, g, d)
  <2> TAKE x \in Carriers
  <2>1. PICK u \in Thread : x = <<"tasks", u>> \/ x = <<"batch", u>> \/ x = <<"stack", u>>
    BY CarrierCases
  <2>2. CASE x # <<"stack", p>> /\ x # <<"tasks", t>>
    BY <1>1, <2>1, <2>2 DEF Moved, Content
  <2>3. CASE x = <<"stack", p>>
    BY <1>1, <2>3, NoneValue DEF Moved, Content, Swapped
  <2>4. CASE x = <<"tasks", t>>
    BY <1>1, <1>2, <2>4 DEF Moved, Content
  <2> QED BY <2>2, <2>3, <2>4
<1> HIDE DEF g
<1>7. Moves(V, U, <<"stack", p>>, c, g, d)
  BY <1>6 DEF Moves, Content
<1> QED BY <1>4, <1>5, <1>7, CarriedMoves

\* The first task of a batch is begun, and a stack changes.
BatchMoves(V, U, p, r, t, c, d) ==
  /\ stack' = [stack EXCEPT ![p] = r]
  /\ batch[t] # <<>> /\ batch' = [batch EXCEPT ![t] = Tail(batch[t])] /\ tasks' = tasks
  /\ Once(r, U)
  /\ c = V[Head(batch[t])]
  /\ d = None \/ d = c \/ d \notin Carried(V, U)
  /\ Values(r, U) = Swapped(Values(stack[p], U), None, d)

LEMMA BatchCarries ==
  ASSUME TypeOK, NEW V, NEW U, CarriedOnce(V, U), NEW p \in Thread, NEW r, NEW t \in Thread, NEW c, NEW d,
         BatchMoves(V, U, p, r, t, c, d)
  PROVE  CarriedOnce(V, U)' /\ Carried(V, U)' = Swapped(Carried(V, U), c, d)
<1> USE DEF BatchMoves
<1>0. batch[t] \in Seq(MessageSet) /\ Once(batch[t], V)
  BY DEF TypeOK, QueueType, CarriedOnce
<1>1. /\ stack'[p] = r
      /\ \A u \in Thread : u # p => stack'[u] = stack[u]
      /\ batch'[t] = Tail(batch[t])
      /\ \A u \in Thread : u # t => batch'[u] = batch[u]
  BY DEF TypeOK, StackType, QueueType
<1>2. /\ Values(batch'[t], V) = Values(batch[t], V) \ {c} /\ Once(batch'[t], V)
      /\ c \in Values(batch[t], V) \cup {None}
  BY <1>0, <1>1, Taking
<1>3. \A u \in Thread : Once(tasks'[u], V) /\ Once(batch'[u], V) /\ Once(stack'[u], U)
  BY <1>1, <1>2 DEF CarriedOnce
<1>4. \A x \in Carriers :
        Content(V, U, x)' = Moved(x, Content(V, U, x), <<"batch", t>>, c, <<"stack", p>>, d)
  <2> TAKE x \in Carriers
  <2>1. PICK u \in Thread : x = <<"tasks", u>> \/ x = <<"batch", u>> \/ x = <<"stack", u>>
    BY CarrierCases
  <2>2. CASE x # <<"stack", p>> /\ x # <<"batch", t>>
    BY <1>1, <2>1, <2>2 DEF Moved, Content
  <2>3. CASE x = <<"stack", p>>
    BY <1>1, <2>3, NoneValue DEF Moved, Content, Swapped
  <2>4. CASE x = <<"batch", t>>
    BY <1>1, <1>2, <2>4 DEF Moved, Content
  <2> QED BY <2>2, <2>3, <2>4
<1>5. Moves(V, U, <<"batch", t>>, c, <<"stack", p>>, d)
  BY <1>2, <1>4 DEF Moves, Content
<1>6. <<"batch", t>> \in Carriers /\ <<"stack", p>> \in Carriers
  BY Contents
<1> QED BY <1>3, <1>5, <1>6, CarriedMoves

\* A thread takes its queue.
LEMMA QueueTaken ==
  ASSUME TypeOK, NEW V, NEW U, CarriedOnce(V, U), NEW t \in Thread, batch[t] = <<>>, NEW r,
         stack' = [stack EXCEPT ![t] = r], Once(r, U), Values(r, U) = Values(stack[t], U),
         batch' = [batch EXCEPT ![t] = tasks[t]], tasks' = [tasks EXCEPT ![t] = <<>>]
  PROVE  CarriedOnce(V, U)' /\ Carried(V, U)' = Carried(V, U)
<1>1. /\ stack'[t] = r /\ batch'[t] = tasks[t] /\ tasks'[t] = <<>>
      /\ \A u \in Thread : u # t => stack'[u] = stack[u] /\ batch'[u] = batch[u] /\ tasks'[u] = tasks[u]
  BY DEF TypeOK, StackType, QueueType
<1>2. \A u \in Thread : Once(tasks'[u], V) /\ Once(batch'[u], V) /\ Once(stack'[u], U)
  BY <1>1, Nothing DEF CarriedOnce
<1> DEFINE f == [x \in Carriers |-> IF x = <<"tasks", t>> THEN <<"batch", t>>
                                   ELSE IF x = <<"batch", t>> THEN <<"tasks", t>> ELSE x]
<1>3. /\ <<"tasks", t>> \in Carriers /\ <<"batch", t>> \in Carriers
      /\ <<"tasks", t>> # <<"batch", t>>
  BY Contents
<1>4. \A x \in Carriers : f[x] \in Carriers /\ f[f[x]] = x
  BY <1>3
<1>5. \A x \in Carriers : Content(V, U, x)' = Content(V, U, f[x])
  <2> TAKE x \in Carriers
  <2>1. PICK u \in Thread : x = <<"tasks", u>> \/ x = <<"batch", u>> \/ x = <<"stack", u>>
    BY CarrierCases
  <2>2. CASE x # <<"tasks", t>> /\ x # <<"batch", t>>
    BY <1>1, <2>1, <2>2 DEF Content
  <2>3. CASE x = <<"tasks", t>>
    BY <1>1, <1>3, <2>3, Nothing DEF Content
  <2>4. CASE x = <<"batch", t>>
    BY <1>1, <1>3, <2>4 DEF Content
  <2> QED BY <2>2, <2>3, <2>4
<1> HIDE DEF f
<1>6. \A x, y \in Carriers : x # y => Content(V, U, x)' \cap Content(V, U, y)' = {}
  <2> SUFFICES ASSUME NEW x \in Carriers, NEW y \in Carriers, x # y
               PROVE  Content(V, U, x)' \cap Content(V, U, y)' = {}
    OBVIOUS
  <2>1. f[x] # f[y]
    BY <1>4
  <2> QED BY <1>4, <1>5, <2>1 DEF CarriedOnce
<1>7. Carried(V, U)' = Carried(V, U)
  <2>1. Carried(V, U) = UNION {Content(V, U, x) : x \in Carriers}
        /\ Carried(V, U)' = UNION {Content(V, U, x)' : x \in Carriers}
    BY DEF Carried
  <2>2. \A x \in Carriers : Content(V, U, x)' \subseteq Carried(V, U)
    BY <1>4, <1>5, <2>1
  <2>3. \A x \in Carriers : Content(V, U, x) \subseteq Carried(V, U)'
    <3> TAKE x \in Carriers
    <3>1. f[x] \in Carriers /\ Content(V, U, f[x])' = Content(V, U, x)
      BY <1>4, <1>5
    <3> QED BY <2>1, <3>1
  <2> QED BY <2>1, <2>2, <2>3
<1> QED BY <1>2, <1>6, <1>7 DEF CarriedOnce
-----------------------------------------------------------------------------
(***************************************************************************)
(* Stacks.                                                                  *)
(***************************************************************************)
Sync == {"sync1", "sync2"}

LEMMA StackPush ==
  ASSUME NEW p \in Thread, NEW s, StackOK(p, s), NEW f \in FrameSet, f.pc \in Sync => p = Main,
         s = <<>> \/ Last(s).pc \in Below(p)
  PROVE  StackOK(p, Append(s, f))
<1>1. s \in Seq(FrameSet)
  BY DEF StackOK
<1> DEFINE r == Append(s, f)
<1>2. r \in Seq(FrameSet) /\ Len(r) = Len(s) + 1 /\ Last(r) = f /\ \A i \in 1..Len(s) : r[i] = s[i]
  BY <1>1, Appending
<1>3. Len(s) \in Nat /\ r[Len(s) + 1] = f
  BY <1>1, <1>2 DEF Last
<1> HIDE DEF r
<1>4. \A i \in 1..Len(r) : i \in 1..Len(s) \/ i = Len(s) + 1
  BY <1>2, <1>3
<1>5. \A i \in 1..Len(r) : r[i].pc \in {"sync1", "sync2"} => p = Main
  BY <1>2, <1>3, <1>4 DEF StackOK, Sync
<1>6. \A i \in 1..(Len(r) - 1) : r[i].pc \in Below(p)
  <2>1. \A i \in 1..(Len(r) - 1) : i \in 1..(Len(s) - 1) \/ (i = Len(s) /\ s # <<>>)
    BY <1>1, <1>2, <1>3
  <2>2. \A i \in 1..(Len(r) - 1) : r[i] = s[i]
    BY <1>2, <1>3
  <2> QED BY <2>1, <2>2 DEF StackOK, Last
<1> QED BY <1>2, <1>5, <1>6 DEF StackOK, r

LEMMA StackPop ==
  ASSUME NEW p \in Thread, NEW s, StackOK(p, s), s # <<>>
  PROVE  /\ StackOK(p, Front(s))
         /\ Front(s) # <<>> => Last(Front(s)).pc \in Below(p)
<1>1. s \in Seq(FrameSet)
  BY DEF StackOK
<1> DEFINE r == Front(s)
<1>2. r \in Seq(FrameSet) /\ Len(r) = Len(s) - 1 /\ \A i \in 1..Len(r) : r[i] = s[i]
  BY <1>1, Popping
<1>3. Len(s) \in Nat \ {0} /\ Len(r) \in Nat
  BY <1>1, <1>2
<1> HIDE DEF r
<1>4. \A i \in 1..Len(r) : i \in 1..Len(s) /\ i \in 1..(Len(s) - 1) /\ r[i] = s[i]
  BY <1>2, <1>3
<1>5. \A i \in 1..(Len(r) - 1) : i \in 1..Len(r)
  BY <1>3
<1>6. r # <<>> => Len(r) \in 1..Len(r)
  BY <1>2, <1>3, SMTT(30)
<1> QED BY <1>2, <1>4, <1>5, <1>6 DEF StackOK, Last, r

LEMMA StackChange ==
  ASSUME NEW p \in Thread, NEW s, StackOK(p, s), s # <<>>, NEW f \in FrameSet, f.pc \in Sync => p = Main
  PROVE  StackOK(p, [s EXCEPT ![Len(s)] = f])
<1>1. s \in Seq(FrameSet)
  BY DEF StackOK
<1> DEFINE r == [s EXCEPT ![Len(s)] = f]
<1>2. /\ r \in Seq(FrameSet) /\ Len(r) = Len(s) /\ Last(r) = f
      /\ \A i \in 1..(Len(s) - 1) : r[i] = s[i]
  BY <1>1, Replacing
<1>3. Len(s) \in Nat /\ r[Len(s)] = f
  BY <1>1, <1>2 DEF Last
<1> HIDE DEF r
<1>4. \A i \in 1..Len(r) : i \in 1..(Len(s) - 1) \/ i = Len(s)
  BY <1>2, <1>3
<1>5. \A i \in 1..(Len(s) - 1) : i \in 1..Len(s)
  BY <1>3
<1> QED BY <1>2, <1>3, <1>4, <1>5 DEF StackOK, Sync, r

(***************************************************************************)
(* What becomes of a stack s of p: it loses job c, gains job d, and may     *)
(* post to w.                                                               *)
(***************************************************************************)
Fine(p, s) == StackOK(p, s) /\ Once(s, JobIn) /\ Once(s, Starts)
Tame(p, s, r, c, d, w) ==
  /\ Fine(p, r)
  /\ r = <<>> \/ Starts[Last(r)] = None
  /\ c \in Values(s, JobIn) \cup {None}
  /\ Values(r, JobIn) = Swapped(Values(s, JobIn), c, d)
  /\ Values(r, Starts) = Values(s, Starts)
  /\ Values(r, PostTo) \subseteq Values(s, PostTo) \cup ({w} \ {None})

LEMMA StackCarried ==
  ASSUME IInv, NEW p \in Thread
  PROVE  /\ Fine(p, stack[p])
         /\ Values(stack[p], JobIn) \subseteq Carried(JobOf, JobIn)
         /\ Values(stack[p], Starts) \subseteq Carried(Asks, Starts)
<1>1. <<"stack", p>> \in Carriers
  BY Contents
<1>2. /\ Content(JobOf, JobIn, <<"stack", p>>) \subseteq Carried(JobOf, JobIn)
      /\ Content(Asks, Starts, <<"stack", p>>) \subseteq Carried(Asks, Starts)
  BY <1>1 DEF Carried
<1>3. StackOK(p, stack[p])
  BY DEF IInv, TypeOK, StackType
<1> QED BY <1>2, <1>3 DEF Content, IInv, JobInv, AskInv, CarriedOnce, Fine

LEMMA FrameValues ==
  ASSUME NEW f \in FrameSet
  PROVE  /\ JobIn[f] = f.job /\ JobIn[f] \in Job \cup {None}
         /\ f.pc # "start" => Starts[f] = None
         /\ f.pc # "post" => PostTo[f] = None
         /\ f.pc = "post" => PostTo[f] = f.thread
         /\ f.pc = "start" => Starts[f] = f.for
BY DEF JobIn, Starts, PostTo, FrameSet

LEMMA TamePush ==
  ASSUME NEW p \in Thread, NEW s, Fine(p, s), s = <<>> \/ Last(s).pc \in Below(p),
         NEW f \in FrameSet, f.pc \in Sync => p = Main, Starts[f] = None,
         JobIn[f] \notin Values(s, JobIn)
  PROVE  Tame(p, s, Append(s, f), None, JobIn[f], PostTo[f])
<1> DEFINE r == Append(s, f)
<1>1. StackOK(p, s) /\ s \in Seq(FrameSet) /\ Once(s, JobIn) /\ Once(s, Starts)
  BY DEF Fine, StackOK
<1>3. StackOK(p, r)
  BY <1>1, StackPush
<1>4. Values(r, JobIn) = Values(s, JobIn) \cup ({JobIn[f]} \ {None})
      /\ (Once(s, JobIn) /\ JobIn[f] \notin Values(s, JobIn) => Once(r, JobIn))
  BY <1>1, Appending
<1>5. Values(r, Starts) = Values(s, Starts) \cup ({Starts[f]} \ {None})
      /\ (Once(s, Starts) /\ Starts[f] \notin Values(s, Starts) => Once(r, Starts))
      /\ Last(r) = f
  BY <1>1, Appending
<1>6. Values(r, PostTo) = Values(s, PostTo) \cup ({PostTo[f]} \ {None})
  BY <1>1, Appending
<1>7. None \notin Values(s, Starts) /\ None \notin Values(s, JobIn)
  BY DEF Values
<1> HIDE DEF r
<1>8. Fine(p, r)
  BY <1>1, <1>3, <1>4, <1>5, <1>7 DEF Fine
<1>9. Values(r, JobIn) = (Values(s, JobIn) \ {None}) \cup ({JobIn[f]} \ {None})
  BY <1>4, <1>7
<1>10. Values(r, Starts) = Values(s, Starts)
  BY <1>5, <1>7
<1> QED BY <1>5, <1>6, <1>8, <1>9, <1>10 DEF Tame, r, Swapped

LEMMA TamePop ==
  ASSUME NEW p \in Thread, NEW s, Fine(p, s), s # <<>>, Starts[Last(s)] = None
  PROVE  /\ Tame(p, s, Front(s), JobIn[Last(s)], None, None)
         /\ Front(s) # <<>> => Last(Front(s)).pc \in Below(p)
<1> DEFINE r == Front(s)
<1>1. StackOK(p, s) /\ s \in Seq(FrameSet) /\ Once(s, JobIn) /\ Once(s, Starts)
  BY DEF Fine, StackOK
<1>3. StackOK(p, r) /\ (r # <<>> => Last(r).pc \in Below(p))
  BY <1>1, StackPop
<1>4. /\ JobIn[Last(s)] \in Values(s, JobIn) \cup {None}
      /\ Once(s, JobIn) => Once(r, JobIn) /\ Values(r, JobIn) = Values(s, JobIn) \ {JobIn[Last(s)]}
  BY <1>1, Popping
<1>5. Once(s, Starts) => Once(r, Starts) /\ Values(r, Starts) = Values(s, Starts) \ {Starts[Last(s)]}
  BY <1>1, Popping
<1>6. Values(r, PostTo) \subseteq Values(s, PostTo)
  BY <1>1, Popping
<1>7. None \notin Values(s, Starts)
  BY DEF Values
<1> HIDE DEF r
<1>8. r = <<>> \/ Starts[Last(r)] = None
  <2>1. r # <<>> => Last(r) \in FrameSet
    BY <1>3 DEF StackOK, Last
  <2>2. r # <<>> => Last(r).pc # "start"
    BY <1>3 DEF Below
  <2> QED BY <2>1, <2>2, FrameValues
<1>9. Fine(p, r)
  BY <1>1, <1>3, <1>4, <1>5 DEF Fine
<1>10. Values(r, Starts) = Values(s, Starts)
  BY <1>1, <1>5, <1>7
<1>11. Values(r, JobIn) = (Values(s, JobIn) \ {JobIn[Last(s)]}) \cup ({None} \ {None})
  BY <1>1, <1>4
<1> QED BY <1>3, <1>4, <1>6, <1>8, <1>9, <1>10, <1>11 DEF Tame, r, Swapped

LEMMA TameChange ==
  ASSUME NEW p \in Thread, NEW s, Fine(p, s), s # <<>>, Starts[Last(s)] = None, NEW f \in FrameSet,
         f.pc \in Sync => p = Main, Starts[f] = None, JobIn[f] = JobIn[Last(s)]
  PROVE  Tame(p, s, OnTop(s, f), None, None, PostTo[f])
<1> DEFINE r == [s EXCEPT ![Len(s)] = f]
<1>1. StackOK(p, s) /\ s \in Seq(FrameSet) /\ Once(s, JobIn) /\ Once(s, Starts)
  BY DEF Fine, StackOK
<1>2. s \in Seq(FrameSet)
  BY <1>1
<1>3. StackOK(p, r)
  BY <1>1, StackChange
<1>4. Once(r, JobIn) /\ Values(r, JobIn) = (Values(s, JobIn) \ {JobIn[Last(s)]}) \cup ({JobIn[f]} \ {None})
  <2>1. /\ Once(OnTop(s, f), JobIn)
        /\ Values(OnTop(s, f), JobIn) = (Values(s, JobIn) \ {JobIn[Last(s)]}) \cup ({JobIn[f]} \ {None})
    BY <1>1, <1>2, ReplacingOnce
  <2> QED BY <2>1 DEF OnTop
<1>5. Once(r, Starts) /\ Values(r, Starts) = (Values(s, Starts) \ {Starts[Last(s)]}) \cup ({Starts[f]} \ {None})
  <2>1. /\ Once(OnTop(s, f), Starts)
        /\ Values(OnTop(s, f), Starts) = (Values(s, Starts) \ {Starts[Last(s)]}) \cup ({Starts[f]} \ {None})
    BY <1>1, <1>2, ReplacingOnce
  <2> QED BY <2>1 DEF OnTop
<1>11. JobIn[Last(s)] \in Values(s, JobIn) \cup {None}
  BY <1>1, Replacing
<1>6. Values(r, PostTo) \subseteq Values(s, PostTo) \cup ({PostTo[f]} \ {None}) /\ Last(r) = f
  BY <1>2, Replacing
<1>7. None \notin Values(s, Starts) /\ None \notin Values(s, JobIn)
  BY DEF Values
<1> HIDE DEF r
<1>8. Values(r, JobIn) = (Values(s, JobIn) \ {None}) \cup ({None} \ {None})
  BY <1>4, <1>7, <1>11
<1>9. Values(r, Starts) = Values(s, Starts)
  BY <1>1, <1>5, <1>7
<1>10. Fine(p, r)
  BY <1>1, <1>3, <1>4, <1>5 DEF Fine
<1> QED BY <1>6, <1>8, <1>9, <1>10 DEF Tame, r, Swapped, OnTop

LEMMA TameTwice ==
  ASSUME NEW p, NEW s, NEW r, NEW q, NEW d, NEW w,
         Tame(p, s, r, None, d, w), Tame(p, r, q, None, None, None)
  PROVE  Tame(p, s, q, None, d, w)
<1>1. None \notin Values(r, JobIn)
  BY DEF Values
<1> QED BY <1>1 DEF Tame, Swapped

LEMMA TameSame ==
  ASSUME NEW p, NEW s, Fine(p, s), s = <<>> \/ Starts[Last(s)] = None
  PROVE  Tame(p, s, s, None, None, None)
<1>1. None \notin Values(s, JobIn)
  BY DEF Values
<1> QED BY <1>1 DEF Tame, Swapped
-----------------------------------------------------------------------------
(***************************************************************************)
(* The calls that wait for Main.                                            *)
(***************************************************************************)
LEMMA AskedFor ==
  ASSUME IInv, NEW q \in Carried(Asks, Starts)
  PROVE  /\ q \in Thread
         /\ q # Main => At(q, "get") \/ At(q, "erase")
         /\ q = Main => At(Main, "start") /\ Top(Main).for = Main
<1>1. PICK x \in Carriers : q \in Content(Asks, Starts, x)
  BY DEF Carried
<1>2. PICK t \in Thread : x = <<"tasks", t>> \/ x = <<"batch", t>> \/ x = <<"stack", t>>
  BY CarrierCases
<1>3. ASSUME NEW m \in MessageSet, m \in ToSet(tasks[t]) \cup ToSet(batch[t]), q = Asks[m], q # None
      PROVE  q \in Thread /\ q # Main /\ (At(q, "get") \/ At(q, "erase"))
  <2>1. m.kind \in Asked /\ q = m.thread /\ q \in Thread \ {Main}
    BY <1>3 DEF Asks, MessageSet
  <2>2. Waits(t, m)
    BY <1>3 DEF IInv, AskInv
  <2> QED BY <2>1, <2>2 DEF Waits, Asked
<1>4. tasks[t] \in Seq(MessageSet) /\ batch[t] \in Seq(MessageSet) /\ StackOK(t, stack[t])
  BY DEF IInv, TypeOK, QueueType, StackType
<1>5. CASE x = <<"tasks", t>>
  <2>1. PICK i \in DOMAIN tasks[t] : q = Asks[tasks[t][i]] /\ q # None
    BY <1>1, <1>5 DEF Content, Values
  <2>2. tasks[t][i] \in MessageSet /\ tasks[t][i] \in ToSet(tasks[t])
    BY <1>4 DEF ToSet
  <2> QED BY <1>3, <2>1, <2>2
<1>6. CASE x = <<"batch", t>>
  <2>1. PICK i \in DOMAIN batch[t] : q = Asks[batch[t][i]] /\ q # None
    BY <1>1, <1>6 DEF Content, Values
  <2>2. batch[t][i] \in MessageSet /\ batch[t][i] \in ToSet(batch[t])
    BY <1>4 DEF ToSet
  <2> QED BY <1>3, <2>1, <2>2
<1>7. CASE x = <<"stack", t>>
  <2>1. PICK i \in DOMAIN stack[t] : q = Starts[stack[t][i]] /\ q # None
    BY <1>1, <1>7 DEF Content, Values
  <2>2. stack[t] \in Seq(FrameSet) /\ stack[t][i] \in FrameSet /\ i \in 1..Len(stack[t]) /\ stack[t] # <<>>
    BY <1>4 DEF StackOK
  <2>3. stack[t][i].pc = "start" /\ q = stack[t][i].for /\ q \in Thread
    BY <2>1, <2>2 DEF Starts, FrameSet
  <2>4. stack[t][i].pc \notin Below(t)
    BY <2>3 DEF Below
  <2>5. i = Len(stack[t])
    BY <1>4, <2>2, <2>4 DEF StackOK
  <2>6. At(t, "start") /\ Top(t).for = q
    BY <2>2, <2>3, <2>5 DEF At, Top, Last
  <2>7. StartFor(t, q)
    BY <2>3, <2>6 DEF IInv, AskInv
  <2> QED BY <2>3, <2>6, <2>7 DEF StartFor
<1> QED BY <1>2, <1>5, <1>6, <1>7

LEMMA NotAsked ==
  ASSUME IInv, NEW p \in Thread,
         p = Main => ~(At(Main, "start") /\ Top(Main).for = Main),
         p # Main => ~At(p, "get") /\ ~At(p, "erase")
  PROVE  p \notin Carried(Asks, Starts)
BY AskedFor

(***************************************************************************)
(* p gets the stack r, and nobody waits for that.                           *)
(***************************************************************************)
Turn(p, r, c, d, w) ==
  /\ stack' = [stack EXCEPT ![p] = r]
  /\ Tame(p, stack[p], r, c, d, w)
  /\ Begun(p)' /\ (w # None => Begun(w)')
  /\ \A t \in Thread : Begun(t) => Begun(t)'
StackStep(p, r, w) ==
  /\ stack' = [stack EXCEPT ![p] = r]
  /\ Fine(p, r)
  /\ Values(r, PostTo) \subseteq Values(stack[p], PostTo) \cup ({w} \ {None})
  /\ Begun(p)' /\ (w # None => Begun(w)')
  /\ \A t \in Thread : Begun(t) => Begun(t)'
NoMoreAsked ==
  \A t \in Thread : \A m \in ToSet(tasks'[t]) \cup ToSet(batch'[t]) :
    m \in ToSet(tasks[t]) \cup ToSet(batch[t]) \/ m.kind \notin Asked

LEMMA TurnStep ==
  ASSUME NEW p, NEW r, NEW c, NEW d, NEW w, Turn(p, r, c, d, w)
  PROVE  StackStep(p, r, w) /\ (r = <<>> \/ Starts[Last(r)] = None)
BY DEF Turn, StackStep, Tame

LEMMA AskKept ==
  ASSUME IInv, QueueType', NEW p \in Thread, NEW r, NEW w, StackStep(p, r, w), NoMoreAsked,
         r = <<>> \/ Starts[Last(r)] = None,
         CarriedOnce(Asks, Starts)', Carried(Asks, Starts)' \subseteq Carried(Asks, Starts),
         p \notin Carried(Asks, Starts)'
  PROVE  AskInv'
<1>1. /\ stack'[p] = r
      /\ \A t \in Thread : t # p => stack'[t] = stack[t]
  BY DEF IInv, TypeOK, StackType, StackStep
<1>2. ASSUME NEW t \in Thread, NEW m \in ToSet(tasks'[t]) \cup ToSet(batch'[t])
      PROVE  Waits(t, m)'
  <2> SUFFICES ASSUME m.kind \in Asked PROVE t = Main /\ At(m.thread, m.kind)'
    BY DEF Waits
  <2>1. m \in ToSet(tasks[t]) \cup ToSet(batch[t])
    BY DEF NoMoreAsked
  <2>2. Waits(t, m)
    BY <2>1 DEF IInv, AskInv
  <2>3. tasks'[t] \in Seq(MessageSet) /\ batch'[t] \in Seq(MessageSet)
    BY DEF QueueType
  <2>4. PICK i : \/ i \in DOMAIN tasks'[t] /\ m = tasks'[t][i]
                 \/ i \in DOMAIN batch'[t] /\ m = batch'[t][i]
    BY DEF ToSet
  <2>5. m \in MessageSet
    BY <2>3, <2>4
  <2>6. Asks[m] = m.thread /\ m.thread \in Thread
    BY <2>5 DEF Asks, MessageSet
  <2>7. m.thread \in Content(Asks, Starts, <<"tasks", t>>)' \cup Content(Asks, Starts, <<"batch", t>>)'
    BY <2>4, <2>6 DEF Content, Values
  <2>8. m.thread \in Carried(Asks, Starts)'
    BY <2>7, Contents DEF Carried
  <2>9. m.thread # p
    BY <2>8
  <2>10. stack'[m.thread] = stack[m.thread]
    BY <1>1, <2>6, <2>9
  <2> QED BY <2>2, <2>10 DEF Waits, At, Top
<1>3. ASSUME NEW u \in Thread, NEW q \in Thread, At(u, "start")', Top(u)'.for = q
      PROVE  StartFor(u, q)'
  <2>0. StackOK(u, stack[u])
    BY DEF IInv, TypeOK, StackType
  <2>1. u # p
    <3> SUFFICES ASSUME u = p PROVE FALSE
      OBVIOUS
    <3>1. r # <<>> /\ Last(r).pc = "start" /\ Last(r).for = q
      BY <1>1, <1>3 DEF At, Top
    <3>2. r \in Seq(FrameSet) /\ Starts[Last(r)] = None
      BY <3>1 DEF StackStep, Fine, StackOK
    <3>3. Last(r) \in FrameSet
      BY <3>1, <3>2 DEF Last
    <3>4. Starts[Last(r)] = q
      BY <3>1, <3>3, FrameValues
    <3> QED BY <3>2, <3>4
  <2>2. stack'[u] = stack[u]
    BY <1>1, <2>1
  <2>3. At(u, "start") /\ Top(u).for = q
    BY <1>3, <2>2 DEF At, Top
  <2>4. StartFor(u, q)
    BY <2>3 DEF IInv, AskInv
  <2>5. u = Main /\ stack'[Main] = stack[Main]
    BY <2>2, <2>4 DEF StartFor
  <2>6. q # Main => At(q, "get")'
    <3> SUFFICES ASSUME q # Main PROVE At(q, "get")'
      OBVIOUS
    <3>1. stack[u] \in Seq(FrameSet) /\ stack[u] # <<>> /\ Last(stack[u]) = Top(u)
      BY <2>0, <2>3 DEF StackOK, At, Top
    <3>2. Top(u) \in FrameSet
      BY <3>1 DEF Last
    <3>3. Starts[Top(u)] = q
      BY <2>3, <3>2, FrameValues DEF At
    <3>4. Starts[Last(stack'[u])] \in Values(stack'[u], Starts) \cup {None}
      BY <2>2, <3>1, Popping
    <3>5. q \in Content(Asks, Starts, <<"stack", u>>)'
      BY <2>2, <3>1, <3>3, <3>4 DEF Content
    <3>6. q \in Carried(Asks, Starts)'
      BY <3>5, Contents DEF Carried
    <3>7. stack'[q] = stack[q]
      BY <1>1, <3>6
    <3> QED BY <2>4, <3>7 DEF StartFor, At, Top
  <2> QED BY <2>4, <2>5, <2>6 DEF StartFor
<1> QED BY <1>2, <1>3 DEF AskInv

LEMMA LifeTurn ==
  ASSUME IInv, NEW p \in Thread, NEW r, NEW w, StackStep(p, r, w)
  PROVE  StackType' /\ StackLife'
<1>1. /\ stack'[p] = r /\ stack' \in [Thread -> Seq(FrameSet)]
      /\ \A t \in Thread : t # p => stack'[t] = stack[t]
  BY DEF IInv, TypeOK, StackType, StackStep, Fine, StackOK
<1>2. StackType'
  <2>1. \A t \in Thread : StackOK(t, stack'[t])
    BY <1>1 DEF IInv, TypeOK, StackType, StackStep, Fine
  <2> QED BY <1>1, <2>1 DEF StackType, StackOK
<1>3. ASSUME NEW t \in Thread
      PROVE  (stack'[t] # <<>> => Begun(t)') /\ \A v \in Values(stack'[t], PostTo) : Begun(v)'
  <2>0. \A v \in Values(stack[t], PostTo) : v \in Thread
    <3>1. StackOK(t, stack[t])
      BY DEF IInv, TypeOK, StackType
    <3>2. \A i \in DOMAIN stack[t] : stack[t][i] \in FrameSet
      BY <3>1 DEF StackOK
    <3>3. \A f \in FrameSet : PostTo[f] \in Thread \cup {None}
      BY DEF PostTo, FrameSet
    <3> QED BY <3>2, <3>3 DEF Values
  <2>1. CASE t # p
    BY <1>1, <2>0, <2>1 DEF IInv, LifeInv, StackLife, StackStep
  <2>2. CASE t = p
    BY <1>1, <2>0, <2>2 DEF IInv, LifeInv, StackLife, StackStep
  <2> QED BY <2>1, <2>2
<1>4. StackLife'
  BY <1>3 DEF StackLife, Values, PostTo
<1> QED BY <1>2, <1>4
-----------------------------------------------------------------------------
(***************************************************************************)
(* The four kinds of step: a stack changes only; and a message is posted,   *)
(* or begun, or the queue is taken.                                         *)
(***************************************************************************)
Kept(c, d) ==
  /\ StackType' /\ QueueType' /\ AskInv' /\ StackLife' /\ CarriedOnce(JobOf, JobIn)'
  /\ Carried(JobOf, JobIn)' = Swapped(Carried(JobOf, JobIn), c, d)

LEMMA NoneCarried ==
  ASSUME NEW V, NEW U
  PROVE  None \notin Carried(V, U) /\ Swapped(Carried(V, U), None, None) = Carried(V, U)
<1>1. None \notin Carried(V, U)
  BY DEF Carried, Content, Values
<1> QED BY <1>1 DEF Swapped

LEMMA MessageValues ==
  ASSUME NEW m \in MessageSet
  PROVE  /\ JobOf[m] = m.job /\ (m.kind \notin {"job", "result"} => m.job = None)
         /\ m.kind \notin Asked => Asks[m] = None
         /\ m.kind \in Asked => Asks[m] = m.thread /\ m.thread \in Thread \ {Main}
BY DEF JobOf, Asks, MessageSet

LEMMA StartsKept ==
  ASSUME NEW p, NEW r, NEW c, NEW d, NEW w, Tame(p, stack[p], r, c, d, w)
  PROVE  /\ Once(r, Starts)
         /\ Values(r, Starts) = Swapped(Values(stack[p], Starts), None, None)
<1>1. None \notin Values(stack[p], Starts)
  BY DEF Values
<1> QED BY <1>1 DEF Tame, Fine, Swapped

LEMMA AppendedSet ==
  ASSUME NEW S, NEW q \in Seq(S), NEW m \in S
  PROVE  ToSet(Append(q, m)) = ToSet(q) \cup {m}
<1>1. /\ DOMAIN Append(q, m) = 1..(Len(q) + 1) /\ DOMAIN q = 1..Len(q) /\ Len(q) \in Nat
      /\ Append(q, m)[Len(q) + 1] = m
  OBVIOUS
<1>2. \A i \in 1..Len(q) : Append(q, m)[i] = q[i]
  OBVIOUS
<1> DEFINE r == Append(q, m)
<1> HIDE DEF r
<1>3. \A i \in 1..(Len(q) + 1) : i \in 1..Len(q) \/ i = Len(q) + 1
  BY <1>1
<1>4. Len(q) + 1 \in 1..(Len(q) + 1) /\ \A i \in 1..Len(q) : i \in 1..(Len(q) + 1)
  BY <1>1
<1>5. ToSet(r) = ToSet(q) \cup {m}
  BY <1>1, <1>2, <1>3, <1>4 DEF ToSet, r
<1> QED BY <1>5 DEF r

LEMMA TurnOnly ==
  ASSUME IInv, NEW p \in Thread, NEW r, NEW c, NEW d, NEW w, Turn(p, r, c, d, w),
         p \notin Carried(Asks, Starts), d = None \/ d = c \/ d \notin Carried(JobOf, JobIn),
         UNCHANGED <<tasks, batch>>
  PROVE  Kept(c, d)
<1>1. TypeOK /\ CarriedOnce(JobOf, JobIn) /\ CarriedOnce(Asks, Starts)
  BY DEF IInv, AskInv, JobInv
<1>2. /\ CarriedOnce(JobOf, JobIn)'
      /\ Carried(JobOf, JobIn)' = Swapped(Carried(JobOf, JobIn), c, d)
  <2>1. StackMoves(JobOf, JobIn, p, r, c, d)
    BY DEF StackMoves, Turn, Tame, Fine
  <2> QED BY <1>1, <2>1, StackCarries
<1>3. CarriedOnce(Asks, Starts)' /\ Carried(Asks, Starts)' = Swapped(Carried(Asks, Starts), None, None)
  <2>1. StackMoves(Asks, Starts, p, r, None, None)
    BY StartsKept DEF StackMoves, Turn
  <2> QED BY <1>1, <2>1, StackCarries
<1>4. NoMoreAsked /\ QueueType'
  BY <1>1 DEF NoMoreAsked, TypeOK, QueueType
<1>5. AskInv'
  BY <1>3, <1>4, TurnStep, AskKept, NoneCarried
<1> QED BY <1>2, <1>4, <1>5, TurnStep, LifeTurn DEF Kept

LEMMA TurnPost ==
  ASSUME IInv, NEW p \in Thread, NEW r, NEW c, NEW w, Turn(p, r, c, None, w),
         p \notin Carried(Asks, Starts),
         NEW t \in Thread, NEW m \in MessageSet, m.kind \notin Asked, m.job = c,
         Post(t, m), batch' = batch
  PROVE  Kept(None, None)
<1>1. TypeOK /\ CarriedOnce(JobOf, JobIn) /\ CarriedOnce(Asks, Starts)
  BY DEF IInv, AskInv, JobInv
<1>2. CarriedOnce(JobOf, JobIn)' /\ Carried(JobOf, JobIn)' = Swapped(Carried(JobOf, JobIn), c, c)
  <2>1. Values(r, JobIn) = Swapped(Values(stack[p], JobIn), c, None)
    BY DEF Turn, Tame
  <2>2. /\ c \in Values(stack[p], JobIn) \cup {None} /\ Once(r, JobIn) /\ JobOf[m] = c
        /\ stack' = [stack EXCEPT ![p] = r]
    BY MessageValues DEF Turn, Tame, Fine
  <2>3. PostMoves(JobOf, JobIn, p, r, c, c, t, m)
    BY <2>1, <2>2 DEF PostMoves
  <2> QED BY <1>1, <2>3, PostCarries
<1>3. CarriedOnce(Asks, Starts)' /\ Carried(Asks, Starts)' = Swapped(Carried(Asks, Starts), None, None)
  <2>1. Asks[m] = None /\ stack' = [stack EXCEPT ![p] = r]
    BY MessageValues DEF Turn
  <2>2. PostMoves(Asks, Starts, p, r, None, None, t, m)
    BY <2>1, StartsKept DEF PostMoves, Turn
  <2> QED BY <1>1, <2>2, PostCarries
<1>4. c \in Carried(JobOf, JobIn) \cup {None}
  BY StackCarried DEF Turn, Tame
<1>5. tasks[t] \in Seq(MessageSet) /\ tasks' = [tasks EXCEPT ![t] = Append(tasks[t], m)]
  BY <1>1 DEF TypeOK, QueueType, Post
<1>6. QueueType'
  BY <1>1, <1>5 DEF TypeOK, QueueType
<1>7. NoMoreAsked
  <2>1. \A u \in Thread : u # t => tasks'[u] = tasks[u]
    BY <1>1, <1>5 DEF TypeOK, QueueType
  <2>2. tasks'[t] = Append(tasks[t], m)
    BY <1>1, <1>5 DEF TypeOK, QueueType
  <2>3. ToSet(Append(tasks[t], m)) = ToSet(tasks[t]) \cup {m}
    BY <1>5, AppendedSet
  <2> QED BY <2>1, <2>2, <2>3 DEF NoMoreAsked
<1>8. AskInv'
  BY <1>3, <1>6, <1>7, TurnStep, AskKept, NoneCarried
<1>9. Swapped(Carried(JobOf, JobIn), c, c) = Carried(JobOf, JobIn)
  BY <1>4, NoneCarried DEF Swapped
<1> QED BY <1>2, <1>6, <1>8, <1>9, TurnStep, LifeTurn, NoneCarried DEF Kept

LEMMA TurnBatch ==
  ASSUME IInv, NEW p \in Thread, NEW r, NEW d, NEW w, Turn(p, r, None, d, w),
         NEW t \in Thread, batch[t] # <<>>, batch' = [batch EXCEPT ![t] = Tail(@)], tasks' = tasks,
         p = Asks[Head(batch[t])] \/ p \notin Carried(Asks, Starts),
         d = None \/ d = Head(batch[t]).job
  PROVE  Kept(Head(batch[t]).job, d)
<1>1. TypeOK /\ CarriedOnce(JobOf, JobIn) /\ CarriedOnce(Asks, Starts)
  BY DEF IInv, AskInv, JobInv
<1>2. batch[t] \in Seq(MessageSet)
  BY <1>1 DEF TypeOK, QueueType
<1>3. PICK m \in MessageSet : m = Head(batch[t])
  BY <1>2
<1>4. /\ CarriedOnce(JobOf, JobIn)'
      /\ Carried(JobOf, JobIn)' = Swapped(Carried(JobOf, JobIn), m.job, d)
  <2>1. JobOf[m] = m.job /\ JobOf[Head(batch[t])] = m.job
    BY <1>3, MessageValues
  <2>3. /\ Values(r, JobIn) = Swapped(Values(stack[p], JobIn), None, d)
        /\ Once(r, JobIn) /\ stack' = [stack EXCEPT ![p] = r]
    BY DEF Turn, Tame, Fine
  <2>4. BatchMoves(JobOf, JobIn, p, r, t, m.job, d)
    BY <1>3, <2>1, <2>3 DEF BatchMoves
  <2> QED BY <1>1, <2>4, BatchCarries
<1>5. CarriedOnce(Asks, Starts)' /\ Carried(Asks, Starts)' = Swapped(Carried(Asks, Starts), Asks[m], None)
  <2>1. /\ Values(r, Starts) = Swapped(Values(stack[p], Starts), None, None)
        /\ Once(r, Starts) /\ stack' = [stack EXCEPT ![p] = r]
    BY StartsKept DEF Turn, Tame
  <2>2. BatchMoves(Asks, Starts, p, r, t, Asks[m], None)
    BY <1>3, <2>1 DEF BatchMoves
  <2> QED BY <1>1, <2>2, BatchCarries
<1>6. p \notin Carried(Asks, Starts)' /\ Carried(Asks, Starts)' \subseteq Carried(Asks, Starts)
  BY <1>3, <1>5 DEF Swapped
<1>7. /\ batch'[t] = Tail(batch[t])
      /\ \A u \in Thread : u # t => batch'[u] = batch[u]
  BY <1>1 DEF TypeOK, QueueType
<1>8. QueueType'
  BY <1>1, <1>2, <1>7 DEF TypeOK, QueueType
<1>9. NoMoreAsked
  BY <1>2, <1>7, Taking DEF NoMoreAsked
<1>10. AskInv'
  BY <1>5, <1>6, <1>8, <1>9, TurnStep, AskKept
<1> QED BY <1>3, <1>4, <1>8, <1>10, TurnStep, LifeTurn DEF Kept

LEMMA TurnTake ==
  ASSUME IInv, NEW p \in Thread, NEW r, NEW w, Turn(p, r, None, None, w), p \notin Carried(Asks, Starts),
         batch[p] = <<>>, batch' = [batch EXCEPT ![p] = tasks[p]], tasks' = [tasks EXCEPT ![p] = <<>>]
  PROVE  Kept(None, None)
<1>1. TypeOK /\ CarriedOnce(JobOf, JobIn) /\ CarriedOnce(Asks, Starts)
  BY DEF IInv, AskInv, JobInv
<1>2. None \notin Values(stack[p], JobIn) /\ None \notin Carried(JobOf, JobIn)
  BY NoneCarried DEF Values
<1>3. CarriedOnce(JobOf, JobIn)' /\ Carried(JobOf, JobIn)' = Carried(JobOf, JobIn)
  <2>1. Values(r, JobIn) = Values(stack[p], JobIn) /\ Once(r, JobIn) /\ stack' = [stack EXCEPT ![p] = r]
    BY <1>2 DEF Turn, Tame, Fine, Swapped
  <2> QED BY <1>1, <2>1, QueueTaken
<1>4. CarriedOnce(Asks, Starts)' /\ Carried(Asks, Starts)' = Carried(Asks, Starts)
  <2>1. Values(r, Starts) = Values(stack[p], Starts) /\ Once(r, Starts) /\ stack' = [stack EXCEPT ![p] = r]
    BY DEF Turn, Tame, Fine
  <2> QED BY <1>1, <2>1, QueueTaken
<1>5. /\ batch'[p] = tasks[p] /\ tasks'[p] = <<>>
      /\ \A u \in Thread : u # p => batch'[u] = batch[u] /\ tasks'[u] = tasks[u]
  BY <1>1 DEF TypeOK, QueueType
<1>6. QueueType'
  BY <1>1, <1>5 DEF TypeOK, QueueType
<1>7. NoMoreAsked
  BY <1>5, Nothing DEF NoMoreAsked
<1>8. AskInv'
  BY <1>4, <1>6, <1>7, TurnStep, AskKept
<1> QED BY <1>2, <1>3, NoneCarried, <1>6, <1>8, TurnStep, LifeTurn DEF Kept

\* p asks Main for something.
LEMMA TurnAsk ==
  ASSUME IInv, NEW p \in Thread, p # Main, p \notin Carried(Asks, Starts),
         NEW r, NEW d, NEW w, Turn(p, r, None, d, w), d = None \/ d \notin Carried(JobOf, JobIn),
         NEW m \in MessageSet, m.kind \in Asked, m.thread = p, r # <<>>, Last(r).pc = m.kind,
         Post(Main, m), batch' = batch
  PROVE  Kept(None, d)
<1>1. TypeOK /\ CarriedOnce(JobOf, JobIn) /\ CarriedOnce(Asks, Starts) /\ Main \in Thread
  BY DEF IInv, AskInv, JobInv, Thread
<1>2. JobOf[m] = None /\ Asks[m] = p
  BY MessageValues DEF Asked
<1>3. CarriedOnce(JobOf, JobIn)' /\ Carried(JobOf, JobIn)' = Swapped(Carried(JobOf, JobIn), None, d)
  <2>1. /\ Values(r, JobIn) = Swapped(Values(stack[p], JobIn), None, d)
        /\ Once(r, JobIn) /\ stack' = [stack EXCEPT ![p] = r]
    BY DEF Turn, Tame, Fine
  <2>2. PostMoves(JobOf, JobIn, p, r, None, d, Main, m)
    BY <1>2, <2>1 DEF PostMoves
  <2> QED BY <1>1, <2>2, PostCarries
<1>4. CarriedOnce(Asks, Starts)' /\ Carried(Asks, Starts)' = Swapped(Carried(Asks, Starts), None, p)
  <2>1. None \notin Values(stack[p], Starts)
    BY DEF Values
  <2>2. Values(r, Starts) = Swapped(Values(stack[p], Starts), None, None) /\ Once(r, Starts) /\ stack' = [stack EXCEPT ![p] = r]
    BY <2>1, StartsKept DEF Turn, Tame, Fine
  <2>3. PostMoves(Asks, Starts, p, r, None, p, Main, m)
    BY <1>2, <2>2 DEF PostMoves
  <2> QED BY <1>1, <2>3, PostCarries
<1>5. tasks[Main] \in Seq(MessageSet) /\ tasks' = [tasks EXCEPT ![Main] = Append(tasks[Main], m)]
  BY <1>1 DEF TypeOK, QueueType, Post
<1>6. QueueType'
  BY <1>1, <1>5 DEF TypeOK, QueueType
<1>7. /\ ToSet(tasks'[Main]) = ToSet(tasks[Main]) \cup {m}
      /\ \A t \in Thread : t # Main => tasks'[t] = tasks[t]
  <2>1. tasks'[Main] = Append(tasks[Main], m)
    BY <1>1, <1>5 DEF TypeOK, QueueType
  <2>2. ToSet(Append(tasks[Main], m)) = ToSet(tasks[Main]) \cup {m}
    BY <1>5, AppendedSet
  <2> QED BY <1>1, <2>1, <2>2 DEF TypeOK, QueueType, Post
<1>8. stack'[p] = r /\ \A t \in Thread : t # p => stack'[t] = stack[t]
  BY <1>1 DEF TypeOK, StackType, Turn
<1>9. ASSUME NEW t \in Thread, NEW n \in ToSet(tasks'[t]) \cup ToSet(batch'[t])
      PROVE  Waits(t, n)'
  <2>1. CASE n = m /\ t = Main
    BY <1>8, <2>1 DEF Waits, At, Top
  <2>2. CASE n \in ToSet(tasks[t]) \cup ToSet(batch[t])
    <3> SUFFICES ASSUME n.kind \in Asked PROVE t = Main /\ At(n.thread, n.kind)'
      BY DEF Waits
    <3>1. Waits(t, n)
      BY <2>2 DEF IInv, AskInv
    <3>2. tasks[t] \in Seq(MessageSet) /\ batch[t] \in Seq(MessageSet)
      BY <1>1 DEF TypeOK, QueueType
    <3>3. PICK i : \/ i \in DOMAIN tasks[t] /\ n = tasks[t][i]
                   \/ i \in DOMAIN batch[t] /\ n = batch[t][i]
      BY <2>2 DEF ToSet
    <3>4. n \in MessageSet
      BY <3>2, <3>3
    <3>5. Asks[n] = n.thread /\ n.thread \in Thread \ {Main}
      BY <3>4, MessageValues
    <3>6. n.thread \in Content(Asks, Starts, <<"tasks", t>>) \cup Content(Asks, Starts, <<"batch", t>>)
      BY <3>3, <3>5 DEF Content, Values
    <3>7. n.thread # p
      BY <3>6, Contents DEF Carried
    <3> QED BY <1>8, <3>1, <3>5, <3>7 DEF Waits, At, Top
  <2> QED BY <1>7, <2>1, <2>2
<1>10. ASSUME NEW u \in Thread, NEW q \in Thread, At(u, "start")', Top(u)'.for = q
       PROVE  StartFor(u, q)'
  <2>1. u # p
    BY <1>8, <1>10 DEF At, Top, Asked
  <2>2. At(u, "start") /\ Top(u).for = q
    BY <1>8, <1>10, <2>1 DEF At, Top
  <2>3. StartFor(u, q)
    BY <2>2 DEF IInv, AskInv
  <2>4. u = Main
    BY <2>3 DEF StartFor
  <2>5. q # p
    <3>0. StackOK(u, stack[u])
      BY <1>1 DEF TypeOK, StackType
    <3>1. stack[u] \in Seq(FrameSet) /\ stack[u] # <<>> /\ Last(stack[u]) = Top(u)
      BY <2>2, <3>0 DEF StackOK, At, Top
    <3>2. Top(u) \in FrameSet
      BY <3>1 DEF Last
    <3>3. Starts[Top(u)] = q
      BY <2>2, <3>2, FrameValues DEF At
    <3>4. Starts[Last(stack[u])] \in Values(stack[u], Starts) \cup {None}
      BY <3>1, Popping
    <3>5. q \in Content(Asks, Starts, <<"stack", u>>)
      BY <3>1, <3>3, <3>4 DEF Content
    <3> QED BY <3>5, Contents DEF Carried
  <2>6. stack'[q] = stack[q] /\ stack'[Main] = stack[Main]
    BY <1>8, <2>1, <2>4, <2>5
  <2> QED BY <2>3, <2>6 DEF StartFor, At, Top
<1>11. AskInv'
  BY <1>4, <1>9, <1>10 DEF AskInv
<1> QED BY <1>3, <1>6, <1>11, TurnStep, LifeTurn DEF Kept
-----------------------------------------------------------------------------
(***************************************************************************)
(* Frames.                                                                  *)
(***************************************************************************)
LEMMA FrameIn ==
  ASSUME NEW pc \in Pcs, NEW t \in Thread \cup {None}, NEW j \in Job \cup {None},
         pc \in {"get", "post", "job"} <=> j # None,
         pc \in {"start", "flush"} \cup DestroyPc => t \in Worker,
         pc = "post" => t \in Worker \cup {None}
  PROVE  /\ Frame(pc, t, j) \in FrameSet
         /\ Frame(pc, t, j).pc = pc /\ Frame(pc, t, j).thread = t
         /\ Frame(pc, t, j).job = j /\ Frame(pc, t, j).for = None
BY DEF Frame, FrameSet

LEMMA Gone ==
  ASSUME TypeOK, NEW p \in Thread, stack[p] # <<>>, NEW pc, Top(p) \in FrameSet
  PROVE  Goto(p, pc) = [stack EXCEPT ![p] = OnTop(stack[p], [Top(p) EXCEPT !.pc = pc])]
BY DEF Goto, OnTop, Top, Last

LEMMA Answering ==
  ASSUME NEW s, NEW q, NEW w
  PROVE  Answered(s, q, w) = [s EXCEPT ![q] = OnTop(s[q], [Last(s[q]) EXCEPT !.pc = "post", !.thread = w])]
BY DEF Answered, OnTop, Last

LEMMA TwoPushed ==
  ASSUME NEW S, NEW s \in Seq(S), NEW f \in S, NEW g \in S
  PROVE  s \o <<f, g>> = Append(Append(s, f), g)
OBVIOUS

(***************************************************************************)
(* What does not change.                                                    *)
(***************************************************************************)
LEMMA JobsKept ==
  ASSUME JobInv, Kept(None, None), UNCHANGED jobVars
  PROVE  JobInv'
BY NoneCarried DEF JobInv, Kept, jobVars

LEMMA JobsBegin ==
  ASSUME TypeOK, JobInv, NEW j \in Job, NEW p \in Thread, Kept(None, j), caller[j] = None,
         caller' = [caller EXCEPT ![j] = p], UNCHANGED <<ended, dropped>>
  PROVE  JobInv'
<1>1. Carried(JobOf, JobIn)' = Carried(JobOf, JobIn) \cup {j}
  BY NoneCarried DEF Kept, Swapped
<1>2. j \notin ended \cup dropped
  BY DEF JobInv
<1>3. \A i \in Job : caller'[i] # None <=> caller[i] # None \/ i = j
  BY DEF TypeOK, PoolType, Thread
<1> QED BY <1>1, <1>2, <1>3 DEF JobInv, Kept

LEMMA JobsEnd ==
  ASSUME JobInv, NEW j \in Carried(JobOf, JobIn), Kept(j, None), caller' = caller,
         \/ ended' = ended \cup {j} /\ dropped' = dropped
         \/ dropped' = dropped \cup {j} /\ ended' = ended
  PROVE  JobInv'
<1>1. Carried(JobOf, JobIn)' = Carried(JobOf, JobIn) \ {j}
  BY DEF Kept, Swapped
<1> QED BY <1>1 DEF JobInv, Kept

\* tasks' and batch' hold something only where the thread may.
Filled ==
  \A t \in Thread : /\ tasks'[t] # <<>> => tasks[t] # <<>> \/ phase[t] = "open"
                    /\ batch'[t] # <<>> => batch[t] # <<>> \/ phase[t] \in {"open", "closing"}

LEMMA LifeKept ==
  ASSUME TypeOK, LifeInv, UNCHANGED <<phase, caller, workThreads>>, threads' \subseteq threads, Filled
  PROVE  QueueLife' /\ RefLife'
BY DEF LifeInv, QueueLife, RefLife, Begun, Filled

LEMMA BegunKept ==
  ASSUME UNCHANGED phase
  PROVE  \A t : Begun(t)' <=> Begun(t)
BY DEF Begun

LEMMA NothingFilled ==
  ASSUME UNCHANGED <<tasks, batch>>
  PROVE  Filled
BY DEF Filled

LEMMA PostFilled ==
  ASSUME IInv, NEW t \in Thread, NEW m, Post(t, m), batch' = batch, Accepts(t), Begun(t)
  PROVE  Filled
<1>1. phase[t] = "open"
  BY DEF Accepts, Begun
<1>2. \A u \in Thread : u # t => tasks'[u] = tasks[u]
  BY DEF Post, IInv, TypeOK, QueueType
<1> QED BY <1>1, <1>2 DEF Filled

LEMMA MainBegun ==
  ASSUME IInv
  PROVE  Begun(Main) /\ Main \in Thread /\ Main \notin Worker
BY DEF IInv, LifeInv, QueueLife, Begun, Thread

LEMMA AtTop ==
  ASSUME IInv, NEW p \in Thread, stack[p] # <<>>
  PROVE  /\ Fine(p, stack[p]) /\ Begun(p) /\ Top(p) \in FrameSet /\ Top(p) = Last(stack[p])
         /\ Starts[Top(p)] # None => At(p, "start")
         /\ JobIn[Top(p)] = Top(p).job
         /\ JobIn[Top(p)] \in Carried(JobOf, JobIn) \cup {None}
         /\ PostTo[Top(p)] # None => Begun(PostTo[Top(p)])
<1>1. Fine(p, stack[p]) /\ stack[p] \in Seq(FrameSet)
  BY StackCarried DEF Fine, StackOK
<1>2. Top(p) \in FrameSet /\ Top(p) = Last(stack[p])
  BY <1>1 DEF Top, Last
<1>3. Begun(p)
  BY DEF IInv, LifeInv, StackLife
<1>4. /\ JobIn[Last(stack[p])] \in Values(stack[p], JobIn) \cup {None}
      /\ PostTo[Last(stack[p])] \in Values(stack[p], PostTo) \cup {None}
  BY <1>1, Popping
<1>5. PostTo[Top(p)] # None => Begun(PostTo[Top(p)])
  BY <1>2, <1>4 DEF IInv, LifeInv, StackLife
<1>6. JobIn[Top(p)] \in Carried(JobOf, JobIn) \cup {None}
  BY <1>2, <1>4, StackCarried
<1> QED BY <1>1, <1>2, <1>3, <1>5, <1>6, FrameValues DEF At
-----------------------------------------------------------------------------
(***************************************************************************)
(* Stacks in the middle of a step: a callback, or a call, goes on.          *)
(***************************************************************************)
Idle(p) == stack[p] = <<>> \/ Top(p).pc \in Below(p) \ {"get", "erase"}

LEMMA IdleFree ==
  ASSUME IInv, NEW p \in Thread, Idle(p)
  PROVE  p \notin Carried(Asks, Starts)
BY NotAsked DEF Idle, At, Below

\* A frame is pushed.
LEMMA PushTurn ==
  ASSUME IInv, NEW p \in Thread, stack[p] = <<>> \/ Top(p).pc \in Below(p), Begun(p), UNCHANGED phase,
         NEW f \in FrameSet, f.pc \in Sync => p = Main, Starts[f] = None,
         f.job \notin Values(stack[p], JobIn), PostTo[f] # None => Begun(PostTo[f]), stack' = Push(p, f)
  PROVE  Turn(p, Append(stack[p], f), None, f.job, PostTo[f])
<1>1. Fine(p, stack[p])
  BY StackCarried
<1>2. stack[p] = <<>> \/ Last(stack[p]).pc \in Below(p)
  BY DEF Top
<1>3. Tame(p, stack[p], Append(stack[p], f), None, f.job, PostTo[f])
  BY <1>1, <1>2, TamePush, FrameValues
<1>4. stack' = [stack EXCEPT ![p] = Append(stack[p], f)]
  BY DEF Push
<1> QED BY <1>3, <1>4, BegunKept DEF Turn

\* The top frame is popped.
LEMMA PopTurn ==
  ASSUME IInv, NEW p \in Thread, stack[p] # <<>>, Top(p).pc # "start" \/ Top(p).for = None,
         \A t \in Thread : Begun(t) => Begun(t)', stack' = Pop(p)
  PROVE  Turn(p, Front(stack[p]), Top(p).job, None, None)
<1>1. Fine(p, stack[p]) /\ Begun(p) /\ Top(p) \in FrameSet /\ Top(p) = Last(stack[p]) /\ JobIn[Top(p)] = Top(p).job
  BY AtTop
<1>2. Starts[Last(stack[p])] = None
  BY <1>1, FrameValues
<1>3. Tame(p, stack[p], Front(stack[p]), Top(p).job, None, None)
  BY <1>1, <1>2, TamePop
<1>4. stack' = [stack EXCEPT ![p] = Front(stack[p])]
  BY DEF Pop
<1> QED BY <1>1, <1>3, <1>4 DEF Turn

\* The top frame goes on.
LEMMA GotoTurn ==
  ASSUME IInv, NEW p \in Thread, stack[p] # <<>>, Top(p).pc # "start",
         NEW pc \in Pcs \ {"start", "get", "job"}, pc \in Sync => p = Main,
         pc = "post" <=> Top(p).pc \in {"get", "post", "job"},
         pc \in {"flush"} \cup DestroyPc => Top(p).thread \in Worker,
         pc = "post" => Top(p).thread = None,
         \A t \in Thread : Begun(t) => Begun(t)', stack' = Goto(p, pc)
  PROVE  Turn(p, OnTop(stack[p], [Top(p) EXCEPT !.pc = pc]), None, None, None)
<1>1. Fine(p, stack[p]) /\ Begun(p) /\ Top(p) \in FrameSet /\ Top(p) = Last(stack[p])
  BY AtTop
<1>2. Top(p).thread \in Thread \cup {None} /\ Top(p).job \in Job \cup {None}
  BY <1>1 DEF FrameSet
<1> DEFINE f == [Top(p) EXCEPT !.pc = pc]
<1>3. f \in FrameSet /\ f.pc = pc /\ f.job = Top(p).job /\ f.thread = Top(p).thread
  BY <1>1, <1>2 DEF FrameSet
<1> HIDE DEF f
<1>4. Starts[Last(stack[p])] = None /\ Starts[f] = None /\ JobIn[f] = JobIn[Last(stack[p])] /\ PostTo[f] = None
  BY <1>1, <1>3, FrameValues
<1>5. Tame(p, stack[p], OnTop(stack[p], f), None, None, None)
  BY <1>1, <1>3, <1>4, TameChange
<1>6. stack' = [stack EXCEPT ![p] = OnTop(stack[p], f)]
  BY <1>1, Gone DEF f, IInv
<1> QED BY <1>1, <1>5, <1>6 DEF Turn, f

(***************************************************************************)
(* thread_->invoke(f, true).                                                *)
(***************************************************************************)
LEMMA Invoked ==
  ASSUME IInv, NEW p \in Thread, stack[p] # <<>>, Top(p).pc \in {"body", "job", "quit"},
         NEW pc \in Asked, NEW t \in Thread \cup {None}, NEW j \in Job \cup {None}, NEW refused,
         pc = "get" => refused = "post" /\ t = None /\ j \in Job,
         pc = "erase" => refused = "unlist" /\ t \in Worker /\ j = None,
         j \notin Carried(JobOf, JobIn), Invoke(p, stack, Frame(pc, t, j), refused),
         UNCHANGED <<phase, batch>>
  PROVE  Kept(None, j) /\ Filled
<1> DEFINE f == Frame(pc, t, j)
           g == [f EXCEPT !.pc = refused]
<1>1. /\ f \in FrameSet /\ f.pc = pc /\ f.job = j /\ f.thread = t
      /\ pc \in Pcs /\ pc \notin Sync
  BY FrameIn DEF Asked, Pcs, OpPc, AskPc, DestroyPc, Sync
<1>2. g \in FrameSet /\ g.pc = refused /\ g.job = j /\ g.thread = t /\ refused \in {"post", "unlist"}
  <2>1. refused \in Pcs /\ refused # "start"
    BY DEF Asked, Pcs, OpPc, AskPc, DestroyPc
  <2> QED BY <1>1, <2>1 DEF Asked, DestroyPc, FrameSet
<1>3. Starts[f] = None /\ PostTo[f] = None /\ Starts[g] = None /\ PostTo[g] = None
  BY <1>1, <1>2, FrameValues DEF Asked
<1>4. Begun(p) /\ p \notin Carried(Asks, Starts) /\ Top(p).pc \in Below(p)
  BY AtTop, IdleFree DEF Idle, Below
<1>5. j \notin Values(stack[p], JobIn) /\ JobIn[f] = j /\ JobIn[g] = j /\ Fine(p, stack[p])
  BY <1>1, <1>2, StackCarried, FrameValues
<1>6. Main \in Thread /\ Begun(Main)
  BY MainBegun
<1> HIDE DEF f, g
<1>7. CASE p = Main /\ stack' = [stack EXCEPT ![p] = @ \o <<f, Frame("sync1", None, None)>>] /\ UNCHANGED tasks
  <2> DEFINE s == Append(stack[p], f)
             h == Frame("sync1", None, None)
             r == Append(s, h)
  <2>1. Tame(p, stack[p], s, None, j, None)
    BY <1>1, <1>3, <1>4, <1>5, TamePush DEF Top
  <2>2. h \in FrameSet /\ h.pc = "sync1" /\ h.job = None
    BY FrameIn DEF Pcs, DestroyPc
  <2>3. Starts[h] = None /\ PostTo[h] = None /\ JobIn[h] = None
    BY <2>2, FrameValues
  <2>4. Fine(p, s) /\ Last(s).pc \in Below(p)
    <3>1. stack[p] \in Seq(FrameSet)
      BY <1>5 DEF Fine, StackOK
    <3>2. Last(s) = f
      BY <1>1, <3>1, Appending
    <3> QED BY <1>1, <1>7, <2>1, <3>2 DEF Tame, Below, Asked
  <2> HIDE DEF s, h
  <2>5. Tame(p, s, r, None, None, None)
    BY <1>7, <2>2, <2>3, <2>4, NoneValue, TamePush
  <2>6. Tame(p, stack[p], r, None, j, None)
    BY <2>1, <2>5, TameTwice
  <2>7. stack' = [stack EXCEPT ![p] = r]
    <3>1. stack[p] \in Seq(FrameSet)
      BY <1>5 DEF Fine, StackOK
    <3>2. stack[p] \o <<f, h>> = r
      BY <1>1, <2>2, <3>1, TwoPushed DEF s
    <3> QED BY <1>7, <3>2 DEF h
  <2> HIDE DEF r
  <2>8. Turn(p, r, None, j, None)
    BY <1>4, <2>6, <2>7, BegunKept DEF Turn
  <2> QED BY <1>4, <1>7, <2>8, TurnOnly, NothingFilled
<1>8. CASE p # Main /\ Accepts(Main) /\ stack' = [stack EXCEPT ![p] = Append(@, f)] /\ Post(Main, Message(f.pc, p, None))
  <2> DEFINE m == Message(f.pc, p, None)
  <2>1. Turn(p, Append(stack[p], f), None, j, None)
    BY <1>1, <1>3, <1>4, <1>5, <1>8, PushTurn, ZenonT(60) DEF Push
  <2>2. m \in MessageSet /\ m.kind = pc /\ m.thread = p
    BY <1>1, <1>8 DEF Message, MessageSet, Asked, Kinds
  <2>3. Append(stack[p], f) # <<>> /\ Last(Append(stack[p], f)) = f
    <3>1. stack[p] \in Seq(FrameSet)
      BY <1>5 DEF Fine, StackOK
    <3> QED BY <1>1, <3>1, Appending
  <2> HIDE DEF m
  <2>4. Kept(None, j)
    <3>1. m.kind \in Asked /\ Post(Main, m) /\ batch' = batch /\ Last(Append(stack[p], f)).pc = m.kind
      BY <1>1, <1>8, <2>2, <2>3 DEF m
    <3> QED BY <1>4, <1>8, <2>1, <2>2, <2>3, <3>1, TurnAsk
  <2>5. Filled
    BY <1>6, <1>8, PostFilled DEF m
  <2> QED BY <2>4, <2>5
<1>9. CASE stack' = [stack EXCEPT ![p] = Append(@, g)] /\ UNCHANGED tasks
  <2>1. Turn(p, Append(stack[p], g), None, j, None)
    <3>1. g.pc \notin Sync
      BY <1>2 DEF Sync
    <3>2. stack' = Push(p, g)
      BY <1>9 DEF Push
    <3> QED BY <1>2, <1>3, <1>4, <1>5, <3>1, <3>2, PushTurn
  <2> QED BY <1>4, <1>9, <2>1, TurnOnly, NothingFilled
<1> QED BY <1>7, <1>8, <1>9 DEF Invoke, f, g
-----------------------------------------------------------------------------
(***************************************************************************)
(* The steps.                                                               *)
(***************************************************************************)
LEMMA Steady ==
  ASSUME IInv, Kept(None, None), Filled, UNCHANGED <<phase, workThreads, jobVars>>, threads' \subseteq threads,
         PoolType'
  PROVE  IInv'
<1>1. JobInv'
  BY JobsKept DEF IInv
<1>2. QueueLife' /\ RefLife'
  BY LifeKept DEF IInv, jobVars
<1> QED BY <1>1, <1>2 DEF IInv, Kept, TypeOK, LifeInv

LEMMA PoolSame ==
  ASSUME IInv, UNCHANGED <<lifeVars, poolVars, jobVars>>, calls' \in Nat, callbacks' \in Nat
  PROVE  PoolType'
BY DEF IInv, TypeOK, PoolType, lifeVars, poolVars, jobVars

LEMMA Counted ==
  ASSUME IInv
  PROVE  calls \in Nat /\ callbacks \in Nat /\ PoolType
BY DEF IInv, TypeOK, PoolType

LEMMA AsyncStep ==
  ASSUME IInv, NEW p \in Thread, NEW j \in Job, Async(p, j)
  PROVE  IInv'
<1>1. stack[p] # <<>> /\ Top(p).pc \in {"body", "job", "quit"} /\ calls' = calls + 1 /\ caller[j] = None
  BY DEF Async, Call
<1>2. j \notin Carried(JobOf, JobIn)
  BY <1>1 DEF IInv, JobInv
<1>3. Kept(None, j) /\ Filled
  <2>1. Invoke(p, stack, Frame("get", None, j), "post") /\ UNCHANGED <<phase, batch>>
    BY DEF Async, lifeVars
  <2> QED BY <1>1, <1>2, <2>1, Invoked DEF Asked
<1>4. Begun(p)
  BY <1>1, AtTop
<1>5. JobInv'
  BY <1>1, <1>3, JobsBegin DEF IInv, Async
<1>6. PoolType'
  BY <1>1 DEF IInv, TypeOK, PoolType, Async, lifeVars, poolVars
<1>7. QueueLife' /\ RefLife'
  BY <1>3, <1>4 DEF Async, IInv, LifeInv, QueueLife, RefLife, Filled, Begun, lifeVars, poolVars, TypeOK, PoolType
<1> QED BY <1>3, <1>5, <1>6, <1>7 DEF IInv, Kept, TypeOK, LifeInv

LEMMA AsyncOnStep ==
  ASSUME IInv, NEW p \in Thread, NEW w \in Worker, NEW j \in Job, AsyncOn(p, w, j)
  PROVE  IInv'
<1>1. /\ stack[p] # <<>> /\ Top(p).pc \in {"body", "job"} /\ calls' = calls + 1 /\ caller[j] = None
      /\ w \in threads /\ phase[w] # "made"
  BY DEF AsyncOn, Call, Known
<1>2. j \notin Carried(JobOf, JobIn)
  BY <1>1 DEF IInv, JobInv
<1>3. Begun(p) /\ p \notin Carried(Asks, Starts) /\ Top(p).pc \in Below(p) /\ UNCHANGED <<phase, tasks, batch>>
  BY <1>1, AtTop, IdleFree DEF Idle, Below, AsyncOn, lifeVars
<1>4. Begun(w) /\ w # None
  BY <1>1 DEF IInv, LifeInv, RefLife, Begun, Thread
<1> DEFINE f == Frame("post", w, j)
<1>5. f \in FrameSet /\ f.pc = "post" /\ f.thread = w /\ f.job = j
  BY FrameIn DEF Pcs, OpPc, AskPc, DestroyPc, Thread
<1>6. Starts[f] = None /\ PostTo[f] = w /\ f.pc \notin Sync
  BY <1>5, FrameValues DEF Sync
<1>7. stack' = Push(p, f)
  BY DEF AsyncOn
<1> HIDE DEF f
<1>8. Kept(None, j)
  <2>1. f.job \notin Values(stack[p], JobIn)
    BY <1>2, <1>5, StackCarried
  <2>2. Turn(p, Append(stack[p], f), None, j, w)
    BY <1>3, <1>4, <1>5, <1>6, <1>7, <2>1, PushTurn
  <2> QED BY <1>2, <1>3, <2>2, TurnOnly
<1>9. JobInv'
  BY <1>1, <1>8, JobsBegin DEF IInv, AsyncOn
<1>10. PoolType'
  BY <1>1 DEF IInv, TypeOK, PoolType, AsyncOn, lifeVars, poolVars
<1>11. QueueLife' /\ RefLife'
  BY <1>3 DEF AsyncOn, IInv, LifeInv, QueueLife, RefLife, Begun, lifeVars, poolVars, TypeOK, PoolType
<1> QED BY <1>8, <1>9, <1>10, <1>11 DEF IInv, Kept, TypeOK, LifeInv

LEMMA DestroyStep ==
  ASSUME IInv, NEW p \in Thread, NEW w \in Worker, Destroy(p, w)
  PROVE  IInv'
<1>1. /\ stack[p] # <<>> /\ Top(p).pc \in {"body", "job", "quit"} /\ calls' = calls + 1
      /\ UNCHANGED <<lifeVars, batch, poolVars, jobVars, callbacks>>
      /\ Invoke(p, stack, Frame("erase", w, None), "unlist")
  BY DEF Destroy, Call
<1>2. Kept(None, None) /\ Filled
  BY <1>1, Invoked, NoneCarried DEF Asked, lifeVars, Thread
<1>3. PoolType'
  BY <1>1, PoolSame, Counted
<1> QED BY <1>1, <1>2, <1>3, Steady DEF lifeVars, poolVars

LEMMA QuitStep ==
  ASSUME IInv, NEW p \in Thread, Quit(p)
  PROVE  IInv'
<1>1. /\ stack[p] # <<>> /\ Top(p).pc \in {"body", "job"} /\ calls' = calls + 1
      /\ UNCHANGED <<lifeVars, tasks, batch, poolVars, jobVars, callbacks>>
      /\ stack' = Push(p, Frame("quit", None, None))
  BY DEF Quit, Call
<1> DEFINE f == Frame("quit", None, None)
<1>2. f \in FrameSet /\ f.pc = "quit" /\ f.job = None
  BY FrameIn DEF Pcs, OpPc, AskPc, DestroyPc
<1>3. Starts[f] = None /\ PostTo[f] = None /\ f.pc \notin Sync /\ f.job \notin Values(stack[p], JobIn)
  BY <1>2, FrameValues, NoneValue DEF Sync
<1>4. Begun(p) /\ p \notin Carried(Asks, Starts) /\ Top(p).pc \in Below(p) /\ UNCHANGED <<phase, tasks, batch>>
  BY <1>1, AtTop, IdleFree DEF Idle, Below, lifeVars
<1> HIDE DEF f
<1>5. Kept(None, None)
  <2>1. stack' = Push(p, f)
    BY <1>1 DEF f
  <2>2. Turn(p, Append(stack[p], f), None, None, None)
    BY <1>2, <1>3, <1>4, <2>1, PushTurn
  <2> QED BY <1>4, <2>2, TurnOnly
<1>6. PoolType'
  BY <1>1, PoolSame, Counted
<1> QED BY <1>1, <1>4, <1>5, <1>6, Steady, NothingFilled DEF poolVars

LEMMA ExitStep ==
  ASSUME IInv, NEW p \in Thread, Exit(p)
  PROVE  IInv'
<1>1. /\ UNCHANGED <<phase, tasks, batch, stack, poolVars, jobVars, callbacks>> /\ calls' = calls + 1
      /\ told' = [told EXCEPT ![Main] = TRUE]
  BY DEF Exit, Call
<1>2. PoolType'
  BY <1>1, MainBegun DEF IInv, TypeOK, PoolType, poolVars, jobVars
<1>3. StackType' /\ QueueType'
  BY <1>1 DEF IInv, TypeOK, StackType, QueueType
<1>4. AskInv'
  BY <1>1 DEF IInv, AskInv, Waits, StartFor, At, Top, CarriedOnce, Content
<1>5. JobInv'
  BY <1>1 DEF IInv, JobInv, CarriedOnce, Content, Carried, jobVars
<1>6. LifeInv'
  BY <1>1 DEF IInv, LifeInv, QueueLife, StackLife, RefLife, Begun, poolVars, jobVars
<1> QED BY <1>2, <1>3, <1>4, <1>5, <1>6 DEF IInv, TypeOK
-----------------------------------------------------------------------------
LEMMA PostJobStep ==
  ASSUME IInv, NEW p \in Thread, PostJob(p)
  PROVE  IInv'
<1> DEFINE w == Top(p).thread
           j == Top(p).job
<1>1. /\ stack[p] # <<>> /\ Top(p).pc = "post" /\ w # None /\ stack' = Pop(p)
      /\ UNCHANGED <<lifeVars, batch, poolVars, caller, ended, bounds>>
  BY DEF PostJob, At
<1>2. Top(p) \in FrameSet /\ PostTo[Top(p)] = w /\ JobIn[Top(p)] = j /\ Begun(p)
  BY <1>1, AtTop, FrameValues
<1>3. w \in Worker /\ w \in Thread /\ j \in Job /\ j # None /\ Begun(w)
  BY <1>1, <1>2, AtTop DEF FrameSet, Thread
<1>4. p \notin Carried(Asks, Starts) /\ j \in Carried(JobOf, JobIn)
  BY <1>1, <1>2, <1>3, AtTop, NotAsked DEF At
<1> HIDE DEF w, j
<1>5. Turn(p, Front(stack[p]), j, None, None)
  BY <1>1, PopTurn, BegunKept DEF lifeVars, j
<1>6. PoolType'
  BY <1>1, <1>3 DEF PostJob, IInv, TypeOK, PoolType, lifeVars, poolVars, bounds, j
<1>7. CASE Accepts(w) /\ Post(w, Message("job", None, j)) /\ UNCHANGED dropped
  <2> DEFINE m == Message("job", None, j)
  <2>1. m \in MessageSet /\ m.kind \notin Asked /\ m.job = j
    BY <1>3 DEF Message, MessageSet, Kinds, Asked
  <2> HIDE DEF m
  <2>2. Kept(None, None)
    BY <1>1, <1>3, <1>4, <1>5, <1>7, <2>1, TurnPost DEF m
  <2>3. Filled
    BY <1>1, <1>3, <1>7, PostFilled
  <2> QED BY <1>1, <1>6, <1>7, <2>2, <2>3, Steady DEF lifeVars, poolVars, jobVars
<1>8. CASE dropped' = dropped \cup {j} /\ UNCHANGED tasks
  <2>1. Kept(j, None)
    BY <1>1, <1>4, <1>5, <1>8, TurnOnly
  <2>2. JobInv'
    BY <1>1, <1>4, <1>8, <2>1, JobsEnd DEF IInv
  <2>3. QueueLife' /\ RefLife'
    BY <1>1, <1>8, LifeKept, NothingFilled DEF IInv, lifeVars, poolVars
  <2> QED BY <1>6, <2>1, <2>2, <2>3 DEF IInv, Kept, TypeOK, LifeInv
<1> QED BY <1>7, <1>8 DEF PostJob, w, j

LEMMA JobReturnsStep ==
  ASSUME IInv, NEW p \in Thread, JobReturns(p)
  PROVE  IInv'
<1> DEFINE j == Top(p).job
           t == caller[j]
<1>1. /\ stack[p] # <<>> /\ Top(p).pc = "job" /\ stack' = Pop(p)
      /\ UNCHANGED <<lifeVars, batch, poolVars, caller, ended, bounds>>
  BY DEF JobReturns, At
<1>2. Top(p) \in FrameSet /\ JobIn[Top(p)] = j /\ Begun(p)
  BY <1>1, AtTop
<1>3. j \in Job /\ j # None
  BY <1>1, <1>2 DEF FrameSet
<1>4. p \notin Carried(Asks, Starts) /\ j \in Carried(JobOf, JobIn)
  BY <1>1, <1>2, <1>3, AtTop, NotAsked DEF At
<1>5. t \in Thread /\ Begun(t)
  <2>1. t # None
    BY <1>3, <1>4 DEF IInv, JobInv
  <2> QED BY <1>3, <2>1 DEF IInv, LifeInv, RefLife, TypeOK, PoolType
<1> HIDE DEF t, j
<1>6. Turn(p, Front(stack[p]), j, None, None)
  BY <1>1, PopTurn, BegunKept DEF lifeVars, j
<1>7. PoolType'
  BY <1>1, <1>3 DEF JobReturns, IInv, TypeOK, PoolType, lifeVars, poolVars, bounds, j
<1>8. CASE Accepts(t) /\ Post(t, Message("result", None, j)) /\ UNCHANGED dropped
  <2> DEFINE m == Message("result", None, j)
  <2>1. m \in MessageSet /\ m.kind \notin Asked /\ m.job = j
    BY <1>3 DEF Message, MessageSet, Kinds, Asked
  <2> HIDE DEF m
  <2>2. Kept(None, None)
    BY <1>1, <1>4, <1>5, <1>6, <1>8, <2>1, TurnPost DEF m
  <2>3. Filled
    BY <1>1, <1>5, <1>8, PostFilled
  <2> QED BY <1>1, <1>7, <1>8, <2>2, <2>3, Steady DEF lifeVars, poolVars, jobVars
<1>9. CASE dropped' = dropped \cup {j} /\ UNCHANGED tasks
  <2>1. Kept(j, None)
    BY <1>1, <1>4, <1>6, <1>9, TurnOnly
  <2>2. JobInv'
    BY <1>1, <1>4, <1>9, <2>1, JobsEnd DEF IInv
  <2>3. QueueLife' /\ RefLife'
    BY <1>1, <1>9, LifeKept, NothingFilled DEF IInv, lifeVars, poolVars
  <2> QED BY <1>7, <2>1, <2>2, <2>3 DEF IInv, Kept, TypeOK, LifeInv
<1> QED BY <1>8, <1>9 DEF JobReturns, t, j

\* A frame goes on, and no queue changes.
LEMMA GoneOn ==
  ASSUME IInv, NEW p \in Thread, stack[p] # <<>>, Top(p).pc \notin Asked \cup {"start"} \/ p = Main,
         Top(p).pc # "start", Top(p).thread \in Worker,
         NEW pc \in DestroyPc \cup {"flush"}, Top(p).pc \in DestroyPc,
         stack' = Goto(p, pc), UNCHANGED <<phase, tasks, batch, jobVars, bounds>>,
         PoolType', RefLife'
  PROVE  IInv'
<1>1. Turn(p, OnTop(stack[p], [Top(p) EXCEPT !.pc = pc]), None, None, None)
  <2>1. pc \in Pcs \ {"start", "get", "job", "post"} /\ pc \notin Sync /\ Top(p).pc \notin {"get", "post", "job"}
    BY DEF Pcs, OpPc, AskPc, DestroyPc, Sync
  <2> QED BY <2>1, GotoTurn, BegunKept
<1>2. p \notin Carried(Asks, Starts)
  BY NotAsked DEF At, Asked
<1>3. Kept(None, None)
  BY <1>1, <1>2, TurnOnly
<1>4. JobInv'
  BY <1>3, JobsKept DEF IInv
<1>5. QueueLife'
  BY DEF IInv, LifeInv, QueueLife
<1> QED BY <1>3, <1>4, <1>5 DEF IInv, Kept, TypeOK, LifeInv

LEMMA UnlistStep ==
  ASSUME IInv, NEW p \in Thread, Unlist(p)
  PROVE  IInv'
<1>1. /\ stack[p] # <<>> /\ Top(p).pc = "unlist" /\ stack' = Goto(p, "tell")
      /\ threads' \subseteq threads
      /\ UNCHANGED <<lifeVars, tasks, batch, workThreads, gone, jobVars, bounds>>
  BY DEF Unlist, At
<1>2. Top(p).thread \in Worker
  BY <1>1, AtTop DEF FrameSet, DestroyPc
<1>3. PoolType'
  BY <1>1 DEF IInv, TypeOK, PoolType, lifeVars, jobVars, bounds
<1>4. RefLife'
  BY <1>1 DEF IInv, LifeInv, RefLife, Begun, lifeVars, jobVars
<1> QED BY <1>1, <1>2, <1>3, <1>4, GoneOn DEF lifeVars, DestroyPc, Asked

LEMMA TellStep ==
  ASSUME IInv, NEW p \in Thread, Tell(p)
  PROVE  IInv'
<1>1. /\ stack[p] # <<>> /\ Top(p).pc = "tell" /\ stack' = Goto(p, "hand")
      /\ UNCHANGED <<phase, tasks, batch, poolVars, jobVars, bounds>>
  BY DEF Tell, At
<1>2. Top(p).thread \in Worker
  BY <1>1, AtTop DEF FrameSet, DestroyPc
<1>3. PoolType'
  BY <1>1, <1>2 DEF Tell, IInv, TypeOK, PoolType, poolVars, jobVars, bounds, Thread
<1>4. RefLife'
  BY <1>1 DEF IInv, LifeInv, RefLife, Begun, poolVars, jobVars
<1> QED BY <1>1, <1>2, <1>3, <1>4, GoneOn DEF DestroyPc, Asked

LEMMA WithoutIn ==
  ASSUME workThreads \in Seq(Worker), NEW w
  PROVE  Without(w) \in Seq(Worker) /\ ToSet(Without(w)) \subseteq ToSet(workThreads)
<1>1. CASE w \notin ToSet(workThreads)
  BY <1>1 DEF Without
<1>2. CASE w \in ToSet(workThreads)
  <2> DEFINE q == workThreads
             k == CHOOSE i \in DOMAIN q : q[i] = w
             r == RemoveAt(q, k)
  <2>1. k \in DOMAIN q /\ DOMAIN q = 1..Len(q) /\ Len(q) \in Nat
    BY <1>2 DEF ToSet
  <2> HIDE DEF k
  <2>2. r = SubSeq(q, 1, k - 1) \o SubSeq(q, k + 1, Len(q))
    BY DEF RemoveAt
  <2> DEFINE a == SubSeq(q, 1, k - 1)
             b == SubSeq(q, k + 1, Len(q))
  <2>3. a \in Seq(Worker) /\ b \in Seq(Worker)
    BY <2>1, SubSeqProperties
  <2>4. ToSet(a) \subseteq ToSet(q) /\ ToSet(b) \subseteq ToSet(q)
    BY <2>1, SubSeqProperties DEF ToSet
  <2> HIDE DEF a, b
  <2>5. r \in Seq(Worker) /\ ToSet(r) \subseteq ToSet(a) \cup ToSet(b)
    <3>1. r = a \o b
      BY <2>2 DEF a, b
    <3> HIDE DEF r
    <3>2. r \in Seq(Worker) /\ DOMAIN r = 1..(Len(a) + Len(b)) /\ Len(a) \in Nat /\ Len(b) \in Nat
          /\ DOMAIN a = 1..Len(a) /\ DOMAIN b = 1..Len(b)
      BY <2>3, <3>1
    <3>3. \A i \in DOMAIN r : r[i] = IF i <= Len(a) THEN a[i] ELSE b[i - Len(a)]
      BY <2>3, <3>1, <3>2
    <3>4. \A i \in DOMAIN r : IF i <= Len(a) THEN i \in DOMAIN a ELSE i - Len(a) \in DOMAIN b
      BY <3>2
    <3> QED BY <3>2, <3>3, <3>4 DEF ToSet
  <2> QED BY <1>2, <2>4, <2>5 DEF Without, k
<1> QED BY <1>1, <1>2

LEMMA EraseOwnStep ==
  ASSUME IInv, EraseOwn
  PROVE  IInv'
<1>1. /\ stack[Main] # <<>> /\ Top(Main).pc = "erase" /\ stack' = Goto(Main, "unlist")
      /\ workThreads' = Without(Top(Main).thread)
      /\ UNCHANGED <<lifeVars, tasks, batch, threads, gone, jobVars, bounds>> /\ Main \in Thread
  BY MainBegun DEF EraseOwn, At
<1>2. Top(Main).thread \in Worker
  BY <1>1, AtTop DEF FrameSet, DestroyPc
<1>3. workThreads' \in Seq(Worker) /\ ToSet(workThreads') \subseteq ToSet(workThreads)
  BY <1>1, WithoutIn DEF IInv, TypeOK, PoolType
<1>4. PoolType'
  BY <1>1, <1>3 DEF IInv, TypeOK, PoolType, lifeVars, jobVars, bounds
<1>5. RefLife'
  BY <1>1, <1>3 DEF IInv, LifeInv, RefLife, Begun, lifeVars, jobVars
<1> QED BY <1>1, <1>2, <1>4, <1>5, GoneOn DEF lifeVars, DestroyPc, Asked

LEMMA HandStep ==
  ASSUME IInv, NEW p \in Thread, Hand(p)
  PROVE  IInv'
<1>1. /\ stack[p] # <<>> /\ Top(p).pc = "hand"
      /\ UNCHANGED <<lifeVars, batch, poolVars, jobVars, bounds>>
  BY DEF Hand, At
<1>2. Top(p) \in FrameSet /\ Top(p).thread \in Worker /\ Top(p).job = None
  BY <1>1, AtTop DEF FrameSet, DestroyPc
<1>3. PoolType' /\ RefLife'
  BY <1>1 DEF IInv, TypeOK, PoolType, LifeInv, RefLife, Begun, lifeVars, poolVars, jobVars, bounds
<1>4. CASE /\ Accepts(Main) /\ Post(Main, Message("delete", Top(p).thread, None)) /\ stack' = Pop(p)
  <2> DEFINE m == Message("delete", Top(p).thread, None)
  <2>1. m \in MessageSet /\ m.kind \notin Asked /\ m.job = None
    BY <1>2 DEF Message, MessageSet, Kinds, Asked, Thread
  <2> HIDE DEF m
  <2>2. Turn(p, Front(stack[p]), None, None, None)
    BY <1>1, <1>2, <1>4, PopTurn, BegunKept DEF lifeVars
  <2>3. p \notin Carried(Asks, Starts)
    BY <1>1, NotAsked DEF At
  <2>4. Kept(None, None)
    BY <1>1, <1>4, <2>1, <2>2, <2>3, TurnPost, MainBegun DEF m
  <2>5. Filled
    BY <1>1, <1>4, MainBegun, PostFilled
  <2> QED BY <1>1, <1>3, <2>4, <2>5, Steady DEF lifeVars, poolVars
<1>5. CASE stack' = Goto(p, "flush") /\ UNCHANGED tasks
  BY <1>1, <1>2, <1>3, <1>5, GoneOn DEF lifeVars, DestroyPc, Asked
<1> QED BY <1>4, <1>5 DEF Hand
-----------------------------------------------------------------------------
LEMMA FlushStep ==
  ASSUME IInv, NEW p \in Thread, Flush(p)
  PROVE  IInv'
<1> DEFINE w == Top(p).thread
<1>1. /\ stack[p] # <<>> /\ Top(p).pc = "flush" /\ phase[w] \in {"made", "finished"}
      /\ phase' = [phase EXCEPT ![w] = "deleted"] /\ stack' = Pop(p)
      /\ UNCHANGED <<told, tasks, batch, poolVars, jobVars, bounds>>
  BY DEF Flush, At
<1>2. Top(p) \in FrameSet /\ w \in Worker /\ Top(p).job = None
  BY <1>1, AtTop DEF FrameSet, DestroyPc
<1> HIDE DEF w
<1>3. /\ phase'[w] = "deleted" /\ w # Main /\ w \in Thread
      /\ \A t \in Thread : t # w => phase'[t] = phase[t]
  BY <1>1, <1>2 DEF IInv, TypeOK, PoolType, Thread
<1>4. \A t \in Thread : Begun(t) => Begun(t)'
  BY <1>3 DEF Begun
<1>5. Turn(p, Front(stack[p]), None, None, None)
  BY <1>1, <1>2, <1>4, PopTurn
<1>6. p \notin Carried(Asks, Starts)
  BY <1>1, NotAsked DEF At
<1>7. Kept(None, None)
  BY <1>1, <1>5, <1>6, TurnOnly
<1>8. JobInv'
  BY <1>1, <1>7, JobsKept DEF IInv
<1>9. PoolType'
  BY <1>1, <1>2 DEF IInv, TypeOK, PoolType, poolVars, jobVars, bounds, Phases
<1>10. QueueLife'
  BY <1>1, <1>3, MainBegun DEF IInv, LifeInv, QueueLife
<1>11. RefLife'
  <2>1. caller' = caller /\ threads' = threads /\ workThreads' = workThreads
    BY <1>1 DEF poolVars, jobVars
  <2>2. (\A j \in Job : caller[j] \in Thread \cup {None}) /\ workThreads \in Seq(Worker) /\ threads \subseteq Worker
    BY DEF IInv, TypeOK, PoolType
  <2>3. ToSet(workThreads) \subseteq Worker
    BY <2>2 DEF ToSet
  <2> QED BY <1>3, <1>4, <2>1, <2>2, <2>3 DEF IInv, LifeInv, RefLife, Thread, Begun
<1> QED BY <1>7, <1>8, <1>9, <1>10, <1>11 DEF IInv, Kept, TypeOK, LifeInv

LEMMA QuitEndsStep ==
  ASSUME IInv, NEW p \in Thread, QuitEnds(p)
  PROVE  IInv'
<1>1. /\ stack[p] # <<>> /\ Top(p).pc = "quit" /\ stack' = Pop(p)
      /\ UNCHANGED <<lifeVars, tasks, batch, poolVars, jobVars, bounds>>
  BY DEF QuitEnds, At
<1>2. Top(p) \in FrameSet /\ Top(p).job = None
  BY <1>1, AtTop DEF FrameSet
<1>3. Turn(p, Front(stack[p]), None, None, None)
  BY <1>1, <1>2, PopTurn, BegunKept DEF lifeVars
<1>4. p \notin Carried(Asks, Starts)
  BY <1>1, NotAsked DEF At
<1>5. Kept(None, None)
  BY <1>1, <1>3, <1>4, TurnOnly
<1>6. PoolType'
  BY <1>1, PoolSame, Counted DEF bounds
<1> QED BY <1>1, <1>5, <1>6, Steady, NothingFilled DEF lifeVars, poolVars

LEMMA ReturnStep ==
  ASSUME IInv, NEW p \in Thread, Return(p)
  PROVE  IInv'
<1>1. /\ stack[p] # <<>> /\ Top(p).pc = "body" /\ stack' = Pop(p)
      /\ UNCHANGED <<lifeVars, tasks, batch, poolVars, jobVars, bounds>>
  BY DEF Return, At
<1>2. Top(p) \in FrameSet /\ Top(p).job = None
  BY <1>1, AtTop DEF FrameSet
<1>3. Turn(p, Front(stack[p]), None, None, None)
  BY <1>1, <1>2, PopTurn, BegunKept DEF lifeVars
<1>4. p \notin Carried(Asks, Starts)
  BY <1>1, NotAsked DEF At
<1>5. Kept(None, None)
  BY <1>1, <1>3, <1>4, TurnOnly
<1>6. PoolType'
  BY <1>1, PoolSame, Counted DEF bounds
<1> QED BY <1>1, <1>5, <1>6, Steady, NothingFilled DEF lifeVars, poolVars

LEMMA ProcessedStep ==
  ASSUME IInv, Processed
  PROVE  IInv'
<1>1. /\ stack[Main] # <<>> /\ Top(Main).pc = "sync2" /\ stack' = Pop(Main) /\ Main \in Thread
      /\ UNCHANGED <<lifeVars, tasks, batch, poolVars, jobVars, bounds>>
  BY MainBegun DEF Processed, At
<1>2. Top(Main) \in FrameSet /\ Top(Main).job = None
  BY <1>1, AtTop DEF FrameSet
<1>3. Turn(Main, Front(stack[Main]), None, None, None)
  BY <1>1, <1>2, PopTurn, BegunKept DEF lifeVars
<1>4. Main \notin Carried(Asks, Starts)
  BY <1>1, NotAsked DEF At
<1>5. Kept(None, None)
  BY <1>1, <1>3, <1>4, TurnOnly
<1>6. PoolType'
  BY <1>1, PoolSame, Counted DEF bounds
<1> QED BY <1>1, <1>5, <1>6, Steady, NothingFilled DEF lifeVars, poolVars

LEMMA SwapStep ==
  ASSUME IInv, Swap
  PROVE  IInv'
<1>1. /\ stack[Main] # <<>> /\ Top(Main).pc = "sync1" /\ stack' = Goto(Main, "sync2") /\ Main \in Thread
      /\ batch[Main] = <<>> /\ batch' = [batch EXCEPT ![Main] = tasks[Main]]
      /\ tasks' = [tasks EXCEPT ![Main] = <<>>]
      /\ UNCHANGED <<lifeVars, poolVars, jobVars, bounds>>
  BY MainBegun DEF Swap, At
<1>2. Turn(Main, OnTop(stack[Main], [Top(Main) EXCEPT !.pc = "sync2"]), None, None, None)
  <2>1. "sync2" \in Pcs \ {"start", "get", "job"} /\ "sync2" \notin {"flush", "post"} \cup DestroyPc
    BY DEF Pcs, DestroyPc
  <2> QED BY <1>1, <2>1, GotoTurn, BegunKept DEF lifeVars
<1>3. Main \notin Carried(Asks, Starts)
  BY <1>1, NotAsked DEF At
<1>4. Kept(None, None)
  BY <1>1, <1>2, <1>3, TurnTake
<1>5. PoolType'
  BY <1>1, PoolSame, Counted DEF bounds
<1>6. Filled
  BY <1>1 DEF Filled, IInv, TypeOK, QueueType, LifeInv, QueueLife
<1> QED BY <1>1, <1>4, <1>5, <1>6, Steady DEF lifeVars, poolVars

LEMMA IdleTurn ==
  ASSUME IInv, NEW p \in Thread, stack[p] = <<>>, Begun(p), UNCHANGED stack,
         \A t \in Thread : Begun(t) => Begun(t)'
  PROVE  Turn(p, stack[p], None, None, None) /\ p \notin Carried(Asks, Starts)
<1>1. stack' = [stack EXCEPT ![p] = stack[p]]
  BY DEF IInv, TypeOK, StackType
<1>2. Tame(p, stack[p], stack[p], None, None, None)
  BY StackCarried, TameSame
<1> QED BY <1>1, <1>2, NotAsked DEF Turn, At

LEMMA TakeStep ==
  ASSUME IInv, NEW p \in Thread, Take(p)
  PROVE  IInv'
<1>1. /\ phase[p] = "open" /\ stack[p] = <<>> /\ batch[p] = <<>>
      /\ batch' = [batch EXCEPT ![p] = tasks[p]] /\ tasks' = [tasks EXCEPT ![p] = <<>>]
      /\ UNCHANGED <<lifeVars, stack, poolVars, jobVars, bounds>>
  BY DEF Take, Free
<1>2. Turn(p, stack[p], None, None, None) /\ p \notin Carried(Asks, Starts)
  BY <1>1, IdleTurn, BegunKept DEF Begun, lifeVars
<1>3. Kept(None, None)
  BY <1>1, <1>2, TurnTake
<1>4. PoolType'
  BY <1>1, PoolSame, Counted DEF bounds
<1>5. Filled
  BY <1>1 DEF Filled, IInv, TypeOK, QueueType
<1> QED BY <1>1, <1>3, <1>4, <1>5, Steady DEF lifeVars, poolVars

\* A thread goes from open to closing, or from closing to finished.
Older(p) ==
  \/ phase[p] = "open" /\ phase' = [phase EXCEPT ![p] = "closing"]
  \/ phase[p] = "closing" /\ phase' = [phase EXCEPT ![p] = "finished"]

LEMMA OlderLife ==
  ASSUME IInv, NEW p \in Thread, Older(p), UNCHANGED <<told, poolVars, jobVars, bounds>>,
         tasks'[p] = <<>>, phase'[p] = "finished" => batch'[p] = <<>>,
         \A t \in Thread : t # p => tasks'[t] = tasks[t] /\ batch'[t] = batch[t]
  PROVE  PoolType' /\ QueueLife' /\ RefLife' /\ \A t \in Thread : Begun(t) => Begun(t)'
<1>1. \A t \in Thread : t # p => phase'[t] = phase[t]
  BY DEF Older, IInv, TypeOK, PoolType
<1>2. /\ \/ phase[p] = "open" /\ phase'[p] = "closing"
         \/ phase[p] = "closing" /\ phase'[p] = "finished"
      /\ phase'[p] \in Phases
  BY DEF Older, Phases, IInv, TypeOK, PoolType
<1>3. PoolType'
  BY <1>1, <1>2 DEF Older, IInv, TypeOK, PoolType, poolVars, jobVars, bounds, Phases
<1>4. QueueLife'
  BY <1>1, <1>2, MainBegun DEF IInv, LifeInv, QueueLife
<1>5. \A t \in Thread : (Begun(t) => Begun(t)') /\ (phase[t] # "none" => phase'[t] # "none")
  BY <1>1, <1>2 DEF Begun
<1>6. RefLife'
  <2>1. caller' = caller /\ threads' = threads /\ workThreads' = workThreads
    BY DEF poolVars, jobVars
  <2>2. (\A j \in Job : caller[j] \in Thread \cup {None}) /\ workThreads \in Seq(Worker) /\ threads \subseteq Worker
    BY DEF IInv, TypeOK, PoolType
  <2>3. ToSet(workThreads) \subseteq Worker
    BY <2>2 DEF ToSet
  <2> QED BY <1>5, <2>1, <2>2, <2>3 DEF IInv, LifeInv, RefLife, Thread
<1> QED BY <1>3, <1>4, <1>5, <1>6

LEMMA CloseStep ==
  ASSUME IInv, NEW p \in Thread, Close(p)
  PROVE  IInv'
<1>1. /\ phase[p] = "open" /\ stack[p] = <<>> /\ batch[p] = <<>>
      /\ phase' = [phase EXCEPT ![p] = "closing"]
      /\ batch' = [batch EXCEPT ![p] = tasks[p]] /\ tasks' = [tasks EXCEPT ![p] = <<>>]
      /\ UNCHANGED <<told, stack, poolVars, jobVars, bounds>>
  BY DEF Close, Free
<1>2. /\ Older(p) /\ tasks'[p] = <<>> /\ phase'[p] # "finished"
      /\ \A t \in Thread : t # p => tasks'[t] = tasks[t] /\ batch'[t] = batch[t]
  <2>1. phase'[p] = "closing"
    BY <1>1 DEF IInv, TypeOK, PoolType
  <2>2. Older(p)
    BY <1>1 DEF Older
  <2> QED BY <1>1, <2>1, <2>2 DEF IInv, TypeOK, QueueType
<1>3. PoolType' /\ QueueLife' /\ RefLife' /\ \A t \in Thread : Begun(t) => Begun(t)'
  BY <1>1, <1>2, OlderLife
<1>4. Turn(p, stack[p], None, None, None) /\ p \notin Carried(Asks, Starts)
  BY <1>1, <1>3, IdleTurn DEF Begun
<1>5. Kept(None, None)
  BY <1>1, <1>4, TurnTake
<1>6. JobInv'
  BY <1>1, <1>5, JobsKept DEF IInv
<1> QED BY <1>3, <1>5, <1>6 DEF IInv, Kept, TypeOK, LifeInv

LEMMA EndStep ==
  ASSUME IInv, NEW p \in Thread, End(p)
  PROVE  IInv'
<1>1. /\ phase[p] = "closing" /\ stack[p] = <<>> /\ batch[p] = <<>>
      /\ phase' = [phase EXCEPT ![p] = "finished"]
      /\ UNCHANGED <<told, tasks, batch, stack, poolVars, jobVars, bounds>>
  BY DEF End, Free
<1>2. Older(p) /\ tasks'[p] = <<>> /\ batch'[p] = <<>>
  BY <1>1 DEF Older, IInv, TypeOK, PoolType, LifeInv, QueueLife
<1>3. PoolType' /\ QueueLife' /\ RefLife' /\ \A t \in Thread : Begun(t) => Begun(t)'
  BY <1>1, <1>2, OlderLife
<1>4. Turn(p, stack[p], None, None, None) /\ p \notin Carried(Asks, Starts)
  BY <1>1, <1>3, IdleTurn DEF Begun
<1>5. Kept(None, None)
  BY <1>1, <1>4, TurnOnly
<1>6. JobInv'
  BY <1>1, <1>5, JobsKept DEF IInv
<1> QED BY <1>3, <1>5, <1>6 DEF IInv, Kept, TypeOK, LifeInv
-----------------------------------------------------------------------------
\* A frame about no job is pushed, and no queue changes.
LEMMA PlainPush ==
  ASSUME IInv, NEW p \in Thread, Idle(p), Begun(p),
         NEW pc \in Pcs \ {"start", "get", "post", "job"}, pc \notin Sync, NEW w \in Thread \cup {None},
         pc \in {"flush"} \cup DestroyPc => w \in Worker,
         stack' = Push(p, Frame(pc, w, None)), UNCHANGED phase
  PROVE  \E r : Turn(p, r, None, None, None)
<1> DEFINE f == Frame(pc, w, None)
<1>1. f \in FrameSet /\ f.pc = pc /\ f.job = None
  BY FrameIn
<1>2. Starts[f] = None /\ PostTo[f] = None /\ f.job \notin Values(stack[p], JobIn)
  BY <1>1, FrameValues, NoneValue
<1> HIDE DEF f
<1>3. stack[p] = <<>> \/ Top(p).pc \in Below(p)
  BY DEF Idle
<1>4. Turn(p, Append(stack[p], f), None, None, None)
  <2>1. stack' = Push(p, f)
    BY DEF f
  <2> QED BY <1>1, <1>2, <1>3, <2>1, PushTurn
<1> QED BY <1>4

LEMMA QuitNextStep ==
  ASSUME IInv, NEW p \in Thread, QuitNext(p)
  PROVE  IInv'
<1>1. /\ stack[p] # <<>> /\ Top(p).pc = "quit"
      /\ UNCHANGED <<lifeVars, batch, poolVars, jobVars, bounds>>
  BY DEF QuitNext, At
<1>2. PICK w \in threads :
        \/ stack' = Push(p, Frame("unlist", w, None)) /\ UNCHANGED tasks
        \/ Invoke(p, stack, Frame("erase", w, None), "unlist")
  BY DEF QuitNext
<1>3. w \in Worker /\ w \in Thread
  BY DEF IInv, TypeOK, PoolType, Thread
<1>4. Kept(None, None) /\ Filled
  <2>1. CASE stack' = Push(p, Frame("unlist", w, None)) /\ UNCHANGED tasks
    <3>1. Idle(p) /\ Begun(p) /\ UNCHANGED <<phase, batch>>
      BY <1>1, AtTop DEF Idle, Below, lifeVars
    <3>2. "unlist" \in Pcs \ {"start", "get", "post", "job"} /\ "unlist" \notin Sync
      BY DEF Pcs, OpPc, DestroyPc, Sync
    <3>3. PICK r : Turn(p, r, None, None, None)
      BY <1>3, <2>1, <3>1, <3>2, PlainPush
    <3> QED BY <2>1, <3>1, <3>3, TurnOnly, IdleFree, NothingFilled
  <2>2. CASE Invoke(p, stack, Frame("erase", w, None), "unlist")
    BY <1>1, <1>3, <2>2, Invoked, NoneCarried DEF Asked, lifeVars
  <2> QED BY <1>2, <2>1, <2>2
<1>5. PoolType'
  BY <1>1, PoolSame, Counted DEF bounds
<1> QED BY <1>1, <1>4, <1>5, Steady DEF lifeVars, poolVars

LEMMA TeardownStep ==
  ASSUME IInv, Teardown
  PROVE  IInv'
<1>1. /\ stack[Main] = <<>> /\ gone' = TRUE /\ workThreads' = <<>>
      /\ stack' = Push(Main, Frame("quit", None, None))
      /\ UNCHANGED <<lifeVars, tasks, batch, threads, jobVars, bounds>>
      /\ Main \in Thread /\ Begun(Main) /\ Idle(Main)
  BY MainBegun DEF Teardown, Idle
<1>2. "quit" \in Pcs \ {"start", "get", "post", "job"} /\ "quit" \notin Sync \cup {"flush"} \cup DestroyPc
  BY DEF Pcs, OpPc, DestroyPc, Sync
<1>3. PICK r : Turn(Main, r, None, None, None)
  BY <1>1, <1>2, PlainPush DEF lifeVars
<1>4. Kept(None, None)
  BY <1>1, <1>3, TurnOnly, IdleFree
<1>5. JobInv'
  BY <1>1, <1>4, JobsKept DEF IInv
<1>6. PoolType' /\ QueueLife' /\ RefLife'
  BY <1>1, Nothing DEF IInv, TypeOK, PoolType, LifeInv, QueueLife, RefLife, Begun, lifeVars, jobVars, bounds
<1> QED BY <1>4, <1>5, <1>6 DEF IInv, Kept, TypeOK, LifeInv

LEMMA CallbackStep ==
  ASSUME IInv, NEW p \in Thread, Callback(p)
  PROVE  IInv'
<1>1. /\ phase[p] = "open" /\ stack[p] = <<>> /\ stack' = Push(p, Frame("body", None, None))
      /\ callbacks' = callbacks + 1
      /\ UNCHANGED <<lifeVars, tasks, batch, poolVars, jobVars, calls>>
  BY DEF Callback, Free
<1>2. Begun(p) /\ Idle(p)
  BY <1>1 DEF Begun, Idle
<1>3. "body" \in Pcs \ {"start", "get", "post", "job"} /\ "body" \notin Sync \cup {"flush"} \cup DestroyPc
  BY DEF Pcs, OpPc, DestroyPc, Sync
<1>4. PICK r : Turn(p, r, None, None, None)
  BY <1>1, <1>2, <1>3, PlainPush DEF lifeVars
<1>5. Kept(None, None)
  BY <1>1, <1>2, <1>4, TurnOnly, IdleFree
<1>6. PoolType'
  BY <1>1, PoolSame, Counted
<1> QED BY <1>1, <1>5, <1>6, Steady, NothingFilled DEF lifeVars, poolVars

(***************************************************************************)
(* The tasks of a batch.                                                    *)
(***************************************************************************)
LEMMA NextOne ==
  ASSUME IInv, NEW p \in Thread, NEW kind, NextTask(p, kind)
  PROVE  /\ Idle(p) /\ Begun(p) /\ p \notin Carried(Asks, Starts)
         /\ batch[p] # <<>> /\ Head(batch[p]) \in MessageSet /\ Head(batch[p]).kind = kind
         /\ Head(batch[p]) \in ToSet(batch[p])
         /\ batch' = [batch EXCEPT ![p] = Tail(@)]
         /\ UNCHANGED tasks => Filled
<1>1. batch[p] \in Seq(MessageSet) /\ batch[p] # <<>> /\ StackOK(p, stack[p])
  BY DEF NextTask, IInv, TypeOK, QueueType, StackType
<1>2. stack[p] # <<>> => Len(stack[p]) \in 1..Len(stack[p])
  BY <1>1 DEF StackOK
<1>3. Idle(p)
  BY <1>1, <1>2 DEF NextTask, At, Top, Last, Idle, Below, StackOK
<1>4. Begun(p) /\ p \notin Carried(Asks, Starts)
  BY <1>1, <1>3, IdleFree DEF IInv, LifeInv, QueueLife, Begun
<1>5. UNCHANGED tasks => Filled
  BY <1>1 DEF NextTask, Filled, IInv, TypeOK, QueueType
<1> QED BY <1>1, <1>3, <1>4, <1>5, Taking DEF NextTask

LEMMA BatchCarried ==
  ASSUME IInv, NEW p \in Thread, batch[p] # <<>>
  PROVE  /\ Head(batch[p]).job \in Carried(JobOf, JobIn) \cup {None}
         /\ Head(batch[p]).job \notin Values(stack[p], JobIn)
<1>1. batch[p] \in Seq(MessageSet)
  BY DEF IInv, TypeOK, QueueType
<1>2. PICK m \in MessageSet : m = Head(batch[p])
  BY <1>1
<1>3. JobOf[m] = m.job
  BY MessageValues
<1>4. JobOf[Head(batch[p])] \in Values(batch[p], JobOf) \cup {None}
  BY <1>1, Taking
<1>5. /\ <<"batch", p>> \in Carriers /\ <<"stack", p>> \in Carriers /\ <<"batch", p>> # <<"stack", p>>
      /\ Content(JobOf, JobIn, <<"batch", p>>) = Values(batch[p], JobOf)
      /\ Content(JobOf, JobIn, <<"stack", p>>) = Values(stack[p], JobIn)
  BY Contents DEF Content
<1>6. Values(batch[p], JobOf) \cap Values(stack[p], JobIn) = {}
  BY <1>5 DEF IInv, JobInv, CarriedOnce
<1>7. Values(batch[p], JobOf) \subseteq Carried(JobOf, JobIn)
  BY <1>5 DEF Carried
<1> QED BY <1>2, <1>3, <1>4, <1>6, <1>7, NoneValue

LEMMA RunJobStep ==
  ASSUME IInv, NEW p \in Thread, RunJob(p)
  PROVE  IInv'
<1> DEFINE j == Head(batch[p]).job
           f == Frame("job", None, j)
<1>1. /\ NextTask(p, "job") /\ stack' = Push(p, f)
      /\ UNCHANGED <<lifeVars, tasks, poolVars, jobVars, bounds>>
  BY DEF RunJob
<1>2. /\ Idle(p) /\ Begun(p) /\ p \notin Carried(Asks, Starts) /\ Filled
      /\ batch[p] # <<>> /\ batch' = [batch EXCEPT ![p] = Tail(@)]
      /\ j \in Job /\ j # None /\ j \in Carried(JobOf, JobIn) /\ j \notin Values(stack[p], JobIn)
  BY <1>1, NextOne, BatchCarried DEF MessageSet
<1> HIDE DEF j
<1>3. f \in FrameSet /\ f.pc = "job" /\ f.job = j
  <2>1. "job" \in Pcs /\ "job" \notin {"start", "flush"} \cup DestroyPc
    BY DEF Pcs, DestroyPc
  <2>2. None \in Thread \cup {None} /\ j \in Job \cup {None} /\ j # None
    BY <1>2
  <2> QED BY <2>1, <2>2, FrameIn
<1> HIDE DEF f
<1>4. Starts[f] = None /\ PostTo[f] = None /\ f.pc \notin Sync
  BY <1>3, FrameValues DEF Sync
<1>5. Turn(p, Append(stack[p], f), None, j, None)
  BY <1>1, <1>2, <1>3, <1>4, PushTurn DEF Idle, lifeVars
<1>6. Kept(None, None)
  <2>1. Kept(j, j)
    BY <1>1, <1>2, <1>5, TurnBatch DEF j
  <2>2. Swapped(Carried(JobOf, JobIn), j, j) = Carried(JobOf, JobIn)
    BY <1>2 DEF Swapped
  <2> QED BY <2>1, <2>2, NoneCarried DEF Kept
<1>7. PoolType'
  BY <1>1, PoolSame, Counted DEF bounds
<1> QED BY <1>1, <1>2, <1>6, <1>7, Steady DEF lifeVars, poolVars

LEMMA RunResultStep ==
  ASSUME IInv, NEW p \in Thread, RunResult(p)
  PROVE  IInv'
<1> DEFINE j == Head(batch[p]).job
<1>1. /\ NextTask(p, "result") /\ stack' = Push(p, Frame("body", None, None)) /\ ended' = ended \cup {j}
      /\ UNCHANGED <<lifeVars, tasks, poolVars, caller, dropped, bounds>>
  BY DEF RunResult
<1>2. /\ Idle(p) /\ Begun(p) /\ p \notin Carried(Asks, Starts) /\ Filled
      /\ batch[p] # <<>> /\ batch' = [batch EXCEPT ![p] = Tail(@)]
      /\ j \in Job /\ j # None /\ j \in Carried(JobOf, JobIn)
  BY <1>1, NextOne, BatchCarried DEF MessageSet
<1>3. "body" \in Pcs \ {"start", "get", "post", "job"} /\ "body" \notin Sync \cup {"flush"} \cup DestroyPc
  BY DEF Pcs, OpPc, DestroyPc, Sync
<1>4. PICK r : Turn(p, r, None, None, None)
  BY <1>1, <1>2, <1>3, PlainPush DEF lifeVars
<1>5. Kept(j, None)
  BY <1>1, <1>2, <1>4, TurnBatch
<1>6. JobInv'
  BY <1>1, <1>2, <1>5, JobsEnd DEF IInv
<1>7. PoolType'
  BY <1>1, <1>2 DEF IInv, TypeOK, PoolType, lifeVars, poolVars, bounds
<1>8. QueueLife' /\ RefLife'
  BY <1>1, <1>2, LifeKept DEF IInv, lifeVars, poolVars
<1> QED BY <1>5, <1>6, <1>7, <1>8 DEF IInv, Kept, TypeOK, LifeInv

LEMMA RunDeleteStep ==
  ASSUME IInv, RunDelete
  PROVE  IInv'
<1> DEFINE w == Head(batch[Main]).thread
<1>1. /\ NextTask(Main, "delete") /\ stack' = Push(Main, Frame("flush", w, None)) /\ Main \in Thread
      /\ UNCHANGED <<lifeVars, tasks, poolVars, jobVars, bounds>>
  BY MainBegun DEF RunDelete
<1>2. /\ Idle(Main) /\ Begun(Main) /\ Main \notin Carried(Asks, Starts) /\ Filled
      /\ batch[Main] # <<>> /\ batch' = [batch EXCEPT ![Main] = Tail(@)]
      /\ Head(batch[Main]) \in MessageSet /\ Head(batch[Main]).kind = "delete"
  BY <1>1, NextOne
<1>3. w \in Worker /\ w \in Thread /\ Head(batch[Main]).job = None
  BY <1>2 DEF MessageSet, Thread
<1>4. "flush" \in Pcs \ {"start", "get", "post", "job"} /\ "flush" \notin Sync
  BY DEF Pcs, OpPc, DestroyPc, Sync
<1>5. PICK r : Turn(Main, r, None, None, None)
  BY <1>1, <1>2, <1>3, <1>4, PlainPush DEF lifeVars
<1>6. Kept(None, None)
  BY <1>1, <1>2, <1>3, <1>5, TurnBatch
<1>7. PoolType'
  BY <1>1, PoolSame, Counted DEF bounds
<1> QED BY <1>1, <1>2, <1>6, <1>7, Steady DEF lifeVars, poolVars

LEMMA RunEraseStep ==
  ASSUME IInv, RunErase
  PROVE  IInv'
<1> DEFINE q == Head(batch[Main]).thread
<1>1. /\ NextTask(Main, "erase") /\ stack' = Goto(q, "unlist") /\ workThreads' = Without(Top(q).thread)
      /\ UNCHANGED <<lifeVars, tasks, threads, gone, jobVars, bounds>> /\ Main \in Thread
  BY MainBegun DEF RunErase
<1>2. /\ batch[Main] # <<>> /\ batch' = [batch EXCEPT ![Main] = Tail(@)] /\ Filled
      /\ Head(batch[Main]) \in MessageSet /\ Head(batch[Main]).kind = "erase"
      /\ Head(batch[Main]) \in ToSet(batch[Main])
  BY <1>1, NextOne
<1>3. /\ q \in Thread /\ Asks[Head(batch[Main])] = q /\ Head(batch[Main]).job = None
  BY <1>2, MessageValues DEF Asked
<1>4. At(q, "erase")
  <2>1. Waits(Main, Head(batch[Main]))
    BY <1>1, <1>2 DEF IInv, AskInv
  <2> QED BY <1>2, <2>1 DEF Waits, Asked
<1>5. stack[q] # <<>> /\ Top(q).pc = "erase" /\ Top(q).thread \in Worker
  BY <1>3, <1>4, AtTop DEF At, FrameSet, DestroyPc
<1> HIDE DEF q
<1>6. Turn(q, OnTop(stack[q], [Top(q) EXCEPT !.pc = "unlist"]), None, None, None)
  <2>1. /\ "unlist" \in Pcs \ {"start", "get", "job", "post"} /\ "unlist" \notin Sync
        /\ Top(q).pc \notin {"get", "post", "job", "start"}
    BY <1>5 DEF Pcs, OpPc, AskPc, DestroyPc, Sync
  <2> QED BY <1>1, <1>3, <1>5, <2>1, GotoTurn, BegunKept DEF lifeVars
<1>7. Kept(None, None)
  BY <1>1, <1>2, <1>3, <1>6, TurnBatch
<1>8. workThreads' \in Seq(Worker) /\ ToSet(workThreads') \subseteq ToSet(workThreads)
  BY <1>1, WithoutIn DEF IInv, TypeOK, PoolType
<1>9. PoolType'
  BY <1>1, <1>8 DEF IInv, TypeOK, PoolType, lifeVars, jobVars, bounds
<1>10. RefLife'
  BY <1>1, <1>8 DEF IInv, LifeInv, RefLife, Begun, lifeVars, jobVars
<1>11. QueueLife'
  BY <1>1, <1>2 DEF Filled, IInv, LifeInv, QueueLife, lifeVars
<1>12. JobInv'
  BY <1>1, <1>7, JobsKept DEF IInv
<1> QED BY <1>7, <1>9, <1>10, <1>11, <1>12 DEF IInv, Kept, TypeOK, LifeInv
-----------------------------------------------------------------------------
(***************************************************************************)
(* getThread() is answered.                                                 *)
(***************************************************************************)
LEMMA AnswerTop ==
  ASSUME NEW p \in Thread, NEW s, Fine(p, s), s # <<>>, Last(s).pc = "get", NEW w \in Worker
  PROVE  Tame(p, s, OnTop(s, [Last(s) EXCEPT !.pc = "post", !.thread = w]), None, None, w)
<1> DEFINE f == [Last(s) EXCEPT !.pc = "post", !.thread = w]
<1>1. Last(s) \in FrameSet
  <2>1. s \in Seq(FrameSet)
    BY DEF Fine, StackOK
  <2> QED BY <2>1 DEF Last
<1>2. f \in FrameSet /\ f.pc = "post" /\ f.job = Last(s).job /\ f.thread = w
  BY <1>1 DEF FrameSet, Pcs, OpPc, AskPc, DestroyPc, Thread
<1> HIDE DEF f
<1>3. Starts[Last(s)] = None /\ Starts[f] = None /\ JobIn[f] = JobIn[Last(s)] /\ PostTo[f] = w /\ f.pc \notin Sync
  BY <1>1, <1>2, FrameValues DEF Sync
<1> QED BY <1>2, <1>3, TameChange DEF f

LEMMA AnswerTurn ==
  ASSUME IInv, NEW q \in Thread, At(q, "get"), NEW w \in Worker, Begun(w), UNCHANGED phase,
         stack' = Answered(stack, q, w)
  PROVE  \E r : Turn(q, r, None, None, w)
<1>1. Fine(q, stack[q]) /\ stack[q] # <<>> /\ Last(stack[q]).pc = "get" /\ Begun(q)
  BY StackCarried, AtTop DEF At, Top
<1> DEFINE r == OnTop(stack[q], [Last(stack[q]) EXCEPT !.pc = "post", !.thread = w])
<1>2. Tame(q, stack[q], r, None, None, w)
  BY <1>1, AnswerTop
<1>3. stack' = [stack EXCEPT ![q] = r]
  BY DEF Answered, OnTop, Last
<1> HIDE DEF r
<1>4. Turn(q, r, None, None, w)
  BY <1>1, <1>2, <1>3, BegunKept DEF Turn
<1> QED BY <1>4

(***************************************************************************)
(* A thread is constructed.                                                 *)
(***************************************************************************)
Born(p, w, f) ==
  /\ phase[w] = "none" /\ phase' = [phase EXCEPT ![w] = "made"] /\ threads' = threads \cup {w}
  /\ stack' = [stack EXCEPT ![p] = Append(stack[p], f)]

LEMMA BornOne ==
  ASSUME IInv, NEW p \in Thread, NEW q \in Thread \cup {None}, NewThread(p, stack, q)
  PROVE  \E w \in Worker : \E f \in FrameSet :
           /\ Born(p, w, f) /\ f.pc = "start" /\ f.for = q /\ f.job = None /\ f.thread = w
<1> DEFINE w == CHOOSE u \in Unborn : TRUE
           f == [Frame("start", w, None) EXCEPT !.for = q]
<1>1. w \in Worker /\ phase[w] = "none"
  BY DEF NewThread, Unborn
<1>2. Born(p, w, f)
  BY <1>1 DEF NewThread, Born
<1> HIDE DEF w
<1>3. f \in FrameSet /\ f.pc = "start" /\ f.for = q /\ f.job = None /\ f.thread = w
  BY <1>1 DEF Frame, FrameSet, Pcs, OpPc, Thread
<1> HIDE DEF f
<1> QED BY <1>1, <1>2, <1>3

LEMMA BornLife ==
  ASSUME IInv, NEW p \in Thread, NEW w \in Worker, NEW f, Born(p, w, f),
         UNCHANGED <<told, workThreads, gone, jobVars>>, calls' \in Nat, callbacks' \in Nat,
         tasks' = tasks, \A t \in Thread : batch'[t] # <<>> => batch[t] # <<>>
  PROVE  /\ \A t \in Thread : Begun(t) => Begun(t)'
         /\ PoolType' /\ QueueLife' /\ RefLife'
<1>1. /\ phase'[w] = "made" /\ w # Main /\ w \in Thread
      /\ \A t \in Thread : t # w => phase'[t] = phase[t]
  BY DEF Born, IInv, TypeOK, PoolType, Thread
<1>2. \A t \in Thread : (Begun(t) => Begun(t)') /\ (phase[t] # "none" => phase'[t] # "none")
  BY <1>1 DEF Born, Begun
<1>3. PoolType'
  BY DEF Born, IInv, TypeOK, PoolType, jobVars, Phases
<1>4. QueueLife'
  BY <1>1, MainBegun DEF Born, IInv, LifeInv, QueueLife
<1>5. RefLife'
  <2>1. caller' = caller /\ threads' = threads \cup {w} /\ workThreads' = workThreads
    BY DEF jobVars, Born
  <2>2. (\A j \in Job : caller[j] \in Thread \cup {None}) /\ workThreads \in Seq(Worker) /\ threads \subseteq Worker
    BY DEF IInv, TypeOK, PoolType
  <2>3. ToSet(workThreads) \subseteq Worker
    BY <2>2 DEF ToSet
  <2> QED BY <1>1, <1>2, <2>1, <2>2, <2>3 DEF IInv, LifeInv, RefLife, Thread
<1> QED BY <1>2, <1>3, <1>4, <1>5

LEMMA CreateStep ==
  ASSUME IInv, NEW p \in Thread, Create(p)
  PROVE  IInv'
<1>1. /\ stack[p] # <<>> /\ Top(p).pc \in {"body", "job"} /\ calls' = calls + 1
      /\ NewThread(p, stack, None)
      /\ UNCHANGED <<told, tasks, batch, workThreads, gone, jobVars, callbacks>>
  BY DEF Create, Call
<1>2. PICK w \in Worker, f \in FrameSet : Born(p, w, f) /\ f.pc = "start" /\ f.for = None /\ f.job = None
  BY <1>1, BornOne
<1>3. /\ \A t \in Thread : Begun(t) => Begun(t)'
      /\ PoolType' /\ QueueLife' /\ RefLife'
  BY <1>1, <1>2, BornLife, Counted
<1>4. Starts[f] = None /\ PostTo[f] = None /\ JobIn[f] = None /\ f.pc \notin Sync
  BY <1>2, FrameValues DEF Sync
<1>5. Begun(p) /\ p \notin Carried(Asks, Starts) /\ Top(p).pc \in Below(p)
  BY <1>1, AtTop, IdleFree DEF Idle, Below
<1>6. Tame(p, stack[p], Append(stack[p], f), None, None, None)
  BY <1>4, <1>5, TamePush, StackCarried, NoneValue DEF Top
<1>7. Turn(p, Append(stack[p], f), None, None, None)
  BY <1>2, <1>3, <1>5, <1>6 DEF Turn, Born
<1>8. Kept(None, None)
  BY <1>1, <1>5, <1>7, TurnOnly
<1>9. JobInv'
  BY <1>1, <1>8, JobsKept DEF IInv
<1> QED BY <1>3, <1>8, <1>9 DEF IInv, Kept, TypeOK, LifeInv

\* getThread() of q has a thread constructed.
LEMMA BornFor ==
  ASSUME IInv, NEW q \in Thread, At(q, "get"), NEW w \in Worker, NEW f \in FrameSet, Born(Main, w, f),
         f.pc = "start", f.for = q, f.job = None, stack[Main] = <<>> \/ Top(Main).pc \in Below(Main),
         \A t \in Thread : Begun(t) => Begun(t)', tasks' = tasks,
         \/ q = Main /\ batch' = batch
         \/ /\ q # Main /\ ~At(Main, "start")
            /\ batch[Main] # <<>> /\ batch' = [batch EXCEPT ![Main] = Tail(@)]
            /\ Asks[Head(batch[Main])] = q /\ Head(batch[Main]).job = None
  PROVE  Kept(None, None)
<1> DEFINE s == stack[Main]
           r == Append(s, f)
<1>0. TypeOK /\ CarriedOnce(JobOf, JobIn) /\ CarriedOnce(Asks, Starts) /\ Main \in Thread /\ Begun(Main)
  BY MainBegun DEF IInv, AskInv, JobInv
<1>1. Fine(Main, s) /\ s \in Seq(FrameSet) /\ stack' = [stack EXCEPT ![Main] = r] /\ q # None
  BY <1>0, StackCarried DEF Fine, StackOK, Born, Thread
<1>2. Starts[f] = q /\ JobIn[f] = None /\ PostTo[f] = None
  BY FrameValues
<1>3. q \notin Values(s, Starts)
  <2>1. CASE q = Main
    <3>1. Main \notin Carried(Asks, Starts)
      BY <1>0, <2>1, NotAsked DEF At
    <3> QED BY <1>0, <2>1, <3>1, StackCarried
  <2>2. CASE q # Main
    <3>1. batch[Main] \in Seq(MessageSet) /\ batch[Main] # <<>>
      BY <1>0, <2>2 DEF TypeOK, QueueType
    <3>2. q \in Values(batch[Main], Asks)
      BY <1>1, <2>2, <3>1, Taking
    <3>3. /\ <<"batch", Main>> \in Carriers /\ <<"stack", Main>> \in Carriers
          /\ <<"batch", Main>> # <<"stack", Main>>
          /\ Content(Asks, Starts, <<"batch", Main>>) = Values(batch[Main], Asks)
          /\ Content(Asks, Starts, <<"stack", Main>>) = Values(stack[Main], Starts)
      BY <1>0, Contents DEF Content
    <3>4. Values(batch[Main], Asks) \cap Values(stack[Main], Starts) = {}
      BY <1>0, <3>3 DEF CarriedOnce
    <3> QED BY <3>2, <3>4
  <2> QED BY <2>1, <2>2
<1>4. StackOK(Main, r)
  BY <1>0, <1>1, StackPush DEF Fine, Sync, Top
<1>5. Once(r, JobIn) /\ Values(r, JobIn) = Swapped(Values(s, JobIn), None, None)
  <2>1. /\ Values(r, JobIn) = Values(s, JobIn) \cup ({JobIn[f]} \ {None})
        /\ Once(s, JobIn) /\ JobIn[f] \notin Values(s, JobIn) => Once(r, JobIn)
    BY <1>1, Appending
  <2> HIDE DEF r, s
  <2> QED BY <1>1, <1>2, <2>1, NoneValue DEF Swapped, Fine
<1>6. Once(r, Starts) /\ Values(r, Starts) = Swapped(Values(s, Starts), None, q)
  <2>1. /\ Values(r, Starts) = Values(s, Starts) \cup ({Starts[f]} \ {None})
        /\ Once(s, Starts) /\ Starts[f] \notin Values(s, Starts) => Once(r, Starts)
    BY <1>1, Appending
  <2> HIDE DEF r, s
  <2> QED BY <1>1, <1>2, <1>3, <2>1, NoneValue DEF Swapped, Fine
<1>7. Values(r, PostTo) = Values(s, PostTo) \cup ({PostTo[f]} \ {None})
  BY <1>1, Appending
<1>8. r # <<>> /\ Len(r) = Len(s) + 1 /\ Last(r) = f /\ \A i \in 1..Len(s) : r[i] = s[i]
  BY <1>1, Appending
<1> HIDE DEF r
<1>9. StackStep(Main, r, None)
  BY <1>0, <1>1, <1>2, <1>4, <1>5, <1>6, <1>7 DEF StackStep, Fine
<1>10. StackType' /\ StackLife'
  BY <1>0, <1>9, LifeTurn
<1>11. CarriedOnce(JobOf, JobIn)' /\ Carried(JobOf, JobIn)' = Swapped(Carried(JobOf, JobIn), None, None)
  <2>1. CASE q = Main
    <3>1. StackMoves(JobOf, JobIn, Main, r, None, None)
      BY <1>1, <1>5, <2>1 DEF StackMoves
    <3> QED BY <1>0, <3>1, StackCarries
  <2>2. CASE q # Main
    <3>1. PICK m \in MessageSet : m = Head(batch[Main])
      BY <1>0, <2>2 DEF TypeOK, QueueType
    <3>2. JobOf[Head(batch[Main])] = None
      BY <2>2, <3>1, MessageValues
    <3>3. BatchMoves(JobOf, JobIn, Main, r, Main, None, None)
      BY <1>1, <1>5, <2>2, <3>2 DEF BatchMoves
    <3> QED BY <1>0, <3>3, BatchCarries
  <2> QED BY <2>1, <2>2
<1>12. CarriedOnce(Asks, Starts)'
  <2>1. CASE q = Main
    <3>1. q \notin Carried(Asks, Starts)
      BY <1>0, <2>1, NotAsked DEF At
    <3>2. StackMoves(Asks, Starts, Main, r, None, q)
      BY <1>1, <1>6, <2>1, <3>1 DEF StackMoves
    <3> QED BY <1>0, <3>2, StackCarries
  <2>2. CASE q # Main
    <3>1. BatchMoves(Asks, Starts, Main, r, Main, q, q)
      BY <1>1, <1>6, <2>2 DEF BatchMoves
    <3> QED BY <1>0, <3>1, BatchCarries
  <2> QED BY <2>1, <2>2
<1>13. QueueType' /\ NoMoreAsked
  <2>1. CASE q = Main
    BY <1>0, <2>1 DEF TypeOK, QueueType, NoMoreAsked
  <2>2. CASE q # Main
    <3>1. batch[Main] \in Seq(MessageSet) /\ batch'[Main] = Tail(batch[Main])
          /\ \A t \in Thread : t # Main => batch'[t] = batch[t]
      BY <1>0, <2>2 DEF TypeOK, QueueType
    <3>2. QueueType'
      <4>1. batch' = [batch EXCEPT ![Main] = Tail(batch[Main])] /\ Tail(batch[Main]) \in Seq(MessageSet)
        BY <2>2, <3>1
      <4> QED BY <1>0, <4>1 DEF TypeOK, QueueType
    <3>3. ToSet(Tail(batch[Main])) \subseteq ToSet(batch[Main])
      BY <2>2, <3>1, Taking
    <3> QED BY <3>1, <3>2, <3>3 DEF NoMoreAsked
  <2> QED BY <2>1, <2>2
<1>14. stack'[Main] = r /\ \A t \in Thread : t # Main => stack'[t] = stack[t]
  BY <1>0, <1>1 DEF TypeOK, StackType
<1>15. ASSUME NEW t \in Thread, NEW m \in ToSet(tasks'[t]) \cup ToSet(batch'[t])
       PROVE  Waits(t, m)'
  <2> SUFFICES ASSUME m.kind \in Asked PROVE t = Main /\ At(m.thread, m.kind)'
    BY DEF Waits
  <2>1. m \in ToSet(tasks[t]) \cup ToSet(batch[t])
    BY <1>13 DEF NoMoreAsked
  <2>2. Waits(t, m)
    BY <2>1 DEF IInv, AskInv
  <2>3. tasks[t] \in Seq(MessageSet) /\ batch[t] \in Seq(MessageSet)
    BY <1>0 DEF TypeOK, QueueType
  <2>4. m \in MessageSet
    BY <2>1, <2>3 DEF ToSet
  <2>5. m.thread \in Thread \ {Main}
    BY <2>4, MessageValues
  <2> QED BY <1>14, <2>2, <2>5 DEF Waits, At, Top
<1>16. ASSUME NEW u \in Thread, NEW x \in Thread, At(u, "start")', Top(u)'.for = x
       PROVE  StartFor(u, x)'
  <2>1. CASE u # Main
    <3>1. At(u, "start") /\ Top(u).for = x
      BY <1>14, <1>16, <2>1 DEF At, Top
    <3> QED BY <2>1, <3>1 DEF IInv, AskInv, StartFor
  <2>2. CASE u = Main
    <3>1. x = q
      BY <1>8, <1>14, <1>16, <2>2 DEF Top
    <3>2. CASE q # Main
      BY <1>14, <2>2, <3>1, <3>2 DEF StartFor, At, Top
    <3>3. CASE q = Main
      <4>1. s # <<>> /\ Last(s).pc = "get" /\ Len(s) \in Nat \ {0} /\ Last(s) = s[Len(s)] /\ Len(s) \in 1..Len(s)
        BY <1>1, <3>3 DEF At, Top, Last
      <4>2. Len(r) >= 2 /\ Len(r) - 1 = Len(s)
        BY <1>8, <4>1
      <4>3. r[Len(r) - 1].pc = "get"
        BY <1>8, <4>1, <4>2
      <4> QED BY <1>14, <2>2, <3>1, <3>3, <4>2, <4>3 DEF StartFor
    <3> QED BY <3>2, <3>3
  <2> QED BY <2>1, <2>2
<1>17. AskInv'
  BY <1>12, <1>15, <1>16 DEF AskInv
<1> QED BY <1>10, <1>11, <1>13, <1>17 DEF Kept
-----------------------------------------------------------------------------
LEMMA CandidateIn ==
  ASSUME IInv, NEW asleep, NEW i \in Candidates(asleep)
  PROVE  workThreads[i] \in Worker /\ workThreads[i] \in Thread /\ workThreads[i] # None /\ Begun(workThreads[i])
<1>1. i \in DOMAIN workThreads /\ workThreads \in Seq(Worker)
  BY DEF Candidates, IInv, TypeOK, PoolType
<1>2. workThreads[i] \in ToSet(workThreads)
  BY <1>1 DEF ToSet
<1> QED BY <1>1, <1>2 DEF IInv, LifeInv, RefLife, Thread

LEMMA Selected ==
  ASSUME IInv, NEW q, SelectThread(q)
  PROVE  \/ \E w \in Worker : /\ Begun(w) /\ stack' = Answered(stack, q, w)
                              /\ UNCHANGED <<phase, threads>>
         \/ NewThread(Main, stack, q)
BY CandidateIn DEF SelectThread

LEMMA GetOwnStep ==
  ASSUME IInv, GetOwn
  PROVE  IInv'
<1>1. /\ At(Main, "get") /\ SelectThread(Main) /\ Main \in Thread
      /\ UNCHANGED <<told, tasks, batch, workThreads, gone, jobVars, bounds>>
  BY MainBegun DEF GetOwn
<1>2. ASSUME NEW w \in Worker, Begun(w), stack' = Answered(stack, Main, w), UNCHANGED <<phase, threads>>
      PROVE  IInv'
  <2>1. PICK r : Turn(Main, r, None, None, w)
    BY <1>1, <1>2, AnswerTurn
  <2>2. Main \notin Carried(Asks, Starts)
    BY <1>1, NotAsked DEF At
  <2>3. Kept(None, None)
    BY <1>1, <2>1, <2>2, TurnOnly
  <2>4. PoolType'
    BY <1>1, <1>2, PoolSame, Counted DEF bounds, lifeVars, poolVars
  <2> QED BY <1>1, <1>2, <2>3, <2>4, Steady, NothingFilled
<1>3. CASE NewThread(Main, stack, Main)
  <2>1. PICK w \in Worker, f \in FrameSet :
          Born(Main, w, f) /\ f.pc = "start" /\ f.for = Main /\ f.job = None
    BY <1>1, <1>3, BornOne
  <2>2. (\A t \in Thread : Begun(t) => Begun(t)') /\ PoolType' /\ QueueLife' /\ RefLife'
    BY <1>1, <2>1, BornLife, Counted DEF bounds
  <2>3. Top(Main).pc \in Below(Main)
    BY <1>1 DEF At, Below
  <2>4. Kept(None, None)
    BY <1>1, <2>1, <2>2, <2>3, BornFor
  <2>5. JobInv'
    BY <1>1, <2>4, JobsKept DEF IInv
  <2> QED BY <2>2, <2>4, <2>5 DEF IInv, Kept, TypeOK, LifeInv
<1> QED BY <1>1, <1>2, <1>3, Selected

LEMMA RunGetStep ==
  ASSUME IInv, RunGet
  PROVE  IInv'
<1> DEFINE q == Head(batch[Main]).thread
<1>1. /\ NextTask(Main, "get") /\ SelectThread(q) /\ Main \in Thread
      /\ UNCHANGED <<told, tasks, workThreads, gone, jobVars, bounds>>
  BY MainBegun DEF RunGet
<1>2. /\ Idle(Main)
      /\ batch[Main] # <<>> /\ batch' = [batch EXCEPT ![Main] = Tail(@)] /\ Filled
      /\ Head(batch[Main]) \in MessageSet /\ Head(batch[Main]).kind = "get"
      /\ Head(batch[Main]) \in ToSet(batch[Main])
  BY <1>1, NextOne
<1>3. q \in Thread \ {Main} /\ Asks[Head(batch[Main])] = q /\ Head(batch[Main]).job = None
  BY <1>2, MessageValues DEF Asked
<1>4. At(q, "get")
  <2>1. Waits(Main, Head(batch[Main]))
    BY <1>1, <1>2 DEF IInv, AskInv
  <2> QED BY <1>2, <2>1 DEF Waits, Asked
<1> HIDE DEF q
<1>5. ASSUME NEW w \in Worker, Begun(w), stack' = Answered(stack, q, w), UNCHANGED <<phase, threads>>
      PROVE  IInv'
  <2>1. PICK r : Turn(q, r, None, None, w)
    BY <1>3, <1>4, <1>5, AnswerTurn
  <2>2. Kept(None, None)
    BY <1>1, <1>2, <1>3, <2>1, TurnBatch
  <2>3. PoolType'
    BY <1>1, <1>5, PoolSame, Counted DEF bounds, lifeVars, poolVars
  <2> QED BY <1>1, <1>2, <1>5, <2>2, <2>3, Steady
<1>6. CASE NewThread(Main, stack, q)
  <2>1. PICK w \in Worker, f \in FrameSet :
          Born(Main, w, f) /\ f.pc = "start" /\ f.for = q /\ f.job = None
    BY <1>1, <1>3, <1>6, BornOne
  <2>2. (\A t \in Thread : Begun(t) => Begun(t)') /\ PoolType' /\ QueueLife' /\ RefLife'
    <3>1. \A t \in Thread : batch'[t] # <<>> => batch[t] # <<>>
      BY <1>1, <1>2 DEF IInv, TypeOK, QueueType
    <3> QED BY <1>1, <2>1, <3>1, BornLife, Counted DEF bounds
  <2>3. (stack[Main] = <<>> \/ Top(Main).pc \in Below(Main)) /\ ~At(Main, "start")
    BY <1>2 DEF Idle, Below, At
  <2>4. Kept(None, None)
    BY <1>1, <1>2, <1>3, <1>4, <2>1, <2>2, <2>3, BornFor
  <2>5. JobInv'
    BY <1>1, <2>4, JobsKept DEF IInv
  <2> QED BY <2>2, <2>4, <2>5 DEF IInv, Kept, TypeOK, LifeInv
<1> QED BY <1>1, <1>5, <1>6, Selected

(***************************************************************************)
(* A thread is started.                                                     *)
(***************************************************************************)
Started(w) ==
  /\ phase' = [phase EXCEPT ![w] = "open"]
  /\ \/ workThreads' = workThreads
     \/ workThreads' = Append(workThreads, w)
  /\ UNCHANGED <<told, tasks, batch, threads, gone, jobVars, bounds>>

\* No thread is forgotten: those that have begun still have.
OnlyBegins == \A t \in Thread : Begun(t) => Begun(t)'

\* The getThread() of q is answered by the thread w that Main has started for it.
Resumed(q, w) ==
  /\ At(Main, "start") /\ Top(Main).for = q
  /\ stack' = Answered(Pop(Main), q, w) /\ UNCHANGED <<tasks, batch>>
  /\ OnlyBegins /\ Begun(w)'

LEMMA StartLife ==
  ASSUME IInv, NEW w \in Worker, Started(w)
  PROVE  OnlyBegins /\ PoolType' /\ QueueLife' /\ RefLife' /\ Begun(w)'
<1> SUFFICES /\ \A t \in Thread : Begun(t) => Begun(t)'
             /\ PoolType' /\ QueueLife' /\ RefLife' /\ Begun(w)'
  BY DEF OnlyBegins
<1> USE DEF Started
<1>1. /\ phase'[w] = "open" /\ w # Main /\ w \in Thread
      /\ \A t \in Thread : t # w => phase'[t] = phase[t]
  BY DEF IInv, TypeOK, PoolType, Thread
<1>2. /\ \A t \in Thread : (Begun(t) => Begun(t)') /\ (phase[t] # "none" => phase'[t] # "none")
      /\ Begun(w)'
  BY <1>1 DEF Begun
<1>3. PoolType'
  <2>1. workThreads' \in Seq(Worker)
    BY DEF IInv, TypeOK, PoolType
  <2> QED BY <2>1 DEF IInv, TypeOK, PoolType, jobVars, bounds, Phases
<1>4. QueueLife'
  BY <1>1, MainBegun DEF IInv, LifeInv, QueueLife
<1>5. RefLife'
  <2>1. caller' = caller /\ threads' = threads
    BY DEF jobVars
  <2>2. (\A j \in Job : caller[j] \in Thread \cup {None}) /\ workThreads \in Seq(Worker) /\ threads \subseteq Worker
    BY DEF IInv, TypeOK, PoolType
  <2>3. ToSet(workThreads) \subseteq Worker /\ ToSet(workThreads') \subseteq ToSet(workThreads) \cup {w}
    BY <2>2, AppendedSet DEF ToSet
  <2> QED BY <1>1, <1>2, <2>1, <2>2, <2>3 DEF IInv, LifeInv, RefLife, Thread
<1> QED BY <1>2, <1>3, <1>4, <1>5

\* What is below the thread that is being started.
LEMMA UnderStart ==
  ASSUME IInv, NEW p \in Thread, At(p, "start"), NEW q, Top(p).for = q
  PROVE  LET s == stack[p]
             r == Front(s)
         IN /\ Fine(p, s) /\ s \in Seq(FrameSet) /\ s # <<>> /\ Fine(p, r) /\ r \in Seq(FrameSet)
            /\ r # <<>> => Last(r).pc \in Below(p)
            /\ Values(r, JobIn) = Values(s, JobIn) /\ Values(r, Starts) = Values(s, Starts) \ {q}
            /\ Values(r, PostTo) \subseteq Values(s, PostTo)
            /\ q # None => q \in Values(s, Starts)
<1> DEFINE s == stack[p]
           r == Front(s)
<1>1. Fine(p, s) /\ s \in Seq(FrameSet) /\ s # <<>> /\ Top(p) = Last(s) /\ Top(p) \in FrameSet
  BY AtTop DEF At, Fine, StackOK
<1>2. Starts[Last(s)] = q /\ JobIn[Last(s)] = None
  BY <1>1, FrameValues DEF At, FrameSet
<1>3. StackOK(p, s) /\ Once(s, JobIn) /\ Once(s, Starts)
  BY <1>1 DEF Fine
<1> HIDE DEF s
<1>4. /\ Starts[Last(s)] \in Values(s, Starts) \cup {None}
      /\ Once(s, Starts) => Once(r, Starts) /\ Values(r, Starts) = Values(s, Starts) \ {Starts[Last(s)]}
  BY <1>1, Popping
<1>5. Once(s, JobIn) => Once(r, JobIn) /\ Values(r, JobIn) = Values(s, JobIn) \ {JobIn[Last(s)]}
  BY <1>1, Popping
<1>6. Values(r, PostTo) \subseteq Values(s, PostTo) /\ r \in Seq(FrameSet)
  BY <1>1, Popping
<1>7. StackOK(p, r) /\ (r # <<>> => Last(r).pc \in Below(p))
  BY <1>1, <1>3, StackPop
<1> HIDE DEF r
<1>8. Fine(p, r)
  BY <1>3, <1>4, <1>5, <1>7 DEF Fine
<1>9. Values(r, JobIn) = Values(s, JobIn)
  BY <1>2, <1>3, <1>5, NoneValue
<1> QED BY <1>1, <1>2, <1>3, <1>4, <1>6, <1>7, <1>8, <1>9 DEF r, s

LEMMA StartKept ==
  ASSUME IInv, NEW w \in Worker, NEW q \in Thread, Resumed(q, w)
  PROVE  Kept(None, None)
<1> SUFFICES ASSUME At(Main, "start"), Top(Main).for = q,
                    stack' = Answered(Pop(Main), q, w), UNCHANGED <<tasks, batch>>,
                    \A t \in Thread : Begun(t) => Begun(t)', Begun(w)'
             PROVE  Kept(None, None)
  BY DEF Resumed, OnlyBegins
<1> DEFINE s == stack[Main]
           b == Front(s)
<1>0. TypeOK /\ CarriedOnce(JobOf, JobIn) /\ CarriedOnce(Asks, Starts) /\ Main \in Thread /\ Begun(Main)
      /\ q # None /\ w \in Thread
  BY MainBegun DEF IInv, AskInv, JobInv, Thread
<1>1. /\ Fine(Main, s) /\ s \in Seq(FrameSet) /\ s # <<>> /\ Fine(Main, b) /\ b \in Seq(FrameSet)
      /\ b # <<>> => Last(b).pc \in Below(Main)
      /\ Values(b, JobIn) = Values(s, JobIn) /\ Values(b, Starts) = Values(s, Starts) \ {q}
      /\ Values(b, PostTo) \subseteq Values(s, PostTo)
      /\ q \in Values(s, Starts)
  BY <1>0, UnderStart
<1>2. StartFor(Main, q)
  BY <1>0 DEF IInv, AskInv
<1>3. Begun(Main)'
  BY <1>0
<1>4. QueueType' /\ NoMoreAsked
  BY <1>0 DEF TypeOK, QueueType, NoMoreAsked
<1>5. CASE q = Main
  <2> DEFINE r == OnTop(b, [Last(b) EXCEPT !.pc = "post", !.thread = w])
  <2>1. b # <<>> /\ Last(b).pc = "get"
    <3>1. Len(s) >= 2 /\ s[Len(s) - 1].pc = "get"
      BY <1>2, <1>5 DEF StartFor
    <3>2. Len(b) = Len(s) - 1 /\ \A i \in 1..Len(b) : b[i] = s[i]
      BY <1>1, Popping, SMTT(30)
    <3>3. Len(s) \in Nat /\ Len(b) \in 1..Len(b)
      BY <1>1, <3>1, <3>2
    <3> QED BY <1>1, <3>1, <3>2, <3>3 DEF Last
  <2>2. Tame(Main, b, r, None, None, w)
    BY <1>0, <1>1, <2>1, AnswerTop
  <2>3. stack' = [stack EXCEPT ![Main] = r]
    <3>1. Pop(Main)[Main] = b
      BY <1>0 DEF Pop, TypeOK, StackType
    <3>2. stack' = [Pop(Main) EXCEPT ![Main] = r]
      BY <1>5, <3>1, Answering
    <3> QED BY <1>0, <3>2 DEF Pop, TypeOK, StackType
  <2> HIDE DEF s, b, r
  <2>4. Values(r, JobIn) = Swapped(Values(s, JobIn), None, None) /\ Once(r, JobIn) /\ Once(r, Starts)
    BY <1>1, <2>2 DEF Tame, Fine
  <2>5. Values(r, Starts) = Swapped(Values(s, Starts), q, None)
    BY <1>1, <2>2 DEF Tame, Swapped
  <2>6. StackMoves(JobOf, JobIn, Main, r, None, None) /\ StackMoves(Asks, Starts, Main, r, q, None)
    BY <1>1, <2>3, <2>4, <2>5 DEF StackMoves, s
  <2>7. CarriedOnce(JobOf, JobIn)' /\ Carried(JobOf, JobIn)' = Swapped(Carried(JobOf, JobIn), None, None)
    BY <1>0, <2>6, StackCarries
  <2>8. CarriedOnce(Asks, Starts)' /\ Carried(Asks, Starts)' = Swapped(Carried(Asks, Starts), q, None)
    BY <1>0, <2>6, StackCarries
  <2>9. Main \notin Carried(Asks, Starts)' /\ Carried(Asks, Starts)' \subseteq Carried(Asks, Starts)
    BY <1>5, <2>8 DEF Swapped
  <2>10. StackStep(Main, r, w) /\ (r = <<>> \/ Starts[Last(r)] = None)
    BY <1>1, <1>3, <2>2, <2>3 DEF StackStep, Tame, s
  <2>11. StackType' /\ StackLife'
    BY <1>0, <2>10, LifeTurn
  <2>12. AskInv'
    BY <1>0, <1>4, <2>8, <2>9, <2>10, AskKept
  <2> QED BY <1>4, <2>7, <2>11, <2>12 DEF Kept
<1>6. CASE q # Main
  <2> DEFINE a == stack[q]
             r == OnTop(a, [Last(a) EXCEPT !.pc = "post", !.thread = w])
  <2>1. At(q, "get") /\ Fine(q, a) /\ a # <<>> /\ Last(a).pc = "get"
    BY <1>2, <1>6, StackCarried DEF StartFor, At, Top
  <2>2. Tame(q, a, r, None, None, w)
    BY <2>1, AnswerTop
  <2>3. /\ stack'[Main] = b /\ stack'[q] = r
        /\ \A t \in Thread : t # Main /\ t # q => stack'[t] = stack[t]
        /\ stack' \in [Thread -> Seq(FrameSet)]
    <3>1. Pop(Main) = [stack EXCEPT ![Main] = b] /\ Pop(Main) \in [Thread -> Seq(FrameSet)]
      BY <1>0, <1>1 DEF Pop, TypeOK, StackType
    <3>2. Pop(Main)[q] = a
      BY <1>0, <1>6, <3>1 DEF TypeOK, StackType
    <3>3. stack' = [Pop(Main) EXCEPT ![q] = r]
      BY <3>2, Answering
    <3>4. r \in Seq(FrameSet)
      BY <2>2 DEF Tame, Fine, StackOK
    <3> HIDE DEF r, a, b, s
    <3> QED BY <1>0, <1>6, <3>1, <3>3, <3>4, ZenonT(60) DEF TypeOK, StackType
  <2> HIDE DEF s, b, r
  <2>4. Values(r, JobIn) = Values(a, JobIn) /\ Values(r, Starts) = Values(a, Starts)
    BY <2>2, NoneValue DEF Tame, Swapped
  <2> HIDE DEF a
  <2>5. \A t \in Thread : Once(tasks'[t], JobOf) /\ Once(batch'[t], JobOf) /\ Once(stack'[t], JobIn)
    BY <1>0, <1>1, <2>2, <2>3 DEF CarriedOnce, Tame, Fine
  <2>6. \A t \in Thread : Once(tasks'[t], Asks) /\ Once(batch'[t], Asks) /\ Once(stack'[t], Starts)
    BY <1>0, <1>1, <2>2, <2>3 DEF CarriedOnce, Tame, Fine
  <2>7. CarriedOnce(JobOf, JobIn)' /\ Carried(JobOf, JobIn)' = Swapped(Carried(JobOf, JobIn), None, None)
    <3>1. \A x \in Carriers : Content(JobOf, JobIn, x)' = Content(JobOf, JobIn, x)
      <4> TAKE x \in Carriers
      <4>1. PICK t \in Thread : x = <<"tasks", t>> \/ x = <<"batch", t>> \/ x = <<"stack", t>>
        BY CarrierCases
      <4>2. CASE x # <<"stack", Main>> /\ x # <<"stack", q>>
        BY <2>3, <4>1, <4>2 DEF Content
      <4>3. CASE x = <<"stack", Main>>
        BY <1>1, <2>3, <4>3 DEF Content, s
      <4>4. CASE x = <<"stack", q>>
        BY <2>3, <2>4, <4>4 DEF Content, a
      <4> QED BY <4>2, <4>3, <4>4
    <3>2. Carried(JobOf, JobIn)' = Carried(JobOf, JobIn)
      BY <3>1 DEF Carried
    <3> QED BY <1>0, <2>5, <3>1, <3>2, NoneCarried DEF CarriedOnce
  <2>8. CarriedOnce(Asks, Starts)' /\ Carried(Asks, Starts)' = (Carried(Asks, Starts) \ {q}) \cup ({None} \ {None})
    <3>1. <<"stack", Main>> \in Carriers /\ Content(Asks, Starts, <<"stack", Main>>) = Values(s, Starts)
      BY <1>0, Contents DEF Content, s
    <3>2. \A x \in Carriers :
            Content(Asks, Starts, x)' = Moved(x, Content(Asks, Starts, x), <<"stack", Main>>, q, <<"stack", Main>>, None)
      <4> TAKE x \in Carriers
      <4>1. PICK t \in Thread : x = <<"tasks", t>> \/ x = <<"batch", t>> \/ x = <<"stack", t>>
        BY CarrierCases
      <4>2. CASE x # <<"stack", Main>> /\ x # <<"stack", q>>
        BY <2>3, <4>1, <4>2 DEF Content, Moved
      <4>3. CASE x = <<"stack", Main>>
        BY <1>1, <2>3, <4>3 DEF Content, Moved, s
      <4>4. CASE x = <<"stack", q>>
        BY <1>6, <2>3, <2>4, <4>4 DEF Content, Moved, a
      <4> QED BY <4>2, <4>3, <4>4
    <3>3. Moves(Asks, Starts, <<"stack", Main>>, q, <<"stack", Main>>, None)
      BY <1>1, <3>1, <3>2 DEF Moves
    <3>4. CarriedOnce(Asks, Starts)' /\ Carried(Asks, Starts)' = Swapped(Carried(Asks, Starts), q, None)
      BY <1>0, <2>6, <3>1, <3>3, CarriedMoves
    <3> QED BY <3>4 DEF Swapped
  <2>9. StackType'
    <3>1. \A t \in Thread : StackOK(t, stack'[t])
      BY <1>0, <1>1, <2>2, <2>3 DEF Tame, Fine, TypeOK, StackType
    <3> QED BY <2>3, <3>1 DEF StackType, StackOK
  <2>10. StackLife'
    <3>1. ASSUME NEW t \in Thread
          PROVE  (stack'[t] # <<>> => Begun(t)') /\ \A v \in Values(stack'[t], PostTo) : Begun(v)'
      <4>0. \A v \in Values(stack[t], PostTo) : v \in Thread /\ Begun(v)
        <5>1. StackOK(t, stack[t])
          BY <1>0 DEF TypeOK, StackType
        <5>2. \A i \in DOMAIN stack[t] : stack[t][i] \in FrameSet
          BY <5>1 DEF StackOK
        <5>3. \A f \in FrameSet : PostTo[f] \in Thread \cup {None}
          BY DEF PostTo, FrameSet
        <5> QED BY <5>2, <5>3 DEF Values, IInv, LifeInv, StackLife
      <4>1. CASE t # Main /\ t # q
        BY <2>3, <4>0, <4>1 DEF IInv, LifeInv, StackLife
      <4>2. CASE t = Main
        BY <1>1, <1>3, <2>3, <4>0, <4>2 DEF s
      <4>3. CASE t = q
        <5>1. Begun(q)
          BY <2>1 DEF IInv, LifeInv, StackLife, a
        <5>2. Values(r, PostTo) \subseteq Values(stack[q], PostTo) \cup {w}
          BY <2>2 DEF Tame, a
        <5> QED BY <2>3, <4>0, <4>3, <5>1, <5>2
      <4> QED BY <4>1, <4>2, <4>3
    <3> QED BY <3>1 DEF StackLife, Values, PostTo
  <2>11. ASSUME NEW t \in Thread, NEW m \in ToSet(tasks'[t]) \cup ToSet(batch'[t])
         PROVE  Waits(t, m)'
    <3> SUFFICES ASSUME m.kind \in Asked PROVE t = Main /\ At(m.thread, m.kind)'
      BY DEF Waits
    <3>1. m \in ToSet(tasks[t]) \cup ToSet(batch[t])
      OBVIOUS
    <3>2. Waits(t, m)
      BY <3>1 DEF IInv, AskInv
    <3>3. tasks[t] \in Seq(MessageSet) /\ batch[t] \in Seq(MessageSet)
      BY <1>0 DEF TypeOK, QueueType
    <3>4. PICK i : \/ i \in DOMAIN tasks[t] /\ m = tasks[t][i]
                   \/ i \in DOMAIN batch[t] /\ m = batch[t][i]
      BY <3>1 DEF ToSet
    <3>5. m \in MessageSet
      BY <3>3, <3>4
    <3>6. Asks[m] = m.thread /\ m.thread \in Thread \ {Main}
      BY <3>5, MessageValues
    <3>7. m.thread \in Content(Asks, Starts, <<"tasks", t>>)' \cup Content(Asks, Starts, <<"batch", t>>)'
      BY <3>4, <3>6 DEF Content, Values
    <3>8. m.thread # q
      BY <2>8, <3>7, Contents DEF Carried
    <3> QED BY <2>3, <3>2, <3>6, <3>8 DEF Waits, At, Top
  <2>12. ASSUME NEW u \in Thread, NEW x \in Thread, At(u, "start")', Top(u)'.for = x
         PROVE  StartFor(u, x)'
    <3>1. u # Main
      BY <1>1, <2>3, <2>12 DEF At, Top, Below
    <3>2. u # q
      <4> SUFFICES ASSUME u = q PROVE FALSE
        OBVIOUS
      <4>1. r # <<>> /\ Last(r).pc = "start" /\ Last(r).for = x
        BY <2>3, <2>12 DEF At, Top
      <4>2. Starts[Last(r)] = None /\ r \in Seq(FrameSet)
        BY <2>2, <4>1 DEF Tame, Fine, StackOK
      <4>3. Last(r) \in FrameSet
        BY <4>1, <4>2 DEF Last
      <4> QED BY <1>0, <4>1, <4>2, <4>3, FrameValues DEF Thread
    <3>3. At(u, "start") /\ Top(u).for = x
      BY <2>3, <2>12, <3>1, <3>2 DEF At, Top
    <3> QED BY <3>1, <3>3 DEF IInv, AskInv, StartFor
  <2>13. AskInv'
    BY <2>8, <2>11, <2>12 DEF AskInv
  <2> QED BY <1>4, <2>7, <2>9, <2>10, <2>13 DEF Kept
<1> QED BY <1>5, <1>6

LEMMA StartThreadStep ==
  ASSUME IInv, NEW p \in Thread, StartThread(p)
  PROVE  IInv'
<1>0. At(p, "start") /\ Top(p) \in FrameSet /\ Top(p).thread \in Worker /\ Top(p).for \in Thread \cup {None}
      /\ Top(p).job = None
  <2>1. At(p, "start")
    BY DEF StartThread
  <2>2. Top(p) \in FrameSet /\ Top(p).pc = "start"
    BY <2>1, AtTop DEF At
  <2> QED BY <2>1, <2>2 DEF FrameSet
<1> PICK w \in Worker : w = Top(p).thread
  BY <1>0
<1> PICK q \in Thread \cup {None} : q = Top(p).for
  BY <1>0
<1>1. /\ stack[p] # <<>> /\ Top(p).pc = "start" /\ phase' = [phase EXCEPT ![w] = "open"]
      /\ \/ q = None /\ stack' = Pop(p) /\ UNCHANGED workThreads
         \/ q # None /\ workThreads' = Append(workThreads, w) /\ stack' = Answered(Pop(p), q, w)
      /\ UNCHANGED <<told, tasks, batch, threads, gone, jobVars, bounds>>
  BY DEF StartThread, At
<1>3. OnlyBegins /\ PoolType' /\ QueueLife' /\ RefLife' /\ Begun(w)'
  <2>1. workThreads' = workThreads \/ workThreads' = Append(workThreads, w)
    BY <1>1
  <2>2. UNCHANGED <<told, tasks, batch, threads, gone, jobVars, bounds>> /\ phase' = [phase EXCEPT ![w] = "open"]
    BY <1>1
  <2>3. Started(w)
    BY <2>1, <2>2 DEF Started
  <2> QED BY <2>3, StartLife
<1>4. Kept(None, None)
  <2>1. CASE q = None
    <3>1. Turn(p, Front(stack[p]), None, None, None)
      BY <1>0, <1>1, <1>3, <2>1, PopTurn DEF OnlyBegins
    <3>2. p \notin Carried(Asks, Starts)
      BY <1>0, <1>1, <2>1, MainBegun, NotAsked DEF At, Thread
    <3> QED BY <1>1, <3>1, <3>2, TurnOnly
  <2>2. CASE q # None
    <3>1. p = Main
      BY <1>0, <1>1, <2>2 DEF IInv, AskInv, StartFor
    <3>2. stack' = Answered(Pop(Main), q, w) /\ Top(Main).for = q /\ At(Main, "start") /\ UNCHANGED <<tasks, batch>>
      BY <1>0, <1>1, <2>2, <3>1
    <3>3. Resumed(q, w) /\ q \in Thread
      BY <1>3, <2>2, <3>2 DEF Resumed
    <3> QED BY <3>3, StartKept
  <2> QED BY <2>1, <2>2
<1>5. JobInv'
  BY <1>1, <1>4, JobsKept DEF IInv
<1> QED BY <1>3, <1>4, <1>5 DEF IInv, Kept, TypeOK, LifeInv
-----------------------------------------------------------------------------
(***************************************************************************)
(* The invariant.                                                           *)
(***************************************************************************)
LEMMA Initially == Init => IInv
<1> SUFFICES ASSUME Init PROVE IInv
  OBVIOUS
<1>1. TypeOK
  <2>1. /\ tasks = [t \in Thread |-> <<>>] /\ batch = [t \in Thread |-> <<>>]
        /\ stack = [t \in Thread |-> <<>>]
    BY DEF Init
  <2>2. <<>> \in Seq(MessageSet) /\ <<>> \in Seq(FrameSet)
    OBVIOUS
  <2>3. \A p \in Thread : StackOK(p, <<>>)
    BY <2>2 DEF StackOK
  <2>4. StackType
    BY <2>1, <2>2, <2>3 DEF StackType
  <2>5. QueueType
    BY <2>1, <2>2 DEF QueueType
  <2>6. phase \in [Thread -> Phases] /\ told \in [Thread -> BOOLEAN] /\ caller \in [Job -> Thread \cup {None}]
    BY DEF Init, Phases
  <2>7. workThreads \in Seq(Worker)
    BY DEF Init
  <2>8. PoolType
    BY <2>6, <2>7 DEF Init, PoolType
  <2> QED BY <2>4, <2>5, <2>8 DEF TypeOK
<1>2. \A V : Values(<<>>, V) = {} /\ Once(<<>>, V)
  BY Nothing
<1>3. \A V, U : CarriedOnce(V, U) /\ Carried(V, U) = {}
  <2> TAKE V, U
  <2>1. \A t \in Thread : tasks[t] = <<>> /\ batch[t] = <<>> /\ stack[t] = <<>>
    BY DEF Init
  <2>2. \A x \in Carriers : Content(V, U, x) = {}
    BY <1>2, <2>1, CarrierCases DEF Content
  <2> QED BY <1>2, <2>1, <2>2 DEF CarriedOnce, Carried
<1>4. AskInv
  BY <1>2, <1>3 DEF AskInv, Init, At, ToSet
<1>5. LifeInv
  BY <1>2 DEF LifeInv, QueueLife, StackLife, RefLife, Init, Thread, ToSet
<1>6. JobInv
  BY <1>3 DEF JobInv, Init
<1> QED BY <1>1, <1>4, <1>5, <1>6 DEF IInv

LEMMA Stuttering ==
  ASSUME IInv, UNCHANGED vars
  PROVE  IInv'
<1>1. TypeOK'
  BY DEF vars, IInv, TypeOK, StackType, QueueType, PoolType, lifeVars, poolVars, jobVars, bounds
<1>2. AskInv'
  BY DEF vars, IInv, AskInv, Waits, StartFor, At, Top, CarriedOnce, Content
<1>3. LifeInv'
  BY DEF vars, IInv, LifeInv, QueueLife, StackLife, RefLife, Begun, lifeVars, poolVars, jobVars
<1>4. JobInv'
  BY DEF vars, IInv, JobInv, CarriedOnce, Content, Carried, jobVars
<1> QED BY <1>1, <1>2, <1>3, <1>4 DEF IInv

LEMMA EveryStep == IInv /\ [Next]_vars => IInv'
<1> SUFFICES ASSUME IInv, [Next]_vars PROVE IInv'
  OBVIOUS
<1>1. ASSUME NEW t \in Thread, Step(t) PROVE IInv'
  BY <1>1, TakeStep, CloseStep, EndStep, RunJobStep, RunResultStep, ReturnStep, JobReturnsStep,
     StartThreadStep, PostJobStep, UnlistStep, TellStep, HandStep, FlushStep, QuitNextStep, QuitEndsStep
     DEF Step
<1>2. CASE MainStep
  BY <1>1, <1>2, MainBegun, GetOwnStep, EraseOwnStep, RunGetStep, RunEraseStep, RunDeleteStep, SwapStep,
     ProcessedStep, TeardownStep DEF MainStep
<1>3. CASE CallStep
  BY <1>3, AsyncStep, AsyncOnStep, DestroyStep, CreateStep, QuitStep, ExitStep DEF CallStep
<1>4. CASE \E t \in Worker \cup Other : Step(t)
  BY <1>1, <1>4 DEF Thread
<1>5. CASE \E t \in Other \cup {Main} : Callback(t)
  BY <1>5, CallbackStep DEF Thread
<1>6. CASE AtRest \/ UNCHANGED vars
  BY <1>6, Stuttering DEF AtRest
<1> QED BY <1>2, <1>3, <1>4, <1>5, <1>6 DEF Next

LEMMA Invariant == Spec => []IInv
BY Initially, EveryStep, PTL DEF Spec

\* Types.
THEOREM TypeCorrect == Spec => []TypeOK
<1>1. IInv => TypeOK
  BY DEF IInv
<1> QED BY <1>1, Invariant, PTL

-----------------------------------------------------------------------------
(***************************************************************************)
(* A job in one place.                                                      *)
(***************************************************************************)
LEMMA SiteIn ==
  ASSUME NEW name, NEW s, NEW j, NEW y
  PROVE  y \in Sites(name, s, j) <=>
           \E t \in DOMAIN s : \E i \in DOMAIN s[t] : s[t][i].job = j /\ y = <<name, <<t, i>>>>
BY DEF Sites

\* The places in a queue or a stack: a singleton where the job is, else none.
LEMMA SitesOf ==
  ASSUME NEW name, NEW s, NEW j \in Job, NEW V,
         \A t \in DOMAIN s : \A i \in DOMAIN s[t] : V[s[t][i]] = s[t][i].job,
         \A t \in DOMAIN s : Once(s[t], V),
         \A t, u \in DOMAIN s : j \in Values(s[t], V) /\ j \in Values(s[u], V) => t = u
  PROVE  IF \E t \in DOMAIN s : j \in Values(s[t], V)
         THEN \E y : Sites(name, s, j) = {<<name, y>>}
         ELSE Sites(name, s, j) = {}
<1>0. j # None
  OBVIOUS
<1>1. CASE ~\E t \in DOMAIN s : j \in Values(s[t], V)
  <2>1. \A t \in DOMAIN s : \A i \in DOMAIN s[t] : s[t][i].job # j
    BY <1>0, <1>1 DEF Values
  <2>2. \A y : y \notin Sites(name, s, j)
    BY <2>1, SiteIn
  <2> QED BY <1>1, <2>2
<1>2. CASE \E t \in DOMAIN s : j \in Values(s[t], V)
  <2>1. PICK t \in DOMAIN s : j \in Values(s[t], V)
    BY <1>2
  <2>2. PICK i \in DOMAIN s[t] : j = V[s[t][i]]
    BY <2>1 DEF Values
  <2>3. \A u \in DOMAIN s : \A k \in DOMAIN s[u] : s[u][k].job = j => u = t /\ k = i
    <3> SUFFICES ASSUME NEW u \in DOMAIN s, NEW k \in DOMAIN s[u], s[u][k].job = j PROVE u = t /\ k = i
      OBVIOUS
    <3>1. V[s[u][k]] = j
      OBVIOUS
    <3>2. u = t
      BY <1>0, <2>1, <3>1 DEF Values
    <3> QED BY <1>0, <2>2, <3>1, <3>2 DEF Once
  <2>4. s[t][i].job = j
    BY <2>2
  <2>5. \A y : y \in Sites(name, s, j) <=> y = <<name, <<t, i>>>>
    BY <2>3, <2>4, SiteIn
  <2>6. Sites(name, s, j) = {<<name, <<t, i>>>>}
    BY <2>5
  <2> QED BY <1>2, <2>6
<1> QED BY <1>1, <1>2

LEMMA OnePlace ==
  ASSUME IInv, NEW j \in Job, caller[j] # None
  PROVE  \E y : Places(j) = {y}
<1> DEFINE tasksA == [t \in Alive |-> tasks[t]]
           batchA == [t \in Alive |-> batch[t]]
<1>1. /\ \A t \in Thread : Once(tasks[t], JobOf) /\ Once(batch[t], JobOf) /\ Once(stack[t], JobIn)
      /\ \A x, y \in Carriers : x # y => Content(JobOf, JobIn, x) \cap Content(JobOf, JobIn, y) = {}
  BY DEF IInv, JobInv, CarriedOnce
<1>2. /\ \A t \in Thread : Content(JobOf, JobIn, <<"tasks", t>>) = Values(tasks[t], JobOf)
      /\ \A t \in Thread : Content(JobOf, JobIn, <<"batch", t>>) = Values(batch[t], JobOf)
      /\ \A t \in Thread : Content(JobOf, JobIn, <<"stack", t>>) = Values(stack[t], JobIn)
  BY DEF Content
<1>3. /\ \A t, u \in Thread : j \in Values(tasks[t], JobOf) /\ j \in Values(tasks[u], JobOf) => t = u
      /\ \A t, u \in Thread : j \in Values(batch[t], JobOf) /\ j \in Values(batch[u], JobOf) => t = u
      /\ \A t, u \in Thread : j \in Values(stack[t], JobIn) /\ j \in Values(stack[u], JobIn) => t = u
      /\ \A t, u \in Thread : ~(j \in Values(tasks[t], JobOf) /\ j \in Values(batch[u], JobOf))
      /\ \A t, u \in Thread : ~(j \in Values(tasks[t], JobOf) /\ j \in Values(stack[u], JobIn))
      /\ \A t, u \in Thread : ~(j \in Values(batch[t], JobOf) /\ j \in Values(stack[u], JobIn))
  <2>0. \A t \in Thread : <<"tasks", t>> \in Carriers /\ <<"batch", t>> \in Carriers /\ <<"stack", t>> \in Carriers
    BY DEF Carriers
  <2>1. SUFFICES ASSUME NEW t \in Thread, NEW u \in Thread
                 PROVE  /\ j \in Values(tasks[t], JobOf) /\ j \in Values(tasks[u], JobOf) => t = u
                        /\ j \in Values(batch[t], JobOf) /\ j \in Values(batch[u], JobOf) => t = u
                        /\ j \in Values(stack[t], JobIn) /\ j \in Values(stack[u], JobIn) => t = u
                        /\ ~(j \in Values(tasks[t], JobOf) /\ j \in Values(batch[u], JobOf))
                        /\ ~(j \in Values(tasks[t], JobOf) /\ j \in Values(stack[u], JobIn))
                        /\ ~(j \in Values(batch[t], JobOf) /\ j \in Values(stack[u], JobIn))
    OBVIOUS
  <2>2. \A x, y \in Carriers : j \in Content(JobOf, JobIn, x) /\ j \in Content(JobOf, JobIn, y) => x = y
    BY <1>1
  <2>3. j \in Values(tasks[t], JobOf) /\ j \in Values(tasks[u], JobOf) => <<"tasks", t>> = <<"tasks", u>>
    BY <1>2, <2>0, <2>2
  <2>4. j \in Values(batch[t], JobOf) /\ j \in Values(batch[u], JobOf) => <<"batch", t>> = <<"batch", u>>
    BY <1>2, <2>0, <2>2
  <2>5. j \in Values(stack[t], JobIn) /\ j \in Values(stack[u], JobIn) => <<"stack", t>> = <<"stack", u>>
    BY <1>2, <2>0, <2>2
  <2>6. j \in Values(tasks[t], JobOf) /\ j \in Values(batch[u], JobOf) => <<"tasks", t>> = <<"batch", u>>
    BY <1>2, <2>0, <2>2
  <2>7. j \in Values(tasks[t], JobOf) /\ j \in Values(stack[u], JobIn) => <<"tasks", t>> = <<"stack", u>>
    BY <1>2, <2>0, <2>2
  <2>8. j \in Values(batch[t], JobOf) /\ j \in Values(stack[u], JobIn) => <<"batch", t>> = <<"stack", u>>
    BY <1>2, <2>0, <2>2
  <2> QED BY <2>3, <2>4, <2>5, <2>6, <2>7, <2>8
<1>4. /\ DOMAIN tasksA = Alive /\ DOMAIN batchA = Alive /\ Alive \subseteq Thread /\ DOMAIN stack = Thread
      /\ \A t \in Alive : tasksA[t] = tasks[t] /\ batchA[t] = batch[t]
      /\ \A t \in Thread : tasks[t] # <<>> \/ batch[t] # <<>> => t \in Alive
  BY DEF Alive, IInv, LifeInv, QueueLife, TypeOK, StackType
<1>5. /\ \A t \in Thread : j \in Values(tasks[t], JobOf) => t \in Alive
      /\ \A t \in Thread : j \in Values(batch[t], JobOf) => t \in Alive
  BY <1>4, Nothing
<1>6. /\ \A t \in Thread : \A i \in DOMAIN tasks[t] : JobOf[tasks[t][i]] = tasks[t][i].job
      /\ \A t \in Thread : \A i \in DOMAIN batch[t] : JobOf[batch[t][i]] = batch[t][i].job
      /\ \A t \in Thread : \A i \in DOMAIN stack[t] : JobIn[stack[t][i]] = stack[t][i].job
  <2>1. \A t \in Thread : tasks[t] \in Seq(MessageSet) /\ batch[t] \in Seq(MessageSet) /\ stack[t] \in Seq(FrameSet)
    BY DEF IInv, TypeOK, QueueType, StackType
  <2>2. /\ \A t \in Thread : \A i \in DOMAIN tasks[t] : tasks[t][i] \in MessageSet
        /\ \A t \in Thread : \A i \in DOMAIN batch[t] : batch[t][i] \in MessageSet
        /\ \A t \in Thread : \A i \in DOMAIN stack[t] : stack[t][i] \in FrameSet
    BY <2>1
  <2> QED BY <2>2 DEF JobOf, JobIn
<1> HIDE DEF tasksA, batchA
<1>7. IF \E t \in Thread : j \in Values(stack[t], JobIn)
      THEN \E y : Sites("stack", stack, j) = {<<"stack", y>>}
      ELSE Sites("stack", stack, j) = {}
  BY <1>1, <1>3, <1>4, <1>6, SitesOf, ZenonT(60)
<1>8. IF \E t \in Thread : j \in Values(tasks[t], JobOf)
      THEN \E y : Sites("tasks", tasksA, j) = {<<"tasks", y>>}
      ELSE Sites("tasks", tasksA, j) = {}
  <2>1. IF \E t \in DOMAIN tasksA : j \in Values(tasksA[t], JobOf)
        THEN \E y : Sites("tasks", tasksA, j) = {<<"tasks", y>>}
        ELSE Sites("tasks", tasksA, j) = {}
    <3>1. \A t \in DOMAIN tasksA : \A i \in DOMAIN tasksA[t] : JobOf[tasksA[t][i]] = tasksA[t][i].job
      BY <1>4, <1>6
    <3>2. \A t \in DOMAIN tasksA : Once(tasksA[t], JobOf)
      BY <1>1, <1>4
    <3>3. \A t, u \in DOMAIN tasksA : j \in Values(tasksA[t], JobOf) /\ j \in Values(tasksA[u], JobOf) => t = u
      BY <1>3, <1>4
    <3> QED BY <3>1, <3>2, <3>3, SitesOf
  <2>2. (\E t \in DOMAIN tasksA : j \in Values(tasksA[t], JobOf)) <=> \E t \in Thread : j \in Values(tasks[t], JobOf)
    BY <1>4, <1>5
  <2> QED BY <2>1, <2>2
<1>9. IF \E t \in Thread : j \in Values(batch[t], JobOf)
      THEN \E y : Sites("batch", batchA, j) = {<<"batch", y>>}
      ELSE Sites("batch", batchA, j) = {}
  <2>1. IF \E t \in DOMAIN batchA : j \in Values(batchA[t], JobOf)
        THEN \E y : Sites("batch", batchA, j) = {<<"batch", y>>}
        ELSE Sites("batch", batchA, j) = {}
    <3>1. \A t \in DOMAIN batchA : \A i \in DOMAIN batchA[t] : JobOf[batchA[t][i]] = batchA[t][i].job
      BY <1>4, <1>6
    <3>2. \A t \in DOMAIN batchA : Once(batchA[t], JobOf)
      BY <1>1, <1>4
    <3>3. \A t, u \in DOMAIN batchA : j \in Values(batchA[t], JobOf) /\ j \in Values(batchA[u], JobOf) => t = u
      BY <1>3, <1>4
    <3> QED BY <3>1, <3>2, <3>3, SitesOf
  <2>2. (\E t \in DOMAIN batchA : j \in Values(batchA[t], JobOf)) <=> \E t \in Thread : j \in Values(batch[t], JobOf)
    BY <1>4, <1>5
  <2> QED BY <2>1, <2>2
<1>10. Places(j) = Sites("stack", stack, j) \cup Sites("tasks", tasksA, j) \cup Sites("batch", batchA, j)
                   \cup ({"ended"} \X (ended \cap {j})) \cup ({"dropped"} \X (dropped \cap {j}))
  BY DEF Places, tasksA, batchA
<1>11. /\ ended \cap dropped = {} /\ Carried(JobOf, JobIn) \cap (ended \cup dropped) = {}
       /\ j \in Carried(JobOf, JobIn) \cup ended \cup dropped
  BY DEF IInv, JobInv
<1>12. j \in Carried(JobOf, JobIn) <=>
         \/ \E t \in Thread : j \in Values(stack[t], JobIn)
         \/ \E t \in Thread : j \in Values(tasks[t], JobOf)
         \/ \E t \in Thread : j \in Values(batch[t], JobOf)
  <2>1. Carried(JobOf, JobIn) = UNION {Content(JobOf, JobIn, x) : x \in Carriers}
    BY DEF Carried
  <2>2. ASSUME j \in Carried(JobOf, JobIn)
        PROVE  \/ \E t \in Thread : j \in Values(stack[t], JobIn)
               \/ \E t \in Thread : j \in Values(tasks[t], JobOf)
               \/ \E t \in Thread : j \in Values(batch[t], JobOf)
    <3>1. PICK x \in Carriers : j \in Content(JobOf, JobIn, x)
      BY <2>1, <2>2
    <3>2. PICK t \in Thread : x = <<"tasks", t>> \/ x = <<"batch", t>> \/ x = <<"stack", t>>
      BY CarrierCases
    <3> QED BY <1>2, <3>1, <3>2
  <2>3. ASSUME NEW t \in Thread,
               j \in Values(stack[t], JobIn) \cup Values(tasks[t], JobOf) \cup Values(batch[t], JobOf)
        PROVE  j \in Carried(JobOf, JobIn)
    BY <1>2, <2>1, <2>3, Contents
  <2> QED BY <2>2, <2>3
<1>13. /\ {"ended"} \X (ended \cap {j}) = IF j \in ended THEN {<<"ended", j>>} ELSE {}
       /\ {"dropped"} \X (dropped \cap {j}) = IF j \in dropped THEN {<<"dropped", j>>} ELSE {}
  OBVIOUS
<1>14. CASE j \in ended \cup dropped
  BY <1>7, <1>8, <1>9, <1>10, <1>11, <1>12, <1>13, <1>14
<1>15. CASE j \in Carried(JobOf, JobIn)
  BY <1>3, <1>7, <1>8, <1>9, <1>10, <1>11, <1>12, <1>13, <1>15
<1> QED BY <1>11, <1>14, <1>15

(***************************************************************************)
(* A job given to async() is in one place, whatever the users do: being     *)
(* routed by getThread(), in the queue or the batch of a thread that has    *)
(* not been deleted, running, or its result on the way; or it was delivered *)
(* or refused by a thread that has finished, and not both.  invoke() and    *)
(* the answers of getThread() never lose one or run it twice, even when     *)
(* workers are destroyed under those who use them.                          *)
(***************************************************************************)
THEOREM JobsNeverLost == Spec => []JobInOnePlace
<1>1. IInv => JobInOnePlace
  <2> SUFFICES ASSUME IInv, NEW j \in Job, caller[j] # None PROVE Cardinality(Places(j)) = 1
    BY DEF JobInOnePlace
  <2>1. PICK y : Places(j) = {y}
    BY OnePlace
  <2> QED BY <2>1, FS_Singleton
<1> QED BY <1>1, Invariant, PTL
-----------------------------------------------------------------------------
(***************************************************************************)
(* Coordinated users.  A worker is claimed by a frame of the call that      *)
(* destroys it, or by the message that has Main delete it.                  *)
(***************************************************************************)
Coordinated == ~Uncoordinated

Claims == {"flush"} \cup DestroyPc
Destroys == [f \in FrameSet |-> IF f.pc \in Claims THEN f.thread ELSE None]
Deletes == [m \in MessageSet |-> IF m.kind = "delete" THEN m.thread ELSE None]
Claimed == Carried(Deletes, Destroys)
ToldOff(w) == told[w] \/ phase[w] # "open"

(***************************************************************************)
(* The calls of other threads, those of quit(), and the results owed to     *)
(* workers keep apart.                                                      *)
(***************************************************************************)
AloneInv == told[Main] => ~Foreign(OpPc) /\ ~OwedToWorkers
ApartInv ==
  /\ Foreign(AskPc) => Leaving = {}
  /\ Quitting => ~Foreign(AskPc \cup {"start"}) /\ ~OwedToWorkers

\* One quit() at a time, and what is being destroyed then is above it on the same stack.
QuitsFirst(p, s, q, r) ==
  \A i \in 1..Len(s), k \in 1..Len(r) :
    s[i].pc = "quit" /\ r[k].pc \in DestroyPc \cup {"quit"} => p = q /\ i <= k
QuitInv == \A p, q \in Thread : QuitsFirst(p, stack[p], q, stack[q])

TeardownInv == gone => phase[Main] = "finished" /\ workThreads = <<>> /\ In({"get", "start"}) = {}
RunInv ==
  \A t \in Thread : /\ phase[t] \in {"closing", "finished"} => told[t]
                    /\ t # Main /\ stack[t] # <<>> => phase[t] \in {"open", "closing"}

(***************************************************************************)
(* A worker is in threads_ until the call that destroys it has taken it     *)
(* out; what uses it meanwhile is done by then.                             *)
(***************************************************************************)
ClaimInv ==
  /\ CarriedOnce(Deletes, Destroys)
  /\ \A x \in In({"erase", "unlist"}) : x[2].thread \in threads
  /\ \A x \in In({"tell", "hand", "flush"}) : x[2].thread \notin threads
  /\ \A x \in In({"hand", "flush"}) : ToldOff(x[2].thread)
  /\ \A m \in Queued : m.kind = "delete" => m.thread \notin threads /\ ToldOff(m.thread)
  /\ \A w \in Worker : phase[w] \notin {"none", "deleted"} <=> w \in threads \cup Claimed
UseInv ==
  /\ \A x \in In({"start", "post"}) :
       x[2].thread \in threads /\ \A y \in In({"unlist"}) : y[2].thread # x[2].thread
  /\ \A x \in In({"start"}), y \in In({"erase"}) : x[1] # Main => y[2].thread # x[2].thread
StartInv ==
  /\ \A x \in In({"start"}) :
       phase[x[2].thread] = "made" /\ (x[2].for # None => Len(workThreads) < WorkThreads)
  /\ \A x, y \in In({"start"}) : x[2].thread = y[2].thread => x = y
WorkInv ==
  /\ \A i, k \in DOMAIN workThreads : workThreads[i] = workThreads[k] => i = k
  /\ ToSet(workThreads) \subseteq threads /\ Len(workThreads) <= WorkThreads
  /\ \A x \in In({"unlist"}) : x[2].thread \notin ToSet(workThreads)
OwedInv == \A w \in Worker : Owed(w) => w \in threads /\ w \notin Leaving

SharedInv == AloneInv /\ ApartInv /\ QuitInv /\ TeardownInv /\ RunInv
WorkerInv == ClaimInv /\ UseInv /\ StartInv /\ WorkInv /\ OwedInv
CoordInv == SharedInv /\ WorkerInv

-----------------------------------------------------------------------------
(***************************************************************************)
(* Frames of the stacks.                                                    *)
(***************************************************************************)
LEMMA FramesAre ==
  ASSUME NEW x
  PROVE  x \in Frames <=> \E p \in Thread : \E i \in 1..Len(stack[p]) : x = <<p, stack[p][i]>>
BY DEF Frames

LEMMA InIs ==
  ASSUME NEW pcs, NEW x
  PROVE  x \in In(pcs) <=> \E p \in Thread : \E i \in 1..Len(stack[p]) :
                             x = <<p, stack[p][i]>> /\ stack[p][i].pc \in pcs
BY FramesAre DEF In

LEMMA StackIs ==
  ASSUME IInv, NEW p \in Thread
  PROVE  /\ StackOK(p, stack[p]) /\ stack[p] \in Seq(FrameSet) /\ Len(stack[p]) \in Nat
         /\ DOMAIN stack[p] = 1..Len(stack[p]) /\ stack \in [Thread -> Seq(FrameSet)]
         /\ \A i \in 1..Len(stack[p]) : stack[p][i] \in FrameSet
<1>1. StackOK(p, stack[p]) /\ stack[p] \in Seq(FrameSet) /\ stack \in [Thread -> Seq(FrameSet)]
  BY DEF IInv, TypeOK, StackType, StackOK
<1> QED BY <1>1

LEMMA InFrame ==
  ASSUME IInv, NEW pcs, NEW x \in In(pcs)
  PROVE  x[1] \in Thread /\ x[2] \in FrameSet /\ x[2].pc \in pcs /\ x = <<x[1], x[2]>> /\ stack[x[1]] # <<>>
<1>1. PICK p \in Thread : \E i \in 1..Len(stack[p]) : x = <<p, stack[p][i]>> /\ stack[p][i].pc \in pcs
  BY InIs
<1>2. PICK i \in 1..Len(stack[p]) : x = <<p, stack[p][i]>> /\ stack[p][i].pc \in pcs
  BY <1>1
<1>3. stack[p][i] \in FrameSet /\ stack[p] # <<>>
  BY StackIs
<1> QED BY <1>2, <1>3

LEMMA TopIn ==
  ASSUME IInv, NEW p \in Thread, NEW pcs, stack[p] # <<>>, Top(p).pc \in pcs
  PROVE  <<p, Top(p)>> \in In(pcs)
<1>1. Len(stack[p]) \in 1..Len(stack[p]) /\ Top(p) = stack[p][Len(stack[p])]
  BY StackIs DEF Top, Last
<1> QED BY <1>1, InIs

\* The frames that are always on top.
LEMMA OnlyTop ==
  ASSUME IInv, NEW pcs, NEW x \in In(pcs), x[2].pc \notin Below(x[1])
  PROVE  stack[x[1]] # <<>> /\ x[2] = Top(x[1])
<1>1. PICK p \in Thread : \E i \in 1..Len(stack[p]) : x = <<p, stack[p][i]>>
  BY InIs
<1>2. PICK i \in 1..Len(stack[p]) : x = <<p, stack[p][i]>>
  BY <1>1
<1>3. i = Len(stack[p])
  BY <1>2, StackIs DEF StackOK
<1> QED BY <1>2, <1>3, StackIs DEF Top, Last

\* The frames of operations that a step adds are in N.
Adds(N) == In(OpPc)' \subseteq In(OpPc) \cup N

LEMMA AddsIn ==
  ASSUME NEW N, Adds(N), NEW pcs, pcs \subseteq OpPc
  PROVE  In(pcs)' \subseteq In(pcs) \cup {x \in N : x[2].pc \in pcs}
BY DEF Adds, In

\* Stack s becomes r: the frames of r are those of s, and f.
Gains(s, r, f) == \A i \in 1..Len(r) : r[i].pc \in OpPc => r[i] = f \/ \E k \in 1..Len(s) : r[i] = s[k]

LEMMA GainsAdds ==
  ASSUME IInv, NEW p \in Thread, NEW r, NEW f, stack' = [stack EXCEPT ![p] = r], Gains(stack[p], r, f)
  PROVE  Adds({<<p, f>>}) /\ (f.pc \notin OpPc => Adds({}))
<1>1. stack'[p] = r /\ \A t \in Thread : t # p => stack'[t] = stack[t]
  BY StackIs
<1>2. ASSUME NEW x \in In(OpPc)' PROVE x \in In(OpPc) \/ (x = <<p, f>> /\ f.pc \in OpPc)
  <2>1. PICK t \in Thread : \E i \in 1..Len(stack'[t]) : x = <<t, stack'[t][i]>> /\ stack'[t][i].pc \in OpPc
    BY DEF In, Frames
  <2>2. PICK i \in 1..Len(stack'[t]) : x = <<t, stack'[t][i]>> /\ stack'[t][i].pc \in OpPc
    BY <2>1
  <2>3. CASE t = p
    BY <1>1, <2>2, <2>3, InIs DEF Gains
  <2>4. CASE t # p
    BY <1>1, <2>2, <2>4, InIs
  <2> QED BY <2>3, <2>4
<1> QED BY <1>2 DEF Adds

(***************************************************************************)
(* A stack whose top changes by one frame.                                  *)
(***************************************************************************)
\* s may become r as far as quit() is concerned.
QuitKept(s, r) ==
  \A i \in 1..Len(r) : r[i].pc \in DestroyPc \cup {"quit"} =>
    /\ i \in 1..Len(s) /\ s[i].pc \in DestroyPc \cup {"quit"}
    /\ r[i].pc = "quit" <=> s[i].pc = "quit"
\* s claims what r claims.
ClaimsKept(s, r) == Once(r, Destroys) /\ Values(r, Destroys) = Values(s, Destroys)

LEMMA ClaimOf ==
  ASSUME NEW f \in FrameSet
  PROVE  /\ f.pc \in Claims => Destroys[f] = f.thread /\ f.thread \in Worker /\ f.thread # None
         /\ f.pc \notin Claims => Destroys[f] = None
BY DEF Destroys, FrameSet, Claims, DestroyPc, Thread

LEMMA GainPush ==
  ASSUME NEW s \in Seq(FrameSet), NEW f \in FrameSet
  PROVE  /\ Gains(s, Append(s, f), f)
         /\ f.pc \notin DestroyPc \cup {"quit"} => QuitKept(s, Append(s, f))
         /\ Once(s, Destroys) /\ f.pc \notin Claims => ClaimsKept(s, Append(s, f))
         /\ Once(s, Destroys) /\ Destroys[f] \notin Values(s, Destroys) =>
              /\ Once(Append(s, f), Destroys)
              /\ Values(Append(s, f), Destroys) = Swapped(Values(s, Destroys), None, Destroys[f])
<1> DEFINE r == Append(s, f)
<1>1. /\ Len(r) = Len(s) + 1 /\ Last(r) = f /\ \A i \in 1..Len(s) : r[i] = s[i]
      /\ Values(r, Destroys) = Values(s, Destroys) \cup ({Destroys[f]} \ {None})
      /\ Once(s, Destroys) /\ Destroys[f] \notin Values(s, Destroys) => Once(r, Destroys)
  BY Appending
<1>2. Len(s) \in Nat /\ r[Len(s) + 1] = f
  BY <1>1 DEF Last
<1> HIDE DEF r
<1>3. \A i \in 1..Len(r) : i \in 1..Len(s) \/ i = Len(s) + 1
  BY <1>1, <1>2
<1>4. Gains(s, r, f)
  BY <1>1, <1>2, <1>3 DEF Gains
<1>5. f.pc \notin DestroyPc \cup {"quit"} => QuitKept(s, r)
  BY <1>1, <1>2, <1>3 DEF QuitKept
<1>6. None \notin Values(s, Destroys)
  BY NoneValue
<1>7. f.pc \notin Claims => Destroys[f] = None
  BY ClaimOf
<1> QED BY <1>1, <1>4, <1>5, <1>6, <1>7 DEF ClaimsKept, Swapped, r

LEMMA GainPop ==
  ASSUME NEW s \in Seq(FrameSet), s # <<>>, NEW f
  PROVE  /\ Gains(s, Front(s), f) /\ QuitKept(s, Front(s))
         /\ Once(s, Destroys) /\ Last(s).pc \notin Claims => ClaimsKept(s, Front(s))
         /\ Once(s, Destroys) =>
              /\ Once(Front(s), Destroys) /\ Destroys[Last(s)] \in Values(s, Destroys) \cup {None}
              /\ Values(Front(s), Destroys) = Swapped(Values(s, Destroys), Destroys[Last(s)], None)
<1> DEFINE r == Front(s)
<1>1. /\ Len(r) = Len(s) - 1 /\ Last(s) \in FrameSet /\ \A i \in 1..Len(r) : r[i] = s[i]
      /\ Destroys[Last(s)] \in Values(s, Destroys) \cup {None}
      /\ Once(s, Destroys) => Once(r, Destroys) /\ Values(r, Destroys) = Values(s, Destroys) \ {Destroys[Last(s)]}
  BY Popping
<1>2. Len(s) \in Nat
  OBVIOUS
<1> HIDE DEF r
<1>3. \A i \in 1..Len(r) : i \in 1..Len(s)
  BY <1>1, <1>2
<1>4. Gains(s, r, f) /\ QuitKept(s, r)
  BY <1>1, <1>3 DEF Gains, QuitKept
<1>5. None \notin Values(s, Destroys)
  BY NoneValue
<1>6. Last(s).pc \notin Claims => Destroys[Last(s)] = None
  BY <1>1, ClaimOf
<1> QED BY <1>1, <1>4, <1>5, <1>6 DEF ClaimsKept, Swapped, r

LEMMA GainTop ==
  ASSUME NEW s \in Seq(FrameSet), s # <<>>, NEW f \in FrameSet
  PROVE  /\ Gains(s, OnTop(s, f), f)
         /\ f.pc \notin DestroyPc \cup {"quit"} => QuitKept(s, OnTop(s, f))
         /\ f.pc \in DestroyPc /\ Last(s).pc \in DestroyPc => QuitKept(s, OnTop(s, f))
         /\ Once(s, Destroys) /\ Destroys[f] = Destroys[Last(s)] => ClaimsKept(s, OnTop(s, f))
<1> DEFINE r == OnTop(s, f)
<1>1. /\ Len(r) = Len(s) /\ Last(r) = f /\ Last(s) \in FrameSet /\ \A i \in 1..(Len(s) - 1) : r[i] = s[i]
      /\ Destroys[Last(s)] \in Values(s, Destroys) \cup {None}
  BY Replacing DEF OnTop
<1>2. Len(s) \in Nat /\ r[Len(s)] = f /\ s[Len(s)] = Last(s)
  BY <1>1 DEF Last
<1>3. Once(s, Destroys) /\ Destroys[f] = Destroys[Last(s)] =>
        Once(r, Destroys)
        /\ Values(r, Destroys) = (Values(s, Destroys) \ {Destroys[Last(s)]}) \cup ({Destroys[f]} \ {None})
  BY ReplacingOnce
<1> HIDE DEF r
<1>4. \A i \in 1..Len(r) : i \in 1..Len(s) /\ (i \in 1..(Len(s) - 1) \/ i = Len(s))
  BY <1>1, <1>2
<1>5. Gains(s, r, f)
  BY <1>1, <1>2, <1>4 DEF Gains
<1>6. f.pc \notin DestroyPc \cup {"quit"} => QuitKept(s, r)
  BY <1>1, <1>2, <1>4 DEF QuitKept
<1>7. f.pc \in DestroyPc /\ Last(s).pc \in DestroyPc => QuitKept(s, r)
  BY <1>1, <1>2, <1>4 DEF QuitKept, DestroyPc
<1>8. None \notin Values(s, Destroys)
  BY NoneValue
<1> QED BY <1>1, <1>3, <1>5, <1>6, <1>7, <1>8 DEF ClaimsKept, r

LEMMA GainTwice ==
  ASSUME NEW s, NEW r, NEW q
  PROVE  /\ QuitKept(s, r) /\ QuitKept(r, q) => QuitKept(s, q)
         /\ ClaimsKept(s, r) /\ ClaimsKept(r, q) => ClaimsKept(s, q)
         /\ \A f, g : Gains(s, r, f) /\ Gains(r, q, g) /\ f.pc \notin OpPc => Gains(s, q, g)
         /\ \A f, g : Gains(s, r, f) /\ Gains(r, q, g) /\ g.pc \notin OpPc => Gains(s, q, f)
<1>1. QuitKept(s, r) /\ QuitKept(r, q) => QuitKept(s, q)
  BY DEF QuitKept
<1>2. ASSUME NEW f, NEW g, Gains(s, r, f), Gains(r, q, g)
      PROVE  (f.pc \notin OpPc => Gains(s, q, g)) /\ (g.pc \notin OpPc => Gains(s, q, f))
  BY <1>2 DEF Gains
<1> QED BY <1>1, <1>2 DEF ClaimsKept

(***************************************************************************)
(* What all stacks together claim.                                          *)
(***************************************************************************)
SameClaims == CarriedOnce(Deletes, Destroys)' /\ Claimed' = Claimed
StacksKept == \A t \in Thread : QuitKept(stack[t], stack'[t]) /\ ClaimsKept(stack[t], stack'[t])

LEMMA QuitInvKept ==
  ASSUME QuitInv, \A t \in Thread : QuitKept(stack[t], stack'[t])
  PROVE  QuitInv'
<1> SUFFICES ASSUME NEW p \in Thread, NEW q \in Thread, NEW i \in 1..Len(stack'[p]), NEW k \in 1..Len(stack'[q]),
                    stack'[p][i].pc = "quit", stack'[q][k].pc \in DestroyPc \cup {"quit"}
             PROVE  p = q /\ i <= k
  BY DEF QuitInv, QuitsFirst
<1>1. i \in 1..Len(stack[p]) /\ stack[p][i].pc = "quit"
  BY DEF QuitKept
<1>2. k \in 1..Len(stack[q]) /\ stack[q][k].pc \in DestroyPc \cup {"quit"}
  BY DEF QuitKept
<1> QED BY <1>1, <1>2 DEF QuitInv, QuitsFirst

\* Queues that hold the same deletions.
DeletesKept ==
  \A t \in Thread : /\ Once(tasks'[t], Deletes) /\ Once(batch'[t], Deletes)
                    /\ Values(tasks'[t], Deletes) = Values(tasks[t], Deletes)
                    /\ Values(batch'[t], Deletes) = Values(batch[t], Deletes)

LEMMA ClaimsSame ==
  ASSUME CarriedOnce(Deletes, Destroys), StacksKept, DeletesKept
  PROVE  SameClaims
<1>1. \A x \in Carriers : Content(Deletes, Destroys, x)' = Content(Deletes, Destroys, x)
  BY CarrierCases DEF Content, StacksKept, ClaimsKept, DeletesKept
<1>2. Claimed' = Claimed
  BY <1>1 DEF Claimed, Carried
<1> QED BY <1>1, <1>2 DEF CarriedOnce, SameClaims, StacksKept, ClaimsKept, DeletesKept

LEMMA DeleteOf ==
  ASSUME NEW m \in MessageSet
  PROVE  /\ m.kind = "delete" => Deletes[m] = m.thread /\ m.thread \in Worker /\ m.thread # None
         /\ m.kind # "delete" => Deletes[m] = None
BY DEF Deletes, MessageSet, Thread

\* No message that deletes a worker is new.
NoNewDeletes == \A m \in Queued' : m.kind = "delete" => m \in Queued

LEMMA QueuesSame ==
  ASSUME CarriedOnce(Deletes, Destroys), UNCHANGED <<tasks, batch>>
  PROVE  DeletesKept /\ NoNewDeletes
BY DEF DeletesKept, NoNewDeletes, CarriedOnce, Queued

LEMMA QueuePosted ==
  ASSUME IInv, CarriedOnce(Deletes, Destroys), NEW t \in Thread, NEW m \in MessageSet, m.kind # "delete",
         Post(t, m), batch' = batch
  PROVE  DeletesKept /\ NoNewDeletes
<1>1. tasks[t] \in Seq(MessageSet) /\ tasks'[t] = Append(tasks[t], m) /\ \A u \in Thread : u # t => tasks'[u] = tasks[u]
  BY DEF IInv, TypeOK, QueueType, Post
<1>2. Values(tasks'[t], Deletes) = Values(tasks[t], Deletes) /\ Once(tasks'[t], Deletes)
  <2>1. /\ Values(Append(tasks[t], m), Deletes) = Values(tasks[t], Deletes) \cup ({Deletes[m]} \ {None})
        /\ Once(tasks[t], Deletes) /\ Deletes[m] \notin Values(tasks[t], Deletes) => Once(Append(tasks[t], m), Deletes)
    BY <1>1, Appending
  <2> QED BY <1>1, <2>1, DeleteOf, NoneValue DEF CarriedOnce
<1>3. ToSet(tasks'[t]) = ToSet(tasks[t]) \cup {m}
  BY <1>1, AppendedSet
<1>4. ASSUME NEW n \in Queued', n.kind = "delete" PROVE n \in Queued
  <2>1. PICK u \in Thread : n \in ToSet(tasks'[u]) \cup ToSet(batch[u])
    BY DEF Queued
  <2>2. n \in ToSet(tasks[u]) \cup ToSet(batch[u])
    <3>1. CASE u = t
      BY <1>3, <1>4, <2>1, <3>1
    <3>2. CASE u # t
      BY <1>1, <2>1, <3>2
    <3> QED BY <3>1, <3>2
  <2> QED BY <2>2 DEF Queued
<1>5. NoNewDeletes
  BY <1>4 DEF NoNewDeletes
<1> QED BY <1>1, <1>2, <1>5 DEF DeletesKept, CarriedOnce

LEMMA QueueBegun ==
  ASSUME IInv, CarriedOnce(Deletes, Destroys), NEW t \in Thread, batch[t] # <<>>,
         batch' = [batch EXCEPT ![t] = Tail(@)], tasks' = tasks
  PROVE  NoNewDeletes /\ (Head(batch[t]).kind # "delete" => DeletesKept)
<1>1. batch[t] \in Seq(MessageSet) /\ batch'[t] = Tail(batch[t]) /\ \A u \in Thread : u # t => batch'[u] = batch[u]
  BY DEF IInv, TypeOK, QueueType
<1>2. /\ Head(batch[t]) \in MessageSet /\ ToSet(Tail(batch[t])) \subseteq ToSet(batch[t])
      /\ Once(batch[t], Deletes) =>
           Once(Tail(batch[t]), Deletes) /\ Values(Tail(batch[t]), Deletes) = Values(batch[t], Deletes) \ {Deletes[Head(batch[t])]}
  BY <1>1, Taking
<1>3. NoNewDeletes
  BY <1>1, <1>2 DEF NoNewDeletes, Queued
<1>4. ASSUME Head(batch[t]).kind # "delete" PROVE DeletesKept
  <2>1. Deletes[Head(batch[t])] = None
    BY <1>2, <1>4, DeleteOf
  <2>2. Values(batch'[t], Deletes) = Values(batch[t], Deletes) /\ Once(batch'[t], Deletes)
    BY <1>1, <1>2, <2>1, NoneValue DEF CarriedOnce
  <2> QED BY <1>1, <2>2 DEF DeletesKept, CarriedOnce
<1> QED BY <1>3, <1>4

LEMMA QueueSwapped ==
  ASSUME IInv, NEW t \in Thread, batch[t] = <<>>,
         batch' = [batch EXCEPT ![t] = tasks[t]], tasks' = [tasks EXCEPT ![t] = <<>>]
  PROVE  NoNewDeletes
<1>1. /\ batch'[t] = tasks[t] /\ tasks'[t] = <<>>
      /\ \A u \in Thread : u # t => batch'[u] = batch[u] /\ tasks'[u] = tasks[u]
  BY DEF IInv, TypeOK, QueueType
<1> QED BY <1>1, Nothing DEF NoNewDeletes, Queued

-----------------------------------------------------------------------------
(***************************************************************************)
(* What a step that adds at most one frame has to see to, for each part of  *)
(* the invariant.                                                           *)
(***************************************************************************)
Single(N) == \A x, y \in N : x = y
OwedLess == \A w \in Worker : Owed(w)' => Owed(w)
\* A worker out of threads_ stays told off.
StayOff == \A w \in Worker \ threads : ToldOff(w) => ToldOff(w)'
Lives(w) == phase[w] \notin {"none", "deleted"}

LEMMA AddsForeign ==
  ASSUME NEW N, Adds(N), NEW pcs, pcs \subseteq OpPc, Foreign(pcs)'
  PROVE  Foreign(pcs) \/ \E x \in N : x[2].pc \in pcs /\ x[1] # Main
<1>1. PICK x \in In(pcs)' : x[1] # Main
  BY DEF Foreign
<1>2. x \in In(pcs) \cup {y \in N : y[2].pc \in pcs}
  BY <1>1, AddsIn
<1> QED BY <1>1, <1>2 DEF Foreign

LEMMA AddsLeaving ==
  ASSUME NEW N, Adds(N), NEW w \in Leaving'
  PROVE  w \in Leaving \/ \E x \in N : x[2].pc \in DestroyPc /\ x[2].thread = w
<1>1. PICK x \in In(DestroyPc)' : x[2].thread = w
  BY DEF Leaving
<1>2. DestroyPc \subseteq OpPc
  BY DEF OpPc
<1>3. x \in In(DestroyPc) \cup {y \in N : y[2].pc \in DestroyPc}
  BY <1>1, <1>2, AddsIn
<1> QED BY <1>1, <1>3 DEF Leaving

LEMMA AddsQuitting ==
  ASSUME NEW N, Adds(N), Quitting'
  PROVE  Quitting \/ \E x \in N : x[2].pc = "quit"
<1>1. {"quit"} \subseteq OpPc
  BY DEF OpPc
<1>2. PICK x : x \in In({"quit"})'
  BY DEF Quitting
<1>3. x \in In({"quit"}) \cup {y \in N : y[2].pc \in {"quit"}}
  BY <1>1, <1>2, AddsIn
<1> QED BY <1>3 DEF Quitting

LEMMA AloneKept ==
  ASSUME AloneInv, NEW N, Adds(N), told'[Main] => told[Main],
         \A x \in N : x[1] # Main /\ x[2].pc \in OpPc => ~told[Main],
         OwedLess \/ ~told[Main]
  PROVE  AloneInv'
<1> SUFFICES ASSUME told'[Main] PROVE ~Foreign(OpPc)' /\ ~OwedToWorkers'
  BY DEF AloneInv
<1>1. told[Main] /\ ~Foreign(OpPc) /\ ~OwedToWorkers
  BY DEF AloneInv
<1>2. ~Foreign(OpPc)'
  BY <1>1, AddsForeign
<1>3. ~OwedToWorkers'
  BY <1>1 DEF OwedToWorkers, OwedLess
<1> QED BY <1>2, <1>3

ApartFine(x) ==
  /\ x[1] # Main /\ x[2].pc \in AskPc \cup {"start"} => ~Quitting
  /\ x[1] # Main /\ x[2].pc \in AskPc => Leaving = {}
  /\ x[2].pc \in DestroyPc => ~Foreign(AskPc)
  /\ x[2].pc = "quit" => ~Foreign(AskPc \cup {"start"}) /\ ~OwedToWorkers

LEMMA ApartKept ==
  ASSUME ApartInv, NEW N, Single(N), Adds(N), \A x \in N : ApartFine(x),
         OwedLess \/ (~Quitting /\ \A x \in N : x[2].pc # "quit")
  PROVE  ApartInv'
<1>0. AskPc \subseteq OpPc /\ AskPc \cup {"start"} \subseteq OpPc /\ AskPc \cap DestroyPc = {}
      /\ "quit" \notin AskPc \cup {"start"} /\ "quit" \notin DestroyPc
  BY DEF OpPc, AskPc, DestroyPc
<1>1. ASSUME Foreign(AskPc)' PROVE Leaving' = {}
  <2> SUFFICES ASSUME NEW w \in Leaving' PROVE FALSE
    OBVIOUS
  <2>1. Foreign(AskPc) \/ \E x \in N : x[2].pc \in AskPc /\ x[1] # Main
    BY <1>0, <1>1, AddsForeign
  <2>2. w \in Leaving \/ \E x \in N : x[2].pc \in DestroyPc
    BY AddsLeaving
  <2> QED BY <1>0, <2>1, <2>2 DEF ApartInv, ApartFine, Single
<1>2. ASSUME Quitting' PROVE ~Foreign(AskPc \cup {"start"})' /\ ~OwedToWorkers'
  <2>1. Quitting \/ \E x \in N : x[2].pc = "quit"
    BY <1>2, AddsQuitting
  <2>2. ~Foreign(AskPc \cup {"start"}) /\ ~OwedToWorkers
    BY <2>1 DEF ApartInv, ApartFine
  <2>3. ~Foreign(AskPc \cup {"start"})'
    <3>1. Foreign(AskPc \cup {"start"})' => \E x \in N : x[2].pc \in AskPc \cup {"start"} /\ x[1] # Main
      BY <1>0, <2>2, AddsForeign
    <3> QED BY <1>0, <2>1, <3>1 DEF ApartFine, Single
  <2>4. ~OwedToWorkers'
    BY <2>1, <2>2 DEF OwedToWorkers, OwedLess
  <2> QED BY <2>3, <2>4
<1> QED BY <1>1, <1>2 DEF ApartInv

LEMMA TeardownKept ==
  ASSUME TeardownInv, NEW N, Adds(N), gone' = gone, \A x \in N : x[2].pc \in {"get", "start"} => ~gone,
         phase[Main] = "finished" => phase'[Main] = "finished", gone /\ workThreads = <<>> => workThreads' = <<>>
  PROVE  TeardownInv'
<1> SUFFICES ASSUME gone, phase[Main] = "finished", workThreads = <<>>, In({"get", "start"}) = {}
             PROVE  In({"get", "start"})' = {}
  BY DEF TeardownInv
<1>1. {"get", "start"} \subseteq OpPc
  BY DEF OpPc, AskPc
<1>2. In({"get", "start"})' \subseteq In({"get", "start"}) \cup {x \in N : x[2].pc \in {"get", "start"}}
  BY <1>1, AddsIn
<1> QED BY <1>2

ClaimFine(x) ==
  /\ x[2].pc \in {"erase", "unlist"} => x[2].thread \in threads
  /\ x[2].pc \in {"tell", "hand", "flush"} => x[2].thread \notin threads
  /\ x[2].pc \in {"hand", "flush"} => ToldOff(x[2].thread)'
\* A message that deletes a worker is new only if it has the worker told off.
DeletesFine == \A m \in Queued' : m.kind = "delete" => m \in Queued \/ (m.thread \notin threads /\ ToldOff(m.thread)')

LEMMA QueuedIs ==
  ASSUME IInv, NEW m \in Queued
  PROVE  m \in MessageSet /\ (m.kind = "delete" => m.thread \in Worker)
<1>1. PICK t \in Thread : m \in ToSet(tasks[t]) \cup ToSet(batch[t])
  BY DEF Queued
<1>2. tasks[t] \in Seq(MessageSet) /\ batch[t] \in Seq(MessageSet)
  BY DEF IInv, TypeOK, QueueType
<1>3. m \in MessageSet
  BY <1>1, <1>2 DEF ToSet
<1> QED BY <1>3 DEF MessageSet

LEMMA ClaimKept ==
  ASSUME IInv, ClaimInv, NEW N, Adds(N), CarriedOnce(Deletes, Destroys)', threads' = threads, StayOff, DeletesFine,
         \A x \in N : ClaimFine(x), \A w \in Worker : Lives(w)' <=> Lives(w),
         threads \cup Claimed' = threads \cup Claimed
  PROVE  ClaimInv'
<1>0. {"erase", "unlist"} \subseteq OpPc /\ {"tell", "hand", "flush"} \subseteq OpPc /\ {"hand", "flush"} \subseteq OpPc
  BY DEF OpPc, DestroyPc
<1>1. ASSUME NEW x \in In({"erase", "unlist"})' PROVE x[2].thread \in threads'
  <2>1. x \in In({"erase", "unlist"}) \cup {y \in N : y[2].pc \in {"erase", "unlist"}}
    BY <1>0, AddsIn
  <2> QED BY <2>1 DEF ClaimInv, ClaimFine
<1>2. ASSUME NEW x \in In({"tell", "hand", "flush"})' PROVE x[2].thread \notin threads'
  <2>1. x \in In({"tell", "hand", "flush"}) \cup {y \in N : y[2].pc \in {"tell", "hand", "flush"}}
    BY <1>0, AddsIn
  <2> QED BY <2>1 DEF ClaimInv, ClaimFine
<1>3. ASSUME NEW x \in In({"hand", "flush"})' PROVE ToldOff(x[2].thread)'
  <2>1. x \in In({"hand", "flush"}) \cup {y \in N : y[2].pc \in {"hand", "flush"}}
    BY <1>0, AddsIn
  <2>2. CASE x \in In({"hand", "flush"})
    <3>1. x[2].pc \in {"hand", "flush"} /\ x[2] \in FrameSet
      BY <2>2, InFrame
    <3>2. x[2].thread \in Worker
      BY <3>1 DEF FrameSet, DestroyPc
    <3>3. x[2].thread \notin threads
      <4>1. x \in In({"tell", "hand", "flush"})
        BY <2>2 DEF In
      <4> QED BY <4>1 DEF ClaimInv
    <3> QED BY <2>2, <3>2, <3>3 DEF ClaimInv, StayOff
  <2> QED BY <2>1, <2>2 DEF ClaimFine
<1>4. ASSUME NEW m \in Queued', m.kind = "delete" PROVE m.thread \notin threads' /\ ToldOff(m.thread)'
  <2>1. CASE m \in Queued
    <3>1. m.thread \notin threads /\ ToldOff(m.thread) /\ m.thread \in Worker
      BY <1>4, <2>1, QueuedIs DEF ClaimInv
    <3> QED BY <3>1 DEF StayOff
  <2> QED BY <1>4, <2>1 DEF DeletesFine
<1>5. ASSUME NEW w \in Worker PROVE phase'[w] \notin {"none", "deleted"} <=> w \in threads' \cup Claimed'
  BY DEF ClaimInv, Lives
<1> QED BY <1>1, <1>2, <1>3, <1>4, <1>5 DEF ClaimInv

UseFine(x) ==
  /\ x[2].pc \in {"start", "post"} =>
       x[2].thread \in threads' /\ \A y \in In({"unlist"}) : y[2].thread # x[2].thread
  /\ x[2].pc = "unlist" => \A y \in In({"start", "post"}) : y[2].thread # x[2].thread
  /\ x[2].pc = "start" /\ x[1] # Main => \A y \in In({"erase"}) : y[2].thread # x[2].thread
  /\ x[2].pc = "erase" => \A y \in In({"start"}) : y[1] # Main => y[2].thread # x[2].thread

LEMMA UseKept ==
  ASSUME UseInv, NEW N, Single(N), Adds(N), \A x \in N : UseFine(x),
         \A x \in In({"start", "post"})' : x[2].thread \in threads => x[2].thread \in threads'
  PROVE  UseInv'
<1>0. {"start", "post"} \subseteq OpPc /\ {"start"} \subseteq OpPc /\ {"erase"} \subseteq OpPc /\ {"unlist"} \subseteq OpPc
  BY DEF OpPc, DestroyPc, AskPc
<1>1. ASSUME NEW x \in In({"start", "post"})'
      PROVE  x[2].thread \in threads' /\ \A y \in In({"unlist"})' : y[2].thread # x[2].thread
  <2>1. x \in In({"start", "post"}) \cup {y \in N : y[2].pc \in {"start", "post"}}
    BY <1>0, AddsIn
  <2>2. \A y \in In({"unlist"})' : y \in In({"unlist"}) \cup {z \in N : z[2].pc \in {"unlist"}}
    BY <1>0, AddsIn
  <2>3. x[2].thread \in threads'
    BY <2>1 DEF UseInv, UseFine
  <2>4. ASSUME NEW y \in In({"unlist"})' PROVE y[2].thread # x[2].thread
    BY <2>1, <2>2 DEF UseInv, UseFine, Single
  <2> QED BY <2>3, <2>4
<1>2. ASSUME NEW x \in In({"start"})', NEW y \in In({"erase"})', x[1] # Main PROVE y[2].thread # x[2].thread
  <2>1. x \in In({"start"}) \cup {z \in N : z[2].pc \in {"start"}}
    BY <1>0, AddsIn
  <2>2. y \in In({"erase"}) \cup {z \in N : z[2].pc \in {"erase"}}
    BY <1>0, AddsIn
  <2> QED BY <1>2, <2>1, <2>2 DEF UseInv, UseFine, Single
<1> QED BY <1>1, <1>2 DEF UseInv

StartFine(x) ==
  x[2].pc = "start" => /\ phase'[x[2].thread] = "made" /\ (x[2].for # None => Len(workThreads') < WorkThreads)
                       /\ \A y \in In({"start"}) : y[2].thread # x[2].thread

LEMMA StartsFine ==
  ASSUME StartInv, NEW N, Single(N), Adds(N), \A x \in N : StartFine(x),
         \A x \in In({"start"})' : /\ phase[x[2].thread] = "made" => phase'[x[2].thread] = "made"
                                   /\ x[2].for # None => Len(workThreads') <= Len(workThreads),
         Len(workThreads) \in Nat, Len(workThreads') \in Nat
  PROVE  StartInv'
<1>0. {"start"} \subseteq OpPc
  BY DEF OpPc
<1>1. \A x \in In({"start"})' : x \in In({"start"}) \cup {z \in N : z[2].pc \in {"start"}}
  BY <1>0, AddsIn
<1>2. ASSUME NEW x \in In({"start"})'
      PROVE  phase'[x[2].thread] = "made" /\ (x[2].for # None => Len(workThreads') < WorkThreads)
  <2>1. CASE x \in In({"start"})
    BY <2>1 DEF StartInv
  <2>2. CASE x \in N /\ x[2].pc = "start"
    BY <2>2 DEF StartFine
  <2> QED BY <1>1, <2>1, <2>2
<1>3. ASSUME NEW x \in In({"start"})', NEW y \in In({"start"})', x[2].thread = y[2].thread PROVE x = y
  BY <1>1, <1>3 DEF StartInv, StartFine, Single
<1> QED BY <1>2, <1>3 DEF StartInv

LEMMA WorkKept ==
  ASSUME WorkInv, NEW N, Adds(N), workThreads' = workThreads, ToSet(workThreads) \subseteq threads',
         \A x \in N : x[2].pc = "unlist" => x[2].thread \notin ToSet(workThreads)
  PROVE  WorkInv'
<1>0. {"unlist"} \subseteq OpPc
  BY DEF OpPc, DestroyPc
<1>1. ASSUME NEW x \in In({"unlist"})' PROVE x[2].thread \notin ToSet(workThreads')
  <2>1. x \in In({"unlist"}) \cup {z \in N : z[2].pc \in {"unlist"}}
    BY <1>0, AddsIn
  <2> QED BY <2>1 DEF WorkInv
<1> QED BY <1>1 DEF WorkInv

LEMMA OwedKept ==
  ASSUME OwedInv, NEW N, Adds(N),
         \A w \in Worker : Owed(w)' => Owed(w) \/ (w \in threads /\ w \notin Leaving),
         \A w \in Worker : Owed(w) /\ w \in threads => w \in threads',
         \A w \in threads : w \in threads' \/ ~Owed(w)',
         \A x \in N : x[2].pc \in DestroyPc => ~Owed(x[2].thread)'
  PROVE  OwedInv'
<1> SUFFICES ASSUME NEW w \in Worker, Owed(w)' PROVE w \in threads' /\ w \notin Leaving'
  BY DEF OwedInv
<1>1. w \in threads /\ w \notin Leaving
  BY DEF OwedInv
<1> QED BY <1>1, AddsLeaving

(***************************************************************************)
(* Steps that leave the pool's lists alone and begin nobody's life or end.  *)
(***************************************************************************)
Calm ==
  /\ UNCHANGED poolVars
  /\ \A t \in Thread : /\ told[t] => told'[t]
                       /\ \/ phase'[t] = phase[t]
                          \/ phase[t] = "open" /\ phase'[t] = "closing"
                          \/ phase[t] = "closing" /\ phase'[t] = "finished"

NewFine(x) ==
  /\ ApartFine(x) /\ ClaimFine(x) /\ UseFine(x) /\ StartFine(x)
  /\ x[2].pc = "unlist" => x[2].thread \notin ToSet(workThreads)
  /\ x[2].pc \in {"get", "start"} => ~gone
  /\ x[2].pc \in DestroyPc => ~Owed(x[2].thread)'

\* What is owed to a worker anew.
OwedFine(N) ==
  /\ OwedLess \/ (~Quitting /\ \A x \in N : x[2].pc # "quit")
  /\ \A w \in Worker : Owed(w)' => Owed(w) \/ (w \in threads /\ w \notin Leaving)

LEMMA CalmKept ==
  ASSUME IInv, IInv', CoordInv, NEW N, Single(N), Adds(N), Calm, AloneInv', QuitInv', RunInv',
         CarriedOnce(Deletes, Destroys)', threads \cup Claimed' = threads \cup Claimed, DeletesFine,
         \A x \in N : NewFine(x), OwedFine(N)
  PROVE  CoordInv'
<1>1. /\ threads' = threads /\ workThreads' = workThreads /\ gone' = gone /\ Len(workThreads) \in Nat
      /\ threads \subseteq Worker
  BY DEF Calm, poolVars, IInv, TypeOK, PoolType
<1>2. \A w \in Worker : (Lives(w)' <=> Lives(w)) /\ (ToldOff(w) => ToldOff(w)')
  BY DEF Calm, Lives, ToldOff, Thread
<1>3. /\ phase[Main] = "finished" => phase'[Main] = "finished"
      /\ \A w \in Worker : phase[w] = "made" => phase'[w] = "made"
  BY MainBegun DEF Calm, Thread
<1>4. ApartInv'
  BY ApartKept DEF CoordInv, SharedInv, NewFine, OwedFine
<1>5. TeardownInv'
  BY <1>1, <1>3, TeardownKept DEF CoordInv, SharedInv, NewFine
<1>6. ClaimInv'
  <2>1. StayOff
    BY <1>2 DEF StayOff
  <2>2. \A x \in N : ClaimFine(x)
    BY DEF NewFine
  <2> QED BY <1>1, <1>2, <2>1, <2>2, ClaimKept DEF CoordInv, WorkerInv
<1>7. UseInv'
  BY <1>1, UseKept DEF CoordInv, WorkerInv, NewFine
<1>8. StartInv'
  <2>1. ASSUME NEW x \in In({"start"})' PROVE phase[x[2].thread] = "made" => phase'[x[2].thread] = "made"
    <3>1. x \in In({"start"}) \/ (x \in N /\ x[2].pc = "start")
      <4>1. {"start"} \subseteq OpPc
        BY DEF OpPc
      <4> QED BY <4>1, AddsIn
    <3>2. x \in In({"start"}) => x[2].thread \in Worker
      <4>1. x \in In({"start"}) => x[2].pc \in {"start"} /\ x[2] \in FrameSet
        BY InFrame
      <4> QED BY <4>1 DEF FrameSet
    <3> QED BY <1>3, <3>1, <3>2 DEF NewFine, StartFine
  <2> QED BY <1>1, <2>1, StartsFine DEF CoordInv, WorkerInv, NewFine
<1>9. WorkInv'
  BY <1>1, WorkKept DEF CoordInv, WorkerInv, WorkInv, NewFine
<1>10. OwedInv'
  BY <1>1, OwedKept DEF CoordInv, WorkerInv, NewFine, OwedFine
<1> QED BY <1>4, <1>5, <1>6, <1>7, <1>8, <1>9, <1>10 DEF CoordInv, SharedInv, WorkerInv

LEMMA RunKept ==
  ASSUME RunInv, Calm, \A t \in Thread : phase'[t] = phase[t] \/ told[t],
         \A t \in Thread : stack'[t] # <<>> /\ t # Main =>
           (stack[t] # <<>> \/ phase[t] \in {"open", "closing"}) /\ (phase'[t] = "finished" => phase[t] = "finished")
  PROVE  RunInv'
<1> SUFFICES ASSUME NEW t \in Thread
             PROVE  /\ phase'[t] \in {"closing", "finished"} => told'[t]
                    /\ t # Main /\ stack'[t] # <<>> => phase'[t] \in {"open", "closing"}
  BY DEF RunInv
<1> QED BY DEF RunInv, Calm

\* A quiet step adds no frame, no claim, and owes nothing more.
LEMMA Quiet ==
  ASSUME IInv, IInv', CoordInv, Adds({}), Calm, told'[Main] = told[Main], QuitInv', RunInv', SameClaims,
         NoNewDeletes, OwedLess
  PROVE  CoordInv'
<1>1. AloneInv'
  BY AloneKept DEF CoordInv, SharedInv
<1>2. Single({}) /\ OwedFine({}) /\ DeletesFine
  BY DEF Single, OwedFine, OwedLess, DeletesFine, NoNewDeletes
<1> QED BY <1>1, <1>2, CalmKept DEF SameClaims

LEMMA NothingClaimed ==
  ASSUME CoordInv
  PROVE  CarriedOnce(Deletes, Destroys) /\ QuitInv /\ RunInv /\ AloneInv
         /\ \A t \in Thread : Once(stack[t], Destroys)
BY DEF CoordInv, SharedInv, WorkerInv, ClaimInv, CarriedOnce

LEMMA OneStack ==
  ASSUME IInv, CoordInv, NEW p \in Thread, NEW r, stack' = [stack EXCEPT ![p] = r],
         QuitKept(stack[p], r), ClaimsKept(stack[p], r)
  PROVE  StacksKept /\ QuitInv'
<1>1. stack'[p] = r /\ \A t \in Thread : t # p => stack'[t] = stack[t]
  BY StackIs
<1>2. \A t \in Thread : QuitKept(stack[t], stack'[t]) /\ ClaimsKept(stack[t], stack'[t])
  BY <1>1, NothingClaimed DEF QuitKept, ClaimsKept
<1> QED BY <1>2, NothingClaimed, QuitInvKept DEF StacksKept

\* The stacks do not change.
LEMMA NoStack ==
  ASSUME IInv, CoordInv, stack' = stack
  PROVE  Adds({}) /\ StacksKept /\ QuitInv'
<1>1. Adds({})
  BY DEF Adds, In, Frames
<1>2. \A t \in Thread : QuitKept(stack[t], stack'[t]) /\ ClaimsKept(stack[t], stack'[t])
  BY NothingClaimed DEF QuitKept, ClaimsKept
<1> QED BY <1>1, <1>2, NothingClaimed, QuitInvKept DEF StacksKept

\* A frame that is no operation is pushed.
LEMMA PlainPushed ==
  ASSUME IInv, CoordInv, NEW p \in Thread, NEW f \in FrameSet, f.pc \notin OpPc, stack' = Push(p, f)
  PROVE  Adds({}) /\ StacksKept /\ QuitInv'
<1>1. stack' = [stack EXCEPT ![p] = Append(stack[p], f)] /\ stack[p] \in Seq(FrameSet)
  BY StackIs DEF Push
<1>2. f.pc \notin DestroyPc \cup {"quit"} /\ f.pc \notin Claims
  BY DEF OpPc, Claims
<1>3. Gains(stack[p], Append(stack[p], f), f) /\ QuitKept(stack[p], Append(stack[p], f))
      /\ ClaimsKept(stack[p], Append(stack[p], f))
  BY <1>1, <1>2, GainPush, NothingClaimed
<1> QED BY <1>1, <1>3, OneStack, GainsAdds

\* The frame of an operation that claims nothing is popped.
LEMMA PlainPopped ==
  ASSUME IInv, CoordInv, NEW p \in Thread, stack[p] # <<>>, Top(p).pc \notin Claims, stack' = Pop(p)
  PROVE  Adds({}) /\ StacksKept /\ QuitInv'
<1>1. stack' = [stack EXCEPT ![p] = Front(stack[p])] /\ stack[p] \in Seq(FrameSet) /\ Last(stack[p]).pc \notin Claims
  BY StackIs DEF Pop, Top
<1> DEFINE f == [pc |-> "body"]
<1>2. Gains(stack[p], Front(stack[p]), f) /\ QuitKept(stack[p], Front(stack[p]))
      /\ ClaimsKept(stack[p], Front(stack[p]))
  BY <1>1, GainPop, NothingClaimed
<1>3. f.pc \notin OpPc
  BY DEF OpPc, AskPc, DestroyPc
<1> HIDE DEF f
<1> QED BY <1>1, <1>2, <1>3, OneStack, GainsAdds

LEMMA NotOwed ==
  ASSUME caller' = caller, ended \subseteq ended', dropped \subseteq dropped'
  PROVE  OwedLess
BY DEF OwedLess, Owed

\* What a quiet step does to the lives of threads: nothing.
LEMMA NoLife ==
  ASSUME IInv, RunInv, UNCHANGED <<lifeVars, poolVars>>,
         \A t \in Thread : stack'[t] # <<>> /\ t # Main => stack[t] # <<>> \/ phase[t] \in {"open", "closing"}
  PROVE  Calm /\ RunInv'
<1>1. Calm
  BY DEF Calm, lifeVars
<1> QED BY <1>1, RunKept DEF lifeVars

(***************************************************************************)
(* The quiet steps.                                                         *)
(***************************************************************************)
LEMMA PopCoord ==
  ASSUME IInv, IInv', CoordInv, NEW p \in Thread, stack[p] # <<>>, Top(p).pc \notin Claims, stack' = Pop(p),
         UNCHANGED <<lifeVars, poolVars>>, DeletesKept, NoNewDeletes, OwedLess
  PROVE  CoordInv'
<1>1. Adds({}) /\ StacksKept /\ QuitInv'
  BY PlainPopped
<1>2. SameClaims
  BY <1>1, ClaimsSame, NothingClaimed
<1>3. \A t \in Thread : stack'[t] # <<>> => stack[t] # <<>>
  <2>1. \A t \in Thread : t # p => stack'[t] = stack[t]
    BY StackIs DEF Pop
  <2> QED BY <2>1
<1>4. Calm /\ RunInv'
  BY <1>3, NoLife, NothingClaimed
<1> QED BY <1>1, <1>2, <1>4, Quiet DEF lifeVars

LEMMA ReturnCoord ==
  ASSUME IInv, IInv', CoordInv, NEW p \in Thread, Return(p)
  PROVE  CoordInv'
<1>1. /\ stack[p] # <<>> /\ Top(p).pc = "body" /\ stack' = Pop(p)
      /\ UNCHANGED <<lifeVars, tasks, batch, poolVars, jobVars, bounds>>
  BY DEF Return, At
<1>2. DeletesKept /\ NoNewDeletes /\ OwedLess
  BY <1>1, QueuesSame, NotOwed, NothingClaimed DEF jobVars
<1>3. "body" \notin Claims
  BY DEF Claims, DestroyPc
<1> QED BY <1>1, <1>2, <1>3, PopCoord

LEMMA QuitEndsCoord ==
  ASSUME IInv, IInv', CoordInv, NEW p \in Thread, QuitEnds(p)
  PROVE  CoordInv'
<1>1. /\ stack[p] # <<>> /\ Top(p).pc = "quit" /\ stack' = Pop(p)
      /\ UNCHANGED <<lifeVars, tasks, batch, poolVars, jobVars, bounds>>
  BY DEF QuitEnds, At
<1>2. DeletesKept /\ NoNewDeletes /\ OwedLess
  BY <1>1, QueuesSame, NotOwed, NothingClaimed DEF jobVars
<1>3. "quit" \notin Claims
  BY DEF Claims, DestroyPc
<1> QED BY <1>1, <1>2, <1>3, PopCoord

LEMMA ProcessedCoord ==
  ASSUME IInv, IInv', CoordInv, Processed
  PROVE  CoordInv'
<1>1. /\ stack[Main] # <<>> /\ Top(Main).pc = "sync2" /\ stack' = Pop(Main)
      /\ UNCHANGED <<lifeVars, tasks, batch, poolVars, jobVars, bounds>>
  BY DEF Processed, At
<1>2. DeletesKept /\ NoNewDeletes /\ OwedLess
  BY <1>1, QueuesSame, NotOwed, NothingClaimed DEF jobVars
<1>3. "sync2" \notin Claims
  BY DEF Claims, DestroyPc
<1> QED BY <1>1, <1>2, <1>3, PopCoord, MainBegun

LEMMA PostJobCoord ==
  ASSUME IInv, IInv', CoordInv, NEW p \in Thread, PostJob(p)
  PROVE  CoordInv'
<1> DEFINE w == Top(p).thread
           j == Top(p).job
           m == Message("job", None, j)
<1>1. /\ stack[p] # <<>> /\ Top(p).pc = "post" /\ w # None /\ stack' = Pop(p)
      /\ UNCHANGED <<lifeVars, batch, poolVars, caller, ended, bounds>>
      /\ \/ Post(w, m) /\ UNCHANGED dropped
         \/ dropped' = dropped \cup {j} /\ UNCHANGED tasks
  BY DEF PostJob, At
<1>2. Top(p) \in FrameSet
  BY <1>1, AtTop
<1>3. w \in Thread /\ j \in Job
  BY <1>1, <1>2 DEF FrameSet, Thread
<1> HIDE DEF w, j
<1>4. m \in MessageSet /\ m.kind # "delete"
  BY <1>3 DEF Message, MessageSet, Kinds, Asked
<1> HIDE DEF m
<1>5. DeletesKept /\ NoNewDeletes
  BY <1>1, <1>3, <1>4, QueuePosted, QueuesSame, NothingClaimed
<1>6. OwedLess
  BY <1>1, NotOwed
<1>7. "post" \notin Claims
  BY DEF Claims, DestroyPc
<1> QED BY <1>1, <1>5, <1>6, <1>7, PopCoord

LEMMA JobReturnsCoord ==
  ASSUME IInv, IInv', CoordInv, NEW p \in Thread, JobReturns(p)
  PROVE  CoordInv'
<1> DEFINE j == Top(p).job
           w == caller[j]
           m == Message("result", None, j)
<1>1. /\ stack[p] # <<>> /\ Top(p).pc = "job" /\ stack' = Pop(p)
      /\ UNCHANGED <<lifeVars, batch, poolVars, caller, ended, bounds>>
      /\ \/ Post(w, m) /\ UNCHANGED dropped
         \/ dropped' = dropped \cup {j} /\ UNCHANGED tasks
  BY DEF JobReturns, At
<1>2. Top(p) \in FrameSet
  BY <1>1, AtTop
<1>3. j \in Job
  BY <1>1, <1>2 DEF FrameSet
<1>4. w \in Thread
  <2>1. j \in Carried(JobOf, JobIn)
    BY <1>1, <1>3, AtTop
  <2> QED BY <1>3, <2>1 DEF IInv, JobInv, TypeOK, PoolType
<1> HIDE DEF w, j
<1>5. m \in MessageSet /\ m.kind # "delete"
  BY <1>3 DEF Message, MessageSet, Kinds, Asked
<1> HIDE DEF m
<1>6. DeletesKept /\ NoNewDeletes
  BY <1>1, <1>4, <1>5, QueuePosted, QueuesSame, NothingClaimed
<1>7. OwedLess
  BY <1>1, NotOwed
<1>8. "job" \notin Claims
  BY DEF Claims, DestroyPc
<1> QED BY <1>1, <1>6, <1>7, <1>8, PopCoord

\* A callback begins.
LEMMA PushCoord ==
  ASSUME IInv, IInv', CoordInv, NEW p \in Thread, NEW f \in FrameSet, f.pc \notin OpPc, stack' = Push(p, f),
         phase[p] \in {"open", "closing"}, UNCHANGED <<lifeVars, poolVars>>, DeletesKept, NoNewDeletes, OwedLess
  PROVE  CoordInv'
<1>1. Adds({}) /\ StacksKept /\ QuitInv'
  BY PlainPushed
<1>2. SameClaims
  BY <1>1, ClaimsSame, NothingClaimed
<1>3. \A t \in Thread : stack'[t] # <<>> => stack[t] # <<>> \/ phase[t] \in {"open", "closing"}
  <2>1. \A t \in Thread : t # p => stack'[t] = stack[t]
    BY StackIs DEF Push
  <2> QED BY <2>1
<1>4. Calm /\ RunInv'
  BY <1>3, NoLife, NothingClaimed
<1> QED BY <1>1, <1>2, <1>4, Quiet DEF lifeVars

LEMMA CallbackCoord ==
  ASSUME IInv, IInv', CoordInv, NEW t \in Thread, Callback(t)
  PROVE  CoordInv'
<1> DEFINE f == Frame("body", None, None)
<1>1. /\ phase[t] = "open" /\ stack' = Push(t, f)
      /\ UNCHANGED <<lifeVars, tasks, batch, poolVars, jobVars>>
  BY DEF Callback
<1>2. "body" \in Pcs /\ "body" \notin OpPc /\ "body" \notin {"start", "flush"} \cup DestroyPc
  BY DEF Pcs, OpPc, AskPc, DestroyPc
<1>3. f \in FrameSet /\ f.pc = "body"
  BY <1>2, FrameIn
<1>4. DeletesKept /\ NoNewDeletes /\ OwedLess
  BY <1>1, QueuesSame, NotOwed, NothingClaimed DEF jobVars
<1> HIDE DEF f
<1> QED BY <1>1, <1>2, <1>3, <1>4, PushCoord

LEMMA RunJobCoord ==
  ASSUME IInv, IInv', CoordInv, NEW p \in Thread, RunJob(p)
  PROVE  CoordInv'
<1> DEFINE j == Head(batch[p]).job
           f == Frame("job", None, j)
<1>1. /\ NextTask(p, "job") /\ stack' = Push(p, f)
      /\ UNCHANGED <<lifeVars, tasks, poolVars, jobVars, bounds>>
  BY DEF RunJob
<1>2. /\ batch[p] # <<>> /\ batch' = [batch EXCEPT ![p] = Tail(@)] /\ j \in Job /\ Head(batch[p]).kind = "job"
      /\ phase[p] \in {"open", "closing"}
  <2>1. Head(batch[p]) \in MessageSet /\ Head(batch[p]).kind = "job" /\ batch[p] # <<>>
        /\ batch' = [batch EXCEPT ![p] = Tail(@)]
    BY <1>1, NextOne
  <2> QED BY <2>1 DEF MessageSet, IInv, LifeInv, QueueLife
<1> HIDE DEF j
<1>3. "job" \in Pcs /\ "job" \notin OpPc /\ "job" \notin {"start", "flush"} \cup DestroyPc
  BY DEF Pcs, OpPc, AskPc, DestroyPc
<1>4. f \in FrameSet /\ f.pc = "job"
  BY <1>2, <1>3, FrameIn
<1>5. DeletesKept /\ NoNewDeletes /\ OwedLess
  BY <1>1, <1>2, QueueBegun, NotOwed, NothingClaimed DEF jobVars
<1> HIDE DEF f
<1> QED BY <1>1, <1>2, <1>3, <1>4, <1>5, PushCoord

LEMMA RunResultCoord ==
  ASSUME IInv, IInv', CoordInv, NEW p \in Thread, RunResult(p)
  PROVE  CoordInv'
<1> DEFINE f == Frame("body", None, None)
<1>1. /\ NextTask(p, "result") /\ stack' = Push(p, f) /\ ended' = ended \cup {Head(batch[p]).job}
      /\ UNCHANGED <<lifeVars, tasks, poolVars, caller, dropped, bounds>>
  BY DEF RunResult
<1>2. /\ batch[p] # <<>> /\ batch' = [batch EXCEPT ![p] = Tail(@)] /\ Head(batch[p]).kind = "result"
      /\ phase[p] \in {"open", "closing"}
  BY <1>1, NextOne DEF IInv, LifeInv, QueueLife
<1>3. "body" \in Pcs /\ "body" \notin OpPc /\ "body" \notin {"start", "flush"} \cup DestroyPc
  BY DEF Pcs, OpPc, AskPc, DestroyPc
<1>4. f \in FrameSet /\ f.pc = "body"
  BY <1>3, FrameIn
<1>5. DeletesKept /\ NoNewDeletes
  BY <1>1, <1>2, QueueBegun, NothingClaimed
<1>6. OwedLess
  BY <1>1, NotOwed
<1> HIDE DEF f
<1> QED BY <1>1, <1>2, <1>3, <1>4, <1>5, <1>6, PushCoord

\* A thread takes its queue.
LEMMA TakenClaims ==
  ASSUME IInv, CoordInv, NEW t \in Thread, batch[t] = <<>>, stack' = stack,
         batch' = [batch EXCEPT ![t] = tasks[t]], tasks' = [tasks EXCEPT ![t] = <<>>]
  PROVE  SameClaims
<1>1. PICK r : r = stack[t]
  OBVIOUS
<1>2. stack' = [stack EXCEPT ![t] = r]
  BY <1>1, StackIs
<1>3. Once(r, Destroys) /\ CarriedOnce(Deletes, Destroys)
  BY <1>1, NothingClaimed
<1> QED BY <1>1, <1>2, <1>3, QueueTaken DEF IInv, SameClaims, Claimed

LEMMA TakeCoord ==
  ASSUME IInv, IInv', CoordInv, NEW t \in Thread, Take(t)
  PROVE  CoordInv'
<1>1. /\ batch[t] = <<>> /\ batch' = [batch EXCEPT ![t] = tasks[t]] /\ tasks' = [tasks EXCEPT ![t] = <<>>]
      /\ UNCHANGED <<lifeVars, stack, poolVars, jobVars, bounds>>
  BY DEF Take, Free
<1>2. SameClaims /\ NoNewDeletes /\ Adds({}) /\ QuitInv'
  BY <1>1, TakenClaims, QueueSwapped, NoStack
<1>3. OwedLess
  BY <1>1, NotOwed DEF jobVars
<1>4. Calm /\ RunInv'
  BY <1>1, NoLife, NothingClaimed
<1> QED BY <1>1, <1>2, <1>3, <1>4, Quiet DEF lifeVars

\* A thread that does nothing goes on in its life.
LEMMA Living ==
  ASSUME IInv, CoordInv, NEW t \in Thread, stack[t] = <<>>, stack' = stack, told' = told, UNCHANGED poolVars,
         \/ phase[t] = "open" /\ told[t] /\ phase' = [phase EXCEPT ![t] = "closing"]
         \/ phase[t] = "closing" /\ phase' = [phase EXCEPT ![t] = "finished"]
  PROVE  Calm /\ RunInv'
<1>1. /\ \A u \in Thread : u # t => phase'[u] = phase[u]
      /\ phase'[t] = IF phase[t] = "open" THEN "closing" ELSE "finished"
      /\ RunInv
  BY NothingClaimed DEF IInv, TypeOK, PoolType
<1>2. Calm
  BY <1>1 DEF Calm
<1>3. told[t]
  BY <1>1 DEF RunInv
<1> QED BY <1>1, <1>2, <1>3, RunKept

LEMMA CloseCoord ==
  ASSUME IInv, IInv', CoordInv, NEW t \in Thread, Close(t)
  PROVE  CoordInv'
<1>1. /\ phase[t] = "open" /\ told[t] /\ phase' = [phase EXCEPT ![t] = "closing"] /\ stack[t] = <<>>
      /\ batch[t] = <<>> /\ batch' = [batch EXCEPT ![t] = tasks[t]] /\ tasks' = [tasks EXCEPT ![t] = <<>>]
      /\ UNCHANGED <<told, stack, poolVars, jobVars, bounds>>
  BY DEF Close, Free
<1>2. SameClaims /\ NoNewDeletes /\ Adds({}) /\ QuitInv'
  BY <1>1, TakenClaims, QueueSwapped, NoStack
<1>3. OwedLess
  BY <1>1, NotOwed DEF jobVars
<1>4. Calm /\ RunInv'
  BY <1>1, Living
<1> QED BY <1>1, <1>2, <1>3, <1>4, Quiet

LEMMA EndCoord ==
  ASSUME IInv, IInv', CoordInv, NEW t \in Thread, End(t)
  PROVE  CoordInv'
<1>1. /\ phase[t] = "closing" /\ phase' = [phase EXCEPT ![t] = "finished"] /\ stack[t] = <<>>
      /\ UNCHANGED <<told, tasks, batch, stack, poolVars, jobVars, bounds>>
  BY DEF End, Free
<1>2. Adds({}) /\ QuitInv' /\ StacksKept
  BY <1>1, NoStack
<1>3. SameClaims /\ NoNewDeletes
  BY <1>1, <1>2, QueuesSame, ClaimsSame, NothingClaimed
<1>4. OwedLess
  BY <1>1, NotOwed DEF jobVars
<1>5. Calm /\ RunInv'
  BY <1>1, Living
<1> QED BY <1>1, <1>2, <1>3, <1>4, <1>5, Quiet

LEMMA SwapCoord ==
  ASSUME IInv, IInv', CoordInv, Swap
  PROVE  CoordInv'
<1>1. /\ stack[Main] # <<>> /\ Top(Main).pc = "sync1" /\ stack' = Goto(Main, "sync2") /\ Main \in Thread
      /\ batch[Main] = <<>> /\ batch' = [batch EXCEPT ![Main] = tasks[Main]] /\ tasks' = [tasks EXCEPT ![Main] = <<>>]
      /\ UNCHANGED <<lifeVars, poolVars, jobVars, bounds>>
  BY MainBegun DEF Swap, At
<1>2. Top(Main) \in FrameSet /\ Top(Main) = Last(stack[Main]) /\ stack[Main] \in Seq(FrameSet)
  BY <1>1, AtTop, StackIs
<1> DEFINE f == [Top(Main) EXCEPT !.pc = "sync2"]
           r == OnTop(stack[Main], f)
<1>3. f \in FrameSet /\ f.pc = "sync2"
  <2>1. "sync2" \in Pcs /\ Top(Main).pc = "sync1"
    BY <1>1 DEF Pcs
  <2> QED BY <1>2, <2>1 DEF FrameSet, DestroyPc
<1>4. stack' = [stack EXCEPT ![Main] = r]
  BY <1>1, <1>2, Gone DEF IInv
<1>5. "sync1" \notin Claims /\ "sync2" \notin Claims /\ "sync2" \notin OpPc /\ "sync2" \notin DestroyPc \cup {"quit"}
  BY DEF Claims, OpPc, AskPc, DestroyPc
<1> HIDE DEF f
<1>6. Destroys[f] = None /\ Destroys[Last(stack[Main])] = None
  BY <1>1, <1>2, <1>3, <1>5, ClaimOf
<1>7. Gains(stack[Main], r, f) /\ QuitKept(stack[Main], r) /\ ClaimsKept(stack[Main], r)
  BY <1>1, <1>2, <1>3, <1>5, <1>6, GainTop, NothingClaimed
<1>8. Adds({}) /\ QuitInv'
  <2> HIDE DEF r
  <2>1. QuitInv' /\ f.pc \notin OpPc /\ Main \in Thread
    BY <1>1, <1>3, <1>4, <1>5, <1>7, OneStack
  <2>2. Adds({})
    BY <1>4, <1>7, <2>1, GainsAdds
  <2> QED BY <2>1, <2>2
<1>9. SameClaims
  <2>1. Once(r, Destroys) /\ Values(r, Destroys) = Values(stack[Main], Destroys) /\ CarriedOnce(Deletes, Destroys)
    BY <1>7, NothingClaimed DEF ClaimsKept
  <2> HIDE DEF r
  <2> QED BY <1>1, <1>4, <2>1, QueueTaken DEF IInv, SameClaims, Claimed
<1>10. NoNewDeletes
  BY <1>1, QueueSwapped
<1>11. OwedLess
  BY <1>1, NotOwed DEF jobVars
<1>12. Calm /\ RunInv'
  <2>1. \A t \in Thread : t # Main => stack'[t] = stack[t]
    BY <1>4, StackIs
  <2> QED BY <1>1, <2>1, NoLife, NothingClaimed
<1> QED BY <1>1, <1>8, <1>9, <1>10, <1>11, <1>12, Quiet DEF lifeVars

LEMMA ExitCoord ==
  ASSUME Coordinated, IInv, IInv', CoordInv, NEW p \in Thread, Exit(p)
  PROVE  CoordInv'
<1>1. /\ MayExit /\ told' = [told EXCEPT ![Main] = TRUE]
      /\ UNCHANGED <<phase, tasks, batch, stack, poolVars, jobVars, callbacks>>
  BY DEF Exit
<1>2. Adds({}) /\ QuitInv' /\ StacksKept
  BY <1>1, NoStack
<1>3. SameClaims /\ NoNewDeletes
  BY <1>1, <1>2, QueuesSame, ClaimsSame, NothingClaimed
<1>4. OwedLess
  BY <1>1, NotOwed DEF jobVars
<1>5. Calm
  BY <1>1 DEF Calm, IInv, TypeOK, PoolType
<1>6. RunInv'
  BY <1>1, <1>5, RunKept, NothingClaimed
<1>7. AloneInv'
  <2>1. ~Foreign(OpPc) /\ ~OwedToWorkers
    BY <1>1 DEF MayExit, Coordinated
  <2>2. ~Foreign(OpPc)'
    BY <1>2, <2>1, AddsForeign
  <2> QED BY <1>4, <2>1, <2>2 DEF AloneInv, OwedToWorkers, OwedLess
<1>8. Single({}) /\ OwedFine({}) /\ DeletesFine
  BY <1>3, <1>4 DEF Single, OwedFine, OwedLess, DeletesFine, NoNewDeletes
<1> QED BY <1>2, <1>3, <1>5, <1>6, <1>7, <1>8, CalmKept DEF SameClaims

(***************************************************************************)
(* Who claims a worker.                                                     *)
(***************************************************************************)
LEMMA ClaimedIs ==
  ASSUME IInv, NEW w, w # None
  PROVE  w \in Claimed <=> \/ \E x \in In(Claims) : x[2].thread = w
                           \/ \E m \in Queued : m.kind = "delete" /\ m.thread = w
<1>1. \A t \in Thread : /\ tasks[t] \in Seq(MessageSet) /\ batch[t] \in Seq(MessageSet) /\ stack[t] \in Seq(FrameSet)
                        /\ DOMAIN stack[t] = 1..Len(stack[t])
  BY StackIs DEF IInv, TypeOK, QueueType
<1>2. \A t \in Thread : w \in Values(stack[t], Destroys) <=>
                          \E i \in 1..Len(stack[t]) : stack[t][i].pc \in Claims /\ stack[t][i].thread = w
  <2> TAKE t \in Thread
  <2>1. \A i \in 1..Len(stack[t]) : stack[t][i] \in FrameSet
    BY StackIs
  <2>2. \A i \in 1..Len(stack[t]) : Destroys[stack[t][i]] = w <=> stack[t][i].pc \in Claims /\ stack[t][i].thread = w
    BY <2>1, ClaimOf
  <2> QED BY <1>1, <2>2 DEF Values
<1>3. \A q : q \in Seq(MessageSet) =>
        (w \in Values(q, Deletes) <=> \E m \in ToSet(q) : m.kind = "delete" /\ m.thread = w)
  <2> SUFFICES ASSUME NEW q \in Seq(MessageSet)
               PROVE w \in Values(q, Deletes) <=> \E m \in ToSet(q) : m.kind = "delete" /\ m.thread = w
    OBVIOUS
  <2>1. \A i \in DOMAIN q : q[i] \in MessageSet
    OBVIOUS
  <2>2. \A i \in DOMAIN q : Deletes[q[i]] = w <=> q[i].kind = "delete" /\ q[i].thread = w
    BY <2>1, DeleteOf
  <2> QED BY <2>2 DEF Values, ToSet
<1>4. w \in Claimed <=> \E t \in Thread : \/ w \in Values(tasks[t], Deletes) \/ w \in Values(batch[t], Deletes)
                                          \/ w \in Values(stack[t], Destroys)
  <2>1. w \in Claimed <=> \E x \in Carriers : w \in Content(Deletes, Destroys, x)
    BY DEF Claimed, Carried
  <2>2. \A t \in Thread : /\ Content(Deletes, Destroys, <<"tasks", t>>) = Values(tasks[t], Deletes)
                          /\ Content(Deletes, Destroys, <<"batch", t>>) = Values(batch[t], Deletes)
                          /\ Content(Deletes, Destroys, <<"stack", t>>) = Values(stack[t], Destroys)
    BY DEF Content
  <2>3. \A t \in Thread : <<"tasks", t>> \in Carriers /\ <<"batch", t>> \in Carriers /\ <<"stack", t>> \in Carriers
    BY Contents
  <2> QED BY <2>1, <2>2, <2>3, CarrierCases
<1>5. (\E t \in Thread : w \in Values(stack[t], Destroys)) <=> \E x \in In(Claims) : x[2].thread = w
  <2>1. ASSUME NEW t \in Thread, w \in Values(stack[t], Destroys) PROVE \E x \in In(Claims) : x[2].thread = w
    <3>1. PICK i \in 1..Len(stack[t]) : stack[t][i].pc \in Claims /\ stack[t][i].thread = w
      BY <1>2, <2>1
    <3>2. <<t, stack[t][i]>> \in In(Claims)
      BY <3>1, InIs
    <3> QED BY <3>1, <3>2
  <2>2. ASSUME NEW x \in In(Claims), x[2].thread = w PROVE \E t \in Thread : w \in Values(stack[t], Destroys)
    <3>1. PICK t \in Thread : \E i \in 1..Len(stack[t]) : x = <<t, stack[t][i]>> /\ stack[t][i].pc \in Claims
      BY InIs
    <3> QED BY <1>2, <2>2, <3>1
  <2> QED BY <2>1, <2>2
<1>6. (\E t \in Thread : w \in Values(tasks[t], Deletes) \/ w \in Values(batch[t], Deletes)) <=>
        \E m \in Queued : m.kind = "delete" /\ m.thread = w
  BY <1>1, <1>3 DEF Queued
<1> QED BY <1>4, <1>5, <1>6

\* Two frames that claim the same worker are one, and no message claims it too.
LEMMA ClaimOnce ==
  ASSUME IInv, CoordInv, NEW p \in Thread, NEW i \in 1..Len(stack[p]), stack[p][i].pc \in Claims
  PROVE  /\ \A q \in Thread : \A k \in 1..Len(stack[q]) :
              stack[q][k].pc \in Claims /\ stack[q][k].thread = stack[p][i].thread => q = p /\ k = i
         /\ \A m \in Queued : m.kind = "delete" => m.thread # stack[p][i].thread
<1> DEFINE w == stack[p][i].thread
<1>1. stack[p][i] \in FrameSet /\ DOMAIN stack[p] = 1..Len(stack[p]) /\ CarriedOnce(Deletes, Destroys)
  BY StackIs, NothingClaimed
<1>2. Destroys[stack[p][i]] = w /\ w # None
  BY <1>1, ClaimOf
<1>3. w \in Content(Deletes, Destroys, <<"stack", p>>) /\ <<"stack", p>> \in Carriers
  BY <1>1, <1>2, Contents DEF Content, Values
<1>4. ASSUME NEW q \in Thread, NEW k \in 1..Len(stack[q]), stack[q][k].pc \in Claims, stack[q][k].thread = w
      PROVE  q = p /\ k = i
  <2>1. stack[q][k] \in FrameSet /\ DOMAIN stack[q] = 1..Len(stack[q])
    BY StackIs
  <2>2. Destroys[stack[q][k]] = w
    BY <1>4, <2>1, ClaimOf
  <2>3. w \in Content(Deletes, Destroys, <<"stack", q>>) /\ <<"stack", q>> \in Carriers
    BY <1>2, <2>1, <2>2, Contents DEF Content, Values
  <2>4. q = p
    BY <1>1, <1>3, <2>3 DEF CarriedOnce
  <2> QED BY <1>1, <1>2, <2>1, <2>2, <2>4 DEF CarriedOnce, Once
<1>5. ASSUME NEW m \in Queued, m.kind = "delete", m.thread = w PROVE FALSE
  <2>1. PICK t \in Thread : m \in ToSet(tasks[t]) \/ m \in ToSet(batch[t])
    BY DEF Queued
  <2>2. m \in MessageSet /\ Deletes[m] = w
    BY <1>5, QueuedIs, DeleteOf
  <2>3. w \in Content(Deletes, Destroys, <<"tasks", t>>) \/ w \in Content(Deletes, Destroys, <<"batch", t>>)
    BY <1>2, <2>1, <2>2 DEF Content, Values, ToSet
  <2>4. /\ <<"tasks", t>> \in Carriers /\ <<"batch", t>> \in Carriers
        /\ <<"tasks", t>> # <<"stack", p>> /\ <<"batch", t>> # <<"stack", p>>
    BY Contents
  <2> QED BY <1>1, <1>3, <2>3, <2>4 DEF CarriedOnce
<1> QED BY <1>4, <1>5

\* A thread that runs and was not told to quit is in threads_, unless it is being destroyed.
LEMMA StillListed ==
  ASSUME IInv, CoordInv, NEW w \in Worker, phase[w] = "open", ~told[w], w \notin Leaving
  PROVE  w \in threads
<1>1. w \in threads \cup Claimed /\ ~ToldOff(w) /\ w # None
  BY DEF CoordInv, WorkerInv, ClaimInv, ToldOff, Thread
<1>2. ASSUME NEW x \in In(Claims), x[2].thread = w PROVE FALSE
  <2>1. x \in In(DestroyPc) \/ x \in In({"hand", "flush"})
    BY DEF In, Claims
  <2> QED BY <1>1, <1>2, <2>1 DEF Leaving, CoordInv, WorkerInv, ClaimInv
<1>3. ASSUME NEW m \in Queued, m.kind = "delete", m.thread = w PROVE FALSE
  BY <1>1, <1>3 DEF CoordInv, WorkerInv, ClaimInv
<1> QED BY <1>1, <1>2, <1>3, ClaimedIs

\* Main takes tasks until it has been told to quit.
LEMMA MainAccepts ==
  ASSUME IInv, CoordInv, ~told[Main]
  PROVE  Accepts(Main)
BY MainBegun DEF Accepts, CoordInv, SharedInv, RunInv, IInv, LifeInv, QueueLife

\* A call begins: frame f, and on Main the processTasks() above it.
Begins(s, r, f) ==
  /\ Gains(s, r, f)
  /\ f.pc \notin DestroyPc \cup {"quit"} => QuitKept(s, r)
  /\ \A i \in 1..Len(r) : r[i].pc \in DestroyPc \cup {"quit"} =>
       \/ i \in 1..Len(s) /\ r[i] = s[i]
       \/ i = Len(s) + 1 /\ r[i] = f
  /\ Destroys[f] \notin Values(s, Destroys) =>
       Once(r, Destroys) /\ Values(r, Destroys) = Swapped(Values(s, Destroys), None, Destroys[f])

LEMMA BeginsOne ==
  ASSUME NEW s \in Seq(FrameSet), NEW f \in FrameSet, Once(s, Destroys)
  PROVE  Begins(s, Append(s, f), f)
<1>1. /\ Gains(s, Append(s, f), f)
      /\ f.pc \notin DestroyPc \cup {"quit"} => QuitKept(s, Append(s, f))
      /\ Destroys[f] \notin Values(s, Destroys) =>
              /\ Once(Append(s, f), Destroys)
              /\ Values(Append(s, f), Destroys) = Swapped(Values(s, Destroys), None, Destroys[f])
  BY GainPush
<1>2. \A i \in 1..Len(Append(s, f)) : \/ i \in 1..Len(s) /\ Append(s, f)[i] = s[i]
                                      \/ i = Len(s) + 1 /\ Append(s, f)[i] = f
  OBVIOUS
<1> QED BY <1>1, <1>2 DEF Begins

LEMMA BeginsTwo ==
  ASSUME NEW s \in Seq(FrameSet), NEW f \in FrameSet, Once(s, Destroys), NEW g \in FrameSet, g.pc \notin OpPc
  PROVE  Begins(s, s \o <<f, g>>, f)
<1>1. PICK r \in Seq(FrameSet) : r = Append(s, f)
  <2>1. Append(s, f) \in Seq(FrameSet)
    OBVIOUS
  <2> QED BY <2>1
<1>2. PICK q \in Seq(FrameSet) : q = Append(r, g)
  <2>1. Append(r, g) \in Seq(FrameSet)
    OBVIOUS
  <2> QED BY <2>1
<1>3. s \o <<f, g>> = q
  BY <1>1, <1>2, TwoPushed
<1>4. Begins(s, r, f)
  BY <1>1, BeginsOne
<1>5. g.pc \notin DestroyPc \cup {"quit"} /\ g.pc \notin Claims
  BY DEF OpPc, Claims
<1>6. Gains(r, q, g) /\ QuitKept(r, q) /\ (Once(r, Destroys) => ClaimsKept(r, q))
  BY <1>2, <1>5, GainPush
<1>7. Gains(s, q, f) /\ (f.pc \notin DestroyPc \cup {"quit"} => QuitKept(s, q))
  BY <1>4, <1>6, GainTwice DEF Begins
<1>8. \A i \in 1..Len(q) : \/ i \in 1..Len(r) /\ q[i] = r[i]
                           \/ q[i] = g
  BY <1>2
<1>9. \A i \in 1..Len(q) : q[i].pc \in DestroyPc \cup {"quit"} =>
        \/ i \in 1..Len(s) /\ q[i] = s[i]
        \/ i = Len(s) + 1 /\ q[i] = f
  BY <1>4, <1>5, <1>8 DEF Begins
<1>10. Destroys[f] \notin Values(s, Destroys) =>
         Once(q, Destroys) /\ Values(q, Destroys) = Swapped(Values(s, Destroys), None, Destroys[f])
  BY <1>4, <1>6 DEF Begins, ClaimsKept
<1> QED BY <1>3, <1>7, <1>9, <1>10 DEF Begins

\* A message of a call that begins, if there is one, deletes nothing.
QuietPost == tasks' = tasks \/ \E m \in MessageSet : m.kind # "delete" /\ Post(Main, m)

LEMMA QuietPosted ==
  ASSUME IInv, CoordInv, QuietPost, batch' = batch
  PROVE  DeletesKept /\ NoNewDeletes
<1>1. CASE tasks' = tasks
  BY <1>1, QueuesSame, NothingClaimed
<1>2. ASSUME NEW m \in MessageSet, m.kind # "delete", Post(Main, m) PROVE DeletesKept /\ NoNewDeletes
  BY <1>2, QueuePosted, NothingClaimed, MainBegun
<1> QED BY <1>1, <1>2 DEF QuietPost

LEMMA InvokeBegins ==
  ASSUME IInv, CoordInv, NEW p \in Thread, NEW f \in FrameSet, f.pc \in Asked, NEW refused,
         p # Main => Accepts(Main), Invoke(p, stack, f, refused)
  PROVE  \E r : Begins(stack[p], r, f) /\ stack' = [stack EXCEPT ![p] = r] /\ QuietPost
<1>0. stack[p] \in Seq(FrameSet) /\ Once(stack[p], Destroys)
  BY StackIs, NothingClaimed
<1>1. CASE p = Main /\ stack' = [stack EXCEPT ![p] = @ \o <<f, Frame("sync1", None, None)>>] /\ UNCHANGED tasks
  <2> DEFINE g == Frame("sync1", None, None)
  <2>1. "sync1" \in Pcs /\ "sync1" \notin OpPc /\ "sync1" \notin {"start", "flush"} \cup DestroyPc
    BY DEF Pcs, OpPc, AskPc, DestroyPc
  <2>2. g \in FrameSet /\ g.pc = "sync1"
    BY <2>1, FrameIn
  <2> HIDE DEF g
  <2>3. Begins(stack[p], stack[p] \o <<f, g>>, f)
    BY <1>0, <2>1, <2>2, BeginsTwo
  <2>4. stack' = [stack EXCEPT ![p] = stack[p] \o <<f, g>>]
    BY <1>1 DEF g
  <2> QED BY <1>1, <2>3, <2>4 DEF QuietPost
<1>2. CASE p # Main /\ stack' = [stack EXCEPT ![p] = Append(@, f)] /\ Post(Main, Message(f.pc, p, None))
  <2>1. Message(f.pc, p, None) \in MessageSet /\ Message(f.pc, p, None).kind # "delete"
    BY <1>2 DEF Message, MessageSet, Kinds, Asked
  <2>2. Begins(stack[p], Append(stack[p], f), f)
    BY <1>0, BeginsOne
  <2>3. QuietPost
    BY <1>2, <2>1 DEF QuietPost
  <2> QED BY <1>2, <2>2, <2>3
<1> QED BY <1>1, <1>2 DEF Invoke

(***************************************************************************)
(* The calls that ask for a thread, or post to one.                         *)
(***************************************************************************)
LEMMA BeginsQuit ==
  ASSUME IInv, CoordInv, NEW p \in Thread, NEW f, NEW r, Begins(stack[p], r, f), stack' = [stack EXCEPT ![p] = r],
         f.pc # "quit", f.pc \in DestroyPc => ~Quitting \/ At(p, "quit")
  PROVE  QuitInv'
<1>1. stack'[p] = r /\ \A t \in Thread : t # p => stack'[t] = stack[t]
  BY StackIs
<1>2. \A t \in Thread : \A i \in 1..Len(stack'[t]) : stack'[t][i].pc \in DestroyPc \cup {"quit"} =>
        \/ i \in 1..Len(stack[t]) /\ stack'[t][i] = stack[t][i]
        \/ t = p /\ i = Len(stack[p]) + 1 /\ stack'[t][i] = f
  BY <1>1 DEF Begins
<1> SUFFICES ASSUME NEW a \in Thread, NEW b \in Thread, NEW i \in 1..Len(stack'[a]), NEW k \in 1..Len(stack'[b]),
                    stack'[a][i].pc = "quit", stack'[b][k].pc \in DestroyPc \cup {"quit"}
             PROVE  a = b /\ i <= k
  BY DEF QuitInv, QuitsFirst
<1>3. i \in 1..Len(stack[a]) /\ stack'[a][i] = stack[a][i]
  BY <1>2
<1>4. CASE k \in 1..Len(stack[b]) /\ stack'[b][k] = stack[b][k]
  BY <1>3, <1>4, NothingClaimed DEF QuitInv, QuitsFirst
<1>5. CASE b = p /\ k = Len(stack[p]) + 1 /\ stack'[b][k] = f
  <2>1. f.pc \in DestroyPc
    BY <1>5
  <2>2. <<a, stack[a][i]>> \in In({"quit"})
    BY <1>3, InIs
  <2>3. At(p, "quit")
    BY <2>1, <2>2 DEF Quitting
  <2>4. Len(stack[p]) \in 1..Len(stack[p]) /\ stack[p][Len(stack[p])].pc = "quit" /\ Len(stack[p]) \in Nat
    BY <2>3, StackIs DEF At, Top, Last
  <2>5. a = p /\ i <= Len(stack[p])
    BY <1>3, <2>4, NothingClaimed DEF QuitInv, QuitsFirst
  <2> QED BY <1>5, <2>4, <2>5
<1> QED BY <1>2, <1>4, <1>5

LEMMA BeginsStep ==
  ASSUME IInv, CoordInv, NEW p \in Thread, stack[p] # <<>>, NEW f \in FrameSet, NEW r, Begins(stack[p], r, f),
         stack' = [stack EXCEPT ![p] = r], QuietPost, batch' = batch, UNCHANGED <<lifeVars, poolVars>>
  PROVE  /\ Adds({<<p, f>>}) /\ NoNewDeletes /\ Calm /\ RunInv'
         /\ f.pc \in AskPc => SameClaims /\ QuitInv'
<1>1. Adds({<<p, f>>})
  BY GainsAdds DEF Begins
<1>2. DeletesKept /\ NoNewDeletes
  BY QuietPosted
<1>3. Calm /\ RunInv'
  <2>1. \A t \in Thread : t # p => stack'[t] = stack[t]
    BY StackIs
  <2> QED BY <2>1, NoLife, NothingClaimed
<1>4. ASSUME f.pc \in AskPc PROVE SameClaims /\ QuitInv'
  <2>1. f.pc \notin DestroyPc \cup {"quit"} /\ f.pc \notin Claims
    BY <1>4 DEF AskPc, DestroyPc, Claims
  <2>2. Destroys[f] = None /\ None \notin Values(stack[p], Destroys)
    BY <2>1, ClaimOf, NoneValue
  <2>3. ClaimsKept(stack[p], r) /\ QuitKept(stack[p], r)
    BY <2>1, <2>2 DEF Begins, ClaimsKept, Swapped
  <2> QED BY <1>2, <2>3, OneStack, ClaimsSame, NothingClaimed
<1> QED BY <1>1, <1>2, <1>3, <1>4

LEMMA AskCoord ==
  ASSUME IInv, IInv', CoordInv, NEW p \in Thread, stack[p] # <<>>, NEW f, f.pc \in AskPc, Adds({<<p, f>>}), Calm,
         UNCHANGED lifeVars, QuitInv', RunInv', SameClaims, NoNewDeletes,
         p # Main => ~told[Main] /\ ~Quitting /\ Leaving = {},
         f.pc = "get" => ~gone,
         f.pc = "post" => f.thread \in threads /\ \A y \in In({"unlist"}) : y[2].thread # f.thread,
         \A w \in Worker : Owed(w)' => Owed(w) \/ (w = p /\ ~told[p])
  PROVE  CoordInv'
<1> DEFINE N == {<<p, f>>}
<1>0. Main \notin Worker /\ f.pc \notin DestroyPc /\ f.pc \notin {"quit", "flush", "start"}
  BY MainBegun DEF AskPc, DestroyPc
<1>1. AloneInv'
  <2>1. OwedLess \/ ~told[Main]
    BY <1>0 DEF OwedLess
  <2> QED BY <2>1, AloneKept DEF CoordInv, SharedInv, lifeVars
<1>2. \A w \in Worker : Owed(w)' => Owed(w) \/ (w \in threads /\ w \notin Leaving)
  <2>1. p \in Worker /\ ~told[p] => phase[p] = "open"
    BY <1>0 DEF CoordInv, SharedInv, RunInv
  <2> QED BY <1>0, <2>1, StillListed
<1>3. OwedFine(N)
  <2>1. OwedLess \/ ~Quitting
    BY <1>0 DEF OwedLess
  <2> QED BY <1>0, <1>2, <2>1 DEF OwedFine
<1>4. \A x \in N : NewFine(x)
  <2>1. ApartFine(<<p, f>>)
    BY <1>0 DEF ApartFine
  <2>2. ClaimFine(<<p, f>>) /\ StartFine(<<p, f>>)
    BY <1>0 DEF ClaimFine, StartFine, DestroyPc
  <2>3. UseFine(<<p, f>>)
    BY <1>0 DEF UseFine, DestroyPc, Calm, poolVars
  <2> QED BY <1>0, <2>1, <2>2, <2>3 DEF NewFine, DestroyPc
<1>5. Single(N) /\ DeletesFine
  BY DEF Single, DeletesFine, NoNewDeletes
<1> HIDE DEF N
<1> QED BY <1>1, <1>3, <1>4, <1>5, CalmKept DEF SameClaims, N

\* A call that other threads may make is made while Main runs.
LEMMA OwedOne ==
  ASSUME NEW p, NEW j \in Job, caller' = [caller EXCEPT ![j] = p], UNCHANGED <<ended, dropped>>, TypeOK
  PROVE  \A w \in Worker : Owed(w)' => Owed(w) \/ w = p
<1>1. \A i \in Job : i # j => caller'[i] = caller[i]
  OBVIOUS
<1>2. caller'[j] = p
  BY DEF TypeOK, PoolType
<1> QED BY <1>1, <1>2 DEF Owed

LEMMA AsyncCoord ==
  ASSUME Coordinated, IInv, IInv', CoordInv, NEW p \in Thread, NEW j \in Job, Async(p, j)
  PROVE  CoordInv'
<1> DEFINE f == Frame("get", None, j)
<1>1. /\ stack[p] # <<>> /\ ~gone /\ MayAsk(p) /\ Invoke(p, stack, f, "post")
      /\ caller' = [caller EXCEPT ![j] = p]
      /\ UNCHANGED <<lifeVars, batch, poolVars, ended, dropped, callbacks>>
  BY DEF Async, Call
<1>2. f \in FrameSet /\ f.pc = "get"
  <2>1. "get" \in Pcs /\ "get" \notin {"start", "flush"} \cup DestroyPc
    BY DEF Pcs, OpPc, AskPc, DestroyPc
  <2>2. None \in Thread \cup {None} /\ j \in Job \cup {None} /\ j # None
    OBVIOUS
  <2> QED BY <2>1, <2>2, FrameIn
<1> HIDE DEF f
<1>3. p # Main => ~told[Main] /\ ~Quitting /\ Leaving = {} /\ ~told[p]
  BY <1>1 DEF MayAsk, Coordinated
<1>4. f.pc \in Asked /\ f.pc \in AskPc
  BY <1>2 DEF Asked, AskPc
<1>5. PICK r : Begins(stack[p], r, f) /\ stack' = [stack EXCEPT ![p] = r] /\ QuietPost
  BY <1>1, <1>2, <1>3, <1>4, MainAccepts, InvokeBegins
<1>6. Adds({<<p, f>>}) /\ NoNewDeletes /\ Calm /\ RunInv' /\ SameClaims /\ QuitInv'
  BY <1>1, <1>2, <1>4, <1>5, BeginsStep
<1>7. \A w \in Worker : Owed(w)' => Owed(w) \/ (w = p /\ ~told[p])
  BY <1>1, <1>3, OwedOne, MainBegun DEF IInv
<1> QED BY <1>1, <1>2, <1>3, <1>4, <1>6, <1>7, AskCoord

LEMMA AsyncOnCoord ==
  ASSUME Coordinated, IInv, IInv', CoordInv, NEW p \in Thread, NEW w \in Worker, NEW j \in Job, AsyncOn(p, w, j)
  PROVE  CoordInv'
<1> DEFINE f == Frame("post", w, j)
<1>1. /\ stack[p] # <<>> /\ MayAsk(p) /\ w \in Known \ Leaving /\ stack' = Push(p, f)
      /\ caller' = [caller EXCEPT ![j] = p]
      /\ UNCHANGED <<lifeVars, tasks, batch, poolVars, ended, dropped, callbacks>>
  BY DEF AsyncOn, Call
<1>2. f \in FrameSet /\ f.pc = "post" /\ f.thread = w
  <2>1. "post" \in Pcs /\ "post" \notin {"start", "flush"} \cup DestroyPc
    BY DEF Pcs, OpPc, AskPc, DestroyPc
  <2>2. w \in Thread \cup {None} /\ w \in Worker \cup {None} /\ j \in Job \cup {None} /\ j # None
    BY DEF Thread
  <2> QED BY <2>1, <2>2, FrameIn
<1> HIDE DEF f
<1>3. p # Main => ~told[Main] /\ ~Quitting /\ Leaving = {} /\ ~told[p]
  BY <1>1 DEF MayAsk, Coordinated
<1>4. f.pc \in AskPc /\ f.pc # "get"
  BY <1>2 DEF AskPc
<1>5. Begins(stack[p], Append(stack[p], f), f) /\ stack' = [stack EXCEPT ![p] = Append(stack[p], f)] /\ QuietPost
  BY <1>1, <1>2, BeginsOne, StackIs, NothingClaimed DEF Push, QuietPost
<1>6. Adds({<<p, f>>}) /\ NoNewDeletes /\ Calm /\ RunInv' /\ SameClaims /\ QuitInv'
  BY <1>1, <1>2, <1>4, <1>5, BeginsStep
<1>7. \A u \in Worker : Owed(u)' => Owed(u) \/ (u = p /\ ~told[p])
  BY <1>1, <1>3, OwedOne, MainBegun DEF IInv
<1>8. f.thread \in threads /\ \A y \in In({"unlist"}) : y[2].thread # f.thread
  <2>1. \A y \in In({"unlist"}) : y \in In(DestroyPc)
    BY DEF In, DestroyPc
  <2> QED BY <1>1, <1>2, <2>1 DEF Known, Leaving
<1> QED BY <1>1, <1>2, <1>3, <1>4, <1>6, <1>7, <1>8, AskCoord

\* getThread() is answered with a work thread.
LEMMA AnswerCoord ==
  ASSUME IInv, IInv', CoordInv, NEW q \in Thread, At(q, "get"), NEW w \in ToSet(workThreads),
         stack' = Answered(stack, q, w), UNCHANGED <<lifeVars, poolVars, jobVars>>, DeletesKept, NoNewDeletes
  PROVE  CoordInv'
<1>1. stack[q] # <<>> /\ Top(q).pc = "get" /\ Top(q) \in FrameSet /\ Top(q) = Last(stack[q]) /\ stack[q] \in Seq(FrameSet)
  BY AtTop, StackIs DEF At
<1>2. w \in Worker /\ w \in threads /\ \A y \in In({"unlist"}) : y[2].thread # w
  BY DEF CoordInv, WorkerInv, WorkInv, IInv, TypeOK, PoolType
<1> DEFINE f == [Last(stack[q]) EXCEPT !.pc = "post", !.thread = w]
           r == OnTop(stack[q], f)
<1>3. f \in FrameSet /\ f.pc = "post" /\ f.thread = w
  BY <1>1, <1>2 DEF FrameSet, Pcs, OpPc, AskPc, DestroyPc, Thread
<1>4. stack' = [stack EXCEPT ![q] = r]
  BY Answering
<1> HIDE DEF f
<1>5. {"get", "post"} \cap (Claims \cup DestroyPc \cup {"quit"}) = {} /\ {"get", "post"} = AskPc /\ AskPc \subseteq OpPc
  BY DEF Claims, DestroyPc, AskPc, OpPc
<1>6. Destroys[f] = None /\ Destroys[Last(stack[q])] = None
  BY <1>1, <1>3, <1>5, ClaimOf
<1>7. Gains(stack[q], r, f) /\ QuitKept(stack[q], r) /\ ClaimsKept(stack[q], r)
  BY <1>1, <1>3, <1>5, <1>6, GainTop, NothingClaimed
<1> HIDE DEF r
<1>8. Adds({<<q, f>>}) /\ StacksKept /\ QuitInv'
  BY <1>4, <1>7, GainsAdds, OneStack
<1>9. SameClaims
  BY <1>8, ClaimsSame, NothingClaimed
<1>10. Calm /\ RunInv'
  <2>1. \A t \in Thread : t # q => stack'[t] = stack[t]
    BY <1>4, StackIs
  <2> QED BY <1>1, <2>1, NoLife, NothingClaimed
<1>11. q # Main => ~told[Main] /\ ~Quitting /\ Leaving = {}
  <2>1. <<q, Top(q)>> \in In(AskPc) /\ <<q, Top(q)>> \in In(OpPc) /\ <<q, Top(q)>> \in In(AskPc \cup {"start"})
    BY <1>1, <1>5, TopIn
  <2>2. q # Main => Foreign(AskPc) /\ Foreign(OpPc) /\ Foreign(AskPc \cup {"start"})
    BY <2>1 DEF Foreign
  <2> QED BY <2>2 DEF CoordInv, SharedInv, AloneInv, ApartInv
<1>12. \A u \in Worker : Owed(u)' => Owed(u) \/ (u = q /\ ~told[q])
  BY DEF Owed, jobVars
<1> QED BY <1>1, <1>2, <1>3, <1>5, <1>8, <1>9, <1>10, <1>11, <1>12, AskCoord

(***************************************************************************)
(* A thread is constructed.                                                 *)
(***************************************************************************)
LEMMA Unclaimed ==
  ASSUME IInv, CoordInv, NEW w \in Worker, phase[w] \in {"none", "deleted"}
  PROVE  /\ w \notin threads /\ w \notin Claimed
         /\ \A x \in In(Claims) : x[2].thread # w
         /\ \A m \in Queued : m.kind = "delete" => m.thread # w
<1>1. w \notin threads \cup Claimed /\ w # None
  BY DEF CoordInv, WorkerInv, ClaimInv, Thread
<1> QED BY <1>1, ClaimedIs

\* The stack of a step that pushes a frame that claims nothing.
LEMMA PushKept ==
  ASSUME IInv, CoordInv, NEW p \in Thread, NEW f \in FrameSet, f.pc \notin Claims \cup {"quit"}, stack' = Push(p, f)
  PROVE  Adds({<<p, f>>}) /\ StacksKept /\ QuitInv'
<1>1. stack' = [stack EXCEPT ![p] = Append(stack[p], f)] /\ stack[p] \in Seq(FrameSet)
  BY StackIs DEF Push
<1>2. f.pc \notin DestroyPc \cup {"quit"} /\ f.pc \notin Claims
  BY DEF Claims
<1>3. Gains(stack[p], Append(stack[p], f), f) /\ QuitKept(stack[p], Append(stack[p], f))
      /\ ClaimsKept(stack[p], Append(stack[p], f))
  BY <1>1, <1>2, GainPush, NothingClaimed
<1> QED BY <1>1, <1>3, OneStack, GainsAdds

LEMMA BornCoord ==
  ASSUME IInv, IInv', CoordInv, NEW p \in Thread, NEW w \in Worker, NEW f \in FrameSet, Born(p, w, f),
         f.pc = "start", f.thread = w, f.for # None => Len(workThreads) < WorkThreads,
         UNCHANGED <<told, workThreads, gone, jobVars>>, DeletesKept, NoNewDeletes,
         ~gone, stack[p] # <<>> \/ p = Main, p # Main => ~told[Main] /\ ~Quitting
  PROVE  CoordInv'
<1> DEFINE N == {<<p, f>>}
<1>0. /\ phase[w] = "none" /\ phase'[w] = "made" /\ threads' = threads \cup {w}
      /\ \A t \in Thread : t # w => phase'[t] = phase[t]
      /\ stack' = Push(p, f) /\ Main # w /\ w \in Thread
      /\ Len(workThreads) \in Nat
  BY MainBegun DEF Born, Push, IInv, TypeOK, PoolType, Thread
<1>1. f.pc \notin Claims \cup {"quit"} /\ f.pc \notin AskPc \cup DestroyPc
  BY DEF Claims, DestroyPc, AskPc
<1>2. Adds(N) /\ StacksKept /\ QuitInv' /\ Single(N)
  BY <1>0, <1>1, PushKept DEF Single
<1>3. CarriedOnce(Deletes, Destroys)' /\ Claimed' = Claimed
  BY <1>2, ClaimsSame, NothingClaimed DEF SameClaims
<1>4. OwedLess
  BY NotOwed DEF jobVars
<1>5. w \notin threads /\ w \notin Claimed /\ (\A x \in In(Claims) : x[2].thread # w)
      /\ \A m \in Queued : m.kind = "delete" => m.thread # w
  BY <1>0, Unclaimed
<1>6. stack[w] = <<>> /\ w # p
  <2>1. ~Begun(w)
    BY <1>0 DEF Begun
  <2>2. stack[w] = <<>>
    BY <1>0, <2>1 DEF IInv, LifeInv, StackLife
  <2> QED BY <1>0, <2>2
<1>7. AloneInv'
  BY <1>2, <1>4, AloneKept DEF CoordInv, SharedInv
<1>8. ApartInv'
  BY <1>1, <1>2, <1>4, ApartKept DEF CoordInv, SharedInv, ApartFine
<1>9. TeardownInv'
  BY <1>0, <1>2, TeardownKept, MainBegun DEF CoordInv, SharedInv
<1>10. RunInv'
  <2>1. \A t \in Thread : t # p => stack'[t] = stack[t]
    BY StackIs DEF Born
  <2> QED BY <1>0, <1>6, <2>1 DEF RunInv, CoordInv, SharedInv
<1> HIDE DEF N
<1>11. ClaimInv'
  <2>1. {"erase", "unlist"} \subseteq OpPc /\ {"tell", "hand", "flush"} \subseteq OpPc /\ {"hand", "flush"} \subseteq OpPc
    BY DEF OpPc, DestroyPc
  <2>2. In({"erase", "unlist"})' \subseteq In({"erase", "unlist"})
        /\ In({"tell", "hand", "flush"})' \subseteq In({"tell", "hand", "flush"})
        /\ In({"hand", "flush"})' \subseteq In({"hand", "flush"})
    BY <1>2, <2>1, AddsIn DEF N
  <2>3. In({"tell", "hand", "flush"}) \subseteq In(Claims) /\ In({"hand", "flush"}) \subseteq In(Claims)
    BY DEF In, Claims, DestroyPc
  <2>4. \A x \in In({"hand", "flush"}) : x[2].thread \in Worker
    <3>1. \A x \in In({"hand", "flush"}) : x[2].pc \in {"hand", "flush"} /\ x[2] \in FrameSet
      BY InFrame
    <3> QED BY <3>1 DEF FrameSet, DestroyPc
  <2>5. \A u \in Worker : u # w => (ToldOff(u)' <=> ToldOff(u)) /\ (Lives(u)' <=> Lives(u))
    BY <1>0 DEF ToldOff, Lives, Thread
  <2>6. \A x \in In({"erase", "unlist"})' : x[2].thread \in threads'
    BY <1>0, <2>2 DEF CoordInv, WorkerInv, ClaimInv
  <2>7. \A x \in In({"tell", "hand", "flush"})' : x[2].thread \notin threads'
    BY <1>0, <1>5, <2>2, <2>3 DEF CoordInv, WorkerInv, ClaimInv
  <2>8. \A x \in In({"hand", "flush"})' : ToldOff(x[2].thread)'
    BY <1>5, <2>2, <2>3, <2>4, <2>5 DEF CoordInv, WorkerInv, ClaimInv
  <2>9. \A m \in Queued' : m.kind = "delete" => m.thread \notin threads' /\ ToldOff(m.thread)'
    BY <1>0, <1>5, <2>5, QueuedIs DEF NoNewDeletes, CoordInv, WorkerInv, ClaimInv
  <2>10. \A u \in Worker : phase'[u] \notin {"none", "deleted"} <=> u \in threads' \cup Claimed'
    BY <1>0, <1>3, <2>5 DEF CoordInv, WorkerInv, ClaimInv, Lives
  <2> QED BY <1>3, <2>6, <2>7, <2>8, <2>9, <2>10 DEF ClaimInv
<1>12. UseInv'
  <2>1. \A y \in In({"unlist"}) \cup In({"erase"}) : y[2].thread # w
    <3>1. In({"unlist"}) \subseteq In(Claims) /\ In({"erase"}) \subseteq In(Claims)
      BY DEF In, Claims, DestroyPc
    <3> QED BY <1>5, <3>1
  <2>2. UseFine(<<p, f>>)
    BY <1>0, <2>1 DEF UseFine
  <2> QED BY <1>0, <1>2, <2>2, UseKept DEF CoordInv, WorkerInv, N
<1>13. StartInv'
  <2>1. \A y \in In({"start"}) : y[2].thread # w /\ y[2].thread \in Worker
    <3>1. \A y \in In({"start"}) : y[2].pc \in {"start"} /\ y[2] \in FrameSet
      BY InFrame
    <3> QED BY <1>0, <3>1 DEF CoordInv, WorkerInv, StartInv, FrameSet
  <2>2. StartFine(<<p, f>>)
    BY <1>0, <2>1 DEF StartFine
  <2>3. ASSUME NEW x \in In({"start"})' PROVE phase[x[2].thread] = "made" => phase'[x[2].thread] = "made"
    <3>1. {"start"} \subseteq OpPc
      BY DEF OpPc
    <3>2. x \in In({"start"}) \/ x = <<p, f>>
      BY <1>2, <3>1, AddsIn DEF N
    <3> QED BY <1>0, <2>1, <3>2 DEF Thread
  <2> QED BY <1>0, <1>2, <2>2, <2>3, StartsFine DEF CoordInv, WorkerInv, N
<1>14. WorkInv'
  <2>1. ToSet(workThreads) \subseteq threads'
    BY <1>0 DEF CoordInv, WorkerInv, WorkInv
  <2> QED BY <1>2, <2>1, WorkKept DEF CoordInv, WorkerInv, N
<1>15. OwedInv'
  BY <1>0, <1>1, <1>2, <1>4, OwedKept DEF CoordInv, WorkerInv, OwedLess, N
<1> QED BY <1>2, <1>7, <1>8, <1>9, <1>10, <1>11, <1>12, <1>13, <1>14, <1>15 DEF CoordInv, SharedInv, WorkerInv

LEMMA CreateCoord ==
  ASSUME Coordinated, IInv, IInv', CoordInv, NEW p \in Thread, Create(p)
  PROVE  CoordInv'
<1>1. /\ stack[p] # <<>> /\ ~gone /\ MayCreate(p) /\ NewThread(p, stack, None)
      /\ UNCHANGED <<told, tasks, batch, workThreads, gone, jobVars, callbacks>>
  BY DEF Create, Call
<1>2. PICK w \in Worker, f \in FrameSet : Born(p, w, f) /\ f.pc = "start" /\ f.for = None /\ f.thread = w
  BY <1>1, BornOne
<1>3. p # Main => ~told[Main] /\ ~Quitting
  BY <1>1 DEF MayCreate, Coordinated
<1>4. DeletesKept /\ NoNewDeletes
  BY <1>1, QueuesSame, NothingClaimed
<1> QED BY <1>1, <1>2, <1>3, <1>4, BornCoord

LEMMA SelectedOne ==
  ASSUME NEW q, SelectThread(q)
  PROVE  \/ \E w \in ToSet(workThreads) : stack' = Answered(stack, q, w) /\ UNCHANGED <<phase, threads>>
         \/ Len(workThreads) < WorkThreads /\ NewThread(Main, stack, q)
<1>1. \A asleep : \A i \in Candidates(asleep) : workThreads[i] \in ToSet(workThreads)
  BY DEF Candidates, ToSet
<1> QED BY <1>1 DEF SelectThread

\* getThread() of q, run by Main.
LEMMA SelectCoord ==
  ASSUME IInv, IInv', CoordInv, NEW q \in Thread, At(q, "get"), SelectThread(q),
         UNCHANGED <<told, workThreads, gone, jobVars>>, DeletesKept, NoNewDeletes
  PROVE  CoordInv'
<1>1. CASE \E w \in ToSet(workThreads) : stack' = Answered(stack, q, w) /\ UNCHANGED <<phase, threads>>
  <2>1. UNCHANGED <<lifeVars, poolVars, jobVars>>
    BY <1>1 DEF lifeVars, poolVars
  <2> QED BY <1>1, <2>1, AnswerCoord
<1>2. CASE Len(workThreads) < WorkThreads /\ NewThread(Main, stack, q)
  <2>1. PICK w \in Worker, f \in FrameSet : Born(Main, w, f) /\ f.pc = "start" /\ f.for = q /\ f.thread = w
    BY <1>2, BornOne, MainBegun
  <2>2. ~gone
    <3>1. <<q, Top(q)>> \in In({"get", "start"})
      BY TopIn DEF At
    <3> QED BY <3>1 DEF CoordInv, SharedInv, TeardownInv
  <2> QED BY <1>2, <2>1, <2>2, BornCoord, MainBegun
<1> QED BY <1>1, <1>2, SelectedOne

LEMMA GetOwnCoord ==
  ASSUME IInv, IInv', CoordInv, GetOwn
  PROVE  CoordInv'
<1>1. /\ At(Main, "get") /\ SelectThread(Main)
      /\ UNCHANGED <<told, tasks, batch, workThreads, gone, jobVars, bounds>>
  BY DEF GetOwn
<1>2. DeletesKept /\ NoNewDeletes
  BY <1>1, QueuesSame, NothingClaimed
<1> QED BY <1>1, <1>2, SelectCoord, MainBegun

LEMMA RunGetCoord ==
  ASSUME IInv, IInv', CoordInv, RunGet
  PROVE  CoordInv'
<1> DEFINE q == Head(batch[Main]).thread
<1>1. /\ NextTask(Main, "get") /\ SelectThread(q) /\ Main \in Thread
      /\ UNCHANGED <<told, tasks, workThreads, gone, jobVars, bounds>>
  BY MainBegun DEF RunGet
<1>2. /\ batch[Main] # <<>> /\ batch' = [batch EXCEPT ![Main] = Tail(@)]
      /\ Head(batch[Main]) \in MessageSet /\ Head(batch[Main]).kind = "get"
      /\ Head(batch[Main]) \in ToSet(batch[Main])
  BY <1>1, NextOne
<1>3. q \in Thread
  BY <1>2 DEF MessageSet, Asked
<1>4. At(q, "get")
  <2>1. Waits(Main, Head(batch[Main]))
    BY <1>1, <1>2 DEF IInv, AskInv
  <2> QED BY <1>2, <2>1 DEF Waits, Asked
<1> HIDE DEF q
<1>5. DeletesKept /\ NoNewDeletes
  BY <1>1, <1>2, QueueBegun, NothingClaimed
<1> QED BY <1>1, <1>3, <1>4, <1>5, SelectCoord

(***************************************************************************)
(* A thread is started.                                                     *)
(***************************************************************************)
LEMMA GainsAll ==
  ASSUME IInv, NEW q, NEW f,
         \A t \in Thread : \E g : Gains(stack[t], stack'[t], g) /\ (g.pc \in OpPc => t = q /\ g = f)
  PROVE  Adds({<<q, f>>})
<1>1. ASSUME NEW x \in In(OpPc)' PROVE x \in In(OpPc) \cup {<<q, f>>}
  <2>1. PICK t \in Thread : \E i \in 1..Len(stack'[t]) : x = <<t, stack'[t][i]>> /\ stack'[t][i].pc \in OpPc
    BY DEF In, Frames
  <2>2. PICK i \in 1..Len(stack'[t]) : x = <<t, stack'[t][i]>> /\ stack'[t][i].pc \in OpPc
    BY <2>1
  <2>3. PICK g : Gains(stack[t], stack'[t], g) /\ (g.pc \in OpPc => t = q /\ g = f)
    OBVIOUS
  <2>4. stack'[t][i] = g \/ \E k \in 1..Len(stack[t]) : stack'[t][i] = stack[t][k]
    BY <2>2, <2>3 DEF Gains
  <2>5. CASE \E k \in 1..Len(stack[t]) : stack'[t][i] = stack[t][k]
    BY <2>2, <2>5, InIs
  <2>6. CASE stack'[t][i] = g
    BY <2>2, <2>3, <2>6
  <2> QED BY <2>4, <2>5, <2>6
<1> QED BY <1>1 DEF Adds

Starting(p, w) ==
  /\ At(p, "start") /\ Top(p).thread = w
  /\ phase' = [phase EXCEPT ![w] = "open"]
  /\ UNCHANGED <<told, tasks, batch, threads, gone, jobVars, bounds>>
  /\ \A x \in In({"start"})' : x[2].thread # w
  /\ \/ workThreads' = workThreads
     \/ /\ workThreads' = Append(workThreads, w) /\ Top(p).for # None
        /\ \A x \in In({"start"})' : x[2].for = None

LEMMA StartingFacts ==
  ASSUME IInv, CoordInv, NEW p \in Thread, At(p, "start")
  PROVE  LET w == Top(p).thread
         IN /\ w \in Worker /\ w \in Thread /\ w # Main /\ w # None /\ w \in threads /\ phase[w] = "made" /\ ~gone
            /\ w \notin ToSet(workThreads)
            /\ \A y \in In({"unlist"}) : y[2].thread # w
            /\ Top(p).for # None => Len(workThreads) < WorkThreads
            /\ \A x \in In({"start"}) : x[2].thread = w => x[1] = p
<1> DEFINE w == Top(p).thread
<1>1. stack[p] # <<>> /\ Top(p).pc = "start" /\ Top(p) \in FrameSet
  BY AtTop DEF At
<1>2. w \in Worker
  BY <1>1 DEF FrameSet
<1>3. <<p, Top(p)>> \in In({"start"}) /\ <<p, Top(p)>> \in In({"start", "post"}) /\ <<p, Top(p)>> \in In({"get", "start"})
  BY <1>1, TopIn
<1>4. w \in threads /\ \A y \in In({"unlist"}) : y[2].thread # w
  BY <1>3 DEF CoordInv, WorkerInv, UseInv
<1>5. phase[w] = "made" /\ (Top(p).for # None => Len(workThreads) < WorkThreads)
  BY <1>3 DEF CoordInv, WorkerInv, StartInv
<1>6. ~gone
  BY <1>3 DEF CoordInv, SharedInv, TeardownInv
<1>7. w \notin ToSet(workThreads)
  BY <1>5 DEF IInv, LifeInv, RefLife, Begun
<1>8. \A x \in In({"start"}) : x[2].thread = w => x = <<p, Top(p)>>
  BY <1>3 DEF CoordInv, WorkerInv, StartInv
<1> QED BY <1>2, <1>4, <1>5, <1>6, <1>7, <1>8, MainBegun DEF Thread

LEMMA StartedCoord ==
  ASSUME IInv, IInv', CoordInv, NEW p \in Thread, NEW w, Starting(p, w), NEW N, Single(N), Adds(N),
         \A x \in N : x[2].pc \in OpPc =>
           /\ x[2].pc = "post" /\ x[2].thread = w
           /\ x[1] # Main => ~told[Main] /\ ~Quitting /\ Leaving = {},
         StacksKept, \A t \in Thread : stack'[t] # <<>> => stack[t] # <<>>
  PROVE  CoordInv'
<1>0. /\ w \in Worker /\ w \in Thread /\ w # Main /\ w \in threads /\ phase[w] = "made" /\ ~gone
      /\ w \notin ToSet(workThreads)
      /\ \A y \in In({"unlist"}) : y[2].thread # w
      /\ Top(p).for # None => Len(workThreads) < WorkThreads
  BY StartingFacts DEF Starting
<1>1. /\ phase'[w] = "open" /\ \A t \in Thread : t # w => phase'[t] = phase[t]
      /\ told' = told /\ threads' = threads /\ gone' = gone /\ Len(workThreads) \in Nat /\ Len(workThreads') \in Nat
      /\ workThreads \in Seq(Worker)
  BY DEF Starting, IInv, TypeOK, PoolType
<1>2. {"post"} \subseteq AskPc /\ AskPc \cap (DestroyPc \cup {"quit", "start", "flush"}) = {}
      /\ {"get", "start", "post", "quit", "flush"} \cup DestroyPc \cup AskPc \subseteq OpPc
  BY DEF AskPc, DestroyPc, OpPc
<1>3. DeletesKept /\ NoNewDeletes /\ QuitInv'
  BY QueuesSame, NothingClaimed, QuitInvKept DEF Starting, StacksKept
<1>4. CarriedOnce(Deletes, Destroys)' /\ Claimed' = Claimed
  BY <1>3, ClaimsSame, NothingClaimed DEF SameClaims
<1>5. OwedLess
  BY NotOwed DEF Starting, jobVars
<1>6. AloneInv'
  BY <1>1, <1>5, AloneKept DEF CoordInv, SharedInv
<1>7. ApartInv'
  <2>1. \A x \in N : ApartFine(x)
    BY <1>2 DEF ApartFine
  <2> QED BY <1>5, <2>1, ApartKept DEF CoordInv, SharedInv
<1>8. TeardownInv'
  BY <1>0, <1>1, TeardownKept, MainBegun DEF CoordInv, SharedInv
<1>9. RunInv'
  BY <1>0, <1>1 DEF RunInv, CoordInv, SharedInv
<1>10. ClaimInv'
  <2>1. StayOff /\ DeletesFine
    BY <1>0, <1>1, <1>3 DEF StayOff, ToldOff, Thread, DeletesFine, NoNewDeletes
  <2>2. \A u \in Worker : Lives(u)' <=> Lives(u)
    BY <1>0, <1>1 DEF Lives, Thread
  <2>3. \A x \in N : ClaimFine(x)
    BY <1>2 DEF ClaimFine, DestroyPc
  <2> QED BY <1>1, <1>4, <2>1, <2>2, <2>3, ClaimKept DEF CoordInv, WorkerInv
<1>11. UseInv'
  <2>1. \A x \in N : UseFine(x)
    BY <1>0, <1>1, <1>2 DEF UseFine, DestroyPc
  <2> QED BY <1>1, <2>1, UseKept DEF CoordInv, WorkerInv
<1>12. StartInv'
  <2>1. \A x \in N : StartFine(x)
    BY <1>2 DEF StartFine
  <2>2. ASSUME NEW x \in In({"start"})'
        PROVE  /\ phase[x[2].thread] = "made" => phase'[x[2].thread] = "made"
               /\ x[2].for # None => Len(workThreads') <= Len(workThreads)
    <3>1. x \in In({"start"})
      <4>1. {"start"} \subseteq OpPc
        BY DEF OpPc
      <4> QED BY <1>2, <4>1, AddsIn
    <3>2. x[2].thread \in Thread
      <4>1. x[2].pc \in {"start"} /\ x[2] \in FrameSet
        BY <3>1, InFrame
      <4> QED BY <4>1 DEF FrameSet, Thread
    <3>3. x[2].thread # w /\ (x[2].for # None => workThreads' = workThreads)
      BY DEF Starting
    <3> QED BY <1>1, <3>2, <3>3
  <2> QED BY <1>1, <2>1, <2>2, StartsFine DEF CoordInv, WorkerInv
<1>13. WorkInv'
  <2>1. CASE workThreads' = workThreads
    <3>1. ToSet(workThreads) \subseteq threads'
      BY <1>1 DEF CoordInv, WorkerInv, WorkInv
    <3> QED BY <1>2, <2>1, <3>1, WorkKept DEF CoordInv, WorkerInv, DestroyPc
  <2>2. CASE workThreads' = Append(workThreads, w) /\ Top(p).for # None
    <3>1. Len(workThreads') = Len(workThreads) + 1 /\ Len(workThreads) < WorkThreads /\ WorkThreads \in Nat
      BY <1>0, <1>1, <2>2
    <3>2. /\ DOMAIN workThreads' = 1..(Len(workThreads) + 1) /\ DOMAIN workThreads = 1..Len(workThreads)
          /\ \A i \in 1..Len(workThreads) : workThreads'[i] = workThreads[i]
          /\ workThreads'[Len(workThreads) + 1] = w
      BY <1>0, <1>1, <2>2
    <3>3. \A i \in 1..Len(workThreads) : workThreads[i] # w
      BY <1>0, <3>2 DEF ToSet
    <3>4. \A i, k \in DOMAIN workThreads' : workThreads'[i] = workThreads'[k] => i = k
      <4> SUFFICES ASSUME NEW i \in 1..(Len(workThreads) + 1), NEW k \in 1..(Len(workThreads) + 1),
                          workThreads'[i] = workThreads'[k]
                   PROVE  i = k
        BY <3>2
      <4>1. (i \in 1..Len(workThreads) \/ i = Len(workThreads) + 1)
            /\ (k \in 1..Len(workThreads) \/ k = Len(workThreads) + 1)
        BY <1>1
      <4>2. \A a, b \in DOMAIN workThreads : workThreads[a] = workThreads[b] => a = b
        BY DEF CoordInv, WorkerInv, WorkInv
      <4> QED BY <3>2, <3>3, <4>1, <4>2
    <3>5. ToSet(workThreads') = ToSet(workThreads) \cup {w}
      BY <1>0, <1>1, <2>2, AppendedSet
    <3>6. \A x \in In({"unlist"})' : x \in In({"unlist"})
      <4>1. {"unlist"} \subseteq OpPc
        BY DEF OpPc, DestroyPc
      <4> QED BY <1>2, <4>1, AddsIn
    <3>7. \A x \in In({"unlist"})' : x[2].thread \notin ToSet(workThreads')
      BY <1>0, <3>5, <3>6 DEF CoordInv, WorkerInv, WorkInv
    <3>8. ToSet(workThreads') \subseteq threads'
      BY <1>0, <1>1, <3>5 DEF CoordInv, WorkerInv, WorkInv
    <3>9. Len(workThreads') <= WorkThreads
      BY <1>1, <3>1
    <3> QED BY <3>4, <3>7, <3>8, <3>9 DEF WorkInv
  <2> QED BY <2>1, <2>2 DEF Starting
<1>14. OwedInv'
  BY <1>1, <1>2, <1>5, OwedKept DEF CoordInv, WorkerInv, OwedLess
<1> QED BY <1>3, <1>6, <1>7, <1>8, <1>9, <1>10, <1>11, <1>12, <1>13, <1>14 DEF CoordInv, SharedInv, WorkerInv

\* The frame that starts the thread is the only one of that kind on its stack.
LEMMA NoStartLeft ==
  ASSUME IInv, CoordInv, NEW p \in Thread, At(p, "start"), NEW N, Adds(N), \A x \in N : x[2].pc # "start",
         \A i \in 1..Len(stack'[p]) : stack'[p][i].pc # "start"
  PROVE  /\ \A x \in In({"start"})' : x[2].thread # Top(p).thread
         /\ p = Main => \A x \in In({"start"})' : x[2].for = None
<1>1. ASSUME NEW x \in In({"start"})' PROVE x \in In({"start"}) /\ x[1] # p
  <2>1. {"start"} \subseteq OpPc
    BY DEF OpPc
  <2>2. x \in In({"start"})
    BY <2>1, AddsIn
  <2>3. PICK t \in Thread : \E i \in 1..Len(stack'[t]) : x = <<t, stack'[t][i]>> /\ stack'[t][i].pc \in {"start"}
    BY DEF In, Frames
  <2> QED BY <2>2, <2>3
<1>2. \A x \in In({"start"})' : x[2].thread # Top(p).thread
  BY <1>1, StartingFacts
<1>3. ASSUME NEW x \in In({"start"})', p = Main PROVE x[2].for = None
  <2>1. x \in In({"start"}) /\ x[1] # Main
    BY <1>1, <1>3
  <2>2. x[1] \in Thread /\ x[2] \in FrameSet /\ x[2].pc \in {"start"}
    BY <2>1, InFrame
  <2>3. stack[x[1]] # <<>> /\ x[2] = Top(x[1])
    <3>1. x[2].pc \notin Below(x[1])
      BY <2>2 DEF Below
    <3> QED BY <2>1, <3>1, OnlyTop
  <2>4. At(x[1], "start") /\ Top(x[1]).for = x[2].for
    BY <2>2, <2>3 DEF At
  <2>5. x[2].for \in Thread => StartFor(x[1], x[2].for)
    BY <2>2, <2>4 DEF IInv, AskInv
  <2> QED BY <2>1, <2>2, <2>5 DEF FrameSet, StartFor
<1> QED BY <1>2, <1>3

LEMMA FrontPlain ==
  ASSUME IInv, NEW p \in Thread, stack[p] # <<>>
  PROVE  /\ Front(stack[p]) \in Seq(FrameSet) /\ Len(Front(stack[p])) = Len(stack[p]) - 1
         /\ \A i \in 1..Len(Front(stack[p])) :
              Front(stack[p])[i] = stack[p][i] /\ stack[p][i].pc \in Below(p) /\ stack[p][i].pc # "start"
<1>1. stack[p] \in Seq(FrameSet) /\ Len(stack[p]) \in Nat /\ StackOK(p, stack[p])
  BY StackIs
<1>2. Front(stack[p]) \in Seq(FrameSet) /\ Len(Front(stack[p])) = Len(stack[p]) - 1
      /\ \A i \in 1..Len(Front(stack[p])) : Front(stack[p])[i] = stack[p][i]
  BY <1>1, Popping
<1>3. \A i \in 1..(Len(stack[p]) - 1) : stack[p][i].pc \in Below(p)
  BY <1>1 DEF StackOK
<1> QED BY <1>2, <1>3 DEF Below

\* getThread() of q goes on with the thread.
LEMMA Resume ==
  ASSUME IInv, CoordInv, NEW q \in Thread, NEW s \in Seq(FrameSet), s # <<>>, Last(s).pc = "get",
         Once(s, Destroys), NEW w \in Worker
  PROVE  LET f == [Last(s) EXCEPT !.pc = "post", !.thread = w]
         IN /\ f \in FrameSet /\ f.pc = "post" /\ f.thread = w
            /\ Gains(s, OnTop(s, f), f) /\ QuitKept(s, OnTop(s, f)) /\ ClaimsKept(s, OnTop(s, f))
            /\ Len(OnTop(s, f)) = Len(s) /\ \A i \in 1..Len(s) : OnTop(s, f)[i] = f \/ OnTop(s, f)[i] = s[i]
<1> DEFINE f == [Last(s) EXCEPT !.pc = "post", !.thread = w]
<1>1. Last(s) \in FrameSet
  BY DEF Last
<1>2. f \in FrameSet /\ f.pc = "post" /\ f.thread = w
  BY <1>1 DEF FrameSet, Pcs, OpPc, AskPc, DestroyPc, Thread
<1> HIDE DEF f
<1>3. {"get", "post"} \cap (Claims \cup DestroyPc \cup {"quit"}) = {}
  BY DEF Claims, DestroyPc
<1>4. Destroys[f] = None /\ Destroys[Last(s)] = None
  BY <1>1, <1>2, <1>3, ClaimOf
<1>5. Gains(s, OnTop(s, f), f) /\ QuitKept(s, OnTop(s, f)) /\ ClaimsKept(s, OnTop(s, f))
  BY <1>2, <1>3, <1>4, GainTop
<1>6. Len(OnTop(s, f)) = Len(s) /\ \A i \in 1..Len(s) : OnTop(s, f)[i] = f \/ OnTop(s, f)[i] = s[i]
  BY DEF OnTop
<1> QED BY <1>2, <1>5, <1>6 DEF f

LEMMA StartThreadCoord ==
  ASSUME IInv, IInv', CoordInv, NEW p \in Thread, StartThread(p)
  PROVE  CoordInv'
<1> DEFINE w == Top(p).thread
           q == Top(p).for
           s == stack[p]
<1>1. /\ At(p, "start") /\ phase' = [phase EXCEPT ![w] = "open"]
      /\ \/ q = None /\ stack' = Pop(p) /\ UNCHANGED workThreads
         \/ q # None /\ workThreads' = Append(workThreads, w) /\ stack' = Answered(Pop(p), q, w)
      /\ UNCHANGED <<told, tasks, batch, threads, gone, jobVars, bounds>>
  BY DEF StartThread
<1>2. s # <<>> /\ Top(p).pc = "start" /\ Top(p) \in FrameSet /\ Top(p) = Last(s)
  BY <1>1, AtTop DEF At
<1>3. w \in Worker /\ q \in Thread \cup {None}
  BY <1>2 DEF FrameSet
<1>4. "start" \notin Claims /\ Once(s, Destroys) /\ s \in Seq(FrameSet)
  BY StackIs, NothingClaimed DEF Claims, DestroyPc
<1>5. /\ \A f : Gains(s, Front(s), f)
      /\ QuitKept(s, Front(s)) /\ ClaimsKept(s, Front(s))
  BY <1>2, <1>4, GainPop
<1>6. CASE q = None /\ stack' = Pop(p) /\ UNCHANGED workThreads
  <2>1. Adds({}) /\ StacksKept /\ QuitInv'
    BY <1>2, <1>4, <1>6, PlainPopped
  <2>2. stack'[p] = Front(s) /\ \A t \in Thread : t # p => stack'[t] = stack[t]
    BY <1>6, StackIs DEF Pop
  <2>3. \A i \in 1..Len(stack'[p]) : stack'[p][i].pc # "start"
    BY <1>2, <2>2, FrontPlain
  <2>4. Starting(p, w)
    BY <1>1, <1>6, <2>1, <2>3, NoStartLeft DEF Starting
  <2>5. \A t \in Thread : stack'[t] # <<>> => stack[t] # <<>>
    BY <1>2, <2>2
  <2>6. Single({})
    BY DEF Single
  <2> QED BY <2>1, <2>4, <2>5, <2>6, StartedCoord
<1>7. CASE q # None /\ workThreads' = Append(workThreads, w) /\ stack' = Answered(Pop(p), q, w)
  <2>1. p = Main /\ q \in Thread /\ StartFor(p, q)
    BY <1>1, <1>3, <1>7 DEF IInv, AskInv, StartFor
  <2> DEFINE u == Pop(p)[q]
             f == [Last(u) EXCEPT !.pc = "post", !.thread = w]
  <2>2. Pop(p) \in [Thread -> Seq(FrameSet)] /\ Pop(p)[p] = Front(s) /\ \A t \in Thread : t # p => Pop(p)[t] = stack[t]
    <3>1. Front(s) \in Seq(FrameSet)
      BY <1>2, FrontPlain
    <3> QED BY <3>1, StackIs DEF Pop
  <2>3. u \in Seq(FrameSet) /\ u # <<>> /\ Last(u).pc = "get" /\ Once(u, Destroys)
    <3>1. CASE q = Main
      <4>1. Len(s) >= 2 /\ s[Len(s) - 1].pc = "get" /\ Len(s) \in Nat
        BY <2>1, <3>1, StackIs DEF StartFor
      <4>2. u = Front(s) /\ Len(u) = Len(s) - 1 /\ Len(u) \in 1..Len(u) /\ u[Len(u)] = s[Len(u)] /\ u \in Seq(FrameSet)
        BY <1>2, <2>1, <2>2, <3>1, <4>1, FrontPlain
      <4>3. u # <<>> /\ Last(u).pc = "get"
        BY <4>1, <4>2 DEF Last
      <4> QED BY <1>5, <4>2, <4>3 DEF ClaimsKept
    <3>2. CASE q # Main
      <4>1. u = stack[q] /\ At(q, "get")
        BY <2>1, <2>2, <3>2 DEF StartFor
      <4> QED BY <2>1, <4>1, StackIs, NothingClaimed DEF At, Top
    <3> QED BY <3>1, <3>2
  <2>4. /\ f \in FrameSet /\ f.pc = "post" /\ f.thread = w
        /\ Gains(u, OnTop(u, f), f) /\ QuitKept(u, OnTop(u, f)) /\ ClaimsKept(u, OnTop(u, f))
        /\ Len(OnTop(u, f)) = Len(u) /\ \A i \in 1..Len(u) : OnTop(u, f)[i] = f \/ OnTop(u, f)[i] = u[i]
    <3>1. PICK v \in Seq(FrameSet) : v = u
      BY <2>3
    <3>2. v # <<>> /\ Last(v).pc = "get" /\ Once(v, Destroys)
      BY <2>3, <3>1
    <3> DEFINE g == [Last(v) EXCEPT !.pc = "post", !.thread = w]
    <3> HIDE DEF u, w
    <3>3. /\ g \in FrameSet /\ g.pc = "post" /\ g.thread = w
          /\ Gains(v, OnTop(v, g), g) /\ QuitKept(v, OnTop(v, g)) /\ ClaimsKept(v, OnTop(v, g))
          /\ Len(OnTop(v, g)) = Len(v) /\ \A i \in 1..Len(v) : OnTop(v, g)[i] = g \/ OnTop(v, g)[i] = v[i]
      BY <1>3, <2>1, <3>2, Resume, Zenon
    <3> QED BY <3>1, <3>3
  <2>5. stack' = [Pop(p) EXCEPT ![q] = OnTop(u, f)]
    BY <1>7, Answering
  <2> HIDE DEF f, u
  <2>6. stack'[q] = OnTop(u, f) /\ \A t \in Thread : t # q => stack'[t] = Pop(p)[t]
    BY <2>1, <2>2, <2>5
  <2>7. ASSUME NEW t \in Thread
        PROVE  /\ \E g : Gains(stack[t], stack'[t], g) /\ (g.pc \in OpPc => t = q /\ g = f)
               /\ QuitKept(stack[t], stack'[t]) /\ ClaimsKept(stack[t], stack'[t])
    <3> DEFINE h == [pc |-> "body"]
    <3>0. h.pc \notin OpPc
      BY DEF OpPc, AskPc, DestroyPc
    <3>1. QuitKept(stack[t], Pop(p)[t]) /\ ClaimsKept(stack[t], Pop(p)[t]) /\ Gains(stack[t], Pop(p)[t], h)
      <4>1. CASE t = p
        BY <1>5, <2>2, <4>1
      <4>2. CASE t # p
        <5>1. Pop(p)[t] = stack[t]
          BY <2>2, <4>2
        <5> QED BY <5>1, NothingClaimed DEF QuitKept, ClaimsKept, Gains
      <4> QED BY <4>1, <4>2
    <3> HIDE DEF h
    <3>2. CASE t = q
      <4>1. stack'[t] = OnTop(u, f) /\ u = Pop(p)[t]
        BY <2>6, <3>2 DEF u
      <4>2. QuitKept(stack[t], stack'[t]) /\ ClaimsKept(stack[t], stack'[t]) /\ Gains(stack[t], stack'[t], f)
        BY <2>4, <3>0, <3>1, <4>1, GainTwice
      <4> QED BY <3>2, <4>2
    <3>3. CASE t # q
      BY <2>6, <3>0, <3>1, <3>3
    <3> QED BY <3>2, <3>3
  <2>8. Adds({<<q, f>>}) /\ StacksKept
    BY <2>7, GainsAll DEF StacksKept
  <2>9. \A i \in 1..Len(stack'[p]) : stack'[p][i].pc # "start"
    <3>1. \A i \in 1..Len(Front(s)) : Front(s)[i].pc # "start"
      BY <1>2, FrontPlain
    <3>2. CASE q = p
      BY <2>2, <2>4, <2>6, <3>1, <3>2 DEF u
    <3>3. CASE q # p
      BY <2>2, <2>6, <3>1, <3>3
    <3> QED BY <3>2, <3>3
  <2>10. Starting(p, w)
    <3>1. \A x \in {<<q, f>>} : x[2].pc # "start"
      BY <2>4
    <3> QED BY <1>1, <1>7, <2>1, <2>8, <2>9, <3>1, NoStartLeft DEF Starting
  <2>11. q # Main => ~told[Main] /\ ~Quitting /\ Leaving = {}
    <3> SUFFICES ASSUME q # Main PROVE ~told[Main] /\ ~Quitting /\ Leaving = {}
      OBVIOUS
    <3>1. At(q, "get")
      BY <2>1 DEF StartFor
    <3>2. "get" \in AskPc /\ AskPc \subseteq OpPc
      BY DEF AskPc, OpPc
    <3>3. <<q, Top(q)>> \in In(AskPc) /\ <<q, Top(q)>> \in In(OpPc) /\ <<q, Top(q)>> \in In(AskPc \cup {"start"})
      BY <2>1, <3>1, <3>2, TopIn DEF At
    <3>4. Foreign(AskPc) /\ Foreign(OpPc) /\ Foreign(AskPc \cup {"start"})
      BY <3>3 DEF Foreign
    <3> QED BY <3>4 DEF CoordInv, SharedInv, AloneInv, ApartInv
  <2>12. \A t \in Thread : stack'[t] # <<>> => stack[t] # <<>>
    <3>1. \A t \in Thread : Pop(p)[t] # <<>> => stack[t] # <<>>
      BY <1>2, <2>2
    <3>2. stack[q] # <<>>
      BY <2>3, <3>1, <2>1 DEF u
    <3> QED BY <2>6, <3>1, <3>2
  <2>13. Single({<<q, f>>})
    BY DEF Single
  <2> QED BY <2>4, <2>8, <2>10, <2>11, <2>12, <2>13, StartedCoord
<1> QED BY <1>1, <1>6, <1>7

(***************************************************************************)
(* A worker begins to be destroyed.                                         *)
(***************************************************************************)
LEMMA LeavingIs ==
  ASSUME IInv, NEW p \in Thread, stack[p] # <<>>, Top(p).pc \in DestroyPc
  PROVE  /\ Top(p).thread \in Worker /\ Top(p).thread \in Leaving /\ Top(p).thread # None
         /\ <<p, Top(p)>> \in In(DestroyPc) /\ <<p, Top(p)>> \in In({Top(p).pc})
<1>1. <<p, Top(p)>> \in In(DestroyPc) /\ <<p, Top(p)>> \in In({Top(p).pc})
  BY TopIn
<1>2. Top(p) \in FrameSet
  BY AtTop
<1> QED BY <1>1, <1>2 DEF Leaving, FrameSet, Thread

\* What is true of everybody while a worker is being destroyed.
LEMMA WhileLeaving ==
  ASSUME IInv, CoordInv, NEW p \in Thread, stack[p] # <<>>, Top(p).pc \in OpPc
  PROVE  /\ p # Main => ~told[Main]
         /\ Top(p).pc \in DestroyPc => ~Foreign(AskPc) /\ ~Owed(Top(p).thread)
<1>1. p # Main => ~told[Main]
  <2>1. <<p, Top(p)>> \in In(OpPc)
    BY TopIn
  <2> QED BY <2>1 DEF Foreign, CoordInv, SharedInv, AloneInv
<1>2. ASSUME Top(p).pc \in DestroyPc PROVE ~Foreign(AskPc) /\ ~Owed(Top(p).thread)
  BY <1>2, LeavingIs DEF CoordInv, SharedInv, WorkerInv, ApartInv, OwedInv
<1> QED BY <1>1, <1>2

LEMMA NotClaimedYet ==
  ASSUME IInv, CoordInv, NEW w \in threads, w \notin Leaving
  PROVE  w \notin Claimed /\ w \in Worker /\ w # None
<1>1. w \in Worker /\ w # None
  BY DEF IInv, TypeOK, PoolType, Thread
<1>2. ASSUME NEW x \in In(Claims), x[2].thread = w PROVE FALSE
  <2>1. x \in In(DestroyPc) \/ x \in In({"tell", "hand", "flush"})
    BY DEF In, Claims
  <2> QED BY <1>2, <2>1 DEF Leaving, CoordInv, WorkerInv, ClaimInv
<1>3. ASSUME NEW m \in Queued, m.kind = "delete", m.thread = w PROVE FALSE
  BY <1>3 DEF CoordInv, WorkerInv, ClaimInv
<1> QED BY <1>1, <1>2, <1>3, ClaimedIs

\* The call of p claims w.
LEMMA Claiming ==
  ASSUME IInv, CoordInv, NEW p \in Thread, NEW f \in FrameSet, NEW r, Begins(stack[p], r, f),
         stack' = [stack EXCEPT ![p] = r], QuietPost, batch' = batch, f.pc \in Claims, f.thread \notin Claimed
  PROVE  CarriedOnce(Deletes, Destroys)' /\ Claimed' = Claimed \cup {f.thread}
<1> DEFINE w == f.thread
<1>1. Destroys[f] = w /\ w # None
  BY ClaimOf
<1>2. Values(stack[p], Destroys) \subseteq Claimed
  <2>1. <<"stack", p>> \in Carriers /\ Content(Deletes, Destroys, <<"stack", p>>) = Values(stack[p], Destroys)
    BY Contents DEF Content
  <2> QED BY <2>1 DEF Claimed, Carried
<1>3. Once(r, Destroys) /\ Values(r, Destroys) = Swapped(Values(stack[p], Destroys), None, w)
  BY <1>1, <1>2 DEF Begins
<1>4. TypeOK /\ CarriedOnce(Deletes, Destroys) /\ w \notin Carried(Deletes, Destroys)
  BY NothingClaimed DEF IInv, Claimed
<1> HIDE DEF w
<1>5. CarriedOnce(Deletes, Destroys)' /\ Carried(Deletes, Destroys)' = Swapped(Carried(Deletes, Destroys), None, w)
  <2>1. CASE tasks' = tasks
    <3>1. StackMoves(Deletes, Destroys, p, r, None, w)
      BY <1>3, <1>4, <2>1 DEF StackMoves
    <3> QED BY <1>4, <3>1, StackCarries
  <2>2. ASSUME NEW m \in MessageSet, m.kind # "delete", Post(Main, m)
        PROVE  CarriedOnce(Deletes, Destroys)'
               /\ Carried(Deletes, Destroys)' = Swapped(Carried(Deletes, Destroys), None, w)
    <3>1. Deletes[m] = None
      BY <2>2, DeleteOf
    <3>2. PostMoves(Deletes, Destroys, p, r, None, w, Main, m)
      BY <1>3, <1>4, <2>2, <3>1 DEF PostMoves
    <3> QED BY <1>4, <3>2, PostCarries, MainBegun
  <2> QED BY <2>1, <2>2 DEF QuietPost
<1>6. None \notin Carried(Deletes, Destroys)
  BY NoneCarried
<1> QED BY <1>1, <1>5, <1>6 DEF Claimed, Swapped, w

LEMMA DestroyCoord ==
  ASSUME IInv, IInv', CoordInv, NEW p \in Thread, stack[p] # <<>>, NEW f \in FrameSet, NEW r,
         Begins(stack[p], r, f), stack' = [stack EXCEPT ![p] = r], QuietPost,
         UNCHANGED <<lifeVars, batch, poolVars, jobVars>>,
         f.pc \in {"erase", "unlist"}, f.thread \in threads, f.thread \notin Leaving, ~Owed(f.thread),
         ~Foreign(AskPc), ~Quitting \/ At(p, "quit"), p # Main => ~told[Main],
         f.pc = "erase" => \A y \in In({"start"}) : y[1] # Main => y[2].thread # f.thread,
         f.pc = "unlist" => /\ \A y \in In({"start", "post"}) : y[2].thread # f.thread
                            /\ f.thread \notin ToSet(workThreads)
  PROVE  CoordInv'
<1> DEFINE N == {<<p, f>>}
<1>0. f.pc \in Claims /\ f.pc \in DestroyPc /\ f.pc # "quit" /\ f.pc \notin AskPc
  BY DEF Claims, DestroyPc, AskPc
<1>1. Adds(N) /\ NoNewDeletes /\ Calm /\ RunInv' /\ QuitInv'
  BY <1>0, BeginsStep, BeginsQuit
<1>2. f.thread \notin Claimed
  BY NotClaimedYet
<1>3. CarriedOnce(Deletes, Destroys)' /\ Claimed' = Claimed \cup {f.thread}
  BY <1>0, <1>2, Claiming
<1>4. OwedLess
  BY NotOwed DEF jobVars
<1>5. AloneInv'
  BY <1>1, <1>4, AloneKept DEF CoordInv, SharedInv, lifeVars
<1>6. NewFine(<<p, f>>)
  <2>1. ApartFine(<<p, f>>)
    BY <1>0 DEF ApartFine
  <2>2. ClaimFine(<<p, f>>) /\ StartFine(<<p, f>>)
    BY DEF ClaimFine, StartFine
  <2>3. UseFine(<<p, f>>)
    BY DEF UseFine
  <2>4. ~Owed(f.thread)'
    BY <1>2, <1>4, NotClaimedYet DEF OwedLess
  <2> QED BY <1>0, <2>1, <2>2, <2>3, <2>4 DEF NewFine
<1>7. OwedFine(N) /\ Single(N) /\ DeletesFine
  BY <1>1, <1>4 DEF OwedFine, OwedLess, Single, DeletesFine, NoNewDeletes
<1>8. threads \cup Claimed' = threads \cup Claimed
  BY <1>3
<1> QED BY <1>1, <1>3, <1>5, <1>6, <1>7, <1>8, CalmKept

LEMMA DestroyFrame ==
  ASSUME NEW pc \in {"erase", "unlist"}, NEW w \in Worker
  PROVE  Frame(pc, w, None) \in FrameSet /\ Frame(pc, w, None).pc = pc /\ Frame(pc, w, None).thread = w
<1>1. pc \in Pcs /\ pc \notin {"get", "post", "job"} /\ w \in Thread \cup {None} /\ None \in Job \cup {None}
  BY DEF Pcs, OpPc, DestroyPc, Thread
<1> QED BY <1>1, FrameIn

LEMMA DestroyCallCoord ==
  ASSUME Coordinated, IInv, IInv', CoordInv, NEW p \in Thread, NEW w \in Worker, Destroy(p, w)
  PROVE  CoordInv'
<1> DEFINE f == Frame("erase", w, None)
<1>1. /\ stack[p] # <<>> /\ w \in threads /\ phase[w] # "made" /\ MayDestroy(p, w)
      /\ Invoke(p, stack, f, "unlist")
      /\ UNCHANGED <<lifeVars, batch, poolVars, jobVars, callbacks>>
  BY DEF Destroy, Call, Known
<1>2. f \in FrameSet /\ f.pc = "erase" /\ f.thread = w /\ f.pc \in Asked
  BY DestroyFrame DEF Asked
<1> HIDE DEF f
<1>3. /\ w \notin Leaving /\ ~Owed(w) /\ ~Quitting /\ ~Foreign(AskPc)
      /\ p # Main => ~told[Main]
  BY <1>1 DEF MayDestroy, Coordinated
<1>4. PICK r : Begins(stack[p], r, f) /\ stack' = [stack EXCEPT ![p] = r] /\ QuietPost
  BY <1>1, <1>2, <1>3, MainAccepts, InvokeBegins
<1>5. \A y \in In({"start"}) : y[2].thread # w
  BY <1>1 DEF CoordInv, WorkerInv, StartInv
<1> QED BY <1>1, <1>2, <1>3, <1>4, <1>5, DestroyCoord

\* While quit() chooses the next thread, none is being destroyed.
LEMMA QuitAlone ==
  ASSUME IInv, CoordInv, NEW p \in Thread, At(p, "quit")
  PROVE  Leaving = {} /\ ~OwedToWorkers /\ ~Foreign(AskPc \cup {"start"}) /\ (p # Main => ~told[Main])
<1>1. stack[p] # <<>> /\ Top(p).pc = "quit" /\ "quit" \in OpPc
  BY DEF At, OpPc
<1>2. <<p, Top(p)>> \in In({"quit"})
  BY <1>1, TopIn
<1>3. ~OwedToWorkers /\ ~Foreign(AskPc \cup {"start"})
  BY <1>2 DEF Quitting, CoordInv, SharedInv, ApartInv
<1>4. Len(stack[p]) \in 1..Len(stack[p]) /\ stack[p][Len(stack[p])].pc = "quit" /\ Len(stack[p]) \in Nat
  BY <1>1, StackIs DEF Top, Last
<1>5. ASSUME NEW w \in Leaving PROVE FALSE
  <2>1. PICK x \in In(DestroyPc) : x[2].thread = w
    BY DEF Leaving
  <2>2. PICK q \in Thread : \E k \in 1..Len(stack[q]) : x = <<q, stack[q][k]>> /\ stack[q][k].pc \in DestroyPc
    BY <2>1, InIs
  <2>3. PICK k \in 1..Len(stack[q]) : stack[q][k].pc \in DestroyPc
    BY <2>2
  <2>4. p = q /\ Len(stack[p]) <= k
    BY <1>4, <2>3 DEF CoordInv, SharedInv, QuitInv, QuitsFirst
  <2>5. k = Len(stack[p])
    BY <1>4, <2>4
  <2> QED BY <1>4, <2>3, <2>4, <2>5 DEF DestroyPc
<1> QED BY <1>1, <1>3, <1>5, WhileLeaving

LEMMA QuitNextCoord ==
  ASSUME IInv, IInv', CoordInv, NEW p \in Thread, QuitNext(p)
  PROVE  CoordInv'
<1>1. /\ At(p, "quit") /\ stack[p] # <<>> /\ Top(p).pc = "quit"
      /\ UNCHANGED <<lifeVars, batch, poolVars, jobVars, bounds>>
  BY DEF QuitNext, At
<1>2. Leaving = {} /\ ~OwedToWorkers /\ ~Foreign(AskPc \cup {"start"}) /\ (p # Main => ~told[Main])
  BY <1>1, QuitAlone
<1>3. ~Foreign(AskPc) /\ \A y \in In({"start"}) : y[1] = Main
  BY <1>2 DEF Foreign, In
<1>4. PICK w \in threads : \/ gone /\ stack' = Push(p, Frame("unlist", w, None)) /\ UNCHANGED tasks
                           \/ ~gone /\ Invoke(p, stack, Frame("erase", w, None), "unlist")
  BY DEF QuitNext
<1>5. w \in Worker /\ ~Owed(w)
  BY <1>2 DEF IInv, TypeOK, PoolType, OwedToWorkers
<1>6. CASE gone /\ stack' = Push(p, Frame("unlist", w, None)) /\ UNCHANGED tasks
  <2> DEFINE f == Frame("unlist", w, None)
  <2>1. f \in FrameSet /\ f.pc = "unlist" /\ f.thread = w
    BY <1>5, DestroyFrame
  <2> HIDE DEF f
  <2>2. Begins(stack[p], Append(stack[p], f), f) /\ stack' = [stack EXCEPT ![p] = Append(stack[p], f)] /\ QuietPost
    BY <1>6, <2>1, BeginsOne, StackIs, NothingClaimed DEF Push, QuietPost, f
  <2>3. phase[Main] = "finished" /\ workThreads = <<>> /\ In({"get", "start"}) = {}
    BY <1>6 DEF CoordInv, SharedInv, TeardownInv
  <2>4. p = Main
    BY <1>2, <2>3, MainBegun DEF CoordInv, SharedInv, RunInv
  <2>5. ASSUME NEW y \in In({"start", "post"}) PROVE FALSE
    <3>1. y[1] \in Thread /\ y[2].pc \in {"start", "post"}
      BY InFrame
    <3>2. y \in In({"get", "start"}) \/ y \in In(AskPc)
      BY <3>1 DEF In, AskPc
    <3>3. y[1] = Main
      BY <1>3, <2>3, <3>2 DEF Foreign
    <3>4. y[2] = Top(Main)
      <4>1. y[2].pc \notin Below(y[1])
        BY <3>1 DEF Below
      <4> QED BY <3>3, <4>1, OnlyTop
    <3> QED BY <1>1, <2>4, <3>1, <3>4
  <2>6. w \notin ToSet(workThreads)
    BY <2>3, Nothing
  <2> QED BY <1>1, <1>2, <1>3, <1>5, <2>1, <2>2, <2>5, <2>6, DestroyCoord
<1>7. CASE ~gone /\ Invoke(p, stack, Frame("erase", w, None), "unlist")
  <2> DEFINE f == Frame("erase", w, None)
  <2>1. f \in FrameSet /\ f.pc = "erase" /\ f.thread = w /\ f.pc \in Asked
    BY <1>5, DestroyFrame DEF Asked
  <2>2. PICK r : Begins(stack[p], r, f) /\ stack' = [stack EXCEPT ![p] = r] /\ QuietPost
    BY <1>2, <1>7, <2>1, MainAccepts, InvokeBegins
  <2> HIDE DEF f
  <2> QED BY <1>1, <1>2, <1>3, <1>5, <2>1, <2>2, DestroyCoord
<1> QED BY <1>4, <1>6, <1>7

(***************************************************************************)
(* The destruction of a worker goes on.                                     *)
(***************************************************************************)
GoneTo(p, pc) == [Top(p) EXCEPT !.pc = pc]

LEMMA GoOn ==
  ASSUME IInv, CoordInv, NEW p \in Thread, stack[p] # <<>>, Top(p).pc \in DestroyPc,
         NEW pc \in DestroyPc \cup {"flush"}, stack' = Goto(p, pc)
  PROVE  /\ GoneTo(p, pc).pc = pc /\ GoneTo(p, pc).thread = Top(p).thread /\ Top(p).thread \in Worker
         /\ Adds({<<p, GoneTo(p, pc)>>}) /\ Single({<<p, GoneTo(p, pc)>>}) /\ StacksKept /\ QuitInv'
         /\ \A t \in Thread : stack'[t] # <<>> => stack[t] # <<>>
         /\ \A t \in Thread : t # p => stack'[t] = stack[t]
         /\ stack' = [stack EXCEPT ![p] = OnTop(stack[p], GoneTo(p, pc))]
<1> DEFINE f == GoneTo(p, pc)
<1>1. Top(p) \in FrameSet /\ Top(p) = Last(stack[p]) /\ stack[p] \in Seq(FrameSet) /\ Once(stack[p], Destroys)
  BY AtTop, StackIs, NothingClaimed
<1>2. Top(p).thread \in Worker /\ Top(p).job = None /\ Top(p).for = None
  BY <1>1 DEF FrameSet, DestroyPc
<1>3. f \in FrameSet /\ f.pc = pc /\ f.thread = Top(p).thread
  <2>1. pc \in Pcs /\ pc \notin {"get", "post", "job", "start"}
    BY DEF Pcs, OpPc, DestroyPc
  <2> QED BY <1>1, <1>2, <2>1 DEF FrameSet, GoneTo
<1>4. stack' = [stack EXCEPT ![p] = OnTop(stack[p], f)]
  BY <1>1, Gone DEF IInv, GoneTo
<1> HIDE DEF f
<1>5. pc \in Claims /\ Top(p).pc \in Claims /\ pc # "quit"
  BY DEF Claims, DestroyPc
<1>6. Destroys[f] = Destroys[Last(stack[p])]
  BY <1>1, <1>3, <1>5, ClaimOf
<1>7. Gains(stack[p], OnTop(stack[p], f), f) /\ QuitKept(stack[p], OnTop(stack[p], f))
      /\ ClaimsKept(stack[p], OnTop(stack[p], f))
  BY <1>1, <1>3, <1>5, <1>6, GainTop
<1>8. StacksKept /\ QuitInv' /\ Adds({<<p, f>>})
  BY <1>4, <1>7, OneStack, GainsAdds
<1>9. \A t \in Thread : t # p => stack'[t] = stack[t]
  BY <1>4, StackIs
<1> QED BY <1>2, <1>3, <1>4, <1>8, <1>9 DEF Single, f

LEMMA WithoutOnce ==
  ASSUME workThreads \in Seq(Worker), NEW w,
         \A i, k \in DOMAIN workThreads : workThreads[i] = workThreads[k] => i = k
  PROVE  /\ \A i, k \in DOMAIN Without(w) : Without(w)[i] = Without(w)[k] => i = k
         /\ w \notin ToSet(Without(w)) /\ Len(Without(w)) <= Len(workThreads)
         /\ workThreads = <<>> => Without(w) = <<>>
<1>1. CASE w \notin ToSet(workThreads)
  BY <1>1 DEF Without
<1>2. CASE w \in ToSet(workThreads)
  <2> DEFINE q == workThreads
             n == Len(q)
             k == CHOOSE i \in DOMAIN q : q[i] = w
             r == RemoveAt(q, k)
             a == SubSeq(q, 1, k - 1)
             b == SubSeq(q, k + 1, n)
  <2>1. k \in DOMAIN q /\ q[k] = w /\ DOMAIN q = 1..n /\ n \in Nat
    BY <1>2 DEF ToSet
  <2> HIDE DEF k
  <2>2. r = a \o b
    BY DEF RemoveAt
  <2>3. /\ a \in Seq(Worker) /\ Len(a) = k - 1 /\ \A i \in 1..(k - 1) : a[i] = q[i]
        /\ b \in Seq(Worker) /\ Len(b) = n - k /\ \A i \in 1..(n - k) : b[i] = q[k + i]
    <3>1. k \in 1..n /\ 1 \in Int /\ k - 1 \in Int /\ k + 1 \in Int /\ n \in Int
      BY <2>1
    <3>2. /\ a \in Seq(Worker) /\ Len(a) = (IF 1 <= k - 1 THEN (k - 1) - 1 + 1 ELSE 0)
          /\ \A i \in 1..((k - 1) - 1 + 1) : a[i] = q[1 + i - 1]
      BY <3>1, SubSeqProperties
    <3>3. /\ b \in Seq(Worker) /\ Len(b) = (IF k + 1 <= n THEN n - (k + 1) + 1 ELSE 0)
          /\ \A i \in 1..(n - (k + 1) + 1) : b[i] = q[(k + 1) + i - 1]
      BY <3>1, SubSeqProperties
    <3> HIDE DEF a, b, n
    <3>4. (k - 1) - 1 + 1 = k - 1 /\ n - (k + 1) + 1 = n - k
      BY <3>1
    <3>5. Len(a) = k - 1 /\ Len(b) = n - k
      BY <3>1, <3>2, <3>3
    <3>6. \A i \in 1..(k - 1) : a[i] = q[i]
      <4>1. \A i \in 1..(k - 1) : a[i] = q[1 + i - 1]
        BY <3>2, <3>4
      <4> HIDE DEF q
      <4>2. \A i \in 1..(k - 1) : 1 + i - 1 = i
        OBVIOUS
      <4> QED BY <4>1, <4>2
    <3>7. \A i \in 1..(n - k) : b[i] = q[k + i]
      <4>1. \A i \in 1..(n - k) : b[i] = q[(k + 1) + i - 1]
        BY <3>3, <3>4
      <4> HIDE DEF q
      <4>2. \A i \in 1..(n - k) : (k + 1) + i - 1 = k + i
        BY <3>1
      <4> QED BY <4>1, <4>2
    <3> QED BY <3>2, <3>3, <3>5, <3>6, <3>7
  <2> HIDE DEF a, b, n
  <2>4. /\ DOMAIN r = 1..(n - 1) /\ Len(r) = n - 1
        /\ \A i \in 1..(n - 1) : r[i] = IF i < k THEN q[i] ELSE q[i + 1]
    <3> HIDE DEF r, q
    <3>1. DOMAIN r = 1..(n - 1) /\ Len(r) = n - 1
      BY <2>1, <2>2, <2>3
    <3>2. \A i \in 1..(n - 1) : r[i] = IF i <= k - 1 THEN a[i] ELSE b[i - (k - 1)]
      BY <2>1, <2>2, <2>3
    <3>3. \A i \in 1..(n - 1) : IF i < k THEN i \in 1..(k - 1) /\ i <= k - 1
                                ELSE i - (k - 1) \in 1..(n - k) /\ k + (i - (k - 1)) = i + 1 /\ ~(i <= k - 1)
      BY <2>1
    <3>4. ASSUME NEW i \in 1..(n - 1) PROVE r[i] = IF i < k THEN q[i] ELSE q[i + 1]
      <4>1. CASE i < k
        BY <2>3, <3>2, <3>3, <4>1
      <4>2. CASE ~(i < k)
        <5>1. i - (k - 1) \in 1..(n - k) /\ k + (i - (k - 1)) = i + 1 /\ ~(i <= k - 1)
          BY <3>3, <4>2
        <5>2. b[i - (k - 1)] = q[k + (i - (k - 1))]
          BY <2>3, <5>1
        <5> QED BY <3>2, <4>2, <5>1, <5>2
      <4> QED BY <4>1, <4>2
    <3> QED BY <3>1, <3>4
  <2> DEFINE at(i) == IF i < k THEN i ELSE i + 1
  <2>5. \A i \in 1..(n - 1) : at(i) \in DOMAIN q /\ at(i) # k /\ r[i] = q[at(i)]
    BY <2>1, <2>4
  <2>6. \A i, j \in 1..(n - 1) : at(i) = at(j) => i = j
    BY <2>1
  <2> HIDE DEF at, r
  <2>7. \A i, j \in DOMAIN r : r[i] = r[j] => i = j
    BY <2>4, <2>5, <2>6
  <2>8. w \notin ToSet(r)
    BY <2>1, <2>4, <2>5 DEF ToSet
  <2>9. Len(r) <= n /\ workThreads # <<>>
    BY <2>1, <2>4
  <2> QED BY <1>2, <2>7, <2>8, <2>9 DEF Without, k, r, n
<1> QED BY <1>1, <1>2

\* removeThread() of q, run by Main.
LEMMA EraseCoord ==
  ASSUME IInv, IInv', CoordInv, NEW q \in Thread, At(q, "erase"), stack' = Goto(q, "unlist"),
         workThreads' = Without(Top(q).thread), UNCHANGED <<lifeVars, threads, gone, jobVars>>,
         DeletesKept, NoNewDeletes, \A x \in In({"start", "post"}) : x[1] # Main
  PROVE  CoordInv'
<1> DEFINE w == Top(q).thread
           f == GoneTo(q, "unlist")
           N == {<<q, f>>}
<1>0. stack[q] # <<>> /\ Top(q).pc = "erase" /\ Top(q).pc \in DestroyPc /\ Top(q).pc \in OpPc
      /\ "unlist" \in DestroyPc /\ "unlist" \in OpPc /\ "unlist" \notin AskPc
  BY DEF At, DestroyPc, OpPc, AskPc
<1>1. /\ f.pc = "unlist" /\ f.thread = w /\ w \in Worker
      /\ Adds(N) /\ Single(N) /\ StacksKept /\ QuitInv'
      /\ \A t \in Thread : stack'[t] # <<>> => stack[t] # <<>>
  BY <1>0, GoOn
<1>2. CarriedOnce(Deletes, Destroys)' /\ Claimed' = Claimed
  BY <1>1, ClaimsSame, NothingClaimed DEF SameClaims
<1>3. OwedLess
  BY NotOwed DEF jobVars
<1>4. (q # Main => ~told[Main]) /\ ~Foreign(AskPc) /\ ~Owed(w)
  BY <1>0, WhileLeaving
<1>5. <<q, Top(q)>> \in In({"erase"}) /\ <<q, Top(q)>> \in In({"erase", "unlist"}) /\ w \in Leaving
  BY <1>0, TopIn, LeavingIs
<1>6. w \in threads
  BY <1>5 DEF CoordInv, WorkerInv, ClaimInv
<1>7. workThreads \in Seq(Worker) /\ Len(workThreads) \in Nat /\ workThreads' \in Seq(Worker) /\ Len(workThreads') \in Nat
  BY DEF IInv, TypeOK, PoolType
<1>8. /\ \A i, k \in DOMAIN workThreads' : workThreads'[i] = workThreads'[k] => i = k
      /\ w \notin ToSet(workThreads') /\ Len(workThreads') <= Len(workThreads)
      /\ workThreads = <<>> => workThreads' = <<>>
      /\ ToSet(workThreads') \subseteq ToSet(workThreads)
  <2>1. \A i, k \in DOMAIN workThreads : workThreads[i] = workThreads[k] => i = k
    BY DEF CoordInv, WorkerInv, WorkInv
  <2> HIDE DEF w
  <2>2. ToSet(Without(w)) \subseteq ToSet(workThreads)
    BY <1>7, WithoutIn
  <2>3. workThreads' = Without(w)
    BY DEF w
  <2> QED BY <1>7, <2>1, <2>2, <2>3, WithoutOnce
<1> HIDE DEF f, w
<1>9. AloneInv'
  BY <1>1, <1>3, <1>4, AloneKept DEF CoordInv, SharedInv, lifeVars
<1>10. ApartInv'
  <2>1. ApartFine(<<q, f>>)
    BY <1>0, <1>1, <1>4 DEF ApartFine
  <2> QED BY <1>1, <1>3, <2>1, ApartKept DEF CoordInv, SharedInv
<1>11. TeardownInv'
  BY <1>1, <1>8, TeardownKept DEF CoordInv, SharedInv, lifeVars
<1>12. RunInv'
  BY <1>1 DEF RunInv, CoordInv, SharedInv, lifeVars
<1>13. ClaimInv'
  <2>1. StayOff /\ DeletesFine /\ \A u \in Worker : Lives(u)' <=> Lives(u)
    BY DEF StayOff, ToldOff, DeletesFine, NoNewDeletes, Lives, lifeVars
  <2>2. ClaimFine(<<q, f>>)
    BY <1>1, <1>6 DEF ClaimFine
  <2> QED BY <1>1, <1>2, <2>1, <2>2, ClaimKept DEF CoordInv, WorkerInv
<1>14. UseInv'
  <2>1. ASSUME NEW y \in In({"start", "post"}), y[2].thread = w PROVE FALSE
    <3>1. y[1] # Main /\ y[2].pc \in {"start", "post"}
      BY InFrame
    <3>2. y[2].pc # "post"
      <4>1. y[2].pc = "post" => y \in In(AskPc)
        BY DEF In, AskPc
      <4> QED BY <1>4, <3>1, <4>1 DEF Foreign
    <3>3. y \in In({"start"})
      BY <3>1, <3>2 DEF In
    <3>4. Top(q).thread # y[2].thread
      BY <1>5, <3>1, <3>3 DEF CoordInv, WorkerInv, UseInv
    <3> QED BY <2>1, <3>4 DEF w
  <2>2. UseFine(<<q, f>>)
    BY <1>1, <2>1 DEF UseFine
  <2> QED BY <1>1, <2>2, UseKept DEF CoordInv, WorkerInv
<1>15. StartInv'
  <2>1. StartFine(<<q, f>>)
    BY <1>1 DEF StartFine
  <2> QED BY <1>1, <1>7, <1>8, <2>1, StartsFine DEF CoordInv, WorkerInv, lifeVars
<1>16. WorkInv'
  <2>1. ASSUME NEW x \in In({"unlist"})' PROVE x[2].thread \notin ToSet(workThreads')
    <3>1. {"unlist"} \subseteq OpPc
      BY <1>0
    <3>2. x \in In({"unlist"}) \/ x = <<q, f>>
      BY <1>1, <3>1, AddsIn
    <3> QED BY <1>1, <1>8, <3>2 DEF CoordInv, WorkerInv, WorkInv
  <2>2. ToSet(workThreads') \subseteq threads'
    BY <1>8 DEF CoordInv, WorkerInv, WorkInv
  <2>3. Len(workThreads') <= WorkThreads
    <3>1. Len(workThreads) <= WorkThreads /\ WorkThreads \in Nat
      BY DEF CoordInv, WorkerInv, WorkInv
    <3> QED BY <1>7, <1>8, <3>1
  <2> QED BY <1>8, <2>1, <2>2, <2>3 DEF WorkInv
<1>17. OwedInv'
  BY <1>1, <1>3, <1>4, OwedKept DEF CoordInv, WorkerInv, OwedLess
<1> QED BY <1>1, <1>9, <1>10, <1>11, <1>12, <1>13, <1>14, <1>15, <1>16, <1>17 DEF CoordInv, SharedInv, WorkerInv

LEMMA EraseOwnCoord ==
  ASSUME IInv, IInv', CoordInv, EraseOwn
  PROVE  CoordInv'
<1>1. /\ At(Main, "erase") /\ workThreads' = Without(Top(Main).thread) /\ stack' = Goto(Main, "unlist")
      /\ UNCHANGED <<lifeVars, tasks, batch, threads, gone, jobVars, bounds>>
  BY DEF EraseOwn
<1>2. DeletesKept /\ NoNewDeletes
  BY <1>1, QueuesSame, NothingClaimed
<1>3. ASSUME NEW x \in In({"start", "post"}), x[1] = Main PROVE FALSE
  <2>1. x[2].pc \in {"start", "post"}
    BY InFrame
  <2>2. x[2] = Top(Main)
    <3>1. x[2].pc \notin Below(x[1])
      BY <2>1 DEF Below
    <3> QED BY <1>3, <3>1, OnlyTop
  <2> QED BY <1>1, <2>1, <2>2 DEF At
<1> QED BY <1>1, <1>2, <1>3, EraseCoord, MainBegun

LEMMA RunEraseCoord ==
  ASSUME IInv, IInv', CoordInv, RunErase
  PROVE  CoordInv'
<1> DEFINE q == Head(batch[Main]).thread
<1>1. /\ NextTask(Main, "erase") /\ stack' = Goto(q, "unlist") /\ workThreads' = Without(Top(q).thread)
      /\ UNCHANGED <<lifeVars, tasks, threads, gone, jobVars, bounds>> /\ Main \in Thread
  BY MainBegun DEF RunErase
<1>2. /\ batch[Main] # <<>> /\ batch' = [batch EXCEPT ![Main] = Tail(@)] /\ Idle(Main)
      /\ Head(batch[Main]) \in MessageSet /\ Head(batch[Main]).kind = "erase"
      /\ Head(batch[Main]) \in ToSet(batch[Main])
  BY <1>1, NextOne
<1>3. q \in Thread
  BY <1>2 DEF MessageSet, Asked
<1>4. At(q, "erase")
  <2>1. Waits(Main, Head(batch[Main]))
    BY <1>1, <1>2 DEF IInv, AskInv
  <2> QED BY <1>2, <2>1 DEF Waits, Asked
<1> HIDE DEF q
<1>5. DeletesKept /\ NoNewDeletes
  BY <1>1, <1>2, QueueBegun, NothingClaimed
<1>6. ASSUME NEW x \in In({"start", "post"}), x[1] = Main PROVE FALSE
  <2>1. x[2].pc \in {"start", "post"}
    BY InFrame
  <2>2. x[2] = Top(Main) /\ stack[Main] # <<>>
    <3>1. x[2].pc \notin Below(x[1])
      BY <2>1 DEF Below
    <3> QED BY <1>6, <3>1, OnlyTop
  <2> QED BY <1>2, <2>1, <2>2 DEF Idle, Below
<1> QED BY <1>1, <1>3, <1>4, <1>5, <1>6, EraseCoord

LEMMA UnlistCoord ==
  ASSUME IInv, IInv', CoordInv, NEW p \in Thread, Unlist(p)
  PROVE  CoordInv'
<1> DEFINE w == Top(p).thread
           f == GoneTo(p, "tell")
           N == {<<p, f>>}
<1>0. /\ stack[p] # <<>> /\ Top(p).pc = "unlist" /\ Top(p).pc \in DestroyPc /\ Top(p).pc \in OpPc
      /\ stack' = Goto(p, "tell") /\ threads' = threads \ {w} /\ "tell" \in DestroyPc
      /\ UNCHANGED <<lifeVars, tasks, batch, workThreads, gone, jobVars, bounds>>
      /\ "tell" \notin AskPc /\ {"start", "post", "unlist", "erase", "hand", "flush", "tell"} \subseteq OpPc
  BY DEF Unlist, At, DestroyPc, OpPc, AskPc
<1>1. /\ f.pc = "tell" /\ f.thread = w /\ w \in Worker
      /\ Adds(N) /\ Single(N) /\ StacksKept /\ QuitInv'
      /\ \A t \in Thread : stack'[t] # <<>> => stack[t] # <<>>
      /\ \A t \in Thread : t # p => stack'[t] = stack[t]
      /\ stack' = [stack EXCEPT ![p] = OnTop(stack[p], f)]
  BY <1>0, GoOn
<1>2. CarriedOnce(Deletes, Destroys)' /\ Claimed' = Claimed /\ NoNewDeletes
  BY <1>0, <1>1, QueuesSame, ClaimsSame, NothingClaimed DEF SameClaims
<1>3. OwedLess
  BY <1>0, NotOwed DEF jobVars
<1>4. (p # Main => ~told[Main]) /\ ~Foreign(AskPc) /\ ~Owed(w)
  BY <1>0, WhileLeaving
<1>5. <<p, Top(p)>> \in In({"unlist"}) /\ <<p, Top(p)>> \in In({"erase", "unlist"}) /\ <<p, Top(p)>> \in In(Claims)
      /\ w # None /\ Top(p).pc \in Claims
  BY <1>0, TopIn, LeavingIs DEF Claims
<1>6. w \in threads /\ w \in Claimed
  BY <1>5, ClaimedIs DEF CoordInv, WorkerInv, ClaimInv
<1>7. w \notin ToSet(workThreads) /\ \A x \in In({"start", "post"}) : x[2].thread # w
  BY <1>5 DEF CoordInv, WorkerInv, WorkInv, UseInv
<1>8. Len(workThreads) \in Nat
  BY DEF IInv, TypeOK, PoolType
<1> HIDE DEF f, w
<1>9. AloneInv'
  BY <1>0, <1>1, <1>3, <1>4, AloneKept DEF CoordInv, SharedInv, lifeVars
<1>10. ApartInv'
  <2>1. ApartFine(<<p, f>>)
    BY <1>0, <1>1, <1>4 DEF ApartFine
  <2> QED BY <1>1, <1>3, <2>1, ApartKept DEF CoordInv, SharedInv
<1>11. TeardownInv'
  BY <1>0, <1>1, TeardownKept DEF CoordInv, SharedInv, lifeVars
<1>12. RunInv'
  BY <1>0, <1>1 DEF RunInv, CoordInv, SharedInv, lifeVars
<1>13. ClaimInv'
  <2>1. ASSUME NEW x \in In({"erase", "unlist"})' PROVE x[2].thread \in threads'
    <3>1. PICK t \in Thread : \E i \in 1..Len(stack'[t]) : x = <<t, stack'[t][i]>> /\ stack'[t][i].pc \in {"erase", "unlist"}
      BY DEF In, Frames
    <3>2. PICK i \in 1..Len(stack'[t]) : x = <<t, stack'[t][i]>> /\ stack'[t][i].pc \in {"erase", "unlist"}
      BY <3>1
    <3>3. Len(stack[p]) \in 1..Len(stack[p]) /\ Top(p) = stack[p][Len(stack[p])] /\ DOMAIN stack[p] = 1..Len(stack[p])
      BY <1>0, StackIs DEF Top, Last
    <3>4. i \in 1..Len(stack[t]) /\ stack'[t][i] = stack[t][i] /\ (t = p => i # Len(stack[p]))
      <4>1. CASE t # p
        BY <1>1, <4>1
      <4>2. CASE t = p
        <5>1. stack'[p] = OnTop(stack[p], f)
          BY <1>1, StackIs
        <5>2. Len(stack'[p]) = Len(stack[p]) /\ \A k \in 1..Len(stack[p]) :
                stack'[p][k] = IF k = Len(stack[p]) THEN f ELSE stack[p][k]
          BY <3>3, <5>1 DEF OnTop
        <5> QED BY <1>1, <3>2, <4>2, <5>2
      <4> QED BY <4>1, <4>2
    <3>5. stack[t][i].pc \in Claims /\ x[2] = stack[t][i]
      BY <3>2, <3>4 DEF Claims, DestroyPc
    <3>6. x[2].thread # w
      <4>1. stack[p][Len(stack[p])].pc \in Claims /\ stack[p][Len(stack[p])].thread = w
        BY <1>5, <3>3 DEF w
      <4> QED BY <3>3, <3>4, <3>5, <4>1, ClaimOnce
    <3>7. x \in In({"erase", "unlist"})
      BY <3>2, <3>4, InIs
    <3> QED BY <1>0, <3>6, <3>7 DEF CoordInv, WorkerInv, ClaimInv
  <2>2. ASSUME NEW x \in In({"tell", "hand", "flush"})' PROVE x[2].thread \notin threads'
    <3>1. {"tell", "hand", "flush"} \subseteq OpPc
      BY <1>0
    <3>2. x \in In({"tell", "hand", "flush"}) \/ x = <<p, f>>
      BY <1>1, <3>1, AddsIn
    <3> QED BY <1>0, <1>1, <3>2 DEF CoordInv, WorkerInv, ClaimInv
  <2>3. ASSUME NEW x \in In({"hand", "flush"})' PROVE ToldOff(x[2].thread)'
    <3>1. {"hand", "flush"} \subseteq OpPc
      BY <1>0
    <3>2. x \in In({"hand", "flush"}) \cup {y \in N : y[2].pc \in {"hand", "flush"}}
      BY <1>1, <3>1, AddsIn
    <3>3. x \in In({"hand", "flush"})
      BY <1>1, <3>2
    <3>4. ToldOff(x[2].thread)
      BY <3>3 DEF CoordInv, WorkerInv, ClaimInv
    <3> QED BY <1>0, <3>4 DEF ToldOff, lifeVars
  <2>4. ASSUME NEW m \in Queued', m.kind = "delete" PROVE m.thread \notin threads' /\ ToldOff(m.thread)'
    <3>1. m.thread \notin threads /\ ToldOff(m.thread)
      BY <1>2, <2>4 DEF NoNewDeletes, CoordInv, WorkerInv, ClaimInv
    <3> QED BY <1>0, <3>1 DEF ToldOff, lifeVars
  <2>5. \A u \in Worker : phase'[u] \notin {"none", "deleted"} <=> u \in threads' \cup Claimed'
    BY <1>0, <1>2, <1>6 DEF CoordInv, WorkerInv, ClaimInv, lifeVars
  <2> QED BY <1>2, <2>1, <2>2, <2>3, <2>4, <2>5 DEF ClaimInv
<1>14. UseInv'
  <2>1. UseFine(<<p, f>>)
    BY <1>1 DEF UseFine
  <2>2. ASSUME NEW x \in In({"start", "post"})', x[2].thread \in threads PROVE x[2].thread \in threads'
    <3>1. {"start", "post"} \subseteq OpPc
      BY <1>0
    <3>2. x \in In({"start", "post"}) \cup {y \in N : y[2].pc \in {"start", "post"}}
      BY <1>1, <3>1, AddsIn
    <3> QED BY <1>0, <1>1, <1>7, <2>2, <3>2
  <2> QED BY <1>1, <2>1, <2>2, UseKept DEF CoordInv, WorkerInv
<1>15. StartInv'
  <2>1. StartFine(<<p, f>>)
    BY <1>1 DEF StartFine
  <2> QED BY <1>0, <1>1, <1>8, <2>1, StartsFine DEF CoordInv, WorkerInv, lifeVars
<1>16. WorkInv'
  <2>1. ToSet(workThreads) \subseteq threads'
    BY <1>0, <1>7 DEF CoordInv, WorkerInv, WorkInv
  <2> QED BY <1>0, <1>1, <2>1, WorkKept DEF CoordInv, WorkerInv
<1>17. OwedInv'
  <2>1. PICK v : v = w
    OBVIOUS
  <2>2. ~Owed(v) /\ ~Owed(v)' /\ \A u \in threads : u = v \/ u \in threads'
    BY <1>0, <1>1, <1>3, <1>4, <2>1 DEF OwedLess
  <2>3. \A u \in Worker : Owed(u)' => Owed(u)
    BY <1>3 DEF OwedLess
  <2>4. \A u \in Worker : Owed(u) /\ u \in threads => u \in threads'
    BY <2>2
  <2>5. \A u \in threads : u \in threads' \/ ~Owed(u)'
    BY <2>2
  <2>6. \A x \in N : ~Owed(x[2].thread)'
    BY <1>1, <2>1, <2>2
  <2> QED BY <1>1, <2>3, <2>4, <2>5, <2>6, OwedKept DEF CoordInv, WorkerInv
<1> QED BY <1>1, <1>9, <1>10, <1>11, <1>12, <1>13, <1>14, <1>15, <1>16, <1>17 DEF CoordInv, SharedInv, WorkerInv

\* A step of the destruction of a worker that is out of threads_.
LEMMA GoOnCoord ==
  ASSUME IInv, IInv', CoordInv, NEW p \in Thread, stack[p] # <<>>, Top(p).pc \in {"tell", "hand"},
         NEW pc \in {"hand", "flush"}, stack' = Goto(p, pc), UNCHANGED <<phase, tasks, batch, poolVars, jobVars>>,
         NEW w, w = Top(p).thread, ToldOff(w)', \A t \in Thread : told'[t] = told[t] \/ (t = w /\ told'[t])
  PROVE  CoordInv'
<1> PICK f : f = GoneTo(p, pc)
  OBVIOUS
<1> DEFINE N == {<<p, f>>}
<1>0. /\ Top(p).pc \in DestroyPc /\ Top(p).pc \in OpPc /\ pc \in DestroyPc \cup {"flush"} /\ pc \in OpPc
      /\ pc \notin AskPc /\ pc \notin {"start", "quit", "unlist", "get", "erase", "tell", "post"}
  BY DEF DestroyPc, OpPc, AskPc
<1>1. /\ f.pc = pc /\ f.thread = w /\ w \in Worker
      /\ Adds(N) /\ Single(N) /\ StacksKept /\ QuitInv'
      /\ \A t \in Thread : stack'[t] # <<>> => stack[t] # <<>>
  BY <1>0, GoOn
<1>2. CarriedOnce(Deletes, Destroys)' /\ Claimed' = Claimed /\ NoNewDeletes
  BY <1>1, QueuesSame, ClaimsSame, NothingClaimed DEF SameClaims
<1>3. OwedLess
  BY NotOwed DEF jobVars
<1>4. (p # Main => ~told[Main]) /\ ~Foreign(AskPc) /\ ~Owed(w)
  BY <1>0, WhileLeaving
<1>5. w \notin threads
  <2>1. <<p, Top(p)>> \in In({"tell", "hand", "flush"})
    BY TopIn
  <2> QED BY <2>1 DEF CoordInv, WorkerInv, ClaimInv
<1>6. told'[Main] = told[Main]
  BY <1>1, MainBegun
<1>7. Calm
  BY DEF Calm
<1>8. RunInv'
  <2>1. \A t \in Thread : phase'[t] = phase[t]
    OBVIOUS
  <2> QED BY <1>1, <1>7, <2>1, RunKept, NothingClaimed
<1>9. AloneInv'
  BY <1>1, <1>3, <1>4, <1>6, AloneKept DEF CoordInv, SharedInv
<1>10. NewFine(<<p, f>>)
  <2>1. ApartFine(<<p, f>>)
    BY <1>0, <1>1, <1>4 DEF ApartFine
  <2>2. ClaimFine(<<p, f>>)
    BY <1>0, <1>1, <1>5 DEF ClaimFine
  <2>3. UseFine(<<p, f>>) /\ StartFine(<<p, f>>)
    BY <1>0, <1>1 DEF UseFine, StartFine
  <2> QED BY <1>0, <1>1, <1>3, <1>4, <2>1, <2>2, <2>3 DEF NewFine, OwedLess
<1>11. OwedFine(N) /\ DeletesFine
  BY <1>2, <1>3 DEF OwedFine, OwedLess, DeletesFine, NoNewDeletes
<1>12. threads \cup Claimed' = threads \cup Claimed
  BY <1>2
<1> QED BY <1>1, <1>2, <1>7, <1>8, <1>9, <1>10, <1>11, <1>12, CalmKept

LEMMA TellCoord ==
  ASSUME IInv, IInv', CoordInv, NEW p \in Thread, Tell(p)
  PROVE  CoordInv'
<1> PICK w : w = Top(p).thread
  OBVIOUS
<1>1. /\ stack[p] # <<>> /\ Top(p).pc = "tell" /\ stack' = Goto(p, "hand")
      /\ told' = IF phase[w] = "open" THEN [told EXCEPT ![w] = TRUE] ELSE told
      /\ UNCHANGED <<phase, tasks, batch, poolVars, jobVars, bounds>>
  BY DEF Tell, At
<1>2. w \in Thread /\ told \in [Thread -> BOOLEAN]
  <2>1. Top(p).pc \in DestroyPc
    BY <1>1 DEF DestroyPc
  <2> QED BY <1>1, <2>1, LeavingIs DEF Thread, IInv, TypeOK, PoolType
<1>3. \A t \in Thread : told'[t] = told[t] \/ (t = w /\ told'[t])
  BY <1>1, <1>2
<1>4. ToldOff(w)'
  BY <1>1, <1>2 DEF ToldOff
<1> QED BY <1>1, <1>3, <1>4, GoOnCoord

\* The frame that destroys w is popped; its claim goes to a message, or ends.
LEMMA PopGains ==
  ASSUME IInv, CoordInv, NEW p \in Thread, stack[p] # <<>>, Top(p).pc \in Claims, stack' = Pop(p)
  PROVE  LET r == Front(stack[p])
         IN /\ stack' = [stack EXCEPT ![p] = r] /\ Adds({}) /\ Single({}) /\ QuitInv'
            /\ Destroys[Top(p)] = Top(p).thread /\ Top(p).thread \in Worker
            /\ Top(p).thread \in Values(stack[p], Destroys)
            /\ Once(r, Destroys) /\ Values(r, Destroys) = Swapped(Values(stack[p], Destroys), Top(p).thread, None)
            /\ \A t \in Thread : stack'[t] # <<>> => stack[t] # <<>>
<1> DEFINE r == Front(stack[p])
           h == [pc |-> "body"]
<1>1. Top(p) \in FrameSet /\ Top(p) = Last(stack[p]) /\ stack[p] \in Seq(FrameSet) /\ Once(stack[p], Destroys)
  BY AtTop, StackIs, NothingClaimed
<1>2. Destroys[Top(p)] = Top(p).thread /\ Top(p).thread \in Worker /\ Top(p).thread # None
  BY <1>1, ClaimOf
<1>3. stack' = [stack EXCEPT ![p] = r]
  BY DEF Pop
<1>4. /\ Gains(stack[p], r, h) /\ QuitKept(stack[p], r)
      /\ Once(r, Destroys) /\ Destroys[Last(stack[p])] \in Values(stack[p], Destroys) \cup {None}
      /\ Values(r, Destroys) = Swapped(Values(stack[p], Destroys), Destroys[Last(stack[p])], None)
  BY <1>1, GainPop
<1>5. h.pc \notin OpPc
  BY DEF OpPc, AskPc, DestroyPc
<1> HIDE DEF r, h
<1>6. Adds({})
  BY <1>3, <1>4, <1>5, GainsAdds
<1>7. stack'[p] = r /\ \A t \in Thread : t # p => stack'[t] = stack[t]
  BY <1>3, StackIs
<1>8. QuitInv'
  <2>1. \A t \in Thread : QuitKept(stack[t], stack'[t])
    BY <1>4, <1>7 DEF QuitKept
  <2> QED BY <2>1, NothingClaimed, QuitInvKept
<1> QED BY <1>1, <1>2, <1>3, <1>4, <1>6, <1>7, <1>8 DEF Single, r

LEMMA HandCoord ==
  ASSUME IInv, IInv', CoordInv, NEW p \in Thread, Hand(p)
  PROVE  CoordInv'
<1> PICK w : w = Top(p).thread
  OBVIOUS
<1>1. /\ stack[p] # <<>> /\ Top(p).pc = "hand"
      /\ UNCHANGED <<lifeVars, batch, poolVars, jobVars, bounds>>
      /\ \/ Post(Main, Message("delete", w, None)) /\ stack' = Pop(p)
         \/ stack' = Goto(p, "flush") /\ UNCHANGED tasks
  BY DEF Hand, At
<1>2. <<p, Top(p)>> \in In({"tell", "hand", "flush"}) /\ <<p, Top(p)>> \in In({"hand", "flush"})
  BY <1>1, TopIn
<1>3. w \notin threads /\ ToldOff(w)
  BY <1>2 DEF CoordInv, WorkerInv, ClaimInv
<1>4. CASE stack' = Goto(p, "flush") /\ UNCHANGED tasks
  <2>1. ToldOff(w)' /\ told' = told /\ phase' = phase
    BY <1>1, <1>3 DEF lifeVars, ToldOff
  <2> QED BY <1>1, <1>4, <2>1, GoOnCoord
<1>5. CASE Post(Main, Message("delete", w, None)) /\ stack' = Pop(p)
  <2> DEFINE m == Message("delete", w, None)
             r == Front(stack[p])
  <2>1. Top(p).pc \in Claims
    BY <1>1 DEF Claims, DestroyPc
  <2>2. /\ stack' = [stack EXCEPT ![p] = r] /\ Adds({}) /\ Single({}) /\ QuitInv'
        /\ w \in Worker /\ w \in Values(stack[p], Destroys)
        /\ Once(r, Destroys) /\ Values(r, Destroys) = Swapped(Values(stack[p], Destroys), w, None)
        /\ \A t \in Thread : stack'[t] # <<>> => stack[t] # <<>>
    BY <1>1, <1>5, <2>1, PopGains
  <2>3. m \in MessageSet /\ Deletes[m] = w /\ m.kind = "delete" /\ m.thread = w
    <3>1. m \in MessageSet /\ m.kind = "delete" /\ m.thread = w
      BY <2>2 DEF Message, MessageSet, Kinds, Asked, Thread
    <3> HIDE DEF m
    <3> QED BY <3>1, DeleteOf
  <2> HIDE DEF m, r
  <2>4. PostMoves(Deletes, Destroys, p, r, w, w, Main, m)
    BY <1>1, <1>5, <2>2, <2>3 DEF PostMoves, m
  <2>5. TypeOK /\ CarriedOnce(Deletes, Destroys)
    BY NothingClaimed DEF IInv
  <2>6. CarriedOnce(Deletes, Destroys)' /\ Carried(Deletes, Destroys)' = Swapped(Carried(Deletes, Destroys), w, w)
    BY <2>3, <2>4, <2>5, PostCarries, MainBegun
  <2>7. w \in Claimed /\ w # None
    <3>1. <<p, Top(p)>> \in In(Claims)
      BY <1>1, <2>1, TopIn
    <3>2. w # None
      BY <2>2 DEF Thread
    <3> QED BY <3>1, <3>2, ClaimedIs
  <2>8. Claimed' = Claimed
    BY <2>6, <2>7 DEF Claimed, Swapped
  <2>9. DeletesFine
    <3> SUFFICES ASSUME NEW n \in Queued', n.kind = "delete", n \notin Queued
                 PROVE  n.thread \notin threads /\ ToldOff(n.thread)'
      BY DEF DeletesFine
    <3>1. PICK u \in Thread : n \in ToSet(tasks'[u]) \cup ToSet(batch'[u])
      BY DEF Queued
    <3>2. tasks[Main] \in Seq(MessageSet) /\ tasks'[Main] = Append(tasks[Main], m)
          /\ \A t \in Thread : t # Main => tasks'[t] = tasks[t]
      BY <1>5, MainBegun DEF IInv, TypeOK, QueueType, Post, m
    <3>3. ToSet(tasks'[Main]) = ToSet(tasks[Main]) \cup {m}
      BY <2>3, <3>2, AppendedSet
    <3>4. n = m
      <4>1. batch' = batch /\ n \notin ToSet(batch[u]) /\ n \notin ToSet(tasks[u])
        BY <1>1 DEF Queued
      <4> QED BY <3>1, <3>2, <3>3, <4>1
    <3> QED BY <1>1, <1>3, <2>3, <3>4 DEF ToldOff, lifeVars
  <2>10. OwedLess
    BY <1>1, NotOwed DEF jobVars
  <2>11. Calm /\ RunInv'
    BY <1>1, <2>2, NoLife, NothingClaimed
  <2>12. AloneInv'
    BY <1>1, <2>2, <2>10, AloneKept DEF CoordInv, SharedInv, lifeVars
  <2>13. OwedFine({})
    BY <2>10 DEF OwedFine, OwedLess
  <2>14. threads \cup Claimed' = threads \cup Claimed
    BY <2>8
  <2> QED BY <2>2, <2>6, <2>9, <2>11, <2>12, <2>13, <2>14, CalmKept
<1> QED BY <1>1, <1>4, <1>5

\* The worker is deleted.
LEMMA FlushCoord ==
  ASSUME IInv, IInv', CoordInv, NEW p \in Thread, Flush(p)
  PROVE  CoordInv'
<1> PICK w : w = Top(p).thread
  OBVIOUS
<1> DEFINE r == Front(stack[p])
<1>1. /\ stack[p] # <<>> /\ Top(p).pc = "flush" /\ phase[w] \in {"made", "finished"}
      /\ phase' = [phase EXCEPT ![w] = "deleted"] /\ stack' = Pop(p)
      /\ UNCHANGED <<told, tasks, batch, poolVars, jobVars, bounds>> /\ Top(p).pc \in Claims
  BY DEF Flush, At, Claims
<1>2. /\ stack' = [stack EXCEPT ![p] = r] /\ Adds({}) /\ Single({}) /\ QuitInv'
      /\ w \in Worker /\ w \in Values(stack[p], Destroys)
      /\ Once(r, Destroys) /\ Values(r, Destroys) = Swapped(Values(stack[p], Destroys), w, None)
      /\ \A t \in Thread : stack'[t] # <<>> => stack[t] # <<>>
  BY <1>1, PopGains
<1> HIDE DEF r
<1>3. CarriedOnce(Deletes, Destroys)' /\ Claimed' = Claimed \ {w}
  <2>1. StackMoves(Deletes, Destroys, p, r, w, None)
    BY <1>1, <1>2 DEF StackMoves
  <2>2. TypeOK /\ CarriedOnce(Deletes, Destroys)
    BY NothingClaimed DEF IInv
  <2>3. CarriedOnce(Deletes, Destroys)' /\ Carried(Deletes, Destroys)' = Swapped(Carried(Deletes, Destroys), w, None)
    BY <2>1, <2>2, StackCarries
  <2> QED BY <2>3 DEF Claimed, Swapped
<1>4. /\ w # Main /\ w \in Thread /\ phase'[w] = "deleted"
      /\ \A t \in Thread : t # w => phase'[t] = phase[t]
      /\ told' = told /\ threads' = threads /\ workThreads' = workThreads /\ gone' = gone
      /\ Len(workThreads) \in Nat /\ threads \subseteq Worker
  BY <1>1, <1>2, MainBegun DEF poolVars, IInv, TypeOK, PoolType, Thread
<1>5. w \notin threads
  <2>1. <<p, Top(p)>> \in In({"tell", "hand", "flush"})
    BY <1>1, TopIn
  <2> QED BY <2>1 DEF CoordInv, WorkerInv, ClaimInv
<1>6. stack[w] = <<>>
  BY <1>1, <1>4 DEF CoordInv, SharedInv, RunInv
<1>7. OwedLess
  BY <1>1, NotOwed DEF jobVars
<1>8. NoNewDeletes
  BY <1>1, QueuesSame, NothingClaimed
<1>9. AloneInv'
  BY <1>2, <1>4, <1>7, AloneKept DEF CoordInv, SharedInv
<1>10. ApartInv'
  BY <1>2, <1>7, ApartKept DEF CoordInv, SharedInv
<1>11. TeardownInv'
  BY <1>2, <1>4, TeardownKept, MainBegun DEF CoordInv, SharedInv
<1>12. RunInv'
  BY <1>2, <1>4, <1>6 DEF RunInv, CoordInv, SharedInv
<1>13. ClaimInv'
  <2>1. {"erase", "unlist"} \subseteq OpPc /\ {"tell", "hand", "flush"} \subseteq OpPc /\ {"hand", "flush"} \subseteq OpPc
    BY DEF OpPc, DestroyPc
  <2>2. In({"erase", "unlist"})' \subseteq In({"erase", "unlist"})
        /\ In({"tell", "hand", "flush"})' \subseteq In({"tell", "hand", "flush"})
        /\ In({"hand", "flush"})' \subseteq In({"hand", "flush"})
    BY <1>2, <2>1, AddsIn
  <2>3. \A u \in Worker : (ToldOff(u) => ToldOff(u)') /\ (u # w => (Lives(u)' <=> Lives(u)))
    BY <1>4 DEF ToldOff, Lives, Thread
  <2>4. \A x \in In({"hand", "flush"}) : x[2].thread \in Worker
    <3>1. \A x \in In({"hand", "flush"}) : x[2].pc \in {"hand", "flush"} /\ x[2] \in FrameSet
      BY InFrame
    <3> QED BY <3>1 DEF FrameSet, DestroyPc
  <2>5. \A x \in In({"hand", "flush"})' : ToldOff(x[2].thread)'
    BY <2>2, <2>3, <2>4 DEF CoordInv, WorkerInv, ClaimInv
  <2>6. \A m \in Queued' : m.kind = "delete" => m.thread \notin threads' /\ ToldOff(m.thread)'
    BY <1>4, <1>8, <2>3, QueuedIs DEF NoNewDeletes, CoordInv, WorkerInv, ClaimInv
  <2>7. \A u \in Worker : phase'[u] \notin {"none", "deleted"} <=> u \in threads' \cup Claimed'
    BY <1>3, <1>4, <1>5, <2>3 DEF CoordInv, WorkerInv, ClaimInv, Lives
  <2> QED BY <1>3, <1>4, <2>2, <2>5, <2>6, <2>7 DEF CoordInv, WorkerInv, ClaimInv
<1>14. UseInv'
  BY <1>2, <1>4, UseKept DEF CoordInv, WorkerInv
<1>15. StartInv'
  <2>1. ASSUME NEW x \in In({"start"})' PROVE phase[x[2].thread] = "made" => phase'[x[2].thread] = "made"
    <3>1. {"start"} \subseteq OpPc
      BY DEF OpPc
    <3>2. x \in In({"start"})
      BY <1>2, <3>1, AddsIn
    <3>3. x \in In({"start", "post"})
      BY <3>2 DEF In
    <3>4. x[2].thread \in threads
      BY <3>3 DEF CoordInv, WorkerInv, UseInv
    <3> QED BY <1>4, <1>5, <3>4 DEF Thread
  <2> QED BY <1>2, <1>4, <2>1, StartsFine DEF CoordInv, WorkerInv
<1>16. WorkInv'
  BY <1>2, <1>4, WorkKept DEF CoordInv, WorkerInv, WorkInv
<1>17. OwedInv'
  BY <1>2, <1>4, <1>7, OwedKept DEF CoordInv, WorkerInv, OwedLess
<1> QED BY <1>2, <1>9, <1>10, <1>11, <1>12, <1>13, <1>14, <1>15, <1>16, <1>17 DEF CoordInv, SharedInv, WorkerInv

\* Main takes over a worker from the message that hands it over.
LEMMA RunDeleteCoord ==
  ASSUME IInv, IInv', CoordInv, RunDelete
  PROVE  CoordInv'
<1> PICK m : m = Head(batch[Main])
  OBVIOUS
<1> PICK w : w = m.thread
  OBVIOUS
<1> PICK f : f = Frame("flush", w, None)
  OBVIOUS
<1> DEFINE r == Append(stack[Main], f)
           N == {<<Main, f>>}
<1>1. /\ NextTask(Main, "delete") /\ stack' = Push(Main, f) /\ Main \in Thread
      /\ UNCHANGED <<lifeVars, tasks, poolVars, jobVars, bounds>>
  BY MainBegun DEF RunDelete
<1>2. /\ batch[Main] # <<>> /\ batch' = [batch EXCEPT ![Main] = Tail(batch[Main])] /\ Begun(Main)
      /\ m \in MessageSet /\ m.kind = "delete" /\ m \in ToSet(batch[Main])
  BY <1>1, NextOne
<1>3. w \in Worker /\ Deletes[m] = w /\ w # None
  BY <1>2, DeleteOf
<1>4. f \in FrameSet /\ f.pc = "flush" /\ f.thread = w
  <2>1. "flush" \in Pcs /\ "flush" \notin {"get", "post", "job"} \cup DestroyPc /\ w \in Thread \cup {None}
    BY <1>3 DEF Pcs, OpPc, DestroyPc, Thread
  <2> QED BY <1>3, <2>1, FrameIn
<1>5. /\ "flush" \in Claims /\ "flush" \in OpPc
      /\ "flush" \notin AskPc \cup DestroyPc \cup {"start", "quit", "unlist", "get", "erase", "tell", "post", "hand"}
  BY DEF Claims, OpPc, AskPc, DestroyPc
<1>6. stack[Main] \in Seq(FrameSet) /\ Once(stack[Main], Destroys) /\ CarriedOnce(Deletes, Destroys)
  BY <1>1, StackIs, NothingClaimed
<1>7. m \in Queued
  BY <1>1, <1>2 DEF Queued
<1>8. w \notin threads /\ ToldOff(w) /\ w \in Claimed
  BY <1>2, <1>3, <1>7, ClaimedIs DEF CoordInv, WorkerInv, ClaimInv
<1>9. w \notin Values(stack[Main], Destroys)
  <2>1. w \in Values(batch[Main], Deletes)
    <3>1. PICK i \in DOMAIN batch[Main] : batch[Main][i] = m
      BY <1>2 DEF ToSet
    <3> QED BY <1>3, <3>1 DEF Values
  <2>2. /\ <<"batch", Main>> \in Carriers /\ <<"stack", Main>> \in Carriers
        /\ Content(Deletes, Destroys, <<"batch", Main>>) = Values(batch[Main], Deletes)
        /\ Content(Deletes, Destroys, <<"stack", Main>>) = Values(stack[Main], Destroys)
    BY <1>1, Contents DEF Content
  <2>3. Content(Deletes, Destroys, <<"batch", Main>>) \cap Content(Deletes, Destroys, <<"stack", Main>>) = {}
    <3>1. <<"batch", Main>> # <<"stack", Main>>
      OBVIOUS
    <3> QED BY <1>6, <2>2, <3>1 DEF CarriedOnce
  <2> QED BY <2>1, <2>2, <2>3
<1>10. Destroys[f] = w
  BY <1>4, <1>5, ClaimOf
<1>11. /\ Gains(stack[Main], r, f) /\ QuitKept(stack[Main], r)
       /\ Once(r, Destroys) /\ Values(r, Destroys) = Swapped(Values(stack[Main], Destroys), None, w)
  BY <1>4, <1>5, <1>6, <1>9, <1>10, GainPush
<1>12. stack' = [stack EXCEPT ![Main] = r]
  BY <1>1 DEF Push
<1> HIDE DEF r
<1>13. CarriedOnce(Deletes, Destroys)' /\ Claimed' = Claimed
  <2>1. BatchMoves(Deletes, Destroys, Main, r, Main, w, w)
    BY <1>1, <1>2, <1>3, <1>11, <1>12 DEF BatchMoves
  <2>2. CarriedOnce(Deletes, Destroys)' /\ Carried(Deletes, Destroys)' = Swapped(Carried(Deletes, Destroys), w, w)
    BY <1>1, <1>6, <2>1, BatchCarries DEF IInv
  <2> QED BY <1>3, <1>8, <2>2 DEF Claimed, Swapped
<1>14. Adds(N)
  BY <1>1, <1>11, <1>12, GainsAdds
<1>15. stack'[Main] = r /\ \A t \in Thread : t # Main => stack'[t] = stack[t]
  BY <1>1, <1>12, StackIs
<1>16. QuitInv'
  <2>1. \A t \in Thread : QuitKept(stack[t], stack'[t])
    BY <1>11, <1>15 DEF QuitKept
  <2> QED BY <2>1, NothingClaimed, QuitInvKept
<1>17. Calm /\ RunInv'
  BY <1>1, <1>15, NoLife, NothingClaimed
<1>18. OwedLess
  BY <1>1, NotOwed DEF jobVars
<1>19. AloneInv'
  BY <1>1, <1>14, <1>18, AloneKept DEF CoordInv, SharedInv, lifeVars
<1>20. NewFine(<<Main, f>>)
  <2>1. ApartFine(<<Main, f>>)
    BY <1>4, <1>5 DEF ApartFine
  <2>2. ToldOff(w)'
    BY <1>1, <1>8 DEF ToldOff, lifeVars
  <2>3. ClaimFine(<<Main, f>>)
    BY <1>4, <1>8, <2>2 DEF ClaimFine
  <2>4. UseFine(<<Main, f>>) /\ StartFine(<<Main, f>>)
    BY <1>4 DEF UseFine, StartFine
  <2> QED BY <1>4, <1>5, <2>1, <2>3, <2>4 DEF NewFine
<1>21. NoNewDeletes
  BY <1>1, <1>2, QueueBegun, NothingClaimed
<1>22. OwedFine(N) /\ DeletesFine /\ Single(N)
  BY <1>18, <1>21 DEF OwedFine, OwedLess, DeletesFine, NoNewDeletes, Single
<1>23. threads \cup Claimed' = threads \cup Claimed
  BY <1>13
<1> QED BY <1>13, <1>14, <1>16, <1>17, <1>19, <1>20, <1>22, <1>23, CalmKept

(***************************************************************************)
(* quit() begins.                                                           *)
(***************************************************************************)
LEMMA QuitPushed ==
  ASSUME IInv, CoordInv, NEW p \in Thread, NEW f, f = Frame("quit", None, None), stack' = Push(p, f),
         Leaving = {}, ~Quitting, UNCHANGED <<tasks, batch>>
  PROVE  Adds({<<p, f>>}) /\ QuitInv' /\ SameClaims /\ NoNewDeletes /\ f.pc = "quit"
         /\ \A t \in Thread : t # p => stack'[t] = stack[t]
<1>1. "quit" \in Pcs /\ "quit" \notin {"get", "post", "job", "start", "flush"} \cup DestroyPc /\ "quit" \notin Claims
  BY DEF Pcs, OpPc, DestroyPc, Claims
<1>2. f \in FrameSet /\ f.pc = "quit"
  BY <1>1, FrameIn
<1> DEFINE r == Append(stack[p], f)
<1>3. stack[p] \in Seq(FrameSet) /\ Once(stack[p], Destroys)
  BY StackIs, NothingClaimed
<1>4. Gains(stack[p], r, f) /\ ClaimsKept(stack[p], r)
  BY <1>1, <1>2, <1>3, GainPush
<1>5. \A i \in 1..Len(r) : (i \in 1..Len(stack[p]) /\ r[i] = stack[p][i]) \/ i = Len(stack[p]) + 1
  BY <1>3
<1>6. stack' = [stack EXCEPT ![p] = r]
  BY DEF Push
<1> HIDE DEF r
<1>7. stack'[p] = r /\ \A t \in Thread : t # p => stack'[t] = stack[t]
  BY <1>6, StackIs
<1>8. Adds({<<p, f>>})
  BY <1>4, <1>6, GainsAdds
<1>9. \A t \in Thread : \A i \in 1..Len(stack[t]) : stack[t][i].pc \notin DestroyPc \cup {"quit"}
  <2> SUFFICES ASSUME NEW t \in Thread, NEW i \in 1..Len(stack[t]), stack[t][i].pc \in DestroyPc \cup {"quit"}
               PROVE FALSE
    OBVIOUS
  <2>1. <<t, stack[t][i]>> \in In(DestroyPc) \/ <<t, stack[t][i]>> \in In({"quit"})
    BY InIs
  <2> QED BY <2>1 DEF Leaving, Quitting
<1>10. \A t \in Thread : \A i \in 1..Len(stack'[t]) : stack'[t][i].pc \in DestroyPc \cup {"quit"} =>
         t = p /\ i = Len(stack[p]) + 1
  BY <1>5, <1>7, <1>9
<1>11. QuitInv'
  <2> SUFFICES ASSUME NEW a \in Thread, NEW b \in Thread, NEW i \in 1..Len(stack'[a]), NEW k \in 1..Len(stack'[b]),
                      stack'[a][i].pc = "quit", stack'[b][k].pc \in DestroyPc \cup {"quit"}
               PROVE  a = b /\ i <= k
    BY DEF QuitInv, QuitsFirst
  <2>1. i = k /\ a = b /\ i \in Nat
    BY <1>10
  <2> QED BY <2>1
<1>12. SameClaims
  <2>1. Once(r, Destroys) /\ Values(r, Destroys) = Values(stack[p], Destroys) /\ None \notin Values(stack[p], Destroys)
    BY <1>4, NoneValue DEF ClaimsKept
  <2>2. StackMoves(Deletes, Destroys, p, r, None, None)
    BY <1>6, <2>1 DEF StackMoves, Swapped
  <2>3. TypeOK /\ CarriedOnce(Deletes, Destroys)
    BY NothingClaimed DEF IInv
  <2>4. CarriedOnce(Deletes, Destroys)' /\ Carried(Deletes, Destroys)' = Swapped(Carried(Deletes, Destroys), None, None)
    BY <2>2, <2>3, StackCarries
  <2> QED BY <2>4, NoneCarried DEF SameClaims, Claimed
<1>13. NoNewDeletes
  BY QueuesSame, NothingClaimed
<1> QED BY <1>2, <1>7, <1>8, <1>11, <1>12, <1>13

LEMMA QuitCoord ==
  ASSUME Coordinated, IInv, IInv', CoordInv, NEW p \in Thread, Quit(p)
  PROVE  CoordInv'
<1> PICK f : f = Frame("quit", None, None)
  OBVIOUS
<1> DEFINE N == {<<p, f>>}
<1>1. /\ stack[p] # <<>> /\ MayQuit(p) /\ stack' = Push(p, f)
      /\ UNCHANGED <<lifeVars, tasks, batch, poolVars, jobVars, callbacks>>
  BY DEF Quit, Call
<1>2. Leaving = {} /\ ~OwedToWorkers /\ ~Quitting /\ ~Foreign(AskPc \cup {"start"}) /\ (p # Main => ~told[Main])
  BY <1>1 DEF MayQuit, Coordinated
<1>3. Adds(N) /\ QuitInv' /\ SameClaims /\ NoNewDeletes /\ f.pc = "quit" /\ \A t \in Thread : t # p => stack'[t] = stack[t]
  BY <1>1, <1>2, QuitPushed
<1>4. Calm /\ RunInv'
  BY <1>1, <1>3, NoLife, NothingClaimed
<1>5. OwedLess
  BY <1>1, NotOwed DEF jobVars
<1>6. AloneInv'
  BY <1>1, <1>2, <1>3, <1>5, AloneKept DEF CoordInv, SharedInv, lifeVars
<1>7. NewFine(<<p, f>>)
  <2>1. "quit" \notin AskPc \cup DestroyPc
    BY DEF AskPc, DestroyPc
  <2>2. ApartFine(<<p, f>>)
    BY <1>2, <1>3, <2>1 DEF ApartFine
  <2>3. ClaimFine(<<p, f>>) /\ UseFine(<<p, f>>) /\ StartFine(<<p, f>>)
    BY <1>3 DEF ClaimFine, UseFine, StartFine
  <2> QED BY <1>3, <2>1, <2>2, <2>3 DEF NewFine
<1>8. OwedFine(N) /\ DeletesFine /\ Single(N)
  BY <1>3, <1>5 DEF OwedFine, OwedLess, DeletesFine, NoNewDeletes, Single
<1> QED BY <1>3, <1>4, <1>6, <1>7, <1>8, CalmKept DEF SameClaims

LEMMA TeardownCoord ==
  ASSUME IInv, IInv', CoordInv, Teardown
  PROVE  CoordInv'
<1> PICK f : f = Frame("quit", None, None)
  OBVIOUS
<1> DEFINE N == {<<Main, f>>}
<1>1. /\ phase[Main] = "finished" /\ stack[Main] = <<>> /\ gone' = TRUE /\ workThreads' = <<>>
      /\ stack' = Push(Main, f) /\ Main \in Thread
      /\ UNCHANGED <<lifeVars, tasks, batch, threads, jobVars, bounds>>
  BY MainBegun DEF Teardown
<1>2. told[Main] /\ ~Foreign(OpPc) /\ ~OwedToWorkers
  BY <1>1 DEF CoordInv, SharedInv, RunInv, AloneInv
<1>3. In(OpPc) = {}
  <2> SUFFICES ASSUME NEW x \in In(OpPc) PROVE FALSE
    OBVIOUS
  <2>1. x[1] = Main
    BY <1>2 DEF Foreign
  <2> QED BY <1>1, <2>1, InFrame
<1>4. \A pcs : pcs \subseteq OpPc => In(pcs) = {}
  BY <1>3 DEF In
<1>5. Leaving = {} /\ ~Quitting
  <2>1. DestroyPc \subseteq OpPc /\ {"quit"} \subseteq OpPc
    BY DEF OpPc
  <2> QED BY <1>4, <2>1 DEF Leaving, Quitting
<1>6. Adds(N) /\ QuitInv' /\ SameClaims /\ NoNewDeletes /\ f.pc = "quit" /\ \A t \in Thread : t # Main => stack'[t] = stack[t]
  BY <1>1, <1>5, QuitPushed
<1>7. OwedLess
  BY <1>1, NotOwed DEF jobVars
<1>8. \A pcs : pcs \subseteq OpPc /\ "quit" \notin pcs => In(pcs)' = {}
  <2> TAKE pcs
  <2> HAVE pcs \subseteq OpPc /\ "quit" \notin pcs
  <2>1. In(pcs)' \subseteq In(pcs) \cup {x \in N : x[2].pc \in pcs}
    BY <1>6, AddsIn
  <2> QED BY <1>4, <1>6, <2>1
<1>9. /\ AskPc \subseteq OpPc /\ "quit" \notin AskPc
      /\ {"erase", "unlist"} \subseteq OpPc /\ {"tell", "hand", "flush"} \subseteq OpPc /\ {"hand", "flush"} \subseteq OpPc
      /\ {"start", "post"} \subseteq OpPc /\ {"start"} \subseteq OpPc /\ {"unlist"} \subseteq OpPc
      /\ {"get", "start"} \subseteq OpPc
  BY DEF OpPc, AskPc, DestroyPc
<1>10. AloneInv'
  BY <1>1, <1>2, <1>6, <1>7, AloneKept DEF CoordInv, SharedInv, lifeVars
<1>11. ApartInv'
  <2>1. AskPc \cup {"start"} \subseteq OpPc /\ "quit" \notin AskPc \cup {"start"} /\ "quit" \notin DestroyPc
    BY <1>9 DEF OpPc, DestroyPc
  <2>2. ~Foreign(AskPc)
    BY <1>4, <1>9 DEF Foreign
  <2>3. ~Foreign(AskPc \cup {"start"})
    BY <1>4, <2>1 DEF Foreign
  <2>4. ApartFine(<<Main, f>>)
    BY <1>2, <1>6, <2>1, <2>3 DEF ApartFine
  <2>5. Single(N)
    BY DEF Single
  <2> QED BY <1>6, <1>7, <2>4, <2>5, ApartKept DEF CoordInv, SharedInv
<1>12. TeardownInv'
  <2>1. In({"get", "start"})' = {}
    BY <1>8, <1>9
  <2> QED BY <1>1, <2>1 DEF TeardownInv, lifeVars
<1>13. RunInv'
  BY <1>1, <1>6 DEF RunInv, CoordInv, SharedInv, lifeVars
<1>14. ClaimInv'
  <2>1. In({"erase", "unlist"})' = {} /\ In({"tell", "hand", "flush"})' = {} /\ In({"hand", "flush"})' = {}
    BY <1>8, <1>9
  <2>2. \A m \in Queued' : m.kind = "delete" => m.thread \notin threads' /\ ToldOff(m.thread)'
    BY <1>1, <1>6 DEF NoNewDeletes, CoordInv, WorkerInv, ClaimInv, ToldOff, lifeVars
  <2>3. \A u \in Worker : phase'[u] \notin {"none", "deleted"} <=> u \in threads' \cup Claimed'
    BY <1>1, <1>6 DEF SameClaims, CoordInv, WorkerInv, ClaimInv, lifeVars
  <2> QED BY <1>6, <2>1, <2>2, <2>3 DEF ClaimInv, SameClaims
<1>15. UseInv' /\ StartInv'
  <2>1. In({"start", "post"})' = {} /\ In({"start"})' = {}
    BY <1>8, <1>9
  <2> QED BY <2>1 DEF UseInv, StartInv
<1>16. WorkInv'
  <2>1. ToSet(workThreads') = {} /\ Len(workThreads') = 0 /\ DOMAIN workThreads' = {}
    BY <1>1, Nothing
  <2>2. 0 <= WorkThreads
    OBVIOUS
  <2> QED BY <2>1, <2>2 DEF WorkInv
<1>17. OwedInv'
  <2>1. \A w \in Worker : ~Owed(w)'
    BY <1>2, <1>7 DEF OwedToWorkers, OwedLess
  <2> QED BY <2>1 DEF OwedInv
<1> QED BY <1>6, <1>10, <1>11, <1>12, <1>13, <1>14, <1>15, <1>16, <1>17 DEF CoordInv, SharedInv, WorkerInv

-----------------------------------------------------------------------------
(***************************************************************************)
(* Every step of coordinated users.                                         *)
(***************************************************************************)
LEMMA NothingCoord ==
  ASSUME IInv, IInv', CoordInv, UNCHANGED vars
  PROVE  CoordInv'
<1>1. UNCHANGED <<lifeVars, tasks, batch, poolVars, jobVars>> /\ stack' = stack
  BY DEF vars
<1>2. Adds({}) /\ StacksKept /\ QuitInv'
  BY <1>1, NoStack
<1>3. DeletesKept /\ NoNewDeletes
  BY <1>1, QueuesSame, NothingClaimed
<1>4. SameClaims
  BY <1>2, <1>3, ClaimsSame, NothingClaimed
<1>5. OwedLess
  BY <1>1, NotOwed DEF jobVars
<1>6. Calm /\ RunInv'
  BY <1>1, NoLife, NothingClaimed
<1>7. told'[Main] = told[Main]
  BY <1>1 DEF lifeVars
<1> QED BY <1>2, <1>3, <1>4, <1>5, <1>6, <1>7, Quiet

LEMMA EveryCoord == Coordinated /\ IInv /\ CoordInv /\ [Next]_vars => CoordInv'
<1> SUFFICES ASSUME Coordinated, IInv, CoordInv, [Next]_vars PROVE CoordInv'
  OBVIOUS
<1>0. IInv'
  BY EveryStep
<1>1. ASSUME NEW t \in Thread, Step(t) PROVE CoordInv'
  BY <1>0, <1>1, TakeCoord, CloseCoord, EndCoord, RunJobCoord, RunResultCoord, ReturnCoord, JobReturnsCoord,
     StartThreadCoord, PostJobCoord, UnlistCoord, TellCoord, HandCoord, FlushCoord, QuitNextCoord, QuitEndsCoord
     DEF Step
<1>2. CASE MainStep
  BY <1>0, <1>1, <1>2, MainBegun, GetOwnCoord, EraseOwnCoord, RunGetCoord, RunEraseCoord, RunDeleteCoord, SwapCoord,
     ProcessedCoord, TeardownCoord DEF MainStep
<1>3. CASE CallStep
  BY <1>0, <1>3, AsyncCoord, AsyncOnCoord, DestroyCallCoord, CreateCoord, QuitCoord, ExitCoord DEF CallStep
<1>4. CASE \E t \in Worker \cup Other : Step(t)
  BY <1>1, <1>4 DEF Thread
<1>5. CASE \E t \in Other \cup {Main} : Callback(t)
  BY <1>0, <1>5, CallbackCoord DEF Thread
<1>6. CASE AtRest \/ UNCHANGED vars
  BY <1>0, <1>6, NothingCoord DEF AtRest
<1> QED BY <1>2, <1>3, <1>4, <1>5, <1>6 DEF Next

LEMMA CoordInitially == Init => CoordInv
<1> SUFFICES ASSUME Init PROVE CoordInv
  OBVIOUS
<1>0. IInv
  BY Initially
<1>1. \A t \in Thread : tasks[t] = <<>> /\ batch[t] = <<>> /\ stack[t] = <<>> /\ ~told[t]
  BY DEF Init
<1>2. \A pcs : In(pcs) = {}
  <2> TAKE pcs
  <2> SUFFICES ASSUME NEW x \in In(pcs) PROVE FALSE
    OBVIOUS
  <2> QED BY <1>0, <1>1, InFrame
<1>3. Queued = {}
  BY <1>1, Nothing DEF Queued
<1>4. CarriedOnce(Deletes, Destroys) /\ Claimed = {}
  <2>1. \A x \in Carriers : Content(Deletes, Destroys, x) = {}
    BY <1>1, Nothing, CarrierCases DEF Content
  <2> QED BY <1>1, <2>1, Nothing DEF CarriedOnce, Carried, Claimed
<1>5. \A w \in Worker : ~Owed(w)
  BY DEF Init, Owed, Thread
<1>6. SharedInv
  <2>1. AloneInv /\ ApartInv
    BY <1>1, <1>2, MainBegun, <1>5 DEF AloneInv, ApartInv, Foreign, Quitting, OwedToWorkers
  <2>2. QuitInv
    BY <1>1 DEF QuitInv, QuitsFirst
  <2>3. TeardownInv
    BY DEF TeardownInv, Init
  <2>4. RunInv
    BY <1>1 DEF RunInv, Init
  <2> QED BY <2>1, <2>2, <2>3, <2>4 DEF SharedInv
<1>7. WorkerInv
  <2>1. ClaimInv
    BY <1>2, <1>3, <1>4 DEF ClaimInv, Init, Thread
  <2>2. UseInv /\ StartInv
    BY <1>2 DEF UseInv, StartInv
  <2>3. WorkInv
    BY <1>2, Nothing DEF WorkInv, Init
  <2>4. OwedInv
    BY <1>5 DEF OwedInv
  <2> QED BY <2>1, <2>2, <2>3, <2>4 DEF WorkerInv
<1> QED BY <1>6, <1>7 DEF CoordInv

LEMMA CoordInvariant == Coordinated => (Spec => [](IInv /\ CoordInv))
<1> SUFFICES ASSUME Coordinated PROVE Spec => [](IInv /\ CoordInv)
  OBVIOUS
<1>1. IInv /\ CoordInv /\ [Next]_vars => CoordInv'
  BY EveryCoord
<1> QED BY <1>1, CoordInitially, Invariant, PTL DEF Spec

-----------------------------------------------------------------------------
(***************************************************************************)
(* The hands a worker is in.                                                *)
(***************************************************************************)
TakenOut == {"tell", "hand", "flush"}
DeleteAt(q, i, w) == i \in 1..Len(q) /\ q[i].kind = "delete" /\ q[i].thread = w

LEMMA HandIs ==
  ASSUME NEW w, NEW y
  PROVE  y \in Hands(w) <=>
           \/ w \in threads /\ y = <<"list", w>>
           \/ \E x \in In(TakenOut) : x[2].thread = w /\ y = <<"frame", x[1]>>
           \/ \E t \in Thread : \E i \in 1..Len(tasks[t]) : DeleteAt(tasks[t], i, w) /\ y = <<"tasks", t, i>>
           \/ \E t \in Thread : \E i \in 1..Len(batch[t]) : DeleteAt(batch[t], i, w) /\ y = <<"batch", t, i>>
BY DEF Hands, TakenOut, DeleteAt

LEMMA DeleteQueued ==
  ASSUME IInv, NEW t \in Thread, NEW q, q = tasks[t] \/ q = batch[t], NEW w, NEW i, DeleteAt(q, i, w)
  PROVE  q[i] \in Queued /\ q[i].kind = "delete" /\ q[i].thread = w
<1>1. q \in Seq(MessageSet)
  BY DEF IInv, TypeOK, QueueType
<1>2. q[i] \in ToSet(q)
  BY <1>1 DEF DeleteAt, ToSet
<1> QED BY <1>2 DEF DeleteAt, Queued

\* Nothing deletes a worker twice.
LEMMA DeleteOnce ==
  ASSUME IInv, CoordInv, NEW w, w # None, NEW t \in Thread, NEW u \in Thread, NEW i, NEW k
  PROVE  /\ DeleteAt(tasks[t], i, w) /\ DeleteAt(tasks[u], k, w) => t = u /\ i = k
         /\ DeleteAt(batch[t], i, w) /\ DeleteAt(batch[u], k, w) => t = u /\ i = k
         /\ ~(DeleteAt(tasks[t], i, w) /\ DeleteAt(batch[u], k, w))
<1>1. /\ \A v \in Thread : Once(tasks[v], Deletes) /\ Once(batch[v], Deletes)
      /\ \A x, y \in Carriers : x # y => Content(Deletes, Destroys, x) \cap Content(Deletes, Destroys, y) = {}
  BY NothingClaimed DEF CarriedOnce
<1>2. \A x, y \in Carriers : w \in Content(Deletes, Destroys, x) /\ w \in Content(Deletes, Destroys, y) => x = y
  BY <1>1
<1>3. \A v \in Thread : /\ Content(Deletes, Destroys, <<"tasks", v>>) = Values(tasks[v], Deletes)
                        /\ Content(Deletes, Destroys, <<"batch", v>>) = Values(batch[v], Deletes)
  BY Contents DEF Content
<1>4. \A v \in Thread : tasks[v] \in Seq(MessageSet) /\ batch[v] \in Seq(MessageSet)
  BY DEF IInv, TypeOK, QueueType
<1>5. ASSUME NEW q \in Seq(MessageSet), NEW n, DeleteAt(q, n, w)
      PROVE  n \in DOMAIN q /\ Deletes[q[n]] = w /\ w \in Values(q, Deletes)
  <2>1. n \in DOMAIN q /\ q[n] \in MessageSet
    BY <1>5 DEF DeleteAt
  <2>2. Deletes[q[n]] = w
    BY <1>5, <2>1, DeleteOf DEF DeleteAt
  <2> QED BY <2>1, <2>2 DEF Values
<1>6. ASSUME NEW q \in Seq(MessageSet), Once(q, Deletes), DeleteAt(q, i, w), DeleteAt(q, k, w) PROVE i = k
  BY <1>5, <1>6 DEF Once
<1>7. ASSUME DeleteAt(tasks[t], i, w), DeleteAt(tasks[u], k, w) PROVE t = u /\ i = k
  <2>1. w \in Values(tasks[t], Deletes) /\ w \in Values(tasks[u], Deletes)
    BY <1>4, <1>5, <1>7
  <2>2. <<"tasks", t>> = <<"tasks", u>>
    BY <1>2, <1>3, <2>1, Contents
  <2>3. t = u
    BY <2>2
  <2> QED BY <1>1, <1>4, <1>6, <1>7, <2>3
<1>8. ASSUME DeleteAt(batch[t], i, w), DeleteAt(batch[u], k, w) PROVE t = u /\ i = k
  <2>1. w \in Values(batch[t], Deletes) /\ w \in Values(batch[u], Deletes)
    BY <1>4, <1>5, <1>8
  <2>2. <<"batch", t>> = <<"batch", u>>
    BY <1>2, <1>3, <2>1, Contents
  <2>3. t = u
    BY <2>2
  <2> QED BY <1>1, <1>4, <1>6, <1>8, <2>3
<1>9. ~(DeleteAt(tasks[t], i, w) /\ DeleteAt(batch[u], k, w))
  <2> SUFFICES ASSUME DeleteAt(tasks[t], i, w), DeleteAt(batch[u], k, w) PROVE FALSE
    OBVIOUS
  <2>1. w \in Values(tasks[t], Deletes) /\ w \in Values(batch[u], Deletes)
    BY <1>4, <1>5
  <2>2. <<"tasks", t>> = <<"batch", u>>
    BY <1>2, <1>3, <2>1, Contents
  <2> QED BY <2>2
<1> QED BY <1>7, <1>8, <1>9

LEMMA InNoHands ==
  ASSUME IInv, CoordInv, NEW w \in Worker, w \notin threads, w \notin Claimed
  PROVE  Hands(w) = {}
<1>0. w # None
  BY DEF Thread
<1>1. \A x \in In(TakenOut) : x[2].thread # w
  BY <1>0, ClaimedIs DEF TakenOut, Claims, DestroyPc, In
<1>2. \A m \in Queued : m.kind = "delete" => m.thread # w
  BY <1>0, ClaimedIs
<1>3. ASSUME NEW t \in Thread, NEW i PROVE ~DeleteAt(tasks[t], i, w) /\ ~DeleteAt(batch[t], i, w)
  <2>1. ~DeleteAt(tasks[t], i, w)
    <3> PICK q : q = tasks[t]
      OBVIOUS
    <3> SUFFICES ASSUME DeleteAt(q, i, w) PROVE FALSE
      OBVIOUS
    <3>1. q[i] \in Queued /\ q[i].kind = "delete" /\ q[i].thread = w
      BY DeleteQueued
    <3> QED BY <1>2, <3>1
  <2>2. ~DeleteAt(batch[t], i, w)
    <3> PICK q : q = batch[t]
      OBVIOUS
    <3> SUFFICES ASSUME DeleteAt(q, i, w) PROVE FALSE
      OBVIOUS
    <3>1. q[i] \in Queued /\ q[i].kind = "delete" /\ q[i].thread = w
      BY DeleteQueued
    <3> QED BY <1>2, <3>1
  <2> QED BY <2>1, <2>2
<1>4. \A y : y \notin Hands(w)
  BY <1>1, <1>3, HandIs
<1> QED BY <1>4

LEMMA InTheList ==
  ASSUME IInv, CoordInv, NEW w \in Worker, w \in threads
  PROVE  Hands(w) = {<<"list", w>>}
<1>1. \A x \in In(TakenOut) : x[2].thread # w
  BY DEF TakenOut, CoordInv, WorkerInv, ClaimInv
<1>2. \A m \in Queued : m.kind = "delete" => m.thread # w
  BY DEF CoordInv, WorkerInv, ClaimInv
<1>3. ASSUME NEW t \in Thread, NEW i PROVE ~DeleteAt(tasks[t], i, w) /\ ~DeleteAt(batch[t], i, w)
  <2>1. ~DeleteAt(tasks[t], i, w)
    <3> PICK q : q = tasks[t]
      OBVIOUS
    <3> SUFFICES ASSUME DeleteAt(q, i, w) PROVE FALSE
      OBVIOUS
    <3>1. q[i] \in Queued /\ q[i].kind = "delete" /\ q[i].thread = w
      BY DeleteQueued
    <3> QED BY <1>2, <3>1
  <2>2. ~DeleteAt(batch[t], i, w)
    <3> PICK q : q = batch[t]
      OBVIOUS
    <3> SUFFICES ASSUME DeleteAt(q, i, w) PROVE FALSE
      OBVIOUS
    <3>1. q[i] \in Queued /\ q[i].kind = "delete" /\ q[i].thread = w
      BY DeleteQueued
    <3> QED BY <1>2, <3>1
  <2> QED BY <2>1, <2>2
<1>4. \A y : y \in Hands(w) <=> y = <<"list", w>>
  BY <1>1, <1>3, HandIs
<1> QED BY <1>4

LEMMA InAFrame ==
  ASSUME IInv, CoordInv, NEW w \in Worker, w \notin threads, NEW x \in In(Claims), x[2].thread = w
  PROVE  \E y : Hands(w) = {y}
<1>1. PICK p \in Thread : \E i \in 1..Len(stack[p]) : x = <<p, stack[p][i]>> /\ stack[p][i].pc \in Claims
  BY InIs
<1>2. PICK i \in 1..Len(stack[p]) : x = <<p, stack[p][i]>> /\ stack[p][i].pc \in Claims
  BY <1>1
<1>3. stack[p][i].thread = w
  BY <1>2
<1>4. /\ \A q \in Thread : \A k \in 1..Len(stack[q]) :
           stack[q][k].pc \in Claims /\ stack[q][k].thread = w => q = p /\ k = i
      /\ \A m \in Queued : m.kind = "delete" => m.thread # w
  BY <1>2, <1>3, ClaimOnce
<1>5. TakenOut \subseteq Claims
  BY DEF TakenOut, Claims, DestroyPc
<1>6. \A z \in In(TakenOut) : z[2].thread = w => z[1] = p
  BY <1>4, <1>5, InIs
<1>7. x \in In(TakenOut) /\ x[1] = p
  <2>1. x \notin In({"erase", "unlist"})
    BY DEF CoordInv, WorkerInv, ClaimInv
  <2> QED BY <1>2, <2>1 DEF In, TakenOut, Claims, DestroyPc
<1>8. ASSUME NEW t \in Thread, NEW k PROVE ~DeleteAt(tasks[t], k, w) /\ ~DeleteAt(batch[t], k, w)
  <2>1. ~DeleteAt(tasks[t], k, w)
    <3> PICK q : q = tasks[t]
      OBVIOUS
    <3> SUFFICES ASSUME DeleteAt(q, k, w) PROVE FALSE
      OBVIOUS
    <3>1. q[k] \in Queued /\ q[k].kind = "delete" /\ q[k].thread = w
      BY DeleteQueued
    <3> QED BY <1>4, <3>1
  <2>2. ~DeleteAt(batch[t], k, w)
    <3> PICK q : q = batch[t]
      OBVIOUS
    <3> SUFFICES ASSUME DeleteAt(q, k, w) PROVE FALSE
      OBVIOUS
    <3>1. q[k] \in Queued /\ q[k].kind = "delete" /\ q[k].thread = w
      BY DeleteQueued
    <3> QED BY <1>4, <3>1
  <2> QED BY <2>1, <2>2
<1>9. \A y : y \in Hands(w) <=> y = <<"frame", p>>
  BY <1>6, <1>7, <1>8, HandIs
<1>10. Hands(w) = {<<"frame", p>>}
  BY <1>9
<1> QED BY <1>10

LEMMA InAQueue ==
  ASSUME IInv, CoordInv, NEW w \in Worker, w \notin threads, NEW m \in Queued, m.kind = "delete", m.thread = w
  PROVE  \E y : Hands(w) = {y}
<1>0. w # None
  BY DEF Thread
<1>1. \A x \in In(TakenOut) : x[2].thread # w
  <2> SUFFICES ASSUME NEW x \in In(TakenOut), x[2].thread = w PROVE FALSE
    OBVIOUS
  <2>1. PICK p \in Thread : \E i \in 1..Len(stack[p]) : x = <<p, stack[p][i]>> /\ stack[p][i].pc \in TakenOut
    BY InIs
  <2>2. PICK i \in 1..Len(stack[p]) : x = <<p, stack[p][i]>> /\ stack[p][i].pc \in TakenOut
    BY <2>1
  <2>3. stack[p][i].thread = w /\ stack[p][i].pc \in Claims
    BY <2>2 DEF TakenOut, Claims, DestroyPc
  <2> QED BY <2>3, ClaimOnce
<1>2. PICK t \in Thread : m \in ToSet(tasks[t]) \/ m \in ToSet(batch[t])
  BY DEF Queued
<1>3. tasks[t] \in Seq(MessageSet) /\ batch[t] \in Seq(MessageSet)
  BY DEF IInv, TypeOK, QueueType
<1>4. CASE m \in ToSet(tasks[t])
  <2>1. PICK i \in 1..Len(tasks[t]) : m = tasks[t][i]
    BY <1>3, <1>4 DEF ToSet
  <2>2. DeleteAt(tasks[t], i, w)
    BY <2>1 DEF DeleteAt
  <2>3. \A u \in Thread : \A k : (DeleteAt(tasks[u], k, w) => u = t /\ k = i) /\ ~DeleteAt(batch[u], k, w)
    BY <1>0, <2>2, DeleteOnce
  <2>4. <<"tasks", t, i>> \in Hands(w)
    BY <2>1, <2>2, HandIs
  <2>5. ASSUME NEW y \in Hands(w) PROVE y = <<"tasks", t, i>>
    <3>1. \/ \E u \in Thread : \E k \in 1..Len(tasks[u]) : DeleteAt(tasks[u], k, w) /\ y = <<"tasks", u, k>>
          \/ \E u \in Thread : \E k \in 1..Len(batch[u]) : DeleteAt(batch[u], k, w) /\ y = <<"batch", u, k>>
      BY <1>1, HandIs
    <3> QED BY <2>3, <3>1
  <2>6. Hands(w) = {<<"tasks", t, i>>}
    BY <2>4, <2>5
  <2> QED BY <2>6
<1>5. CASE m \in ToSet(batch[t])
  <2>1. PICK i \in 1..Len(batch[t]) : m = batch[t][i]
    BY <1>3, <1>5 DEF ToSet
  <2>2. DeleteAt(batch[t], i, w)
    BY <2>1 DEF DeleteAt
  <2>3. \A u \in Thread : \A k : (DeleteAt(batch[u], k, w) => u = t /\ k = i) /\ ~DeleteAt(tasks[u], k, w)
    BY <1>0, <2>2, DeleteOnce
  <2>4. <<"batch", t, i>> \in Hands(w)
    BY <2>1, <2>2, HandIs
  <2>5. ASSUME NEW y \in Hands(w) PROVE y = <<"batch", t, i>>
    <3>1. \/ \E u \in Thread : \E k \in 1..Len(tasks[u]) : DeleteAt(tasks[u], k, w) /\ y = <<"tasks", u, k>>
          \/ \E u \in Thread : \E k \in 1..Len(batch[u]) : DeleteAt(batch[u], k, w) /\ y = <<"batch", u, k>>
      BY <1>1, HandIs
    <3> QED BY <2>3, <3>1
  <2>6. Hands(w) = {<<"batch", t, i>>}
    BY <2>4, <2>5
  <2> QED BY <2>6
<1> QED BY <1>2, <1>4, <1>5

\* With users that keep to the rules every worker is in one pair of hands until
\* it is deleted: threads_, the call that destroys it, or the message to Main;
\* and no more work threads are made than workThreadsSize_, all of them threads.
THEOREM WorkersOwnedOnce == "uncoordinated" \notin Calls => (Spec => []OwnedOnce)
<1> SUFFICES ASSUME Coordinated PROVE Spec => []OwnedOnce
  BY DEF Coordinated, Uncoordinated
<1>1. IInv /\ CoordInv => OwnedOnce
  <2> SUFFICES ASSUME IInv, CoordInv PROVE OwnedOnce
    OBVIOUS
  <2>1. ASSUME NEW w \in Worker
        PROVE  Cardinality(Hands(w)) = IF phase[w] \in {"none", "deleted"} THEN 0 ELSE 1
    <3>1. phase[w] \notin {"none", "deleted"} <=> w \in threads \/ w \in Claimed
      BY DEF CoordInv, WorkerInv, ClaimInv
    <3>2. CASE w \in threads
      BY <3>1, <3>2, InTheList, FS_Singleton
    <3>3. CASE w \notin threads /\ w \notin Claimed
      BY <3>1, <3>3, InNoHands, FS_EmptySet
    <3>4. CASE w \notin threads /\ w \in Claimed
      <4>1. \/ \E x \in In(Claims) : x[2].thread = w
            \/ \E m \in Queued : m.kind = "delete" /\ m.thread = w
        BY <3>4, ClaimedIs DEF Thread
      <4>2. \E y : Hands(w) = {y}
        BY <3>4, <4>1, InAFrame, InAQueue
      <4> QED BY <3>1, <3>4, <4>2, FS_Singleton
    <3> QED BY <3>2, <3>3, <3>4
  <2> QED BY <2>1 DEF OwnedOnce, CoordInv, WorkerInv, WorkInv
<1> QED BY <1>1, CoordInvariant, PTL

\* With users that keep to the rules nothing that will still be used has been
\* deleted: the threads of both lists, of a call and of a queued deletion, and
\* those a job returns its result to.
THEOREM UsedStaysAlive == "uncoordinated" \notin Calls => (Spec => []UsedIsAlive)
<1> SUFFICES ASSUME Coordinated PROVE Spec => []UsedIsAlive
  BY DEF Coordinated, Uncoordinated
<1>1. IInv /\ CoordInv => UsedIsAlive
  <2> SUFFICES ASSUME IInv, CoordInv, NEW t \in Used PROVE t # None /\ phase[t] \notin {"none", "deleted"}
    BY DEF UsedIsAlive
  <2>1. \A w \in Worker : w \in threads \cup Claimed => w # None /\ phase[w] \notin {"none", "deleted"}
    BY DEF CoordInv, WorkerInv, ClaimInv, Thread
  <2>2. threads \subseteq Worker
    BY DEF IInv, TypeOK, PoolType
  <2>3. CASE t \in threads \/ t \in ToSet(workThreads)
    BY <2>1, <2>2, <2>3 DEF CoordInv, WorkerInv, WorkInv
  <2>4. CASE \E x \in In(OpPc \ {"get", "quit"}) : x[2].thread = t
    <3>1. PICK x \in In(OpPc \ {"get", "quit"}) : x[2].thread = t
      BY <2>4
    <3>2. x[2].pc \in {"start", "post"} \/ x[2].pc \in Claims
      BY InFrame DEF OpPc, AskPc, Claims
    <3>3. x[2] \in FrameSet
      BY InFrame
    <3>4. CASE x[2].pc \in {"start", "post"}
      <4>1. x \in In({"start", "post"})
        BY <3>4 DEF In
      <4> QED BY <2>1, <2>2, <3>1, <4>1 DEF CoordInv, WorkerInv, UseInv
    <3>5. CASE x[2].pc \in Claims
      <4>1. x \in In(Claims)
        BY <3>5 DEF In
      <4>2. t \in Worker /\ t # None
        BY <3>1, <3>3, <3>5, ClaimOf
      <4>3. t \in Claimed
        BY <3>1, <4>1, <4>2, ClaimedIs
      <4> QED BY <2>1, <4>2, <4>3
    <3> QED BY <3>2, <3>4, <3>5
  <2>5. CASE \E m \in Queued : m.kind = "delete" /\ m.thread = t
    <3>1. t \in Worker /\ t # None
      BY <2>5, QueuedIs DEF Thread
    <3>2. t \in Claimed
      BY <2>5, <3>1, ClaimedIs
    <3> QED BY <2>1, <3>1, <3>2
  <2>6. CASE t \in Worker /\ Owed(t)
    <3>1. t \in threads
      BY <2>6 DEF CoordInv, WorkerInv, OwedInv
    <3> QED BY <2>1, <2>2, <3>1
  <2> QED BY <2>3, <2>4, <2>5, <2>6 DEF Used
<1> QED BY <1>1, CoordInvariant, PTL
=============================================================================

------------------------- MODULE Replication_proofs -------------------------
(***************************************************************************)
(* Proofs about Replication, for any number and size of rings and whatever  *)
(* is repeated, late or lost: what a client holds are the server's items at *)
(* their indexes (ItemsInPlace), it misses none (SameItems), and it throws  *)
(* its items away only for the reasons NotThrownAway gives.  What append()  *)
(* makes of the items of an answer is proved over the rings after each of   *)
(* them: were one wrong, one would be the first (LeastNatural, UpTo).       *)
(***************************************************************************)
EXTENDS Replication, SequenceTheorems, WellFoundedInduction, TLAPS

USE ReplicationAssumption DEF ReplicationAssumption

(***************************************************************************)
(* Natural numbers: the least of a set, and remainders.                     *)
(***************************************************************************)
LEMMA LeastNatural ==
  ASSUME NEW T, T \subseteq Nat, T # {}
  PROVE  \E m \in T : \A k \in T : m <= k
<1>1. PICK R : R = OpToRel(<, Nat) /\ IsWellFoundedOn(R, Nat)
  BY NatLessThanWellFounded
<1>2. R = {ss \in Nat \X Nat : ss[1] < ss[2]}
  BY <1>1 DEF OpToRel
<1>3. PICK m \in T : \A k \in T : ~(<<k, m>> \in R)
  BY <1>1, WFMin
<1>4. \A k \in T : ~(k < m)
  <2> SUFFICES ASSUME NEW k \in T, k < m PROVE FALSE
    OBVIOUS
  <2>1. <<k, m>> \in Nat \X Nat
    OBVIOUS
  <2> QED BY <1>2, <1>3, <2>1
<1> QED BY <1>4

\* What holds of 0 and of each next number up to N holds up to N.
LEMMA UpTo ==
  ASSUME NEW N \in Nat, NEW T, 0 \in T, \A k \in 1..N : k - 1 \in T => k \in T
  PROVE  0..N \subseteq T
<1> SUFFICES ASSUME 0..N \ T # {} PROVE FALSE
  OBVIOUS
<1> DEFINE D == 0..N \ T
<1>0. D # {} /\ D \subseteq Nat /\ \A k : k \in D <=> k \in 0..N /\ k \notin T
  OBVIOUS
<1> HIDE DEF D
<1>1. PICK m \in D : \A k \in D : m <= k
  BY <1>0, LeastNatural
<1>2. m # 0 /\ m \in 1..N
  BY <1>0, <1>1
<1>3. m - 1 \in 0..N /\ ~(m <= m - 1)
  BY <1>2
<1>4. m - 1 \in T
  BY <1>0, <1>1, <1>3
<1> QED BY <1>0, <1>1, <1>2, <1>4

\* Two indexes less than a ring apart have different slots.
LEMMA SlotsApart ==
  ASSUME NEW size \in Nat \ {0}, NEW i \in Int, NEW j \in Int, j < i, i - j < size
  PROVE  i % size # j % size
<1> DEFINE p == i \div size
           q == j \div size
<1>1. i = size * p + (i % size) /\ j = size * q + (j % size)
  OBVIOUS
<1>2. p \in Int /\ q \in Int /\ i % size \in Int
  OBVIOUS
<1>3. SUFFICES ASSUME i % size = j % size PROVE FALSE
  OBVIOUS
<1> HIDE DEF p, q
<1>4. i - j = size * (p - q)
  <2>1. i - j = size * p - size * q
    BY <1>1, <1>2, <1>3
  <2>2. size * p - size * q = size * (p - q)
    BY <1>2
  <2> QED BY <2>1, <2>2
<1>5. CASE p - q <= 0
  <2>1. size * (p - q) <= 0
    BY <1>5, <1>2
  <2> QED BY <2>1, <1>4
<1>6. CASE p - q >= 1
  <2>1. size * (p - q) >= size
    BY <1>6, <1>2
  <2> QED BY <2>1, <1>4, <1>2
<1> QED BY <1>5, <1>6, <1>2

\* An index and the one a ring before it share a slot.
LEMMA SlotShared ==
  ASSUME NEW size \in Nat \ {0}, NEW i \in Int
  PROVE  (i + size) % size = i % size
<1> DEFINE p == i \div size
           q == (i + size) \div size
           a == i % size
           b == (i + size) % size
<1>1. i = size * p + a /\ i + size = size * q + b
  OBVIOUS
<1>2. p \in Int /\ q \in Int /\ a \in 0..(size - 1) /\ b \in 0..(size - 1)
  OBVIOUS
<1> HIDE DEF p, q, a, b
<1> DEFINE d == q - p - 1
<1>3. a - b = size * d
  <2>1. a - b = size * q - size * p - size
    BY <1>1, <1>2
  <2>2. size * q - size * p - size = size * d
    BY <1>2
  <2> QED BY <2>1, <2>2
<1>4. d \in Int
  BY <1>2
<1> HIDE DEF d
<1>5. CASE d >= 1
  <2>1. size * d >= size
    BY <1>5, <1>4
  <2> QED BY <2>1, <1>3, <1>2
<1>6. CASE d <= -1
  <2>1. size * d <= -size
    BY <1>6, <1>4
  <2> QED BY <2>1, <1>3, <1>2
<1>7. CASE d = 0
  <2>1. a = b
    BY <1>2, <1>3, <1>7
  <2> QED BY <2>1 DEF a, b
<1> QED BY <1>4, <1>5, <1>6, <1>7

(***************************************************************************)
(* append() on the rings of both ends.                                      *)
(***************************************************************************)
\* q is r with d at index pos: what was between is cleared.
Appends(size, r, q, pos, d) ==
  /\ q.last = pos
  /\ q.data[pos % size] = d
  /\ \A i \in Window(pos, size) : i # pos =>
       q.data[i % size] = IF i <= r.last THEN r.data[i % size] ELSE None

LEMMA RingAppends ==
  ASSUME NEW size \in Nat \ {0}, NEW r, r.last \in Nat, NEW pos \in Nat, r.last < pos, NEW d,
         NEW step, step = IF pos - r.last < size THEN pos - r.last ELSE size,
         NEW skipped, skipped = {(pos - k) % size : k \in 1..(step - 1)},
         NEW q, q.last = pos,
         \A s \in 0..(size - 1) :
           q.data[s] = IF s = pos % size THEN d ELSE IF s \in skipped THEN None ELSE r.data[s]
  PROVE  Appends(size, r, q, pos, d)
<1>1. \A i \in Int : i % size \in 0..(size - 1)
  OBVIOUS
<1>2. q.data[pos % size] = d
  BY <1>1
<1>3. step \in 1..size /\ step <= pos - r.last /\ (step = pos - r.last \/ step = size)
  OBVIOUS
<1>4. ASSUME NEW i \in Window(pos, size), i # pos
      PROVE  q.data[i % size] = IF i <= r.last THEN r.data[i % size] ELSE None
  <2>1. i \in Int /\ i < pos /\ pos - i < size
    BY <1>4 DEF Window
  <2>2. i % size # pos % size /\ i % size \in 0..(size - 1)
    <3>1. pos % size # i % size
      BY <2>1, SlotsApart
    <3> QED BY <1>1, <2>1, <3>1
  <2>3. CASE i <= r.last
    <3>1. ASSUME NEW k \in 1..(step - 1) PROVE (pos - k) % size # i % size
      <4>1. pos - k \in Int /\ i < pos - k /\ (pos - k) - i < size
        BY <1>3, <2>1, <2>3
      <4> QED BY <2>1, <4>1, SlotsApart
    <3>2. i % size \notin skipped
      BY <3>1
    <3> QED BY <2>2, <2>3, <3>2
  <2>4. CASE ~(i <= r.last)
    <3>1. pos - i \in 1..(step - 1) /\ pos - (pos - i) = i
      BY <1>3, <2>1, <2>4
    <3>2. i % size \in skipped
      BY <3>1
    <3> QED BY <2>2, <2>4, <3>2
  <2> QED BY <2>3, <2>4
<1> QED BY <1>2, <1>4 DEF Appends

LEMMA ServerAppended ==
  ASSUME NEW r, r.last \in Nat, NEW pos \in Nat, r.last < pos, NEW d
  PROVE  Appends(ServerSize, r, S!Appended(r, pos, d), pos, d)
<1>1. PICK step, skipped : /\ step = IF pos - r.last < ServerSize THEN pos - r.last ELSE ServerSize
                           /\ skipped = {(pos - k) % ServerSize : k \in 1..(step - 1)}
  OBVIOUS
<1>2. step = S!Step(r, pos) /\ ~(step <= 0)
  BY <1>1 DEF S!Step, S!Least
<1>3. skipped = S!Skipped(r, pos)
  BY <1>1, <1>2 DEF S!Skipped, S!Slot
<1>4. PICK q : q = S!Appended(r, pos, d)
  OBVIOUS
<1>5. q.last = pos /\ ServerSize \in Nat \ {0}
  BY <1>4 DEF S!Appended
<1>6. \A s \in 0..(ServerSize - 1) :
        q.data[s] = IF s = pos % ServerSize THEN d ELSE IF s \in skipped THEN None ELSE r.data[s]
  BY <1>2, <1>3, <1>4 DEF S!Appended, S!Slots, S!Slot
<1>7. Appends(ServerSize, r, q, pos, d)
  BY <1>1, <1>5, <1>6, RingAppends, Zenon
<1> QED BY <1>4, <1>7

LEMMA ClientAppended ==
  ASSUME NEW r, r.last \in Nat, NEW pos \in Nat, r.last < pos, NEW d
  PROVE  Appends(ClientSize, r, C!Appended(r, pos, d), pos, d)
<1>1. PICK step, skipped : /\ step = IF pos - r.last < ClientSize THEN pos - r.last ELSE ClientSize
                           /\ skipped = {(pos - k) % ClientSize : k \in 1..(step - 1)}
  OBVIOUS
<1>2. step = C!Step(r, pos) /\ ~(step <= 0)
  BY <1>1 DEF C!Step, C!Least
<1>3. skipped = C!Skipped(r, pos)
  BY <1>1, <1>2 DEF C!Skipped, C!Slot
<1>4. PICK q : q = C!Appended(r, pos, d)
  OBVIOUS
<1>5. q.last = pos /\ ClientSize \in Nat \ {0}
  BY <1>4 DEF C!Appended
<1>6. \A s \in 0..(ClientSize - 1) :
        q.data[s] = IF s = pos % ClientSize THEN d ELSE IF s \in skipped THEN None ELSE r.data[s]
  BY <1>2, <1>3, <1>4 DEF C!Appended, C!Slots, C!Slot
<1>7. Appends(ClientSize, r, q, pos, d)
  BY <1>1, <1>5, <1>6, RingAppends, Zenon
<1> QED BY <1>4, <1>7

(***************************************************************************)
(* The items of an answer, appended one by one.                             *)
(***************************************************************************)
\* The ring after the k-th, when it was r after the one before.
NextRing(r, list, val, k) ==
  LET pos == val - Len(list) + k
  IN IF pos > r.last THEN C!Appended(r, pos, list[k]) ELSE r
\* The first n rings of AppendAll.
FirstRings(g, ring, list, val, n) ==
  g = [k \in 0..n |-> IF k = 0 THEN ring ELSE NextRing(g[k - 1], list, val, k)]

LEMMA RingsExist ==
  ASSUME NEW ring, NEW list, NEW val, NEW N \in Nat
  PROVE  \E g : FirstRings(g, ring, list, val, N)
<1> DEFINE T == {k \in 0..N : \E g : FirstRings(g, ring, list, val, k)}
<1>1. 0 \in T
  <2>1. PICK g : g = [k \in 0..0 |-> ring]
    OBVIOUS
  <2>2. FirstRings(g, ring, list, val, 0)
    BY <2>1 DEF FirstRings
  <2> QED BY <2>2
<1>2. ASSUME NEW k \in 1..N, k - 1 \in T PROVE k \in T
  <2>1. PICK h : FirstRings(h, ring, list, val, k - 1)
    BY <1>2
  <2>2. PICK g : g = [j \in 0..k |-> IF j < k THEN h[j] ELSE NextRing(h[k - 1], list, val, k)]
    OBVIOUS
  <2>3. h = [j \in 0..(k - 1) |-> IF j = 0 THEN ring ELSE NextRing(h[j - 1], list, val, j)]
    BY <2>1 DEF FirstRings
  <2>4. \A j \in 0..k : g[j] = IF j = 0 THEN ring ELSE NextRing(g[j - 1], list, val, j)
    <3> SUFFICES ASSUME NEW j \in 0..k PROVE g[j] = IF j = 0 THEN ring ELSE NextRing(g[j - 1], list, val, j)
      OBVIOUS
    <3>1. CASE j = k
      <4>1. g[j] = NextRing(h[k - 1], list, val, k) /\ g[k - 1] = h[k - 1] /\ j # 0
        BY <2>2, <3>1
      <4> QED BY <3>1, <4>1
    <3>2. CASE j = 0
      BY <2>2, <2>3, <3>2
    <3>3. CASE j # k /\ j # 0
      <4>1. j \in 0..(k - 1) /\ j - 1 \in 0..k /\ j < k /\ j - 1 < k
        BY <3>3
      <4>2. g[j] = h[j] /\ g[j - 1] = h[j - 1]
        BY <2>2, <4>1
      <4>3. h[j] = NextRing(h[j - 1], list, val, j)
        BY <2>3, <3>3, <4>1
      <4> QED BY <3>3, <4>2, <4>3
    <3> QED BY <3>1, <3>2, <3>3
  <2>5. FirstRings(g, ring, list, val, k)
    BY <2>2, <2>4 DEF FirstRings
  <2> QED BY <2>5
<1>3. 0..N \subseteq T
  <2> HIDE DEF T
  <2> QED BY <1>1, <1>2, UpTo
<1> QED BY <1>3

LEMMA AppendAllRings ==
  ASSUME NEW ring, NEW list, NEW val, Len(list) \in Nat
  PROVE  \E g : FirstRings(g, ring, list, val, Len(list)) /\ AppendAll(ring, list, val) = g[Len(list)]
<1>1. PICK g : g = CHOOSE after : FirstRings(after, ring, list, val, Len(list))
  OBVIOUS
<1>2. FirstRings(g, ring, list, val, Len(list))
  BY <1>1, RingsExist
<1>3. AppendAll(ring, list, val) = g[Len(list)]
  BY <1>1, Zenon DEF AppendAll, FirstRings, NextRing
<1> QED BY <1>2, <1>3

\* q is r with the first k items of an answer that ends at val.
Filled(r, q, list, val, k) ==
  LET f == val - Len(list)
  IN /\ q.last = IF k = 0 \/ f + k <= r.last THEN r.last ELSE f + k
     /\ \A i \in Window(q.last, ClientSize) :
          q.data[i % ClientSize] =
            IF i <= r.last THEN r.data[i % ClientSize] ELSE IF i > f THEN list[i - f] ELSE None

LEMMA FilledNext ==
  ASSUME NEW r, r.last \in Nat, NEW list, Len(list) \in Nat, NEW val \in Nat, Len(list) <= val,
         NEW k \in 1..Len(list), NEW q, Filled(r, q, list, val, k - 1)
  PROVE  Filled(r, NextRing(q, list, val, k), list, val, k)
<1>1. PICK f \in Nat : f = val - Len(list)
  OBVIOUS
<1>2. PICK pos \in Nat : pos = f + k /\ pos > 0 /\ pos > f /\ pos - f = k
  OBVIOUS
<1>3. /\ q.last = IF k - 1 = 0 \/ f + (k - 1) <= r.last THEN r.last ELSE f + (k - 1)
      /\ \A i \in Window(q.last, ClientSize) :
           q.data[i % ClientSize] =
             IF i <= r.last THEN r.data[i % ClientSize] ELSE IF i > f THEN list[i - f] ELSE None
  BY <1>1 DEF Filled
<1>4. q.last \in Nat /\ r.last <= q.last
  BY <1>3
<1>5. PICK s : s = NextRing(q, list, val, k)
  OBVIOUS
<1>6. s = IF pos > q.last THEN C!Appended(q, pos, list[k]) ELSE q
  BY <1>1, <1>2, <1>5 DEF NextRing
<1>7. CASE pos > q.last
  <2>1. Appends(ClientSize, q, s, pos, list[k])
    BY <1>4, <1>6, <1>7, ClientAppended
  <2>2. s.last = pos /\ s.last = IF k = 0 \/ f + k <= r.last THEN r.last ELSE f + k
    <3>1. s.last = pos
      BY <2>1 DEF Appends
    <3>2. ~(pos <= r.last)
      BY <1>2, <1>4, <1>7
    <3> QED BY <1>2, <3>1, <3>2
  <2>3. ASSUME NEW i \in Window(pos, ClientSize)
        PROVE  s.data[i % ClientSize] =
                 IF i <= r.last THEN r.data[i % ClientSize] ELSE IF i > f THEN list[i - f] ELSE None
    <3>1. i \in Nat /\ i > 0 /\ i <= pos /\ pos - i < ClientSize
      BY <2>3 DEF Window
    <3>2. CASE i = pos
      <4>1. s.data[i % ClientSize] = list[k]
        BY <2>1, <3>2 DEF Appends
      <4>2. ~(i <= r.last) /\ i > f /\ i - f = k
        BY <1>2, <1>4, <1>7, <3>2
      <4> QED BY <4>1, <4>2
    <3>3. CASE i # pos /\ i <= q.last
      <4>1. s.data[i % ClientSize] = q.data[i % ClientSize]
        BY <2>1, <2>3, <3>3 DEF Appends
      <4>2. i \in Window(q.last, ClientSize)
        BY <1>4, <1>7, <3>1, <3>3 DEF Window
      <4> QED BY <1>3, <4>1, <4>2
    <3>4. CASE i # pos /\ ~(i <= q.last)
      <4>1. s.data[i % ClientSize] = None
        BY <2>1, <2>3, <3>4 DEF Appends
      <4>2. ~(i <= r.last) /\ ~(i > f)
        BY <1>2, <1>3, <1>4, <3>1, <3>4
      <4> QED BY <4>1, <4>2
    <3> QED BY <3>2, <3>3, <3>4
  <2> QED BY <1>1, <1>5, <2>2, <2>3 DEF Filled
<1>8. CASE ~(pos > q.last)
  <2>1. s = q
    BY <1>6, <1>8
  <2>2. q.last = r.last /\ f + k <= r.last
    BY <1>2, <1>3, <1>4, <1>8
  <2> QED BY <1>1, <1>3, <1>5, <2>1, <2>2 DEF Filled
<1> QED BY <1>7, <1>8

LEMMA AppendAllFills ==
  ASSUME NEW r, r.last \in Nat, NEW list, Len(list) \in Nat, NEW val \in Nat, Len(list) <= val
  PROVE  Filled(r, AppendAll(r, list, val), list, val, Len(list))
<1>1. PICK N \in Nat : N = Len(list)
  OBVIOUS
<1>2. PICK g : FirstRings(g, r, list, val, N) /\ AppendAll(r, list, val) = g[N]
  BY <1>1, AppendAllRings
<1> DEFINE T == {k \in 0..N : Filled(r, g[k], list, val, k)}
<1>3. \A k \in 0..N : g[k] = IF k = 0 THEN r ELSE NextRing(g[k - 1], list, val, k)
  BY <1>2 DEF FirstRings
<1>4. 0 \in T
  <2>1. g[0] = r
    BY <1>3
  <2>2. Filled(r, r, list, val, 0)
    BY DEF Filled, Window
  <2> QED BY <2>1, <2>2
<1>5. ASSUME NEW k \in 1..N, k - 1 \in T PROVE k \in T
  <2>1. PICK q : q = g[k - 1] /\ Filled(r, q, list, val, k - 1)
    BY <1>5
  <2>2. k \in 0..N /\ g[k] = NextRing(q, list, val, k)
    BY <1>3, <2>1
  <2>3. Filled(r, NextRing(q, list, val, k), list, val, k)
    BY <1>1, <2>1, FilledNext
  <2> QED BY <2>2, <2>3
<1>6. 0..N \subseteq T
  <2> HIDE DEF T
  <2> QED BY <1>4, <1>5, UpTo
<1> QED BY <1>1, <1>2, <1>6

(***************************************************************************)
(* The invariant.                                                           *)
(***************************************************************************)
ItemSet == {None} \cup (Nat \X Nat)
RequestSet == [ring : Ring, index : Nat \ {0}]
AnswerSet ==
  [ring : Ring, val : Nat, list : Seq(ItemSet), last : Nat, epoch : Nat, overwritten : BOOLEAN]

TypeInv ==
  /\ server = [n \in Ring |-> server[n]] /\ client = [n \in Ring |-> client[n]]
  /\ \A n \in Ring : server[n].last \in Nat /\ client[n].last \in Nat
  /\ lastTime \in [Ring -> Nat] /\ epoch \in [Ring -> Nat] /\ noticed \in [Ring -> Nat]
  /\ overtaken \in [Ring -> BOOLEAN] /\ crossed \in [Ring -> BOOLEAN]
  /\ requests \in Seq(RequestSet) /\ answers \in Seq(AnswerSet)

\* The server has the items of its epoch.
ServerInv == \A n \in Ring : \A i \in ServerWindow(n) : ServerItem(n, i) \in {None, <<epoch[n], i>>}

\* The items of epoch e that may be taken for the one of index i.
Of(e, i) == {None, <<e, i>>, <<e, i + ServerSize>>}
\* An answer is a part of the timeline of its epoch, and begins behind Start.
Start(a) == a.val - Len(a.list)
Part(a) ==
  /\ Len(a.list) <= a.val /\ a.epoch <= epoch[a.ring]
  /\ \A k \in 1..Len(a.list) : a.list[k] \in Of(a.epoch, Start(a) + k)
\* If the epoch still goes on, it is what the server has, but for what was overwritten since.
Now(a) ==
  a.epoch = epoch[a.ring] =>
    /\ a.val <= a.last /\ a.last <= server[a.ring].last
    /\ \A k \in 1..Len(a.list) :
         Start(a) + k \in ServerWindow(a.ring) => a.list[k] = ServerItem(a.ring, Start(a) + k)
AnswersInv == \A a \in Range(answers) : Part(a) /\ Now(a)

\* Nothing is left out by a request, nor by an answer but for what was overwritten.
Index(n) ==
  /\ \A q \in Range(requests) : q.ring = n => q.index <= lastTime[n] + 1
  /\ \A a \in Range(answers) : a.ring = n /\ a.list # <<>> =>
       Start(a) <= lastTime[n] \/ Start(a) + ServerSize <= a.last
\* The client is not ahead; what it left out when it began again is no longer of interest.
Recent(n) == ServerWindow(n) \cap Window(server[n].last, ClientSize)
Gap(n) ==
  /\ lastTime[n] <= server[n].last
  /\ \A i \in Recent(n) : ~(client[n].last < i /\ i <= lastTime[n])
Placed(n) == \A i \in ClientWindow(n) : ClientItem(n, i) \in Of(noticed[n], i)
Known(n) ==
  /\ client[n].last <= lastTime[n] /\ noticed[n] <= epoch[n]
  /\ ~overtaken[n] => Placed(n)
  /\ ~crossed[n] => Index(n)
  /\ ~overtaken[n] /\ noticed[n] = epoch[n] => Gap(n) /\ (~crossed[n] => Agree(n))
KnownInv == \A n \in Ring : Known(n)

IInv == TypeInv /\ ServerInv /\ AnswersInv /\ KnownInv

(***************************************************************************)
(* The messages.                                                            *)
(***************************************************************************)
LEMMA RangeOfMessages ==
  ASSUME NEW T, NEW s \in Seq(T)
  PROVE  Range(s) \subseteq T /\ \A e : e \in Range(s) <=> \E i \in 1..Len(s) : s[i] = e
BY DEF Range

LEMMA RangeOfAppend ==
  ASSUME NEW T, NEW s \in Seq(T), NEW e \in T
  PROVE  Append(s, e) \in Seq(T) /\ \A x \in Range(Append(s, e)) : x \in Range(s) \/ x = e
<1>1. Append(s, e) \in Seq(T) /\ Len(Append(s, e)) = Len(s) + 1
  OBVIOUS
<1>2. ASSUME NEW x \in Range(Append(s, e)) PROVE x \in Range(s) \/ x = e
  <2>1. PICK i \in 1..(Len(s) + 1) : Append(s, e)[i] = x
    BY <1>1, <1>2, RangeOfMessages
  <2>2. x = IF i <= Len(s) THEN s[i] ELSE e
    BY <2>1
  <2> QED BY <2>1, <2>2, RangeOfMessages
<1> QED BY <1>1, <1>2

LEMMA RangeOfTail ==
  ASSUME NEW T, NEW s \in Seq(T), s # <<>>
  PROVE  /\ Head(s) \in T /\ Head(s) \in Range(s)
         /\ Tail(s) \in Seq(T) /\ \A x \in Range(Tail(s)) : x \in Range(s)
<1>1. Head(s) \in T /\ Tail(s) \in Seq(T) /\ Len(s) \in Nat \ {0} /\ Head(s) = s[1]
  OBVIOUS
<1>2. ASSUME NEW x \in Range(Tail(s)) PROVE x \in Range(s)
  <2>0. PICK u \in Seq(T) : u = Tail(s)
    BY <1>1
  <2>1. PICK i \in 1..Len(u) : u[i] = x
    BY <1>2, <2>0, RangeOfMessages
  <2>2. i + 1 \in 1..Len(s) /\ s[i + 1] = x
    BY <1>1, <2>0, <2>1, HeadTailProperties
  <2> QED BY <2>2, RangeOfMessages
<1>3. 1 \in 1..Len(s)
  BY <1>1
<1> QED BY <1>1, <1>2, <1>3, RangeOfMessages

LEMMA RangeOfConcat ==
  ASSUME NEW T, NEW s \in Seq(T), NEW t \in Seq(T)
  PROVE  s \o t \in Seq(T) /\ \A x \in Range(s \o t) : x \in Range(s) \/ x \in Range(t)
<1>1. s \o t \in Seq(T) /\ Len(s \o t) = Len(s) + Len(t) /\ Len(s) \in Nat /\ Len(t) \in Nat
  OBVIOUS
<1>2. ASSUME NEW x \in Range(s \o t) PROVE x \in Range(s) \/ x \in Range(t)
  <2>1. PICK i \in 1..(Len(s) + Len(t)) : (s \o t)[i] = x
    BY <1>1, <1>2, RangeOfMessages
  <2>2. x = IF i <= Len(s) THEN s[i] ELSE t[i - Len(s)]
    BY <2>1
  <2>3. CASE i <= Len(s)
    <3>1. i \in 1..Len(s) /\ s[i] = x
      BY <2>1, <2>2, <2>3, <1>1
    <3> QED BY <3>1, RangeOfMessages
  <2>4. CASE ~(i <= Len(s))
    <3>1. i - Len(s) \in 1..Len(t) /\ t[i - Len(s)] = x
      BY <2>1, <2>2, <2>4, <1>1
    <3> QED BY <3>1, RangeOfMessages
  <2> QED BY <2>3, <2>4
<1> QED BY <1>1, <1>2

\* The requests for all rings.
LEMMA RequestAllFacts ==
  ASSUME TypeInv
  PROVE  /\ RequestAll \in Seq(RequestSet)
         /\ \A q \in Range(RequestAll) : q \in Range(requests) \/ q.index = lastTime[q.ring] + 1
<1>1. PICK t : t = [n \in Ring |-> Request(n)]
  OBVIOUS
<1>2. \A n \in Ring : Request(n) \in RequestSet
  BY DEF TypeInv, Request, RequestSet
<1>3. t \in Seq(RequestSet) /\ Len(t) = Rings
  BY <1>1, <1>2 DEF Ring
<1>4. RequestAll = requests \o t
  BY <1>1 DEF RequestAll
<1>5. \A q \in Range(t) : q.index = lastTime[q.ring] + 1
  <2> SUFFICES ASSUME NEW q \in Range(t) PROVE q.index = lastTime[q.ring] + 1
    OBVIOUS
  <2>1. PICK i \in 1..Len(t) : t[i] = q
    BY <1>3, RangeOfMessages
  <2>2. i \in Ring /\ q = Request(i)
    BY <1>1, <1>3, <2>1 DEF Ring
  <2> QED BY <2>2 DEF Request
<1>6. requests \in Seq(RequestSet)
  BY DEF TypeInv
<1> QED BY <1>3, <1>4, <1>5, <1>6, RangeOfConcat

(***************************************************************************)
(* What is in an answer.                                                    *)
(***************************************************************************)
LEMMA AnswerFacts ==
  ASSUME TypeInv, ServerInv, NEW q \in RequestSet, NEW a, a = Answer(q)
  PROVE  /\ a \in AnswerSet /\ a.ring = q.ring /\ Part(a) /\ Now(a)
         /\ a.list # <<>> => Start(a) = q.index - 1 \/ Start(a) + ServerSize = a.last
<1>1. PICK n, v : n = q.ring /\ v = q.index /\ n \in Ring /\ v \in Nat \ {0}
  BY DEF RequestSet
<1>2. PICK r, e : r = server[n] /\ e = epoch[n] /\ r.last \in Nat /\ e \in Nat
  <2>1. server[n].last \in Nat
    BY <1>1 DEF TypeInv
  <2>2. epoch[n] \in Nat
    BY <1>1 DEF TypeInv
  <2> QED BY <2>1, <2>2
<1>3. PICK z \in Nat : z = r.last
  BY <1>2
<1>4. PICK read : read = S!Extract(r, v, TransmitCount)
  OBVIOUS
<1>5. a = [ring |-> n, val |-> read.last, list |-> read.items, last |-> z, epoch |-> e,
           overwritten |-> z - v >= ServerSize]
  BY <1>1, <1>2, <1>3, <1>4 DEF Answer
<1>6. /\ a.ring = n /\ a.val = read.last /\ a.list = read.items /\ a.last = z /\ a.epoch = e
      /\ a.overwritten \in BOOLEAN
  BY <1>5
<1>7. \A i \in Nat : i > 0 /\ i <= z /\ z - i < ServerSize =>
        r.data[i % ServerSize] = None \/ r.data[i % ServerSize] = <<e, i>>
  BY <1>1, <1>2, <1>3 DEF ServerInv, ServerWindow, Window, ServerItem, S!Slot
<1>8. CASE v > z
  <2>1. read.last = z /\ read.items = <<>>
    BY <1>3, <1>4, <1>8 DEF S!Extract
  <2>2. a.val = z /\ a.list = <<>> /\ Len(a.list) = 0 /\ a.list \in Seq(ItemSet)
    BY <1>6, <2>1
  <2>3. a \in AnswerSet
    BY <1>1, <1>2, <1>3, <1>5, <1>6, <2>2 DEF AnswerSet
  <2>4. Part(a) /\ Now(a)
    BY <1>1, <1>2, <1>3, <1>6, <2>2 DEF Part, Now
  <2> QED BY <1>1, <1>6, <2>2, <2>3, <2>4
<1>9. CASE ~(v > z)
  <2>1. PICK f \in Nat : /\ f = S!First(r, v) /\ f = IF z - v > ServerSize THEN 1 + z - ServerSize ELSE v
                         /\ f > 0 /\ f <= z /\ z - f <= ServerSize
    BY <1>1, <1>3, <1>9 DEF S!First
  <2>2. PICK m \in Nat : m = S!Extent(r, v, TransmitCount) /\ m > 0 /\ m <= 1 + z - f
    BY <1>3, <2>1 DEF S!Extent, S!Least
  <2>3. read.last = f + m - 1 /\ read.items = [k \in 1..m |-> r.data[S!Slot(f + k - 1)]]
    BY <1>3, <1>4, <1>9, <2>1, <2>2 DEF S!Extract
  <2>4. a.val = f + m - 1 /\ a.list = [k \in 1..m |-> r.data[(f + k - 1) % ServerSize]]
    BY <1>6, <2>3 DEF S!Slot
  <2>5. ASSUME NEW k \in 1..m
        PROVE  /\ a.list[k] = r.data[(f + k - 1) % ServerSize]
               /\ a.list[k] \in {None, <<e, f - 1 + k>>, <<e, f - 1 + k + ServerSize>>}
    <3>1. a.list[k] = r.data[(f + k - 1) % ServerSize]
      BY <2>4
    <3>2. PICK i \in Nat : i = f + k - 1 /\ i = f - 1 + k /\ i > 0 /\ i <= z /\ z - i <= ServerSize
      <4>0. k \in Nat /\ k > 0 /\ k <= m
        BY <2>2, <2>5
      <4>1. f + k - 1 \in Nat
        BY <1>1, <1>3, <2>1, <4>0
      <4>2. f + k - 1 = f - 1 + k /\ f + k - 1 > 0
        BY <1>1, <1>3, <2>1, <4>0
      <4>3. f + k - 1 <= z
        BY <1>3, <2>1, <2>2, <4>0
      <4>4. z - (f + k - 1) <= ServerSize
        BY <1>3, <2>1, <4>0
      <4> QED BY <4>1, <4>2, <4>3, <4>4
    <3>3. CASE z - i < ServerSize
      BY <1>7, <3>1, <3>2, <3>3
    <3>4. CASE ~(z - i < ServerSize)
      <4>1. z = i + ServerSize /\ z > 0 /\ z - z < ServerSize
        BY <3>2, <3>4
      <4>2. z % ServerSize = i % ServerSize
        <5>1. (i + ServerSize) % ServerSize = i % ServerSize
          <6>1. i \in Int /\ ServerSize \in Nat \ {0}
            BY <3>2
          <6> QED BY <6>1, SlotShared, Zenon
        <5> QED BY <4>1, <5>1
      <4>3. r.data[z % ServerSize] = None \/ r.data[z % ServerSize] = <<e, z>>
        <5>1. z \in Nat /\ z > 0 /\ z <= z /\ z - z < ServerSize
          BY <1>3, <4>1
        <5> QED BY <1>7, <5>1, Zenon
      <4> QED BY <3>1, <3>2, <4>1, <4>2, <4>3
    <3> QED BY <3>1, <3>3, <3>4
  <2>6. a.list \in Seq(ItemSet) /\ Len(a.list) = m /\ a.list # <<>>
    <3>1. \A k \in 1..m : a.list[k] \in ItemSet
      <4> SUFFICES ASSUME NEW k \in 1..m PROVE a.list[k] \in ItemSet
        OBVIOUS
      <4>1. f - 1 + k \in Nat /\ f - 1 + k + ServerSize \in Nat
        BY <2>1
      <4> QED BY <1>2, <2>5, <4>1 DEF ItemSet
    <3>2. a.list \in [1..m -> ItemSet]
      BY <2>4, <3>1
    <3>3. a.list \in Seq(ItemSet) /\ Len(a.list) = m
      BY <2>2, <3>2
    <3> QED BY <2>2, <3>3
  <2>7. a.val \in Nat /\ a.val <= z
    BY <2>1, <2>2, <2>4
  <2>8. a \in AnswerSet
    BY <1>1, <1>2, <1>3, <1>5, <1>6, <2>6, <2>7 DEF AnswerSet
  <2>9. Start(a) = f - 1 /\ Len(a.list) <= a.val
    <3>1. Len(a.list) = m /\ a.val = f + m - 1
      BY <2>4, <2>6
    <3>2. (f + m - 1) - m = f - 1 /\ m <= f + m - 1
      BY <2>1, <2>2
    <3> QED BY <3>1, <3>2 DEF Start
  <2>10. Part(a)
    BY <1>1, <1>2, <1>6, <2>5, <2>6, <2>9 DEF Part, Of
  <2>11. Now(a)
    <3>1. \A k \in 1..m : ServerItem(n, f - 1 + k) = a.list[k]
      <4> SUFFICES ASSUME NEW k \in 1..m PROVE ServerItem(n, f - 1 + k) = a.list[k]
        OBVIOUS
      <4>1. f - 1 + k = f + k - 1
        BY <2>1
      <4> QED BY <1>2, <2>5, <4>1 DEF ServerItem, S!Slot
    <3> QED BY <1>1, <1>2, <1>3, <1>6, <2>6, <2>7, <2>9, <3>1 DEF Now
  <2>12. Start(a) = q.index - 1 \/ Start(a) + ServerSize = a.last
    BY <1>1, <1>6, <2>1, <2>9
  <2> QED BY <1>1, <1>6, <2>8, <2>10, <2>11, <2>12
<1> QED BY <1>8, <1>9

(***************************************************************************)
(* The steps preserve the invariant.                                        *)
(***************************************************************************)
LEMMA ExceptAt ==
  ASSUME NEW f, f = [m \in Ring |-> f[m]], NEW n \in Ring, NEW x, NEW g, g = [f EXCEPT ![n] = x]
  PROVE  g = [m \in Ring |-> g[m]] /\ g[n] = x /\ \A m \in Ring : m # n => g[m] = f[m]
<1>1. g = [m \in Ring |-> IF m = n THEN x ELSE f[m]]
  OBVIOUS
<1> QED BY <1>1

\* The parts of the invariant that a step leaves alone.
LEMMA ServerStays == ASSUME ServerInv, UNCHANGED serverVars PROVE ServerInv'
BY DEF ServerInv, ServerWindow, Window, ServerItem, serverVars

LEMMA AnswerStays ==
  ASSUME UNCHANGED serverVars, NEW a, Part(a), Now(a)
  PROVE  Part(a)' /\ Now(a)'
BY DEF Part, Now, Start, ServerWindow, Window, ServerItem, serverVars, Of

LEMMA AnswersStay ==
  ASSUME AnswersInv, UNCHANGED serverVars,
         \A a \in Range(answers') : a \in Range(answers) \/ (Part(a) /\ Now(a))
  PROVE  AnswersInv'
<1> SUFFICES ASSUME NEW a \in Range(answers') PROVE Part(a)' /\ Now(a)'
  BY DEF AnswersInv
<1>1. Part(a) /\ Now(a)
  BY DEF AnswersInv
<1> QED BY <1>1, AnswerStays

LEMMA KnownStays ==
  ASSUME NEW n \in Ring, Known(n),
         server'[n] = server[n] /\ client'[n] = client[n] /\ lastTime'[n] = lastTime[n],
         epoch'[n] = epoch[n] /\ noticed'[n] = noticed[n],
         overtaken[n] => overtaken'[n], crossed'[n] = crossed[n],
         ~crossed[n] => Index(n)'
  PROVE  Known(n)'
<1>1. Placed(n) => Placed(n)'
  BY DEF Placed, ClientWindow, Window, ClientItem, Of
<1>2. Gap(n) => Gap(n)'
  BY DEF Gap, Recent, ServerWindow, Window
<1>3. Agree(n) => Agree(n)'
  BY DEF Agree, ClientWindow, ServerWindow, Window, ClientItem, ServerItem
<1> QED BY <1>1, <1>2, <1>3 DEF Known

LEMMA IndexStays ==
  ASSUME NEW n \in Ring, Index(n), lastTime'[n] = lastTime[n],
         \A q \in Range(requests') :
           q \in Range(requests) \/ q.ring # n \/ q.index <= lastTime'[n] + 1,
         \A a \in Range(answers') :
           \/ a \in Range(answers) \/ a.ring # n \/ a.list = <<>>
           \/ Start(a) <= lastTime[n] \/ Start(a) + ServerSize <= a.last
  PROVE  Index(n)'
BY DEF Index, Start

LEMMA InitEstablishes == Init => IInv
<1> SUFFICES ASSUME Init PROVE IInv
  OBVIOUS
<1>1. S!EmptyRing.last = 0 /\ C!EmptyRing.last = 0
  BY DEF S!EmptyRing, C!EmptyRing
<1>2. \A n \in Ring : /\ server[n].last = 0 /\ client[n].last = 0 /\ lastTime[n] = 0
                      /\ epoch[n] = 1 /\ noticed[n] = 1
  BY <1>1 DEF Init
<1>3. TypeInv
  BY <1>2 DEF Init, TypeInv
<1>4. Window(0, ServerSize) = {} /\ Window(0, ClientSize) = {}
  BY DEF Window
<1>5. ServerInv
  BY <1>2, <1>4 DEF ServerInv, ServerWindow
<1>6. Range(answers) = {} /\ Range(requests) = {}
  BY DEF Init, Range
<1>7. AnswersInv
  BY <1>6 DEF AnswersInv
<1>8. KnownInv
  BY <1>2, <1>4, <1>6 DEF KnownInv, Known, Placed, Index, Gap, Recent, Agree, ClientWindow, ServerWindow
<1> QED BY <1>3, <1>5, <1>7, <1>8 DEF IInv

LEMMA ServerAnswersKeeps ==
  ASSUME IInv, ServerAnswers
  PROVE  IInv'
<1> USE DEF IInv
<1>1. UNCHANGED <<serverVars, clientVars, overtaken>> /\ requests # <<>>
  BY DEF ServerAnswers
<1>2. PICK q \in RequestSet : q = Head(requests) /\ q \in Range(requests)
  BY <1>1, RangeOfTail DEF TypeInv
<1>3. PICK a : a = Answer(q)
  OBVIOUS
<1>4. /\ a \in AnswerSet /\ a.ring = q.ring /\ Part(a) /\ Now(a)
      /\ a.list # <<>> => Start(a) = q.index - 1 \/ Start(a) + ServerSize = a.last
  BY <1>3, AnswerFacts
<1>5. answers \in Seq(AnswerSet) /\ requests \in Seq(RequestSet)
  BY DEF TypeInv
<1>6. requests' \in Seq(RequestSet) /\ \A p \in Range(requests') : p \in Range(requests)
  <2>1. requests' = Tail(requests)
    BY DEF ServerAnswers
  <2> QED BY <1>1, <1>5, <2>1, RangeOfTail
<1>7. answers' \in Seq(AnswerSet) /\ \A b \in Range(answers') : b \in Range(answers) \/ b = a
  <2>1. answers' = Append(answers, a)
    BY <1>2, <1>3 DEF ServerAnswers
  <2> QED BY <1>4, <1>5, <2>1, RangeOfAppend
<1>8. TypeInv'
  BY <1>1, <1>6, <1>7 DEF TypeInv, serverVars, clientVars
<1>9. AnswersInv'
  <2>1. UNCHANGED serverVars
    BY <1>1
  <2>2. \A b \in Range(answers') : b \in Range(answers) \/ (Part(b) /\ Now(b))
    BY <1>4, <1>7
  <2> QED BY <2>1, <2>2, AnswersStay
<1>10. ASSUME NEW n \in Ring PROVE Known(n)'
  <2>1. Known(n)
    BY DEF KnownInv
  <2>2. ASSUME ~crossed[n] PROVE Index(n)'
    <3>1. Index(n)
      BY <2>1, <2>2 DEF Known
    <3>2. a.ring = n /\ a.list # <<>> => Start(a) <= lastTime[n] \/ Start(a) + ServerSize <= a.last
      <4> SUFFICES ASSUME a.ring = n, a.list # <<>>, Start(a) = q.index - 1
                   PROVE  Start(a) <= lastTime[n]
        <5>1. ServerSize \in Int /\ (Start(a) + ServerSize = a.last => Start(a) + ServerSize <= a.last)
          BY <1>4 DEF AnswerSet
        <5> QED BY <1>4, <5>1
      <4>1. q.index <= lastTime[n] + 1 /\ q.index \in Nat /\ lastTime[n] \in Nat
        BY <1>2, <1>4, <3>1 DEF Index, RequestSet, TypeInv
      <4> QED BY <4>1
    <3>3. lastTime'[n] = lastTime[n]
      BY <1>1 DEF clientVars
    <3>4. \A b \in Range(answers') :
            \/ b \in Range(answers) \/ b.ring # n \/ b.list = <<>>
            \/ Start(b) <= lastTime[n] \/ Start(b) + ServerSize <= b.last
      BY <1>7, <3>2
    <3> QED BY <1>6, <3>1, <3>3, <3>4, IndexStays
  <2>3. /\ server'[n] = server[n] /\ client'[n] = client[n] /\ lastTime'[n] = lastTime[n]
        /\ epoch'[n] = epoch[n] /\ noticed'[n] = noticed[n]
        /\ overtaken'[n] = overtaken[n] /\ crossed'[n] = crossed[n]
    BY <1>1 DEF serverVars, clientVars
  <2> QED BY <2>1, <2>2, <2>3, KnownStays
<1>11. ServerInv'
  BY <1>1, ServerStays
<1> QED BY <1>8, <1>9, <1>10, <1>11 DEF KnownInv

\* Requests for all rings, or a connection lost with all that is under way.
LEMMA LinkStep ==
  ASSUME IInv, UNCHANGED <<serverVars, clientVars, overtaken>>,
         \/ requests' = RequestAll /\ answers' = answers
         \/ requests' = <<>> /\ answers' = <<>>
  PROVE  IInv'
<1> USE DEF IInv
<1>1. /\ requests' \in Seq(RequestSet)
      /\ \A q \in Range(requests') : q \in Range(requests) \/ q.index = lastTime[q.ring] + 1
  <2>1. CASE requests' = RequestAll
    BY <2>1, RequestAllFacts
  <2>2. CASE requests' = <<>>
    BY <2>2 DEF Range
  <2> QED BY <2>1, <2>2
<1>2. answers' \in Seq(AnswerSet) /\ \A b \in Range(answers') : b \in Range(answers)
  <2>1. CASE answers' = answers
    BY <2>1 DEF TypeInv
  <2>2. CASE answers' = <<>>
    BY <2>2 DEF Range
  <2> QED BY <2>1, <2>2
<1>3. TypeInv'
  BY <1>1, <1>2 DEF TypeInv, serverVars, clientVars
<1>4. AnswersInv' /\ ServerInv'
  BY <1>2, AnswersStay, ServerStays
<1>5. ASSUME NEW n \in Ring PROVE Known(n)'
  <2>1. Known(n)
    BY DEF KnownInv
  <2>2. /\ server'[n] = server[n] /\ client'[n] = client[n] /\ lastTime'[n] = lastTime[n]
        /\ epoch'[n] = epoch[n] /\ noticed'[n] = noticed[n]
        /\ overtaken'[n] = overtaken[n] /\ crossed'[n] = crossed[n]
    BY DEF serverVars, clientVars
  <2>3. ASSUME ~crossed[n] PROVE Index(n)'
    <3>1. Index(n)
      BY <2>1, <2>3 DEF Known
    <3>2. \A q \in Range(requests') :
            q \in Range(requests) \/ q.ring # n \/ q.index <= lastTime'[n] + 1
      <4>1. lastTime[n] \in Nat /\ lastTime[n] + 1 <= lastTime[n] + 1
        BY DEF TypeInv
      <4> QED BY <1>1, <2>2, <4>1
    <3> QED BY <1>2, <2>2, <3>1, <3>2, IndexStays
  <2> QED BY <2>1, <2>2, <2>3, KnownStays
<1> QED BY <1>3, <1>4, <1>5 DEF KnownInv

LEMMA ServerAppendsKeeps ==
  ASSUME IInv, NEW n \in Used, NEW pos \in 1..MaxIndex, ServerAppends(n, pos)
  PROVE  IInv'
<1> USE DEF IInv
<1>1. n \in Ring /\ pos \in Nat
  BY DEF Ring
<1>2. /\ epoch' = epoch /\ client' = client /\ lastTime' = lastTime /\ noticed' = noticed
      /\ crossed' = crossed /\ overtaken' = overtaken /\ requests' = requests /\ answers' = answers
  BY DEF ServerAppends, clientVars
<1>3. PICK d : d = <<epoch[n], pos>>
  OBVIOUS
<1>4. PICK r : r = server[n] /\ r.last \in Nat /\ r.last < pos
  BY <1>1 DEF TypeInv, ServerAppends
<1>5. PICK q : q = S!Appended(r, pos, d)
  OBVIOUS
<1>6. Appends(ServerSize, r, q, pos, d)
  BY <1>1, <1>4, <1>5, ServerAppended
<1>7. /\ server' = [m \in Ring |-> server'[m]] /\ server'[n] = q
      /\ \A m \in Ring : m # n => server'[m] = server[m]
  <2>1. server' = [server EXCEPT ![n] = q]
    BY <1>3, <1>4, <1>5 DEF ServerAppends
  <2>2. server = [m \in Ring |-> server[m]]
    BY DEF TypeInv
  <2> QED BY <1>1, <2>1, <2>2, ExceptAt
<1>8. q.last = pos /\ q.data[pos % ServerSize] = d
  BY <1>6 DEF Appends
\* What is left of the items before.
<1>9. ASSUME NEW i \in Window(pos, ServerSize), i <= r.last
      PROVE  i \in Window(r.last, ServerSize) /\ q.data[i % ServerSize] = r.data[i % ServerSize]
  <2>1. i \in Int /\ i > 0 /\ pos - i < ServerSize /\ i # pos
    BY <1>1, <1>4, <1>9 DEF Window
  <2>2. r.last - i < ServerSize
    BY <1>1, <1>4, <2>1
  <2>3. q.data[i % ServerSize] = r.data[i % ServerSize]
    BY <1>6, <1>9, <2>1 DEF Appends
  <2> QED BY <1>4, <1>9, <2>1, <2>2, <2>3 DEF Window
<1>10. TypeInv'
  <2>1. \A m \in Ring : server'[m].last \in Nat
    BY <1>1, <1>7, <1>8 DEF TypeInv
  <2> QED BY <1>2, <1>7, <2>1 DEF TypeInv
<1>11. ServerInv'
  <2> SUFFICES ASSUME NEW m \in Ring, NEW i \in ServerWindow(m)'
               PROVE  ServerItem(m, i)' \in {None, <<epoch[m], i>>}
    BY <1>2 DEF ServerInv
  <2>1. CASE m # n
    BY <1>7, <2>1 DEF ServerInv, ServerWindow, Window, ServerItem
  <2>2. CASE m = n /\ i = pos
    BY <1>3, <1>7, <1>8, <2>2 DEF ServerItem, S!Slot
  <2>3. CASE m = n /\ i # pos
    <3>1. i \in Window(pos, ServerSize) /\ ServerItem(m, i)' = q.data[i % ServerSize]
      BY <1>7, <1>8, <2>3 DEF ServerItem, S!Slot, ServerWindow
    <3>2. CASE i <= r.last
      BY <1>4, <1>9, <2>3, <3>1, <3>2 DEF ServerInv, ServerWindow, ServerItem, S!Slot
    <3>3. CASE ~(i <= r.last)
      BY <1>6, <2>3, <3>1, <3>3 DEF Appends
    <3> QED BY <3>2, <3>3
  <2> QED BY <2>1, <2>2, <2>3
<1>12. AnswersInv'
  <2> SUFFICES ASSUME NEW a \in Range(answers) PROVE Part(a)' /\ Now(a)'
    BY <1>2 DEF AnswersInv
  <2>1. Part(a) /\ Now(a)
    BY DEF AnswersInv
  <2>2. a \in AnswerSet
    BY RangeOfMessages DEF TypeInv
  <2>3. Part(a)'
    BY <1>2, <2>1 DEF Part, Start, Of
  <2>4. CASE a.ring # n
    <3>1. a.ring \in Ring /\ server'[a.ring] = server[a.ring]
      BY <1>7, <2>2, <2>4 DEF AnswerSet
    <3>2. Now(a)'
      BY <1>2, <2>1, <3>1 DEF Now, Start, ServerWindow, ServerItem
    <3> QED BY <2>3, <3>2
  <2>5. CASE a.ring = n /\ a.epoch = epoch[n]
    <3>1. a.val <= a.last /\ a.last <= r.last /\ a.val \in Nat /\ a.last \in Nat
      BY <1>4, <2>1, <2>2, <2>5 DEF Now, AnswerSet
    <3>2. a.last <= pos
      BY <1>1, <1>4, <3>1
    <3>3. ASSUME NEW k \in 1..Len(a.list), Start(a) + k \in Window(pos, ServerSize)
          PROVE  a.list[k] = q.data[(Start(a) + k) % ServerSize]
      <4>1. PICK i : i = Start(a) + k
        OBVIOUS
      <4>2. Len(a.list) \in Nat
        BY <2>2 DEF AnswerSet
      <4>3. a.val - Len(a.list) + k <= a.val
        BY <3>1, <3>3, <4>2
      <4>4. i \in Int /\ i <= r.last
        BY <1>4, <3>1, <3>3, <4>1, <4>2, <4>3 DEF Start
      <4>5. i \in Window(r.last, ServerSize) /\ q.data[i % ServerSize] = r.data[i % ServerSize]
        BY <1>9, <3>3, <4>1, <4>4
      <4>6. a.list[k] = ServerItem(n, i)
        BY <1>4, <2>1, <2>5, <3>3, <4>1, <4>5 DEF Now, ServerWindow
      <4> QED BY <1>4, <4>1, <4>5, <4>6 DEF ServerItem, S!Slot
    <3>4. \A k \in 1..Len(a.list) : (Start(a) + k \in ServerWindow(n))' =>
            a.list[k] = (ServerItem(n, Start(a) + k))'
      BY <1>7, <1>8, <3>3 DEF ServerWindow, ServerItem, S!Slot, Start
    <3>5. Now(a)'
      BY <1>7, <1>8, <2>5, <3>1, <3>2, <3>4 DEF Now
    <3> QED BY <2>3, <3>5
  <2>6. CASE a.ring = n /\ a.epoch # epoch[n]
    BY <1>2, <2>3, <2>6 DEF Now
  <2> QED BY <2>4, <2>5, <2>6
<1>13. ASSUME NEW m \in Ring PROVE Known(m)'
  <2>1. Known(m)
    BY DEF KnownInv
  <2>2. Index(m)' <=> Index(m)
    BY <1>2 DEF Index, Start
  <2>3. CASE m # n
    BY <1>2, <1>7, <2>1, <2>2, <2>3, KnownStays DEF Known
  <2>4. CASE m = n
    <3>1. Placed(n)' <=> Placed(n)
      BY <1>2 DEF Placed, ClientWindow, ClientItem, Of
    <3>2. client[n].last \in Nat /\ lastTime[n] \in Nat
      BY <1>1 DEF TypeInv
    <3>3. ASSUME Gap(n) PROVE Gap(n)'
      <4>1. lastTime[n] <= r.last /\ lastTime[n] <= pos
        BY <1>1, <1>4, <3>2, <3>3 DEF Gap
      <4>2. ASSUME NEW i \in Recent(n)', client[n].last < i, i <= lastTime[n] PROVE FALSE
        <5>1. i \in Window(pos, ServerSize) /\ i \in Window(pos, ClientSize)
          BY <1>7, <1>8, <4>2 DEF Recent, ServerWindow
        <5>2. i \in Int /\ i > 0 /\ pos - i < ClientSize
          BY <5>1 DEF Window
        <5>3. i <= r.last /\ r.last - i < ClientSize
          BY <1>1, <1>4, <3>2, <4>1, <4>2, <5>2
        <5>4. i \in Recent(n)
          BY <1>4, <1>9, <5>1, <5>2, <5>3 DEF Recent, ServerWindow, Window
        <5> QED BY <3>3, <4>2, <5>4 DEF Gap
      <4> QED BY <1>2, <1>7, <1>8, <4>1, <4>2 DEF Gap
    <3>4. ASSUME Gap(n), Agree(n), client[n].last <= lastTime[n] PROVE Agree(n)'
      <4> SUFFICES ASSUME NEW i \in ClientWindow(n),
                          i \in Window(pos, ServerSize), i \in Window(pos, ClientSize)
                   PROVE  ClientItem(n, i) = q.data[i % ServerSize]
        BY <1>2, <1>7, <1>8 DEF Agree, ClientWindow, ServerWindow, ClientItem, ServerItem, S!Slot
      <4>1. i \in Int /\ i > 0 /\ i <= client[n].last /\ pos - i < ClientSize
        BY DEF ClientWindow, Window
      <4>2. i <= r.last /\ r.last - i < ClientSize
        BY <1>1, <1>4, <3>2, <3>4, <4>1 DEF Gap
      <4>3. i \in ServerWindow(n) /\ i \in Window(server[n].last, ClientSize)
        BY <1>4, <1>9, <4>1, <4>2 DEF ServerWindow, Window
      <4>4. ClientItem(n, i) = ServerItem(n, i)
        BY <3>4, <4>3 DEF Agree
      <4> QED BY <1>4, <1>9, <4>2, <4>4 DEF ServerItem, S!Slot
    <3> QED BY <1>2, <2>1, <2>2, <2>4, <3>1, <3>3, <3>4 DEF Known
  <2> QED BY <2>3, <2>4
<1> QED BY <1>10, <1>11, <1>12, <1>13 DEF KnownInv

LEMMA ServerClearsKeeps ==
  ASSUME IInv, NEW n \in Used, ServerClears(n)
  PROVE  IInv'
<1> USE DEF IInv
<1>1. n \in Ring
  BY DEF Ring
<1>2. /\ client' = client /\ lastTime' = lastTime /\ noticed' = noticed
      /\ crossed' = crossed /\ overtaken' = overtaken /\ requests' = requests /\ answers' = answers
  BY DEF ServerClears, clientVars
<1>3. PICK q : q = S!EmptyRing /\ q.last = 0
  <2>1. S!EmptyRing.last = 0
    BY DEF S!EmptyRing
  <2> QED BY <2>1
<1>4. PICK e \in Nat : e = epoch[n] + 1
  BY <1>1 DEF TypeInv
<1>5. /\ server' = [m \in Ring |-> server'[m]] /\ server'[n] = q
      /\ \A m \in Ring : m # n => server'[m] = server[m]
  <2>1. server' = [server EXCEPT ![n] = q]
    BY <1>3 DEF ServerClears
  <2>2. server = [m \in Ring |-> server[m]]
    BY DEF TypeInv
  <2> QED BY <1>1, <2>1, <2>2, ExceptAt
<1>6. /\ epoch' = [m \in Ring |-> epoch'[m]] /\ epoch'[n] = e
      /\ \A m \in Ring : m # n => epoch'[m] = epoch[m]
  <2>1. epoch' = [epoch EXCEPT ![n] = e]
    BY <1>4 DEF ServerClears
  <2>2. epoch = [m \in Ring |-> epoch[m]]
    BY DEF TypeInv
  <2> QED BY <1>1, <2>1, <2>2, ExceptAt
<1>7. \A m \in Ring : epoch'[m] \in Nat /\ server'[m].last \in Nat
  <2>1. \A m \in Ring : epoch'[m] \in Nat
    BY <1>4, <1>6 DEF TypeInv
  <2>2. \A m \in Ring : server'[m].last \in Nat
    <3>1. q.last \in Nat
      BY <1>3
    <3>2. \A m \in Ring : server[m].last \in Nat
      BY DEF TypeInv
    <3> QED BY <1>5, <3>1, <3>2, Zenon
  <2> QED BY <2>1, <2>2
<1>8. TypeInv'
  <2>1. epoch' \in [Ring -> Nat]
    BY <1>6, <1>7
  <2> QED BY <1>2, <1>5, <1>7, <2>1 DEF TypeInv
<1>9. Window(0, ServerSize) = {}
  BY DEF Window
<1>10. ServerInv'
  <2> SUFFICES ASSUME NEW m \in Ring, NEW i \in ServerWindow(m)'
               PROVE  ServerItem(m, i)' \in {None, <<epoch'[m], i>>}
    BY DEF ServerInv
  <2>1. CASE m # n
    BY <1>5, <1>6, <2>1 DEF ServerInv, ServerWindow, ServerItem
  <2>2. CASE m = n
    BY <1>3, <1>5, <1>9, <2>2 DEF ServerWindow
  <2> QED BY <2>1, <2>2
<1>11. AnswersInv'
  <2> SUFFICES ASSUME NEW a \in Range(answers) PROVE Part(a)' /\ Now(a)'
    BY <1>2 DEF AnswersInv
  <2>1. Part(a) /\ Now(a)
    BY DEF AnswersInv
  <2>2. a.ring \in Ring /\ a.epoch \in Nat /\ a.epoch <= epoch[a.ring]
    <3>1. a \in AnswerSet
      BY RangeOfMessages DEF TypeInv
    <3> QED BY <2>1, <3>1 DEF AnswerSet, Part
  <2>3. CASE a.ring # n
    BY <1>5, <1>6, <2>1, <2>2, <2>3 DEF Part, Now, Start, ServerWindow, ServerItem, Of
  <2>4. CASE a.ring = n
    <3>1. a.epoch <= e /\ a.epoch # e
      <4>1. epoch[n] \in Nat
        BY <1>1 DEF TypeInv
      <4> QED BY <1>4, <2>2, <2>4, <4>1
    <3> QED BY <1>6, <2>1, <2>4, <3>1 DEF Part, Now, Start, Of
  <2> QED BY <2>3, <2>4
<1>12. ASSUME NEW m \in Ring PROVE Known(m)'
  <2>1. Known(m)
    BY DEF KnownInv
  <2>2. Index(m)' <=> Index(m)
    BY <1>2 DEF Index, Start
  <2>3. CASE m # n
    BY <1>2, <1>5, <1>6, <2>1, <2>2, <2>3, KnownStays DEF Known
  <2>4. CASE m = n
    <3>1. Placed(n)' <=> Placed(n)
      BY <1>2 DEF Placed, ClientWindow, ClientItem, Of
    <3>2. noticed[n] <= e /\ noticed[n] # e
      <4>1. noticed[n] \in Nat /\ epoch[n] \in Nat
        BY <1>1 DEF TypeInv
      <4>2. noticed[n] <= epoch[n]
        BY <2>1, <2>4 DEF Known
      <4> QED BY <1>4, <4>1, <4>2
    <3> QED BY <1>2, <1>6, <2>1, <2>2, <2>4, <3>1, <3>2 DEF Known
  <2> QED BY <2>3, <2>4
<1> QED BY <1>8, <1>10, <1>11, <1>12 DEF KnownInv

\* What tcpRead() does whatever the answer says.
LEMMA ReadFacts ==
  ASSUME IInv, TcpRead, NEW a, a = Head(answers), NEW n, n = a.ring
  PROVE  /\ a \in AnswerSet /\ a \in Range(answers) /\ n \in Ring /\ Part(a) /\ Now(a)
         /\ UNCHANGED serverVars /\ ServerInv' /\ AnswersInv'
         /\ answers' = Tail(answers) /\ answers' \in Seq(AnswerSet)
         /\ \A b \in Range(answers') : b \in Range(answers)
         /\ overtaken' \in [Ring -> BOOLEAN]
         /\ overtaken'[n] <=> (overtaken[n] \/ TakenForNews(n, a))
         /\ \A m \in Ring : m # n => overtaken'[m] = overtaken[m]
<1> USE DEF IInv
<1>1. answers # <<>> /\ answers \in Seq(AnswerSet) /\ answers' = Tail(answers) /\ UNCHANGED serverVars
  BY DEF TcpRead, TypeInv
<1>2. /\ a \in AnswerSet /\ a \in Range(answers) /\ answers' \in Seq(AnswerSet)
      /\ \A b \in Range(answers') : b \in Range(answers)
  BY <1>1, RangeOfTail
<1>3. n \in Ring
  BY <1>2 DEF AnswerSet
<1>4. ServerInv' /\ AnswersInv'
  BY <1>1, <1>2, ServerStays, AnswersStay
<1>5. Part(a) /\ Now(a)
  BY <1>2 DEF AnswersInv
<1>6. PICK x \in BOOLEAN : x = (overtaken[n] \/ TakenForNews(n, a))
  OBVIOUS
<1>7. overtaken' = [overtaken EXCEPT ![n] = x]
  BY <1>6 DEF TcpRead
<1>8. overtaken \in [Ring -> BOOLEAN]
  BY DEF TypeInv
<1>9. /\ overtaken' \in [Ring -> BOOLEAN] /\ overtaken'[n] = x
      /\ \A m \in Ring : m # n => overtaken'[m] = overtaken[m]
  BY <1>3, <1>7, <1>8
<1> QED BY <1>1, <1>2, <1>3, <1>4, <1>5, <1>6, <1>9

\* The other rings.
LEMMA OthersStay ==
  ASSUME IInv, NEW n \in Ring, NEW m \in Ring, m # n, UNCHANGED serverVars,
         client'[m] = client[m] /\ lastTime'[m] = lastTime[m],
         noticed'[m] = noticed[m] /\ crossed'[m] = crossed[m] /\ overtaken'[m] = overtaken[m],
         \A q \in Range(requests') : q \in Range(requests) \/ q.ring = n,
         \A b \in Range(answers') : b \in Range(answers)
  PROVE  Known(m)'
<1>1. Known(m)
  BY DEF IInv, KnownInv
<1>2. ASSUME ~crossed[m] PROVE Index(m)'
  <2>1. Index(m)
    BY <1>1, <1>2 DEF Known
  <2> QED BY <2>1, IndexStays
<1>3. server'[m] = server[m] /\ epoch'[m] = epoch[m]
  BY DEF serverVars
<1> QED BY <1>1, <1>2, <1>3, KnownStays

\* A request for ring n, or none.
LEMMA RequestsGrow ==
  ASSUME IInv, NEW n \in Ring, NEW t \in Nat, NEW q, q = [ring |-> n, index |-> t + 1],
         requests' = Append(requests, q) \/ requests' = requests
  PROVE  /\ requests' \in Seq(RequestSet)
         /\ \A p \in Range(requests') : p \in Range(requests) \/ (p.ring = n /\ p.index = t + 1)
<1>1. q \in RequestSet /\ q.ring = n /\ q.index = t + 1
  BY DEF RequestSet
<1>2. requests \in Seq(RequestSet)
  BY DEF IInv, TypeInv
<1>3. CASE requests' = requests
  BY <1>2, <1>3
<1>4. CASE requests' = Append(requests, q)
  <2>1. requests' \in Seq(RequestSet) /\ \A p \in Range(requests') : p \in Range(requests) \/ p = q
    BY <1>1, <1>2, <1>4, RangeOfAppend
  <2> QED BY <1>1, <2>1
<1> QED BY <1>3, <1>4

LEMMA BeginAgainKeeps ==
  ASSUME IInv, TcpRead, NEW a, a = Head(answers), NEW n, n = a.ring, BeginAgain(n, a), Outdated(n, a)
  PROVE  IInv'
<1> USE DEF IInv
<1>1. /\ a \in AnswerSet /\ a \in Range(answers) /\ n \in Ring /\ Part(a) /\ Now(a)
      /\ UNCHANGED serverVars /\ ServerInv' /\ AnswersInv'
      /\ answers' = Tail(answers) /\ answers' \in Seq(AnswerSet)
      /\ \A b \in Range(answers') : b \in Range(answers)
      /\ overtaken' \in [Ring -> BOOLEAN]
      /\ overtaken'[n] <=> (overtaken[n] \/ TakenForNews(n, a))
      /\ \A m \in Ring : m # n => overtaken'[m] = overtaken[m]
  BY ReadFacts
<1>2. PICK t \in Nat : /\ t = IF a.last > ClientSize THEN a.last - ClientSize ELSE 0
                       /\ a.last \in Nat /\ a.epoch \in Nat /\ t <= a.last
                       /\ (t = 0 \/ t = a.last - ClientSize)
  <2>1. PICK l \in Nat : l = a.last
    BY <1>1 DEF AnswerSet
  <2>2. a.epoch \in Nat
    BY <1>1 DEF AnswerSet
  <2>3. CASE l > ClientSize
    <3>1. l - ClientSize \in Nat /\ l - ClientSize <= l
      BY <2>3
    <3> QED BY <2>1, <2>2, <2>3, <3>1
  <2>4. CASE ~(l > ClientSize)
    BY <2>1, <2>2, <2>4
  <2> QED BY <2>3, <2>4
<1>3. PICK c : c = C!EmptyRing
  OBVIOUS
<1>4. c.last = 0
  BY <1>3 DEF C!EmptyRing
<1>5. client' = [client EXCEPT ![n] = c] /\ client = [m \in Ring |-> client[m]]
  BY <1>3 DEF BeginAgain, TypeInv
<1>6. /\ client' = [m \in Ring |-> client'[m]] /\ client'[n] = c
      /\ \A m \in Ring : m # n => client'[m] = client[m]
  BY <1>1, <1>5, ExceptAt
<1>7. lastTime' = [lastTime EXCEPT ![n] = t] /\ noticed' = [noticed EXCEPT ![n] = a.epoch]
  BY <1>2 DEF BeginAgain
<1>8. /\ lastTime' \in [Ring -> Nat] /\ noticed' \in [Ring -> Nat]
      /\ lastTime'[n] = t /\ noticed'[n] = a.epoch
      /\ \A m \in Ring : m # n => lastTime'[m] = lastTime[m] /\ noticed'[m] = noticed[m]
  <2>1. lastTime \in [Ring -> Nat] /\ noticed \in [Ring -> Nat]
    BY DEF TypeInv
  <2> QED BY <1>1, <1>2, <1>7, <2>1
<1>9. PICK x \in BOOLEAN : x = (crossed[n] \/ Repeated(n))
  OBVIOUS
<1>10. /\ crossed' \in [Ring -> BOOLEAN] /\ crossed'[n] = x
       /\ \A m \in Ring : m # n => crossed'[m] = crossed[m]
  <2>1. crossed' = [crossed EXCEPT ![n] = x] /\ crossed \in [Ring -> BOOLEAN]
    BY <1>9 DEF BeginAgain, TypeInv
  <2> QED BY <1>1, <2>1
<1>11. /\ requests' \in Seq(RequestSet)
       /\ \A p \in Range(requests') : p \in Range(requests) \/ (p.ring = n /\ p.index = t + 1)
  <2>1. requests' = Append(requests, [ring |-> n, index |-> t + 1])
    BY <1>8 DEF BeginAgain
  <2> QED BY <1>1, <2>1, RequestsGrow
<1>12. TypeInv'
  <2>1. /\ \A m \in Ring : server'[m].last \in Nat
        /\ server' = [m \in Ring |-> server'[m]] /\ epoch' \in [Ring -> Nat]
    BY <1>1 DEF serverVars, TypeInv
  <2>2. \A m \in Ring : client'[m].last \in Nat
    <3>1. c.last \in Nat
      BY <1>4
    <3>2. \A m \in Ring : client[m].last \in Nat
      BY DEF TypeInv
    <3> QED BY <1>6, <3>1, <3>2, Zenon
  <2> QED BY <1>1, <1>6, <1>8, <1>10, <1>11, <2>1, <2>2 DEF TypeInv
<1>13. \A m \in Ring : m # n => Known(m)'
  BY <1>1, <1>6, <1>8, <1>10, <1>11, OthersStay
<1>14. Known(n)'
  <2>1. Known(n) /\ epoch'[n] = epoch[n] /\ server'[n] = server[n]
    BY <1>1 DEF KnownInv, serverVars
  <2>2. ClientWindow(n)' = {}
    BY <1>4, <1>6 DEF ClientWindow, Window
  <2>3. Placed(n)' /\ Agree(n)'
    BY <2>2 DEF Placed, Agree
  <2>4. noticed'[n] <= epoch'[n] /\ client'[n].last <= lastTime'[n]
    BY <1>1, <1>2, <1>4, <1>6, <1>8, <2>1 DEF Part
  <2>5. ASSUME ~x PROVE Index(n)'
    <3>1. \A b \in Range(requests) \cup Range(answers') : b.ring # n
      BY <1>1, <1>9, <2>5 DEF Repeated
    <3>2. \A q \in Range(requests') : q.ring = n => q.index <= lastTime'[n] + 1
      BY <1>8, <1>11, <3>1
    <3> QED BY <3>1, <3>2 DEF Index, Start
  <2>6. ASSUME noticed'[n] = epoch'[n] PROVE Gap(n)'
    <3>1. PICK l \in Nat : l = server[n].last /\ a.last <= l
      BY <1>1, <1>8, <2>1, <2>6 DEF Now, TypeInv
    <3>2. t <= l
      BY <1>2, <3>1
    <3>3. ASSUME NEW i \in Window(l, ClientSize), i <= t PROVE FALSE
      <4>1. i \in Int /\ i > 0 /\ l - i < ClientSize
        BY <3>3 DEF Window
      <4> QED BY <1>2, <3>1, <3>3, <4>1
    <3> QED BY <1>8, <2>1, <3>1, <3>2, <3>3 DEF Gap, Recent
  <2> QED BY <1>10, <2>3, <2>4, <2>5, <2>6 DEF Known
<1> QED BY <1>1, <1>12, <1>13, <1>14 DEF KnownInv

LEMMA AppendListKeeps ==
  ASSUME IInv, TcpRead, NEW a, a = Head(answers), NEW n, n = a.ring,
         AppendList(n, a), GoOn(n, a), ~Outdated(n, a), a.list # <<>>
  PROVE  IInv'
<1> USE DEF IInv
<1>1. /\ a \in AnswerSet /\ a \in Range(answers) /\ n \in Ring /\ Part(a) /\ Now(a)
      /\ UNCHANGED serverVars /\ ServerInv' /\ AnswersInv'
      /\ answers' = Tail(answers) /\ answers' \in Seq(AnswerSet)
      /\ \A b \in Range(answers') : b \in Range(answers)
      /\ overtaken' \in [Ring -> BOOLEAN]
      /\ overtaken'[n] <=> (overtaken[n] \/ TakenForNews(n, a))
      /\ \A m \in Ring : m # n => overtaken'[m] = overtaken[m]
  BY ReadFacts
<1>2. PICK v \in Nat, l \in Nat, N \in Nat :
        v = a.val /\ l = lastTime[n] /\ N = Len(a.list) /\ l <= v /\ N <= v /\ a.list \in Seq(ItemSet)
  <2>1. a.val \in Nat /\ lastTime[n] \in Nat /\ a.list \in Seq(ItemSet) /\ Len(a.list) \in Nat
    <3>1. a.val \in Nat /\ a.list \in Seq(ItemSet)
      BY <1>1 DEF AnswerSet
    <3>2. lastTime[n] \in Nat
      BY <1>1 DEF TypeInv
    <3>3. Len(a.list) \in Nat
      BY <3>1
    <3> QED BY <3>1, <3>2, <3>3
  <2>2. lastTime[n] <= a.val /\ Len(a.list) <= a.val
    BY <1>1, <2>1 DEF Outdated, Part
  <2> QED BY <2>1, <2>2
<1>3. N > 0
  BY <1>2
<1>4. PICK f \in Nat : f = v - N /\ f = Start(a) /\ f <= v
  BY <1>2 DEF Start
<1>5. Known(n)
  BY <1>1 DEF KnownInv
<1>6. PICK r : r = client[n] /\ r.last \in Nat /\ r.last <= l
  BY <1>1, <1>2, <1>5 DEF TypeInv, Known
<1>7. PICK q : q = AppendAll(r, a.list, v)
  OBVIOUS
<1>8. Filled(r, q, a.list, v, N)
  BY <1>2, <1>6, <1>7, AppendAllFills
<1>9. q.last = v
  <2>1. q.last = IF N = 0 \/ f + N <= r.last THEN r.last ELSE f + N
    BY <1>2, <1>4, <1>8 DEF Filled
  <2>2. f + N = v
    BY <1>2, <1>4
  <2>3. r.last <= v
    BY <1>2, <1>6
  <2> QED BY <1>2, <1>3, <1>6, <2>1, <2>2, <2>3
<1>10. \A i \in Window(v, ClientSize) :
         q.data[i % ClientSize] =
           IF i <= r.last THEN r.data[i % ClientSize] ELSE IF i > f THEN a.list[i - f] ELSE None
  BY <1>2, <1>4, <1>8, <1>9 DEF Filled
<1>11. PICK e \in Nat : e = IF l = 0 THEN a.epoch ELSE noticed[n]
  BY <1>1 DEF AnswerSet, TypeInv
<1>12. client' = [client EXCEPT ![n] = q] /\ client = [m \in Ring |-> client[m]]
  BY <1>2, <1>6, <1>7 DEF AppendList, TypeInv
<1>13. /\ client' = [m \in Ring |-> client'[m]] /\ client'[n] = q
       /\ \A m \in Ring : m # n => client'[m] = client[m]
  BY <1>1, <1>12, ExceptAt
<1>14. /\ lastTime' \in [Ring -> Nat] /\ noticed' \in [Ring -> Nat]
       /\ lastTime'[n] = v /\ noticed'[n] = e
       /\ \A m \in Ring : m # n => lastTime'[m] = lastTime[m] /\ noticed'[m] = noticed[m]
  <2>1. lastTime' = [lastTime EXCEPT ![n] = v] /\ noticed' = [noticed EXCEPT ![n] = e]
    BY <1>2, <1>11 DEF AppendList
  <2>2. lastTime \in [Ring -> Nat] /\ noticed \in [Ring -> Nat]
    BY DEF TypeInv
  <2> QED BY <1>1, <1>2, <1>11, <2>1, <2>2
<1>15. crossed' = crossed
  BY DEF AppendList
<1>16. /\ requests' \in Seq(RequestSet)
       /\ \A p \in Range(requests') : p \in Range(requests) \/ (p.ring = n /\ p.index = v + 1)
  <2>1. PICK p : p = [ring |-> n, index |-> v + 1]
    OBVIOUS
  <2>2. requests' = Append(requests, p) \/ requests' = requests
    BY <1>14, <2>1 DEF GoOn
  <2> QED BY <1>1, <2>1, <2>2, RequestsGrow
<1>17. TypeInv'
  <2>1. /\ \A m \in Ring : server'[m].last \in Nat
        /\ server' = [m \in Ring |-> server'[m]] /\ epoch' \in [Ring -> Nat]
    BY <1>1 DEF serverVars, TypeInv
  <2>2. \A m \in Ring : client'[m].last \in Nat
    <3>1. q.last \in Nat
      BY <1>9
    <3>2. \A m \in Ring : client[m].last \in Nat
      BY DEF TypeInv
    <3> QED BY <1>13, <3>1, <3>2, Zenon
  <2>3. crossed' \in [Ring -> BOOLEAN]
    BY <1>15 DEF TypeInv
  <2> QED BY <1>1, <1>13, <1>14, <1>16, <2>1, <2>2, <2>3 DEF TypeInv
<1>18. \A m \in Ring : m # n => Known(m)'
  BY <1>1, <1>13, <1>14, <1>15, <1>16, OthersStay
<1>19. Known(n)'
  <2>1. epoch'[n] = epoch[n] /\ server'[n] = server[n]
    BY <1>1 DEF serverVars
  <2>2. client'[n].last = v /\ client'[n].last <= lastTime'[n]
    BY <1>9, <1>13, <1>14
  <2>3. noticed'[n] <= epoch'[n]
    BY <1>1, <1>5, <1>11, <1>14, <2>1 DEF Part, Known
  \* An answer of another epoch was not taken for news.
  <2>4. ASSUME ~overtaken'[n] PROVE ~overtaken[n] /\ e = a.epoch /\ (r.last > 0 => noticed[n] = e)
    <3>1. ~overtaken[n] /\ ~TakenForNews(n, a)
      BY <1>1, <2>4
    <3>2. l = 0 \/ a.epoch = noticed[n]
      BY <1>2, <3>1 DEF TakenForNews
    <3> QED BY <1>6, <1>11, <3>1, <3>2
  \* Where the items come from.
  <2>5. ASSUME NEW i \in Window(v, ClientSize)
        PROVE  /\ i \in Int /\ i > 0
               /\ i <= r.last => /\ i \in Window(r.last, ClientSize)
                                 /\ q.data[i % ClientSize] = r.data[i % ClientSize]
               /\ ~(i <= r.last) /\ i > f => /\ i - f \in 1..N /\ i = f + (i - f)
                                             /\ q.data[i % ClientSize] = a.list[i - f]
               /\ ~(i <= r.last) /\ ~(i > f) => q.data[i % ClientSize] = None
    <3>1. i \in Int /\ i > 0 /\ i <= v /\ v - i < ClientSize
      BY <2>5 DEF Window
    <3>2. i <= r.last => r.last - i < ClientSize
      BY <1>2, <1>6, <3>1
    <3>3. i > f => i - f \in 1..N /\ i = f + (i - f)
      <4>1. v - f = N
        BY <1>2, <1>4
      <4>2. i - f <= v - f
        BY <3>1
      <4>3. i - f \in Int /\ i = f + (i - f) /\ (i > f => i - f > 0)
        BY <3>1
      <4> QED BY <4>1, <4>2, <4>3
    <3>4. i <= r.last => i \in Window(r.last, ClientSize)
      BY <1>6, <3>1, <3>2 DEF Window
    <3>5. q.data[i % ClientSize] =
            IF i <= r.last THEN r.data[i % ClientSize] ELSE IF i > f THEN a.list[i - f] ELSE None
      BY <1>10, <2>5
    <3>6. /\ i <= r.last => q.data[i % ClientSize] = r.data[i % ClientSize]
          /\ ~(i <= r.last) /\ i > f => q.data[i % ClientSize] = a.list[i - f]
          /\ ~(i <= r.last) /\ ~(i > f) => q.data[i % ClientSize] = None
      BY <3>5, Zenon
    <3> QED BY <3>1, <3>3, <3>4, <3>6, Zenon
  <2>6. ASSUME ~overtaken'[n] PROVE Placed(n)'
    <3> SUFFICES ASSUME NEW i \in Window(v, ClientSize) PROVE q.data[i % ClientSize] \in Of(e, i)
      BY <1>13, <1>14, <2>2 DEF Placed, ClientWindow, ClientItem, C!Slot, Of
    <3>1. CASE i <= r.last
      <4>1. noticed[n] = e /\ i \in ClientWindow(n)
        BY <1>6, <2>4, <2>5, <2>6, <3>1 DEF ClientWindow
      <4>2. ClientItem(n, i) \in Of(e, i)
        BY <1>5, <2>4, <2>6, <4>1 DEF Known, Placed
      <4> QED BY <1>6, <2>5, <3>1, <4>2 DEF ClientItem, C!Slot
    <3>2. CASE ~(i <= r.last) /\ i > f
      <4>1. a.list[i - f] \in Of(a.epoch, f + (i - f))
        BY <1>1, <1>2, <1>4, <2>5, <3>2 DEF Part
      <4> QED BY <2>4, <2>5, <2>6, <3>2, <4>1
    <3>3. CASE ~(i <= r.last) /\ ~(i > f)
      BY <2>5, <3>3 DEF Of
    <3> QED BY <3>1, <3>2, <3>3
  <2>7. ASSUME ~crossed[n] PROVE Index(n)'
    <3>1. Index(n) /\ l <= v
      BY <1>2, <1>5, <2>7 DEF Known
    <3>2. ASSUME NEW p \in Range(requests'), p.ring = n PROVE p.index <= v + 1
      <4>1. CASE p \in Range(requests)
        <5>1. p \in RequestSet
          BY <4>1, RangeOfMessages DEF TypeInv
        <5>2. p.index <= l + 1 /\ p.index \in Nat
          BY <1>2, <3>1, <3>2, <4>1, <5>1 DEF Index, RequestSet
        <5> QED BY <1>2, <5>2
      <4>2. CASE p.index = v + 1
        BY <1>2, <4>2
      <4> QED BY <1>16, <3>2, <4>1, <4>2
    <3>3. ASSUME NEW b \in Range(answers'), b.ring = n, b.list # <<>>
          PROVE  Start(b) <= v \/ Start(b) + ServerSize <= b.last
      <4>1. Start(b) <= l \/ Start(b) + ServerSize <= b.last
        BY <1>1, <1>2, <3>1, <3>3 DEF Index
      <4>2. Start(b) \in Int
        <5>1. b \in AnswerSet
          BY <1>1, <3>3, RangeOfMessages DEF TypeInv
        <5> QED BY <5>1 DEF AnswerSet, Start
      <4> QED BY <1>2, <4>1, <4>2
    <3> QED BY <1>14, <3>2, <3>3 DEF Index, Start
  <2>8. ASSUME ~overtaken'[n], noticed'[n] = epoch'[n] PROVE Gap(n)' /\ (~crossed[n] => Agree(n)')
    <3>1. a.epoch = epoch[n] /\ a.val <= a.last /\ a.last <= server[n].last
      BY <1>1, <1>14, <2>1, <2>4, <2>8 DEF Now
    <3>2. PICK s \in Nat, al \in Nat : s = server[n].last /\ al = a.last /\ v <= al /\ al <= s
      BY <1>1, <1>2, <3>1 DEF TypeInv, AnswerSet
    <3>3. Gap(n)'
      <4>1. \A i \in Recent(n)' : ~(v < i /\ i <= v)
        <5> SUFFICES ASSUME NEW i \in Window(s, ServerSize), v < i, i <= v PROVE FALSE
          BY <2>1, <3>2 DEF Recent, ServerWindow
        <5>1. i \in Int
          BY DEF Window
        <5> QED BY <5>1, <1>2
      <4>2. v <= s
        BY <3>2
      <4> QED BY <1>14, <2>1, <2>2, <3>2, <4>1, <4>2 DEF Gap
    <3>4. ASSUME ~crossed[n] PROVE Agree(n)'
      <4> SUFFICES ASSUME NEW i \in Window(v, ClientSize), i \in ServerWindow(n), i \in Window(s, ClientSize)
                   PROVE  q.data[i % ClientSize] = ServerItem(n, i)
        BY <1>9, <1>13, <2>1, <3>2
           DEF Agree, ClientWindow, ClientItem, C!Slot, ServerWindow, ServerItem, S!Slot
      <4>1. CASE i <= r.last
        <5>1. r.last > 0 /\ i \in ClientWindow(n)
          BY <1>6, <2>5, <4>1 DEF ClientWindow
        <5>2. noticed[n] = epoch[n] /\ ~overtaken[n]
          BY <1>14, <2>1, <2>4, <2>8, <5>1
        <5>3. Agree(n)
          BY <1>5, <3>4, <5>2 DEF Known
        <5>4. ClientItem(n, i) = ServerItem(n, i)
          BY <3>2, <5>1, <5>3 DEF Agree
        <5> QED BY <1>6, <2>5, <4>1, <5>4 DEF ClientItem, C!Slot
      <4>2. CASE ~(i <= r.last) /\ i > f
        <5>1. a.list[i - f] = ServerItem(n, f + (i - f))
          <6>1. PICK k \in 1..N : k = i - f /\ i = f + k
            BY <2>5, <4>2
          <6>2. Start(a) + k = i /\ i \in ServerWindow(a.ring)
            BY <1>4, <6>1
          <6>3. a.list[k] = ServerItem(n, Start(a) + k)
            BY <1>1, <1>2, <3>1, <6>2 DEF Now
          <6> QED BY <1>4, <6>1, <6>3
        <5> QED BY <2>5, <4>2, <5>1
      <4>3. CASE ~(i <= r.last) /\ ~(i > f)
        <5>1. f <= l \/ f + ServerSize <= al
          BY <1>1, <1>2, <1>4, <1>5, <3>2, <3>4 DEF Known, Index
        <5>2. CASE f <= l
          <6>1. i <= l /\ r.last < i /\ l > 0
            BY <1>2, <1>4, <1>6, <2>5, <4>3, <5>2
          <6>2. noticed[n] = epoch[n] /\ ~overtaken[n]
            BY <1>11, <1>14, <2>1, <2>4, <2>8, <6>1
          <6>3. Gap(n)
            BY <1>5, <6>2 DEF Known
          <6>4. i \in Recent(n)
            BY <3>2 DEF Recent
          <6> QED BY <1>2, <1>6, <6>1, <6>3, <6>4 DEF Gap
        <5>3. CASE f + ServerSize <= al
          <6>1. s - i < ServerSize
            BY <3>2 DEF ServerWindow, Window
          <6>2. i \in Int /\ i <= f
            BY <2>5, <4>3
          <6>3. i + ServerSize <= s
            BY <3>2, <5>3, <6>2
          <6> QED BY <3>2, <6>1, <6>2, <6>3
        <5> QED BY <5>1, <5>2, <5>3
      <4> QED BY <4>1, <4>2, <4>3
    <3> QED BY <3>3, <3>4
  <2> QED BY <1>15, <2>2, <2>3, <2>6, <2>7, <2>8 DEF Known
<1> QED BY <1>1, <1>17, <1>18, <1>19 DEF KnownInv

\* An answer without items is not appended.
LEMMA NoListKeeps ==
  ASSUME IInv, TcpRead, NEW a, a = Head(answers), NEW n, n = a.ring,
         UNCHANGED clientVars, GoOn(n, a), a.list = <<>>
  PROVE  IInv'
<1> USE DEF IInv
<1>1. /\ n \in Ring /\ UNCHANGED serverVars /\ ServerInv' /\ AnswersInv'
      /\ answers' \in Seq(AnswerSet) /\ \A b \in Range(answers') : b \in Range(answers)
      /\ overtaken' \in [Ring -> BOOLEAN]
      /\ overtaken'[n] <=> (overtaken[n] \/ TakenForNews(n, a))
      /\ \A m \in Ring : m # n => overtaken'[m] = overtaken[m]
  BY ReadFacts
<1>2. requests' = requests
  BY DEF GoOn
<1>3. TypeInv'
  BY <1>1, <1>2 DEF TypeInv, serverVars, clientVars
<1>4. ASSUME NEW m \in Ring PROVE Known(m)'
  <2>1. Known(m)
    BY DEF KnownInv
  <2>2. ASSUME ~crossed[m] PROVE Index(m)'
    <3>1. Index(m)
      BY <2>1, <2>2 DEF Known
    <3> QED BY <1>1, <1>2, <3>1, IndexStays DEF clientVars
  <2>3. /\ server'[m] = server[m] /\ client'[m] = client[m] /\ lastTime'[m] = lastTime[m]
        /\ epoch'[m] = epoch[m] /\ noticed'[m] = noticed[m] /\ crossed'[m] = crossed[m]
    BY <1>1 DEF serverVars, clientVars
  <2>4. overtaken[m] => overtaken'[m]
    BY <1>1
  <2> QED BY <2>1, <2>2, <2>3, <2>4, KnownStays
<1> QED BY <1>1, <1>3, <1>4 DEF KnownInv

LEMMA TcpReadKeeps == ASSUME IInv, TcpRead PROVE IInv'
<1>1. PICK a, n : a = Head(answers) /\ n = a.ring
  OBVIOUS
<1>2. IF Outdated(n, a) THEN BeginAgain(n, a)
      ELSE (IF a.list # <<>> THEN AppendList(n, a) ELSE UNCHANGED clientVars) /\ GoOn(n, a)
  BY <1>1 DEF TcpRead
<1>3. CASE Outdated(n, a)
  BY <1>1, <1>2, <1>3, BeginAgainKeeps
<1>4. CASE ~Outdated(n, a) /\ a.list # <<>>
  BY <1>1, <1>2, <1>4, AppendListKeeps
<1>5. CASE ~Outdated(n, a) /\ a.list = <<>>
  BY <1>1, <1>2, <1>5, NoListKeeps
<1> QED BY <1>3, <1>4, <1>5

LEMMA StepKeeps == ASSUME IInv, [Next]_vars PROVE IInv'
<1>1. CASE \E n \in Used : ServerClears(n)
  BY <1>1, ServerClearsKeeps
<1>2. CASE \E n \in Used, pos \in 1..MaxIndex : ServerAppends(n, pos)
  BY <1>2, ServerAppendsKeeps
<1>3. CASE ServerAnswers
  BY <1>3, ServerAnswersKeeps
<1>4. CASE Connect
  BY <1>4, LinkStep DEF Connect
<1>5. CASE Disconnect
  BY <1>5, LinkStep DEF Disconnect
<1>6. CASE Timeout
  BY <1>6, LinkStep DEF Timeout
<1>7. CASE TcpRead
  BY <1>7, TcpReadKeeps
<1>8. CASE UNCHANGED vars
  BY <1>8 DEF vars, serverVars, clientVars, linkVars, IInv, TypeInv, ServerInv, AnswersInv, KnownInv,
              Known, Placed, Index, Gap, Recent, Agree, Part, Now, Start, Of,
              ClientWindow, ServerWindow, ClientItem, ServerItem
<1> QED BY <1>1, <1>2, <1>3, <1>4, <1>5, <1>6, <1>7, <1>8 DEF Next

LEMMA Invariance == Spec => []IInv
<1>1. Init => IInv
  BY InitEstablishes
<1>2. IInv /\ [Next]_vars => IInv'
  BY StepKeeps
<1> QED BY <1>1, <1>2, PTL DEF Spec

\* In every state each item a client holds was the server's of that very index and of the one
\* epoch the client was begun in, but for the index read() answers wrongly, unless the ring was
\* overtaken or crossed (RrdServer::transmit(), RrdClient::tcpRead(), Rrd::append()).
THEOREM ItemsStayInPlace == Spec => []ItemsInPlace
<1>1. IInv => ItemsInPlace
  BY DEF IInv, KnownInv, Known, Placed, Of, ItemsInPlace
<1> QED BY <1>1, Invariance, PTL

\* In every state a client that knows of the last clear() of the server, and has not crossed or
\* been overtaken, has the server's item at each index that both hold and it has room for,
\* whatever requests were repeated and answers or connections lost (RrdClient::tcpRead(),
\* request(), Rrd::append()).
THEOREM NoneMissed == Spec => []SameItems
<1>1. IInv => SameItems
  BY DEF IInv, KnownInv, Known, SameItems
<1> QED BY <1>1, Invariance, PTL

(***************************************************************************)
(* The messages of a ring are in order.                                     *)
(***************************************************************************)
Earlier(s, x, y) == \E i, j \in DOMAIN s : i < j /\ s[i] = x /\ s[j] = y

\* A request asks for nothing an earlier answer already has, but for what was overwritten.
Before(a, q) ==
  IF a.list = <<>> THEN a.val < q.index ELSE Start(a) < q.index \/ Start(a) + ServerSize <= a.last
\* The epochs of the answers never go back, also behind the one of the client.
Epochs(n) ==
  /\ \A a \in Range(answers) : a.ring = n => noticed[n] <= a.epoch
  /\ \A a, b \in Range(answers) :
       a.ring = n /\ b.ring = n /\ Earlier(answers, a, b) => a.epoch <= b.epoch
\* Each request asks for what follows the ones before, and each answer of the epoch of the
\* server ends where the ones before end or later, unless what it was asked for is gone.
Sorted(n) ==
  /\ \A p, q \in Range(requests) :
       p.ring = n /\ q.ring = n /\ Earlier(requests, p, q) => p.index <= q.index
  /\ \A a \in Range(answers), q \in Range(requests) : a.ring = n /\ q.ring = n => Before(a, q)
  /\ \A a \in Range(answers) : a.ring = n /\ a.list = <<>> => a.val <= lastTime[n]
  /\ \A a, b \in Range(answers) :
       /\ a.ring = n /\ b.ring = n /\ Earlier(answers, a, b)
       /\ a.epoch = epoch[n] /\ b.epoch = epoch[n] /\ ~b.overwritten
       => a.val <= b.val
\* The client is behind what is under way to it.
Behind(n) ==
  noticed[n] = epoch[n] =>
    /\ lastTime[n] <= server[n].last
    /\ \A a \in Range(answers) : a.ring = n /\ ~a.overwritten => lastTime[n] <= a.val
    /\ \A q \in Range(requests) : q.ring = n =>
         \/ lastTime[n] < q.index + TransmitCount
         \/ lastTime[n] + ServerSize <= server[n].last + TransmitCount
OrderAt(n) == Epochs(n) /\ (~crossed[n] => Sorted(n) /\ Behind(n))
Short == \A a \in Range(answers) : Len(a.list) <= TransmitCount
OrderInv == Short /\ \A n \in Ring : OrderAt(n)

(***************************************************************************)
(* Which message is before which.                                           *)
(***************************************************************************)
LEMMA EarlierInRange ==
  ASSUME NEW s, NEW x, NEW y, Earlier(s, x, y)
  PROVE  x \in Range(s) /\ y \in Range(s)
BY DEF Earlier, Range

LEMMA EarlierInEmpty == \A x, y : ~Earlier(<<>>, x, y)
BY DEF Earlier

LEMMA EarlierInTail ==
  ASSUME NEW T, NEW s \in Seq(T), s # <<>>
  PROVE  /\ \A x, y : Earlier(Tail(s), x, y) => Earlier(s, x, y)
         /\ \A y \in Range(Tail(s)) : Earlier(s, Head(s), y)
<1>1. PICK u \in Seq(T) : u = Tail(s)
  BY HeadTailProperties
<1>2. Len(s) \in Nat \ {0} /\ Len(u) = Len(s) - 1 /\ DOMAIN s = 1..Len(s) /\ DOMAIN u = 1..Len(u)
  BY <1>1
<1>3. \A i \in DOMAIN u : i \in Nat /\ i > 0 /\ i + 1 \in DOMAIN s /\ s[i + 1] = u[i]
  BY <1>1, <1>2
<1>4. 1 \in DOMAIN s /\ s[1] = Head(s)
  BY <1>2
<1>5. ASSUME NEW x, NEW y, Earlier(u, x, y) PROVE Earlier(s, x, y)
  <2>1. PICK i \in DOMAIN u, j \in DOMAIN u : i < j /\ u[i] = x /\ u[j] = y
    BY <1>5 DEF Earlier
  <2>2. i + 1 < j + 1
    BY <1>3, <2>1
  <2> QED BY <1>3, <2>1, <2>2 DEF Earlier
<1>6. ASSUME NEW y \in Range(u) PROVE Earlier(s, Head(s), y)
  <2>1. PICK i \in DOMAIN u : u[i] = y
    BY DEF Range
  <2>2. 1 < i + 1
    BY <1>3
  <2> QED BY <1>3, <1>4, <2>1, <2>2 DEF Earlier
<1> QED BY <1>1, <1>5, <1>6

LEMMA EarlierInConcat ==
  ASSUME NEW T, NEW s \in Seq(T), NEW t \in Seq(T), NEW x, NEW y, Earlier(s \o t, x, y)
  PROVE  Earlier(s, x, y) \/ (x \in Range(s) /\ y \in Range(t)) \/ Earlier(t, x, y)
<1>1. PICK m \in Nat, k \in Nat : m = Len(s) /\ k = Len(t) /\ DOMAIN s = 1..m /\ DOMAIN t = 1..k
  OBVIOUS
<1>2. PICK u : u = s \o t
  OBVIOUS
<1>3. DOMAIN u = 1..(m + k) /\ \A i \in 1..(m + k) : u[i] = IF i <= m THEN s[i] ELSE t[i - m]
  <2>1. u \in Seq(T) /\ Len(u) = m + k /\ \A i \in 1..(m + k) : u[i] = IF i <= m THEN s[i] ELSE t[i - m]
    BY <1>1, <1>2, ConcatProperties
  <2> QED BY <2>1
<1>4. \A i \in 1..(m + k) : (i <= m => i \in 1..m) /\ (~(i <= m) => i - m \in 1..k)
  BY <1>1
<1>5. PICK i \in 1..(m + k), j \in 1..(m + k) : i < j /\ u[i] = x /\ u[j] = y
  BY <1>2, <1>3 DEF Earlier
<1>6. CASE i <= m /\ j <= m
  BY <1>1, <1>3, <1>4, <1>5, <1>6 DEF Earlier
<1>7. CASE i <= m /\ ~(j <= m)
  <2>1. x = s[i] /\ i \in DOMAIN s /\ y = t[j - m] /\ j - m \in DOMAIN t
    BY <1>1, <1>3, <1>4, <1>5, <1>7
  <2> QED BY <2>1 DEF Range
<1>8. CASE ~(i <= m)
  <2>1. ~(j <= m) /\ i - m < j - m
    BY <1>1, <1>5, <1>8
  <2>2. x = t[i - m] /\ i - m \in DOMAIN t /\ y = t[j - m] /\ j - m \in DOMAIN t
    BY <1>1, <1>3, <1>4, <1>5, <1>8, <2>1
  <2> QED BY <2>1, <2>2 DEF Earlier
<1> QED BY <1>6, <1>7, <1>8

LEMMA EarlierInAppend ==
  ASSUME NEW T, NEW s \in Seq(T), NEW e \in T, NEW x, NEW y, Earlier(Append(s, e), x, y)
  PROVE  Earlier(s, x, y) \/ (x \in Range(s) /\ y = e)
<1>1. PICK t \in Seq(T) : t = <<e>> /\ Append(s, e) = s \o t /\ Len(t) = 1 /\ DOMAIN t = 1..1 /\ t[1] = e
  <2>1. <<e>> \in Seq(T) /\ Len(<<e>>) = 1 /\ DOMAIN <<e>> = 1..1 /\ <<e>>[1] = e
    OBVIOUS
  <2>2. Append(s, e) = s \o <<e>>
    BY AppendIsConcat
  <2> QED BY <2>1, <2>2
<1>2. Earlier(s, x, y) \/ (x \in Range(s) /\ y \in Range(t)) \/ Earlier(t, x, y)
  <2>1. Earlier(s \o t, x, y)
    BY <1>1
  <2> QED BY <2>1, EarlierInConcat
<1>3. ~Earlier(t, x, y)
  BY <1>1 DEF Earlier
<1>4. \A z \in Range(t) : z = e
  BY <1>1 DEF Range
<1> QED BY <1>2, <1>3, <1>4

LEMMA RequestAllOrder ==
  ASSUME TypeInv, NEW x, NEW y, Earlier(RequestAll, x, y), x.ring = y.ring
  PROVE  \/ Earlier(requests, x, y)
         \/ x \in Range(requests) /\ y.index = lastTime[y.ring] + 1
<1>1. PICK t : t = [n \in Ring |-> Request(n)]
  OBVIOUS
<1>2. \A n \in Ring : Request(n) \in RequestSet
  BY DEF TypeInv, Request, RequestSet
<1>3. t \in Seq(RequestSet) /\ DOMAIN t = Ring
  BY <1>1, <1>2 DEF Ring
<1>4. RequestAll = requests \o t
  BY <1>1 DEF RequestAll
<1>5. requests \in Seq(RequestSet)
  BY DEF TypeInv
<1>6. Earlier(requests, x, y) \/ (x \in Range(requests) /\ y \in Range(t)) \/ Earlier(t, x, y)
  BY <1>3, <1>4, <1>5, EarlierInConcat
<1>7. ~Earlier(t, x, y)
  <2> SUFFICES ASSUME NEW i \in Ring, NEW j \in Ring, i < j, t[i] = x, t[j] = y PROVE FALSE
    BY <1>3 DEF Earlier
  <2>1. x.ring = i /\ y.ring = j
    BY <1>1 DEF Request
  <2>2. i \in Int
    BY DEF Ring
  <2>3. i = j
    BY <2>1
  <2>4. ~(i < i)
    BY <2>2
  <2> QED BY <2>3, <2>4
<1>8. ASSUME y \in Range(t) PROVE y.index = lastTime[y.ring] + 1
  <2>1. PICK n \in Ring : y = Request(n)
    BY <1>1, <1>3, <1>8 DEF Range
  <2> QED BY <2>1 DEF Request
<1> QED BY <1>6, <1>7, <1>8

\* How far an answer reaches.
LEMMA AnswerReach ==
  ASSUME TypeInv, NEW q \in RequestSet, NEW a, a = Answer(q)
  PROVE  /\ Len(a.list) <= TransmitCount /\ a.val \in Nat /\ a.val <= a.last
         /\ a.last = server[q.ring].last /\ a.epoch = epoch[q.ring]
         /\ a.list = <<>> => a.val < q.index
         /\ ~a.overwritten => /\ a.last < q.index + ServerSize
                              /\ a.val = a.last \/ a.val + 1 = q.index + TransmitCount
<1>1. PICK n, v : n = q.ring /\ v = q.index /\ n \in Ring /\ v \in Nat /\ v > 0
  BY DEF RequestSet
<1>2. PICK r, z : r = server[n] /\ z = r.last /\ z \in Nat
  BY <1>1 DEF TypeInv
<1>3. PICK read : read = S!Extract(r, v, TransmitCount)
  OBVIOUS
<1>4. a = [ring |-> n, val |-> read.last, list |-> read.items, last |-> z, epoch |-> epoch[n],
           overwritten |-> z - v >= ServerSize]
  BY <1>1, <1>2, <1>3 DEF Answer
<1>5. /\ a.val = read.last /\ a.list = read.items /\ a.last = z /\ a.epoch = epoch[n]
      /\ a.overwritten = (z - v >= ServerSize)
  BY <1>4
<1>6. ~a.overwritten => z < v + ServerSize /\ z - v < ServerSize
  <2>1. ~a.overwritten => ~(z - v >= ServerSize)
    BY <1>5, Zenon
  <2>2. ~(z - v >= ServerSize) => z < v + ServerSize /\ z - v < ServerSize
    BY <1>1, <1>2
  <2> QED BY <2>1, <2>2, Zenon
<1>7. CASE v > z
  <2>1. read.last = z /\ read.items = <<>>
    BY <1>2, <1>3, <1>7 DEF S!Extract
  <2>2. Len(a.list) = 0
    BY <1>5, <2>1
  <2> QED BY <1>1, <1>2, <1>5, <1>6, <1>7, <2>1, <2>2
<1>8. CASE ~(v > z)
  <2>1. PICK f \in Nat : /\ f = S!First(r, v) /\ f = IF z - v > ServerSize THEN 1 + z - ServerSize ELSE v
                         /\ f > 0 /\ f <= z
    BY <1>1, <1>2, <1>8 DEF S!First
  <2>2. PICK m \in Nat : /\ m = S!Extent(r, v, TransmitCount) /\ m > 0 /\ m <= 1 + z - f
                         /\ m <= TransmitCount /\ (m = TransmitCount \/ m = 1 + z - f)
    BY <1>2, <2>1 DEF S!Extent, S!Least
  <2>3. read.last = f + m - 1 /\ read.items = [k \in 1..m |-> r.data[S!Slot(f + k - 1)]]
    BY <1>2, <1>3, <1>8, <2>1, <2>2 DEF S!Extract
  <2>4. Len(a.list) = m /\ a.list # <<>> /\ a.val = f + m - 1
    <3>1. a.list = [k \in 1..m |-> r.data[S!Slot(f + k - 1)]]
      BY <1>5, <2>3
    <3>2. Len(a.list) = m
      BY <2>2, <3>1
    <3> QED BY <1>5, <2>2, <2>3, <3>2
  <2>5. a.val \in Nat /\ a.val <= z
    <3>1. f + m - 1 \in Nat /\ f + m - 1 <= z
      BY <1>1, <1>2, <2>1, <2>2
    <3> QED BY <2>4, <3>1
  <2>6. ASSUME ~a.overwritten PROVE a.val = z \/ a.val + 1 = v + TransmitCount
    <3>1. z - v < ServerSize
      BY <1>6, <2>6, Zenon
    <3>2. f = v
      BY <1>1, <1>2, <2>1, <3>1
    <3>3. f + m - 1 = z \/ f + m - 1 + 1 = v + TransmitCount
      BY <1>1, <1>2, <2>2, <3>2
    <3> QED BY <2>4, <3>3
  <2> QED BY <1>1, <1>2, <1>5, <1>6, <2>2, <2>4, <2>5, <2>6
<1> QED BY <1>7, <1>8

(***************************************************************************)
(* The steps preserve the order.                                            *)
(***************************************************************************)
\* A step that leaves a ring alone, or loses messages of it.
LEMMA OrderStays ==
  ASSUME NEW n \in Ring, OrderAt(n),
         server'[n] = server[n] /\ epoch'[n] = epoch[n] /\ lastTime'[n] = lastTime[n],
         noticed'[n] = noticed[n] /\ crossed'[n] = crossed[n],
         \A x \in Range(requests') : x \in Range(requests) \/ x.ring # n,
         \A x, y : Earlier(requests', x, y) => Earlier(requests, x, y) \/ y.ring # n,
         \A x \in Range(answers') : x \in Range(answers),
         \A x, y : Earlier(answers', x, y) => Earlier(answers, x, y)
  PROVE  OrderAt(n)'
<1>1. Epochs(n)'
  BY DEF OrderAt, Epochs
<1>2. ASSUME Sorted(n) PROVE Sorted(n)'
  <2>1. \A p, q \in Range(requests') :
          p.ring = n /\ q.ring = n /\ Earlier(requests', p, q) => p.index <= q.index
    BY <1>2 DEF Sorted
  <2>2. \A a \in Range(answers'), q \in Range(requests') : a.ring = n /\ q.ring = n => Before(a, q)
    BY <1>2 DEF Sorted
  <2>3. \A a \in Range(answers') : a.ring = n /\ a.list = <<>> => a.val <= lastTime'[n]
    BY <1>2 DEF Sorted
  <2>4. \A a, b \in Range(answers') :
          /\ a.ring = n /\ b.ring = n /\ Earlier(answers', a, b)
          /\ a.epoch = epoch'[n] /\ b.epoch = epoch'[n] /\ ~b.overwritten
          => a.val <= b.val
    BY <1>2 DEF Sorted
  <2> QED BY <2>1, <2>2, <2>3, <2>4 DEF Sorted, Before, Start
<1>3. Behind(n) => Behind(n)'
  BY DEF Behind
<1> QED BY <1>1, <1>2, <1>3 DEF OrderAt

LEMMA ShortStays ==
  ASSUME Short, \A x \in Range(answers') : x \in Range(answers)
  PROVE  Short'
BY DEF Short

LEMMA OrderInit == Init => OrderInv
<1> SUFFICES ASSUME Init PROVE OrderInv
  OBVIOUS
<1>1. Range(answers) = {} /\ Range(requests) = {}
  BY DEF Init, Range
<1>2. \A n \in Ring : lastTime[n] = 0 /\ server[n].last = 0
  BY DEF Init, S!EmptyRing
<1>3. \A n \in Ring : Epochs(n) /\ Sorted(n)
  BY <1>1 DEF Epochs, Sorted
<1>4. \A n \in Ring : Behind(n)
  BY <1>1, <1>2 DEF Behind
<1> QED BY <1>1, <1>3, <1>4 DEF OrderInv, OrderAt, Short

LEMMA ServerAppendsOrder ==
  ASSUME TypeInv, OrderInv, NEW n \in Used, NEW pos \in 1..MaxIndex, ServerAppends(n, pos)
  PROVE  OrderInv'
<1>1. n \in Ring /\ pos \in Nat
  BY DEF Ring
<1>2. /\ epoch' = epoch /\ lastTime' = lastTime /\ noticed' = noticed /\ crossed' = crossed
      /\ requests' = requests /\ answers' = answers
  BY DEF ServerAppends, clientVars
<1>3. PICK q : q = S!Appended(server[n], pos, <<epoch[n], pos>>)
  OBVIOUS
<1>4. q.last = pos
  BY <1>3 DEF S!Appended
<1>5. server'[n] = q /\ \A m \in Ring : m # n => server'[m] = server[m]
  <2>1. server' = [server EXCEPT ![n] = q] /\ server = [m \in Ring |-> server[m]]
    BY <1>3 DEF ServerAppends, TypeInv
  <2> QED BY <1>1, <2>1, ExceptAt
<1>6. ASSUME NEW m \in Ring, m # n PROVE OrderAt(m)'
  BY <1>2, <1>5, <1>6, OrderStays DEF OrderInv
<1>7. OrderAt(n)'
  <2>1. Epochs(n) /\ (~crossed[n] => Sorted(n) /\ Behind(n))
    BY <1>1 DEF OrderInv, OrderAt
  <2>2. Epochs(n)' <=> Epochs(n)
    BY <1>2 DEF Epochs, Earlier
  <2>3. Sorted(n)' <=> Sorted(n)
    BY <1>2 DEF Sorted, Earlier, Before, Start
  <2>4. ASSUME Behind(n) PROVE Behind(n)'
    <3>1. PICK l, s : l = lastTime[n] /\ s = server[n].last /\ l \in Nat /\ s \in Nat /\ s <= pos
      <4>1. lastTime[n] \in Nat /\ server[n].last \in Nat
        BY <1>1 DEF TypeInv
      <4>2. pos > server[n].last
        BY DEF ServerAppends
      <4>3. server[n].last <= pos
        BY <1>1, <4>1, <4>2
      <4> QED BY <4>1, <4>3
    <3>2. l <= s => l <= pos
      BY <1>1, <3>1
    <3>3. l + ServerSize <= s + TransmitCount => l + ServerSize <= pos + TransmitCount
      BY <1>1, <3>1
    <3> QED BY <1>2, <1>4, <1>5, <2>4, <3>1, <3>2, <3>3 DEF Behind
  <2> QED BY <1>2, <2>1, <2>2, <2>3, <2>4 DEF OrderAt
<1>8. Short'
  BY <1>2, ShortStays DEF OrderInv
<1> QED BY <1>6, <1>7, <1>8 DEF OrderInv

LEMMA ServerClearsOrder ==
  ASSUME IInv, OrderInv, NEW n \in Used, ServerClears(n)
  PROVE  OrderInv'
<1>1. n \in Ring /\ TypeInv /\ AnswersInv /\ Known(n)
  BY DEF Ring, IInv, KnownInv
<1>2. /\ lastTime' = lastTime /\ noticed' = noticed /\ crossed' = crossed
      /\ requests' = requests /\ answers' = answers
  BY DEF ServerClears, clientVars
<1>3. PICK e \in Nat : e = epoch[n] + 1
  BY <1>1 DEF TypeInv
<1>4. \A m \in Ring : m # n => server'[m] = server[m]
  <2>1. server' = [server EXCEPT ![n] = S!EmptyRing] /\ server = [m \in Ring |-> server[m]]
    BY <1>1 DEF ServerClears, TypeInv
  <2> QED BY <1>1, <2>1, ExceptAt
<1>5. epoch'[n] = e /\ \A m \in Ring : m # n => epoch'[m] = epoch[m]
  <2>1. epoch' = [epoch EXCEPT ![n] = e] /\ epoch = [m \in Ring |-> epoch[m]]
    BY <1>1, <1>3 DEF ServerClears, TypeInv
  <2> QED BY <1>1, <2>1, ExceptAt
<1>6. ASSUME NEW m \in Ring, m # n PROVE OrderAt(m)'
  BY <1>2, <1>4, <1>5, <1>6, OrderStays DEF OrderInv
<1>7. OrderAt(n)'
  <2>1. Epochs(n) /\ (~crossed[n] => Sorted(n) /\ Behind(n))
    BY <1>1 DEF OrderInv, OrderAt
  <2>2. Epochs(n)' <=> Epochs(n)
    BY <1>2 DEF Epochs, Earlier
  <2>3. noticed[n] # e
    BY <1>1, <1>3 DEF Known, TypeInv
  <2>4. \A a \in Range(answers) : a.ring = n => a.epoch # e
    <3> SUFFICES ASSUME NEW a \in Range(answers), a.ring = n PROVE a.epoch # e
      OBVIOUS
    <3>1. a \in AnswerSet /\ a.epoch <= epoch[n]
      BY <1>1, RangeOfMessages DEF TypeInv, AnswersInv, Part
    <3>2. a.epoch \in Nat /\ epoch[n] \in Nat
      BY <1>1, <3>1 DEF AnswerSet, TypeInv
    <3> QED BY <1>3, <3>1, <3>2
  <2>5. Sorted(n) => Sorted(n)'
    BY <1>2, <1>5, <2>4 DEF Sorted, Earlier, Before, Start
  <2>6. Behind(n)'
    BY <1>2, <1>5, <2>3 DEF Behind
  <2> QED BY <1>2, <2>1, <2>2, <2>5, <2>6 DEF OrderAt
<1>8. Short'
  BY <1>2, ShortStays DEF OrderInv
<1> QED BY <1>6, <1>7, <1>8 DEF OrderInv

\* The connection is lost with all that is under way.
LEMMA LostOrder ==
  ASSUME OrderInv, UNCHANGED <<serverVars, clientVars>>, requests' = <<>>, answers' = <<>>
  PROVE  OrderInv'
<1>1. Range(requests') = {} /\ Range(answers') = {}
  BY DEF Range
<1>2. \A x, y : ~Earlier(requests', x, y) /\ ~Earlier(answers', x, y)
  BY EarlierInEmpty
<1>3. ASSUME NEW n \in Ring PROVE OrderAt(n)'
  <2>1. /\ server'[n] = server[n] /\ epoch'[n] = epoch[n] /\ lastTime'[n] = lastTime[n]
        /\ noticed'[n] = noticed[n] /\ crossed'[n] = crossed[n]
    BY DEF serverVars, clientVars
  <2> QED BY <1>1, <1>2, <2>1, OrderStays DEF OrderInv
<1> QED BY <1>1, <1>3 DEF OrderInv, Short

\* A new request is in order with what is under way.
LEMMA NewRequestLast ==
  ASSUME IInv, OrderInv, NEW n \in Ring, ~crossed[n], NEW l \in Nat, lastTime[n] <= l
  PROVE  /\ \A p \in Range(requests) : p.ring = n => p.index <= l + 1
         /\ \A a \in Range(answers) : \A q : a.ring = n /\ q.index = l + 1 => Before(a, q)
<1>1. TypeInv /\ Index(n) /\ Sorted(n) /\ lastTime[n] \in Nat
  BY DEF IInv, KnownInv, Known, TypeInv, OrderInv, OrderAt
<1>2. ASSUME NEW p \in Range(requests), p.ring = n PROVE p.index <= l + 1
  <2>1. p.index \in Nat
    <3>1. p \in RequestSet
      BY <1>1, RangeOfMessages DEF TypeInv
    <3> QED BY <3>1 DEF RequestSet
  <2>2. p.index <= lastTime[n] + 1
    BY <1>1, <1>2 DEF Index
  <2> QED BY <1>1, <2>1, <2>2
<1>3. ASSUME NEW a \in Range(answers), NEW q, a.ring = n, q.index = l + 1 PROVE Before(a, q)
  <2>1. a \in AnswerSet
    BY <1>1, RangeOfMessages DEF TypeInv
  <2>2. a.val \in Nat /\ Start(a) \in Int
    BY <2>1 DEF AnswerSet, Start
  <2>3. CASE a.list = <<>>
    <3>1. a.val <= lastTime[n]
      BY <1>1, <1>3, <2>3 DEF Sorted
    <3>2. a.val < l + 1
      BY <1>1, <2>2, <3>1
    <3> QED BY <1>3, <2>3, <3>2 DEF Before
  <2>4. CASE a.list # <<>>
    <3>1. Start(a) <= lastTime[n] \/ Start(a) + ServerSize <= a.last
      BY <1>1, <1>3, <2>4 DEF Index
    <3>2. Start(a) <= lastTime[n] => Start(a) < l + 1
      BY <1>1, <2>2
    <3> QED BY <1>3, <2>4, <3>1, <3>2 DEF Before
  <2> QED BY <2>3, <2>4
<1> QED BY <1>2, <1>3

LEMMA RequestAllOrdered ==
  ASSUME IInv, OrderInv, UNCHANGED <<serverVars, clientVars>>, requests' = RequestAll, answers' = answers
  PROVE  OrderInv'
<1>1. TypeInv
  BY DEF IInv
<1>2. \A q \in Range(requests') : q \in Range(requests) \/ q.index = lastTime[q.ring] + 1
  BY <1>1, RequestAllFacts
<1>3. ASSUME NEW n \in Ring PROVE OrderAt(n)'
  <2>1. Epochs(n) /\ (~crossed[n] => Sorted(n) /\ Behind(n))
    BY DEF OrderInv, OrderAt
  <2>2. /\ server'[n] = server[n] /\ epoch'[n] = epoch[n] /\ lastTime'[n] = lastTime[n]
        /\ noticed'[n] = noticed[n] /\ crossed'[n] = crossed[n]
    BY DEF serverVars, clientVars
  <2>3. Epochs(n)'
    BY <2>1, <2>2 DEF Epochs, Earlier
  <2>4. lastTime[n] \in Nat /\ lastTime[n] <= lastTime[n]
    BY <1>1 DEF TypeInv
  <2>5. ASSUME ~crossed[n] PROVE Sorted(n)'
    <3>0. Sorted(n)
      BY <2>1, <2>5
    <3>1. /\ \A p \in Range(requests) : p.ring = n => p.index <= lastTime[n] + 1
          /\ \A a \in Range(answers) : \A q : a.ring = n /\ q.index = lastTime[n] + 1 => Before(a, q)
      BY <2>4, <2>5, NewRequestLast
    <3>2. \A p, q \in Range(requests') :
            p.ring = n /\ q.ring = n /\ Earlier(requests', p, q) => p.index <= q.index
      <4> SUFFICES ASSUME NEW p \in Range(requests'), NEW q \in Range(requests'),
                          p.ring = n, q.ring = n, Earlier(RequestAll, p, q)
                   PROVE  p.index <= q.index
        OBVIOUS
      <4>1. Earlier(requests, p, q) \/ (p \in Range(requests) /\ q.index = lastTime[n] + 1)
        BY <1>1, RequestAllOrder
      <4> QED BY <3>0, <3>1, <4>1, EarlierInRange DEF Sorted
    <3>3. \A a \in Range(answers), q \in Range(requests') : a.ring = n /\ q.ring = n => Before(a, q)
      BY <1>2, <3>0, <3>1 DEF Sorted
    <3> QED BY <2>2, <3>0, <3>2, <3>3 DEF Sorted, Before, Start, Earlier
  <2>6. ASSUME ~crossed[n] PROVE Behind(n)'
    <3>0. Behind(n)
      BY <2>1, <2>6
    <3>1. \A q \in Range(requests') : q.ring = n =>
            q \in Range(requests) \/ lastTime[n] < q.index + TransmitCount
      <4>1. lastTime[n] < (lastTime[n] + 1) + TransmitCount
        BY <2>4
      <4> QED BY <1>2, <4>1
    <3> QED BY <2>2, <3>0, <3>1 DEF Behind
  <2> QED BY <2>2, <2>3, <2>5, <2>6 DEF OrderAt
<1>4. Short'
  BY ShortStays DEF OrderInv
<1> QED BY <1>3, <1>4 DEF OrderInv

LEMMA ServerAnswersOrder ==
  ASSUME IInv, OrderInv, ServerAnswers
  PROVE  OrderInv'
<1>1. /\ TypeInv /\ ServerInv /\ AnswersInv /\ requests # <<>>
      /\ requests \in Seq(RequestSet) /\ answers \in Seq(AnswerSet)
  BY DEF IInv, TypeInv, ServerAnswers
<1>2. PICK q \in RequestSet : q = Head(requests) /\ q \in Range(requests)
  BY <1>1, RangeOfTail
<1>3. PICK a : a = Answer(q)
  OBVIOUS
<1>4. /\ a \in AnswerSet /\ a.ring = q.ring /\ a.ring \in Ring
      /\ a.list # <<>> => Start(a) = q.index - 1 \/ Start(a) + ServerSize = a.last
  BY <1>1, <1>3, AnswerFacts DEF AnswerSet
<1>5. /\ Len(a.list) <= TransmitCount /\ a.val \in Nat /\ a.val <= a.last
      /\ a.last = server[q.ring].last /\ a.epoch = epoch[q.ring]
      /\ a.list = <<>> => a.val < q.index
      /\ ~a.overwritten => /\ a.last < q.index + ServerSize
                           /\ a.val = a.last \/ a.val + 1 = q.index + TransmitCount
  BY <1>1, <1>3, AnswerReach
<1>6. /\ \A p \in Range(requests') : p \in Range(requests) /\ Earlier(requests, q, p)
      /\ \A x, y : Earlier(requests', x, y) => Earlier(requests, x, y)
  <2>1. requests' = Tail(requests)
    BY DEF ServerAnswers
  <2> QED BY <1>1, <1>2, <2>1, RangeOfTail, EarlierInTail
<1>7. /\ \A b \in Range(answers') : b \in Range(answers) \/ b = a
      /\ \A x, y : Earlier(answers', x, y) => Earlier(answers, x, y) \/ (x \in Range(answers) /\ y = a)
  <2>1. answers' = Append(answers, a)
    BY <1>2, <1>3 DEF ServerAnswers
  <2> QED BY <1>1, <1>4, <2>1, RangeOfAppend, EarlierInAppend
<1>8. ASSUME NEW n \in Ring PROVE OrderAt(n)'
  <2>1. Epochs(n) /\ (~crossed[n] => Sorted(n) /\ Behind(n)) /\ Known(n)
    BY DEF OrderInv, OrderAt, IInv, KnownInv
  <2>2. /\ server'[n] = server[n] /\ epoch'[n] = epoch[n] /\ lastTime'[n] = lastTime[n]
        /\ noticed'[n] = noticed[n] /\ crossed'[n] = crossed[n]
    BY DEF ServerAnswers, serverVars, clientVars
  <2>3. lastTime[n] \in Nat /\ epoch[n] \in Nat /\ noticed[n] \in Nat /\ server[n].last \in Nat
    BY <1>1 DEF TypeInv
  <2>4. \A b \in Range(answers) : b \in AnswerSet /\ Part(b) /\ Now(b)
    BY <1>1, RangeOfMessages DEF AnswersInv
  <2>5. Epochs(n)'
    <3>1. a.ring = n => noticed[n] <= a.epoch
      BY <1>4, <1>5, <2>1 DEF Known
    <3>2. \A b \in Range(answers) : b.ring = n /\ a.ring = n => b.epoch <= a.epoch
      BY <1>4, <1>5, <2>4 DEF Part
    <3>3. \A b \in Range(answers') : b.ring = n => noticed[n] <= b.epoch
      BY <1>7, <2>1, <3>1 DEF Epochs
    <3>4. \A b, c \in Range(answers') :
            b.ring = n /\ c.ring = n /\ Earlier(answers', b, c) => b.epoch <= c.epoch
      BY <1>7, <2>1, <3>2, EarlierInRange DEF Epochs
    <3> QED BY <2>2, <3>3, <3>4 DEF Epochs
  <2>6. ASSUME ~crossed[n], a.ring # n PROVE Sorted(n)' /\ Behind(n)'
    <3>1. Sorted(n) /\ Behind(n)
      BY <2>1, <2>6
    <3>2. \A p, r \in Range(requests') :
            p.ring = n /\ r.ring = n /\ Earlier(requests', p, r) => p.index <= r.index
      BY <1>6, <3>1 DEF Sorted
    <3>3. \A b \in Range(answers'), p \in Range(requests') : b.ring = n /\ p.ring = n => Before(b, p)
      BY <1>6, <1>7, <2>6, <3>1 DEF Sorted
    <3>4. \A b \in Range(answers') : b.ring = n /\ b.list = <<>> => b.val <= lastTime[n]
      BY <1>7, <2>6, <3>1 DEF Sorted
    <3>5. \A b, c \in Range(answers') :
            /\ b.ring = n /\ c.ring = n /\ Earlier(answers', b, c)
            /\ b.epoch = epoch[n] /\ c.epoch = epoch[n] /\ ~c.overwritten
            => b.val <= c.val
      BY <1>7, <2>6, <3>1, EarlierInRange DEF Sorted
    <3>6. Behind(n)'
      BY <1>6, <1>7, <2>2, <2>6, <3>1 DEF Behind
    <3> QED BY <2>2, <3>2, <3>3, <3>4, <3>5, <3>6 DEF Sorted, Before, Start
  <2>7. ASSUME ~crossed[n], a.ring = n PROVE Sorted(n)' /\ Behind(n)'
    <3>1. Sorted(n) /\ Behind(n) /\ Index(n)
      BY <2>1, <2>7 DEF Known
    <3>2. \A p, r \in Range(requests') :
            p.ring = n /\ r.ring = n /\ Earlier(requests', p, r) => p.index <= r.index
      BY <1>6, <3>1 DEF Sorted
    <3>3. PICK v : v = q.index /\ v \in Nat /\ v > 0 /\ v <= lastTime[n] + 1
      BY <1>2, <1>4, <2>7, <3>1 DEF Index, RequestSet
    <3>4. Start(a) \in Int /\ a.last \in Nat /\ a.epoch = epoch[n] /\ a.last = server[n].last
      BY <1>4, <1>5, <2>7 DEF AnswerSet, Start
    <3>5. ASSUME NEW p \in Range(requests'), p.ring = n PROVE Before(a, p)
      <4>1. p \in RequestSet /\ p \in Range(requests)
        BY <1>1, <1>6, RangeOfMessages
      <4>2. PICK w : w = p.index /\ w \in Nat
        BY <4>1 DEF RequestSet
      <4>3. v <= w
        BY <1>2, <1>4, <1>6, <2>7, <3>1, <3>3, <3>5, <4>1, <4>2 DEF Sorted
      <4>4. a.val < v => a.val < w
        BY <1>5, <3>3, <4>2, <4>3
      <4>5. Start(a) = v - 1 => Start(a) < w
        BY <3>3, <3>4, <4>2, <4>3
      <4>6. Start(a) + ServerSize = a.last => Start(a) + ServerSize <= a.last
        BY <3>4
      <4> QED BY <1>4, <1>5, <3>3, <4>2, <4>4, <4>5, <4>6 DEF Before
    <3>6. \A b \in Range(answers'), p \in Range(requests') : b.ring = n /\ p.ring = n => Before(b, p)
      BY <1>6, <1>7, <3>1, <3>5 DEF Sorted
    <3>7. a.list = <<>> => a.val <= lastTime[n]
      BY <1>5, <2>3, <3>3
    <3>8. \A b \in Range(answers') : b.ring = n /\ b.list = <<>> => b.val <= lastTime[n]
      BY <1>7, <3>1, <3>7 DEF Sorted
    <3>9. ASSUME NEW b \in Range(answers), b.ring = n, b.epoch = epoch[n], ~a.overwritten
          PROVE  b.val <= a.val
      <4>1. PICK x, z, s, len : /\ x = b.val /\ z = b.last /\ s = Start(b) /\ len = Len(b.list)
                                /\ x \in Nat /\ z \in Nat /\ s \in Int /\ len \in Nat /\ x = s + len
        <5>1. b.val \in Nat /\ b.last \in Nat /\ Len(b.list) \in Nat
          BY <2>4 DEF AnswerSet
        <5>2. Start(b) \in Int /\ b.val = Start(b) + Len(b.list)
          BY <5>1 DEF Start
        <5> QED BY <5>1, <5>2
      <4>2. x <= z /\ z <= a.last
        BY <2>4, <3>4, <3>9, <4>1 DEF Now
      <4>3. len <= TransmitCount
        BY <3>9, <4>1 DEF OrderInv, Short
      <4>4. IF b.list = <<>> THEN x < v ELSE s < v \/ s + ServerSize <= z
        BY <1>2, <1>4, <2>7, <3>1, <3>3, <3>9, <4>1 DEF Sorted, Before
      <4>5. a.last < v + ServerSize /\ (a.val = a.last \/ a.val + 1 = v + TransmitCount)
        BY <1>5, <3>3, <3>9
      <4>6. x < v \/ s < v
        <5>1. s + ServerSize <= z => s < v
          <6>1. z < v + ServerSize
            BY <3>3, <3>4, <4>1, <4>2, <4>5
          <6> QED BY <3>3, <4>1, <6>1
        <5> QED BY <4>4, <5>1, Zenon
      <4>7. x + 1 <= v + TransmitCount
        <5>1. x < v => x + 1 <= v + TransmitCount
          BY <3>3, <4>1
        <5>2. s < v => s + len + 1 <= v + TransmitCount
          BY <3>3, <4>1, <4>3
        <5> QED BY <4>1, <4>6, <5>1, <5>2, Zenon
      <4>8. PICK y \in Nat : y = a.val
        BY <1>5
      <4>9. x <= y
        <5>1. a.val = a.last => x <= y
          BY <3>3, <3>4, <4>1, <4>2, <4>8
        <5>2. a.val + 1 = v + TransmitCount => x <= y
          BY <4>1, <4>7, <4>8
        <5> QED BY <4>5, <5>1, <5>2, Zenon
      <4> QED BY <4>1, <4>8, <4>9, Zenon
    <3>10. \A b, c \in Range(answers') :
            /\ b.ring = n /\ c.ring = n /\ Earlier(answers', b, c)
            /\ b.epoch = epoch[n] /\ c.epoch = epoch[n] /\ ~c.overwritten
            => b.val <= c.val
      BY <1>7, <3>1, <3>9, EarlierInRange DEF Sorted
    <3>11. Behind(n)'
      <4> SUFFICES ASSUME noticed[n] = epoch[n], ~a.overwritten PROVE lastTime[n] <= a.val
        BY <1>6, <1>7, <2>2, <3>1 DEF Behind
      <4>1. PICK l : l = lastTime[n] /\ l \in Nat
        BY <2>3
      <4>2. l <= a.last /\ (l < v + TransmitCount \/ l + ServerSize <= a.last + TransmitCount)
        BY <1>2, <1>4, <2>7, <3>1, <3>3, <3>4, <4>1 DEF Behind
      <4>3. a.last < v + ServerSize /\ (a.val = a.last \/ a.val + 1 = v + TransmitCount)
        BY <1>5, <3>3
      <4>4. l < v + TransmitCount
        BY <3>3, <3>4, <4>1, <4>2, <4>3
      <4> QED BY <1>5, <3>3, <3>4, <4>1, <4>2, <4>3, <4>4
    <3> QED BY <2>2, <3>2, <3>6, <3>8, <3>10, <3>11 DEF Sorted, Before, Start
  <2> QED BY <2>2, <2>5, <2>6, <2>7 DEF OrderAt
<1>9. Short'
  BY <1>5, <1>7 DEF Short, OrderInv
<1> QED BY <1>8, <1>9 DEF OrderInv

\* A request for ring n, or none, and an answer taken from those under way.
LEMMA ReadOrder ==
  ASSUME TypeInv, TcpRead, NEW a, a = Head(answers), NEW n, n = a.ring, NEW q \in RequestSet, q.ring = n,
         requests' = Append(requests, q) \/ requests' = requests
  PROVE  /\ a \in AnswerSet /\ a \in Range(answers) /\ n \in Ring
         /\ \A p \in Range(requests') : p \in Range(requests) \/ p = q
         /\ \A x, y : Earlier(requests', x, y) => Earlier(requests, x, y) \/ (x \in Range(requests) /\ y = q)
         /\ \A b \in Range(answers') : b \in Range(answers) /\ Earlier(answers, a, b)
         /\ \A x, y : Earlier(answers', x, y) => Earlier(answers, x, y)
<1>1. requests \in Seq(RequestSet) /\ answers \in Seq(AnswerSet) /\ answers # <<>> /\ answers' = Tail(answers)
  BY DEF TypeInv, TcpRead
<1>2. /\ a \in AnswerSet /\ a \in Range(answers)
      /\ \A b \in Range(answers') : b \in Range(answers) /\ Earlier(answers, a, b)
      /\ \A x, y : Earlier(answers', x, y) => Earlier(answers, x, y)
  BY <1>1, RangeOfTail, EarlierInTail
<1>3. n \in Ring
  BY <1>2 DEF AnswerSet
<1>4. CASE requests' = requests
  BY <1>2, <1>3, <1>4
<1>5. CASE requests' = Append(requests, q)
  BY <1>1, <1>2, <1>3, <1>5, RangeOfAppend, EarlierInAppend
<1> QED BY <1>4, <1>5

\* The other rings.
LEMMA OthersOrder ==
  ASSUME IInv, OrderInv, TcpRead, NEW a, a = Head(answers), NEW n, n = a.ring,
         NEW q \in RequestSet, q.ring = n, requests' = Append(requests, q) \/ requests' = requests,
         NEW m \in Ring, m # n,
         client'[m] = client[m] /\ lastTime'[m] = lastTime[m],
         noticed'[m] = noticed[m] /\ crossed'[m] = crossed[m]
  PROVE  OrderAt(m)'
<1>1. /\ \A p \in Range(requests') : p \in Range(requests) \/ p.ring # m
      /\ \A x, y : Earlier(requests', x, y) => Earlier(requests, x, y) \/ y.ring # m
      /\ \A b \in Range(answers') : b \in Range(answers)
      /\ \A x, y : Earlier(answers', x, y) => Earlier(answers, x, y)
  BY ReadOrder DEF IInv
<1>2. server'[m] = server[m] /\ epoch'[m] = epoch[m]
  BY DEF TcpRead, serverVars
<1> QED BY <1>1, <1>2, OrderStays DEF OrderInv

LEMMA BeginAgainOrder ==
  ASSUME IInv, OrderInv, TcpRead, NEW a, a = Head(answers), NEW n, n = a.ring,
         BeginAgain(n, a), Outdated(n, a)
  PROVE  OrderInv'
<1>0. TypeInv /\ AnswersInv /\ answers # <<>> /\ answers \in Seq(AnswerSet)
  BY DEF IInv, TypeInv, TcpRead
<1>1. a \in AnswerSet /\ a \in Range(answers) /\ n \in Ring
  <2>1. a \in AnswerSet /\ a \in Range(answers)
    BY <1>0, RangeOfTail
  <2> QED BY <2>1 DEF AnswerSet
<1>2. PICK t \in Nat : /\ t = IF a.last > ClientSize THEN a.last - ClientSize ELSE 0
                       /\ t <= a.last /\ a.last \in Nat
  <2>1. PICK l \in Nat : l = a.last
    BY <1>1 DEF AnswerSet
  <2>2. CASE l > ClientSize
    <3>1. l - ClientSize \in Nat /\ l - ClientSize <= l
      BY <2>2
    <3> QED BY <2>1, <2>2, <3>1
  <2>3. CASE ~(l > ClientSize)
    BY <2>1, <2>3
  <2> QED BY <2>2, <2>3
<1>3. PICK q \in RequestSet : q = [ring |-> n, index |-> t + 1] /\ q.ring = n /\ q.index = t + 1
  <2>1. [ring |-> n, index |-> t + 1] \in RequestSet
    BY <1>1 DEF RequestSet
  <2> QED BY <2>1
<1>4. /\ lastTime'[n] = t /\ noticed'[n] = a.epoch
      /\ \A m \in Ring : m # n =>
           /\ lastTime'[m] = lastTime[m] /\ noticed'[m] = noticed[m]
           /\ crossed'[m] = crossed[m] /\ client'[m] = client[m]
  <2>1. lastTime' = [lastTime EXCEPT ![n] = t] /\ noticed' = [noticed EXCEPT ![n] = a.epoch]
    BY <1>2 DEF BeginAgain
  <2>2. crossed' = [crossed EXCEPT ![n] = @ \/ Repeated(n)] /\ client' = [client EXCEPT ![n] = C!EmptyRing]
    BY DEF BeginAgain
  <2>3. /\ lastTime \in [Ring -> Nat] /\ noticed \in [Ring -> Nat]
        /\ crossed \in [Ring -> BOOLEAN] /\ client = [m \in Ring |-> client[m]]
    BY <1>0 DEF TypeInv
  <2>4. client' = [m \in Ring |-> IF m = n THEN C!EmptyRing ELSE client[m]]
    BY <1>1, <2>2, <2>3
  <2> QED BY <1>1, <1>2, <2>1, <2>2, <2>3, <2>4
<1>5. ~crossed'[n] => ~Repeated(n)
  <2>1. crossed' = [crossed EXCEPT ![n] = @ \/ Repeated(n)] /\ crossed \in [Ring -> BOOLEAN]
    BY <1>0 DEF BeginAgain, TypeInv
  <2>2. crossed'[n] = (crossed[n] \/ Repeated(n))
    BY <1>1, <2>1
  <2> QED BY <2>2, Zenon
<1>6. requests' = Append(requests, q)
  BY <1>3, <1>4 DEF BeginAgain
<1>7. /\ \A p \in Range(requests') : p \in Range(requests) \/ p = q
      /\ \A x, y : Earlier(requests', x, y) => Earlier(requests, x, y) \/ (x \in Range(requests) /\ y = q)
      /\ \A b \in Range(answers') : b \in Range(answers) /\ Earlier(answers, a, b)
      /\ \A x, y : Earlier(answers', x, y) => Earlier(answers, x, y)
  <2>1. q \in RequestSet /\ q.ring = n
    BY <1>3
  <2> QED BY <1>0, <1>6, <2>1, ReadOrder, Zenon
<1>8. ASSUME NEW m \in Ring, m # n PROVE OrderAt(m)'
  BY <1>3, <1>4, <1>6, <1>8, OthersOrder
<1>9. server' = server /\ epoch' = epoch
  BY DEF TcpRead, serverVars
<1>10. Epochs(n)'
  <2>1. Epochs(n)
    BY <1>1 DEF OrderInv, OrderAt
  <2> QED BY <1>1, <1>4, <1>7, <2>1 DEF Epochs
<1>11. ASSUME ~crossed'[n] PROVE Sorted(n)' /\ Behind(n)'
  <2>1. \A m \in Range(requests) \cup Range(answers') : m.ring # n
    BY <1>5, <1>11 DEF Repeated, TcpRead
  <2>2. Sorted(n)'
    BY <1>7, <2>1, EarlierInRange DEF Sorted
  <2>3. ASSUME noticed'[n] = epoch[n] PROVE t <= server[n].last
    <3>1. a.last <= server[n].last
      BY <1>0, <1>1, <1>4, <2>3 DEF AnswersInv, Now
    <3>2. server[n].last \in Nat
      BY <1>0, <1>1 DEF TypeInv
    <3> QED BY <1>2, <3>1, <3>2
  <2>4. t < q.index + TransmitCount
    BY <1>3
  <2> QED BY <1>3, <1>4, <1>7, <1>9, <2>1, <2>2, <2>3, <2>4 DEF Behind
<1>12. Short'
  BY <1>7, ShortStays DEF OrderInv
<1> QED BY <1>8, <1>10, <1>11, <1>12 DEF OrderInv, OrderAt

LEMMA AppendListOrder ==
  ASSUME IInv, OrderInv, TcpRead, NEW a, a = Head(answers), NEW n, n = a.ring,
         AppendList(n, a), GoOn(n, a), ~Outdated(n, a), a.list # <<>>
  PROVE  OrderInv'
<1>0. TypeInv /\ AnswersInv /\ answers # <<>> /\ answers \in Seq(AnswerSet)
  BY DEF IInv, TypeInv, TcpRead
<1>1. a \in AnswerSet /\ a \in Range(answers) /\ n \in Ring /\ Part(a) /\ Now(a)
  <2>1. a \in AnswerSet /\ a \in Range(answers)
    BY <1>0, RangeOfTail
  <2> QED BY <1>0, <2>1 DEF AnswerSet, AnswersInv
<1>2. PICK v \in Nat, l \in Nat : v = a.val /\ l = lastTime[n] /\ l <= v
  <2>1. a.val \in Nat /\ lastTime[n] \in Nat
    BY <1>0, <1>1 DEF AnswerSet, TypeInv
  <2>2. lastTime[n] <= a.val
    BY <2>1 DEF Outdated
  <2> QED BY <2>1, <2>2
<1>3. PICK e : e = IF l = 0 THEN a.epoch ELSE noticed[n]
  OBVIOUS
<1>4. PICK q \in RequestSet : q = [ring |-> n, index |-> v + 1] /\ q.ring = n /\ q.index = v + 1
  <2>1. [ring |-> n, index |-> v + 1] \in RequestSet
    BY <1>1 DEF RequestSet
  <2> QED BY <2>1
<1>5. crossed' = crossed /\ server' = server /\ epoch' = epoch
  BY DEF AppendList, TcpRead, serverVars
<1>6. /\ lastTime'[n] = v /\ noticed'[n] = e
      /\ \A m \in Ring : m # n =>
           lastTime'[m] = lastTime[m] /\ noticed'[m] = noticed[m] /\ client'[m] = client[m]
  <2>1. lastTime' = [lastTime EXCEPT ![n] = v] /\ noticed' = [noticed EXCEPT ![n] = e]
    BY <1>2, <1>3 DEF AppendList
  <2>2. lastTime \in [Ring -> Nat] /\ noticed \in [Ring -> Nat] /\ client = [m \in Ring |-> client[m]]
    BY <1>0 DEF TypeInv
  <2>3. PICK c : client' = [client EXCEPT ![n] = c]
    <3>1. client' = [client EXCEPT ![n] = AppendAll(client[n], a.list, a.val)]
      BY DEF AppendList
    <3> QED BY <3>1
  <2>4. \A m \in Ring : m # n => client'[m] = client[m]
    BY <1>1, <2>2, <2>3, ExceptAt
  <2> QED BY <1>1, <1>2, <2>1, <2>2, <2>4
<1>7. requests' = Append(requests, q) \/ requests' = requests
  BY <1>4, <1>6 DEF GoOn
<1>8. /\ \A p \in Range(requests') : p \in Range(requests) \/ p = q
      /\ \A x, y : Earlier(requests', x, y) => Earlier(requests, x, y) \/ (x \in Range(requests) /\ y = q)
      /\ \A b \in Range(answers') : b \in Range(answers) /\ Earlier(answers, a, b)
      /\ \A x, y : Earlier(answers', x, y) => Earlier(answers, x, y)
  <2>1. q \in RequestSet /\ q.ring = n
    BY <1>4
  <2> QED BY <1>0, <1>7, <2>1, ReadOrder, Zenon
<1>9. ASSUME NEW m \in Ring, m # n PROVE OrderAt(m)'
  BY <1>4, <1>5, <1>6, <1>7, <1>9, OthersOrder
<1>10. Epochs(n) /\ (~crossed[n] => Sorted(n) /\ Behind(n))
  BY <1>1 DEF OrderInv, OrderAt
<1>11. ASSUME NEW b \in Range(answers'), b.ring = n
       PROVE  b \in AnswerSet /\ a.epoch <= b.epoch /\ e <= b.epoch /\ b.epoch <= epoch[n]
  <2>1. b \in AnswerSet /\ b \in Range(answers)
    BY <1>0, <1>8, <1>11, RangeOfMessages
  <2> QED BY <1>0, <1>1, <1>3, <1>8, <1>10, <1>11, <2>1 DEF Epochs, AnswersInv, Part
<1>12. Epochs(n)'
  BY <1>6, <1>8, <1>10, <1>11 DEF Epochs
<1>13. ASSUME ~crossed[n] PROVE Sorted(n)'
  <2>1. Sorted(n)
    BY <1>10, <1>13
  <2>2. /\ \A p \in Range(requests) : p.ring = n => p.index <= v + 1
        /\ \A b \in Range(answers) : \A p : b.ring = n /\ p.index = v + 1 => Before(b, p)
    BY <1>1, <1>2, <1>13, NewRequestLast
  <2>3. \A p, r \in Range(requests') :
          p.ring = n /\ r.ring = n /\ Earlier(requests', p, r) => p.index <= r.index
    BY <1>4, <1>8, <2>1, <2>2, EarlierInRange DEF Sorted
  <2>4. \A b \in Range(answers'), p \in Range(requests') : b.ring = n /\ p.ring = n => Before(b, p)
    BY <1>4, <1>8, <2>1, <2>2 DEF Sorted
  <2>5. ASSUME NEW b \in Range(answers'), b.ring = n, b.list = <<>> PROVE b.val <= v
    <3>1. b.val \in Nat
      BY <1>11, <2>5 DEF AnswerSet
    <3>2. b.val <= l
      BY <1>2, <1>8, <2>1, <2>5 DEF Sorted
    <3> QED BY <1>2, <3>1, <3>2
  <2>6. \A b, c \in Range(answers') :
          /\ b.ring = n /\ c.ring = n /\ Earlier(answers', b, c)
          /\ b.epoch = epoch[n] /\ c.epoch = epoch[n] /\ ~c.overwritten
          => b.val <= c.val
    BY <1>8, <2>1 DEF Sorted
  <2> QED BY <1>5, <1>6, <2>3, <2>4, <2>5, <2>6 DEF Sorted, Before, Start
<1>14. ASSUME ~crossed[n], e = epoch[n] PROVE Behind(n)'
  <2>1. Sorted(n)
    BY <1>10, <1>14
  <2>2. a.epoch = epoch[n]
    <3>1. a.epoch \in Nat /\ epoch[n] \in Nat /\ a.epoch <= epoch[n]
      BY <1>0, <1>1 DEF AnswerSet, TypeInv, Part
    <3>2. noticed[n] <= a.epoch
      BY <1>1, <1>10 DEF Epochs
    <3> QED BY <1>3, <1>14, <3>1, <3>2
  <2>3. PICK al \in Nat, s \in Nat : al = a.last /\ s = server[n].last /\ v <= al /\ al <= s
    <3>1. a.last \in Nat /\ server[n].last \in Nat
      BY <1>0, <1>1 DEF AnswerSet, TypeInv
    <3> QED BY <1>1, <1>2, <2>2, <3>1 DEF Now
  <2>4. v <= s
    BY <2>3
  <2>5. ASSUME NEW b \in Range(answers'), b.ring = n, ~b.overwritten PROVE v <= b.val
    <3>1. b.epoch = epoch[n]
      <4>1. b.epoch \in Nat /\ epoch[n] \in Nat
        BY <1>0, <1>1, <1>11, <2>5 DEF AnswerSet, TypeInv
      <4> QED BY <1>11, <2>2, <2>5, <4>1
    <3> QED BY <1>1, <1>2, <1>8, <2>1, <2>2, <2>5, <3>1 DEF Sorted
  <2>6. ASSUME NEW p \in Range(requests'), p.ring = n
        PROVE  v < p.index + TransmitCount \/ v + ServerSize <= s + TransmitCount
    <3>1. CASE p = q
      BY <1>2, <1>4, <3>1
    <3>2. CASE p \in Range(requests)
      <4>1. PICK i : i = p.index /\ i \in Nat
        <5>1. p \in RequestSet
          BY <1>0, <3>2, RangeOfMessages DEF TypeInv
        <5> QED BY <5>1 DEF RequestSet
      <4>2. PICK f, N : /\ f = Start(a) /\ N = Len(a.list) /\ f \in Int /\ N \in Nat
                        /\ v = f + N /\ N <= TransmitCount
        <5>1. Len(a.list) \in Nat /\ Len(a.list) <= TransmitCount
          <6>1. Len(a.list) \in Nat
            <7>1. a.list \in Seq(ItemSet)
              BY <1>1 DEF AnswerSet
            <7> QED BY <7>1
          <6>2. Len(a.list) <= TransmitCount
            BY <1>1 DEF OrderInv, Short
          <6> QED BY <6>1, <6>2
        <5>2. Start(a) \in Int /\ v = Start(a) + Len(a.list)
          BY <1>2, <5>1 DEF Start
        <5> QED BY <5>1, <5>2
      <4>3. f < i \/ f + ServerSize <= al
        BY <1>1, <2>1, <2>3, <2>6, <3>2, <4>1, <4>2 DEF Sorted, Before
      <4>4. f < i => v < i + TransmitCount
        BY <4>1, <4>2
      <4>5. f + ServerSize <= al => v + ServerSize <= s + TransmitCount
        <5>1. v + ServerSize = (f + ServerSize) + N
          BY <1>2, <4>2
        <5>2. f + ServerSize <= al => (f + ServerSize) + N <= al + TransmitCount
          <6>1. PICK g \in Int : g = f + ServerSize
            BY <4>2
          <6>2. g <= al => g + N <= al + TransmitCount
            BY <2>3, <4>2
          <6> QED BY <6>1, <6>2
        <5>3. al + TransmitCount <= s + TransmitCount
          BY <2>3
        <5>4. f + ServerSize \in Int /\ (f + ServerSize) + N \in Int
          BY <4>2
        <5> QED BY <2>3, <5>1, <5>2, <5>3, <5>4
      <4> QED BY <4>1, <4>3, <4>4, <4>5
    <3> QED BY <1>8, <2>6, <3>1, <3>2
  <2> QED BY <1>5, <1>6, <2>3, <2>4, <2>5, <2>6 DEF Behind
<1>15. Behind(n)' <=> (e = epoch[n] => Behind(n)')
  BY <1>5, <1>6 DEF Behind
<1>16. Short'
  BY <1>8, ShortStays DEF OrderInv
<1> QED BY <1>5, <1>9, <1>12, <1>13, <1>14, <1>15, <1>16 DEF OrderInv, OrderAt

LEMMA NoListOrder ==
  ASSUME IInv, OrderInv, TcpRead, NEW a, a = Head(answers), NEW n, n = a.ring,
         UNCHANGED clientVars, GoOn(n, a), a.list = <<>>
  PROVE  OrderInv'
<1>1. TypeInv /\ answers # <<>> /\ answers \in Seq(AnswerSet)
  BY DEF IInv, TypeInv, TcpRead
<1>2. requests' = requests /\ answers' = Tail(answers) /\ UNCHANGED <<serverVars, clientVars>>
  BY DEF GoOn, TcpRead
<1>3. /\ \A b \in Range(answers') : b \in Range(answers)
      /\ \A x, y : Earlier(answers', x, y) => Earlier(answers, x, y)
  BY <1>1, <1>2, RangeOfTail, EarlierInTail
<1>4. ASSUME NEW m \in Ring PROVE OrderAt(m)'
  <2>1. /\ server'[m] = server[m] /\ epoch'[m] = epoch[m] /\ lastTime'[m] = lastTime[m]
        /\ noticed'[m] = noticed[m] /\ crossed'[m] = crossed[m]
    BY <1>2 DEF serverVars, clientVars
  <2> QED BY <1>2, <1>3, <2>1, OrderStays DEF OrderInv
<1>5. Short'
  BY <1>3, ShortStays DEF OrderInv
<1> QED BY <1>4, <1>5 DEF OrderInv

LEMMA StepOrder == ASSUME IInv, OrderInv, [Next]_vars PROVE OrderInv'
<1>1. CASE \E n \in Used : ServerClears(n)
  BY <1>1, ServerClearsOrder
<1>2. CASE \E n \in Used, pos \in 1..MaxIndex : ServerAppends(n, pos)
  BY <1>2, ServerAppendsOrder DEF IInv
<1>3. CASE ServerAnswers
  BY <1>3, ServerAnswersOrder
<1>4. CASE Connect
  BY <1>4, RequestAllOrdered DEF Connect
<1>5. CASE Disconnect
  BY <1>5, LostOrder DEF Disconnect
<1>6. CASE Timeout
  BY <1>6, RequestAllOrdered DEF Timeout
<1>7. CASE TcpRead
  <2>1. PICK a, n : a = Head(answers) /\ n = a.ring
    OBVIOUS
  <2>2. IF Outdated(n, a) THEN BeginAgain(n, a)
        ELSE (IF a.list # <<>> THEN AppendList(n, a) ELSE UNCHANGED clientVars) /\ GoOn(n, a)
    BY <1>7, <2>1 DEF TcpRead
  <2>3. CASE Outdated(n, a)
    BY <1>7, <2>1, <2>2, <2>3, BeginAgainOrder
  <2>4. CASE ~Outdated(n, a) /\ a.list # <<>>
    BY <1>7, <2>1, <2>2, <2>4, AppendListOrder
  <2>5. CASE ~Outdated(n, a) /\ a.list = <<>>
    BY <1>7, <2>1, <2>2, <2>5, NoListOrder
  <2> QED BY <2>3, <2>4, <2>5
<1>8. CASE UNCHANGED vars
  <2>1. ASSUME NEW m \in Ring PROVE OrderAt(m)'
    BY <1>8, OrderStays DEF OrderInv, vars, serverVars, clientVars
  <2>2. Short'
    BY <1>8, ShortStays DEF OrderInv, vars
  <2> QED BY <2>1, <2>2 DEF OrderInv
<1> QED BY <1>1, <1>2, <1>3, <1>4, <1>5, <1>6, <1>7, <1>8 DEF Next

\* Only an answer makes the client begin again, and it is one of those the property names.
LEMMA ThrownAway ==
  ASSUME IInv, OrderInv, [Next]_vars, NEW n \in Ring, client[n].last > 0, client'[n].last = 0,
         ~crossed[n], epoch[n] = noticed[n], ~Head(answers).overwritten
  PROVE  lastTime[n] + ClientSize < server[n].last
<1>1. TypeInv /\ AnswersInv /\ Known(n) /\ Epochs(n) /\ Behind(n) /\ client[n].last \in Nat
  BY DEF IInv, TypeInv, KnownInv, OrderInv, OrderAt
<1>2. client'[n] # client[n]
  BY <1>1
<1>3. TcpRead
  BY <1>2 DEF Next, ServerClears, ServerAppends, ServerAnswers, Connect, Disconnect, Timeout, vars, clientVars
<1>4. PICK a : a = Head(answers)
  OBVIOUS
<1>5. a \in AnswerSet /\ a \in Range(answers)
  <2>1. answers # <<>> /\ answers \in Seq(AnswerSet)
    BY <1>1, <1>3 DEF TcpRead, TypeInv
  <2> QED BY <1>4, <2>1, RangeOfTail
<1>6. PICK m : m = a.ring /\ m \in Ring
  BY <1>5 DEF AnswerSet
<1>7. IF Outdated(m, a) THEN BeginAgain(m, a)
      ELSE (IF a.list # <<>> THEN AppendList(m, a) ELSE UNCHANGED clientVars) /\ GoOn(m, a)
  BY <1>3, <1>4, <1>6 DEF TcpRead
<1>8. m = n
  <2> SUFFICES ASSUME m # n PROVE client'[n] = client[n]
    BY <1>2
  <2>1. \/ client' = [client EXCEPT ![m] = C!EmptyRing]
        \/ client' = [client EXCEPT ![m] = AppendAll(client[m], a.list, a.val)]
        \/ client' = client
    BY <1>7 DEF BeginAgain, AppendList, clientVars
  <2>2. client = [k \in Ring |-> client[k]]
    BY <1>1 DEF TypeInv
  <2> QED BY <1>6, <2>1, <2>2, ExceptAt
<1>9. Outdated(n, a)
  <2> SUFFICES ASSUME ~Outdated(n, a) PROVE FALSE
    OBVIOUS
  <2>1. a.list # <<>> /\ AppendList(n, a)
    BY <1>2, <1>7, <1>8 DEF clientVars
  <2>2. PICK r, q : r = client[n] /\ q = AppendAll(r, a.list, a.val)
    OBVIOUS
  <2>3. client'[n] = q
    <3>1. client' = [client EXCEPT ![n] = q]
      BY <2>1, <2>2 DEF AppendList
    <3>2. client = [k \in Ring |-> client[k]]
      BY <1>1 DEF TypeInv
    <3> QED BY <3>1, <3>2, ExceptAt
  <2>4. PICK N, v : N = Len(a.list) /\ v = a.val /\ N \in Nat /\ v \in Nat /\ N <= v
    <3>1. Part(a)
      BY <1>1, <1>5 DEF AnswersInv
    <3>2. a.val \in Nat /\ Len(a.list) \in Nat
      BY <1>5 DEF AnswerSet
    <3> QED BY <3>1, <3>2 DEF Part
  <2>5. Filled(r, q, a.list, v, N)
    BY <1>1, <2>2, <2>4, AppendAllFills
  <2>6. q.last = IF N = 0 \/ (v - N) + N <= r.last THEN r.last ELSE (v - N) + N
    BY <2>4, <2>5 DEF Filled
  <2>7. q.last >= r.last
    <3>1. (v - N) + N = v
      BY <2>4
    <3> QED BY <1>1, <2>2, <2>4, <2>6, <3>1
  <2> QED BY <1>1, <2>2, <2>3, <2>7
<1>10. a.epoch = epoch[n] /\ a.val <= a.last /\ a.last <= server[n].last
  <2>1. a.epoch \in Nat /\ epoch[n] \in Nat
    BY <1>1, <1>5 DEF AnswerSet, TypeInv
  <2>2. noticed[n] <= a.epoch /\ a.epoch <= epoch[n] /\ Now(a)
    BY <1>1, <1>5, <1>6, <1>8 DEF Epochs, AnswersInv, Part
  <2>3. a.epoch = epoch[n]
    BY <2>1, <2>2
  <2> QED BY <1>6, <1>8, <2>2, <2>3 DEF Now
<1>11. lastTime[n] <= a.val
  BY <1>1, <1>4, <1>5, <1>6, <1>8 DEF Behind
<1>12. a.val \in Nat /\ a.last \in Nat /\ lastTime[n] \in Nat /\ server[n].last \in Nat
  BY <1>1, <1>5 DEF AnswerSet, TypeInv
<1>13. a.val - lastTime[n] > ClientSize
  BY <1>9, <1>11, <1>12 DEF Outdated
<1> QED BY <1>10, <1>12, <1>13

\* A step of the client throws items away only for one of the reasons NotThrownAway gives.
KeepsItems ==
  \A n \in Ring :
    client[n].last > 0 /\ client'[n].last = 0 =>
      \/ crossed[n] \/ epoch[n] # noticed[n] \/ Head(answers).overwritten
      \/ lastTime[n] + ClientSize < server[n].last

\* No step makes a client that has not crossed throw its items away but for a clear() of the
\* server, a server more than a ring ahead, or a request for an index that was overwritten when
\* it was answered (RrdClient::tcpRead(), Rrd::read()).
THEOREM ThrownAwayForAReason == Spec => NotThrownAway
<1>1. Init => IInv /\ OrderInv
  BY InitEstablishes, OrderInit
<1>2. IInv /\ OrderInv /\ [Next]_vars => (IInv /\ OrderInv)'
  BY StepKeeps, StepOrder
<1>3. IInv /\ OrderInv /\ [Next]_vars => KeepsItems
  BY ThrownAway DEF KeepsItems
<1>4. KeepsItems => [KeepsItems]_vars
  OBVIOUS
<1>5. Spec => [][KeepsItems]_vars
  BY <1>1, <1>2, <1>3, PTL DEF Spec
<1> QED BY <1>5 DEF NotThrownAway, KeepsItems
=============================================================================

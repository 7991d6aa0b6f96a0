----------------------------- MODULE Rrd_proofs -----------------------------
(***************************************************************************)
(* Theorems about Rrd, for every size of the ring, number of threads and    *)
(* set of items: the ring implements the timeline as long as nobody changes *)
(* it between the two halves of its serialisation and the gaps to fill are  *)
(* shorter than the ring; with longer ones it fills every gap.              *)
(***************************************************************************)
EXTENDS Rrd, FiniteSetTheorems, TLAPS

USE RingAssumption, RrdAssumption DEF RingAssumption, RrdAssumption

(***************************************************************************)
(* Slots.                                                                   *)
(***************************************************************************)
LEMMA SlotType == \A i \in Int : Slot(i) \in Slots
  BY DEF Slot, Slots

LEMMA Division == ASSUME NEW i \in Int PROVE i = Size * (i \div Size) + (i % Size)
  OBVIOUS

\* Two indexes less than Size apart never share a slot.
LEMMA SlotsDiffer ==
  ASSUME NEW i \in Int, NEW j \in Int, j < i, i - j < Size
  PROVE  Slot(i) # Slot(j)
<1> DEFINE p == i \div Size
           q == j \div Size
<1>1. i = Size * p + (i % Size) /\ j = Size * q + (j % Size)
  BY Division
<1>2. p \in Int /\ q \in Int /\ i % Size \in Int
  OBVIOUS
<1>3. SUFFICES ASSUME i % Size = j % Size PROVE FALSE
  BY DEF Slot
<1> HIDE DEF p, q
<1>4. i - j = Size * (p - q)
  <2>1. i - j = Size * p - Size * q
    BY <1>1, <1>2, <1>3
  <2>2. Size * p - Size * q = Size * (p - q)
    BY <1>2
  <2> QED BY <2>1, <2>2
<1>5. CASE p - q <= 0
  <2>1. Size * (p - q) <= 0
    BY <1>5, <1>2
  <2> QED BY <2>1, <1>4
<1>6. CASE p - q >= 1
  <2>1. Size * (p - q) >= Size
    BY <1>6, <1>2
  <2> QED BY <2>1, <1>4, <1>2
<1> QED BY <1>5, <1>6, <1>2

LEMMA SlotOfWindow ==
  ASSUME NEW last \in Nat, NEW i \in Window(last), NEW j \in Window(last), Slot(i) = Slot(j)
  PROVE  i = j
<1>1. i \in Int /\ j \in Int /\ i - j < Size /\ j - i < Size
  BY DEF Window
<1> QED BY <1>1, SlotsDiffer

\* A whole cycle of indexes meets every slot.
LEMMA SmallSlot == ASSUME NEW i \in Nat, i < Size PROVE Slot(i) = i
  BY DEF Slot

LEMMA Remainder ==
  ASSUME NEW i \in Int, NEW q \in Int, NEW s \in Slots, i = Size * q + s
  PROVE  Slot(i) = s
<1> DEFINE p == i \div Size
           a == i % Size
           d == q - p
<1>1. i = Size * p + a
  BY Division
<1>2. p \in Int /\ a \in 0..(Size - 1) /\ s \in 0..(Size - 1)
  BY DEF Slots
<1>3. SUFFICES a = s
  BY DEF Slot
<1> HIDE DEF p, a
<1>4. a - s = Size * d
  <2>1. a - s = Size * q - Size * p
    BY <1>1, <1>2
  <2>2. Size * q - Size * p = Size * d
    BY <1>2
  <2> QED BY <2>1, <2>2
<1>5. d \in Int
  BY <1>2
<1> HIDE DEF d
<1>6. CASE d >= 1
  <2>1. Size * d >= Size
    BY <1>6, <1>5
  <2> QED BY <2>1, <1>4, <1>2
<1>7. CASE d <= -1
  <2>1. Size * d <= -Size
    BY <1>7, <1>5
  <2> QED BY <2>1, <1>4, <1>2
<1>8. CASE d = 0
  BY <1>8, <1>4, <1>2
<1> QED BY <1>5, <1>6, <1>7, <1>8

\* A full window has an index in every slot.
LEMMA FullWindow ==
  ASSUME NEW last \in Nat, last >= Size
  PROVE  Unused(last) = {}
<1> SUFFICES ASSUME NEW s \in Slots PROVE \E i \in Window(last) : Slot(i) = s
  BY DEF Unused
<1> DEFINE q == (last - s) \div Size
           m == (last - s) % Size
<1>1. s \in Int /\ last - s \in Int
  BY DEF Slots
<1>2. last - s = Size * q + m /\ q \in Int /\ m \in 0..(Size - 1)
  BY <1>1, Division
<1> HIDE DEF q, m
<1>3. last - m = Size * q + s
  <2>1. Size * q \in Int
    BY <1>2
  <2> QED BY <1>1, <1>2, <2>1
<1> DEFINE i == last - m
<1>4. i \in Window(last) /\ i \in Int
  BY <1>2 DEF Window
<1>5. i = Size * q + s
  BY <1>3
<1> HIDE DEF i
<1>6. Slot(i) = s
  BY <1>2, <1>4, <1>5, Remainder, Zenon
<1> QED BY <1>4, <1>6

(***************************************************************************)
(* What the operators of the ring return.                                   *)
(***************************************************************************)
LEMMA EmptyRingType == EmptyRing \in Ring /\ NoImage \in Image
  BY DEF EmptyRing, Ring, NoImage, Image, Value

LEMMA AppendedType ==
  ASSUME NEW r \in Ring, NEW pos \in Nat, NEW d \in Value
  PROVE  Appended(r, pos, d) \in Ring
<1>1. r.count \in 0..Size /\ r.data \in [Slots -> Value]
  BY DEF Ring
<1>2. Counted(r, pos) \in 0..Size
  BY <1>1 DEF Counted
<1>3. Empty \in Value
  BY DEF Value
<1> QED BY <1>1, <1>2, <1>3 DEF Appended, Ring

LEMMA WrittenType ==
  ASSUME NEW r \in Ring, NEW k \in Nat, NEW d \in Value
  PROVE  Written(r, k, d) \in Ring
<1>1. r.data \in [Slots -> Value] /\ r.last \in Nat /\ r.count \in 0..Size
  BY DEF Ring
<1>2. r = [last |-> r.last, count |-> r.count, data |-> r.data]
  BY DEF Ring
<1>3. Written(r, k, d) =
        [last |-> r.last, count |-> r.count, data |-> [r.data EXCEPT ![ArraySlot(r, k)] = d]]
  <2> DEFINE slot == ArraySlot(r, k)
  <2> HIDE DEF slot
  <2> QED BY <1>2 DEF Written, slot
<1> DEFINE data == [r.data EXCEPT ![ArraySlot(r, k)] = d]
<1>4. data \in [Slots -> Value]
  BY <1>1
<1> HIDE DEF data
<1> QED BY <1>1, <1>3, <1>4 DEF Ring, data

\* Only slots of the window are populated, so that no more are than indexes.
LEMMA PopulatedBound ==
  ASSUME NEW image \in Image, Tidy(image)
  PROVE  Populated(image.data) \in 0..Size /\ Populated(image.data) <= image.last
<1> DEFINE S == {s \in Slots : image.data[s] # Empty}
<1>1. image.last \in Nat
  BY DEF Image
<1>2. IsFiniteSet(Slots) /\ Cardinality(Slots) = Size
  BY FS_Interval DEF Slots
<1>3. IsFiniteSet(S) /\ Cardinality(S) <= Size
  <2>1. S \in SUBSET Slots
    OBVIOUS
  <2> QED BY <1>2, <2>1, FS_Subset
<1>4. Cardinality(S) \in Nat
  BY <1>3, FS_CardinalityType
<1>5. CASE image.last >= Size
  BY <1>3, <1>4, <1>5, <1>1 DEF Populated
<1>6. CASE image.last < Size
  <2>1. S \subseteq 1..image.last
    <3> SUFFICES ASSUME NEW s \in S PROVE s \in 1..image.last
      OBVIOUS
    <3>1. s \in Slots /\ s \notin Unused(image.last)
      BY DEF Tidy
    <3>2. PICK i \in Window(image.last) : Slot(i) = s
      BY <3>1 DEF Unused
    <3>3. i \in 1..image.last /\ i \in Nat /\ i < Size
      BY <3>2, <1>6, <1>1 DEF Window
    <3> QED BY <3>2, <3>3, SmallSlot
  <2>2. IsFiniteSet(1..image.last) /\ Cardinality(1..image.last) = image.last
    BY <1>1, FS_Interval
  <2>3. Cardinality(S) <= image.last
    <3>1. S \in SUBSET (1..image.last)
      BY <2>1
    <3> QED BY <2>2, <3>1, FS_Subset
  <2> QED BY <2>3, <1>3, <1>4 DEF Populated
<1> QED BY <1>5, <1>6, <1>1

LEMMA LoadedType ==
  ASSUME NEW image \in Image, Tidy(image)
  PROVE  Loaded(image) \in Ring /\ Loaded(image).count <= image.last
<1>1. image.last \in Nat /\ image.data \in [Slots -> Value]
  BY DEF Image
<1> QED BY <1>1, PopulatedBound DEF Loaded, Ring

(***************************************************************************)
(* The slots of no index stay empty.                                        *)
(***************************************************************************)
\* A slot of the window that ends at pos is the slot of pos, of an index that is
\* skipped, or of an index the window had before.
LEMMA AppendedSlots ==
  ASSUME NEW r \in Ring, NEW pos \in Nat, pos > r.last, NEW i \in Window(pos)
  PROVE  /\ i <= r.last => Slot(i) # Slot(pos) /\ Slot(i) \notin Skipped(r, pos)
                           /\ i \in Window(r.last)
         /\ i > r.last /\ i # pos => Slot(i) # Slot(pos) /\ Slot(i) \in Skipped(r, pos)
<1>1. r.last \in Nat /\ i \in Nat /\ i >= 1 /\ i <= pos /\ pos - i < Size
  BY DEF Ring, Window
<1>2. i # pos => Slot(i) # Slot(pos)
  BY <1>1, SlotsDiffer
<1>3. Step(r, pos) \in Nat /\ Step(r, pos) <= Size /\ Step(r, pos) <= pos - r.last
      /\ (Step(r, pos) = Size \/ Step(r, pos) = pos - r.last)
  BY <1>1 DEF Step, Least
<1>4. ASSUME i <= r.last
      PROVE  Slot(i) \notin Skipped(r, pos)
  <2> SUFFICES ASSUME NEW k \in 1..(Step(r, pos) - 1), Slot(i) = Slot(pos - k) PROVE FALSE
    BY DEF Skipped
  <2>1. pos - k \in Nat /\ pos - k > i /\ (pos - k) - i < Size
    BY <1>1, <1>3, <1>4
  <2> QED BY <2>1, <1>1, SlotsDiffer
<1>5. ASSUME i > r.last, i # pos
      PROVE  Slot(i) \in Skipped(r, pos)
  <2>1. pos - i \in 1..(Step(r, pos) - 1) /\ pos - (pos - i) = i
    BY <1>1, <1>3, <1>5
  <2> QED BY <2>1 DEF Skipped
<1>6. i <= r.last => i \in Window(r.last)
  BY <1>1 DEF Window
<1> QED BY <1>1, <1>2, <1>4, <1>5, <1>6

\* The step that append() compares with fill is cut to the size of the ring.
LEMMA StepFilled ==
  ASSUME NEW r \in Ring, NEW pos \in Nat, pos > r.last
  PROVE  /\ Fill < Size => (Step(r, pos) <= Fill <=> pos - r.last <= Fill)
         /\ Fill >= Size => Step(r, pos) <= Fill
<1>1. r.last \in Nat
  BY DEF Ring
<1> QED BY <1>1 DEF Step, Least

LEMMA AppendedTidy ==
  ASSUME NEW r \in Ring, NEW pos \in Nat, pos > r.last, NEW d \in Value, Tidy(r)
  PROVE  Tidy(Appended(r, pos, d))
<1> DEFINE a == Appended(r, pos, d)
<1>1. a.last = pos
  BY DEF Appended
<1> SUFFICES ASSUME NEW s \in Unused(pos) PROVE a.data[s] = Empty
  BY <1>1 DEF Tidy
<1>2. r.last \in Nat /\ s \in Slots
  BY DEF Ring, Unused
<1>3. pos \in Window(pos)
  BY <1>2 DEF Window
<1>4. s # Slot(pos)
  BY <1>3 DEF Unused
<1>5. s \notin Skipped(r, pos)
  <2> SUFFICES ASSUME NEW k \in 1..(Step(r, pos) - 1), s = Slot(pos - k) PROVE FALSE
    BY DEF Skipped
  <2>1. pos - k \in Window(pos)
    BY <1>2 DEF Window, Step, Least
  <2> QED BY <2>1 DEF Unused
<1>6. s \in Unused(r.last)
  <2> SUFFICES ASSUME NEW i \in Window(r.last), Slot(i) = s PROVE FALSE
    BY <1>2 DEF Unused
  <2>1. i \in Nat /\ i >= 1 /\ i <= r.last /\ r.last - i < Size
    BY <1>2 DEF Window
  <2>2. CASE pos - i < Size
    <3>1. i \in Window(pos)
      BY <2>1, <2>2, <1>2 DEF Window
    <3> QED BY <3>1 DEF Unused
  <2>3. CASE pos - i >= Size
    \* Then the window of pos is full and has an index in every slot.
    <3>1. Slot(i) # s
      BY FullWindow, <1>2, <2>1, <2>3
    <3> QED BY <3>1
  <2> QED BY <2>1, <2>2, <2>3, <1>2
<1>7. a.data[s] = r.data[s]
  BY <1>2, <1>4, <1>5 DEF Appended
<1> QED BY <1>6, <1>7 DEF Tidy

LEMMA WrittenTidy ==
  ASSUME NEW r \in Ring, NEW k \in Nat, k < r.count, r.count <= r.last, NEW d \in Value, Tidy(r)
  PROVE  /\ Tidy(Written(r, k, d))
         /\ 1 + r.last + k - r.count \in Window(r.last)
<1> DEFINE i == 1 + r.last + k - r.count
<1>1. r.last \in Nat /\ r.count \in Nat /\ r.count <= Size
  BY DEF Ring
<1>2. i \in Window(r.last)
  BY <1>1 DEF Window
<1>3. Written(r, k, d).last = r.last
      /\ Written(r, k, d).data = [r.data EXCEPT ![Slot(i)] = d]
  BY DEF Written, Ring, ArraySlot
<1>4. r.data \in [Slots -> Value]
  BY DEF Ring
<1> HIDE DEF i
<1>5. ASSUME NEW s \in Unused(r.last) PROVE Written(r, k, d).data[s] = Empty
  <2>1. s # Slot(i) /\ s \in Slots /\ r.data[s] = Empty
    BY <1>2 DEF Unused, Tidy
  <2> QED BY <2>1, <1>3, <1>4
<1>6. Tidy(Written(r, k, d))
  BY <1>3, <1>5 DEF Tidy
<1> QED BY <1>2, <1>6 DEF i

\* When an average is due its interval begins at an index that exists.
LEMMA PassedInterval ==
  ASSUME NEW last \in Nat, NEW pos \in Nat, pos > last, Passes(last, pos)
  PROVE  pos - (pos % AInterval) - AInterval \in Nat
<1> DEFINE p == pos \div AInterval
           q == last \div AInterval
           m == pos % AInterval
<1>1. AInterval \in Nat \ {0} /\ p > q
  BY DEF Passes
<1>2. p \in Int /\ q \in Int /\ q >= 0 /\ m \in 0..(AInterval - 1)
  BY <1>1
<1>3. pos = AInterval * p + m
  BY <1>1
<1> HIDE DEF p, q, m
<1>4. AInterval * p >= AInterval
  BY <1>1, <1>2
<1>5. pos - m >= AInterval
  BY <1>1, <1>2, <1>3, <1>4
<1> QED BY <1>1, <1>2, <1>5 DEF m

LEMMA EmptyTidy == Tidy(EmptyRing) /\ Tidy(NoImage)
  BY DEF Tidy, EmptyRing, NoImage, Unused

(***************************************************************************)
(* The inductive invariant: types, tidy rings and images, bounded indexes.  *)
(***************************************************************************)
Bounded == ring.last <= MaxIndex /\ file.last <= MaxIndex /\ save.image.last <= MaxIndex
ImageTidy == save.pc \in {"image", "open"} => Tidy(save.image)
IInv == TypeOK /\ CountInWindow /\ Bounded

\* What the first half of the serialisation took is what the second half finds.
SameLast == save.pc = "last" => save.image.last = ring.last

LEMMA InitIInv == Init => IInv /\ ImageTidy /\ SameLast
<1> SUFFICES ASSUME Init PROVE IInv /\ ImageTidy /\ SameLast
  OBVIOUS
<1>1. EmptyRing.last = 0 /\ EmptyRing.count = 0 /\ NoImage.last = 0
  BY DEF EmptyRing, NoImage
<1> QED BY <1>1, EmptyRingType, EmptyTidy
        DEF Init, IInv, TypeOK, CountInWindow, Bounded, ImageTidy, SameLast, NotSaving

LEMMA NextIInv == IInv /\ ImageTidy /\ [Next]_vars => IInv'
<1> SUFFICES ASSUME IInv, ImageTidy, [Next]_vars PROVE IInv'
  OBVIOUS
<1> USE DEF IInv
<1>0. /\ ring \in Ring /\ file \in Image /\ ring.count <= ring.last /\ Tidy(ring) /\ Tidy(file)
      /\ ring.last \in Nat /\ file.last \in Nat /\ ring.data \in [Slots -> Value]
      /\ save.image \in Image
  BY DEF TypeOK, CountInWindow, Ring, Image
<1>1. ASSUME NEW t \in Thread, NEW pos \in 1..MaxIndex, NEW d \in Value, AppendItem(t, pos, d)
      PROVE  IInv'
  <2>1. pos \in Nat /\ pos > ring.last /\ ring' = Appended(ring, pos, d)
    BY <1>1 DEF AppendItem
  <2>2. ring' \in Ring /\ Tidy(ring')
    BY <1>0, <2>1, AppendedType, AppendedTidy
  <2>3. ring'.last = pos /\ ring'.count <= pos
    BY <1>0, <2>1 DEF Appended, Counted, Ring
  <2>4. average' \in [Thread -> Nat \cup {None}]
    <3> DEFINE v == IF Passes(ring.last, pos) THEN pos - (pos % AInterval) - AInterval ELSE None
    <3>1. v \in Nat \cup {None}
      BY <1>0, <2>1, PassedInterval
    <3>2. average' = [average EXCEPT ![t] = v]
      BY <1>1 DEF AppendItem
    <3> HIDE DEF v
    <3> QED BY <3>1, <3>2 DEF TypeOK
  <2> QED BY <1>0, <1>1, <2>1, <2>2, <2>3, <2>4 DEF AppendItem, TypeOK, CountInWindow, Bounded
<1>2. ASSUME NEW t \in Thread, ReadAverage(t)
      PROVE  IInv'
  BY <1>2 DEF ReadAverage, TypeOK, CountInWindow, Bounded
<1>3. ASSUME NEW t \in Thread, Clear(t)
      PROVE  IInv'
  <2>1. EmptyRing.last = 0 /\ EmptyRing.count = 0
    BY DEF EmptyRing
  <2> QED BY <2>1, <1>3, EmptyRingType, EmptyTidy DEF Clear, TypeOK, CountInWindow, Bounded
<1>4. ASSUME NEW t \in Thread, NEW k \in 0..(Size - 1), NEW d \in Value, WriteToArray(t, k, d)
      PROVE  IInv'
  <2>1. k \in Nat /\ k < ring.count /\ ring' = Written(ring, k, d)
    BY <1>4 DEF WriteToArray
  <2>2. ring' \in Ring /\ Tidy(ring')
    BY <1>0, <2>1, WrittenType, WrittenTidy
  <2>3. ring'.last = ring.last /\ ring'.count = ring.count
    BY <1>0, <2>1 DEF Written, Ring
  <2> QED BY <1>0, <1>4, <2>2, <2>3 DEF WriteToArray, TypeOK, CountInWindow, Bounded
<1>5. CASE SaveLast
  <2>1. save'.pc = "last" /\ save'.image \in Image /\ save'.image.last = ring.last
        /\ save' \in [pc : {"none", "last", "image", "open"}, image : Image]
    BY <1>0, <1>5, EmptyRingType DEF SaveLast, Image, Ring
  <2> QED BY <1>5, <2>1, <1>0 DEF SaveLast, TypeOK, CountInWindow, Bounded
<1>6. CASE SaveData
  <2>1. save'.pc = "image" /\ save'.image \in Image /\ save'.image.last = save.image.last
        /\ save' \in [pc : {"none", "last", "image", "open"}, image : Image]
    BY <1>0, <1>6 DEF SaveData, Image
  <2> QED BY <1>6, <2>1 DEF SaveData, TypeOK, CountInWindow, Bounded
<1>7. CASE OpenFile
  <2>1. NoImage.last = 0
    BY DEF NoImage
  <2>2. save' \in [pc : {"none", "last", "image", "open"}, image : Image]
        /\ save'.image = save.image
    BY <1>7 DEF OpenFile, TypeOK
  <2> QED BY <1>7, <2>1, <2>2, EmptyTidy, EmptyRingType
          DEF OpenFile, TypeOK, CountInWindow, Bounded
<1>8. CASE WriteFile
  <2>1. NoImage.last = 0 /\ NotSaving.image = NoImage
    BY DEF NoImage, NotSaving
  <2> QED BY <1>0, <1>8, <2>1, EmptyRingType
          DEF WriteFile, TypeOK, CountInWindow, Bounded, ImageTidy, NotSaving
<1>9. CASE SaveFails
  <2>1. NoImage.last = 0 /\ NotSaving.image = NoImage
    BY DEF NoImage, NotSaving
  <2> QED BY <1>9, <2>1, EmptyRingType
          DEF SaveFails, TypeOK, CountInWindow, Bounded, NotSaving
<1>10. CASE Restart
  <2>1. NoImage.last = 0 /\ NotSaving.image = NoImage
    BY DEF NoImage, NotSaving
  <2>2. Loaded(file) \in Ring /\ Loaded(file).count <= file.last /\ Loaded(file).last = file.last
        /\ Loaded(file).data = file.data
    BY <1>0, LoadedType DEF Loaded
  <2>3. Tidy(Loaded(file))
    BY <2>2, <1>0 DEF Tidy
  <2>4. average' \in [Thread -> Nat \cup {None}]
    BY <1>10 DEF Restart
  <2> QED BY <1>10, <2>1, <2>2, <2>3, <2>4, EmptyRingType
          DEF Restart, TypeOK, CountInWindow, Bounded, NotSaving
<1>11. CASE UNCHANGED vars
  BY <1>11 DEF vars, TypeOK, CountInWindow, Bounded
<1> QED BY <1>1, <1>2, <1>3, <1>4, <1>5, <1>6, <1>7, <1>8, <1>9, <1>10, <1>11 DEF Next

LEMMA NextImageTidy == IInv /\ ImageTidy /\ SameLast /\ [Next]_vars => ImageTidy'
<1> SUFFICES ASSUME IInv, ImageTidy, SameLast, [Next]_vars PROVE ImageTidy'
  OBVIOUS
<1>1. CASE SaveData
  BY <1>1 DEF SaveData, ImageTidy, SameLast, IInv, CountInWindow, Tidy
<1>2. CASE OpenFile
  BY <1>2 DEF OpenFile, ImageTidy, IInv, TypeOK
<1>3. CASE SaveLast \/ WriteFile \/ SaveFails \/ Restart
  BY <1>3 DEF SaveLast, WriteFile, SaveFails, Restart, ImageTidy, NotSaving
<1>4. CASE UNCHANGED save
  BY <1>4 DEF ImageTidy
<1> QED BY <1>1, <1>2, <1>3, <1>4
        DEF Next, vars, AppendItem, ReadAverage, Clear, WriteToArray

\* Nobody changes the ring between the two halves.
LEMMA NextSameLast ==
  ASSUME "appendWhileSaving" \notin Calls
  PROVE  IInv /\ SameLast /\ [Next]_vars => SameLast'
<1> SUFFICES ASSUME IInv, SameLast, [Next]_vars PROVE SameLast'
  OBVIOUS
<1>1. CASE SaveLast
  BY <1>1 DEF SaveLast, SameLast
<1>2. CASE SaveData \/ OpenFile \/ WriteFile \/ SaveFails \/ Restart
  BY <1>2 DEF SaveData, OpenFile, WriteFile, SaveFails, Restart, SameLast, NotSaving, IInv, TypeOK
<1>3. CASE UNCHANGED <<ring, save>>
  BY <1>3 DEF SameLast
<1>4. CASE save.pc # "last" /\ UNCHANGED save
  BY <1>4 DEF SameLast
<1> QED BY <1>1, <1>2, <1>3, <1>4
        DEF Next, vars, AppendItem, ReadAverage, Clear, WriteToArray, MayChange

(***************************************************************************)
(* The steps of the ring are steps of the timeline.                         *)
(***************************************************************************)
LEMMA SameWindow == \A last : Timeline!Window(last) = Window(last)
  BY DEF Timeline!Window, Window

LEMMA NothingView == View(NoImage) = Timeline!Nothing /\ View(EmptyRing) = Timeline!Nothing
<1>1. Window(0) = {} /\ Timeline!Window(0) = {}
  BY DEF Window, Timeline!Window
<1>2. NoImage.last = 0 /\ EmptyRing.last = 0
  BY DEF NoImage, EmptyRing
<1> QED BY <1>1, <1>2 DEF View, Timeline!Nothing

LEMMA AppendedView ==
  ASSUME NEW r \in Ring, NEW pos \in Nat, pos > r.last, NEW d \in Value,
         NEW limit, Step(r, pos) <= Fill <=> pos - r.last <= limit
  PROVE  View(Appended(r, pos, d)) =
           [last |-> pos, item |-> [i \in Window(pos) |->
              IF i <= r.last THEN View(r).item[i]
              ELSE IF i = pos \/ pos - r.last <= limit THEN d ELSE Empty]]
<1> DEFINE a == Appended(r, pos, d)
<1>1. a.last = pos /\ r.last \in Nat
  BY DEF Appended, Ring
<1>2. ASSUME NEW i \in Window(pos)
      PROVE  a.data[Slot(i)] = IF i <= r.last THEN View(r).item[i]
                               ELSE IF i = pos \/ pos - r.last <= limit THEN d ELSE Empty
  <2>1. i \in Int /\ Slot(i) \in Slots /\ i <= pos
    BY SlotType DEF Window
  <2>2. a.data[Slot(i)] = IF Slot(i) = Slot(pos) THEN d
                          ELSE IF Slot(i) \in Skipped(r, pos)
                               THEN IF Step(r, pos) <= Fill THEN d ELSE Empty
                               ELSE r.data[Slot(i)]
    BY <2>1 DEF Appended
  <2>3. CASE i <= r.last
    <3>1. i \in Window(r.last) /\ Slot(i) # Slot(pos) /\ Slot(i) \notin Skipped(r, pos)
      BY <2>3, AppendedSlots
    <3>2. View(r).item[i] = r.data[Slot(i)]
      BY <3>1 DEF View
    <3> QED BY <2>2, <2>3, <3>1, <3>2
  <2>4. CASE i = pos
    BY <2>2, <2>4, <1>1
  <2>5. CASE i > r.last /\ i # pos
    <3>1. Slot(i) # Slot(pos) /\ Slot(i) \in Skipped(r, pos)
      BY <2>5, AppendedSlots
    <3>2. ~(i <= r.last)
      BY <2>5, <2>1, <1>1
    <3> QED BY <2>2, <2>5, <3>1, <3>2
  <2> QED BY <2>1, <2>3, <2>4, <2>5, <1>1
<1> HIDE DEF a
<1> QED BY <1>1, <1>2 DEF View, a

LEMMA WrittenView ==
  ASSUME NEW r \in Ring, NEW k \in Nat, k < r.count, r.count <= r.last, NEW d \in Value, Tidy(r)
  PROVE  View(Written(r, k, d)) = [View(r) EXCEPT !.item[1 + r.last + k - r.count] = d]
<1> DEFINE i == 1 + r.last + k - r.count
           w == Written(r, k, d)
<1>1. i \in Window(r.last) /\ i \in Int /\ r.data \in [Slots -> Value]
  BY WrittenTidy DEF Window, Ring
<1>2. w.last = r.last /\ w.data = [r.data EXCEPT ![Slot(i)] = d]
  BY DEF Written, Ring, ArraySlot
<1>3. r.last \in Nat
  BY DEF Ring
<1> HIDE DEF i, w
<1>4. ASSUME NEW j \in Window(r.last)
      PROVE  w.data[Slot(j)] = IF j = i THEN d ELSE r.data[Slot(j)]
  <2>1. Slot(j) \in Slots /\ Slot(i) \in Slots
    BY <1>1, SlotType DEF Window
  <2>2. j # i => Slot(j) # Slot(i)
    BY <1>1, <1>3, SlotOfWindow
  <2> QED BY <1>1, <1>2, <2>1, <2>2
<1>5. View(w) = [last |-> r.last, item |-> [j \in Window(r.last) |->
                                     IF j = i THEN d ELSE View(r).item[j]]]
  BY <1>2, <1>4 DEF View
<1>6. [View(r) EXCEPT !.item[i] = d]
        = [last |-> r.last, item |-> [j \in Window(r.last) |->
                                     IF j = i THEN d ELSE View(r).item[j]]]
  <2> DEFINE f == [j \in Window(r.last) |-> r.data[Slot(j)]]
  <2>1. View(r) = [last |-> r.last, item |-> f]
    BY DEF View
  <2>2. [f EXCEPT ![i] = d] = [j \in Window(r.last) |-> IF j = i THEN d ELSE f[j]]
    OBVIOUS
  <2>3. [j \in Window(r.last) |-> IF j = i THEN d ELSE View(r).item[j]]
          = [f EXCEPT ![i] = d]
    BY <2>1, <2>2
  <2> HIDE DEF f
  <2>4. [View(r) EXCEPT !.item[i] = d] = [last |-> r.last, item |-> [f EXCEPT ![i] = d]]
    BY <2>1
  <2> QED BY <2>3, <2>4
<1> QED BY <1>5, <1>6 DEF i, w

\* What a step is for a timeline that does not append: the two timelines differ in
\* what an append fills, and in nothing else.
NoAppend ==
  \/ \E i \in 1..MaxIndex, d \in Value : Timeline!Overwrite(i, d)
  \/ Timeline!Clear \/ Timeline!Snapshot \/ Timeline!Truncate \/ Timeline!Store
  \/ Timeline!GiveUp \/ Timeline!Restart \/ UNCHANGED Timeline!timelineVars

LEMMA NoAppendNext == NoAppend => [Timeline!Next]_(Timeline!timelineVars)
  BY DEF NoAppend, Timeline!Next, Value

LEMMA NoAppendFilledNext == NoAppend => [Filled!Next]_(Filled!timelineVars)
<1> SUFFICES ASSUME NoAppend PROVE [Filled!Next]_(Filled!timelineVars)
  OBVIOUS
<1>1. ASSUME NEW i \in 1..MaxIndex, NEW d \in Value, Timeline!Overwrite(i, d)
      PROVE  Filled!Next
  <2>1. Filled!Overwrite(i, d)
    BY <1>1 DEF Timeline!Overwrite, Filled!Overwrite, Timeline!Window, Filled!Window
  <2> QED BY <2>1 DEF Filled!Next, Value
<1>2. Timeline!Nothing = Filled!Nothing
  BY DEF Timeline!Nothing, Filled!Nothing, Timeline!Window, Filled!Window
<1>3. CASE \/ Timeline!Clear \/ Timeline!Snapshot \/ Timeline!Truncate \/ Timeline!Store
           \/ Timeline!GiveUp \/ Timeline!Restart
  <2>1. \/ Filled!Clear \/ Filled!Snapshot \/ Filled!Truncate \/ Filled!Store
        \/ Filled!GiveUp \/ Filled!Restart
    BY <1>2, <1>3
       DEF Timeline!Clear, Timeline!Snapshot, Timeline!Truncate, Timeline!Store,
           Timeline!GiveUp, Timeline!Restart, Filled!Clear, Filled!Snapshot,
           Filled!Truncate, Filled!Store, Filled!GiveUp, Filled!Restart
  <2> QED BY <2>1 DEF Filled!Next
<1>4. CASE UNCHANGED Timeline!timelineVars
  BY <1>4 DEF Timeline!timelineVars, Filled!timelineVars
<1> QED BY <1>1, <1>3, <1>4 DEF NoAppend

LEMMA RefinedNoAppend ==
  ASSUME IInv, ImageTidy, SameLast, [Next]_vars
  PROVE  NoAppend \/ \E t \in Thread, pos \in 1..MaxIndex, d \in Value : AppendItem(t, pos, d)
<1> USE DEF IInv
<1>0. /\ ring \in Ring /\ file \in Image /\ ring.count <= ring.last /\ Tidy(ring)
      /\ ring.last \in Nat /\ MaxIndex \in Nat /\ ring.last <= MaxIndex
  BY DEF TypeOK, CountInWindow, Ring, Bounded
<1>2. ASSUME NEW t \in Thread, ReadAverage(t)
      PROVE  NoAppend
  BY <1>2 DEF ReadAverage, Timeline!timelineVars, Saved, NoAppend
<1>3. ASSUME NEW t \in Thread, Clear(t)
      PROVE  NoAppend
  BY <1>3, NothingView DEF Clear, Timeline!Clear, Saved, NoAppend
<1>4. ASSUME NEW t \in Thread, NEW k \in 0..(Size - 1), NEW d \in Value, WriteToArray(t, k, d)
      PROVE  NoAppend
  <2> DEFINE i == 1 + ring.last + k - ring.count
  <2>1. k \in Nat /\ k < ring.count /\ ring' = Written(ring, k, d) /\ UNCHANGED <<file, save>>
    BY <1>4 DEF WriteToArray
  <2>2. i \in Window(ring.last) /\ i \in 1..MaxIndex
    BY <2>1, <1>0, WrittenTidy DEF Window
  <2>3. View(ring)' = [View(ring) EXCEPT !.item[i] = d]
    BY <2>1, <1>0, WrittenView
  <2>4. View(ring).last = ring.last
    BY DEF View
  <2> HIDE DEF i
  <2>5. Timeline!Overwrite(i, d)
    BY <2>1, <2>2, <2>3, <2>4, SameWindow DEF Timeline!Overwrite, Saved
  <2> QED BY <2>2, <2>5 DEF NoAppend
<1>5. CASE SaveLast
  <2>1. save.pc = "none" /\ save'.pc = "last" /\ UNCHANGED <<ring, file>>
    BY <1>5 DEF SaveLast, Free
  <2> QED BY <2>1 DEF Timeline!timelineVars, Saved, NoAppend
<1>6. CASE SaveData
  <2>1. View(save'.image) = View(ring)
    BY <1>6 DEF SaveData, SameLast, View
  <2> QED BY <1>6, <2>1 DEF SaveData, Timeline!Snapshot, Saved, NoAppend
<1>7. CASE OpenFile
  <2>1. save'.image = save.image /\ save'.pc = "open"
    BY <1>7 DEF OpenFile, TypeOK
  <2> QED BY <1>7, <2>1, NothingView DEF OpenFile, Timeline!Truncate, Saved, NoAppend
<1>8. CASE WriteFile
  BY <1>8, NothingView DEF WriteFile, NotSaving, Timeline!Store, Saved, NoAppend
<1>9. CASE SaveFails
  BY <1>9, NothingView DEF SaveFails, NotSaving, Timeline!GiveUp, Saved, NoAppend
<1>10. CASE Restart
  <2>1. View(Loaded(file)) = View(file)
    BY DEF Loaded, View
  <2> QED BY <1>10, <2>1, NothingView DEF Restart, NotSaving, Timeline!Restart, Saved, NoAppend
<1>11. CASE UNCHANGED vars
  BY <1>11 DEF vars, Timeline!timelineVars, Saved, NoAppend
<1> QED BY <1>2, <1>3, <1>4, <1>5, <1>6, <1>7, <1>8, <1>9, <1>10, <1>11 DEF Next

\* An append, seen by a timeline that fills gaps up to the given limit.
LEMMA RefinedAppend ==
  ASSUME IInv, NEW t \in Thread, NEW pos \in 1..MaxIndex, NEW d \in Value, AppendItem(t, pos, d),
         NEW limit, Step(ring, pos) <= Fill <=> pos - ring.last <= limit
  PROVE  /\ pos > View(ring).last
         /\ View(ring)' = [last |-> pos, item |-> [i \in Window(pos) |->
              IF i <= View(ring).last THEN View(ring).item[i]
              ELSE IF i = pos \/ pos - View(ring).last <= limit THEN d ELSE Empty]]
         /\ UNCHANGED <<Saved, View(file)>>
<1>1. pos \in Nat /\ pos > ring.last /\ ring' = Appended(ring, pos, d) /\ UNCHANGED <<file, save>>
  BY DEF AppendItem
<1>2. ring \in Ring /\ View(ring).last = ring.last
  BY DEF IInv, TypeOK, View
<1>3. View(ring)' = View(Appended(ring, pos, d))
  BY <1>1
<1> QED BY <1>1, <1>2, <1>3, AppendedView DEF Saved

LEMMA RefinedNext ==
  ASSUME Fill < Size, IInv, ImageTidy, SameLast, [Next]_vars
  PROVE  [Timeline!Next]_(Timeline!timelineVars)
<1>1. ASSUME NEW t \in Thread, NEW pos \in 1..MaxIndex, NEW d \in Value, AppendItem(t, pos, d)
      PROVE  Timeline!Next
  <2>1. Step(ring, pos) <= Fill <=> pos - ring.last <= Fill
    BY <1>1, StepFilled DEF AppendItem, IInv, TypeOK
  <2>2. Timeline!Add(pos, d)
    BY <1>1, <2>1, RefinedAppend, SameWindow DEF Timeline!Add
  <2> QED BY <2>2 DEF Timeline!Next, Value
<1> QED BY <1>1, RefinedNoAppend, NoAppendNext

LEMMA RefinedFilledNext ==
  ASSUME Fill >= Size, IInv, ImageTidy, SameLast, [Next]_vars
  PROVE  [Filled!Next]_(Filled!timelineVars)
<1>1. ASSUME NEW t \in Thread, NEW pos \in 1..MaxIndex, NEW d \in Value, AppendItem(t, pos, d)
      PROVE  Filled!Next
  <2>1. Step(ring, pos) <= Fill
    BY <1>1, StepFilled DEF AppendItem, IInv, TypeOK
  <2>2. pos - ring.last <= MaxIndex
    BY DEF IInv, TypeOK, Ring
  <2>3. Filled!Window(pos) = Window(pos)
    BY DEF Filled!Window, Window
  <2>4. Filled!Add(pos, d)
    BY <1>1, <2>1, <2>2, <2>3, RefinedAppend DEF Filled!Add
  <2> QED BY <2>4 DEF Filled!Next, Value
<1> QED BY <1>1, RefinedNoAppend, NoAppendFilledNext

(***************************************************************************)
(* The theorems.                                                            *)
(***************************************************************************)
LEMMA Inductive ==
  ASSUME "appendWhileSaving" \notin Calls
  PROVE  Spec => [](IInv /\ ImageTidy /\ SameLast)
<1>1. Init => IInv /\ ImageTidy /\ SameLast
  BY InitIInv
<1>2. IInv /\ ImageTidy /\ SameLast /\ [Next]_vars => (IInv /\ ImageTidy /\ SameLast)'
  BY NextIInv, NextImageTidy, NextSameLast
<1> QED BY <1>1, <1>2, PTL DEF Spec

\* The ring, the file and what is being saved keep their types: an index never runs
\* out of its slots and the count never exceeds them (append(), readFromFile()).
THEOREM TypeCorrect ==
  ASSUME "appendWhileSaving" \notin Calls
  PROVE  Spec => []TypeOK
<1>1. IInv => TypeOK
  BY DEF IInv
<1> QED BY <1>1, Inductive, PTL

\* What readFromArray() and writeToArray() reach lies in the timeline, and a slot of no
\* index is empty, for every size of the ring.
THEOREM CountCorrect ==
  ASSUME "appendWhileSaving" \notin Calls
  PROVE  Spec => []CountInWindow
<1>1. IInv => CountInWindow
  BY DEF IInv
<1> QED BY <1>1, Inductive, PTL

\* The ring with its file implements the timeline: every append, overwrite, clear, save
\* and restart, whatever the size, the gaps and the number of threads, as long as the
\* longest gap to fill is shorter than the ring.
THEOREM TimelineCorrect ==
  ASSUME "appendWhileSaving" \notin Calls, Fill < Size
  PROVE  Spec => RefinesTimeline
<1>1. Init => Timeline!Init
  BY NothingView DEF Init, NotSaving, Saved, Timeline!Init
<1>2. IInv /\ ImageTidy /\ SameLast /\ [Next]_vars => [Timeline!Next]_(Timeline!timelineVars)
  BY RefinedNext
<1> QED BY <1>1, <1>2, Inductive, PTL DEF Spec, RefinesTimeline, Timeline!Spec

\* With a longer one it implements the timeline that fills every gap: append() compares
\* fill with a step that was cut to the size of the ring before.
THEOREM EveryGapFilled ==
  ASSUME "appendWhileSaving" \notin Calls, Fill >= Size
  PROVE  Spec => FillsEveryGap
<1>0. Timeline!Nothing = Filled!Nothing
  BY DEF Timeline!Nothing, Filled!Nothing, Timeline!Window, Filled!Window
<1>1. Init => Filled!Init
  BY <1>0, NothingView DEF Init, NotSaving, Saved, Filled!Init
<1>2. IInv /\ ImageTidy /\ SameLast /\ [Next]_vars => [Filled!Next]_(Filled!timelineVars)
  BY RefinedFilledNext
<1> QED BY <1>1, <1>2, Inductive, PTL DEF Spec, FillsEveryGap, Filled!Spec

LEMMA ItemInSlot ==
  ASSUME IInv, NEW j \in Nat, j <= ring.last, ring.last - j < Size
  PROVE  ring.data[Slot(j)] = Timeline!ItemAt(j)
<1>0. ring.last \in Nat /\ Tidy(ring) /\ View(ring).last = ring.last
  BY DEF IInv, TypeOK, CountInWindow, Ring, View
<1>1. CASE j \in Window(ring.last)
  <2>1. View(ring).item[j] = ring.data[Slot(j)]
    BY <1>1 DEF View
  <2> QED BY <1>0, <1>1, <2>1, SameWindow DEF Timeline!ItemAt
<1>2. CASE j \notin Window(ring.last)
  <2>1. j = 0 /\ ring.last < Size /\ Slot(j) = 0
    BY <1>0, <1>2, SmallSlot DEF Window
  <2>2. 0 \in Unused(ring.last)
    <3>1. 0 \in Slots
      BY DEF Slots
    <3> SUFFICES ASSUME NEW i \in Window(ring.last) PROVE Slot(i) # 0
      BY <3>1 DEF Unused
    <3>2. i \in Nat /\ i >= 1 /\ i < Size
      BY <1>0, <2>1 DEF Window
    <3> QED BY <3>2, SmallSlot
  <2> QED BY <1>0, <1>2, <2>1, <2>2, SameWindow DEF Tidy, Timeline!ItemAt
<1> QED BY <1>1, <1>2

\* read() answers as the timeline does, from any index but the one just before a full
\* window, and for any number of items.
THEOREM AnswersCorrect ==
  ASSUME "appendWhileSaving" \notin Calls
  PROVE  Spec => []AnswersOfTimeline
<1>1. IInv => AnswersOfTimeline
  <2> SUFFICES ASSUME IInv, NEW val \in 0..MaxIndex, NEW n \in 1..Size, val # ring.last - Size
               PROVE  Extract(ring, val, n) = Timeline!Answer(val, n)
    BY DEF AnswersOfTimeline
  <2>0. ring.last \in Nat /\ View(ring).last = ring.last /\ val \in Nat /\ n \in Nat /\ n >= 1
    BY DEF IInv, TypeOK, Ring, View
  <2>1. CASE val > ring.last
    BY <2>0, <2>1 DEF Extract, Timeline!Answer
  <2>2. CASE ~(val > ring.last)
    <3> DEFINE from == First(ring, val)
               upto == from + Extent(ring, val, n) - 1
    <3>1. /\ from \in Nat /\ from <= ring.last /\ ring.last - from < Size
          /\ from = Timeline!From(val)
      BY <2>0, <2>2 DEF First, Timeline!From, Timeline!Oldest
    <3>2. upto \in Nat /\ upto <= ring.last /\ upto = Timeline!UpTo(val, n)
      BY <2>0, <2>2, <3>1 DEF Extent, Least, Timeline!UpTo
    <3>3. Extent(ring, val, n) = 1 + upto - from
      BY <3>1, <3>2, <2>0 DEF Extent, Least
    <3>4. Extract(ring, val, n) =
            [last |-> upto, items |-> [k \in 1..(1 + upto - from) |->
                                         ring.data[Slot(from + k - 1)]]]
      BY <2>2, <3>3 DEF Extract
    <3>5. Timeline!Answer(val, n) =
            [last |-> upto, items |-> [k \in 1..(1 + upto - from) |->
                                         Timeline!ItemAt(from + k - 1)]]
      BY <2>0, <2>2, <3>1, <3>2 DEF Timeline!Answer
    <3> HIDE DEF from, upto
    <3>6. ASSUME NEW k \in 1..(1 + upto - from)
          PROVE  ring.data[Slot(from + k - 1)] = Timeline!ItemAt(from + k - 1)
      <4>1. from + k - 1 \in Nat /\ from + k - 1 <= ring.last /\ ring.last - (from + k - 1) < Size
        BY <3>1, <3>2, <2>0
      <4> QED BY <4>1, ItemInSlot
    <3> QED BY <3>4, <3>5, <3>6
  <2> QED BY <2>1, <2>2
<1> QED BY <1>1, Inductive, PTL
=============================================================================

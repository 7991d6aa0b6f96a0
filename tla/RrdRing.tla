------------------------------ MODULE RrdRing ------------------------------
(***************************************************************************)
(* The ring of AsyncFw::Rrd (src/main/Rrd.cpp) as operators on a record     *)
(* [last, count, data]: last_, count_ and dataBase.  The item of index i    *)
(* lives in slot i % Size.  Every caller holds the mutex of the thread.     *)
(***************************************************************************)
EXTENDS Integers, FiniteSets, Sequences

CONSTANTS
  Size,  \* dbSize, at least 1: the ring of size 0 ignores every append()
  Fill,  \* fill, the longest step of the index that append() fills
  Item,  \* what is stored, values other than the empty one
  Empty  \* the empty DataArray, a cleared slot

ASSUME RingAssumption ==
  Size \in Nat \ {0} /\ Fill \in Nat /\ IsFiniteSet(Item) /\ Empty \notin Item

Slots == 0..(Size - 1)
Slot(i) == i % Size
Value == Item \cup {Empty}
Ring == [last : Nat, count : 0..Size, data : [Slots -> Value]]

\* A new ring, or a cleared one.
EmptyRing == [last |-> 0, count |-> 0, data |-> [s \in Slots |-> Empty]]

Least(m, n) == IF m < n THEN m ELSE n

\* append() at index pos > last_: one slot for pos, and one for each index
\* between, as far as the ring reaches, which gets the same item or is cleared.
Step(r, pos) == Least(pos - r.last, Size)
\* Mutant: the slots of the indexes between keep the items of a cycle ago.
SkipNothing(r, pos) == {}
Skipped(r, pos) == {Slot(pos - k) : k \in 1..(Step(r, pos) - 1)}
Counted(r, pos) == IF r.count < Size /\ r.count < pos THEN r.count + 1 ELSE r.count
Appended(r, pos, d) ==
  [last  |-> pos,
   count |-> Counted(r, pos),
   data  |-> [s \in Slots |->
                IF s = Slot(pos) THEN d
                ELSE IF s \in Skipped(r, pos)
                     THEN IF Step(r, pos) <= Fill THEN d ELSE Empty
                     ELSE r.data[s]]]

\* readFromArray() and writeToArray(): the k-th of the count_ newest indexes.
ArraySlot(r, k) == Slot(1 + r.last + k - r.count)
Written(r, k, d) == [r EXCEPT !.data[ArraySlot(r, k)] = d]

\* read(): at most n items from index val on, and the index of the last one.
\* Indexes that were overwritten are skipped -- but for the newest of them.
\* Mutant: the index is not moved to the oldest that is left.
FirstAsAsked(r, val) == val
First(r, val) == IF r.last - val > Size THEN 1 + r.last - Size ELSE val
Extent(r, val, n) == Least(n, 1 + r.last - First(r, val))
Extract(r, val, n) ==
  IF val > r.last
  THEN [last |-> r.last, items |-> <<>>]
  ELSE [last  |-> First(r, val) + Extent(r, val, n) - 1,
        items |-> [k \in 1..Extent(r, val, n) |-> r.data[Slot(First(r, val) + k - 1)]]]

\* readFromFile(): count_ is the number of items that are not empty.
Populated(data) == Cardinality({s \in Slots : data[s] # Empty})
Loaded(image) == [last |-> image.last, count |-> Populated(image.data), data |-> image.data]
=============================================================================

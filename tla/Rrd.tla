-------------------------------- MODULE Rrd --------------------------------
(***************************************************************************)
(* AsyncFw::Rrd (src/main/Rrd.cpp): a ring of items used by the thread it   *)
(* was created on and by other threads, with a file it is saved to and      *)
(* reloaded from, and an average computed whenever the index passes a       *)
(* multiple of AInterval.  A timed append() and one with an index are an    *)
(* append at any index, one without either an append at the next.           *)
(***************************************************************************)
EXTENDS RrdRing

CONSTANTS
  Own, Other,  \* the thread of the ring, and the other threads that use it
  AInterval,   \* aInterval, 0 without an average
  Calls,       \* what the users may do at a time, a subset of AllCalls
  MaxIndex     \* bound: the indexes

\* "appendWhileSaving": others append while the own thread serialises the ring.
AllCalls == {"appendWhileSaving"}

ASSUME RrdAssumption ==
  /\ Own \notin Other
  /\ AInterval \in 0..Size /\ MaxIndex \in Nat /\ Calls \subseteq AllCalls

VARIABLES
  ring,     \* last_, count_, dataBase
  file,     \* the last_ and dataBase in the file, or NoImage if it cannot be read
  save,     \* how far saveToFile() is, and what it has serialised
  average   \* by thread: the index its append() still has to read from, or None

vars == <<ring, file, save, average>>

Thread == {Own} \cup Other
None == -1
NoImage == [last |-> 0, data |-> EmptyRing.data]
NotSaving == [pc |-> "none", image |-> NoImage]

Init ==
  /\ ring = EmptyRing /\ file = NoImage /\ save = NotSaving
  /\ average = [t \in Thread |-> None]

\* The own thread is busy while it saves; nobody returns before its average is read.
Free(t) == average[t] = None /\ (t = Own => save.pc = "none")
MayChange(t) == Free(t) /\ (save.pc = "last" => "appendWhileSaving" \in Calls)

-----------------------------------------------------------------------------
Passes(last, pos) == AInterval > 0 /\ pos \div AInterval > last \div AInterval

\* append(): under the mutex, up to the unlock.
AppendItem(t, pos, d) ==
  /\ MayChange(t) /\ pos > ring.last
  /\ ring' = Appended(ring, pos, d)
  /\ average' = [average EXCEPT ![t] =
                   IF Passes(ring.last, pos) THEN pos - (pos % AInterval) - AInterval ELSE None]
  /\ UNCHANGED <<file, save>>

\* append(), after it: the list of the average, Extract(ring, average[t], AInterval),
\* is read under the mutex again and handed to the user.
ReadAverage(t) ==
  /\ average[t] # None
  /\ average' = [average EXCEPT ![t] = None]
  /\ UNCHANGED <<ring, file, save>>

WriteToArray(t, k, d) ==
  /\ MayChange(t) /\ k < ring.count
  /\ ring' = Written(ring, k, d)
  /\ UNCHANGED <<file, save, average>>

\* Mutant: the items are cleared, the count is not.
ClearItems(t) ==
  /\ MayChange(t)
  /\ ring' = [EmptyRing EXCEPT !.count = ring.count]
  /\ UNCHANGED <<file, save, average>>

Clear(t) ==
  /\ MayChange(t)
  /\ ring' = EmptyRing
  /\ UNCHANGED <<file, save, average>>

-----------------------------------------------------------------------------
(***************************************************************************)
(* saveToFile(), on the own thread and without the mutex: last_ and         *)
(* dataBase are serialised, the file is opened, which empties it, and       *)
(* written.  Opening or writing may fail.                                   *)
(***************************************************************************)
SaveLast ==
  /\ Free(Own)
  /\ save' = [pc |-> "last", image |-> [last |-> ring.last, data |-> EmptyRing.data]]
  /\ UNCHANGED <<ring, file, average>>

SaveData ==
  /\ save.pc = "last"
  /\ save' = [pc |-> "image", image |-> [last |-> save.image.last, data |-> ring.data]]
  /\ UNCHANGED <<ring, file, average>>

OpenFile ==
  /\ save.pc = "image"
  /\ save' = [save EXCEPT !.pc = "open"]
  /\ file' = NoImage
  /\ UNCHANGED <<ring, average>>

WriteFile ==
  /\ save.pc = "open"
  /\ file' = save.image /\ save' = NotSaving
  /\ UNCHANGED <<ring, average>>

SaveFails ==
  /\ save.pc \in {"image", "open"}
  /\ save' = NotSaving
  /\ UNCHANGED <<ring, file, average>>

\* The program ends, at any moment, and the constructor reads the file, or creates
\* an empty one; the destructor of an orderly end is a save before it.
Restart ==
  /\ ring' = Loaded(file)
  /\ save' = NotSaving /\ average' = [t \in Thread |-> None]
  /\ UNCHANGED file

Next ==
  \/ \E t \in Thread, pos \in 1..MaxIndex, d \in Value : AppendItem(t, pos, d)
  \/ \E t \in Thread : ReadAverage(t) \/ Clear(t)
  \/ \E t \in Thread, k \in 0..(Size - 1), d \in Value : WriteToArray(t, k, d)
  \/ SaveLast \/ SaveData \/ OpenFile \/ WriteFile \/ SaveFails \/ Restart

Spec == Init /\ [][Next]_vars

-----------------------------------------------------------------------------
Image == [last : Nat, data : [Slots -> Value]]

\* The variables have their types, and the count fits the ring.
TypeOK ==
  /\ ring \in Ring /\ file \in Image
  /\ save \in [pc : {"none", "last", "image", "open"}, image : Image]
  /\ average \in [Thread -> Nat \cup {None}]

\* The indexes a ring that ends at last still holds.
Window(last) == {i \in 1..last : last - i < Size}
Unused(last) == {s \in Slots : \A i \in Window(last) : Slot(i) # s}
Tidy(r) == \A s \in Unused(r.last) : r.data[s] = Empty

\* readFromArray() and writeToArray() reach only items of the timeline: what is
\* counted lies in the window, and a slot of no index is empty, also after gaps,
\* clear() and a reload (append(), clear(), readFromFile()).
CountInWindow == ring.count <= ring.last /\ Tidy(ring) /\ Tidy(file)

(***************************************************************************)
(* The ring, its file and its answers implement what a persistent timeline  *)
(* promises that fills the gaps of up to fill steps.                        *)
(***************************************************************************)
View(r) == [last |-> r.last, item |-> [i \in Window(r.last) |-> r.data[Slot(i)]]]
Saved == IF save.pc \in {"image", "open"} THEN View(save.image) ELSE View(NoImage)
Timeline == INSTANCE Timeline WITH held <- View(ring), saving <- Saved, kept <- View(file)

\* The same, with every gap filled.
Filled == INSTANCE Timeline WITH
  Fill <- MaxIndex, held <- View(ring), saving <- Saved, kept <- View(file)

\* Every append(), read(), average, clear(), save() and restart is a step of the
\* timeline: no gap, wrap-around or torn save ever shows an item at a wrong index.
\* "Maximum allowed time window to auto-fill missed historical data gaps" (Rrd.h): a
\* gap is filled if and only if it is at most Fill long.
RefinesTimeline == Timeline!Spec

\* append() compares a step cut to the size of the ring: with Fill >= Size it fills
\* every gap, however long.
FillsEveryGap == Filled!Spec

\* read(), also the one of an average, answers as the timeline does, from any index on
\* and for any number of items -- but for the index just before a full window, which
\* it takes for one that is left.
AnswersOfTimeline ==
  \A val \in 0..MaxIndex, n \in 1..Size :
    val # ring.last - Size => Extract(ring, val, n) = Timeline!Answer(val, n)

\* Rrd.h: read() returns the index of the last record it extracted: the record is
\* the one the timeline has at that index.
AnswerEndsAtItsIndex ==
  \A val \in 1..ring.last, n \in 1..Size :
    LET answer == Extract(ring, val, n)
    IN /\ answer.last \in Window(ring.last)
       /\ answer.items[Len(answer.items)] = View(ring).item[answer.last]
=============================================================================

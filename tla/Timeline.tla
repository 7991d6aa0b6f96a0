----------------------------- MODULE Timeline -----------------------------
(***************************************************************************)
(* What a persistent round-robin database promises its users: it holds the  *)
(* items of the last Size indexes, answers a read with the items of the     *)
(* indexes it was asked for, and comes back after a restart as it was when  *)
(* it was saved, or with nothing, never as a mixture.                       *)
(***************************************************************************)
EXTENDS Integers, Sequences

CONSTANTS Size, Fill, Item, Empty, MaxIndex

VARIABLES
  held,    \* the last index, and the items of the window that ends there
  saving,  \* what is being written, or Nothing
  kept     \* what a restart brings back

timelineVars == <<held, saving, kept>>

Window(last) == {i \in 1..last : last - i < Size}
Nothing == [last |-> 0, item |-> [i \in Window(0) |-> Empty]]

Init == held = Nothing /\ saving = Nothing /\ kept = Nothing

\* A new index: the skipped ones get the item too if the step is at most Fill.
Add(pos, d) ==
  /\ pos > held.last
  /\ held' = [last |-> pos, item |-> [i \in Window(pos) |->
                IF i <= held.last THEN held.item[i]
                ELSE IF i = pos \/ pos - held.last <= Fill THEN d ELSE Empty]]
  /\ UNCHANGED <<saving, kept>>

Overwrite(i, d) ==
  /\ i \in Window(held.last)
  /\ held' = [held EXCEPT !.item[i] = d]
  /\ UNCHANGED <<saving, kept>>

Clear == held' = Nothing /\ UNCHANGED <<saving, kept>>

(***************************************************************************)
(* A read of at most n items from index val on is answered with the items,  *)
(* each the one of its own index, and the index of the last of them.  It    *)
(* begins with the oldest index that is left if val is older.  Before the   *)
(* first window is full that is index 0, which never has an item.           *)
(***************************************************************************)
ItemAt(j) == IF j \in Window(held.last) THEN held.item[j] ELSE Empty
Oldest == IF held.last < Size THEN 0 ELSE 1 + held.last - Size
From(val) == IF val < Oldest THEN Oldest ELSE val
UpTo(val, n) == IF From(val) + n - 1 < held.last THEN From(val) + n - 1 ELSE held.last
Answer(val, n) ==
  IF val > held.last THEN [last |-> held.last, items |-> <<>>]
  ELSE [last  |-> UpTo(val, n),
        items |-> [k \in 1..(1 + UpTo(val, n) - From(val)) |-> ItemAt(From(val) + k - 1)]]

\* Saving: the whole of what is held at one moment, and nothing is kept meanwhile.
Snapshot == saving' = held /\ UNCHANGED <<held, kept>>
Truncate == kept' = Nothing /\ UNCHANGED <<held, saving>>
Store == kept' = saving /\ saving' = Nothing /\ UNCHANGED held
GiveUp == saving' = Nothing /\ UNCHANGED <<held, kept>>

\* The program ends in any state and is started again.
Restart == held' = kept /\ saving' = Nothing /\ UNCHANGED kept

Next ==
  \/ \E pos \in 1..MaxIndex, d \in Item \cup {Empty} : Add(pos, d)
  \/ \E i \in 1..MaxIndex, d \in Item \cup {Empty} : Overwrite(i, d)
  \/ Clear \/ Snapshot \/ Truncate \/ Store \/ GiveUp \/ Restart

Spec == Init /\ [][Next]_timelineVars
=============================================================================

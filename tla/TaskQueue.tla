----------------------------- MODULE TaskQueue -----------------------------
(***************************************************************************)
(* What AsyncFw::AbstractThread promises about tasks, without a loop, a     *)
(* lock or a wake-up: a queue that accepts tasks until the thread finishes, *)
(* runs them one after the other in the order they were accepted, and is    *)
(* empty by the time the thread is reported as finished.                    *)
(***************************************************************************)
EXTENDS Naturals, Sequences

CONSTANT Task      \* the tasks, each invoked at most once

VARIABLES
  phase,     \* "open", "closing", "closed", or "gone" once destroyed
  accepted,  \* the tasks accepted, in order
  ran        \* the tasks run, in order

vars == <<phase, accepted, ran>>

Init == phase = "open" /\ accepted = <<>> /\ ran = <<>>

\* A task is accepted.
Submit(t) ==
  /\ phase = "open"
  /\ accepted' = Append(accepted, t)
  /\ UNCHANGED <<phase, ran>>

\* The next task in order runs.
Run ==
  /\ phase \in {"open", "closing"}
  /\ Len(ran) < Len(accepted)
  /\ ran' = Append(ran, accepted[Len(ran) + 1])
  /\ UNCHANGED <<phase, accepted>>

\* The thread is about to finish: tasks are refused, those accepted still run.
Close ==
  /\ phase = "open"
  /\ phase' = "closing"
  /\ UNCHANGED <<accepted, ran>>

\* The thread is finished, with every task run.
End ==
  /\ phase = "closing" /\ ran = accepted
  /\ phase' = "closed"
  /\ UNCHANGED <<accepted, ran>>

\* The thread is started again.
Reopen ==
  /\ phase = "closed"
  /\ phase' = "open"
  /\ UNCHANGED <<accepted, ran>>

\* The object is destroyed; what it still holds runs on the spot.
Drain ==
  /\ phase \in {"open", "closed"}
  /\ phase' = "gone"
  /\ ran' = accepted
  /\ UNCHANGED accepted

Next == (\E t \in Task : Submit(t)) \/ Run \/ Close \/ End \/ Reopen \/ Drain

Spec == Init /\ [][Next]_vars
=============================================================================

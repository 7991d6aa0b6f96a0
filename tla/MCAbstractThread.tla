-------------------------- MODULE MCAbstractThread --------------------------
(* AbstractThread on small instances. *)
EXTENDS AbstractThreadInvariants

\* Tasks are interchangeable, and so are the clients and the waiters.
Symmetry == Permutations(Task) \cup Permutations(Client) \cup Permutations(Waiter)
=============================================================================

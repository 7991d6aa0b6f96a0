---------------------------- MODULE MCConnector ----------------------------
(***************************************************************************)
(* Small instances of Connector.                                            *)
(***************************************************************************)
EXTENDS Connector, TLC

\* The threads are interchangeable (for safety only).
Symmetry == Permutations(Thread)
=============================================================================

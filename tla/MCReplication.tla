--------------------------- MODULE MCReplication ---------------------------
(***************************************************************************)
(* Small instances of Replication.                                          *)
(***************************************************************************)
EXTENDS Replication
=============================================================================

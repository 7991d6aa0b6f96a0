------------------------------- MODULE MCRrd -------------------------------
(***************************************************************************)
(* Small instances of Rrd: one item besides the empty one is enough to tell *)
(* the slots of a ring apart.                                               *)
(***************************************************************************)
EXTENDS Rrd
=============================================================================

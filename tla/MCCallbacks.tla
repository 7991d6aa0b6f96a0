---------------------------- MODULE MCCallbacks ----------------------------
(* Callbacks on small instances. *)
EXTENDS Callbacks
=============================================================================

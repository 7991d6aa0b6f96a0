---------------------------- MODULE MCTcpServer -----------------------------
(* TcpServer on small instances. *)
EXTENDS TcpServer
=============================================================================

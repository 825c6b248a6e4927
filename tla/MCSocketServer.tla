---------------------------- MODULE MCSocketServer ----------------------------
(***************************************************************************)
(* Instances of SocketServer for TLC.                                      *)
(***************************************************************************)
EXTENDS SocketServer

CONSTANTS c1, c2

TwoConns == {c1, c2}
=============================================================================

------------------------------ MODULE MCDaemon ------------------------------
(* A small instance of Daemon for TLC. *)
EXTENDS Daemon

CONSTANTS p1, p2, p3
=============================================================================

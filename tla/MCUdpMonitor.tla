---------------------------- MODULE MCUdpMonitor ----------------------------
(* A small instance of UdpMonitor for TLC: a monitor with a timeout and    *)
(* one without.                                                            *)
EXTENDS UdpMonitor, TLC

CONSTANTS m1, m2

MCTimeout == m1 :> 2 @@ m2 :> 0
=============================================================================

---------------------------- MODULE MCGpioOutput ----------------------------
(* A small instance of GpioOutput for TLC. *)
EXTENDS GpioOutput, TLC

CONSTANTS l1, l2

(* Watchdogs pulse both lines; l2 has a pulser too, as Pin 1 has in the    *)
(* sample configuration.                                                   *)
MCPulsePeriod == l1 :> 0 @@ l2 :> 2
=============================================================================

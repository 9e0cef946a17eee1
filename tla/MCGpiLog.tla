------------------------------ MODULE MCGpiLog ------------------------------
(* A small instance of GpiLog for TLC. *)
EXTENDS GpiLog, TLC

CONSTANTS d1, p1, l1, l2

(* One watchdog, fed while its line is low, with a slot that begins the    *)
(* day; it sounds its alarm on l1 and its reset on l2, which has a pulser. *)
MCPinDog == p1 :> d1
MCNormalState == d1 :> "Low"
MCTimeout == d1 :> 2
MCSlots == d1 :> <<[start |-> 0, end |-> 5]>>
MCPulsePeriod == l1 :> 0 @@ l2 :> 2
MCTimeoutLine == d1 :> l1
MCResetLine == d1 :> l2
=============================================================================

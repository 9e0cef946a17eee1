----------------------------- MODULE MCWatchdog -----------------------------
(* Small instances of Watchdog for TLC. *)
EXTENDS Watchdog, TLC

CONSTANTS d1, d2, p1, p2

(* d1 is fed by any change of p1, and its day has a gap in it; d2 is fed   *)
(* while the inverted line p2 is low, and its one slot begins the day.     *)
MCPinDog == p1 :> d1 @@ p2 :> d2
MCNormalState == d1 :> "Transition" @@ d2 :> "High"
MCTimeout == d1 :> 2 @@ d2 :> 3
MCSlots == d1 :> <<[start |-> 1, end |-> 3], [start |-> 4, end |-> 8]>>
        @@ d2 :> <<[start |-> 0, end |-> 7]>>
=========================================================================

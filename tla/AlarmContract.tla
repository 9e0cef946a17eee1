---------------------------- MODULE AlarmContract ----------------------------
(***************************************************************************)
(* What a watchdog of gpilogd promises to the people it calls, without its *)
(* timers and its polls (gpilog.conf-sample, the [Watchdog<n>] sections):  *)
(* the alarm is raised once per silence, inside a timeslot and only after  *)
(* the silence has lasted the timeout; it is withdrawn by a feed, which is *)
(* announced, or by the watchdog's restart, which is not and which happens *)
(* only at the start of a slot or at midnight.                             *)
(***************************************************************************)
EXTENDS GpiWatchdog

CONSTANTS Dogs, Timeout, Slots, MaxLate

VARIABLES
  now,    \* time of day
  alarm,  \* [Dogs -> BOOLEAN]
  told,   \* [Dogs -> {"ok", "alarm"}]: the last announcement
  unfed   \* ticks since the last feed or restart, capped

vars == <<now, alarm, told, unfed>>

Cap(w) == Timeout[w] + MaxLate + 1

(* The moments at which a watchdog may be restarted. *)
Boundaries(w) == {0} \cup {Slots[w][i].start : i \in DOMAIN Slots[w]}

AtBoundary(w) ==
  \E b \in Boundaries(w), late \in 0 .. MaxLate : now = (b + late) % DayLen

Init ==
  /\ now \in TimeOfDay
  /\ alarm = [w \in Dogs |-> FALSE]
  /\ told = [w \in Dogs |-> "ok"]
  /\ unfed = [w \in Dogs |-> 0]

Tick ==
  /\ now' = (now + 1) % DayLen
  /\ unfed' = [w \in Dogs |-> IF unfed[w] < Cap(w) THEN unfed[w] + 1
                                                   ELSE unfed[w]]
  /\ UNCHANGED <<alarm, told>>

Raise(w) ==
  /\ ~alarm[w]
  /\ unfed[w] >= Timeout[w]
  /\ SlotActive(Slots[w], now)
  /\ alarm' = [alarm EXCEPT ![w] = TRUE]
  /\ told' = [told EXCEPT ![w] = "alarm"]
  /\ UNCHANGED <<now, unfed>>

Feed(D) ==
  /\ alarm' = [w \in Dogs |-> alarm[w] /\ w \notin D]
  /\ told' = [w \in Dogs |-> IF w \in D /\ alarm[w] THEN "ok" ELSE told[w]]
  /\ unfed' = [w \in Dogs |-> IF w \in D THEN 0 ELSE unfed[w]]
  /\ UNCHANGED now

Rearm(w) ==
  /\ AtBoundary(w)
  /\ alarm' = [alarm EXCEPT ![w] = FALSE]
  /\ unfed' = [unfed EXCEPT ![w] = 0]
  /\ UNCHANGED <<now, told>>

(* The operator reloads the configuration. *)
Reload ==
  /\ alarm' = [w \in Dogs |-> FALSE]
  /\ unfed' = [w \in Dogs |-> 0]
  /\ UNCHANGED <<now, told>>

Next ==
  \/ Tick
  \/ Reload
  \/ \E w \in Dogs : Raise(w) \/ Rearm(w)
  \/ \E D \in SUBSET Dogs : Feed(D)

Spec == Init /\ [][Next]_vars
=============================================================================

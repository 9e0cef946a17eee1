----------------------------- MODULE GpiWatchdog -----------------------------
(***************************************************************************)
(* The time arithmetic of class GPIWatchdog (gpi_watchdog.cpp): the        *)
(* timeslots during which a watchdog may fire, and the delay until the     *)
(* watchdog is re-armed.                                                   *)
(*                                                                         *)
(* A time of day is a number of ticks in 0 .. DayLen-1, and 0 is           *)
(* QTime(), midnight.  dog_start_times and dog_end_times, which addSlot()  *)
(* extends together, are one sequence of [start, end] records.             *)
(***************************************************************************)
EXTENDS Integers, Sequences

CONSTANT DayLen           \* ticks in a day: 23:59:59 plus 1000 ms

ASSUME DayLenAssumption == DayLen \in Nat \ {0, 1}

TimeOfDay == 0 .. DayLen - 1

Slot == [start : TimeOfDay, end : TimeOfDay]

(* Both ends are excluded, so a slot whose end is not after its start (one *)
(* meant to span midnight) is never active.                                *)
SlotActive(slots, time) ==
  \E i \in DOMAIN slots : slots[i].start < time /\ slots[i].end > time

LaterSlots(slots, time) == {i \in DOMAIN slots : time < slots[i].start}

(* A faulty variant: the first slot, even when it is already past. *)
NextRestartFirst(slots, time) ==
  IF slots = <<>> THEN DayLen - time ELSE slots[1].start - time

(* The loop keeps the first listed slot that starts after `time', because  *)
(* once start_time is set it no longer lies before `time'.  At midnight    *)
(* exactly, time > start_time fails from the beginning and no slot is      *)
(* kept.  Without a slot the answer is the time left until midnight.       *)
NextRestart(slots, time) ==
  LET later == LaterSlots(slots, time)
      first == CHOOSE i \in later : \A j \in later : i <= j
  IN  IF time > 0 /\ later # {}
      THEN slots[first].start - time
      ELSE DayLen - time
=============================================================================

----------------------------- MODULE GpioOutput -----------------------------
(***************************************************************************)
(* The output lines of one GPIO device: LocalGpio's gpoSet(), gpoReset()   *)
(* and reversion timers (local_gpio.cpp), the pulsers of                   *)
(* Pin<n>PulsePeriod= (gpi_pulser.cpp) and the one-second pulses the       *)
(* watchdogs ask for (gpilog.cpp), which may all share a line.             *)
(***************************************************************************)
EXTENDS QtTimers

CONSTANTS
  Lines,        \* output lines of the device
  AlarmLines,   \* lines some TimeoutPin= or ResetPin= names
  PulsePeriod,  \* [Lines -> ticks], Pin<n>PulsePeriod=; 0 when there is none
  PulseLen,     \* ticks in the 1000 ms of a watchdog's pulse
  MaxLate       \* most ticks the event loop may be late for a due timer

ASSUME GpioOutputAssumption ==
  /\ AlarmLines \subseteq Lines
  /\ PulsePeriod \in [Lines -> Nat]
  /\ PulseLen \in Nat \ {0}
  /\ MaxLate \in Nat

PulserLines == {l \in Lines : PulsePeriod[l] > 0}

VARIABLES
  output,       \* level of every output line, as the driver has it
  pulse_state,  \* of the GPIPulser of the line
  timers,       \* the running QTimers (see QtTimers)
  \* history, read by no handler:
  pulsed,       \* a watchdog has pulsed the line since the last reload
  since         \* ticks since it last did, capped

vars == <<output, pulse_state, timers, pulsed, since>>

PulseTimer(l) == <<"pulse_timer", l>>
RevertTimer(l) == <<"gpio_revert_timer", l>>
Reverts(L) == {RevertTimer(l) : l \in L}

Pending(l) == RevertTimer(l) \in DOMAIN timers

SinceCap == PulseLen + MaxLate + 1

-----------------------------------------------------------------------------
(* The timers of the pulsers, the only ones that run at the start. *)
StartTimers ==
  [t \in {PulseTimer(l) : l \in PulserLines} |-> PulsePeriod[t[2]]]

(* No output is touched when the device is opened. *)
Init ==
  /\ output \in [Lines -> BOOLEAN]
  /\ pulse_state = [l \in Lines |-> FALSE]
  /\ timers = StartTimers
  /\ pulsed = [l \in Lines |-> FALSE]
  /\ since = [l \in Lines |-> 0]

(* restartData() on a SIGHUP: Restart() deletes the pulsers and the device *)
(* with its reversion timers, and Init() builds them anew.  A pulse that   *)
(* was on its way stays on.                                                *)
Reload ==
  /\ pulse_state' = [l \in Lines |-> FALSE]
  /\ timers' = StartTimers
  /\ pulsed' = [l \in Lines |-> FALSE]
  /\ UNCHANGED <<output, since>>

(* Faulty variants: gpoSet(line,0) leaves a pending reversion alone;       *)
(* a pending reversion is not put off; no reversion is ever started.       *)
SetReversionUncancelled(ts, L, interval) ==
  IF interval = 0 THEN ts ELSE AllStarted(ts, Reverts(L), interval)

SetReversionKept(ts, L, interval) ==
  IF interval = 0 THEN Stopped(ts, Reverts(L))
                  ELSE AllStarted(ts, Reverts(L) \ DOMAIN ts, interval)

SetReversionOff(ts, L, interval) == Stopped(ts, Reverts(L))

(* SetReversion() for the lines L on the timers ts; changeInterval() of a  *)
(* running timer and start() of a stopped one come to the same.            *)
SetReversion(ts, L, interval) ==
  IF interval = 0 THEN Stopped(ts, Reverts(L))
                  ELSE AllStarted(ts, Reverts(L), interval)

(* gpoSet() when level is TRUE and gpoReset() when it is FALSE. *)
GpoDrive(L, level, interval, ts) ==
  /\ output' = [l \in Lines |-> IF l \in L THEN level ELSE output[l]]
  /\ timers' = SetReversion(ts, L, interval)

(* watchdogTimeoutData() and UpdateWatchdog(): gpoSet(pin,1000), for every *)
(* watchdog the handler does it for.                                       *)
WatchdogPulse(L) ==
  /\ GpoDrive(L, TRUE, PulseLen, timers)
  /\ pulsed' = [l \in Lines |-> l \in L \/ pulsed[l]]
  /\ since' = [l \in Lines |-> IF l \in L THEN 0 ELSE since[l]]
  /\ UNCHANGED pulse_state

(* The single-shot timer has stopped itself; the line goes to the opposite *)
(* of what it is now, not of what it was set to.                           *)
RevertData(l) ==
  /\ DueFirst(timers, RevertTimer(l))
  /\ GpoDrive({l}, ~output[l], 0, Stopped(timers, {RevertTimer(l)}))
  /\ UNCHANGED <<pulse_state, pulsed, since>>

(* Faulty variants: the pulser's timer is single-shot; pulse_state is not  *)
(* flipped.                                                                *)
NextPulseNone(l) == Stopped(timers, {PulseTimer(l)})
FlippedNever(l) == pulse_state

NextPulse(l) == Rearmed(timers, PulseTimer(l), PulsePeriod[l])

Flipped(l) == [pulse_state EXCEPT ![l] = ~@]

(* A pulser switches its line off first.  Either way it cancels the        *)
(* reversion of a pulse that a watchdog has begun on the line.             *)
PulserTimeoutData(l) ==
  /\ DueFirst(timers, PulseTimer(l))
  /\ GpoDrive({l}, pulse_state[l], 0, NextPulse(l))
  /\ pulse_state' = Flipped(l)
  /\ UNCHANGED <<pulsed, since>>

Tick ==
  /\ MayElapse(timers, MaxLate)
  /\ timers' = Elapsed(timers)
  /\ since' = [l \in Lines |-> IF since[l] < SinceCap THEN since[l] + 1
                                                      ELSE since[l]]
  /\ UNCHANGED <<output, pulse_state, pulsed>>

Handler ==
  \/ \E l \in Lines : RevertData(l)
  \/ \E l \in PulserLines : PulserTimeoutData(l)

Next ==
  \/ Tick
  \/ Handler
  \/ \E L \in (SUBSET AlarmLines) \ {{}} : WatchdogPulse(L)
  \/ Reload

Spec == Init /\ [][Next]_vars

(* Time goes on and due timers are handled. *)
FairSpec == Spec /\ WF_vars(Tick \/ Handler)

-----------------------------------------------------------------------------
(* Types; the pulsers' timers run all the time. *)
TypeOK ==
  /\ output \in [Lines -> BOOLEAN]
  /\ pulse_state \in [Lines -> BOOLEAN]
  /\ {PulseTimer(l) : l \in PulserLines} \subseteq DOMAIN timers
  /\ DOMAIN timers \subseteq {PulseTimer(l) : l \in PulserLines}
                               \cup {RevertTimer(l) : l \in Lines}
  /\ timers \in [DOMAIN timers -> Int]
  /\ \A t \in DOMAIN timers : timers[t] >= -MaxLate
  /\ pulsed \in [Lines -> BOOLEAN]
  /\ since \in [Lines -> Nat]

(* A reversion is pending only on a line that is on, so that the toggle in *)
(* revertData() always switches it off, even on a line a pulser drives.    *)
PendingIsOn == \A l \in Lines : Pending(l) => output[l]

(* On a line without a pulser the pulse of a watchdog ends in time.        *)
PulseEnds ==
  \A l \in Lines \ PulserLines :
    pulsed[l] /\ since[l] > PulseLen + MaxLate => ~output[l]

(* On a line without a pulser nothing cuts a pulse short: it lasts its     *)
(* full second from the last alarm or reset that asked for it.             *)
FullPulse ==
  [][\A l \in Lines \ PulserLines :
       output[l] /\ ~output'[l] => pulsed[l] /\ since[l] >= PulseLen]_vars

(* A line with a pulser keeps going on and off, whatever the watchdogs do  *)
(* to it, as long as the daemon is not reloaded forever.                   *)
Heartbeat ==
  \A l \in PulserLines :
    <>[][~Reload]_vars => []<>output[l] /\ []<>~output[l]
=============================================================================

------------------------------- MODULE GpiLog -------------------------------
(***************************************************************************)
(* The daemon puts its parts together: the watchdogs (module Watchdog) and *)
(* the output lines (module GpioOutput) run on the timers of one event     *)
(* loop, one handler changes both, and one SIGHUP reloads both.  Unmarked  *)
(* names are those of the output lines, W! marks those of the watchdogs    *)
(* and Log those of the whole.                                             *)
(***************************************************************************)
EXTENDS GpioOutput, GpiWatchdog, FiniteSets

CONSTANTS
  Dogs, Pins, NoDog, PinDog, Inverted, NormalState, Timeout, Slots,
  PollPeriod, ScanPeriod, StartupDelay,  \* as in Watchdog
  TimeoutLine,  \* [Dogs -> Lines \cup {NoLine}], TimeoutDevice= and TimeoutPin=
  ResetLine,    \* [Dogs -> Lines \cup {NoLine}], ResetDevice= and ResetPin=
  NoLine        \* the device is not configured, or has no such line

ASSUME GpiLogAssumption ==
  /\ NoLine \notin Lines
  /\ {TimeoutLine, ResetLine} \subseteq [Dogs -> Lines \cup {NoLine}]
  /\ AlarmLines = ({TimeoutLine[w] : w \in Dogs}
                     \cup {ResetLine[w] : w \in Dogs}) \ {NoLine}

VARIABLES
  now, line, seen, dogTimers, active, told, unfed, normal, midnight

W == INSTANCE Watchdog WITH timers <- dogTimers

(* What Watchdog assumes of its constants is assumed here too. *)
ASSUME WatchdogsAssumption == W!WatchdogAssumption

dogVars == <<now, line, seen, dogTimers, active, told, unfed, normal, midnight>>
logVars == <<dogVars, vars>>

-----------------------------------------------------------------------------
LogInit == W!Init /\ Init

(* The loop takes the timer that has been due longest, whoever owns it;    *)
(* within ts a handler sees to that itself.                                *)
BeforeAll(ts, others) ==
  \A u \in DOMAIN others : \E t \in DOMAIN ts : ts[t] <= others[u]

Pulse(L) == IF L = {} THEN UNCHANGED vars ELSE WatchdogPulse(L)

(* Faulty variants: the alarm goes to the line meant for the reset; only   *)
(* the first alarm is heard of until a reset has been announced.           *)
AlarmPulseSwapped(w) ==
  IF SlotActive(Slots[w], now) THEN {ResetLine[w]} \ {NoLine} ELSE {}

AlarmPulseOnce(w) ==
  IF SlotActive(Slots[w], now) /\ told[w] = "ok"
  THEN {TimeoutLine[w]} \ {NoLine} ELSE {}

(* The line watchdogTimeoutData(w) pulses: the alarm is heard even when    *)
(* the one before was never reset.                                         *)
AlarmPulse(w) ==
  IF SlotActive(Slots[w], now) THEN {TimeoutLine[w]} \ {NoLine} ELSE {}

(* The lines UpdateWatchdog() pulses, called for the watchdogs D. *)
ResetPulses(D) == {ResetLine[w] : w \in {v \in D : active[v]}} \ {NoLine}

InputTimerData ==
  /\ W!InputTimerData
  /\ Pulse(ResetPulses(IF W!Connected THEN W!TransitionDogs ELSE {}))

WatchdogScanData ==
  /\ W!WatchdogScanData
  /\ Pulse(ResetPulses({w \in Dogs : W!NormalNow(w)}))

WatchdogTimeoutData(w) == W!WatchdogTimeoutData(w) /\ Pulse(AlarmPulse(w))

SilentData ==
  /\ W!StartupTimeoutData \/ \E w \in Dogs : W!WatchdogRestartData(w)
  /\ UNCHANGED vars

LogHandler ==
  \/ /\ BeforeAll(dogTimers, timers)
     /\ \/ InputTimerData
        \/ WatchdogScanData
        \/ \E w \in Dogs : WatchdogTimeoutData(w)
        \/ SilentData
  \/ /\ BeforeAll(timers, dogTimers)
     /\ Handler
     /\ UNCHANGED dogVars

(* restartData() on a SIGHUP: Restart() and Init(). *)
LogReload == W!Reload /\ Reload

LogTick == W!Tick /\ Tick

LogNext ==
  \/ LogTick
  \/ LogHandler
  \/ LogReload
  \/ \E p \in Pins : W!LineChange(p) /\ UNCHANGED vars

LogSpec == LogInit /\ [][LogNext]_logVars

(* Time goes on and the event loop keeps running the handlers that are     *)
(* due; nothing is assumed of the inputs or of SIGHUP.                     *)
LogFairSpec == LogSpec /\ WF_logVars(LogTick \/ LogHandler)

-----------------------------------------------------------------------------
(* A line without a pulser goes on only to announce an alarm or the reset  *)
(* of one, and each of them is announced on the line its own pin names.    *)
PulsesAnnounce ==
  [][LET alarmed == {w \in Dogs : ~active[w] /\ active'[w]}
         reset   == {w \in Dogs : told[w] = "alarm" /\ told'[w] = "ok"}
         named   == ({TimeoutLine[w] : w \in alarmed}
                       \cup {ResetLine[w] : w \in reset}) \ {NoLine}
     IN  /\ \A l \in named : output'[l]
         /\ \A l \in Lines : ~output[l] /\ output'[l] /\ PulsePeriod[l] = 0
                              => l \in named]_logVars

(* Nothing an input does now feeds the watchdog. *)
Quiet(w) ==
  IF NormalState[w] = "Transition"
  THEN \A p \in W!Monitored(w) : line[p] = seen[p]
  ELSE ~W!NormalNow(w)

(* A slot like those of gpilog.conf-sample, from midnight for long enough. *)
FromMidnight(w) ==
  \E i \in DOMAIN Slots[w] :
    /\ Slots[w][i].start = 0
    /\ Slots[w][i].end > Timeout[w] + 2 * MaxLate

(* While its inputs stay silent a watchdog whose slot begins the day       *)
(* sounds its alarm again and again, on and off, although its own restart  *)
(* timer clears the alarm every midnight and no reset is ever announced,   *)
(* as long as the daemon is not reloaded forever.                          *)
AlarmSounds ==
  \A w \in Dogs :
    FromMidnight(w) /\ TimeoutLine[w] # NoLine =>
      (<>[]Quiet(w) /\ <>[][~LogReload]_logVars =>
         /\ []<>active[w]
         /\ []<>output[TimeoutLine[w]]
         /\ []<>~output[TimeoutLine[w]])
=============================================================================

------------------------------ MODULE Watchdog ------------------------------
(***************************************************************************)
(* The input watchdogs of gpilogd: GpiLog's watchdog slots (gpilog.cpp),   *)
(* the timers they share and the input poll of LocalGpio that feeds them.  *)
(*                                                                         *)
(* Every handler below runs to completion in the one thread of the         *)
(* process, so it is one action; what interleaves is the order in which    *)
(* the event loop takes the due timers, the changes of the input lines and *)
(* the reload a SIGHUP asks for.                                           *)
(***************************************************************************)
EXTENDS QtTimers, GpiWatchdog, FiniteSets

CONSTANTS
  Dogs,          \* watchdogs, the indexes of gpio_watchdogs
  Pins,          \* input lines of the device
  NoDog,         \* what Pin<n>Watchdog= says when the line feeds no watchdog
  PinDog,        \* [Pins -> Dogs \cup {NoDog}], Pin<n>Watchdog=
  Inverted,      \* the lines with Pin<n>Inverted=Yes
  NormalState,   \* [Dogs -> {"Transition", "High", "Low"}]
  Timeout,       \* [Dogs -> ticks], Timeout= of [Watchdog<n>]
  Slots,         \* [Dogs -> Seq(Slot)], StartTime<n>= and EndTime<n>=
  PollPeriod,    \* GPIO_CLOCK_INTERVAL
  ScanPeriod,    \* GPILOG_WATCHDOG_SCAN_INTERVAL
  StartupDelay,  \* gpi_startup_timer's single shot
  MaxLate        \* most ticks the event loop may be late for a due timer

ASSUME WatchdogAssumption ==
  /\ IsFiniteSet(Dogs) /\ IsFiniteSet(Pins)
  /\ NoDog \notin Dogs
  /\ PinDog \in [Pins -> Dogs \cup {NoDog}]
  /\ Inverted \subseteq Pins
  /\ NormalState \in [Dogs -> {"Transition", "High", "Low"}]
  /\ Timeout \in [Dogs -> Nat \ {0}]
  /\ Slots \in [Dogs -> Seq(Slot)]
  /\ {PollPeriod, ScanPeriod, StartupDelay} \subseteq Nat \ {0}
  /\ MaxLate \in Nat

VARIABLES
  now,      \* QTime::currentTime()
  line,     \* level of every input line, as the hardware has it
  seen,     \* gpio_input_mask: the levels at the last poll
  timers,   \* the running QTimers (see QtTimers)
  active,   \* dog_active of every watchdog
  told,     \* what the last pin pulse or command of the watchdog announced
  \* history, read by no handler:
  unfed,    \* ticks since the timeout timer was last started, capped
  normal,   \* ticks a level watchdog's inputs have been normal, capped
  midnight  \* the restart timer was last started at 00:00:00 exactly

vars == <<now, line, seen, timers, active, told, unfed, normal, midnight>>

-----------------------------------------------------------------------------
(* The timers of the process. *)
InputTimer   == <<"input_timer">>
ScanTimer    == <<"gpi_watchdog_scan_timer">>
StartupTimer == <<"gpi_startup_timer">>
TimeoutTimer(w) == <<"timeoutTimer", w>>
RestartTimer(w) == <<"restartTimer", w>>

TimeoutTimers == {TimeoutTimer(w) : w \in Dogs}
RestartTimers == {RestartTimer(w) : w \in Dogs}
AllTimers == {InputTimer, ScanTimer, StartupTimer}
               \cup TimeoutTimers \cup RestartTimers

(* inputChanged() reaches inputChangedData() once startupTimeoutData() has *)
(* connected it, which is when the startup timer has run.                  *)
Connected == StartupTimer \notin DOMAIN timers

Monitored(w) == {p \in Pins : PinDog[p] = w}

(* A level after Pin<n>Inverted= has been applied. *)
State(p) == line[p] # (p \in Inverted)

(* What watchdogScanData() looks for. *)
NormalNow(w) ==
  \/ NormalState[w] = "High" /\ \E p \in Monitored(w) : State(p)
  \/ NormalState[w] = "Low"  /\ \E p \in Monitored(w) : ~State(p)

UnfedCap(w) == Timeout[w] + MaxLate + 1
NormalCap == ScanPeriod + MaxLate + 1

-----------------------------------------------------------------------------
(* The timers Init() starts at time of day t, and for how long. *)
StartDelay(u, t) ==
  CASE u = InputTimer   -> PollPeriod
    [] u = ScanTimer    -> ScanPeriod
    [] u = StartupTimer -> StartupDelay
    [] u \in TimeoutTimers -> Timeout[u[2]]
    [] u \in RestartTimers -> NextRestart(Slots[u[2]], t)

StartTimers(t) == [u \in AllTimers |-> StartDelay(u, t)]

(* LocalGpio's constructor leaves gpio_input_mask at zero. *)
Init ==
  /\ now \in TimeOfDay
  /\ line \in [Pins -> BOOLEAN]
  /\ seen = [p \in Pins |-> FALSE]
  /\ timers = StartTimers(now)
  /\ active = [w \in Dogs |-> FALSE]
  /\ told = [w \in Dogs |-> "ok"]
  /\ unfed = [w \in Dogs |-> 0]
  /\ normal = [w \in Dogs |-> 0]
  /\ midnight = [w \in Dogs |-> now = 0]

(* restartData() on a SIGHUP, after any handler: Restart() deletes every   *)
(* watchdog and device, Init() builds new ones.  An alarm that was active  *)
(* is forgotten without its reset being announced.                         *)
Reload ==
  /\ seen' = [p \in Pins |-> FALSE]
  /\ timers' = StartTimers(now)
  /\ active' = [w \in Dogs |-> FALSE]
  /\ unfed' = [w \in Dogs |-> 0]
  /\ midnight' = [w \in Dogs |-> now = 0]
  /\ UNCHANGED <<now, line, told, normal>>

(* An input line changes level. *)
LineChange(p) ==
  /\ line' = [line EXCEPT ![p] = ~@]
  /\ normal' = [w \in Dogs |-> IF NormalNow(w)' THEN normal[w] ELSE 0]
  /\ UNCHANGED <<now, seen, timers, active, told, unfed, midnight>>

Tick ==
  /\ MayElapse(timers, MaxLate)
  /\ now' = IF now = DayLen - 1 THEN 0 ELSE now + 1
  /\ timers' = Elapsed(timers)
  /\ unfed' = [w \in Dogs |-> IF unfed[w] < UnfedCap(w) THEN unfed[w] + 1
                                                        ELSE unfed[w]]
  /\ normal' = [w \in Dogs |-> IF NormalNow(w) /\ normal[w] < NormalCap
                               THEN normal[w] + 1 ELSE normal[w]]
  /\ UNCHANGED <<line, seen, active, told, midnight>>

(* UpdateWatchdog(w) for every w of D, `ts' being the timers once the      *)
(* handler that calls it has done with its own.  Calling it twice for one  *)
(* watchdog is calling it once.                                            *)
UpdateWatchdog(D, ts) ==
  /\ timers' = [u \in DOMAIN ts \cup {TimeoutTimer(w) : w \in D} |->
                  IF \E w \in D : u = TimeoutTimer(w)
                  THEN Timeout[u[2]] ELSE ts[u]]
  /\ active' = [w \in Dogs |-> active[w] /\ w \notin D]
  /\ told' = [w \in Dogs |-> IF w \in D /\ active[w] THEN "ok" ELSE told[w]]
  /\ unfed' = [w \in Dogs |-> IF w \in D THEN 0 ELSE unfed[w]]

(* A faulty variant: a change of any line feeds the watchdog. *)
TransitionDogsAnyLine ==
  {w \in Dogs : /\ NormalState[w] = "Transition"
                /\ \E p \in Pins : line[p] # seen[p]}

(* The watchdogs inputChangedData() updates for the lines whose level      *)
(* differs from the last poll.  Inversion does not matter to them.         *)
TransitionDogs ==
  {w \in Dogs : /\ NormalState[w] = "Transition"
                /\ \E p \in Monitored(w) : line[p] # seen[p]}

InputTimerData ==
  /\ DueFirst(timers, InputTimer)
  /\ seen' = line
  /\ UpdateWatchdog(IF Connected THEN TransitionDogs ELSE {},
                    Rearmed(timers, InputTimer, PollPeriod))
  /\ UNCHANGED <<now, line, normal, midnight>>

StartupTimeoutData ==
  /\ DueFirst(timers, StartupTimer)
  /\ timers' = Stopped(timers, {StartupTimer})
  /\ UNCHANGED <<now, line, seen, active, told, unfed, normal, midnight>>

(* A faulty variant: only a watchdog that is not in alarm is fed. *)
WatchdogScanDataHealthy ==
  /\ DueFirst(timers, ScanTimer)
  /\ UpdateWatchdog({w \in Dogs : NormalNow(w) /\ ~active[w]},
                    Rearmed(timers, ScanTimer, ScanPeriod))
  /\ UNCHANGED <<now, line, seen, normal, midnight>>

WatchdogScanData ==
  /\ DueFirst(timers, ScanTimer)
  /\ UpdateWatchdog({w \in Dogs : NormalNow(w)},
                    Rearmed(timers, ScanTimer, ScanPeriod))
  /\ UNCHANGED <<now, line, seen, normal, midnight>>

(* A faulty variant: the timeslots are not looked at. *)
WatchdogTimeoutDataAnyTime(w) ==
  /\ DueFirst(timers, TimeoutTimer(w))
  /\ timers' = Stopped(timers, {TimeoutTimer(w)})
  /\ active' = [active EXCEPT ![w] = TRUE]
  /\ told' = [told EXCEPT ![w] = "alarm"]
  /\ UNCHANGED <<now, line, seen, unfed, normal, midnight>>

(* Outside every timeslot the expiry is dropped, and the timer stays       *)
(* stopped until the watchdog is fed or restarted.                         *)
WatchdogTimeoutData(w) ==
  /\ DueFirst(timers, TimeoutTimer(w))
  /\ timers' = Stopped(timers, {TimeoutTimer(w)})
  /\ IF SlotActive(Slots[w], now)
     THEN /\ active' = [active EXCEPT ![w] = TRUE]
          /\ told' = [told EXCEPT ![w] = "alarm"]
     ELSE UNCHANGED <<active, told>>
  /\ UNCHANGED <<now, line, seen, unfed, normal, midnight>>

(* A faulty variant: the timeout timer is not started again. *)
WatchdogRestartDataUnarmed(w) ==
  /\ DueFirst(timers, RestartTimer(w))
  /\ timers' = Started(timers, RestartTimer(w), NextRestart(Slots[w], now))
  /\ active' = [active EXCEPT ![w] = FALSE]
  /\ midnight' = [midnight EXCEPT ![w] = (now = 0)]
  /\ UNCHANGED <<now, line, seen, told, unfed, normal>>

(* An alarm is dropped, and nobody is told. *)
WatchdogRestartData(w) ==
  /\ DueFirst(timers, RestartTimer(w))
  /\ timers' = Started(Started(timers, TimeoutTimer(w), Timeout[w]),
                       RestartTimer(w), NextRestart(Slots[w], now))
  /\ active' = [active EXCEPT ![w] = FALSE]
  /\ unfed' = [unfed EXCEPT ![w] = 0]
  /\ midnight' = [midnight EXCEPT ![w] = (now = 0)]
  /\ UNCHANGED <<now, line, seen, told, normal>>

Handler ==
  \/ InputTimerData
  \/ StartupTimeoutData
  \/ WatchdogScanData
  \/ \E w \in Dogs : WatchdogTimeoutData(w) \/ WatchdogRestartData(w)

Next ==
  \/ Tick
  \/ Handler
  \/ Reload
  \/ \E p \in Pins : LineChange(p)

Spec == Init /\ [][Next]_vars

(* Time goes on and the event loop keeps running the handlers that are     *)
(* due; nothing is assumed of the lines or of SIGHUP.                      *)
FairSpec == Spec /\ WF_vars(Tick \/ Handler)

-----------------------------------------------------------------------------
(* Types; no running timer is more than MaxLate late, so that every delay  *)
(* nextRestart() computes lies in the future.                              *)
TypeOK ==
  /\ now \in TimeOfDay
  /\ line \in [Pins -> BOOLEAN]
  /\ seen \in [Pins -> BOOLEAN]
  /\ DOMAIN timers \subseteq AllTimers
  /\ timers \in [DOMAIN timers -> Int]
  /\ \A t \in DOMAIN timers : timers[t] >= -MaxLate
  /\ active \in [Dogs -> BOOLEAN]
  /\ told \in [Dogs -> {"ok", "alarm"}]
  /\ unfed \in [Dogs -> Nat]
  /\ normal \in [Dogs -> Nat]
  /\ midnight \in [Dogs -> BOOLEAN]

(* StartTime0, StartTime1, ... are listed in the order of the day. *)
InOrder(w) ==
  \A i, j \in DOMAIN Slots[w] :
    i < j => Slots[w][i].start <= Slots[w][j].start

(* A slot of w has been open for longer than the event loop may be late. *)
Settled(w) ==
  \E i \in DOMAIN Slots[w] :
    /\ Slots[w][i].start + MaxLate < now
    /\ now < Slots[w][i].end

Overdue(w) == unfed[w] > Timeout[w] + MaxLate

(* A watchdog that has gone unfed for its timeout is in alarm whenever one *)
(* of its slots is open, provided the slots are listed in order and the    *)
(* restart timer was not armed at midnight exactly.  An expiry outside the *)
(* slots is dropped (watchdogTimeoutData), so this rests on nextRestart()  *)
(* starting the timer again at the start of every slot.                    *)
PromptAlarm ==
  \A w \in Dogs :
    InOrder(w) /\ ~midnight[w] /\ Settled(w) /\ Overdue(w) => active[w]

(* The same with no exception for a restart timer armed at 00:00:00: what  *)
(* gpilog.conf-sample promises of a watchdog inside its timeslots.         *)
AlarmInEverySlot ==
  \A w \in Dogs : InOrder(w) /\ Settled(w) /\ Overdue(w) => active[w]

(* A watchdog on a High or Low normal state is not in alarm while an input *)
(* has been in that state for longer than a scan takes, provided Timeout=  *)
(* is longer than the scan interval: the scan of watchdogScanData() comes  *)
(* before every expiry of the timeout timer.                               *)
NormalQuiet ==
  \A w \in Dogs :
    Timeout[w] > ScanPeriod /\ normal[w] > ScanPeriod + MaxLate => ~active[w]

(* A reset is announced only because of what an input of that watchdog     *)
(* did: a level in the normal state, or a change since the last poll.      *)
ResetHasCause ==
  [][\A w \in Dogs :
       told[w] = "alarm" /\ told'[w] = "ok" =>
         IF NormalState[w] = "Transition"
         THEN \E p \in Monitored(w) : line[p] # seen[p]
         ELSE NormalNow(w)]_vars

(* The watchdogs implement the contract of AlarmContract. *)
Contract == INSTANCE AlarmContract WITH alarm <- active

ImplementsContract == Contract!Spec
=============================================================================

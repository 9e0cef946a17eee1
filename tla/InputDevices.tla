---------------------------- MODULE InputDevices ----------------------------
(***************************************************************************)
(* The inputs of gpilogd: LocalGpio's poll of GPIO cards and of Linux      *)
(* input-event devices (local_gpio.cpp), and what inputChangedData() of    *)
(* gpilog.cpp makes of a change: a log line, a command, a watchdog fed.    *)
(*                                                                         *)
(* A card tells its levels; an input-event device queues an event for each *)
(* key that moves, and inputMask() folds the events into one static mask   *)
(* that all input-event devices share and that outlives them.              *)
(***************************************************************************)
EXTENDS QtTimers, FiniteSets

CONSTANTS
  Devices,      \* gpio_devices, configured without a gap
  Api,          \* [Devices -> {"ApiGpio", "ApiInput"}]
  Keys,         \* [Devices -> the codes of its keys, or its input lines]
  MaxLines,     \* GPIO_MAX_LINES
  MayFail,      \* devices that may not open again at a reload
  Inverted,     \* <<device, line>> pairs with Pin<n>Inverted=Yes
  Events,       \* Pin<n>Events= of every pair
  Commanded,    \* pairs with a Pin<n>OnCommand= and a Pin<n>OffCommand=
  PinDog,       \* Pin<n>Watchdog= of every pair, -1 for none
  NormalState,  \* [numbers of the watchdogs -> "Transition", "High" or "Low"]
  PollPeriod,   \* GPIO_CLOCK_INTERVAL
  StartupDelay, \* gpi_startup_timer's single shot
  MaxLate       \* most ticks the event loop may be late for a due timer

(* InitInput() numbers the keys of a device in the order of their codes,   *)
(* as lines 0, 1, ..., and leaves out those beyond GPIO_MAX_LINES.         *)
LineOf(d, k) == Cardinality({j \in Keys[d] : j < k})
Mapped(d) == {k \in Keys[d] : LineOf(d, k) < MaxLines}
Lines(d) == {LineOf(d, k) : k \in Mapped(d)}
Pairs == UNION {{d} \X Lines(d) : d \in Devices}

ASSUME InputDevicesAssumption ==
  /\ IsFiniteSet(Devices) /\ MayFail \subseteq Devices
  /\ Api \in [Devices -> {"ApiGpio", "ApiInput"}]
  /\ \A d \in Devices : Keys[d] \subseteq Nat /\ IsFiniteSet(Keys[d])
  /\ Inverted \cup Commanded \subseteq Pairs
  /\ Events \in [Pairs -> {"both", "rising", "falling"}]
  /\ PinDog \in [Pairs -> Int]
  /\ NormalState \in [DOMAIN NormalState -> {"Transition", "High", "Low"}]
  /\ {MaxLines, MaxLate, PollPeriod, StartupDelay} \subseteq Nat
  /\ 0 < PollPeriod /\ PollPeriod < StartupDelay

VARIABLES
  closed,      \* the keys and lines of each device that are on; a key that
               \* has no line is left out, its events are read and ignored
  unread,      \* keys whose events wait to be read
  open,        \* gpio_open of every device
  input_mask,  \* the static variable of inputMask(), as a set of lines
  seen,        \* gpio_input_mask of every device, as a set of lines
  timers,      \* the running QTimers (see QtTimers)
  running,     \* the process lives
  emitted,     \* what the handler that ran last has done about changes
  \* history, read by no handler:
  moved,       \* the lines that have moved since the device's last poll
  last         \* the last command that was run for a pair, "missed" once a
               \* change may have been kept from it since then

vars == <<closed, unread, open, input_mask, seen, timers, running, emitted,
          moved, last>>

InputTimer(d) == <<"input_timer", d>>
StartupTimer == <<"gpi_startup_timer">>

(* A faulty variant: inputChanged() is connected from the start. *)
ConnectedAtOnce == TRUE

(* inputChanged() reaches inputChangedData() once startupTimeoutData() has *)
(* connected it: changes before that are polled and forgotten.             *)
Connected == StartupTimer \notin DOMAIN timers

-----------------------------------------------------------------------------
StartTimers(D) ==
  [t \in {InputTimer(d) : d \in D} \cup {StartupTimer} |->
     IF t = StartupTimer THEN StartupDelay ELSE PollPeriod]

(* A first start exits unless every device opens. *)
Init ==
  /\ closed \in [Devices -> SUBSET UNION {Mapped(d) : d \in Devices}]
  /\ \A d \in Devices : closed[d] \subseteq Mapped(d)
  /\ unread = [d \in Devices |-> {}]
  /\ open = Devices
  /\ input_mask = {}
  /\ seen = [d \in Devices |-> {}]
  /\ timers = StartTimers(Devices)
  /\ running = TRUE
  /\ emitted = {}
  /\ moved = [d \in Devices |-> {}]
  /\ last = [c \in Commanded |-> "none"]

(* d need not share the static mask: it is a card, or the only input-event *)
(* device that is open.                                                    *)
OnItsOwn(d) ==
  Api[d] = "ApiGpio" \/ \A e \in open \ {d} : Api[e] = "ApiGpio"

(* restartData() on a SIGHUP: close() throws away the events that wait,    *)
(* open() begins with an empty gpio_input_mask, and the static mask stays  *)
(* as it is.  A device that does not open has no input and no timer.       *)
Reload ==
  /\ running
  /\ \E failed \in SUBSET MayFail : open' = Devices \ failed
  /\ unread' = [d \in Devices |-> {}]
  /\ seen' = [d \in Devices |-> {}]
  /\ timers' = StartTimers(open')
  /\ emitted' = {}
  /\ moved' = [d \in Devices |-> {}]
  /\ last' = [c \in Commanded |->
                IF c[2] \in moved[c[1]] \/ ~OnItsOwn(c[1])
                THEN "missed" ELSE last[c]]
  /\ UNCHANGED <<closed, input_mask, running>>

(* A line of a card or a key changes.  The last event of a key tells its   *)
(* present level, and only the last one matters to inputMask().  The queue *)
(* of the kernel is taken to hold what moves between two polls: a          *)
(* SYN_DROPPED, which the code does not look for, is not modelled.         *)
LineChange(d, k) ==
  /\ closed' = [closed EXCEPT ![d] = IF k \in @ THEN @ \ {k} ELSE @ \cup {k}]
  /\ unread' = [unread EXCEPT ![d] =
                  IF Api[d] = "ApiInput" /\ d \in open THEN @ \cup {k} ELSE @]
  /\ moved' = [moved EXCEPT ![d] = @ \cup {LineOf(d, k)}]
  /\ emitted' = {}
  /\ UNCHANGED <<open, input_mask, seen, timers, running, last>>

Tick ==
  /\ running
  /\ MayElapse(timers, MaxLate)
  /\ timers' = Elapsed(timers)
  /\ emitted' = {}
  /\ UNCHANGED <<closed, unread, open, input_mask, seen, running, moved, last>>

-----------------------------------------------------------------------------
(* A faulty variant: a key that is released leaves its bit alone. *)
DrainedSticky(d) ==
  input_mask \cup {LineOf(d, k) : k \in unread[d] \cap closed[d]}

(* The static mask after the events of d have been read. *)
Drained(d) ==
  (input_mask \ {LineOf(d, k) : k \in unread[d] \ closed[d]})
    \cup {LineOf(d, k) : k \in unread[d] \cap closed[d]}

(* inputMask().  (The case for these devices is labelled with the Mode     *)
(* `Input', which has the value of ApiInput.)                              *)
InputMask(d) ==
  IF Api[d] = "ApiGpio" THEN {LineOf(d, k) : k \in closed[d]} ELSE Drained(d)

ReadEvents(d) ==
  /\ input_mask' = IF Api[d] = "ApiGpio" THEN input_mask ELSE Drained(d)
  /\ unread' = [unread EXCEPT ![d] = {}]

(* inputState() of an input that a level watchdog monitors: watchdogScan-  *)
(* Data() may call it between any two other handlers, and it too reads     *)
(* the events away.                                                        *)
InputState(d) ==
  /\ running /\ d \in open /\ Api[d] = "ApiInput"
  /\ ReadEvents(d)
  /\ emitted' = {}
  /\ UNCHANGED <<closed, open, seen, timers, running, moved, last>>

StartupTimeoutData ==
  /\ running
  /\ DueFirst(timers, StartupTimer)
  /\ timers' = Stopped(timers, {StartupTimer})
  /\ emitted' = {}
  /\ UNCHANGED <<closed, unread, open, input_mask, seen, running, moved, last>>

-----------------------------------------------------------------------------
(* A faulty variant: the level is used as it is. *)
InvertUnless(c, level) == level

Invert(c, level) == level # (c \in Inverted)

(* The log entry: Pin<n>Events= chooses the change and the word.           *)
LogEntry(events, state) ==
  CASE events = "both" -> IF state THEN "ON" ELSE "OFF"
    [] events = (IF state THEN "rising" ELSE "falling") -> "ACTIVATED"
    [] OTHER -> "none"

(* A Pin<n>Watchdog= that names no watchdog: watchdogNormalState() reads   *)
(* past the end of its vector, and what it finds is any state or a fault.  *)
Stray(c) == PinDog[c] >= 0 /\ PinDog[c] \notin DOMAIN NormalState

NormalStateOf(c, found) == IF Stray(c) THEN found ELSE NormalState[PinDog[c]]

(* A faulty variant: the number is not compared with gpio_watchdogs.size().*)
FedUnchecked(c, found) ==
  {w \in {PinDog[c]} : w >= 0 /\ NormalStateOf(c, found) = "Transition"}

(* The watchdogs, none or one, that UpdateWatchdog() is called for. *)
Fed(c, found) ==
  {w \in {PinDog[c]} : /\ w >= 0
                       /\ NormalStateOf(c, found) = "Transition"
                       /\ w \in DOMAIN NormalState}

(* inputChangedData() *)
InputChangedData(c, level, found) ==
  LET state == Invert(c, level) IN
  [pair |-> c, state |-> state, fed |-> Fed(c, found),
   log |-> LogEntry(Events[c], state),
   command |-> IF c \notin Commanded THEN "none"
               ELSE IF state THEN "on" ELSE "off"]

(* inputTimerData(): a report for each line that differs from the last     *)
(* poll, in the order of the lines, up to one whose stray read faults.     *)
InputTimerData(d) ==
  /\ running
  /\ DueFirst(timers, InputTimer(d))
  /\ \E found \in {"Transition", "High", "fault"} :
       LET mask == InputMask(d)
           changed == {l \in Lines(d) :
                         Connected /\ (l \in mask) # (l \in seen[d])}
           faults == {l \in changed : found = "fault" /\ Stray(<<d, l>>)}
           done == {l \in changed : \A f \in faults : l < f}
       IN /\ emitted' = {InputChangedData(<<d, l>>, l \in mask, found) :
                           l \in done}
          /\ running' = (faults = {})
          /\ seen' = [seen EXCEPT ![d] = mask]
          /\ last' = [c \in Commanded |->
                        IF c[1] = d /\ c[2] \in done
                        THEN IF Invert(c, c[2] \in mask) THEN "on" ELSE "off"
                        ELSE IF c[1] = d /\ c[2] \in moved[d] /\ ~Connected
                             THEN "missed" ELSE last[c]]
  /\ ReadEvents(d)
  /\ timers' = Rearmed(timers, InputTimer(d), PollPeriod)
  /\ moved' = [moved EXCEPT ![d] = {}]
  /\ UNCHANGED <<closed, open>>

Handler == StartupTimeoutData \/ \E d \in Devices : InputTimerData(d)

Next ==
  \/ Tick
  \/ Handler
  \/ Reload
  \/ \E d \in Devices : InputState(d)
  \/ \E d \in Devices : \E k \in Mapped(d) : LineChange(d, k)

Spec == Init /\ [][Next]_vars

(* Time goes on and the event loop keeps running the due handlers; nothing *)
(* is assumed of the inputs, of SIGHUP or of the watchdog scan.            *)
FairSpec == Spec /\ WF_vars(Tick \/ Handler)

-----------------------------------------------------------------------------
(* Types; whatever a stray read has found, no watchdog outside the vector  *)
(* is updated, and no line beyond the device's own is reported.            *)
TypeOK ==
  /\ \A d \in Devices : closed[d] \cup unread[d] \subseteq Mapped(d)
  /\ open \subseteq Devices
  /\ input_mask \subseteq 0 .. MaxLines - 1
  /\ DOMAIN timers \subseteq {InputTimer(d) : d \in open} \cup {StartupTimer}
  /\ \A t \in DOMAIN timers : timers[t] \in -MaxLate .. StartupDelay
  /\ running \in BOOLEAN
  /\ \A r \in emitted : r.pair \in Pairs /\ r.fed \subseteq DOMAIN NormalState
  /\ \A d \in Devices : /\ moved[d] \subseteq Lines(d)
                        /\ seen[d] \subseteq 0 .. MaxLines - 1
  /\ last \in [Commanded -> {"none", "on", "off", "missed"}]

(* The level of a pair as the configuration wants it read. *)
Active(c) ==
  (\E k \in closed[c[1]] : LineOf(c[1], k) = c[2]) # (c \in Inverted)

(* A change is reported only if that very line has moved since the poll    *)
(* before, on a device that does not share the static mask: a start or a   *)
(* reload brings no news of its own (ChangeLog, 2007-11-14: "spurious ON   *)
(* state messages at startup"), whatever the static mask still holds.      *)
ReportHasCause ==
  [][\A r \in emitted' :
       OnItsOwn(r.pair[1]) => r.pair[2] \in moved[r.pair[1]]]_vars

(* What is logged and commanded is how the line stands at that moment, on  *)
(* a device that does not share the static mask.                           *)
ReportsAreTrue ==
  \A r \in emitted :
    OnItsOwn(r.pair[1]) =>
      /\ r.state = Active(r.pair)
      /\ r.log = "ON" => Active(r.pair)
      /\ r.log = "OFF" => ~Active(r.pair)
      /\ r.log = "ACTIVATED" => Active(r.pair) = (Events[r.pair] = "rising")

(* Once the inputs stand still and no reload comes, the last command that  *)
(* was run for a line, by this configuration or one before it, is the one  *)
(* for its level, however the keys moved between two polls and whatever    *)
(* reloads came in between.  This is claimed of a line on a device that    *)
(* need not share the static mask, with no change since that command that  *)
(* was polled before inputChanged() was connected or thrown away by a      *)
(* reload, and no reload since then while the mask was shared.  Such a     *)
(* change is not made good: an on command run before a SIGHUP has no off   *)
(* command if the line drops before startupTimeoutData().                  *)
CommandsSettle ==
  <>[][closed' = closed /\ ~Reload]_vars =>
    <>[](running => \A c \in Commanded :
           c[1] \in open /\ OnItsOwn(c[1]) =>
             last[c] \in {"none", "missed", IF Active(c) THEN "on" ELSE "off"})
=============================================================================

# A TLA+ model of gpilogd

gpilogd watches the inputs of GPIO cards, UDP ports and IPv4 addresses, and
raises an alarm (a log line, a command, a pulse on an output) when one of them
goes quiet or breaks off. Almost all of its behaviour is in time: timers that
start, stop and restart each other, late answers, a clock that passes midnight,
a reload in the middle of everything. That is what these modules model.

The process has one thread. Every handler runs to its end, so a handler is one
action; what interleaves is the order in which the event loop takes the due
timers and readable sockets, what the hardware and the network do in between,
and the reload that `restartData()` runs between two handlers. Several
processes interleave only in `Daemon`, where an init script runs as well.

## 1. The system

| part | state | operations | source |
|---|---|---|---|
| input watchdogs | per watchdog: `dog_active`, its slots, a timeout and a restart timer; one scan timer, one startup timer | `inputChangedData`, `watchdogScanData`, `watchdogTimeoutData`, `watchdogRestartData`, `UpdateWatchdog`, `slotActive`, `nextRestart` | `src/src/gpilog.cpp`, `gpi_watchdog.cpp` |
| input devices | per device: `gpio_open`, `gpio_input_mask`, a poll timer; one static mask in `inputMask()` that all input-event devices share | `inputTimerData`, `inputMask`, `inputState`, `InitInput`, `open`, `close` | `local_gpio.cpp` |
| input logging, commands | none of its own | `inputChangedData` | `gpilog.cpp` |
| output lines | level per line, a reversion timer per line, `pulse_state` per pulser | `gpoSet`, `gpoReset`, `revertData`, `SetReversion`, `GPIPulser::timeoutData` | `local_gpio.cpp`, `gpi_pulser.cpp` |
| UDP monitors | `mon_state`, a timeout timer, a socket | `monitorPacketData`, `monitorTimeoutData` | `gpilog.cpp`, `gpi_monitor.cpp` |
| IPv4 address monitors | per tester: `ping_istate`, `ping_id`, `ping_replies`, `ping_state`, a timer; one raw socket | `timeoutData`, `echoReceivedData`, `sendPing`, `readyReadData`, `GeneratePacket`, `CheckPacket` | `ping_tester.cpp`, `ipv4_pinger.cpp` |
| process life | flags `restart` and `shutdown`, the PID file, the loaded configuration | `SigHandler`, `restartData`, the constructor, `start/stop/restart/reload` | `gpilog.cpp`, `rc.gpilog.in` |
| configuration | the sections and tags of the text; the vectors made of them, read once per load | `Profile::setSource`, `stringValue` and its conversions, `GPIConfig::load`, the loops of `Init` | `gpi_config.cpp`, `profile*.cpp` |

How they interact:

* the poll of the inputs emits `inputChanged()`, which feeds watchdogs whose
  normal state is a transition; the scan reads the levels and feeds the others;
* both the poll and the scan read the events of an input-event device away, into
  the one static mask;
* a watchdog's alarm and its reset each pulse an output line for one second;
  a pulser may drive the same line (the sample configuration does that);
* all `PingTester`s hear every answer on the one raw socket;
* `restartData()` deletes and rebuilds every part on a SIGHUP, and ends the
  process on a SIGTERM; the init script sends both, finding the process by its
  PID file.

What is hard: an expiry outside every timeslot is dropped and its timer stays
stopped, so an alarm in the next slot depends on a second timer aimed at the
start of that slot or at midnight; packets race timeouts; answers outlive the
run that asked; pulses, pulsers and reloads meet on one line; signals and
configuration edits fall between any two steps. `PROJECT.json` lists these
hazards at their lines.

What would make each part correct:

* watchdogs: silence is announced in every open slot, and promptly; normal
  inputs never alarm; a reset is announced only for a cause; alarms recur, and
  are heard on the line their own pin names;
* inputs: what is logged and commanded is true at that moment and has a cause;
  once the inputs stand still, the last command is the one for their level,
  unless a change was lost in the first second or to a reload;
* outputs: a pulse ends, lasts its full second and ends by switching *off*;
  a pulser never stalls;
* UDP: silence is reported, no timeout is false, a monitor that is up can time
  out, traffic restores;
* ping: a verdict counts answers to the requests of its own run; outages and recoveries
  are reported for good; a healthy run is never failed; requests carry a right
  checksum, and no damaged or foreign packet is heard as an answer;
* process: one daemon that serves, findable by its PID file; `stop` tells the truth;
  SIGTERM and SIGHUP are obeyed;
* configuration: what is loaded is what the text says, no section lost,
  invented or left over from before a reload; each pin feeds the watchdog it
  names, and each watchdog pulses the line it names; each logfile gets each
  message of the daemon once.

## 2. The modules

`QtTimers` (external: Qt 3 is not in the repository) is the timer discipline
every other module uses. The running timers are a function from timers to the
ticks left; `DueFirst` takes due timers earliest first, in any order between
equal deadlines, and `MayElapse` lets time pass over a due timer until one is
`MaxLate` ticks late.

`GpiWatchdog` is the time arithmetic of `GPIWatchdog`: `SlotActive`,
`NextRestart`. Times of day are ticks `0 .. DayLen-1`.

`Watchdog` is the watchdogs and the poll. One action per handler, plus `Tick`,
`LineChange` and `Reload`. `UpdateWatchdog(D, ts)` is the code's
`UpdateWatchdog()` for every watchdog of `D`, on the timers `ts` the calling
handler leaves; feeding twice in one handler is feeding once. `told` is the
last announcement (log line, command, pulse). `unfed`, `normal` and `midnight`
are history.

`AlarmContract` is the abstract specification: an alarm is raised inside a
slot after a silence of the timeout, withdrawn by an announced feed or by an
unannounced restart at a slot's start or at midnight. `Watchdog` implements it
with `alarm <- active`.

`InputDevices` is the poll of cards and input-event devices. An event counts
only as the last one of its key, which tells the key's present level; `Drained`
folds the waiting events into the static mask, `InputState` is a read by the
watchdog scan, which may come between any two handlers. A report in `emitted` is
what one `inputChangedData()` did: log word, command, watchdog fed. A
`Pin<n>Watchdog=` that names no watchdog makes `watchdogNormalState()` read past
its vector (`Stray`): what it finds is any state, or a fault that ends the
process. `last` remembers, over reloads too, the last command run for a line,
until a change of the line may have been kept from `inputChangedData()`: by a
poll before the startup delay is over, by a reload, or by a mask that was shared.

`GpioOutput` is the output lines: `GpoDrive` (`gpoSet()` and `gpoReset()`) and
`SetReversion` are operators on sets of lines that the handlers compose, as in
the code.

`UdpMonitor` has the two handlers and the passes of Qt's event loop:
`BeginPass` asks which sockets are readable, those are activated, then the due
timers. A datagram is data, empty or corrupt, since `readBlock()` tells exactly
these apart and the read loop stops at the last two.

`PingTester` is all testers with the network and the hosts. Requests on the
wire age up to `MaxRtt`, may be lost, answered in any order, and answered
again. A request nobody will answer is lost at once. `readyReadData()` reads
all that waits; the model delivers one packet per step, which allows every
interleaving the code allows and more. `ping_id` starts with any value, since
the constructor leaves it uninitialised. The configured `Timeout=` is no
parameter, because no code reads it.

`Reachability` is its abstract specification: ask `Pings` times, judge by the
answers to exactly those questions. A question is the round it was asked in and
its number. In `PingTester` each request on the wire bears, for that comparison
only, the run it was sent in (`run`: its tester, or `Over` once that run is over
or reloaded away), and `counted` remembers whose request each reply slot was
filled by; the code sees neither.

`IPv4Pinger` is the packets `PingTester` abstracts from: the request as it is
put together, `Checksum` with its single carry, the packets taken for an answer.
The width of a byte is a parameter. Hosts and the kernel follow RFC 1071
(`OnesSum`), which is the reference the code is compared with.

`Daemon` is several processes, the PID file, the configuration on disk and the
init script, whose tests and launches are separate steps. `RestartInit` and
`RestartDone` are separate because a signal may come between, `Unlink` and
`Exit` because a command may. A process that has unlinked the PID file lives but
no longer serves (`Serves`). A configuration
in `Broken` stands for everything that makes `Init()` exit (no `Logfile=`).

`Profile` is the INI reader: `AddLine` is one turn of `setSource()`, the lookups
are operators on the sections it leaves. Section names and tags are tuples
(`<<"Watchdog", 0>>`, `<<"StartTime", 1>>`); a value is a text, and constants
give what `toInt()`, `timeValue()` and `boolValue()` make of it, so that one
that does not convert falls back to the default as in the code.

`GpiConfig` is `GPIConfig::load()`, one action per turn of each of its loops
(the loops over a device's lines and a watchdog's slots, `ReadPin` and
`ReadSlot`, run inside those over devices and watchdogs), and what `Init()`
then makes of the result: `gpio_devices`, whose positions differ from the
configured numbers when one is skipped, the inputs each watchdog monitors, the
devices and pins it pulses, and the logfiles that each kind of message goes to
(`LogGpiLine`, `ExitLog`, `IPv4Log`). `Restart` begins again with another text.
Its properties compare the result with `Says`, the reading of the text a person
would give, which knows no parser. Names, addresses, commands and log switches are copied by
the code and left out.

`GpiLog` composes the two: it extends `GpioOutput`, whose names are those of the
output lines, and instantiates `Watchdog` (`W!`). Each keeps its own function of
timers (`timers`, `dogTimers`); `BeforeAll` makes the two one event loop, which
takes the timer that has been due longest, whoever owns it. `LogTick` and
`LogReload` are those of both. The handlers of `Watchdog` that announce an alarm
or a reset pulse the line named for it in the same step. `AlarmLines`, any set of
lines in `GpioOutput`, is here assumed to be the lines some watchdog names.

The `...Proofs` modules hold the theorems about the module they are named after;
`GpiLogProofs` holds those about `GpioOutput` too, which it builds on.
The operators commented "a faulty
variant" are what a plausible slip in the code would turn the next definition
into; no specification uses them. They record, for each property, one mistake
that it catches.

`PROJECT.json` maps every definition to its lines.

## 3. The runs

| run | question | states |
|---|---|---|
| `watchdog` | the safety of two watchdogs over a day | 1.2 M |
| `watchdog_midnight` | is there an alarm in *every* slot: no | |
| `inputs` | are logs and commands true, caused, and settled | 256 k |
| `gpio_output` | pulses, reversions, pulsers | 1.2 k |
| `gpilog` | is the alarm of a silent watchdog heard, again and again | 164 k |
| `udp_monitor` | UDP monitors | 41 k |
| `ping` | clean runs, outages, recoveries | 69 k |
| `ping_late` | refinement of `Reachability` | 587 k |
| `pinger` | which checksums are right, which packets are heard | 100 k |
| `daemon` | processes, signals and the script | 221 k |
| `config` | is the configuration what the text says | 19 k |
| `config_gap` | do pins feed their watchdogs whatever the device numbers: no | |

Bounds, and why they are enough:

* `watchdog`: a day of 9 ticks and timeouts of 2 and 3 leave room in a slot for
  a timeout, in the night for a dropped expiry, and between the slots of `d1`
  for an expiry dropped in the gap. The scan period (2) and the poll period (1)
  divide neither the day nor each other's phase after a reload, so every offset
  between timers occurs. `MaxLate = 1` lets any two timers overtake each other.
  Every time of day is an initial state. One watchdog is fed by transitions,
  the other by a high level of an inverted line; a low level feeds the watchdog of
  `gpilog`.
* `unfed`, `normal`, `quiet` and `since` are capped just above the
  largest value any guard or property compares them with.
* `ping`: two testers of one host with two identifiers, so that they collide;
  one tolerates a loss, the other is too quick for the network. `ping_late`
  uses three identifiers, of which two may be in use, and round trips three
  times the pace, so that answers come one and two runs late.
* `inputs`: a card and two input-event devices, so that the static mask is
  shared and, when one of the two does not open again at a reload, no longer is.
  `MaxLines = 1` suffices for every line the properties relate and leaves one
  key of `kbd1` without a line. The three pairs have the three values of
  `Pin<n>Events=`; one is inverted, one feeds a watchdog, one names a watchdog
  that is not there. Only the first line of `kbd1` has commands: what may be lost
  of a card's changes may be lost of those of a keyboard that is alone.
* `pinger`: bytes of two bits, so words of four, and all 64 payloads of three
  words from {0, 5, 14, 15}: sums with no carry, with one, and with a carry out
  of the carry, and both zeros of one's complement. Any one word of an answer is
  replaced by any word; other packets may have an odd length, and the byte read
  past their end is any byte.
* `gpilog`: one watchdog with a slot from midnight, its alarm on a line of its
  own and its reset on the line of a pulser, a day of 6 ticks, pulses of one
  tick (longer ones are in `gpio_output`), timers up to one tick late. A second
  watchdog adds no interaction with the outputs that is not in `gpio_output`.
* `gpio_output`: one line with a pulser and one without, both pulsed.
* `udp_monitor`: one monitor with a timeout, one without, two datagrams a
  socket; the second datagram is the one a stopped read loop leaves behind.
* `daemon`: three processes, a broken configuration between two good ones, all
  commands. `RelaunchBound` allows one relaunch beside a live daemon: from then
  on `restart` and `reload` are not run again, so three identifiers suffice.
  Identifiers are reused only when the PID file does not name them.
* `config`: 225 texts, each put together from one of five [Global] sections,
  three sets of devices, five of watchdogs and three of monitors. They hold a
  gap in every numbering, a tag before any section, a repeated section, a
  repeated tag, values that do not convert, an empty device name, a card that
  does not open, and more watchdogs named by pins than there are. Two devices
  of two lines suffice for positions to differ from numbers. Any text may
  follow any other at a reload.

Restrictions stated in properties, each for a reason the code gives:
`PromptAlarm` needs slots in the order of the day and a restart timer not armed
at midnight (`nextRestart()` gives up on both; `watchdog_midnight` shows the
second), and waits `MaxLate` after a slot opens. `NormalQuiet` needs `Timeout=`
longer than the scan. `CleanRunPasses` and `RecoveryReported` need a network
that keeps the pace of the run (`Roomy`). `PulseEnds` and `FullPulse` are about
lines without a pulser, since a pulser cuts pulses short, and `PulseEnds` about
pulses since the last reload, since a reload leaves a pulse on. `NoFalseTimeout`
allows unread data that came in after the pass of the event loop had looked at
the sockets; for a timeout no longer than `MaxLate` it says nothing of unread
data, since then a datagram that a stopped read loop left behind may wait for a
whole timeout within one pass. `MonitorsAreAsWritten` takes an IPv4 address
monitor's `Logfile=` with nothing behind it as no logfile of its own, which is
what `ipv4StateChangedData()` makes of it; for a UDP monitor, where
`load()` asks whether the tag is there, it is an empty name. `OneDaemon`,
`PidFileFinds` and `StopIsTrue` hold until `restart` or `reload` has been run
beside a live daemon. `HupObeyed` leaves out a SIGHUP that arrives during a
restart, which `restart=false` forgets. `NumberedDevicesFeed` needs devices
numbered without a gap (`config_gap`). `ReportHasCause`, `ReportsAreTrue` and
`CommandsSettle` are about devices that do not share the static mask
(`OnItsOwn`): of two open input-event devices each reports the other's keys as
its own. `CommandsSettle` also leaves out a line while `last` is `"missed"`: an
on command may have run, then a SIGHUP, and the line drop before
`startupTimeoutData()` connects `inputChanged()`; the poll swallows the change and
the off command never runs. That is what the code does, and the property claims
that nothing else keeps a command from being run. `JudgesItsOwnRun` needs fresh
identifiers. `PingIsRight` says exactly which requests are wrong: those whose carry,
once added, carries again. `HearsTheRight` and `AnswerIsHeard` are about packets
of even length, since `Checksum()` reads past the end of an odd one.
`AlarmSounds` needs a slot from midnight that is longer than the timeout and two
latenesses, so that the restart of midnight itself starts the count.

Fairness: time goes on and due handlers run (`WF(Tick \/ Handler)`), which is
what an event loop with short handlers does; `MayElapse` then forces every due
handler in time. In `PingTester` packets still on the wire arrive in the end.
In `Daemon` every process is scheduled; nothing makes the administrator act.
Nothing is assumed of inputs, hosts, datagrams or signals: where a property
needs them to stop changing, it says so (`<>[]`), and "not reloaded for ever"
is a premise of `AlarmSounds`, `CommandsSettle`, `Heartbeat` and
`OutageReported`, because each reload sets the state these rely on back to its beginning.

Deadlock is checked in every run but `config` and `config_gap`, where a text
without a logfile or a card that does not open ends the daemon.

## 4. Disagreements the runs show

* **Midnight** (`watchdog_midnight`): armed at 00:00:00 exactly,
  `nextRestart()` skips every slot of the day, and a silent watchdog gives no
  alarm in its slot.
* **Device numbers** (`config_gap`): with `GpioDevice1=` and no `GpioDevice0=`
  the map from watchdogs to inputs reads the row of device 0, so the pins of
  device 1 feed nothing (and `inputChangedData()` indexes past the vector).

Three more have no run of their own, since the models take the code as it is:

* `Timeout=` of an address monitor (`gpi_config.cpp`) is read by nothing: a run
  lasts as long as its pings.
* `rc.gpilog reload` signals the daemon and then goes on to start a second one
  (`rc.gpilog.in:131`). The properties of `Daemon` stop there.
* `IPv4Pinger::Checksum()` adds its carry once. A request whose sum carries
  twice goes out with a wrong checksum and is answered by nobody, so that a
  reachable address loses a ping, rarely and at random.

## 5. The proofs

Every theorem holds for all values of the constants that the `ASSUME`s of the
module allow: any set of watchdogs, lines, monitors, testers, processes,
devices or texts, any timeouts and periods, any lateness of the event loop.
The assumptions only type the constants. In every module an inductive invariant
comes first (`... == Spec => []IInv`); TLC has checked it on the instance of the
run before it was proved. There is one lemma per action, and the properties
follow.

| module | property of a run | theorem |
|---|---|---|
| `WatchdogProofs` | `TypeOK`, `PromptAlarm`, `ResetHasCause`, `NormalQuiet` | `TypeCorrect`, `AlarmIsPrompt`, `ResetsAreCaused`, `NormalIsQuiet` |
| | `ImplementsContract` | `WatchdogImplementsContract` |
| `GpiLogProofs`, of the lines alone | `TypeOK`, `PendingIsOn`, `PulseEnds`, `FullPulse` | `TypeCorrect`, `RevertsSwitchOff`, `PulsesEnd`, `PulsesAreFull` |
| `UdpMonitorProofs` | `TypeOK`, `UpIsTimed`, `SilenceReported`, `NoFalseTimeout` | `TypeCorrect`, `UpAreTimed`, `SilenceIsReported`, `TimeoutsAreTrue` |
| `DaemonProofs` | `TypeOK`, `OneDaemon`, `PidFileFinds`, `StopIsTrue` | `TypeCorrect`, `AtMostOneDaemon`, `PidFileIsTrue`, `StopSaysTrue` |
| `PingTesterProofs` | `TypeOK`, `CleanRunPasses` | `TypeCorrect`, `CleanRunsPass` |
| | `JudgesItsOwnRun` | `RunsJudgeThemselves` |
| `InputDevicesProofs` | `TypeOK`, `ReportsAreTrue`, `ReportHasCause` | `TypeCorrect`, `ReportsTellTheTruth`, `ReportsHaveCause` |
| `GpiConfigProofs` | `TypeOK`, `DogsAreAsWritten`, `MonitorsAreAsWritten`, `EachLogfileOnce`, `NumberedDevicesFeed` | `TypeCorrect`, `DogsAsWritten`, `MonitorsAsWritten`, `LogfilesOnce`, `NumberedDevicesFeedTheirDogs` |
| | | `ReloadRestores` |
| `IPv4PingerProofs` | `PingIsRight`, `HearsTheRight`, `AnswerIsHeard` | `RequestChecksum`, `CheckTakesTheRight`, `AnswersAreHeard` |
| `GpiLogProofs`, of the daemon | `PulsesAnnounce` | `LinesAnnounce` |
| | `PendingIsOn`, `PulseEnds`, `FullPulse` | `DaemonPulses` |
| | | `WatchdogsOnTheirOwn`, `OutputsOnTheirOwn` |

**Watchdogs.** `PromptAlarm` is not inductive: a silent watchdog without an
alarm is fine now and wrong one tick later, depending on its two timers. `IInv`
adds, per watchdog, that a running timeout timer and the time since the last
feed add up to the timeout (`Clock`); that the restart timer always runs and
runs out by midnight (`Planned`); and that each slot is `Covered`: before it
opens, the restart it calls for is still to come; once it is open, the restart
has happened or is late, and the watchdog counts or is in alarm. The argument:

1. `NextRestartBound` and `NextRestartCovers` say what `nextRestart()`
   guarantees: a delay that ends by midnight and, for slots in order and away
   from midnight, no later than the start of any slot still to come.
2. `StartTimersFacts`, `ArmedNext`, `FedNext` and `KeptNext` lift this to the
   three things a step can do to a watchdog: start both its timers, feed it, or
   leave it alone.
3. One lemma per action shows that it preserves `IInv`; the delicate ones are
   `TickIInv`, where time reaches the start of a slot, and
   `WatchdogTimeoutDataIInv`, where an expiry is dropped outside the slots.
4. Inside a settled slot a covered watchdog whose restart cannot be late any
   more either counts, so that by `Clock` it is not overdue, or is in alarm.

`RestInv` holds what the other two results need: a watchdog in alarm is not
timed (`Silent`), so that one silence raises one alarm; a restart timer is
always aimed at a slot's start or at midnight (`Aimed`), so that an unannounced
withdrawal falls where `AlarmContract` allows it; and once a level has been
normal for longer than a scan period the next scan comes before the timeout
(`Scanned`), which is `NormalQuiet`. For the refinement every step of
`Watchdog` is shown to be a step of the contract or to stutter.

**Outputs.** `Timed`: on a line without a pulser a reversion is pending exactly
while a pulse lasts, and what is left of its timer and the time since the pulse
began add up to the length of a pulse.

**UDP monitors.** `TimerInv`: timer and silence add up to the timeout, give or
take the time the last datagram waited in the socket. `LeftInv`: the timer of a
monitor whose read loop stopped early was started when the rest was left, so the
rest cannot outlive it unseen, if the timeout is longer than the event loop may
be late. Without that condition `NoFalseTimeout` is false.

**Processes.** The properties of `start` and `stop` rest on where the script
stands: at most one process serves or is about to (`Sole`); one that serves is in
the PID file (`Named`); one that does not yet is the one the script waits for
(`Awaited`); and there is none when `restart` or `reload` is about to launch
(`Vacant`). All four until a relaunch beside a live daemon.

**Address monitors.** Until its verdict a clean run has, for each request it has
sent, the answer or one on the wire (`Accounted`); `Pending` says how old that
one is, which at the verdict contradicts `MaxRtt` if the network is `Roomy`. For
the refinement of `Reachability`, `OwnInv`: no two testers of one address share
an identifier while one of them runs (`Twins`; before the first run they
may, as the constructor leaves `ping_id` uninitialised); what a run has counted
answers requests it has sent itself; and while it awaits an answer, every request
on the wire that `echoReceivedData()` would take for its own is (`Own`). The hypothesis `FreshIds` is that
`rand()` returns no identifier still in use, which the code does not ensure: the
16 bits of the identifier make a collision rare, not impossible. `ping_late`
runs under the same hypothesis.

**Inputs.** `KeyInv`: what the next poll would find of a key, but for an event
not read yet, is how it was at the poll before, or how it is if it has moved.
It holds of a device that does not share the static mask, from its first poll
on, and that comes before the startup delay ends (`Unpolled`). The lemmas on
`LineOf` show that the numbering of `InitInput()` gives no two keys one line.

**Configuration.** Half of the proof is about the parser: before line `at`, the
first section of a name is the one a reader would look in, it is the last
section exactly while its header governs (`SectionsRead`), and it holds the
lines read so far in their order (`LinesRead`); at the end every lookup finds
what the text says (`Heard`), whatever is repeated, missing or misplaced. The
other half has one invariant per loop: what has been read so far is what the
text says, every field of it, and the counter is its length. Each device opened
so far stands behind as many as have lower numbers (`Rank`), which, numbered
without a gap, makes positions and numbers agree; `MaxFacts` gives the device
opened last under a name.

From the same invariant, and stated by no run, `ReloadRestores`: as long as
`gpilog.conf` is not edited, every reload ends in the configuration the daemon
had (`Loaded`: all the vectors, the devices, what is pulsed and monitored; of
the list of logfiles, which are in it, not their order). `LoadedIsMeant` says
that what a running daemon has loaded is one of the meanings of its text
(`MeantByText`), and `OneMeaning` that there is only one: a list ends at the
first number the text leaves out (`SameEnd`), and its elements are functions of
the text. An edit that is taken back before a later reload is beyond the
statement: it would need the meaning of a text other than the current one.

**Packets.** The loop of `Checksum()` is a recursive function, so that the sums
after each word can be named (`IsSums`); what holds of them up to a length is
shown with `UpTo`, which is induction stated for a set and proved by a least
counterexample. From it follow that a sum is bounded by the number of words
(`TotalFacts`) and that another word changes it by the difference
(`TotalChanged`). A checksum is right by RFC 1071 exactly if the words add up to
a multiple of `Base - 1` other than zero (`RightIsMultiple`), and one fold tells
those from all other sums up to `(Base - 1) * (Base - 1)`, hence for every packet
of fewer than `Base` words (`FoldIsMultiple`). That is why the check is right
although it adds the carry only once. The generator does the same and is not:
it complements the fold of the other words, and when the carry carries again that
fold is one too small (`RequestFacts`). Two right packets that differ in one word differ
by a multiple of `Base - 1` in it, so one of them has 0 there and the other
`Base - 1` (`OneWordDamaged`). The invariant only says where the packets come
from.

**Composition.** `OutputsOnTheirOwn` and `WatchdogsOnTheirOwn` show that the
shared loop makes neither part do anything its own module does not allow; that
the handlers pulse no lines but those `GpioOutput` knows as `AlarmLines` is
`PulsedLines`. So what is proved of the lines alone holds in the daemon
(`DaemonPulses`), and of `W!` so do the theorems of `WatchdogProofs`: `GpiLog`
assumes of the constants what `Watchdog` does. A watchdog in alarm has announced
it and is not timed (`Announced`, in `LogInv`), so that every expiry inside a slot
raises an alarm that was not there and every reset ends one that was announced;
with the invariant of the lines, under which a toggle never switches a line on,
`PulsesAnnounce` holds of every step.

What the proofs changed in the models: `NoFalseTimeout` got the condition on
`MaxLate`, and `MonitorsAreAsWritten` its case of an empty `Logfile=`, both of
which had passed TLC on instances without these cases; `Total` became a recursive
function, and `GpiLog` now assumes what `Watchdog` assumes.

Only model-checked is liveness (`AlarmSounds`, `TrafficRestores`,
`OutageReported`, `RecoveryReported`, `Heartbeat`, `CommandsSettle`, `TermObeyed`,
`HupObeyed`), which the prover does not reach.

## 6. Not modelled

* The contents of log lines, commands and names, and of what follows the header
  of a packet beyond its checksum.
* The UDP and address monitors are not composed with the rest: they share with
  it only the event loop and `restartData()`, and no state.
* Devices other than the configured ones: a pulser on a line its device does not
  have works on a reversion timer that is NULL.
* The raw socket's opening, and that its destructor leaves it open, so that each
  SIGHUP leaks a descriptor.
* A reload that changes the configuration is in `GpiConfig` and, as a version
  number, in `Daemon`; for the other modules the CONSTANTS stay as they are.
* That an empty or unreadable datagram feeds a UDP monitor is in the model (as
  in the code), but no property speaks of it.
* ICMP packets longer than the 1500 bytes `readyReadData()` has room for
  (`recvfrom()` cuts them), and IP headers with options, which it takes to be 20
  bytes long all the same (`ipv4_pinger.cpp:75-77`).
* An overflow of the kernel's queue of input events between two polls
  (`SYN_DROPPED`): every key that moves leaves its event to be read.
* `bind()`, which may fail: every datagram sent to a UDP monitor reaches its
  socket.
* Steps of the wall clock (clock set, daylight saving).
* Children of `fork()`, which only run a command and exit, and SIGCHLD.
* Build and packaging.

## 7. Plan

Done: every module of section 2 with its runs, and the proofs of section 5.

What is left:

1. `ReloadRestores` for a text that is edited and then edited back, which needs
   the operators of `GpiConfig` that read a text to take it as a parameter.
2. The UDP monitors and the address monitors in `GpiLog`: they share no state
   with the lines, so only their steps would be interleaved with the others.

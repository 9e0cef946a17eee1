----------------------------- MODULE GpiConfig ------------------------------
(***************************************************************************)
(* GPIConfig::load() of gpi_config.cpp, loop by loop, on a text read by    *)
(* Profile, and the part of GpiLog::Init() that builds the devices and the *)
(* watchdogs' inputs from what was loaded; again after every reload.       *)
(***************************************************************************)
EXTENDS Profile, FiniteSets, SequencesExt

CONSTANTS
  Texts,        \* the texts gpilog.conf may have: sequences of lines
  MaxDevices,   \* GPIO_MAX_DEVICES
  MaxLines,     \* GPIO_MAX_LINES
  Inputs        \* input lines of the cards that open, by device name

ASSUME GpiConfigAssumption ==
  /\ \A t \in Texts : t \in Seq(ToSet(t))
  /\ MaxDevices \in Nat /\ MaxLines \in Nat
  /\ Inputs \in [DOMAIN Inputs -> 0 .. MaxLines]

VARIABLES
  text,       \* gpilog.conf as this load finds it
  pc,         \* the loop that is running
  at,         \* its counter
  profile,    \* profile_section
  conf,       \* the vectors and tables of GPIConfig
  devices,    \* gpio_devices: configured number and inputs of each
  pulses,     \* the output lines each of gpio_watchdogs pulses
  monitors,   \* the inputs each of gpio_watchdogs monitors
  initial     \* initial_start

vars == <<text, pc, at, profile, conf, devices, pulses, monitors, initial>>

(* Section and tag names.                                                  *)
Global == <<"Global">>
Device(i) == <<"Device", i>>
Dog(n) == <<"Watchdog", n>>
Udp(n) == <<"UdpMonitor", n>>
IPv4(n) == <<"IPv4AddressMonitor", n>>
Tag(t) == <<t>>
Pin(j, t) == <<"Pin", j, t>>
Numbered(t, n) == <<t, n>>

(* A new GPIConfig: no vector has an element.  The rows of a device are    *)
(* read only when it is configured.                                        *)
Cleared ==
  [logfile |-> "", devices |-> [i \in 0 .. MaxDevices - 1 |-> ""],
   pins |-> [i \in 0 .. MaxDevices - 1 |-> <<>>], uniqueLogfiles |-> <<>>,
   dogs |-> <<>>, udp |-> <<>>, ipv4 |-> <<>>]

Init ==
  /\ text \in Texts
  /\ pc = "parse" /\ at = 1
  /\ profile = Unnamed
  /\ conf = Cleared
  /\ devices = <<>> /\ pulses = <<>> /\ monitors = <<>>
  /\ initial = TRUE

Goto(loop, first) == pc' = loop /\ at' = first

Read(section, tag, default) == StringValue(profile, section, tag, default)
ReadInt(section, tag, default) == IntValue(profile, section, tag, default)

-----------------------------------------------------------------------------
(* Profile::setSource(), line by line.                                     *)
Parse ==
  /\ pc = "parse"
  /\ IF at <= Len(text)
     THEN profile' = AddLine(profile, text[at]) /\ Goto("parse", at + 1)
     ELSE UNCHANGED profile /\ Goto("global", 0)
  /\ UNCHANGED <<text, conf, devices, pulses, monitors, initial>>

(* [Global]: without a default logfile the daemon exits.                   *)
ReadGlobal ==
  /\ pc = "global"
  /\ conf' = [conf EXCEPT !.logfile = Read(Global, Tag("Logfile"), "")]
  /\ IF conf'.logfile = "" THEN Goto("exited", 0) ELSE Goto("devices", 0)
  /\ UNCHANGED <<text, profile, devices, pulses, monitors, initial>>

(* LogEvents<n>= and Pin<n>Events=: a word that is neither means both.     *)
Events(word) == IF word \in {"rising", "falling"} THEN word ELSE "both"

(* Line j of [Device<i>].  Names and commands are left out.                *)
PinOf(i, j) ==
  [logfile |-> Read(Device(i), Pin(j, "Logfile"), conf.logfile),
   events |-> Events(Read(Device(i), Pin(j, "Events"),
                          Read(Global, Numbered("LogEvents", i), "both"))),
   inverted |-> BoolValue(profile, Device(i), Pin(j, "Inverted"), FALSE),
   dog |-> ReadInt(Device(i), Pin(j, "Watchdog"), -1),
   pulse |-> ReadInt(Device(i), Pin(j, "PulsePeriod"), 0)]

(* A faulty variant: conf_unique_logfiles is not searched. *)
AddUniqueAlways(files, file) == Append(files, file)

AddUnique(files, file) ==
  IF Contains(files, file) THEN files ELSE Append(files, file)

(* One turn of the loop over GpioDevice<n>=.                               *)
ReadDevice ==
  /\ pc = "devices"
  /\ IF at < MaxDevices
     THEN IF Has(profile, Global, Numbered("GpioDevice", at))
          THEN /\ conf' = [conf EXCEPT !.devices[at] =
                    Read(Global, Numbered("GpioDevice", at), "")]
               /\ Goto("pins", at)
          ELSE UNCHANGED conf /\ Goto("devices", at + 1)
     ELSE UNCHANGED conf /\ Goto("dogs", 0)
  /\ UNCHANGED <<text, profile, devices, pulses, monitors, initial>>

(* One turn of the loop over its lines; `at' still is the device's number. *)
ReadPin ==
  /\ pc = "pins"
  /\ LET j == Len(conf.pins[at])
         pin == PinOf(at, j)
     IN IF j < MaxLines
        THEN /\ conf' = [conf EXCEPT
                    !.pins[at] = Append(@, pin),
                    !.uniqueLogfiles = AddUnique(@, pin.logfile)]
             /\ UNCHANGED <<pc, at>>
        ELSE UNCHANGED conf /\ Goto("devices", at + 1)
  /\ UNCHANGED <<text, profile, devices, pulses, monitors, initial>>

(* One turn of the loop over [Watchdog<n>]: it ends at the first number    *)
(* without a positive timeout.                                             *)
NormalState(word) == IF word \in {"high", "low"} THEN word ELSE "transition"

ReadDog ==
  /\ pc = "dogs"
  /\ LET timeout == ReadInt(Dog(at), Tag("Timeout"), -1)
         normal == NormalState(Read(Dog(at), Tag("NormalState"), "transition"))
     IN IF timeout > 0
        THEN /\ conf' = [conf EXCEPT !.dogs = Append(@,
                  [timeout |-> timeout, normal |-> normal, timeslots |-> <<>>,
                   timeoutDevice |-> Read(Dog(at), Tag("TimeoutDevice"), ""),
                   timeoutPin |-> ReadInt(Dog(at), Tag("TimeoutPin"), 0),
                   resetDevice |-> Read(Dog(at), Tag("ResetDevice"), ""),
                   resetPin |-> ReadInt(Dog(at), Tag("ResetPin"), 0)])]
             /\ Goto("timeslots", at)
        ELSE UNCHANGED conf /\ Goto("udp", 0)
  /\ UNCHANGED <<text, profile, devices, pulses, monitors, initial>>

(* One turn of the loop over its StartTime<n>= and EndTime<n>=; `at' still *)
(* is the watchdog's number.                                               *)
ReadSlot ==
  /\ pc = "timeslots"
  /\ LET n == Len(conf.dogs[at + 1].timeslots)
         start == Numbered("StartTime", n)
         end == Numbered("EndTime", n)
     IN IF HasTime(profile, Dog(at), start) /\ HasTime(profile, Dog(at), end)
        THEN /\ conf' = [conf EXCEPT !.dogs[at + 1].timeslots = Append(@,
                  <<TimeValue(profile, Dog(at), start),
                    TimeValue(profile, Dog(at), end)>>)]
             /\ UNCHANGED <<pc, at>>
        ELSE UNCHANGED conf /\ Goto("dogs", at + 1)
  /\ UNCHANGED <<text, profile, devices, pulses, monitors, initial>>

-----------------------------------------------------------------------------
(* A faulty variant: a section without a timeout ends the list. *)
ListedTimed(section) == ReadInt(section, Tag("Timeout"), -1) > 0

Listed(section) == Has(profile, section, Tag("Name"))

(* The default of a Timeout= there and of an Interval=, in milliseconds.   *)
Minute == 60000

(* One turn of the loop over [UdpMonitor<n>]: it ends at the first number  *)
(* without a Name=.                                                        *)
ReadUdp ==
  /\ pc = "udp"
  /\ IF Listed(Udp(at))
     THEN /\ conf' = [conf EXCEPT !.udp = Append(@,
               [timeout |-> ReadInt(Udp(at), Tag("Timeout"), Minute),
                port |-> ReadInt(Udp(at), Tag("UdpPort"), 0),
                logfile |-> Read(Udp(at), Tag("Logfile"), conf.logfile)])]
          /\ Goto("udp", at + 1)
     ELSE UNCHANGED conf /\ Goto("ipv4", 0)
  /\ UNCHANGED <<text, profile, devices, pulses, monitors, initial>>

(* What [IPv4AddressMonitor<n>] says.  An empty logfile stands for the     *)
(* default one when something is logged.                                   *)
PingsOf(n) == ReadInt(IPv4(n), Tag("Pings"), 5)

IPv4Of(n) ==
  [pings |-> PingsOf(n),
   validPings |-> ReadInt(IPv4(n), Tag("ValidPings"), PingsOf(n)),
   interval |-> ReadInt(IPv4(n), Tag("Interval"), Minute),
   logfile |-> Read(IPv4(n), Tag("Logfile"), "")]

(* One turn of the loop over [IPv4AddressMonitor<n>].                      *)
ReadIPv4 ==
  /\ pc = "ipv4"
  /\ IF Listed(IPv4(at))
     THEN /\ conf' = [conf EXCEPT !.ipv4 = Append(@, IPv4Of(at))]
          /\ Goto("ipv4", at + 1)
     ELSE UNCHANGED conf /\ Goto("open", 0)
  /\ UNCHANGED <<text, profile, devices, pulses, monitors, initial>>

-----------------------------------------------------------------------------
(* One turn of Init()'s loop over the devices: one that does not open ends *)
(* a first start and is kept, without lines, by a reload.                  *)
OpenDevice ==
  /\ pc = "open"
  /\ IF at < MaxDevices
     THEN LET name == conf.devices[at] IN
          IF name = ""
          THEN UNCHANGED devices /\ Goto("open", at + 1)
          ELSE /\ devices' = Append(devices,
                    [number |-> at,
                     inputs |-> Converted(Inputs, name, 0)])
               /\ IF name \notin DOMAIN Inputs /\ initial
                  THEN Goto("exited", 0)
                  ELSE Goto("open", at + 1)
     ELSE UNCHANGED devices /\ Goto("opendogs", 0)
  /\ UNCHANGED <<text, profile, conf, pulses, monitors, initial>>

(* The line a watchdog pulses: the pin it names on the device opened last  *)
(* under the name it names, or none.                                       *)
PulseLine(device, pin) ==
  LET named == {k \in DOMAIN devices : conf.devices[devices[k].number] = device}
  IN  IF named = {} THEN <<>> ELSE <<Max(named), pin>>

(* Open Watchdog Devices. *)
OpenDogs ==
  /\ pc = "opendogs"
  /\ pulses' = [w \in DOMAIN conf.dogs |->
       LET dog == conf.dogs[w] IN
       [timeout |-> PulseLine(dog.timeoutDevice, dog.timeoutPin),
        reset |-> PulseLine(dog.resetDevice, dog.resetPin)]]
  /\ Goto("map", 0)
  /\ UNCHANGED <<text, profile, conf, devices, monitors, initial>>

(* A faulty variant: the number of the watchdog is off by one. *)
DogOfShifted(i, j) ==
  IF conf.pins[i] = <<>> THEN -1 ELSE conf.pins[i][j + 1].dog + 1

(* The watchdog configured for an input: the table is indexed with the     *)
(* position of the device in gpio_devices.                                 *)
DogOf(i, j) ==
  IF conf.pins[i] = <<>> THEN -1 ELSE conf.pins[i][j + 1].dog

(* The Watchdogs-->Inputs map, and the end of Init().  A number that names *)
(* no watchdog is only logged.                                             *)
MapInputs ==
  /\ pc = "map"
  /\ monitors' = [w \in DOMAIN conf.dogs |->
       {m \in (0 .. Len(devices) - 1) \X (0 .. MaxLines - 1) :
          m[2] < devices[m[1] + 1].inputs /\ DogOf(m[1], m[2]) = w - 1}]
  /\ Goto("running", 0)
  /\ initial' = FALSE
  /\ UNCHANGED <<text, profile, conf, devices, pulses>>

(* LogGpiLine(): a message about no line in particular goes to the         *)
(* logfiles of all lines, those of others to the logfile of the line.      *)
LogGpiLine(i, j) ==
  IF i < 0 THEN conf.uniqueLogfiles ELSE <<conf.pins[i][j + 1].logfile>>

(* The logfiles in which restartData() says that the daemon exits.         *)
ExitLog ==
  ToSet(LogGpiLine(-1, -1)) \cup
    ({conf.udp[m].logfile : m \in DOMAIN conf.udp} \ {conf.logfile})

(* Where ipv4StateChangedData() reports. *)
IPv4Log(n) ==
  LET own == conf.ipv4[n + 1].logfile IN IF own = "" THEN conf.logfile ELSE own

(* A faulty variant: the devices of the last configuration stay in the     *)
(* vector.                                                                 *)
RestartKept ==
  /\ pc = "running"
  /\ text' \in Texts
  /\ Goto("parse", 1)
  /\ profile' = Unnamed /\ conf' = Cleared
  /\ pulses' = <<>> /\ monitors' = <<>>
  /\ UNCHANGED <<devices, initial>>

(* Restart() after the file has been edited, and a new GPIConfig.          *)
Restart ==
  /\ pc = "running"
  /\ text' \in Texts
  /\ Goto("parse", 1)
  /\ profile' = Unnamed /\ conf' = Cleared
  /\ devices' = <<>> /\ pulses' = <<>> /\ monitors' = <<>>
  /\ UNCHANGED initial

Next ==
  \/ Parse \/ ReadGlobal \/ ReadDevice \/ ReadPin \/ ReadDog \/ ReadSlot
  \/ ReadUdp \/ ReadIPv4 \/ OpenDevice \/ OpenDogs \/ MapInputs \/ Restart

Spec == Init /\ [][Next]_vars

-----------------------------------------------------------------------------
(* What the text says, read as a person would: a tag of a section is the   *)
(* first line with the tag between the first header of that name and the   *)
(* next header.                                                            *)
Headers == {h \in DOMAIN text : text[h].kind = "section"}

Governing(section, tag) ==
  {i \in DOMAIN text :
     /\ text[i].kind = "value" /\ text[i].name = tag
     /\ \E h \in Headers :
          /\ h < i /\ text[h].name = section
          /\ \A g \in Headers : /\ g < h => text[g].name # section
                                /\ g <= h \/ g > i}

Says(section, tag, default) ==
  IF Governing(section, tag) = {} THEN default
  ELSE text[Least(Governing(section, tag))].value

SaysInt(section, tag, default) ==
  Converted(IntOf, Says(section, tag, ""), default)

SaysSlot(n, k) ==
  {Says(Dog(n), Numbered("StartTime", k), ""),
   Says(Dog(n), Numbered("EndTime", k), "")} \subseteq DOMAIN TimeOf

Configured ==
  {i \in 0 .. MaxDevices - 1 : Says(Global, Numbered("GpioDevice", i), "") # ""}

(* The inputs the text gives to watchdog n, as configured device and line. *)
InputsOf(n) ==
  {m \in Configured \X (0 .. MaxLines - 1) :
     /\ m[2] < Converted(Inputs,
                         Says(Global, Numbered("GpioDevice", m[1]), ""), 0)
     /\ SaysInt(Device(m[1]), Pin(m[2], "Watchdog"), -1) = n}

(* The inputs watchdog n monitors, as configured device and line.          *)
Monitored(n) ==
  {<<devices[m[1] + 1].number, m[2]>> : m \in monitors[n + 1]}

-----------------------------------------------------------------------------
(* The loops of load() and Init() keep their counters in range, and the    *)
(* vectors hold what the rest of the daemon expects of them.               *)
TypeOK ==
  /\ text \in Texts
  /\ pc \in {"parse", "global", "devices", "pins", "dogs", "timeslots", "udp",
             "ipv4", "open", "opendogs", "map", "running", "exited"}
  /\ at \in Nat
  /\ Len(devices) <= MaxDevices
  /\ \A k \in DOMAIN devices : devices[k].inputs \in 0 .. MaxLines
  /\ \A d \in DOMAIN conf.dogs : conf.dogs[d].timeout > 0
  /\ pc = "running" => DOMAIN monitors = DOMAIN conf.dogs
  /\ pc = "running" => conf.logfile # ""
  /\ initial \in BOOLEAN

DefaultLog == Says(Global, Tag("Logfile"), "")

(* The pulse the text gives to watchdog n, as configured device and pin. *)
PulseAsWritten(n, line, device, pin) ==
  LET name == Says(Dog(n), Tag(device), "")
      named == {i \in Configured :
                  Says(Global, Numbered("GpioDevice", i), "") = name}
  IN  IF named = {} THEN line = <<>>
      ELSE /\ devices[line[1]].number \in named
           /\ line[2] = SaysInt(Dog(n), Tag(pin), 0)

(* Once load() is done the watchdogs are those numbered 0, 1, ... up to    *)
(* the first number whose section says no positive Timeout=, and the slots *)
(* of each those up to the first number that lacks a time: none is lost,   *)
(* invented, taken from a repeated section or carried over a reload.  Each *)
(* pulses the lines it names, if it names a device that is configured.     *)
DogsAreAsWritten ==
  pc = "running" =>
    /\ SaysInt(Dog(Len(conf.dogs)), Tag("Timeout"), -1) <= 0
    /\ \A n \in 0 .. Len(conf.dogs) - 1 :
         LET dog == conf.dogs[n + 1] IN
         /\ dog.timeout = SaysInt(Dog(n), Tag("Timeout"), -1)
         /\ dog.normal =
              NormalState(Says(Dog(n), Tag("NormalState"), "transition"))
         /\ PulseAsWritten(n, pulses[n + 1].timeout,
                           "TimeoutDevice", "TimeoutPin")
         /\ PulseAsWritten(n, pulses[n + 1].reset, "ResetDevice", "ResetPin")
         /\ ~SaysSlot(n, Len(dog.timeslots))
         /\ \A k \in 0 .. Len(dog.timeslots) - 1 :
              /\ SaysSlot(n, k)
              /\ dog.timeslots[k + 1] =
                   <<TimeOf[Says(Dog(n), Numbered("StartTime", k), "")],
                     TimeOf[Says(Dog(n), Numbered("EndTime", k), "")]>>

(* The monitors are those numbered up to the first section without Name=,  *)
(* each with its own values or the defaults of load(): port, number of     *)
(* pings, times and logfile, where a Logfile= with nothing behind it is no *)
(* logfile of its own for an IPv4 address monitor.                         *)
MonitorsAreAsWritten ==
  pc = "running" =>
    /\ Governing(Udp(Len(conf.udp)), Tag("Name")) = {}
    /\ Governing(IPv4(Len(conf.ipv4)), Tag("Name")) = {}
    /\ \A n \in 0 .. Len(conf.udp) - 1 :
         /\ Governing(Udp(n), Tag("Name")) # {}
         /\ conf.udp[n + 1].timeout = SaysInt(Udp(n), Tag("Timeout"), Minute)
         /\ conf.udp[n + 1].port = SaysInt(Udp(n), Tag("UdpPort"), 0)
         /\ conf.udp[n + 1].logfile =
              Says(Udp(n), Tag("Logfile"), DefaultLog)
    /\ \A n \in 0 .. Len(conf.ipv4) - 1 :
         /\ Governing(IPv4(n), Tag("Name")) # {}
         /\ IPv4Log(n) = LET own == Says(IPv4(n), Tag("Logfile"), "")
                         IN  IF own = "" THEN DefaultLog ELSE own
         /\ conf.ipv4[n + 1].pings = SaysInt(IPv4(n), Tag("Pings"), 5)
         /\ conf.ipv4[n + 1].interval =
              SaysInt(IPv4(n), Tag("Interval"), Minute)
         /\ conf.ipv4[n + 1].validPings =
              SaysInt(IPv4(n), Tag("ValidPings"),
                      SaysInt(IPv4(n), Tag("Pings"), 5))

(* A message of the daemon (an alarm, a reset) is written once to every    *)
(* logfile that some line of a device uses, repeated or not.  The last     *)
(* one, on exit, reaches those of the UDP monitors too, however often,     *)
(* except that the default logfile gets it only from a line.               *)
EachLogfileOnce ==
  pc = "running" =>
    LET ofLines ==
          {Says(Device(i), Pin(j, "Logfile"), DefaultLog) :
             i \in {d \in 0 .. MaxDevices - 1 :
                      Governing(Global, Numbered("GpioDevice", d)) # {}},
             j \in 0 .. MaxLines - 1}
        ofMonitors ==
          {Says(Udp(n), Tag("Logfile"), DefaultLog) :
             n \in 0 .. Len(conf.udp) - 1}
    IN  /\ IsInjective(LogGpiLine(-1, -1))
        /\ ToSet(LogGpiLine(-1, -1)) = ofLines
        /\ ExitLog = ofLines \cup (ofMonitors \ {DefaultLog})

(* gpilog.conf-sample:90-92 associates individual GPIs with a watchdog by  *)
(* Pin<n>Watchdog= in the [Device<n>] sections: each watchdog monitors the *)
(* lines that name it and no other.                                        *)
PinsFeedTheirDogs ==
  pc = "running" =>
    \A n \in 0 .. Len(conf.dogs) - 1 : Monitored(n) = InputsOf(n)

(* So it is, after any number of reloads, while the devices are numbered   *)
(* without a gap; inputChangedData() then finds in gpio_devices the device *)
(* that has emitted the signal.                                            *)
NumberedDevicesFeed ==
  pc = "running" /\ Configured = 0 .. Cardinality(Configured) - 1 =>
    /\ PinsFeedTheirDogs
    /\ \A k \in DOMAIN devices : devices[k].number = k - 1

=============================================================================

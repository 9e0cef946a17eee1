---------------------------- MODULE MCGpiConfig -----------------------------
(* Texts put together from sections: with and without a logfile, a gap in  *)
(* the numbers, a repeated header, a value that does not convert.          *)
EXTENDS GpiConfig

MCIntOf == [v \in {"0", "1", "2", "-1"} |->
             CASE v = "0" -> 0 [] v = "1" -> 1 [] v = "2" -> 2 [] v = "-1" -> -1]
MCTimeOf == [v \in {"08:00:00", "12:00:00"} |-> IF v = "08:00:00" THEN 8 ELSE 12]
MCBoolOf == [v \in {"yes", "no"} |-> v = "yes"]
MCInputs == [name \in {"gpio0", "gpio1"} |-> IF name = "gpio0" THEN 2 ELSE 1]

GlobalWith(pairs) == <<Header(Global)>> \o pairs
Log == Pair(Tag("Logfile"), "log")
Gpio(i, name) == Pair(Numbered("GpioDevice", i), name)

Globals ==
  {GlobalWith(<<Log, Gpio(0, "gpio0")>>),
   GlobalWith(<<Log, Gpio(0, "gpio0"), Gpio(1, "gpio1"),
                Pair(Numbered("LogEvents", 1), "rising")>>),
   GlobalWith(<<Log, Remark, Gpio(1, "gpio1")>>),
   GlobalWith(<<Log, Gpio(0, "gone"), Gpio(1, "")>>),
   <<Pair(Tag("Logfile"), "log")>> \o GlobalWith(<<Gpio(0, "gpio0")>>)}

Devices ==
  {<<>>,
   <<Header(Device(0)), Pair(Pin(0, "Watchdog"), "0"),
     Pair(Pin(1, "Watchdog"), "1"), Pair(Pin(1, "Logfile"), "log1"),
     Header(Device(1)), Pair(Pin(0, "Watchdog"), "0"),
     Pair(Pin(1, "Logfile"), "log1")>>,
   <<Header(Device(1)), Pair(Pin(0, "Watchdog"), "1"),
     Pair(Pin(0, "Inverted"), "yes"),
     Header(Device(1)), Pair(Pin(0, "Watchdog"), "0"),
     Pair(Pin(1, "Logfile"), "log1")>>}

Slot(n) == <<Pair(Numbered("StartTime", n), "08:00:00"),
             Pair(Numbered("EndTime", n), "12:00:00")>>
DogWith(n, timeout, lines) ==
  <<Header(Dog(n)), Pair(Tag("Timeout"), timeout)>> \o lines

Dogs ==
  {<<>>,
   DogWith(0, "1", <<Pair(Tag("TimeoutDevice"), "gpio1"),
                    Pair(Tag("TimeoutPin"), "1"),
                    Pair(Tag("NormalState"), "high"),
                    Pair(Tag("ResetDevice"), "gpio0")>> \o Slot(0) \o Slot(1))
     \o DogWith(1, "2", Slot(0)),
   DogWith(0, "1", Slot(0) \o Slot(2)) \o DogWith(0, "2", Slot(1)),
   DogWith(0, "1", <<Pair(Tag("Timeout"), "2")>>) \o DogWith(2, "1", Slot(0)),
   DogWith(0, "never", Slot(0)) \o DogWith(1, "1", <<>>)}

Named0(section) == <<Header(section), Pair(Tag("Name"), "monitor")>>

Monitors ==
  {Named0(Udp(0))
     \o <<Pair(Tag("Timeout"), "0"), Pair(Tag("UdpPort"), "2")>>
     \o Named0(Udp(2)),
   <<Header(Udp(0)), Pair(Tag("Timeout"), "1")>>
     \o Named0(IPv4(0))
     \o <<Pair(Tag("Pings"), "2"), Pair(Tag("Interval"), "1"),
          Pair(Tag("Logfile"), "log2")>>
     \o Named0(IPv4(1)) \o <<Pair(Tag("Logfile"), "")>>,
   Named0(Udp(0)) \o <<Pair(Tag("Logfile"), "log1")>> \o Named0(Udp(1))
     \o Named0(IPv4(0)) \o <<Pair(Tag("ValidPings"), "many")>>}

MCTexts == {g \o d \o w \o m :
              g \in Globals, d \in Devices, w \in Dogs, m \in Monitors}
=============================================================================

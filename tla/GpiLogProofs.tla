---------------------------- MODULE GpiLogProofs ----------------------------
(***************************************************************************)
(* Proofs about the output lines and about the composition.                *)
(*                                                                         *)
(* First the lines alone, for any set of lines, any pulsers and any length *)
(* of a pulse.  That a pulse ends in time depends on where its reversion   *)
(* timer stands: IInv adds that, and with it PendingIsOn, PulseEnds and    *)
(* FullPulse follow.                                                       *)
(*                                                                         *)
(* Then the daemon, for any watchdogs and pins named for their alarms:     *)
(* each part runs as its own module says, so that what is proved of it     *)
(* alone holds there too, and the lines announce what the watchdogs do.    *)
(***************************************************************************)
EXTENDS GpiLog, TLAPS


(* On a line without a pulser a reversion is pending exactly while a pulse *)
(* lasts, and runs out when the pulse has lasted its length.               *)
Timed(l) ==
  /\ Pending(l) => /\ pulsed[l]
                   /\ timers[RevertTimer(l)] + since[l] = PulseLen
  /\ pulsed[l] /\ ~Pending(l) => ~output[l]

IInv ==
  /\ TypeOK
  /\ PendingIsOn
  /\ \A l \in Lines \ PulserLines : Timed(l)

-----------------------------------------------------------------------------
(* No two timers share a name. *)
LEMMA TimerNames ==
  ASSUME NEW k \in Lines, NEW l \in Lines
  PROVE  /\ RevertTimer(k) = RevertTimer(l) <=> k = l
         /\ PulseTimer(k) = PulseTimer(l) <=> k = l
         /\ RevertTimer(k) # PulseTimer(l)
         /\ PulseTimer(l)[2] = l
BY DEF RevertTimer, PulseTimer

(* gpoSet(line,0) and gpoReset(line,0) forget the reversions of their      *)
(* lines and leave every other timer alone.                                *)
LEMMA ReversionsStop ==
  ASSUME NEW ts, NEW L \in SUBSET Lines
  PROVE  SetReversion(ts, L, 0) = [u \in DOMAIN ts \ Reverts(L) |-> ts[u]]
BY DEF SetReversion, Stopped

(* gpoSet(line,n) leaves the reversion of its line n ticks from now.       *)
LEMMA ReversionsStart ==
  ASSUME NEW ts, NEW L \in SUBSET Lines
  PROVE  SetReversion(ts, L, PulseLen) =
           [u \in DOMAIN ts \cup Reverts(L) |->
              IF u \in Reverts(L) THEN PulseLen ELSE ts[u]]
BY GpioOutputAssumption DEF SetReversion, AllStarted

(* The reversion of a line is among those of a set of lines when the line  *)
(* is, and the timer of a pulser never is.                                 *)
LEMMA RevertsMember ==
  ASSUME NEW L \in SUBSET Lines, NEW l \in Lines
  PROVE  /\ RevertTimer(l) \in Reverts(L) <=> l \in L
         /\ PulseTimer(l) \notin Reverts(L)
BY TimerNames DEF Reverts

(* The timers at a start and after a reload: those of the pulsers.         *)
LEMMA StartTimersFacts ==
  /\ DOMAIN StartTimers = {PulseTimer(l) : l \in PulserLines}
  /\ StartTimers \in [DOMAIN StartTimers -> Int]
  /\ \A t \in DOMAIN StartTimers : StartTimers[t] >= -MaxLate
  /\ \A l \in Lines : RevertTimer(l) \notin DOMAIN StartTimers
<1>1. DOMAIN StartTimers = {PulseTimer(l) : l \in PulserLines}
  BY DEF StartTimers
<1>2. ASSUME NEW t \in DOMAIN StartTimers
      PROVE  StartTimers[t] \in Int /\ StartTimers[t] >= -MaxLate
  <2>1. PICK l \in PulserLines : t = PulseTimer(l)
    BY <1>1
  <2>2. StartTimers[t] = PulsePeriod[l]
    BY <1>1, <2>1, TimerNames DEF StartTimers, PulserLines
  <2> QED
    BY <2>2, GpioOutputAssumption DEF PulserLines
<1>3. \A l \in Lines : RevertTimer(l) \notin DOMAIN StartTimers
  BY <1>1, TimerNames DEF PulserLines
<1>4. StartTimers \in [DOMAIN StartTimers -> Int]
  BY <1>2 DEF StartTimers
<1> QED
  BY <1>1, <1>2, <1>3, <1>4

-----------------------------------------------------------------------------
(* IInv holds when the daemon has started. *)
LEMMA InitIInv == Init => IInv
BY StartTimersFacts DEF Init, IInv, TypeOK, PendingIsOn, Timed, Pending

(* IInv after a SIGHUP, which forgets every reversion and every pulse.     *)
LEMMA ReloadIInv == IInv /\ Reload => IInv'
BY StartTimersFacts DEF Reload, IInv, TypeOK, PendingIsOn, Timed, Pending

(* IInv after a tick: what a reversion loses the pulse gains.              *)
LEMMA TickIInv == IInv /\ Tick => IInv'
<1> SUFFICES ASSUME IInv, Tick PROVE IInv'
  OBVIOUS
<1>1. /\ DOMAIN timers' = DOMAIN timers
      /\ \A u \in DOMAIN timers :
           /\ timers[u] \in Int /\ timers[u] > -MaxLate
           /\ timers'[u] = timers[u] - 1
  BY DEF Tick, IInv, TypeOK, Elapsed, MayElapse
<1>2. since' \in [Lines -> Nat]
  BY DEF Tick, IInv, TypeOK
<1>3. TypeOK'
  <2>1. timers' \in [DOMAIN timers' -> Int]
    BY <1>1 DEF Tick, Elapsed
  <2>2. \A u \in DOMAIN timers' : timers'[u] >= -MaxLate
    BY <1>1, GpioOutputAssumption
  <2> QED
    BY <1>1, <1>2, <2>1, <2>2 DEF Tick, IInv, TypeOK
<1>4. PendingIsOn'
  BY <1>1 DEF Tick, IInv, PendingIsOn, Pending
<1>5. ASSUME NEW l \in Lines \ PulserLines
      PROVE  Timed(l)'
  <2>1. Timed(l) /\ since[l] \in Nat /\ PulseLen \in Nat /\ MaxLate \in Nat
    BY GpioOutputAssumption DEF IInv, TypeOK
  <2>2. since'[l] = IF since[l] < SinceCap THEN since[l] + 1 ELSE since[l]
    BY DEF Tick
  <2> QED
    BY <1>1, <2>1, <2>2 DEF Timed, Pending, SinceCap, Tick
<1> QED
  BY <1>3, <1>4, <1>5 DEF IInv

(* IInv after the pulses of an alarm or a reset: each puts the reversion   *)
(* of its line off to the end of its own second.                           *)
LEMMA WatchdogPulseIInv ==
  ASSUME NEW L \in SUBSET AlarmLines
  PROVE  IInv /\ WatchdogPulse(L) => IInv'
<1> SUFFICES ASSUME IInv, WatchdogPulse(L) PROVE IInv'
  OBVIOUS
<1>1. L \in SUBSET Lines /\ PulseLen \in Nat /\ MaxLate \in Nat
  BY GpioOutputAssumption
<1>2. timers' = [u \in DOMAIN timers \cup Reverts(L) |->
                   IF u \in Reverts(L) THEN PulseLen ELSE timers[u]]
  BY <1>1, ReversionsStart DEF WatchdogPulse, GpoDrive
<1>3. /\ output' = [l \in Lines |-> IF l \in L THEN TRUE ELSE output[l]]
      /\ pulsed' = [l \in Lines |-> l \in L \/ pulsed[l]]
      /\ since' = [l \in Lines |-> IF l \in L THEN 0 ELSE since[l]]
      /\ pulse_state' = pulse_state
  BY DEF WatchdogPulse, GpoDrive
<1>4. TypeOK'
  <2>1. /\ timers' \in [DOMAIN timers' -> Int]
        /\ \A t \in DOMAIN timers' : timers'[t] >= -MaxLate
        /\ DOMAIN timers' = DOMAIN timers \cup Reverts(L)
    BY <1>1, <1>2 DEF IInv, TypeOK
  <2>2. Reverts(L) \subseteq {RevertTimer(l) : l \in Lines}
    BY <1>1 DEF Reverts
  <2> QED
    BY <1>3, <2>1, <2>2 DEF IInv, TypeOK
<1>5. ASSUME NEW l \in Lines, l \in L
      PROVE  Pending(l)' /\ timers'[RevertTimer(l)] = PulseLen /\ output'[l]
  BY <1>1, <1>2, <1>3, <1>5, RevertsMember DEF Pending
<1>6. ASSUME NEW l \in Lines, l \notin L
      PROVE  /\ Pending(l)' <=> Pending(l)
             /\ Pending(l) => timers'[RevertTimer(l)] = timers[RevertTimer(l)]
             /\ output'[l] = output[l]
  BY <1>1, <1>2, <1>3, <1>6, RevertsMember DEF Pending
<1>7. PendingIsOn'
  BY <1>5, <1>6 DEF IInv, PendingIsOn
<1>8. ASSUME NEW l \in Lines \ PulserLines
      PROVE  Timed(l)'
  <2>1. CASE l \in L
    <3>1. pulsed'[l] /\ since'[l] = 0
      BY <1>3, <2>1
    <3> QED
      BY <1>1, <1>5, <2>1, <3>1 DEF Timed
  <2>2. CASE l \notin L
    <3>1. pulsed'[l] = pulsed[l] /\ since'[l] = since[l]
      BY <1>3, <2>2 DEF IInv, TypeOK
    <3> QED
      BY <1>6, <2>2, <3>1 DEF IInv, Timed
  <2> QED
    BY <2>1, <2>2
<1> QED
  BY <1>4, <1>7, <1>8 DEF IInv

(* What gpoSet(l,0) and gpoReset(l,0) do to IInv, on timers that differ    *)
(* from the present ones in no other reversion: the line l is left without *)
(* a reversion, and off unless it has a pulser.                            *)
LEMMA DriveIInv ==
  ASSUME IInv, NEW l \in Lines, NEW level \in BOOLEAN, NEW ts,
         GpoDrive({l}, level, 0, ts),
         DOMAIN ts \subseteq DOMAIN timers,
         DOMAIN timers \subseteq DOMAIN ts \cup {RevertTimer(l)},
         \A u \in DOMAIN ts : ts[u] \in Int /\ ts[u] >= -MaxLate,
         \A k \in Lines : RevertTimer(k) \in DOMAIN ts =>
           ts[RevertTimer(k)] = timers[RevertTimer(k)],
         l \in PulserLines \/ ~level,
         pulse_state' \in [Lines -> BOOLEAN],
         UNCHANGED <<pulsed, since>>
  PROVE  IInv'
<1>1. timers' = [u \in DOMAIN ts \ Reverts({l}) |-> ts[u]]
  BY ReversionsStop DEF GpoDrive
<1>2. output' = [k \in Lines |-> IF k \in {l} THEN level ELSE output[k]]
  BY DEF GpoDrive
<1>3. Reverts({l}) = {RevertTimer(l)}
  BY DEF Reverts
<1>4. TypeOK'
  <2>1. /\ timers' \in [DOMAIN timers' -> Int]
        /\ \A t \in DOMAIN timers' : timers'[t] >= -MaxLate
        /\ DOMAIN timers' = DOMAIN ts \ {RevertTimer(l)}
    BY <1>1, <1>3
  <2>2. {PulseTimer(k) : k \in PulserLines} \subseteq DOMAIN timers'
    BY <2>1, TimerNames DEF IInv, TypeOK, PulserLines
  <2>3. output' \in [Lines -> BOOLEAN]
    BY <1>2 DEF IInv, TypeOK
  <2> QED
    BY <2>1, <2>2, <2>3 DEF IInv, TypeOK
<1>5. ~Pending(l)'
  BY <1>1, <1>3 DEF Pending
<1>6. ASSUME NEW k \in Lines, k # l
      PROVE  /\ Pending(k)' <=> Pending(k)
             /\ Pending(k) => timers'[RevertTimer(k)] = timers[RevertTimer(k)]
             /\ output'[k] = output[k]
  BY <1>1, <1>2, <1>3, <1>6, TimerNames DEF Pending
<1>7. PendingIsOn'
  BY <1>5, <1>6 DEF IInv, PendingIsOn
<1>8. ASSUME NEW k \in Lines \ PulserLines
      PROVE  Timed(k)'
  <2>1. CASE k = l
    BY <1>2, <1>5, <2>1 DEF Timed
  <2>2. CASE k # l
    BY <1>6, <2>2 DEF IInv, Timed
  <2> QED
    BY <2>1, <2>2
<1> QED
  BY <1>4, <1>7, <1>8 DEF IInv

(* IInv after a reversion: the line was on, so the toggle switches it off. *)
LEMMA RevertDataIInv ==
  ASSUME NEW l \in Lines
  PROVE  IInv /\ RevertData(l) => IInv'
<1> SUFFICES ASSUME IInv, RevertData(l) PROVE IInv'
  OBVIOUS
<1> DEFINE ts == Stopped(timers, {RevertTimer(l)})
<1>1. GpoDrive({l}, ~output[l], 0, ts)
  BY DEF RevertData
<1>2. output[l]
  BY DEF RevertData, DueFirst, IInv, PendingIsOn, Pending
<1>3. ts = [u \in DOMAIN timers \ {RevertTimer(l)} |-> timers[u]]
  BY DEF Stopped
<1>4. \A u \in DOMAIN timers : timers[u] \in Int /\ timers[u] >= -MaxLate
  BY DEF IInv, TypeOK
<1>5. UNCHANGED <<pulse_state, pulsed, since>>
  BY DEF RevertData
<1>6. pulse_state' \in [Lines -> BOOLEAN]
  BY <1>5 DEF IInv, TypeOK
<1>7. /\ DOMAIN ts = DOMAIN timers \ {RevertTimer(l)}
      /\ \A u \in DOMAIN ts : ts[u] = timers[u]
  BY <1>3
<1> HIDE DEF ts
<1>8. GpoDrive({l}, FALSE, 0, ts)
  BY <1>1, <1>2 DEF GpoDrive
<1> QED
  BY <1>4, <1>5, <1>6, <1>7, <1>8, DriveIInv

(* IInv after the expiry of a pulser: a pulse that is on the line has lost *)
(* its reversion, but such a line is no concern of PulseEnds.              *)
LEMMA PulserTimeoutDataIInv ==
  ASSUME NEW l \in PulserLines
  PROVE  IInv /\ PulserTimeoutData(l) => IInv'
<1> SUFFICES ASSUME IInv, PulserTimeoutData(l) PROVE IInv'
  OBVIOUS
<1> DEFINE ts == NextPulse(l)
<1>1. GpoDrive({l}, pulse_state[l], 0, ts)
  BY DEF PulserTimeoutData
<1>2. l \in Lines /\ PulsePeriod[l] \in Nat /\ MaxLate \in Nat
  BY GpioOutputAssumption DEF PulserLines
<1>3. \A u \in DOMAIN timers : timers[u] \in Int /\ timers[u] >= -MaxLate
  BY DEF IInv, TypeOK
<1>4. /\ DOMAIN ts = DOMAIN timers
      /\ \A u \in DOMAIN ts : ts[u] \in Int /\ ts[u] >= -MaxLate
      /\ \A u \in DOMAIN ts : u # PulseTimer(l) => ts[u] = timers[u]
  BY <1>2, <1>3 DEF NextPulse, Rearmed
<1>5. \A k \in Lines : RevertTimer(k) # PulseTimer(l)
  BY <1>2, TimerNames
<1>6. /\ pulse_state[l] \in BOOLEAN
      /\ pulse_state' \in [Lines -> BOOLEAN]
      /\ UNCHANGED <<pulsed, since>>
  BY <1>2 DEF PulserTimeoutData, Flipped, IInv, TypeOK
<1> HIDE DEF ts
<1> QED
  BY <1>1, <1>2, <1>4, <1>5, <1>6, DriveIInv

(* Every step preserves IInv. *)
LEMMA NextIInv == IInv /\ [Next]_vars => IInv'
<1> SUFFICES ASSUME IInv, [Next]_vars PROVE IInv'
  OBVIOUS
<1>1. CASE Tick
  BY <1>1, TickIInv
<1>2. ASSUME NEW l \in Lines, RevertData(l) PROVE IInv'
  BY <1>2, RevertDataIInv
<1>3. ASSUME NEW l \in PulserLines, PulserTimeoutData(l) PROVE IInv'
  BY <1>3, PulserTimeoutDataIInv
<1>4. ASSUME NEW L \in SUBSET AlarmLines, WatchdogPulse(L) PROVE IInv'
  BY <1>4, WatchdogPulseIInv
<1>5. CASE Reload
  BY <1>5, ReloadIInv
<1>6. CASE UNCHANGED vars
  BY <1>6 DEF vars, IInv, TypeOK, PendingIsOn, Timed, Pending
<1> QED
  BY <1>1, <1>2, <1>3, <1>4, <1>5, <1>6 DEF Next, Handler

-----------------------------------------------------------------------------
(* The outputs are in order in every behaviour: a pending reversion and    *)
(* the pulse it will end always belong together.                           *)
THEOREM OutputsInOrder == Spec => []IInv
BY InitIInv, NextIInv, PTL DEF Spec

(* Types: no timer is ever lost that a pulser needs, and none runs for a   *)
(* line the device does not have.                                          *)
THEOREM TypeCorrect == Spec => []TypeOK
<1>1. IInv => TypeOK
  BY DEF IInv
<1> QED
  BY <1>1, OutputsInOrder, PTL

(* revertData() always switches its line off, whatever pulsers, watchdogs  *)
(* and reloads have done to the line.                                      *)
THEOREM RevertsSwitchOff == Spec => []PendingIsOn
<1>1. IInv => PendingIsOn
  BY DEF IInv
<1> QED
  BY <1>1, OutputsInOrder, PTL

(* The pulse of a watchdog ends in time on a line without a pulser.        *)
THEOREM PulsesEnd == Spec => []PulseEnds
<1>1. ASSUME IInv PROVE PulseEnds
  <2> SUFFICES ASSUME NEW l \in Lines \ PulserLines,
                      pulsed[l], since[l] > PulseLen + MaxLate
               PROVE  ~output[l]
    BY DEF PulseEnds
  <2>1. Timed(l) /\ since[l] \in Nat
    BY <1>1 DEF IInv, TypeOK
  <2>2. Pending(l) => timers[RevertTimer(l)] \in Int
                      /\ timers[RevertTimer(l)] >= -MaxLate
    BY <1>1 DEF IInv, TypeOK, Pending
  <2> QED
    BY <2>1, <2>2, GpioOutputAssumption DEF Timed
<1> QED
  BY <1>1, OutputsInOrder, PTL

(* No step switches off a line without a pulser before its pulse has       *)
(* lasted its full second.                                                 *)
LEMMA StepFullPulse ==
  ASSUME IInv, [Next]_vars, NEW l \in Lines \ PulserLines,
         output[l], ~output'[l]
  PROVE  pulsed[l] /\ since[l] >= PulseLen
<1>1. PICK k \in Lines : RevertData(k) /\ k = l
  <2>1. ASSUME NEW k \in Lines, RevertData(k) PROVE k = l
    BY <2>1 DEF RevertData, GpoDrive
  <2>2. ASSUME NEW k \in PulserLines, PulserTimeoutData(k) PROVE FALSE
    BY <2>2 DEF PulserTimeoutData, GpoDrive
  <2>3. ASSUME NEW L \in SUBSET AlarmLines, WatchdogPulse(L) PROVE FALSE
    BY <2>3 DEF WatchdogPulse, GpoDrive
  <2>4. ~(Tick \/ Reload \/ UNCHANGED vars)
    BY DEF Tick, Reload, vars
  <2> QED
    BY <2>1, <2>2, <2>3, <2>4 DEF Next, Handler
<1>2. /\ RevertTimer(l) \in DOMAIN timers
      /\ timers[RevertTimer(l)] <= 0 /\ timers[RevertTimer(l)] \in Int
  BY <1>1 DEF RevertData, DueFirst, IInv, TypeOK
<1>3. Timed(l) /\ since[l] \in Nat
  BY DEF IInv, TypeOK
<1> QED
  BY <1>2, <1>3, GpioOutputAssumption DEF Timed, Pending

(* A pulse is never cut short on a line without a pulser. *)
THEOREM PulsesAreFull == Spec => FullPulse
<1>1. IInv /\ [Next]_vars =>
        [\A l \in Lines \ PulserLines :
           output[l] /\ ~output'[l] => pulsed[l] /\ since[l] >= PulseLen]_vars
  BY StepFullPulse
<1> QED
  BY <1>1, OutputsInOrder, PTL DEF Spec, FullPulse

-----------------------------------------------------------------------------
(* A watchdog in alarm has announced it and is not timed, so that its next *)
(* pulse is that of its reset, and its next alarm comes after one.         *)
Announced(w) ==
  active[w] => told[w] = "alarm" /\ W!TimeoutTimer(w) \notin DOMAIN dogTimers

LogInv ==
  /\ active \in [Dogs -> BOOLEAN]
  /\ told \in [Dogs -> {"ok", "alarm"}]
  /\ \A w \in Dogs : Announced(w)

-----------------------------------------------------------------------------
(* No two timers share a name. *)
LEMMA DogTimerNames ==
  \A v, w : /\ W!TimeoutTimer(v) = W!TimeoutTimer(w) <=> v = w
            /\ W!TimeoutTimer(v) # W!RestartTimer(w)
            /\ W!TimeoutTimer(v) # W!StartupTimer
  BY DEF W!TimeoutTimer, W!RestartTimer, W!StartupTimer

(* What a handler pulses is named by some watchdog. *)
LEMMA PulsedLines ==
  /\ AlarmLines \subseteq Lines
  /\ \A w \in Dogs : AlarmPulse(w) \subseteq AlarmLines
  /\ \A D : D \subseteq Dogs => ResetPulses(D) \subseteq AlarmLines
  BY GpiLogAssumption DEF AlarmPulse, ResetPulses

(* What UpdateWatchdog() does to the watchdogs, and what is pulsed for it. *)
LEMMA UpdateStep ==
  ASSUME LogInv, NEW D \in SUBSET Dogs, NEW ts, DOMAIN ts = DOMAIN dogTimers,
         W!UpdateWatchdog(D, ts), Pulse(ResetPulses(D))
  PROVE  /\ active' \in [Dogs -> BOOLEAN]
         /\ told' \in [Dogs -> {"ok", "alarm"}]
         /\ \A w \in Dogs : Announced(w)'
         /\ {w \in Dogs : ~active[w] /\ active'[w]} = {}
         /\ {w \in Dogs : told[w] = "alarm" /\ told'[w] = "ok"} =
              {w \in D : active[w]}
<1>1. /\ active' = [w \in Dogs |-> active[w] /\ w \notin D]
      /\ told' = [w \in Dogs |-> IF w \in D /\ active[w] THEN "ok" ELSE told[w]]
      /\ DOMAIN dogTimers' =
           DOMAIN dogTimers \cup {W!TimeoutTimer(w) : w \in D}
  BY DEF W!UpdateWatchdog
<1>2. ASSUME NEW w \in Dogs
      PROVE  Announced(w)'
  <2>1. CASE w \in D
    BY <1>1, <2>1 DEF Announced
  <2>2. CASE w \notin D
    <3>1. /\ active'[w] = active[w] /\ told'[w] = told[w]
          /\ W!TimeoutTimer(w) \notin {W!TimeoutTimer(v) : v \in D}
      BY <1>1, <2>2, DogTimerNames DEF LogInv
    <3>2. Announced(w)
      BY DEF LogInv
    <3>3. W!TimeoutTimer(w)' = W!TimeoutTimer(w)
      BY DEF W!TimeoutTimer
    <3> QED
      BY <1>1, <3>1, <3>2, <3>3 DEF Announced
  <2> QED
    BY <2>1, <2>2
<1> QED
  BY <1>1, <1>2 DEF LogInv, Announced

(* Pulsing lines switches them on, and no other. *)
LEMMA PulseStep ==
  ASSUME IInv, NEW L \in SUBSET Lines, Pulse(L)
  PROVE  output' = [l \in Lines |-> l \in L \/ output[l]]
<1>1. output = [l \in Lines |-> output[l]]
  BY DEF IInv, TypeOK
<1>2. \A l \in Lines : output[l] \in BOOLEAN
  BY DEF IInv, TypeOK
<1> QED
  BY <1>1, <1>2 DEF Pulse, vars, WatchdogPulse, GpoDrive

-----------------------------------------------------------------------------
Alarmed == {w \in Dogs : ~active[w] /\ active'[w]}
Reset == {w \in Dogs : told[w] = "alarm" /\ told'[w] = "ok"}

(* What PulsesAnnounce says of one step. *)
Announces ==
  LET named == ({TimeoutLine[w] : w \in Alarmed}
                  \cup {ResetLine[w] : w \in Reset}) \ {NoLine}
  IN  /\ \A l \in named : output'[l]
      /\ \A l \in Lines : ~output[l] /\ output'[l] /\ PulsePeriod[l] = 0
                           => l \in named

(* A step that leaves the watchdogs as they are, or ends their alarms      *)
(* unannounced, and switches no line on that has no pulser.                *)
LEMMA QuietStep ==
  ASSUME LogInv, told' = told, active' \in [Dogs -> BOOLEAN],
         \A w \in Dogs : active'[w] => active[w],
         \A l \in Lines : ~output[l] /\ output'[l] => PulsePeriod[l] # 0
  PROVE  Announces
<1>1. Alarmed = {} /\ Reset = {}
  BY DEF Alarmed, Reset
<1> QED
  BY <1>1 DEF Announces

(* A step that pulses the lines of the alarms and the resets it announces. *)
LEMMA PulsingStep ==
  ASSUME NEW L \in SUBSET Lines,
         output' = [l \in Lines |-> l \in L \/ output[l]],
         L = ({TimeoutLine[w] : w \in Alarmed}
                \cup {ResetLine[w] : w \in Reset}) \ {NoLine}
  PROVE  Announces
  BY DEF Announces

(* inputTimerData() and watchdogScanData().                                *)
LEMMA FeedingStep ==
  ASSUME IInv, LogInv,
         NEW D \in SUBSET Dogs, NEW ts, DOMAIN ts = DOMAIN dogTimers,
         W!UpdateWatchdog(D, ts), Pulse(ResetPulses(D))
  PROVE  LogInv' /\ Announces
<1>1. /\ ResetPulses(D) \in SUBSET Lines
      /\ ResetPulses(D) =
           {ResetLine[w] : w \in {v \in D : active[v]}} \ {NoLine}
  BY PulsedLines DEF ResetPulses
<1>2. LogInv'
  BY UpdateStep DEF LogInv
<1>3. Alarmed = {} /\ Reset = {w \in D : active[w]}
  BY UpdateStep DEF Alarmed, Reset
<1> QED
  BY <1>1, <1>2, <1>3, PulseStep, PulsingStep

(* An expiry inside a slot is announced, one outside is dropped.           *)
LEMMA TimeoutStep ==
  ASSUME IInv, LogInv, NEW w \in Dogs, WatchdogTimeoutData(w)
  PROVE  LogInv' /\ Announces
<1>1. /\ AlarmPulse(w) \in SUBSET Lines
      /\ Pulse(AlarmPulse(w))
  BY PulsedLines DEF WatchdogTimeoutData
<1>2. /\ W!TimeoutTimer(w) \in DOMAIN dogTimers
      /\ DOMAIN dogTimers' = DOMAIN dogTimers \ {W!TimeoutTimer(w)}
  BY DEF WatchdogTimeoutData, W!WatchdogTimeoutData, W!DueFirst, W!Stopped
<1>3. ~active[w]
  BY <1>2 DEF LogInv, Announced
<1>T. \A v : W!TimeoutTimer(v)' = W!TimeoutTimer(v)
  BY DEF W!TimeoutTimer
<1>S. W!SlotActive(Slots[w], now) <=> SlotActive(Slots[w], now)
  BY DEF SlotActive, W!SlotActive
<1>4. CASE SlotActive(Slots[w], now)
  <2>1. /\ active' = [active EXCEPT ![w] = TRUE]
        /\ told' = [told EXCEPT ![w] = "alarm"]
    BY <1>4, <1>S DEF WatchdogTimeoutData, W!WatchdogTimeoutData
  <2>2. ASSUME NEW v \in Dogs, active'[v]
        PROVE  /\ told'[v] = "alarm"
               /\ W!TimeoutTimer(v) \notin DOMAIN dogTimers'
    BY <1>2, <2>1, <2>2 DEF LogInv, Announced
  <2>3. LogInv'
    <3>1. \A v \in Dogs : Announced(v)'
      BY <1>T, <2>2 DEF Announced
    <3> QED
      BY <2>1, <3>1 DEF LogInv
  <2>4. Alarmed = {w} /\ Reset = {}
    BY <1>3, <2>1 DEF LogInv, Alarmed, Reset
  <2>5. AlarmPulse(w) = {TimeoutLine[w]} \ {NoLine}
    BY <1>4 DEF AlarmPulse
  <2> QED
    BY <1>1, <2>3, <2>4, <2>5, PulseStep, PulsingStep
<1>5. CASE ~SlotActive(Slots[w], now)
  <2>1. active' = active /\ told' = told
    BY <1>5, <1>S DEF WatchdogTimeoutData, W!WatchdogTimeoutData
  <2>2. ASSUME NEW v \in Dogs, active'[v]
        PROVE  /\ told'[v] = "alarm"
               /\ W!TimeoutTimer(v) \notin DOMAIN dogTimers'
    BY <1>2, <2>1, <2>2 DEF LogInv, Announced
  <2>3. LogInv'
    <3>1. \A v \in Dogs : Announced(v)'
      BY <1>T, <2>2 DEF Announced
    <3> QED
      BY <2>1, <3>1 DEF LogInv
  <2>4. AlarmPulse(w) = {}
    BY <1>5 DEF AlarmPulse
  <2>5. output' = output
    BY <1>1, <2>4 DEF Pulse, vars
  <2> QED
    BY <2>1, <2>3, <2>5, QuietStep DEF LogInv
<1> QED
  BY <1>4, <1>5

(* The startup timer, and the restart of a watchdog, which drops an alarm  *)
(* and tells nobody.                                                       *)
LEMMA SilentStep ==
  ASSUME LogInv, SilentData
  PROVE  LogInv' /\ Announces
<1>2. output' = output
  BY DEF SilentData, vars
<1>T. \A v : W!TimeoutTimer(v)' = W!TimeoutTimer(v)
  BY DEF W!TimeoutTimer
<1>3. CASE W!StartupTimeoutData
  <2>1. /\ active' = active /\ told' = told
        /\ DOMAIN dogTimers' \subseteq DOMAIN dogTimers
    BY <1>3 DEF W!StartupTimeoutData, W!Stopped
  <2>2. \A v \in Dogs : Announced(v)'
    BY <1>T, <2>1 DEF LogInv, Announced
  <2> QED
    BY <1>2, <2>1, <2>2, QuietStep DEF LogInv
<1>4. ASSUME NEW w \in Dogs, W!WatchdogRestartData(w)
      PROVE  LogInv' /\ Announces
  <2>1. /\ active' = [active EXCEPT ![w] = FALSE] /\ told' = told
        /\ DOMAIN dogTimers' =
             DOMAIN dogTimers \cup {W!TimeoutTimer(w), W!RestartTimer(w)}
    BY <1>4 DEF W!WatchdogRestartData, W!Started
  <2>2. \A v \in Dogs : Announced(v)'
    <3>1. ASSUME NEW v \in Dogs, active'[v]
          PROVE  told'[v] = "alarm" /\ W!TimeoutTimer(v) \notin DOMAIN dogTimers'
      <4>1. v # w /\ active[v]
        BY <2>1, <3>1 DEF LogInv
      <4> QED
        BY <2>1, <4>1, DogTimerNames DEF LogInv, Announced
    <3> QED
      BY <1>T, <3>1 DEF Announced
  <2> QED
    BY <1>2, <2>1, <2>2, QuietStep DEF LogInv
<1> QED
  BY <1>3, <1>4 DEF SilentData

(* The reversions and the pulsers.                                         *)
LEMMA OutputStep ==
  ASSUME IInv, LogInv, Handler, UNCHANGED dogVars
  PROVE  LogInv' /\ Announces
<1>1. active' = active /\ told' = told /\ dogTimers' = dogTimers
  BY DEF dogVars
<1>T. \A v : W!TimeoutTimer(v)' = W!TimeoutTimer(v)
  BY DEF W!TimeoutTimer
<1>2. LogInv'
  BY <1>1, <1>T DEF LogInv, Announced
<1>3. ASSUME NEW l \in Lines, ~output[l], output'[l]
      PROVE  PulsePeriod[l] # 0
  <2>1. ASSUME NEW k \in Lines, RevertData(k)
        PROVE  FALSE
    <3>1. output[k]
      BY <2>1 DEF IInv, PendingIsOn, Pending, RevertData, DueFirst
    <3>2. output'[l] = IF l = k THEN ~output[k] ELSE output[l]
      BY <2>1 DEF RevertData, GpoDrive
    <3> QED
      BY <1>3, <3>1, <3>2
  <2>2. ASSUME NEW k \in PulserLines, PulserTimeoutData(k)
        PROVE  PulsePeriod[l] # 0
    <3>1. l = k
      BY <1>3, <2>2 DEF PulserTimeoutData, GpoDrive
    <3> QED
      BY <3>1, GpioOutputAssumption DEF PulserLines
  <2> QED
    BY <2>1, <2>2 DEF Handler
<1> QED
  BY <1>1, <1>2, <1>3, QuietStep DEF LogInv

(* Time, a reload and an input line.                                       *)
LEMMA OutsideStep ==
  ASSUME LogInv,
         \/ LogTick
         \/ LogReload
         \/ \E p \in Pins : W!LineChange(p) /\ UNCHANGED vars
  PROVE  LogInv' /\ Announces
<1>T. \A v : W!TimeoutTimer(v)' = W!TimeoutTimer(v)
  BY DEF W!TimeoutTimer
<1>1. output' = output
  BY DEF LogTick, LogReload, Tick, Reload, vars
<1>2. CASE LogTick
  <2>1. /\ active' = active /\ told' = told
        /\ DOMAIN dogTimers' = DOMAIN dogTimers
    BY <1>2 DEF LogTick, W!Tick, W!Elapsed
  <2>2. LogInv'
    BY <1>T, <2>1 DEF LogInv, Announced
  <2> QED
    BY <1>1, <2>1, <2>2, QuietStep DEF LogInv
<1>3. CASE LogReload
  <2>1. active' = [w \in Dogs |-> FALSE] /\ told' = told
    BY <1>3 DEF LogReload, W!Reload
  <2>2. LogInv'
    BY <2>1 DEF LogInv, Announced
  <2> QED
    BY <1>1, <2>1, <2>2, QuietStep DEF LogInv
<1>4. ASSUME NEW p \in Pins, W!LineChange(p)
      PROVE  LogInv' /\ Announces
  <2>1. active' = active /\ told' = told /\ dogTimers' = dogTimers
    BY <1>4 DEF W!LineChange
  <2>2. LogInv'
    BY <1>T, <2>1 DEF LogInv, Announced
  <2> QED
    BY <1>1, <2>1, <2>2, QuietStep DEF LogInv
<1> QED
  BY <1>2, <1>3, <1>4

-----------------------------------------------------------------------------
(* Each step keeps the invariant and announces what it should.             *)
LEMMA StepAnnounces ==
  IInv /\ LogInv /\ [LogNext]_logVars =>
    LogInv' /\ (Announces \/ UNCHANGED logVars)
<1> SUFFICES ASSUME IInv, LogInv, [LogNext]_logVars
             PROVE  LogInv' /\ (Announces \/ UNCHANGED logVars)
  OBVIOUS
<1>1. CASE InputTimerData
  <2> DEFINE D == IF W!Connected THEN W!TransitionDogs ELSE {}
             ts == W!Rearmed(dogTimers, W!InputTimer, PollPeriod)
  <2>1. D \in SUBSET Dogs /\ DOMAIN ts = DOMAIN dogTimers
    BY DEF W!TransitionDogs, W!Rearmed
  <2>2. W!UpdateWatchdog(D, ts) /\ Pulse(ResetPulses(D))
    BY <1>1 DEF InputTimerData, W!InputTimerData
  <2> HIDE DEF D, ts
  <2> QED
    BY <2>1, <2>2, FeedingStep
<1>2. CASE WatchdogScanData
  <2> DEFINE D == {w \in Dogs : W!NormalNow(w)}
             ts == W!Rearmed(dogTimers, W!ScanTimer, ScanPeriod)
  <2>1. D \in SUBSET Dogs /\ DOMAIN ts = DOMAIN dogTimers
    BY DEF W!Rearmed
  <2>2. W!UpdateWatchdog(D, ts) /\ Pulse(ResetPulses(D))
    BY <1>2 DEF WatchdogScanData, W!WatchdogScanData
  <2> HIDE DEF D, ts
  <2> QED
    BY <2>1, <2>2, FeedingStep
<1>3. CASE UNCHANGED logVars
  <2>1. active' = active /\ told' = told /\ dogTimers' = dogTimers
    BY <1>3 DEF logVars, dogVars
  <2>2. \A v : W!TimeoutTimer(v)' = W!TimeoutTimer(v)
    BY DEF W!TimeoutTimer
  <2>3. LogInv'
    BY <2>1, <2>2 DEF LogInv, Announced
  <2> QED
    BY <1>3, <2>3
<1> QED
  BY <1>1, <1>2, <1>3, TimeoutStep, SilentStep, OutputStep, OutsideStep
  DEF LogNext, LogHandler

-----------------------------------------------------------------------------
(* In the daemon the watchdogs do nothing that module Watchdog does not    *)
(* describe: neither the lines nor the loop they share changes them.       *)
THEOREM WatchdogsOnTheirOwn == LogSpec => W!Spec
<1>1. LogInit => W!Init
  BY DEF LogInit
<1>2. [LogNext]_logVars => [W!Next]_(W!vars)
  BY DEF LogNext, logVars, dogVars, W!vars, W!Next, W!Handler, LogHandler,
         InputTimerData, WatchdogScanData, WatchdogTimeoutData, SilentData,
         LogReload, LogTick
<1> QED
  BY <1>1, <1>2, PTL DEF LogSpec, W!Spec

(* The output lines do nothing that module GpioOutput does not describe:   *)
(* what the watchdogs pulse is always one of the lines named for them.     *)
THEOREM OutputsOnTheirOwn == LogSpec => Spec
<1>1. LogInit => Init
  BY DEF LogInit
<1>2. ASSUME NEW L \in SUBSET AlarmLines, Pulse(L)
      PROVE  [Next]_vars
  BY <1>2 DEF Pulse, Next
<1>3. [LogNext]_logVars => [Next]_vars
  <2> SUFFICES ASSUME [LogNext]_logVars PROVE [Next]_vars
    OBVIOUS
  <2>1. CASE LogHandler
    <3>1. CASE Handler
      BY <3>1 DEF Next
    <3>2. CASE InputTimerData \/ WatchdogScanData
      <4>1. /\ W!TransitionDogs \subseteq Dogs
            /\ {} \subseteq Dogs
            /\ {w \in Dogs : W!NormalNow(w)} \subseteq Dogs
        BY DEF W!TransitionDogs
      <4> QED
        BY <1>2, <3>2, <4>1, PulsedLines DEF InputTimerData, WatchdogScanData
    <3>3. ASSUME NEW w \in Dogs, WatchdogTimeoutData(w)
          PROVE  [Next]_vars
      BY <1>2, <3>3, PulsedLines DEF WatchdogTimeoutData
    <3>4. CASE SilentData
      BY <3>4 DEF SilentData
    <3> QED
      BY <2>1, <3>1, <3>2, <3>3, <3>4 DEF LogHandler
  <2>2. CASE ~LogHandler
    BY <2>2 DEF LogNext, LogTick, LogReload, Next, logVars
  <2> QED
    BY <2>1, <2>2
<1> QED
  BY <1>1, <1>3, PTL DEF LogSpec, Spec

(* So in the daemon too, whatever its watchdogs and their reloads do, each *)
(* reversion switches its line off, and on a line without a pulser the     *)
(* pulse of an alarm or a reset is never cut short and ends in time.       *)
THEOREM DaemonPulses ==
  LogSpec => []PendingIsOn /\ []PulseEnds /\ FullPulse
  BY OutputsOnTheirOwn, RevertsSwitchOff, PulsesEnd, PulsesAreFull, PTL

LEMMA LogInitInv == LogInit => LogInv
  BY DEF LogInit, W!Init, LogInv, Announced

(* A line without a pulser goes on only to announce an alarm or a reset of *)
(* some watchdog, on the line that watchdog names (watchdogTimeoutData()   *)
(* and UpdateWatchdog() in gpilog.cpp).                                    *)
THEOREM LinesAnnounce == LogSpec => PulsesAnnounce
<1>1. Announces =>
        LET alarmed == {w \in Dogs : ~active[w] /\ active'[w]}
            reset   == {w \in Dogs : told[w] = "alarm" /\ told'[w] = "ok"}
            named   == ({TimeoutLine[w] : w \in alarmed}
                          \cup {ResetLine[w] : w \in reset}) \ {NoLine}
        IN  /\ \A l \in named : output'[l]
            /\ \A l \in Lines : ~output[l] /\ output'[l] /\ PulsePeriod[l] = 0
                                 => l \in named
  BY DEF Announces, Alarmed, Reset
<1>2. LogSpec => []IInv
  BY OutputsOnTheirOwn, OutputsInOrder, PTL
<1> QED
  BY <1>1, <1>2, LogInitInv, StepAnnounces, PTL DEF LogSpec, PulsesAnnounce
=============================================================================

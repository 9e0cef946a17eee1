--------------------------- MODULE WatchdogProofs ---------------------------
(***************************************************************************)
(* Proofs about Watchdog, for any set of watchdogs, lines, timeouts and    *)
(* slots: type correctness, PromptAlarm, ResetHasCause, NormalQuiet and    *)
(* the refinement of AlarmContract.                                        *)
(*                                                                         *)
(* PromptAlarm is not inductive: whether a silent watchdog raises its      *)
(* alarm depends on where its two timers stand.  IInv adds that.  What an  *)
(* alarm excludes, where the restarts are aimed and how the scan keeps     *)
(* ahead of the timeout is RestInv, inductive beside IInv.                 *)
(***************************************************************************)
EXTENDS Watchdog, WellFoundedInduction, TLAPS

Counting(w) == TimeoutTimer(w) \in DOMAIN timers

(* A running timeout timer and the time since the last feed add up.        *)
Clock(w) ==
  Counting(w) => timers[TimeoutTimer(w)] + unfed[w] = Timeout[w]

(* The restart timer always runs, and runs out by midnight. *)
Planned(w) ==
  /\ RestartTimer(w) \in DOMAIN timers
  /\ now + timers[RestartTimer(w)] <= DayLen

(* The restart that the start of slot i calls for is still to come. *)
DueBy(w, i) == now + timers[RestartTimer(w)] <= Slots[w][i].start

(* Every slot still to come will restart the watchdog; in one that has     *)
(* come the watchdog was restarted, and counts or is in alarm.             *)
Covered(w, i) ==
  /\ now < Slots[w][i].start => DueBy(w, i)
  /\ now = Slots[w][i].start =>
       DueBy(w, i) \/ (Counting(w) /\ timers[TimeoutTimer(w)] > 0)
  /\ Slots[w][i].start < now /\ now < Slots[w][i].end =>
       DueBy(w, i) \/ Counting(w) \/ active[w]

AllCovered(w) ==
  InOrder(w) /\ ~midnight[w] => \A i \in DOMAIN Slots[w] : Covered(w, i)

DogInv(w) == Clock(w) /\ Planned(w) /\ AllCovered(w)

IInv == TypeOK /\ \A w \in Dogs : DogInv(w)

-----------------------------------------------------------------------------
(* Every non-empty set of natural numbers has a least one. *)
LEMMA LeastExists ==
  ASSUME NEW S \in SUBSET Nat, S # {}
  PROVE  \E m \in S : \A n \in S : m <= n
<1>1. \E m \in S : \A n \in S : <<n, m>> \notin OpToRel(<, Nat)
  BY NatLessThanWellFounded, WFMin, Zenon
<1>2. PICK m \in S : \A n \in S : <<n, m>> \notin OpToRel(<, Nat)
  BY <1>1
<1>3. \A n \in S : ~(n < m)
  BY <1>2 DEF OpToRel
<1> QED
  BY <1>3

(* No two timers share a name. *)
LEMMA TimerNames ==
  ASSUME NEW v \in Dogs, NEW w \in Dogs
  PROVE  /\ TimeoutTimer(v) = TimeoutTimer(w) <=> v = w
         /\ RestartTimer(v) = RestartTimer(w) <=> v = w
         /\ TimeoutTimer(v) # RestartTimer(w)
         /\ TimeoutTimer(w) \notin {InputTimer, ScanTimer, StartupTimer}
         /\ RestartTimer(w) \notin {InputTimer, ScanTimer, StartupTimer}
         /\ TimeoutTimer(w)[2] = w /\ RestartTimer(w)[2] = w
BY DEF TimeoutTimer, RestartTimer, InputTimer, ScanTimer, StartupTimer

(* Nor do the three timers of the process itself. *)
LEMMA ProcessTimerNames ==
  /\ InputTimer # ScanTimer /\ InputTimer # StartupTimer
  /\ ScanTimer # StartupTimer
BY DEF InputTimer, ScanTimer, StartupTimer

(* The slots of a watchdog hold times of day. *)
LEMMA SlotTimes ==
  ASSUME NEW w \in Dogs, NEW i \in DOMAIN Slots[w]
  PROVE  /\ i \in Nat
         /\ Slots[w][i].start \in Nat /\ Slots[w][i].start < DayLen
         /\ Slots[w][i].end \in Nat
<1>1. Slots[w] \in Seq(Slot)
  BY WatchdogAssumption
<1>2. i \in Nat /\ Slots[w][i] \in Slot
  BY <1>1
<1> QED
  BY <1>2, DayLenAssumption DEF Slot, TimeOfDay

(* nextRestart() is a delay of one tick to one day that ends by midnight.  *)
LEMMA NextRestartBound ==
  ASSUME NEW w \in Dogs, NEW t \in TimeOfDay
  PROVE  /\ NextRestart(Slots[w], t) \in Int
         /\ NextRestart(Slots[w], t) > 0
         /\ t + NextRestart(Slots[w], t) <= DayLen
<1> DEFINE later == LaterSlots(Slots[w], t)
           first == CHOOSE i \in later : \A j \in later : i <= j
<1>2. later \in SUBSET Nat
  BY SlotTimes DEF LaterSlots
<1>3. CASE t > 0 /\ later # {}
  <2>1. first \in later
    BY <1>2, <1>3, LeastExists
  <2> HIDE DEF first
  <2>2. first \in DOMAIN Slots[w] /\ t < Slots[w][first].start
    BY <2>1 DEF LaterSlots
  <2>3. NextRestart(Slots[w], t) = Slots[w][first].start - t
    BY <1>3 DEF NextRestart, first
  <2> QED
    BY <2>2, <2>3, SlotTimes, DayLenAssumption DEF TimeOfDay
<1>4. CASE ~(t > 0 /\ later # {})
  <2>1. NextRestart(Slots[w], t) = DayLen - t
    BY <1>4 DEF NextRestart
  <2> QED
    BY <2>1, DayLenAssumption DEF TimeOfDay
<1> QED
  BY <1>3, <1>4

(* Away from midnight and with the slots listed in order, nextRestart()    *)
(* ends no later than the start of any slot still to come.                 *)
LEMMA NextRestartCovers ==
  ASSUME NEW w \in Dogs, NEW t \in TimeOfDay, t # 0, InOrder(w),
         NEW i \in DOMAIN Slots[w], t < Slots[w][i].start
  PROVE  t + NextRestart(Slots[w], t) <= Slots[w][i].start
<1> DEFINE later == LaterSlots(Slots[w], t)
           first == CHOOSE k \in later : \A j \in later : k <= j
<1>1. later \in SUBSET Nat /\ i \in later
  BY SlotTimes DEF LaterSlots
<1>2. first \in later /\ first <= i
  BY <1>1, LeastExists
<1>3. NextRestart(Slots[w], t) = Slots[w][first].start - t
  BY <1>1, DayLenAssumption DEF NextRestart, TimeOfDay
<1> HIDE DEF first
<1>4. first \in DOMAIN Slots[w]
  BY <1>2 DEF LaterSlots
<1>5. Slots[w][first].start <= Slots[w][i].start
  BY <1>2, <1>4, SlotTimes DEF InOrder
<1> QED
  BY <1>3, <1>4, <1>5, SlotTimes, DayLenAssumption DEF TimeOfDay

-----------------------------------------------------------------------------
(* What Init() leaves in the timers. *)
LEMMA StartTimersFacts ==
  ASSUME NEW t \in TimeOfDay
  PROVE  /\ StartTimers(t) \in [AllTimers -> Int]
         /\ \A u \in AllTimers : StartTimers(t)[u] > 0
         /\ \A w \in Dogs :
              /\ StartTimers(t)[TimeoutTimer(w)] = Timeout[w]
              /\ StartTimers(t)[RestartTimer(w)] = NextRestart(Slots[w], t)
<1>1. \A u \in {InputTimer, ScanTimer, StartupTimer} :
        u \in AllTimers /\ u \notin TimeoutTimers /\ u \notin RestartTimers
  BY TimerNames DEF AllTimers, TimeoutTimers, RestartTimers
<1>2. /\ StartDelay(InputTimer, t) = PollPeriod
      /\ StartDelay(ScanTimer, t) = ScanPeriod
      /\ StartDelay(StartupTimer, t) = StartupDelay
  BY <1>1, ProcessTimerNames DEF StartDelay
<1>3. ASSUME NEW w \in Dogs
      PROVE  /\ StartDelay(TimeoutTimer(w), t) = Timeout[w]
             /\ StartDelay(RestartTimer(w), t) = NextRestart(Slots[w], t)
  <2>1. /\ TimeoutTimer(w) \in TimeoutTimers
        /\ RestartTimer(w) \in RestartTimers
        /\ RestartTimer(w) \notin TimeoutTimers
        /\ TimeoutTimer(w) \notin RestartTimers
        /\ {TimeoutTimer(w), RestartTimer(w)} \subseteq AllTimers
    BY TimerNames DEF TimeoutTimers, RestartTimers, AllTimers
  <2>2. /\ TimeoutTimer(w) \notin {InputTimer, ScanTimer, StartupTimer}
        /\ RestartTimer(w) \notin {InputTimer, ScanTimer, StartupTimer}
    BY TimerNames
  <2>3. TimeoutTimer(w)[2] = w /\ RestartTimer(w)[2] = w
    BY TimerNames
  <2>4. StartDelay(TimeoutTimer(w), t) = Timeout[TimeoutTimer(w)[2]]
    BY <2>1, <2>2 DEF StartDelay
  <2>5. StartDelay(RestartTimer(w), t)
          = NextRestart(Slots[RestartTimer(w)[2]], t)
    BY <2>1, <2>2 DEF StartDelay
  <2> QED
    BY <2>3, <2>4, <2>5
<1>4. ASSUME NEW u \in AllTimers
      PROVE  StartDelay(u, t) \in Int /\ StartDelay(u, t) > 0
  <2>1. CASE u \in {InputTimer, ScanTimer, StartupTimer}
    <3>1. \A n \in {PollPeriod, ScanPeriod, StartupDelay} :
            n \in Int /\ n > 0
      BY WatchdogAssumption
    <3> QED
      BY <1>2, <2>1, <3>1
  <2>2. ASSUME NEW w \in Dogs, u = TimeoutTimer(w)
        PROVE  StartDelay(u, t) \in Int /\ StartDelay(u, t) > 0
    BY <1>3, <2>2, WatchdogAssumption
  <2>3. ASSUME NEW w \in Dogs, u = RestartTimer(w)
        PROVE  StartDelay(u, t) \in Int /\ StartDelay(u, t) > 0
    BY <1>3, <2>3, NextRestartBound
  <2> QED
    BY <2>1, <2>2, <2>3 DEF AllTimers, TimeoutTimers, RestartTimers
<1> QED
  BY <1>3, <1>4 DEF StartTimers, AllTimers, TimeoutTimers, RestartTimers

(* Whatever starts both timers of a watchdog afresh leaves it covered. *)
LEMMA ArmedNext ==
  ASSUME NEW w \in Dogs,
         now' \in TimeOfDay,
         {TimeoutTimer(w), RestartTimer(w)} \subseteq DOMAIN timers',
         timers'[TimeoutTimer(w)] = Timeout[w],
         timers'[RestartTimer(w)] = NextRestart(Slots[w], now'),
         unfed'[w] = 0,
         midnight'[w] = (now' = 0)
  PROVE  DogInv(w)'
<1>1. Timeout[w] \in Nat /\ Timeout[w] > 0
  BY WatchdogAssumption
<1>2. Clock(w)'
  BY <1>1 DEF Clock
<1>3. Planned(w)'
  BY NextRestartBound DEF Planned
<1>4. AllCovered(w)'
  BY <1>1, NextRestartCovers, SlotTimes
     DEF AllCovered, Covered, DueBy, Counting, InOrder
<1> QED
  BY <1>2, <1>3, <1>4 DEF DogInv

(* A step that leaves the restart timer alone and feeds the watchdog. *)
LEMMA FedNext ==
  ASSUME NEW w \in Dogs, IInv,
         now' = now, midnight'[w] = midnight[w],
         {TimeoutTimer(w), RestartTimer(w)} \subseteq DOMAIN timers',
         timers'[TimeoutTimer(w)] = Timeout[w],
         timers'[RestartTimer(w)] = timers[RestartTimer(w)],
         unfed'[w] = 0
  PROVE  DogInv(w)'
<1>1. Timeout[w] \in Nat /\ Timeout[w] > 0
  BY WatchdogAssumption
<1>2. Clock(w)'
  BY <1>1 DEF Clock
<1>3. Planned(w)'
  BY DEF Planned, IInv, DogInv
<1>4. AllCovered(w)'
  <2> SUFFICES ASSUME InOrder(w), ~midnight[w], NEW i \in DOMAIN Slots[w]
               PROVE  Covered(w, i)'
    BY DEF AllCovered, InOrder
  <2>1. Covered(w, i)
    BY DEF IInv, DogInv, AllCovered
  <2>2. DueBy(w, i)' <=> DueBy(w, i)
    BY DEF DueBy
  <2> QED
    BY <1>1, <2>1, <2>2 DEF Covered, Counting
<1> QED
  BY <1>2, <1>3, <1>4 DEF DogInv

(* A step that leaves both timers of the watchdog alone. *)
LEMMA KeptNext ==
  ASSUME NEW w \in Dogs, IInv,
         now' = now, midnight'[w] = midnight[w],
         Counting(w)' <=> Counting(w),
         Counting(w) =>
           timers'[TimeoutTimer(w)] = timers[TimeoutTimer(w)],
         RestartTimer(w) \in DOMAIN timers',
         timers'[RestartTimer(w)] = timers[RestartTimer(w)],
         unfed'[w] = unfed[w],
         active[w] => active'[w]
  PROVE  DogInv(w)'
<1>2. Clock(w)'
  BY DEF Clock, IInv, DogInv
<1>3. Planned(w)'
  BY DEF Planned, IInv, DogInv
<1>4. AllCovered(w)'
  <2> SUFFICES ASSUME InOrder(w), ~midnight[w], NEW i \in DOMAIN Slots[w]
               PROVE  Covered(w, i)'
    BY DEF AllCovered, InOrder
  <2>1. Covered(w, i)
    BY DEF IInv, DogInv, AllCovered
  <2>2. DueBy(w, i)' <=> DueBy(w, i)
    BY DEF DueBy
  <2> QED
    BY <2>1, <2>2 DEF Covered
<1> QED
  BY <1>2, <1>3, <1>4 DEF DogInv

-----------------------------------------------------------------------------
(* IInv holds when the daemon has started. *)
LEMMA InitIInv == Init => IInv
<1> SUFFICES ASSUME Init PROVE IInv
  OBVIOUS
<1>1. now \in TimeOfDay
  BY DEF Init
<1>2. /\ DOMAIN timers = AllTimers
      /\ timers \in [AllTimers -> Int]
      /\ \A u \in AllTimers : timers[u] > 0
  BY <1>1, StartTimersFacts DEF Init
<1>3. TypeOK
  BY <1>1, <1>2, WatchdogAssumption DEF Init, TypeOK
<1>4. ASSUME NEW w \in Dogs
      PROVE  DogInv(w)
  <2>1. Timeout[w] \in Nat /\ Timeout[w] > 0
    BY WatchdogAssumption
  <2>2. {TimeoutTimer(w), RestartTimer(w)} \subseteq DOMAIN timers
    BY <1>2 DEF AllTimers, TimeoutTimers, RestartTimers
  <2>3. /\ timers[TimeoutTimer(w)] = Timeout[w]
        /\ timers[RestartTimer(w)] = NextRestart(Slots[w], now)
    BY <1>1, StartTimersFacts DEF Init
  <2>4. unfed[w] = 0 /\ midnight[w] = (now = 0)
    BY DEF Init
  <2>5. Clock(w)
    BY <2>1, <2>3, <2>4 DEF Clock
  <2>6. Planned(w)
    BY <1>1, <2>2, <2>3, NextRestartBound DEF Planned
  <2>7. AllCovered(w)
    BY <1>1, <2>1, <2>2, <2>3, <2>4, NextRestartCovers, SlotTimes
       DEF AllCovered, Covered, DueBy, Counting
  <2> QED
    BY <2>5, <2>6, <2>7 DEF DogInv
<1> QED
  BY <1>3, <1>4 DEF IInv

(* IInv after a SIGHUP: every timer is started afresh. *)
LEMMA ReloadIInv == IInv /\ Reload => IInv'
<1> SUFFICES ASSUME IInv, Reload PROVE IInv'
  OBVIOUS
<1>1. now \in TimeOfDay /\ now' = now
  BY DEF IInv, TypeOK, Reload
<1>2. /\ DOMAIN timers' = AllTimers
      /\ timers' \in [AllTimers -> Int]
      /\ \A u \in AllTimers : timers'[u] > 0
  BY <1>1, StartTimersFacts DEF Reload
<1>3. TypeOK'
  BY <1>1, <1>2, WatchdogAssumption DEF Reload, IInv, TypeOK
<1>4. ASSUME NEW w \in Dogs
      PROVE  DogInv(w)'
  <2>1. {TimeoutTimer(w), RestartTimer(w)} \subseteq DOMAIN timers'
    BY <1>2 DEF AllTimers, TimeoutTimers, RestartTimers
  <2>2. /\ timers'[TimeoutTimer(w)] = Timeout[w]
        /\ timers'[RestartTimer(w)] = NextRestart(Slots[w], now')
    BY <1>1, StartTimersFacts DEF Reload
  <2>3. unfed'[w] = 0 /\ midnight'[w] = (now' = 0)
    BY <1>1 DEF Reload
  <2> QED
    BY <1>1, <2>1, <2>2, <2>3, ArmedNext
<1> QED
  BY <1>3, <1>4 DEF IInv

(* IInv after an input line has changed: no timer has moved. *)
LEMMA LineChangeIInv ==
  ASSUME NEW p \in Pins
  PROVE  IInv /\ LineChange(p) => IInv'
<1> SUFFICES ASSUME IInv, LineChange(p) PROVE IInv'
  OBVIOUS
<1>1. normal' \in [Dogs -> Nat]
  BY DEF LineChange, IInv, TypeOK
<1>2. TypeOK'
  BY <1>1 DEF LineChange, IInv, TypeOK
<1>3. ASSUME NEW w \in Dogs
      PROVE  DogInv(w)'
  BY KeptNext DEF LineChange, IInv, DogInv, Planned, Counting
<1> QED
  BY <1>2, <1>3 DEF IInv

(* IInv after a tick: the timers and the day move together, and the tick   *)
(* that reaches the start of a slot finds the restart timer due.           *)
LEMMA TickIInv == IInv /\ Tick => IInv'
<1> SUFFICES ASSUME IInv, Tick PROVE IInv'
  OBVIOUS
<1>1. /\ now \in TimeOfDay /\ now' \in TimeOfDay
      /\ now' = IF now = DayLen - 1 THEN 0 ELSE now + 1
  BY DayLenAssumption DEF Tick, IInv, TypeOK, TimeOfDay
<1>2. /\ DOMAIN timers' = DOMAIN timers
      /\ \A u \in DOMAIN timers :
           /\ timers[u] \in Int /\ timers[u] > -MaxLate
           /\ timers'[u] = timers[u] - 1
  BY DEF Tick, IInv, TypeOK, Elapsed, MayElapse
<1>3. unfed' \in [Dogs -> Nat]
  BY DEF Tick, IInv, TypeOK
<1>4. normal' \in [Dogs -> Nat]
  BY DEF Tick, IInv, TypeOK
<1>5. timers' \in [DOMAIN timers -> Int]
  BY <1>2 DEF Tick, Elapsed
<1>6. \A u \in DOMAIN timers' : timers'[u] >= -MaxLate
  BY <1>2, WatchdogAssumption
<1>7. TypeOK'
  BY <1>1, <1>2, <1>3, <1>4, <1>5, <1>6 DEF Tick, IInv, TypeOK
<1>8. ASSUME NEW w \in Dogs
      PROVE  DogInv(w)'
  <2>1. /\ Timeout[w] \in Nat /\ MaxLate \in Nat /\ DayLen \in Nat
        /\ unfed[w] \in Nat /\ now \in Nat
    BY <1>1, WatchdogAssumption, DayLenAssumption
       DEF IInv, TypeOK, TimeOfDay
  <2>2. Clock(w) /\ Planned(w) /\ AllCovered(w)
    BY DEF IInv, DogInv
  <2>3. Counting(w)' <=> Counting(w)
    BY <1>2 DEF Counting
  <2>4. Clock(w)'
    <3>1. unfed'[w] = IF unfed[w] < UnfedCap(w) THEN unfed[w] + 1
                                               ELSE unfed[w]
      BY DEF Tick
    <3> QED
      BY <1>2, <2>1, <2>2, <2>3, <3>1 DEF Clock, Counting, UnfedCap
  <2>5. /\ RestartTimer(w) \in DOMAIN timers'
        /\ timers[RestartTimer(w)] \in Int
        /\ timers'[RestartTimer(w)] = timers[RestartTimer(w)] - 1
    BY <1>2, <2>2 DEF Planned
  <2>6. Planned(w)'
    BY <1>1, <2>1, <2>2, <2>5 DEF Planned
  <2>7. AllCovered(w)'
    <3> SUFFICES ASSUME InOrder(w), ~midnight[w], NEW i \in DOMAIN Slots[w]
                 PROVE  Covered(w, i)'
      BY DEF AllCovered, InOrder, Tick
    <3>1. Covered(w, i)
      BY <2>2 DEF AllCovered
    <3>2. Slots[w][i].start \in Nat /\ Slots[w][i].start < DayLen
      BY SlotTimes
    <3>3. active'[w] = active[w]
      BY DEF Tick
    <3>4. CASE now = DayLen - 1
      <4>1. DueBy(w, i)'
        BY <1>1, <2>1, <2>2, <2>5, <3>2, <3>4 DEF Planned, DueBy
      <4> QED
        BY <1>1, <3>2, <3>4, <4>1 DEF Covered
    <3>5. CASE now # DayLen - 1
      <4>1. now' = now + 1
        BY <1>1, <3>5
      <4>2. DueBy(w, i)' <=> DueBy(w, i)
        BY <2>1, <2>5, <3>2, <4>1 DEF DueBy
      <4>3. CASE now < Slots[w][i].start
        BY <2>1, <3>1, <3>2, <4>1, <4>2, <4>3 DEF Covered
      <4>4. CASE now = Slots[w][i].start
        BY <2>1, <2>3, <3>1, <3>2, <4>1, <4>2, <4>4 DEF Covered
      <4>5. CASE now > Slots[w][i].start /\ now < Slots[w][i].end
        BY <2>1, <2>3, <3>1, <3>2, <3>3, <4>1, <4>2, <4>5 DEF Covered
      <4>6. CASE now >= Slots[w][i].end /\ now > Slots[w][i].start
        BY <2>1, <3>2, <4>1, <4>6, SlotTimes DEF Covered
      <4> QED
        BY <2>1, <3>2, <4>3, <4>4, <4>5, <4>6, SlotTimes
    <3> QED
      BY <3>4, <3>5
  <2> QED
    BY <2>4, <2>6, <2>7 DEF DogInv
<1> QED
  BY <1>7, <1>8 DEF IInv

(* What a handler does that re-arms its own periodic timer and then feeds  *)
(* the watchdogs of D.                                                     *)
LEMMA UpdateWatchdogIInv ==
  ASSUME IInv,
         NEW D \in SUBSET Dogs, NEW t \in {InputTimer, ScanTimer},
         NEW period \in Nat \ {0},
         t \in DOMAIN timers,
         UpdateWatchdog(D, Rearmed(timers, t, period)),
         seen' \in [Pins -> BOOLEAN],
         UNCHANGED <<now, line, normal, midnight>>
  PROVE  IInv'
<1> DEFINE ts == Rearmed(timers, t, period)
           Fed == {TimeoutTimer(w) : w \in D}
<1>1. /\ DOMAIN timers \subseteq AllTimers
      /\ \A u \in DOMAIN timers : timers[u] \in Int /\ timers[u] >= -MaxLate
  BY DEF IInv, TypeOK
<1>2. /\ DOMAIN ts = DOMAIN timers
      /\ \A u \in DOMAIN timers : ts[u] \in Int /\ ts[u] >= -MaxLate
      /\ \A u \in DOMAIN timers : u # t => ts[u] = timers[u]
  BY <1>1, WatchdogAssumption DEF Rearmed
<1> HIDE DEF ts
<1>3. timers' = [u \in DOMAIN ts \cup Fed |->
                   IF \E w \in D : u = TimeoutTimer(w)
                   THEN Timeout[u[2]] ELSE ts[u]]
  BY DEF UpdateWatchdog, ts
<1>4. DOMAIN timers' = DOMAIN timers \cup Fed
  BY <1>2, <1>3
<1>5. ASSUME NEW w \in D
      PROVE  /\ TimeoutTimer(w) \in DOMAIN timers'
             /\ timers'[TimeoutTimer(w)] = Timeout[w]
  <2>1. TimeoutTimer(w)[2] = w
    BY TimerNames
  <2> QED
    BY <1>3, <2>1
<1>6. ASSUME NEW u \in DOMAIN timers, u \notin Fed
      PROVE  timers'[u] = ts[u]
  BY <1>2, <1>3, <1>6
<1>7. \A u \in DOMAIN timers' :
        timers'[u] \in Int /\ timers'[u] >= -MaxLate
  <2>1. \A w \in D : Timeout[w] \in Int /\ Timeout[w] >= -MaxLate
    BY WatchdogAssumption
  <2> QED
    BY <1>2, <1>4, <1>5, <1>6, <2>1
<1>8. TypeOK'
  <2>1. timers' \in [DOMAIN timers' -> Int]
    BY <1>3, <1>4, <1>7
  <2>2. DOMAIN timers' \subseteq AllTimers
    BY <1>1, <1>4 DEF AllTimers, TimeoutTimers
  <2>3. /\ active' \in [Dogs -> BOOLEAN]
        /\ told' \in [Dogs -> {"ok", "alarm"}]
        /\ unfed' \in [Dogs -> Nat]
    BY DEF UpdateWatchdog, IInv, TypeOK
  <2> QED
    BY <1>7, <2>1, <2>2, <2>3 DEF IInv, TypeOK
<1>9. ASSUME NEW w \in Dogs
      PROVE  DogInv(w)'
  <2>1. /\ RestartTimer(w) \in DOMAIN timers
        /\ RestartTimer(w) # t /\ TimeoutTimer(w) # t
        /\ RestartTimer(w) \notin Fed
    BY TimerNames DEF IInv, DogInv, Planned
  <2>2. /\ RestartTimer(w) \in DOMAIN timers'
        /\ timers'[RestartTimer(w)] = timers[RestartTimer(w)]
    BY <1>2, <1>4, <1>6, <2>1
  <2>3. CASE w \in D
    <3>1. unfed'[w] = 0
      BY <2>3 DEF UpdateWatchdog
    <3> QED
      BY <1>5, <2>2, <2>3, <3>1, FedNext
  <2>4. CASE w \notin D
    <3>1. TimeoutTimer(w) \notin Fed
      BY <2>4, TimerNames
    <3>2. Counting(w)' <=> Counting(w)
      BY <1>4, <3>1 DEF Counting
    <3>3. Counting(w) => timers'[TimeoutTimer(w)] = timers[TimeoutTimer(w)]
      BY <1>2, <1>6, <2>1, <3>1 DEF Counting
    <3>4. unfed'[w] = unfed[w] /\ active'[w] = active[w]
      BY <2>4 DEF UpdateWatchdog, IInv, TypeOK
    <3> QED
      BY <2>2, <3>2, <3>3, <3>4, KeptNext
  <2> QED
    BY <2>3, <2>4
<1> QED
  BY <1>8, <1>9 DEF IInv

(* IInv after the poll of the inputs. *)
LEMMA InputTimerDataIInv == IInv /\ InputTimerData => IInv'
<1> SUFFICES ASSUME IInv, InputTimerData PROVE IInv'
  OBVIOUS
<1> DEFINE D == IF Connected THEN TransitionDogs ELSE {}
<1>1. D \in SUBSET Dogs
  BY DEF TransitionDogs
<1>2. seen' \in [Pins -> BOOLEAN]
  BY DEF InputTimerData, IInv, TypeOK
<1>3. InputTimer \in DOMAIN timers /\ PollPeriod \in Nat \ {0}
  BY WatchdogAssumption DEF InputTimerData, DueFirst
<1>4. UpdateWatchdog(D, Rearmed(timers, InputTimer, PollPeriod))
  BY DEF InputTimerData
<1> HIDE DEF D
<1> QED
  BY <1>1, <1>2, <1>3, <1>4, UpdateWatchdogIInv DEF InputTimerData

(* IInv after the scan of the level watchdogs. *)
LEMMA WatchdogScanDataIInv == IInv /\ WatchdogScanData => IInv'
<1> SUFFICES ASSUME IInv, WatchdogScanData PROVE IInv'
  OBVIOUS
<1> DEFINE D == {w \in Dogs : NormalNow(w)}
<1>1. D \in SUBSET Dogs
  OBVIOUS
<1>2. seen' \in [Pins -> BOOLEAN]
  BY DEF WatchdogScanData, IInv, TypeOK
<1>3. ScanTimer \in DOMAIN timers /\ ScanPeriod \in Nat \ {0}
  BY WatchdogAssumption DEF WatchdogScanData, DueFirst
<1>4. UpdateWatchdog(D, Rearmed(timers, ScanTimer, ScanPeriod))
  BY DEF WatchdogScanData
<1> HIDE DEF D
<1> QED
  BY <1>1, <1>2, <1>3, <1>4, UpdateWatchdogIInv DEF WatchdogScanData

(* IInv after the startup timer, which no watchdog depends on. *)
LEMMA StartupTimeoutDataIInv == IInv /\ StartupTimeoutData => IInv'
<1> SUFFICES ASSUME IInv, StartupTimeoutData PROVE IInv'
  OBVIOUS
<1>1. /\ DOMAIN timers' = DOMAIN timers \ {StartupTimer}
      /\ \A u \in DOMAIN timers' : timers'[u] = timers[u]
      /\ timers' = [u \in DOMAIN timers' |-> timers[u]]
  BY DEF StartupTimeoutData, Stopped
<1>2. TypeOK'
  <2>1. timers' \in [DOMAIN timers' -> Int]
    BY <1>1 DEF IInv, TypeOK
  <2> QED
    BY <1>1, <2>1 DEF StartupTimeoutData, IInv, TypeOK
<1>3. ASSUME NEW w \in Dogs
      PROVE  DogInv(w)'
  <2>1. RestartTimer(w) \in DOMAIN timers
    BY DEF IInv, DogInv, Planned
  <2>2. RestartTimer(w) # StartupTimer /\ TimeoutTimer(w) # StartupTimer
    BY TimerNames
  <2> QED
    BY <1>1, <2>1, <2>2, KeptNext DEF StartupTimeoutData, Counting
<1> QED
  BY <1>2, <1>3 DEF IInv

(* IInv after an expiry: inside a slot it raises the alarm, outside every  *)
(* slot the restart timer still covers those to come.                      *)
LEMMA WatchdogTimeoutDataIInv ==
  ASSUME NEW v \in Dogs
  PROVE  IInv /\ WatchdogTimeoutData(v) => IInv'
<1> SUFFICES ASSUME IInv, WatchdogTimeoutData(v) PROVE IInv'
  OBVIOUS
<1>1. /\ DOMAIN timers' = DOMAIN timers \ {TimeoutTimer(v)}
      /\ \A u \in DOMAIN timers' : timers'[u] = timers[u]
      /\ timers' = [u \in DOMAIN timers' |-> timers[u]]
  BY DEF WatchdogTimeoutData, Stopped
<1>2. /\ active' \in [Dogs -> BOOLEAN] /\ told' \in [Dogs -> {"ok", "alarm"}]
      /\ \A w \in Dogs : active[w] => active'[w]
      /\ SlotActive(Slots[v], now) => active'[v]
  BY DEF WatchdogTimeoutData, IInv, TypeOK
<1>3. TypeOK'
  <2>1. timers' \in [DOMAIN timers' -> Int]
    BY <1>1 DEF IInv, TypeOK
  <2> QED
    BY <1>1, <1>2, <2>1 DEF WatchdogTimeoutData, IInv, TypeOK
<1>4. ASSUME NEW w \in Dogs
      PROVE  DogInv(w)'
  <2>1. RestartTimer(w) \in DOMAIN timers' /\
        timers'[RestartTimer(w)] = timers[RestartTimer(w)]
    BY <1>1, TimerNames DEF IInv, DogInv, Planned
  <2>2. CASE w # v
    <3>1. TimeoutTimer(w) # TimeoutTimer(v)
      BY <2>2, TimerNames
    <3>2. /\ Counting(w)' <=> Counting(w)
          /\ Counting(w) =>
               timers'[TimeoutTimer(w)] = timers[TimeoutTimer(w)]
      BY <1>1, <3>1 DEF Counting
    <3> QED
      BY <1>2, <2>1, <3>2, KeptNext DEF WatchdogTimeoutData
  <2>3. CASE w = v
    <3>1. ~Counting(w)'
      BY <1>1, <2>3 DEF Counting
    <3>2. Clock(w)' /\ Planned(w)'
      BY <2>1, <3>1 DEF Clock, WatchdogTimeoutData, IInv, DogInv, Planned
    <3>3. AllCovered(w)'
      <4> SUFFICES ASSUME InOrder(w), ~midnight[w], NEW i \in DOMAIN Slots[w]
                   PROVE  Covered(w, i)'
        BY DEF AllCovered, InOrder, WatchdogTimeoutData
      <4>1. Covered(w, i)
        BY DEF IInv, DogInv, AllCovered
      <4>2. DueBy(w, i)' <=> DueBy(w, i)
        BY <2>1 DEF DueBy, WatchdogTimeoutData
      <4>3. now' = now
        BY DEF WatchdogTimeoutData
      <4>4. timers[TimeoutTimer(w)] <= 0 /\ timers[TimeoutTimer(w)] \in Int
        BY <2>3 DEF WatchdogTimeoutData, DueFirst, IInv, TypeOK
      <4>5. Slots[w][i].start < now /\ now < Slots[w][i].end => active'[w]
        BY <1>2, <2>3, SlotTimes DEF SlotActive, IInv, TypeOK, TimeOfDay
      <4> QED
        BY <4>1, <4>2, <4>3, <4>4, <4>5 DEF Covered
    <3> QED
      BY <3>2, <3>3 DEF DogInv
  <2> QED
    BY <2>2, <2>3
<1> QED
  BY <1>3, <1>4 DEF IInv

(* IInv after a restart: both timers of the watchdog start afresh. *)
LEMMA WatchdogRestartDataIInv ==
  ASSUME NEW v \in Dogs
  PROVE  IInv /\ WatchdogRestartData(v) => IInv'
<1> SUFFICES ASSUME IInv, WatchdogRestartData(v) PROVE IInv'
  OBVIOUS
<1> DEFINE T == TimeoutTimer(v)
           R == RestartTimer(v)
           restart == NextRestart(Slots[v], now)
<1>1. /\ restart \in Int /\ restart > 0
      /\ Timeout[v] \in Int /\ Timeout[v] > 0
      /\ T # R
  BY NextRestartBound, TimerNames, WatchdogAssumption DEF IInv, TypeOK
<1>2. timers' = Started(Started(timers, T, Timeout[v]), R, restart)
  BY DEF WatchdogRestartData
<1> HIDE DEF T, R, restart
<1>3. /\ DOMAIN timers' = DOMAIN timers \cup {T, R}
      /\ timers'[T] = Timeout[v] /\ timers'[R] = restart
      /\ \A u \in DOMAIN timers \ {T, R} : timers'[u] = timers[u]
  BY <1>1, <1>2 DEF Started
<1>4. \A u \in DOMAIN timers' : timers'[u] \in Int /\ timers'[u] >= -MaxLate
  BY <1>1, <1>3, WatchdogAssumption DEF IInv, TypeOK
<1>5. TypeOK'
  <2>1. timers' \in [DOMAIN timers' -> Int]
    BY <1>2, <1>4 DEF Started
  <2>2. {T, R} \subseteq AllTimers
    BY DEF T, R, AllTimers, TimeoutTimers, RestartTimers
  <2> QED
    BY <1>3, <1>4, <2>1, <2>2 DEF WatchdogRestartData, IInv, TypeOK
<1>6. ASSUME NEW w \in Dogs
      PROVE  DogInv(w)'
  <2>1. CASE w = v
    <3>1. /\ now' \in TimeOfDay /\ now' = now
          /\ unfed'[v] = 0 /\ midnight'[v] = (now' = 0)
      BY DEF WatchdogRestartData, IInv, TypeOK
    <3> QED
      BY <1>3, <2>1, <3>1, ArmedNext DEF T, R, restart
  <2>2. CASE w # v
    <3>1. {TimeoutTimer(w), RestartTimer(w)} \cap {T, R} = {}
      BY <2>2, TimerNames DEF T, R
    <3>2. RestartTimer(w) \in DOMAIN timers
      BY DEF IInv, DogInv, Planned
    <3>3. /\ Counting(w)' <=> Counting(w)
          /\ Counting(w) =>
               timers'[TimeoutTimer(w)] = timers[TimeoutTimer(w)]
          /\ RestartTimer(w) \in DOMAIN timers'
          /\ timers'[RestartTimer(w)] = timers[RestartTimer(w)]
      BY <1>3, <3>1, <3>2 DEF Counting
    <3>4. /\ now' = now /\ midnight'[w] = midnight[w]
          /\ unfed'[w] = unfed[w] /\ active'[w] = active[w]
      BY <2>2 DEF WatchdogRestartData, IInv, TypeOK
    <3> QED
      BY <3>3, <3>4, KeptNext
  <2> QED
    BY <2>1, <2>2
<1> QED
  BY <1>5, <1>6 DEF IInv

(* IInv is inductive. *)
LEMMA NextIInv == IInv /\ [Next]_vars => IInv'
<1> SUFFICES ASSUME IInv, [Next]_vars PROVE IInv'
  OBVIOUS
<1>1. CASE UNCHANGED vars
  BY <1>1 DEF vars, IInv, TypeOK, DogInv, Clock, Planned, AllCovered,
              InOrder, Covered, DueBy, Counting
<1>2. CASE Next
  BY <1>2, TickIInv, ReloadIInv, LineChangeIInv, InputTimerDataIInv,
     StartupTimeoutDataIInv, WatchdogScanDataIInv,
     WatchdogTimeoutDataIInv, WatchdogRestartDataIInv DEF Next, Handler
<1> QED
  BY <1>1, <1>2

-----------------------------------------------------------------------------
(* The inductive invariant holds of every behaviour of the watchdogs. *)
THEOREM IInvHolds == Spec => []IInv
<1> QED
  BY InitIInv, NextIInv, PTL DEF Spec

(* Every variable keeps its type, the running timers are among the ones    *)
(* the process owns, and none is ever later than MaxLate.                  *)
THEOREM TypeCorrect == Spec => []TypeOK
<1>1. IInv => TypeOK
  BY DEF IInv
<1> QED
  BY <1>1, IInvHolds, PTL

(* Whatever the slots, timeouts and lines, a watchdog that has gone unfed  *)
(* for its timeout inside one of its slots is in alarm, provided the slots *)
(* are listed in order and its restart timer was not armed at midnight     *)
(* exactly: nextRestart() then never lets it sleep through a slot's start. *)
THEOREM AlarmIsPrompt == Spec => []PromptAlarm
<1>1. ASSUME IInv PROVE PromptAlarm
  <2> SUFFICES ASSUME NEW w \in Dogs,
                      InOrder(w), ~midnight[w], Overdue(w),
                      NEW i \in DOMAIN Slots[w],
                      Slots[w][i].start + MaxLate < now,
                      now < Slots[w][i].end
               PROVE  active[w]
    BY DEF PromptAlarm, Settled
  <2>1. /\ now \in Nat /\ MaxLate \in Nat
        /\ unfed[w] \in Nat /\ Timeout[w] \in Nat
        /\ Slots[w][i].start \in Nat
    BY <1>1, SlotTimes, WatchdogAssumption, DayLenAssumption
       DEF IInv, TypeOK, TimeOfDay
  <2>2. Clock(w) /\ Planned(w) /\ Covered(w, i)
    BY <1>1 DEF IInv, DogInv, AllCovered
  <2>3. \A u \in DOMAIN timers : timers[u] \in Int /\ timers[u] >= -MaxLate
    BY <1>1 DEF IInv, TypeOK
  <2>4. ~DueBy(w, i)
    BY <2>1, <2>2, <2>3 DEF DueBy, Planned
  <2>5. ~Counting(w)
    BY <2>1, <2>2, <2>3 DEF Clock, Counting, Overdue
  <2> QED
    BY <2>1, <2>2, <2>4, <2>5 DEF Covered
<1> QED
  BY <1>1, IInvHolds, PTL

(* A step of the daemon that announces a reset has a cause in the inputs. *)
LEMMA ResetStep ==
  ASSUME TypeOK, [Next]_vars,
         NEW w \in Dogs, told[w] = "alarm", told'[w] = "ok"
  PROVE  IF NormalState[w] = "Transition"
         THEN \E p \in Monitored(w) : line[p] # seen[p]
         ELSE NormalNow(w)
<1>1. w \in DOMAIN told /\ told' # told
  BY DEF TypeOK
<1>2. CASE InputTimerData
  <2>1. w \in TransitionDogs
    BY <1>2 DEF InputTimerData, UpdateWatchdog
  <2> QED
    BY <2>1 DEF TransitionDogs
<1>3. CASE WatchdogScanData
  <2>1. NormalNow(w)
    BY <1>3 DEF WatchdogScanData, UpdateWatchdog
  <2> QED
    BY <2>1 DEF NormalNow
<1>4. CASE \E v \in Dogs : WatchdogTimeoutData(v)
  <2>1. PICK v \in Dogs : told' = [told EXCEPT ![v] = "alarm"]
    BY <1>1, <1>4 DEF WatchdogTimeoutData
  <2> QED
    BY <1>1, <2>1
<1>5. \/ InputTimerData
      \/ WatchdogScanData
      \/ \E v \in Dogs : WatchdogTimeoutData(v)
  BY <1>1 DEF Next, Handler, vars, Tick, Reload, LineChange,
              StartupTimeoutData, WatchdogRestartData
<1> QED
  BY <1>2, <1>3, <1>4, <1>5

(* A reset is announced only because of what an input of that watchdog     *)
(* did, whatever order the timers, the lines and a SIGHUP come in.         *)
THEOREM ResetsAreCaused == Spec => ResetHasCause
<1> DEFINE A == \A w \in Dogs :
                  told[w] = "alarm" /\ told'[w] = "ok" =>
                    IF NormalState[w] = "Transition"
                    THEN \E p \in Monitored(w) : line[p] # seen[p]
                    ELSE NormalNow(w)
<1>1. TypeOK /\ [Next]_vars => [A]_vars
  BY ResetStep
<1> HIDE DEF A
<1>2. Spec => [][A]_vars
  BY <1>1, TypeCorrect, PTL DEF Spec
<1> QED
  BY <1>2 DEF A, ResetHasCause

-----------------------------------------------------------------------------
(* What the refinement and NormalQuiet need beyond IInv.                   *)

(* A watchdog in alarm is not timed, so that it raises one alarm only. *)
Silent(w) == active[w] => ~Counting(w)

(* The moments at which a restart may be aimed; 0 stands for midnight.     *)
Moments(w) == {0} \cup {Slots[w][i].start : i \in DOMAIN Slots[w]}

(* The restart timer runs out at b, or ran out there and is late.          *)
AimedAt(w, b) ==
  IF timers[RestartTimer(w)] > 0
  THEN now + timers[RestartTimer(w)] = IF b = 0 THEN DayLen ELSE b
  ELSE now = (b - timers[RestartTimer(w)]) % DayLen

Aimed(w) == \E b \in Moments(w) : AimedAt(w, b)

(* A level that has been normal for so long that a scan has seen it: the   *)
(* next scan comes before the timeout.                                     *)
Scanned(w) ==
  Timeout[w] > ScanPeriod /\ normal[w] + timers[ScanTimer] > ScanPeriod =>
    /\ ~active[w]
    /\ Counting(w) => timers[ScanTimer] < timers[TimeoutTimer(w)]

LevelInv(w) == (normal[w] > 0 => NormalNow(w)) /\ Scanned(w)

ScanTimed == ScanTimer \in DOMAIN timers /\ timers[ScanTimer] <= ScanPeriod

RestInv ==
  /\ ScanTimed
  /\ \A w \in Dogs : Silent(w) /\ Aimed(w) /\ LevelInv(w)

(* What the types say of the numbers about one watchdog. *)
LEMMA DogTypes ==
  ASSUME TypeOK, NEW w \in Dogs
  PROVE  /\ Timeout[w] \in Nat /\ Timeout[w] > 0
         /\ ScanPeriod \in Nat /\ ScanPeriod > 0 /\ MaxLate \in Nat
         /\ DayLen \in Nat /\ DayLen > 1
         /\ now \in Nat /\ now < DayLen
         /\ unfed[w] \in Nat /\ normal[w] \in Nat
         /\ active[w] \in BOOLEAN
         /\ \A u \in DOMAIN timers : timers[u] \in Int /\ timers[u] >= -MaxLate
BY WatchdogAssumption, DayLenAssumption DEF TypeOK, TimeOfDay

(* Remainders: a number below the divisor is its own, and a decomposition  *)
(* into quotient and remainder is the only one.                            *)
LEMMA ModUnique ==
  ASSUME NEW n \in Nat \ {0}, NEW x \in Nat, NEW q \in Nat,
         NEW r \in 0 .. n - 1, x = n * q + r
  PROVE  x % n = r
OBVIOUS

LEMMA ModRange ==
  ASSUME NEW n \in Nat \ {0}, NEW x \in Nat
  PROVE  /\ x % n \in 0 .. n - 1 /\ x \div n \in Nat
         /\ x = n * (x \div n) + (x % n)
         /\ x < n => x % n = x
OBVIOUS

(* The remainder of the next number. *)
LEMMA ModStep ==
  ASSUME NEW n \in Nat \ {0, 1}, NEW x \in Nat
  PROVE  (x + 1) % n = IF x % n = n - 1 THEN 0 ELSE (x % n) + 1
<1> DEFINE q == x \div n
           r == x % n
<1>1. r \in 0 .. n - 1 /\ q \in Nat /\ x = n * q + r
  BY ModRange
<1> HIDE DEF q, r
<1>2. CASE r = n - 1
  <2> DEFINE k == q + 1
  <2>1. x + 1 \in Nat /\ x + 1 = n * k + 0 /\ k \in Nat /\ 0 \in 0 .. n - 1
    BY <1>1, <1>2
  <2> HIDE DEF k
  <2>2. (x + 1) % n = 0
    BY <2>1, ModUnique
  <2> QED
    BY <1>2, <2>2 DEF r
<1>3. CASE r # n - 1
  <2>1. x + 1 = n * q + (r + 1) /\ r + 1 \in 0 .. n - 1
    BY <1>1, <1>3
  <2>2. (x + 1) % n = r + 1
    BY <1>1, <2>1, ModUnique
  <2> QED
    BY <1>3, <2>2 DEF r
<1> QED
  BY <1>2, <1>3

(* A restart that nextRestart() has just planned is aimed at a moment of   *)
(* the watchdog.                                                           *)
LEMMA NextRestartAims ==
  ASSUME NEW w \in Dogs, NEW t \in TimeOfDay
  PROVE  \E b \in Moments(w) :
           t + NextRestart(Slots[w], t) = IF b = 0 THEN DayLen ELSE b
<1> DEFINE later == LaterSlots(Slots[w], t)
           first == CHOOSE i \in later : \A j \in later : i <= j
<1>1. later \in SUBSET Nat
  BY SlotTimes DEF LaterSlots
<1>2. CASE t > 0 /\ later # {}
  <2>1. first \in later
    BY <1>1, <1>2, LeastExists
  <2>2. NextRestart(Slots[w], t) = Slots[w][first].start - t
    BY <1>2 DEF NextRestart
  <2> HIDE DEF first
  <2>3. first \in DOMAIN Slots[w] /\ t < Slots[w][first].start
    BY <2>1 DEF LaterSlots
  <2>4. Slots[w][first].start \in Nat
    BY <2>3, SlotTimes
  <2>5. t \in Nat
    BY DayLenAssumption DEF TimeOfDay
  <2>6. t + NextRestart(Slots[w], t) = Slots[w][first].start
    BY <2>2, <2>4, <2>5
  <2>7. Slots[w][first].start # 0
    BY <2>3, <2>4, <2>5
  <2> QED
    BY <2>3, <2>6, <2>7 DEF Moments
<1>3. CASE ~(t > 0 /\ later # {})
  <2>1. NextRestart(Slots[w], t) = DayLen - t
    BY <1>3 DEF NextRestart
  <2>2. t + NextRestart(Slots[w], t) = DayLen
    BY <2>1, DayLenAssumption DEF TimeOfDay
  <2> QED
    BY <2>2 DEF Moments
<1> QED
  BY <1>2, <1>3

(* A restart timer that was just started is aimed. *)
LEMMA AimedFresh ==
  ASSUME NEW w \in Dogs, now \in TimeOfDay,
         timers[RestartTimer(w)] = NextRestart(Slots[w], now)
  PROVE  Aimed(w)
BY NextRestartAims, NextRestartBound DEF Aimed, AimedAt

(* The same after a step. *)
LEMMA AimedAnew ==
  ASSUME NEW w \in Dogs, now' \in TimeOfDay,
         timers'[RestartTimer(w)] = NextRestart(Slots[w], now')
  PROVE  Aimed(w)'
BY NextRestartAims, NextRestartBound DEF Aimed, AimedAt, Moments

(* What feeding the watchdogs of D does to each timer. *)
LEMMA UpdateWatchdogFacts ==
  ASSUME TypeOK,
         NEW D \in SUBSET Dogs, NEW t \in {InputTimer, ScanTimer},
         NEW period \in Nat \ {0}, t \in DOMAIN timers,
         UpdateWatchdog(D, Rearmed(timers, t, period))
  PROVE  /\ t \in DOMAIN timers'
         /\ timers'[t] = IF timers[t] + period < 0 THEN period
                                                   ELSE timers[t] + period
         /\ \A u \in DOMAIN timers : u # t /\ u \notin TimeoutTimers =>
              u \in DOMAIN timers' /\ timers'[u] = timers[u]
         /\ \A w \in D : /\ Counting(w)' /\ ~active'[w] /\ unfed'[w] = 0
                         /\ timers'[TimeoutTimer(w)] = Timeout[w]
         /\ \A w \in Dogs \ D :
              /\ Counting(w)' <=> Counting(w)
              /\ Counting(w) =>
                   timers'[TimeoutTimer(w)] = timers[TimeoutTimer(w)]
              /\ active'[w] = active[w] /\ unfed'[w] = unfed[w]
<1> DEFINE ts == Rearmed(timers, t, period)
           Fed == {TimeoutTimer(w) : w \in D}
<1>1. /\ DOMAIN ts = DOMAIN timers
      /\ ts[t] = IF timers[t] + period < 0 THEN period ELSE timers[t] + period
      /\ \A u \in DOMAIN timers : u # t => ts[u] = timers[u]
  BY DEF Rearmed
<1> HIDE DEF ts
<1>2. timers' = [u \in DOMAIN ts \cup Fed |->
                   IF \E w \in D : u = TimeoutTimer(w)
                   THEN Timeout[u[2]] ELSE ts[u]]
  BY DEF UpdateWatchdog, ts
<1>3. DOMAIN timers' = DOMAIN timers \cup Fed
  BY <1>1, <1>2
<1>4. \A u \in DOMAIN timers : u \notin Fed => timers'[u] = ts[u]
  BY <1>1, <1>2
<1>5. t \notin TimeoutTimers /\ Fed \subseteq TimeoutTimers
  BY TimerNames DEF TimeoutTimers
<1>6. ASSUME NEW w \in D
      PROVE  /\ Counting(w)' /\ ~active'[w] /\ unfed'[w] = 0
             /\ timers'[TimeoutTimer(w)] = Timeout[w]
  <2>1. TimeoutTimer(w)[2] = w
    BY TimerNames
  <2> QED
    BY <1>2, <2>1 DEF UpdateWatchdog, Counting
<1>7. ASSUME NEW w \in Dogs \ D
      PROVE  /\ Counting(w)' <=> Counting(w)
             /\ Counting(w) =>
                  timers'[TimeoutTimer(w)] = timers[TimeoutTimer(w)]
             /\ active'[w] = active[w] /\ unfed'[w] = unfed[w]
  <2>1. TimeoutTimer(w) \notin Fed /\ TimeoutTimer(w) # t
    BY TimerNames
  <2>2. active'[w] = active[w] /\ unfed'[w] = unfed[w]
    BY DEF UpdateWatchdog, TypeOK
  <2> QED
    BY <1>1, <1>3, <1>4, <2>1, <2>2 DEF Counting
<1> QED
  BY <1>1, <1>3, <1>4, <1>5, <1>6, <1>7

(* Init() starts the scan timer for one period. *)
LEMMA StartScan ==
  ASSUME NEW t \in TimeOfDay
  PROVE  /\ ScanTimer \in DOMAIN StartTimers(t)
         /\ StartTimers(t)[ScanTimer] = ScanPeriod
<1>1. StartDelay(ScanTimer, t) = ScanPeriod
  <2>1. ScanTimer \notin TimeoutTimers /\ ScanTimer \notin RestartTimers
    BY TimerNames DEF TimeoutTimers, RestartTimers
  <2> QED
    BY <2>1, ProcessTimerNames DEF StartDelay
<1> QED
  BY <1>1 DEF StartTimers, AllTimers

(* A restart timer that a step leaves alone stays aimed. *)
LEMMA AimedKept ==
  ASSUME NEW w \in Dogs, Aimed(w), now' = now,
         timers'[RestartTimer(w)] = timers[RestartTimer(w)]
  PROVE  Aimed(w)'
BY DEF Aimed, AimedAt, Moments

(* RestInv when the daemon has started. *)
LEMMA InitRestInv == Init => RestInv
<1> SUFFICES ASSUME Init PROVE RestInv
  OBVIOUS
<1>1. IInv
  BY InitIInv
<1>2. now \in TimeOfDay /\ timers = StartTimers(now)
  BY DEF Init
<1>3. ScanTimed
  BY <1>2, StartScan, WatchdogAssumption DEF ScanTimed
<1>4. ASSUME NEW w \in Dogs
      PROVE  Silent(w) /\ Aimed(w) /\ LevelInv(w)
  <2>1. ~active[w] /\ normal[w] = 0
    BY DEF Init
  <2>2. ScanPeriod \in Nat /\ timers[ScanTimer] = ScanPeriod
    BY <1>2, StartScan, WatchdogAssumption
  <2>3. Aimed(w)
    BY <1>2, StartTimersFacts, AimedFresh
  <2> QED
    BY <2>1, <2>2, <2>3 DEF Silent, LevelInv, Scanned
<1> QED
  BY <1>3, <1>4 DEF RestInv

(* RestInv after a SIGHUP: every alarm is forgotten and every timer is     *)
(* started afresh, the timeouts for longer than the scan.                  *)
LEMMA ReloadRestInv == IInv /\ RestInv /\ Reload => RestInv'
<1> SUFFICES ASSUME IInv, RestInv, Reload PROVE RestInv'
  OBVIOUS
<1>1. now' \in TimeOfDay /\ now' = now /\ timers' = StartTimers(now')
  BY DEF Reload, IInv, TypeOK
<1>2. ScanTimed'
  BY <1>1, StartScan, WatchdogAssumption DEF ScanTimed
<1>3. ASSUME NEW w \in Dogs
      PROVE  Silent(w)' /\ Aimed(w)' /\ LevelInv(w)'
  <2>1. /\ ~active'[w] /\ normal'[w] = normal[w]
        /\ NormalNow(w)' <=> NormalNow(w)
    BY DEF Reload, NormalNow, State, Monitored
  <2>2. /\ timers'[ScanTimer] = ScanPeriod
        /\ timers'[TimeoutTimer(w)] = Timeout[w]
        /\ ScanPeriod \in Nat /\ Timeout[w] \in Nat
    BY <1>1, StartScan, StartTimersFacts, WatchdogAssumption
  <2>3. Aimed(w)'
    BY <1>1, StartTimersFacts, AimedAnew
  <2>4. normal[w] > 0 => NormalNow(w)
    BY DEF RestInv, LevelInv
  <2> QED
    BY <2>1, <2>2, <2>3, <2>4 DEF Silent, LevelInv, Scanned
<1> QED
  BY <1>2, <1>3 DEF RestInv

(* RestInv after a line has changed: what is no longer normal has not been *)
(* normal for any time.                                                    *)
LEMMA LineChangeRestInv ==
  ASSUME NEW p \in Pins
  PROVE  IInv /\ RestInv /\ LineChange(p) => RestInv'
<1> SUFFICES ASSUME IInv, RestInv, LineChange(p) PROVE RestInv'
  OBVIOUS
<1>1. UNCHANGED <<now, timers, active>>
  BY DEF LineChange
<1>2. ScanTimed'
  BY <1>1 DEF RestInv, ScanTimed
<1>3. ASSUME NEW w \in Dogs
      PROVE  Silent(w)' /\ Aimed(w)' /\ LevelInv(w)'
  <2>1. normal'[w] = IF NormalNow(w)' THEN normal[w] ELSE 0
    BY DEF LineChange
  <2>2. Aimed(w)'
    BY <1>1, AimedKept DEF RestInv
  <2>3. Silent(w)'
    BY <1>1 DEF RestInv, Silent, Counting
  <2>4. timers[ScanTimer] \in Int /\ normal[w] \in Nat /\ ScanPeriod \in Nat
    BY DogTypes DEF IInv, RestInv, ScanTimed
  <2>5. Scanned(w) /\ timers[ScanTimer] <= ScanPeriod
    BY DEF RestInv, LevelInv, ScanTimed
  <2>6. Scanned(w)'
    BY <1>1, <2>1, <2>4, <2>5 DEF Scanned, Counting
  <2>7. normal'[w] > 0 => NormalNow(w)'
    BY <2>1
  <2> QED
    BY <2>2, <2>3, <2>6, <2>7 DEF LevelInv
<1> QED
  BY <1>2, <1>3 DEF RestInv

(* RestInv after a tick: a restart that becomes due is at its moment, and  *)
(* one that is late falls behind it around the day.                        *)
LEMMA TickRestInv == IInv /\ RestInv /\ Tick => RestInv'
<1> SUFFICES ASSUME IInv, RestInv, Tick PROVE RestInv'
  OBVIOUS
<1>1. /\ DOMAIN timers' = DOMAIN timers
      /\ \A u \in DOMAIN timers :
           /\ timers[u] \in Int /\ timers[u] > -MaxLate
           /\ timers'[u] = timers[u] - 1
      /\ UNCHANGED <<line, active>>
  BY DEF Tick, IInv, TypeOK, Elapsed, MayElapse
<1>2. now' = IF now = DayLen - 1 THEN 0 ELSE now + 1
  BY DEF Tick
<1>3. ScanTimed'
  <2>1. ScanTimer \in DOMAIN timers /\ timers[ScanTimer] <= ScanPeriod
    BY DEF RestInv, ScanTimed
  <2>2. ScanPeriod \in Nat
    BY WatchdogAssumption
  <2> QED
    BY <1>1, <2>1, <2>2 DEF ScanTimed
<1>4. ASSUME NEW w \in Dogs
      PROVE  Silent(w)' /\ Aimed(w)' /\ LevelInv(w)'
  <2>1. Silent(w) /\ Aimed(w) /\ LevelInv(w) /\ Planned(w)
    BY DEF RestInv, IInv, DogInv
  <2>2. /\ now \in Nat /\ now < DayLen /\ DayLen \in Nat /\ DayLen > 1
        /\ normal[w] \in Nat /\ ScanPeriod \in Nat
    BY DogTypes DEF IInv
  <2>3. Silent(w)'
    BY <1>1, <2>1 DEF Silent, Counting
  <2>4. Aimed(w)'
    <3> DEFINE left == timers[RestartTimer(w)]
    <3>1. left \in Int /\ (timers[RestartTimer(w)])' = left - 1
      BY <1>1, <2>1 DEF Planned
    <3>2. PICK b \in Moments(w) : AimedAt(w, b)
      BY <2>1 DEF Aimed
    <3>3. b \in Nat /\ b < DayLen
      BY <2>2, <3>2, SlotTimes DEF Moments
    <3>4. b \in Moments(w)'
      BY <3>2 DEF Moments
    <3> HIDE DEF left
    <3>5. CASE left > 0
      <4>1. now + left = IF b = 0 THEN DayLen ELSE b
        BY <3>2, <3>5 DEF AimedAt, left
      <4>2. CASE left > 1
        <5>1. now' = now + 1
          BY <1>2, <2>2, <3>1, <3>3, <4>1, <4>2
        <5>2. left \in Int /\ now \in Int /\ left - 1 > 0
          BY <2>2, <3>1, <4>2
        <5>3. now' + (left - 1) = now + left
          BY <5>1, <5>2
        <5>4. now' + (left - 1) = IF b = 0 THEN DayLen ELSE b
          BY <4>1, <5>3
        <5>5. AimedAt(w, b)'
          BY <3>1, <5>2, <5>4 DEF AimedAt
        <5> QED
          BY <3>4, <5>5 DEF Aimed
      <4>3. CASE left = 1
        <5>1. now' = b
          BY <1>2, <2>2, <3>3, <4>1, <4>3
        <5>2. DayLen \in Nat \ {0}
          BY <2>2
        <5>3. b % DayLen = b
          BY <3>3, <5>2, ModRange
        <5>4. b - (left - 1) = b /\ ~(left - 1 > 0)
          BY <3>3, <4>3
        <5>5. now' = (b - (left - 1)) % DayLen
          BY <5>1, <5>3, <5>4
        <5>6. AimedAt(w, b)'
          BY <3>1, <5>5, <5>4 DEF AimedAt
        <5> QED
          BY <3>4, <5>6 DEF Aimed
      <4> QED
        BY <3>1, <3>5, <4>2, <4>3
    <3>6. CASE left <= 0
      <4>1. now = (b - left) % DayLen
        BY <3>1, <3>2, <3>6 DEF AimedAt, left
      <4>2. b - left \in Nat /\ (b - left) + 1 = b - (left - 1)
        BY <3>1, <3>3, <3>6
      <4>3. now' = (b - (left - 1)) % DayLen
        BY <1>2, <2>2, <4>1, <4>2, ModStep
      <4> QED
        BY <3>1, <3>4, <3>6, <4>3 DEF Aimed, AimedAt
    <3> QED
      BY <3>1, <3>5, <3>6
  <2>5. LevelInv(w)'
    <3>1. normal'[w] = IF NormalNow(w) /\ normal[w] < NormalCap
                       THEN normal[w] + 1 ELSE normal[w]
      BY DEF Tick
    <3>2. NormalNow(w)' <=> NormalNow(w)
      BY <1>1 DEF NormalNow, State, Monitored
    <3>3. normal'[w] > 0 => NormalNow(w)'
      BY <2>1, <3>1, <3>2 DEF LevelInv
    <3>4. /\ timers[ScanTimer] \in Int
          /\ timers'[ScanTimer] = timers[ScanTimer] - 1
      BY <1>1 DEF RestInv, ScanTimed
    <3>5. Scanned(w)'
      <4>1. normal'[w] <= normal[w] + 1 /\ normal'[w] \in Nat
        BY <2>2, <3>1
      <4>2. Counting(w) => /\ timers[TimeoutTimer(w)] \in Int
                           /\ timers'[TimeoutTimer(w)]
                                = timers[TimeoutTimer(w)] - 1
        BY <1>1 DEF Counting
      <4>3. Counting(w)' <=> Counting(w)
        BY <1>1 DEF Counting
      <4> QED
        BY <1>1, <2>1, <2>2, <3>4, <4>1, <4>2, <4>3 DEF LevelInv, Scanned
    <3> QED
      BY <3>3, <3>5 DEF LevelInv
  <2> QED
    BY <2>3, <2>4, <2>5
<1> QED
  BY <1>3, <1>4 DEF RestInv

(* RestInv after a feed.  A scan feeds every watchdog whose inputs are     *)
(* normal, and the others have not been normal for any time.               *)
LEMMA UpdateWatchdogRestInv ==
  ASSUME IInv, RestInv,
         NEW D \in SUBSET Dogs, NEW t \in {InputTimer, ScanTimer},
         NEW period \in Nat \ {0},
         DueFirst(timers, t), period = ScanPeriod \/ t = InputTimer,
         t = ScanTimer => \A w \in Dogs : NormalNow(w) => w \in D,
         UpdateWatchdog(D, Rearmed(timers, t, period)),
         UNCHANGED <<now, line, normal, midnight>>
  PROVE  RestInv'
<1>1. TypeOK /\ t \in DOMAIN timers /\ timers[t] <= 0
  BY DEF IInv, DueFirst
<1>2. /\ t \in DOMAIN timers'
      /\ timers'[t] = IF timers[t] + period < 0 THEN period
                                                ELSE timers[t] + period
      /\ \A u \in DOMAIN timers : u # t /\ u \notin TimeoutTimers =>
           u \in DOMAIN timers' /\ timers'[u] = timers[u]
      /\ \A w \in D : /\ Counting(w)' /\ ~active'[w] /\ unfed'[w] = 0
                      /\ timers'[TimeoutTimer(w)] = Timeout[w]
      /\ \A w \in Dogs \ D :
           /\ Counting(w)' <=> Counting(w)
           /\ Counting(w) =>
                timers'[TimeoutTimer(w)] = timers[TimeoutTimer(w)]
           /\ active'[w] = active[w] /\ unfed'[w] = unfed[w]
  BY <1>1, UpdateWatchdogFacts
<1>3. ScanTimer \notin TimeoutTimers
  BY TimerNames DEF TimeoutTimers
<1>4. /\ ScanTimer \in DOMAIN timers /\ timers[ScanTimer] \in Int
      /\ timers[ScanTimer] <= ScanPeriod /\ ScanPeriod \in Nat
      /\ timers[t] \in Int
  BY <1>1, WatchdogAssumption DEF RestInv, ScanTimed, TypeOK
<1>5. /\ ScanTimer \in DOMAIN timers' /\ timers'[ScanTimer] \in Int
      /\ timers'[ScanTimer] <= ScanPeriod
      /\ t # ScanTimer => timers'[ScanTimer] = timers[ScanTimer]
  <2>1. CASE t = ScanTimer
    BY <1>1, <1>2, <1>4, <2>1, ProcessTimerNames
  <2>2. CASE t # ScanTimer
    BY <1>2, <1>3, <1>4, <2>2
  <2> QED
    BY <2>1, <2>2
<1>6. ASSUME NEW w \in Dogs
      PROVE  Silent(w)' /\ Aimed(w)' /\ LevelInv(w)'
  <2>1. Silent(w) /\ Aimed(w) /\ LevelInv(w) /\ Planned(w)
    BY DEF RestInv, IInv, DogInv
  <2>2. Timeout[w] \in Nat /\ normal[w] \in Nat
    BY <1>1, DogTypes
  <2>3. Aimed(w)'
    <3>1. RestartTimer(w) # t /\ RestartTimer(w) \notin TimeoutTimers
      BY TimerNames DEF TimeoutTimers
    <3> QED
      BY <1>2, <2>1, <3>1, AimedKept DEF Planned
  <2>4. /\ normal'[w] = normal[w]
        /\ NormalNow(w)' <=> NormalNow(w)
    BY DEF NormalNow, State, Monitored
  <2>5. CASE w \in D
    <3>1. Silent(w)'
      BY <1>2, <2>5 DEF Silent
    <3>2. Scanned(w)'
      BY <1>2, <1>4, <1>5, <2>2, <2>5 DEF Scanned
    <3> QED
      BY <2>1, <2>3, <2>4, <3>1, <3>2 DEF LevelInv
  <2>6. CASE w \notin D
    <3>1. Silent(w)'
      BY <1>2, <2>1, <2>6 DEF Silent
    <3>2. CASE t = ScanTimer
      <4>1. normal[w] = 0
        BY <2>1, <2>2, <2>6, <3>2 DEF LevelInv
      <4>2. Scanned(w)'
        BY <1>4, <1>5, <2>4, <4>1 DEF Scanned
      <4> QED
        BY <2>1, <2>3, <2>4, <3>1, <4>2 DEF LevelInv
    <3>3. CASE t # ScanTimer
      <4>1. Scanned(w)'
        BY <1>2, <1>5, <2>1, <2>4, <2>6, <3>3 DEF LevelInv, Scanned
      <4> QED
        BY <2>1, <2>3, <2>4, <3>1, <4>1 DEF LevelInv
    <3> QED
      BY <3>2, <3>3
  <2> QED
    BY <2>5, <2>6
<1> QED
  BY <1>5, <1>6 DEF RestInv, ScanTimed

(* RestInv after the poll of the inputs. *)
LEMMA InputTimerDataRestInv == IInv /\ RestInv /\ InputTimerData => RestInv'
<1> SUFFICES ASSUME IInv, RestInv, InputTimerData PROVE RestInv'
  OBVIOUS
<1> DEFINE D == IF Connected THEN TransitionDogs ELSE {}
<1>1. D \in SUBSET Dogs /\ PollPeriod \in Nat \ {0}
  BY WatchdogAssumption DEF TransitionDogs
<1>2. /\ DueFirst(timers, InputTimer)
      /\ UpdateWatchdog(D, Rearmed(timers, InputTimer, PollPeriod))
      /\ UNCHANGED <<now, line, normal, midnight>>
  BY DEF InputTimerData
<1> HIDE DEF D
<1> QED
  BY <1>1, <1>2, ProcessTimerNames, UpdateWatchdogRestInv

(* RestInv after the scan of the level watchdogs. *)
LEMMA WatchdogScanDataRestInv == IInv /\ RestInv /\ WatchdogScanData => RestInv'
<1> SUFFICES ASSUME IInv, RestInv, WatchdogScanData PROVE RestInv'
  OBVIOUS
<1> DEFINE D == {w \in Dogs : NormalNow(w)}
<1>1. D \in SUBSET Dogs /\ ScanPeriod \in Nat \ {0}
  BY WatchdogAssumption
<1>2. /\ DueFirst(timers, ScanTimer)
      /\ UpdateWatchdog(D, Rearmed(timers, ScanTimer, ScanPeriod))
      /\ UNCHANGED <<now, line, normal, midnight>>
  BY DEF WatchdogScanData
<1>3. \A w \in Dogs : NormalNow(w) => w \in D
  OBVIOUS
<1> HIDE DEF D
<1> QED
  BY <1>1, <1>2, <1>3, UpdateWatchdogRestInv

(* A handler that touches neither the lines nor the scan timer keeps what  *)
(* RestInv says of a watchdog whose timers it leaves alone.                *)
LEMMA DogRestKept ==
  ASSUME RestInv, NEW w \in Dogs,
         UNCHANGED <<now, line, normal>>,
         timers'[ScanTimer] = timers[ScanTimer],
         Counting(w)' <=> Counting(w),
         Counting(w) => timers'[TimeoutTimer(w)] = timers[TimeoutTimer(w)],
         timers'[RestartTimer(w)] = timers[RestartTimer(w)],
         active'[w] = active[w]
  PROVE  Silent(w)' /\ Aimed(w)' /\ LevelInv(w)'
<1>1. Silent(w) /\ Aimed(w) /\ LevelInv(w)
  BY DEF RestInv
<1>2. NormalNow(w)' <=> NormalNow(w)
  BY DEF NormalNow, State, Monitored
<1>3. Scanned(w)'
  BY <1>1 DEF LevelInv, Scanned
<1> QED
  BY <1>1, <1>2, <1>3, AimedKept DEF Silent, LevelInv

(* RestInv after the startup timer. *)
LEMMA StartupTimeoutDataRestInv ==
  IInv /\ RestInv /\ StartupTimeoutData => RestInv'
<1> SUFFICES ASSUME IInv, RestInv, StartupTimeoutData PROVE RestInv'
  OBVIOUS
<1>1. /\ DOMAIN timers' = DOMAIN timers \ {StartupTimer}
      /\ \A u \in DOMAIN timers' : timers'[u] = timers[u]
      /\ UNCHANGED <<now, line, normal, active>>
  BY DEF StartupTimeoutData, Stopped
<1>2. ScanTimer \in DOMAIN timers' /\ timers'[ScanTimer] = timers[ScanTimer]
  BY <1>1, ProcessTimerNames DEF RestInv, ScanTimed
<1>3. ASSUME NEW w \in Dogs
      PROVE  Silent(w)' /\ Aimed(w)' /\ LevelInv(w)'
  <2>1. RestartTimer(w) \in DOMAIN timers
    BY DEF IInv, DogInv, Planned
  <2>2. /\ RestartTimer(w) # StartupTimer /\ TimeoutTimer(w) # StartupTimer
    BY TimerNames
  <2> QED
    BY <1>1, <1>2, <2>1, <2>2, DogRestKept DEF Counting
<1> QED
  BY <1>2, <1>3 DEF RestInv, ScanTimed

(* RestInv after an expiry: it stops the timer of the watchdog, and that   *)
(* of a watchdog whose level is normal does not expire before a scan.      *)
LEMMA WatchdogTimeoutDataRestInv ==
  ASSUME NEW v \in Dogs
  PROVE  IInv /\ RestInv /\ WatchdogTimeoutData(v) => RestInv'
<1> SUFFICES ASSUME IInv, RestInv, WatchdogTimeoutData(v) PROVE RestInv'
  OBVIOUS
<1>1. /\ DOMAIN timers' = DOMAIN timers \ {TimeoutTimer(v)}
      /\ \A u \in DOMAIN timers' : timers'[u] = timers[u]
      /\ UNCHANGED <<now, line, normal>>
      /\ \A w \in Dogs : w # v => active'[w] = active[w]
  BY DEF WatchdogTimeoutData, Stopped, IInv, TypeOK
<1>2. ScanTimer \in DOMAIN timers' /\ timers'[ScanTimer] = timers[ScanTimer]
  BY <1>1, TimerNames DEF RestInv, ScanTimed
<1>3. ASSUME NEW w \in Dogs
      PROVE  Silent(w)' /\ Aimed(w)' /\ LevelInv(w)'
  <2>1. /\ RestartTimer(w) \in DOMAIN timers'
        /\ timers'[RestartTimer(w)] = timers[RestartTimer(w)]
    BY <1>1, TimerNames DEF IInv, DogInv, Planned
  <2>2. CASE w # v
    <3>1. TimeoutTimer(w) # TimeoutTimer(v)
      BY <2>2, TimerNames
    <3>2. /\ Counting(w)' <=> Counting(w)
          /\ Counting(w) =>
               timers'[TimeoutTimer(w)] = timers[TimeoutTimer(w)]
      BY <1>1, <3>1 DEF Counting
    <3> QED
      BY <1>1, <1>2, <2>1, <2>2, <3>2, DogRestKept
  <2>3. CASE w = v
    <3>1. Silent(w) /\ Aimed(w) /\ LevelInv(w)
      BY DEF RestInv
    <3>2. ~Counting(w)'
      BY <1>1, <2>3 DEF Counting
    <3>3. Counting(w) /\ timers[TimeoutTimer(w)] <= timers[ScanTimer]
      BY <2>3 DEF WatchdogTimeoutData, DueFirst, Counting, RestInv, ScanTimed
    <3>4. /\ timers[TimeoutTimer(w)] \in Int /\ timers[ScanTimer] \in Int
      BY <3>3, DogTypes DEF IInv, Counting, RestInv, ScanTimed
    <3>5. ~(/\ Timeout[w] > ScanPeriod
            /\ normal[w] + timers[ScanTimer] > ScanPeriod)
      BY <3>1, <3>3, <3>4 DEF LevelInv, Scanned
    <3>6. Scanned(w)'
      BY <1>1, <1>2, <3>5 DEF Scanned
    <3>7. NormalNow(w)' <=> NormalNow(w)
      BY <1>1 DEF NormalNow, State, Monitored
    <3>8. Aimed(w)'
      BY <1>1, <2>1, <3>1, AimedKept
    <3> QED
      BY <1>1, <3>1, <3>2, <3>6, <3>7, <3>8 DEF Silent, LevelInv
  <2> QED
    BY <2>2, <2>3
<1> QED
  BY <1>2, <1>3 DEF RestInv, ScanTimed

(* RestInv after a restart. *)
LEMMA WatchdogRestartDataRestInv ==
  ASSUME NEW v \in Dogs
  PROVE  IInv /\ RestInv /\ WatchdogRestartData(v) => RestInv'
<1> SUFFICES ASSUME IInv, RestInv, WatchdogRestartData(v) PROVE RestInv'
  OBVIOUS
<1> DEFINE T == TimeoutTimer(v)
           R == RestartTimer(v)
           restart == NextRestart(Slots[v], now)
<1>1. T # R
  BY TimerNames
<1>2. timers' = Started(Started(timers, T, Timeout[v]), R, restart)
  BY DEF WatchdogRestartData
<1> HIDE DEF T, R, restart
<1>3. /\ DOMAIN timers' = DOMAIN timers \cup {T, R}
      /\ timers'[T] = Timeout[v] /\ timers'[R] = restart
      /\ \A u \in DOMAIN timers \ {T, R} : timers'[u] = timers[u]
  BY <1>1, <1>2 DEF Started
<1>4. /\ UNCHANGED <<now, line, normal>>
      /\ ~active'[v] /\ \A w \in Dogs : w # v => active'[w] = active[w]
      /\ now' \in TimeOfDay
  BY DEF WatchdogRestartData, IInv, TypeOK
<1>5. ScanTimer \in DOMAIN timers' /\ timers'[ScanTimer] = timers[ScanTimer]
  BY <1>3, TimerNames DEF RestInv, ScanTimed, T, R
<1>6. ASSUME NEW w \in Dogs
      PROVE  Silent(w)' /\ Aimed(w)' /\ LevelInv(w)'
  <2>1. CASE w # v
    <3>1. {TimeoutTimer(w), RestartTimer(w)} \cap {T, R} = {}
      BY <2>1, TimerNames DEF T, R
    <3>2. RestartTimer(w) \in DOMAIN timers
      BY DEF IInv, DogInv, Planned
    <3> QED
      BY <1>3, <1>4, <1>5, <2>1, <3>1, <3>2, DogRestKept DEF Counting
  <2>2. CASE w = v
    <3>1. Aimed(w)'
      BY <1>3, <1>4, <2>2, AimedAnew DEF R, restart
    <3>2. NormalNow(w)' <=> NormalNow(w)
      BY <1>4 DEF NormalNow, State, Monitored
    <3>3. /\ timers[ScanTimer] \in Int /\ timers[ScanTimer] <= ScanPeriod
          /\ ScanPeriod \in Nat /\ Timeout[w] \in Nat
      BY DogTypes DEF IInv, RestInv, ScanTimed
    <3>4. Scanned(w)'
      BY <1>3, <1>4, <1>5, <2>2, <3>3 DEF Scanned, T
    <3>5. normal[w] > 0 => NormalNow(w)
      BY DEF RestInv, LevelInv
    <3> QED
      BY <1>4, <2>2, <3>1, <3>2, <3>4, <3>5 DEF Silent, LevelInv
  <2> QED
    BY <2>1, <2>2
<1> QED
  BY <1>5, <1>6 DEF RestInv, ScanTimed

(* Every step preserves RestInv. *)
LEMMA NextRestInv == IInv /\ RestInv /\ [Next]_vars => RestInv'
<1> SUFFICES ASSUME IInv, RestInv, [Next]_vars PROVE RestInv'
  OBVIOUS
<1>1. CASE UNCHANGED vars
  BY <1>1 DEF vars, RestInv, ScanTimed, Silent, Aimed, AimedAt, Moments,
              LevelInv, Scanned, Counting, NormalNow, State, Monitored
<1>2. CASE Next
  BY <1>2, TickRestInv, ReloadRestInv, LineChangeRestInv,
     InputTimerDataRestInv, StartupTimeoutDataRestInv,
     WatchdogScanDataRestInv, WatchdogTimeoutDataRestInv,
     WatchdogRestartDataRestInv DEF Next, Handler
<1> QED
  BY <1>1, <1>2

-----------------------------------------------------------------------------
(* Both invariants hold of every behaviour of the watchdogs. *)
THEOREM RestInvHolds == Spec => []RestInv
<1>1. RestInv /\ IInv /\ [Next]_vars => RestInv'
  BY NextRestInv
<1> QED
  BY <1>1, InitRestInv, IInvHolds, PTL DEF Spec

(* A watchdog on a High or Low state whose timeout is longer than the scan *)
(* interval is not in alarm while an input has been normal for longer than *)
(* a scan takes: watchdogScanData() always comes before the expiry.        *)
THEOREM NormalIsQuiet == Spec => []NormalQuiet
<1>1. ASSUME IInv, RestInv PROVE NormalQuiet
  <2> SUFFICES ASSUME NEW w \in Dogs, Timeout[w] > ScanPeriod,
                      normal[w] > ScanPeriod + MaxLate
               PROVE  ~active[w]
    BY DEF NormalQuiet
  <2>1. ScanTimer \in DOMAIN timers /\ Scanned(w)
    BY <1>1 DEF RestInv, ScanTimed, LevelInv
  <2>2. /\ timers[ScanTimer] \in Int /\ timers[ScanTimer] >= -MaxLate
        /\ normal[w] \in Nat /\ ScanPeriod \in Nat /\ MaxLate \in Nat
    BY <1>1, <2>1, DogTypes DEF IInv
  <2> QED
    BY <2>1, <2>2 DEF Scanned
<1> QED
  BY <1>1, IInvHolds, RestInvHolds, PTL

-----------------------------------------------------------------------------
(* The refinement of AlarmContract, one action at a time.                  *)

LEMMA InitContract == Init => Contract!Init
BY DEF Init, Contract!Init, TimeOfDay, Contract!TimeOfDay

LEMMA TickContract == IInv /\ Tick => Contract!Tick
<1> SUFFICES ASSUME IInv, Tick PROVE Contract!Tick
  OBVIOUS
<1>1. /\ now \in Nat /\ now < DayLen /\ DayLen \in Nat \ {0, 1}
      /\ now + 1 \in Nat
  BY DayLenAssumption DEF IInv, TypeOK, TimeOfDay
<1>2. now % DayLen = now
  BY <1>1, ModRange
<1>3. now' = (now + 1) % DayLen
  BY <1>1, <1>2, ModStep DEF Tick
<1> QED
  BY <1>3 DEF Tick, UnfedCap, Contract!Tick, Contract!Cap

LEMMA ReloadContract == Reload => Contract!Reload
BY DEF Reload, Contract!Reload

(* Every way of feeding watchdogs is a Feed of the contract. *)
LEMMA FeedContract ==
  ASSUME NEW D \in SUBSET Dogs, NEW ts, UpdateWatchdog(D, ts),
         UNCHANGED now
  PROVE  Contract!Feed(D)
BY DEF UpdateWatchdog, Contract!Feed

(* An alarm is raised only by a watchdog that is not in alarm, has gone    *)
(* unfed for its timeout and is inside a slot.                             *)
LEMMA WatchdogTimeoutDataContract ==
  ASSUME IInv, RestInv, NEW w \in Dogs, WatchdogTimeoutData(w)
  PROVE  Contract!Raise(w) \/ UNCHANGED Contract!vars
<1>1. Counting(w) /\ timers[TimeoutTimer(w)] <= 0
  BY DEF WatchdogTimeoutData, DueFirst, Counting
<1>2. ~active[w]
  BY <1>1 DEF RestInv, Silent
<1>3. unfed[w] >= Timeout[w]
  <2>1. /\ timers[TimeoutTimer(w)] \in Int
        /\ unfed[w] \in Nat /\ Timeout[w] \in Nat
    BY <1>1, DogTypes DEF IInv, Counting
  <2>2. timers[TimeoutTimer(w)] + unfed[w] = Timeout[w]
    BY <1>1 DEF IInv, DogInv, Clock
  <2> QED
    BY <1>1, <2>1, <2>2
<1>4. SlotActive(Slots[w], now) <=> Contract!SlotActive(Slots[w], now)
  BY DEF SlotActive, Contract!SlotActive
<1>5. CASE SlotActive(Slots[w], now)
  BY <1>2, <1>3, <1>4, <1>5 DEF WatchdogTimeoutData, Contract!Raise
<1>6. CASE ~SlotActive(Slots[w], now)
  BY <1>6 DEF WatchdogTimeoutData, Contract!vars
<1> QED
  BY <1>5, <1>6

(* A watchdog is restarted only at the start of a slot or at midnight, or  *)
(* up to MaxLate after it.                                                 *)
LEMMA WatchdogRestartDataContract ==
  ASSUME IInv, RestInv, NEW w \in Dogs, WatchdogRestartData(w)
  PROVE  Contract!Rearm(w)
<1> DEFINE late == -timers[RestartTimer(w)]
<1>1. late \in 0 .. MaxLate
  <2>1. RestartTimer(w) \in DOMAIN timers /\ timers[RestartTimer(w)] <= 0
    BY DEF WatchdogRestartData, DueFirst
  <2> QED
    BY <2>1, DogTypes DEF IInv
<1>2. PICK b \in Moments(w) : AimedAt(w, b)
  BY DEF RestInv, Aimed
<1>3. b \in Nat
  BY <1>2, SlotTimes DEF Moments
<1>4. now = (b + late) % DayLen
  <2>1. timers[RestartTimer(w)] \in Int
    BY DogTypes DEF IInv, DogInv, Planned
  <2>2. timers[RestartTimer(w)] <= 0
    BY DEF WatchdogRestartData, DueFirst
  <2>3. now = (b - timers[RestartTimer(w)]) % DayLen
    BY <1>2, <2>1, <2>2 DEF AimedAt
  <2>4. b - timers[RestartTimer(w)] = b + late
    BY <1>3, <2>1
  <2> QED
    BY <2>3, <2>4
<1> HIDE DEF late
<1>5. b \in Contract!Boundaries(w)
  BY <1>2 DEF Moments, Contract!Boundaries
<1>6. Contract!AtBoundary(w)
  BY <1>1, <1>4, <1>5 DEF Contract!AtBoundary
<1> QED
  BY <1>6 DEF WatchdogRestartData, Contract!Rearm

(* Every step of the watchdogs is a step of the contract, or none of it.   *)
LEMMA NextContract ==
  IInv /\ RestInv /\ [Next]_vars => [Contract!Next]_(Contract!vars)
<1> SUFFICES ASSUME IInv, RestInv, [Next]_vars
             PROVE  Contract!Next \/ UNCHANGED Contract!vars
  OBVIOUS
<1>1. CASE Tick
  BY <1>1, TickContract DEF Contract!Next
<1>2. CASE Reload
  BY <1>2, ReloadContract DEF Contract!Next
<1>3. CASE InputTimerData
  <2> DEFINE D == IF Connected THEN TransitionDogs ELSE {}
  <2>1. D \in SUBSET Dogs
    BY DEF TransitionDogs
  <2>2. Contract!Feed(D)
    BY <1>3, <2>1, FeedContract DEF InputTimerData
  <2> QED
    BY <2>1, <2>2 DEF Contract!Next
<1>4. CASE WatchdogScanData
  <2> DEFINE D == {w \in Dogs : NormalNow(w)}
  <2>1. Contract!Feed(D)
    BY <1>4, FeedContract DEF WatchdogScanData
  <2>2. D \in SUBSET Dogs
    OBVIOUS
  <2> QED
    BY <2>1, <2>2 DEF Contract!Next
<1>5. CASE \E w \in Dogs : WatchdogTimeoutData(w)
  BY <1>5, WatchdogTimeoutDataContract DEF Contract!Next
<1>6. CASE \E w \in Dogs : WatchdogRestartData(w)
  BY <1>6, WatchdogRestartDataContract DEF Contract!Next
<1>7. CASE StartupTimeoutData \/ \E p \in Pins : LineChange(p)
  BY <1>7 DEF StartupTimeoutData, LineChange, Contract!vars
<1>8. CASE UNCHANGED vars
  BY <1>8 DEF vars, Contract!vars
<1> QED
  BY <1>1, <1>2, <1>3, <1>4, <1>5, <1>6, <1>7, <1>8 DEF Next, Handler

(* The timers and polls of the watchdogs implement AlarmContract: an alarm *)
(* is raised once per silence, inside a slot and after the whole timeout,  *)
(* and withdrawn by a feed or by a restart at a slot's start or midnight.  *)
THEOREM WatchdogImplementsContract == Spec => ImplementsContract
<1>1. IInv /\ RestInv /\ [Next]_vars => [Contract!Next]_(Contract!vars)
  BY NextContract
<1>2. Spec => Contract!Init /\ [][Contract!Next]_(Contract!vars)
  BY <1>1, InitContract, IInvHolds, RestInvHolds, PTL DEF Spec
<1> QED
  BY <1>2 DEF ImplementsContract, Contract!Spec
=============================================================================

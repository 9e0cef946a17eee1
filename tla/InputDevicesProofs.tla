------------------------- MODULE InputDevicesProofs -------------------------
(***************************************************************************)
(* Proofs about InputDevices, for any set of devices, keys and lines: type *)
(* correctness, ReportsAreTrue and ReportHasCause.                         *)
(*                                                                         *)
(* Both speak of the moment of a report.  What makes it right is what the  *)
(* static mask, the events that wait and the last poll say of every key in *)
(* the meantime, which KeyInv states; and that every device is polled once *)
(* before the startup timer lets reports through.                          *)
(***************************************************************************)
EXTENDS InputDevices, FiniteSetTheorems, TLAPS

(* TypeOK, and that every variable is what its comment says it is. *)
Types ==
  /\ TypeOK
  /\ DOMAIN closed = Devices /\ DOMAIN unread = Devices
  /\ DOMAIN moved = Devices /\ DOMAIN seen = Devices
  /\ \A d \in open : InputTimer(d) \in DOMAIN timers

(* d has not been polled since it was opened, and will be before the       *)
(* startup timer runs out.                                                 *)
Unpolled(d) ==
  StartupTimer \in DOMAIN timers /\ timers[InputTimer(d)] < timers[StartupTimer]

(* What the next poll of d would find of key k but for the waiting event.  *)
Level(d, k) ==
  IF Api[d] = "ApiGpio" THEN k \in closed[d] ELSE LineOf(d, k) \in input_mask

(* A key that has not moved since the last poll is known as it was then;   *)
(* one that has moved waits to be read, or is known as it is.              *)
KeyInv(d, k) ==
  IF LineOf(d, k) \in moved[d]
  THEN k \notin unread[d] => (Level(d, k) <=> k \in closed[d])
  ELSE k \notin unread[d] /\ (Level(d, k) <=> LineOf(d, k) \in seen[d])

DeviceInv(d) ==
  OnItsOwn(d) => Unpolled(d) \/ \A k \in Mapped(d) : KeyInv(d, k)

IInv == Types /\ ReportsAreTrue /\ \A d \in open : DeviceInv(d)

-----------------------------------------------------------------------------
(* The lines of a device: numbers, one for each key. *)
LEMMA LineIsNat ==
  ASSUME NEW d \in Devices, NEW k \in Nat
  PROVE  LineOf(d, k) \in Nat
<1>1. IsFiniteSet({j \in Keys[d] : j < k})
  BY InputDevicesAssumption, FS_Subset
<1> QED
  BY <1>1, FS_CardinalityType DEF LineOf

LEMMA LineBelow ==
  ASSUME NEW d \in Devices, NEW j \in Keys[d], NEW k \in Keys[d], j < k
  PROVE  LineOf(d, j) # LineOf(d, k)
<1> DEFINE J == {i \in Keys[d] : i < j}
           K == {i \in Keys[d] : i < k}
<1>1. Keys[d] \subseteq Nat /\ IsFiniteSet(Keys[d])
  BY InputDevicesAssumption
<1>2. IsFiniteSet(K)
  BY <1>1, FS_Subset
<1>3. J \in SUBSET K /\ j \in K /\ j \notin J
  BY <1>1
<1>4. J # K
  BY <1>3
<1>5. Cardinality(J) # Cardinality(K)
  BY <1>2, <1>3, <1>4, FS_Subset
<1> QED
  BY <1>5 DEF LineOf

LEMMA LineOnce ==
  ASSUME NEW d \in Devices, NEW j \in Mapped(d), NEW k \in Mapped(d),
         LineOf(d, j) = LineOf(d, k)
  PROVE  j = k
<1>1. j \in Keys[d] /\ k \in Keys[d] /\ j \in Nat /\ k \in Nat
  BY InputDevicesAssumption DEF Mapped
<1>2. ~(j < k) /\ ~(k < j)
  BY <1>1, LineBelow
<1> QED
  BY <1>1, <1>2

LEMMA MappedLine ==
  ASSUME NEW d \in Devices, NEW k \in Mapped(d)
  PROVE  /\ LineOf(d, k) \in 0 .. MaxLines - 1
         /\ LineOf(d, k) \in Lines(d)
         /\ <<d, LineOf(d, k)>> \in Pairs
<1>1. k \in Nat /\ LineOf(d, k) < MaxLines /\ MaxLines \in Nat
  BY InputDevicesAssumption DEF Mapped
<1>2. LineOf(d, k) \in Nat
  BY <1>1, LineIsNat
<1>3. LineOf(d, k) \in Lines(d)
  BY DEF Lines
<1> QED
  BY <1>1, <1>2, <1>3 DEF Pairs

(* The timers are all different. *)
LEMMA TimerNames ==
  /\ \A d, e : InputTimer(d) = InputTimer(e) <=> d = e
  /\ \A d : InputTimer(d) # StartupTimer
BY DEF InputTimer, StartupTimer

LEMMA Periods ==
  /\ PollPeriod \in Nat /\ StartupDelay \in Nat /\ MaxLate \in Nat
  /\ 0 < PollPeriod /\ PollPeriod < StartupDelay
BY InputDevicesAssumption

(* What inputMask() finds, key by key. *)
LEMMA InputMaskFacts ==
  ASSUME Types, NEW d \in Devices
  PROVE  /\ InputMask(d) \subseteq 0 .. MaxLines - 1
         /\ \A k \in Mapped(d) :
              LineOf(d, k) \in InputMask(d) <=>
                IF k \in unread[d] /\ Api[d] # "ApiGpio"
                THEN k \in closed[d] ELSE Level(d, k)
<1>1. /\ closed[d] \subseteq Mapped(d) /\ unread[d] \subseteq Mapped(d)
      /\ input_mask \subseteq 0 .. MaxLines - 1
  BY DEF Types, TypeOK
<1>2. \A k \in Mapped(d) : LineOf(d, k) \in 0 .. MaxLines - 1
  BY MappedLine
<1>3. \A j, k \in Mapped(d) : LineOf(d, j) = LineOf(d, k) => j = k
  BY LineOnce
<1>4. CASE Api[d] = "ApiGpio"
  <2>1. InputMask(d) = {LineOf(d, k) : k \in closed[d]}
    BY <1>4 DEF InputMask
  <2>2. \A k \in Mapped(d) : Level(d, k) <=> k \in closed[d]
    BY <1>4 DEF Level
  <2> QED
    BY <1>1, <1>2, <1>3, <1>4, <2>1, <2>2
<1>5. CASE Api[d] # "ApiGpio"
  <2>1. InputMask(d) =
          (input_mask \ {LineOf(d, k) : k \in unread[d] \ closed[d]})
            \cup {LineOf(d, k) : k \in unread[d] \cap closed[d]}
    BY <1>5 DEF InputMask, Drained
  <2>2. \A k \in Mapped(d) : Level(d, k) <=> LineOf(d, k) \in input_mask
    BY <1>5 DEF Level
  <2> QED
    BY <1>1, <1>2, <1>3, <1>5, <2>1, <2>2
<1> QED
  BY <1>4, <1>5

(* What reading the events of d does to the static mask. *)
LEMMA ReadFacts ==
  ASSUME Types, NEW d \in Devices, ReadEvents(d)
  PROVE  /\ input_mask' = IF Api[d] = "ApiGpio" THEN input_mask
                                                ELSE InputMask(d)
         /\ input_mask' \subseteq 0 .. MaxLines - 1
         /\ DOMAIN unread' = Devices
         /\ unread'[d] = {}
         /\ \A e \in Devices \ {d} : unread'[e] = unread[e]
<1>1. input_mask \subseteq 0 .. MaxLines - 1 /\ DOMAIN unread = Devices
  BY DEF Types, TypeOK
<1> QED
  BY <1>1, InputMaskFacts DEF ReadEvents, InputMask

-----------------------------------------------------------------------------
(* Starting the timers of the devices in D. *)
LEMMA StartTimersFacts ==
  ASSUME NEW D
  PROVE  /\ DOMAIN StartTimers(D) = {InputTimer(d) : d \in D} \cup {StartupTimer}
         /\ StartTimers(D)[StartupTimer] = StartupDelay
         /\ \A d \in D : StartTimers(D)[InputTimer(d)] = PollPeriod
         /\ \A t \in DOMAIN StartTimers(D) :
              StartTimers(D)[t] \in -MaxLate .. StartupDelay
BY TimerNames, Periods DEF StartTimers

(* A device that has just been opened is polled before it is heard. *)
LEMMA StartUnpolled ==
  ASSUME NEW D, NEW d \in D, timers = StartTimers(D)
  PROVE  Unpolled(d)
BY StartTimersFacts, Periods DEF Unpolled

LEMMA InitIInv == Init => IInv
<1> SUFFICES ASSUME Init PROVE IInv
  OBVIOUS
<1>1. Types
  <2>1. /\ DOMAIN timers = {InputTimer(d) : d \in open} \cup {StartupTimer}
        /\ \A t \in DOMAIN timers : timers[t] \in -MaxLate .. StartupDelay
    BY StartTimersFacts DEF Init
  <2>2. /\ \A d \in open : InputTimer(d) \in DOMAIN timers
        /\ DOMAIN timers \subseteq
             {InputTimer(d) : d \in open} \cup {StartupTimer}
    BY <2>1
  <2>3. \A d \in Devices : /\ closed[d] \subseteq Mapped(d)
                           /\ unread[d] = {} /\ moved[d] = {} /\ seen[d] = {}
    BY DEF Init
  <2>4. /\ running \in BOOLEAN /\ emitted = {} /\ open = Devices
        /\ input_mask = {} /\ last \in [Commanded -> {"none", "on", "off", "missed"}]
        /\ DOMAIN closed = Devices /\ DOMAIN unread = Devices
        /\ DOMAIN moved = Devices /\ DOMAIN seen = Devices
    BY DEF Init
  <2> QED
    BY <2>1, <2>2, <2>3, <2>4 DEF Types, TypeOK
<1>2. ReportsAreTrue
  BY DEF Init, ReportsAreTrue
<1>3. \A d \in open : DeviceInv(d)
  BY StartUnpolled DEF Init, DeviceInv
<1> QED
  BY <1>1, <1>2, <1>3 DEF IInv

LEMMA ReloadIInv == IInv /\ Reload => IInv'
<1> SUFFICES ASSUME IInv, Reload PROVE IInv'
  OBVIOUS
<1>1. /\ open' \subseteq Devices /\ timers' = StartTimers(open')
      /\ unread' = [d \in Devices |-> {}] /\ seen' = [d \in Devices |-> {}]
      /\ moved' = [d \in Devices |-> {}] /\ emitted' = {}
      /\ last' = [c \in Commanded |->
                    IF c[2] \in moved[c[1]] \/ ~OnItsOwn(c[1])
                    THEN "missed" ELSE last[c]]
      /\ UNCHANGED <<closed, input_mask, running>>
  BY DEF Reload
<1>2. Types'
  <2>1. /\ DOMAIN timers' = {InputTimer(d) : d \in open'} \cup {StartupTimer}
        /\ \A t \in DOMAIN timers' : timers'[t] \in -MaxLate .. StartupDelay
    BY <1>1, StartTimersFacts
  <2>2. /\ \A d \in open' : InputTimer(d) \in DOMAIN timers'
        /\ DOMAIN timers' \subseteq
             {InputTimer(d) : d \in open'} \cup {StartupTimer}
    BY <2>1
  <2>3. \A d \in Devices : unread'[d] = {} /\ moved'[d] = {} /\ seen'[d] = {}
    BY <1>1
  <2>4. /\ last' \in [Commanded -> {"none", "on", "off", "missed"}]
        /\ DOMAIN unread' = Devices /\ DOMAIN moved' = Devices
        /\ DOMAIN seen' = Devices
    BY <1>1 DEF IInv, Types, TypeOK
  <2> QED
    BY <1>1, <2>1, <2>2, <2>3, <2>4 DEF IInv, Types, TypeOK
<1>3. ReportsAreTrue'
  BY <1>1 DEF ReportsAreTrue
<1>4. ASSUME NEW d \in open' PROVE DeviceInv(d)'
  <2>1. Unpolled(d)'
    BY <1>1, StartTimersFacts, Periods DEF Unpolled
  <2> QED
    BY <2>1 DEF DeviceInv
<1> QED
  BY <1>2, <1>3, <1>4 DEF IInv

LEMMA LineChangeIInv ==
  ASSUME IInv, NEW d \in Devices, NEW k \in Mapped(d), LineChange(d, k)
  PROVE  IInv'
<1>1. /\ closed' = [closed EXCEPT ![d] = IF k \in closed[d]
                                         THEN closed[d] \ {k}
                                         ELSE closed[d] \cup {k}]
      /\ unread' = [unread EXCEPT ![d] =
                      IF Api[d] = "ApiInput" /\ d \in open
                      THEN unread[d] \cup {k} ELSE unread[d]]
      /\ moved' = [moved EXCEPT ![d] = moved[d] \cup {LineOf(d, k)}]
      /\ emitted' = {}
      /\ UNCHANGED <<open, input_mask, seen, timers, running, last>>
  BY DEF LineChange
<1>2. Types
  BY DEF IInv
<1>3. Types'
  BY <1>1, <1>2, MappedLine DEF Types, TypeOK
<1>4. ReportsAreTrue'
  BY <1>1 DEF ReportsAreTrue
<1>5. ASSUME NEW e \in open, OnItsOwn(e), NEW j \in Mapped(e), KeyInv(e, j)
      PROVE  KeyInv(e, j)'
  <2>1. e \in Devices
    BY <1>2 DEF Types, TypeOK
  <2>2. CASE e = d /\ j = k
    <3>1. /\ LineOf(d, k) \in moved'[d]
          /\ Api[d] = "ApiInput" => k \in unread'[d]
      BY <1>1, <1>2, <2>2 DEF Types
    <3>2. Api[d] \in {"ApiGpio", "ApiInput"}
      BY InputDevicesAssumption
    <3> QED
      BY <2>2, <3>1, <3>2 DEF KeyInv, Level
  <2>3. CASE ~(e = d /\ j = k)
    <3>1. /\ j \in closed'[e] <=> j \in closed[e]
          /\ j \in unread'[e] <=> j \in unread[e]
      BY <1>1, <1>2, <2>1, <2>3 DEF Types
    <3>2. LineOf(e, j) \in moved'[e] <=> LineOf(e, j) \in moved[e]
      BY <1>1, <1>2, <2>1, <2>3, LineOnce DEF Types
    <3> QED
      BY <1>1, <1>5, <3>1, <3>2 DEF KeyInv, Level
  <2> QED
    BY <2>2, <2>3
<1>6. ASSUME NEW e \in open' PROVE DeviceInv(e)'
  BY <1>1, <1>5 DEF IInv, DeviceInv, OnItsOwn, Unpolled
<1> QED
  BY <1>3, <1>4, <1>6 DEF IInv

(* Time passes for all timers alike. *)
LEMMA TickIInv == IInv /\ Tick => IInv'
<1> SUFFICES ASSUME IInv, Tick PROVE IInv'
  OBVIOUS
<1>1. /\ emitted' = {}
      /\ UNCHANGED <<closed, unread, open, input_mask, seen, running, moved,
                     last>>
  BY DEF Tick
<1>2. /\ DOMAIN timers' = DOMAIN timers
      /\ \A t \in DOMAIN timers : /\ timers[t] \in -MaxLate .. StartupDelay
                                  /\ timers[t] > -MaxLate
                                  /\ timers'[t] = timers[t] - 1
  BY DEF Tick, Elapsed, MayElapse, IInv, Types, TypeOK
<1>3. Types'
  <2>1. \A t \in DOMAIN timers' : timers'[t] \in -MaxLate .. StartupDelay
    BY <1>2, Periods
  <2> QED
    BY <1>1, <1>2, <2>1 DEF IInv, Types, TypeOK
<1>4. ReportsAreTrue'
  BY <1>1 DEF ReportsAreTrue
<1>5. ASSUME NEW d \in open' PROVE DeviceInv(d)'
  <2>1. Unpolled(d) => Unpolled(d)'
    <3>1. InputTimer(d) \in DOMAIN timers
      BY <1>1, <1>5 DEF IInv, Types
    <3> QED
      BY <1>2, <3>1, Periods DEF Unpolled
  <2>2. \A k \in Mapped(d) : KeyInv(d, k) => KeyInv(d, k)'
    BY <1>1 DEF KeyInv, Level
  <2> QED
    BY <1>1, <2>1, <2>2 DEF IInv, DeviceInv, OnItsOwn
<1> QED
  BY <1>3, <1>4, <1>5 DEF IInv

(* The startup timer runs out after every device has been polled. *)
LEMMA StartupTimeoutDataIInv == IInv /\ StartupTimeoutData => IInv'
<1> SUFFICES ASSUME IInv, StartupTimeoutData PROVE IInv'
  OBVIOUS
<1>1. /\ emitted' = {}
      /\ UNCHANGED <<closed, unread, open, input_mask, seen, running, moved,
                     last>>
  BY DEF StartupTimeoutData
<1>2. /\ DOMAIN timers' = DOMAIN timers \ {StartupTimer}
      /\ \A t \in DOMAIN timers' : timers'[t] = timers[t]
      /\ StartupTimer \in DOMAIN timers
      /\ \A t \in DOMAIN timers : timers[StartupTimer] <= timers[t]
  BY DEF StartupTimeoutData, Stopped, DueFirst
<1>3. Types'
  BY <1>1, <1>2, TimerNames DEF IInv, Types, TypeOK
<1>4. ReportsAreTrue'
  BY <1>1 DEF ReportsAreTrue
<1>5. ASSUME NEW d \in open' PROVE DeviceInv(d)'
  <2>1. ~Unpolled(d)
    <3>1. /\ InputTimer(d) \in DOMAIN timers
          /\ \A t \in DOMAIN timers : timers[t] \in Int
      BY <1>1, <1>5, Periods DEF IInv, Types, TypeOK
    <3> QED
      BY <1>2, <3>1 DEF Unpolled
  <2>2. \A k \in Mapped(d) : KeyInv(d, k) => KeyInv(d, k)'
    BY <1>1 DEF KeyInv, Level
  <2> QED
    BY <1>1, <2>1, <2>2 DEF IInv, DeviceInv, OnItsOwn
<1> QED
  BY <1>3, <1>4, <1>5 DEF IInv

(* Reading the events of one device does nothing to another that does not  *)
(* share the static mask.                                                  *)
LEMMA ReadOther ==
  ASSUME Types, NEW d \in open, NEW e \in open \ {d}, ReadEvents(d),
         OnItsOwn(e), NEW k \in Mapped(e), KeyInv(e, k),
         closed' = closed, moved'[e] = moved[e], seen'[e] = seen[e]
  PROVE  KeyInv(e, k)'
<1>1. d \in Devices /\ e \in Devices
  BY DEF Types, TypeOK
<1>2. unread'[e] = unread[e]
  BY <1>1, ReadFacts
<1>3. Api[e] = "ApiGpio" \/ input_mask' = input_mask
  BY <1>1, ReadFacts DEF OnItsOwn
<1> QED
  BY <1>2, <1>3 DEF KeyInv, Level

LEMMA InputStateIInv ==
  ASSUME IInv, NEW d \in Devices, InputState(d)
  PROVE  IInv'
<1>1. /\ d \in open /\ Api[d] = "ApiInput" /\ ReadEvents(d) /\ emitted' = {}
      /\ UNCHANGED <<closed, open, seen, timers, running, moved, last>>
  BY DEF InputState
<1>2. Types
  BY DEF IInv
<1>3. /\ input_mask' = InputMask(d)
      /\ input_mask' \subseteq 0 .. MaxLines - 1
      /\ DOMAIN unread' = Devices /\ unread'[d] = {}
      /\ \A e \in Devices \ {d} : unread'[e] = unread[e]
  BY <1>1, <1>2, ReadFacts
<1>4. Types'
  BY <1>1, <1>2, <1>3 DEF Types, TypeOK
<1>5. ReportsAreTrue'
  BY <1>1 DEF ReportsAreTrue
<1>6. ASSUME NEW k \in Mapped(d), KeyInv(d, k) PROVE KeyInv(d, k)'
  <2>1. LineOf(d, k) \in InputMask(d) <=>
          IF k \in unread[d] THEN k \in closed[d] ELSE Level(d, k)
    BY <1>1, <1>2, InputMaskFacts
  <2>2. Level(d, k)' <=> LineOf(d, k) \in InputMask(d)
    BY <1>1, <1>3 DEF Level
  <2> QED
    BY <1>1, <1>3, <1>6, <2>1, <2>2 DEF KeyInv
<1>7. ASSUME NEW e \in open' PROVE DeviceInv(e)'
  <2>1. OnItsOwn(e) => \A k \in Mapped(e) : KeyInv(e, k) => KeyInv(e, k)'
    BY <1>1, <1>2, <1>6, ReadOther
  <2> QED
    BY <1>1, <2>1 DEF IInv, DeviceInv, OnItsOwn, Unpolled
<1> QED
  BY <1>4, <1>5, <1>7 DEF IInv

-----------------------------------------------------------------------------
(* What inputTimerData() does, without the watchdog's stray read. *)
LEMMA InputTimerDataFacts ==
  ASSUME NEW d \in Devices, InputTimerData(d)
  PROVE  /\ DueFirst(timers, InputTimer(d))
         /\ \A r \in emitted' :
              \E l \in Lines(d), found \in {"Transition", "High", "fault"} :
                /\ Connected /\ (l \in InputMask(d)) # (l \in seen[d])
                /\ r = InputChangedData(<<d, l>>, l \in InputMask(d), found)
         /\ running' \in BOOLEAN
         /\ seen' = [seen EXCEPT ![d] = InputMask(d)]
         /\ last \in [Commanded -> {"none", "on", "off", "missed"}] =>
              last' \in [Commanded -> {"none", "on", "off", "missed"}]
         /\ ReadEvents(d)
         /\ timers' = Rearmed(timers, InputTimer(d), PollPeriod)
         /\ moved' = [moved EXCEPT ![d] = {}]
         /\ UNCHANGED <<closed, open>>
<1> DEFINE mask == InputMask(d)
           changed == {l \in Lines(d) :
                         Connected /\ (l \in mask) # (l \in seen[d])}
           faults(found) == {l \in changed : found = "fault" /\ Stray(<<d, l>>)}
           done(found) == {l \in changed : \A f \in faults(found) : l < f}
<1>1. PICK found \in {"Transition", "High", "fault"} :
        /\ emitted' = {InputChangedData(<<d, l>>, l \in mask, found) :
                         l \in done(found)}
        /\ running' = (faults(found) = {})
        /\ seen' = [seen EXCEPT ![d] = mask]
        /\ last' = [c \in Commanded |->
                      IF c[1] = d /\ c[2] \in done(found)
                      THEN IF Invert(c, c[2] \in mask) THEN "on" ELSE "off"
                      ELSE IF c[1] = d /\ c[2] \in moved[d] /\ ~Connected
                           THEN "missed" ELSE last[c]]
  BY DEF InputTimerData
<1>2. done(found) \subseteq changed
  OBVIOUS
<1> HIDE DEF done, faults
<1>3. \A r \in emitted' : \E l \in changed :
        r = InputChangedData(<<d, l>>, l \in mask, found)
  BY <1>1, <1>2
<1>4. last \in [Commanded -> {"none", "on", "off", "missed"}] =>
        last' \in [Commanded -> {"none", "on", "off", "missed"}]
  BY <1>1
<1>5. running' \in BOOLEAN
  BY <1>1
<1>6. \A l \in changed :
        l \in Lines(d) /\ Connected /\ (l \in InputMask(d)) # (l \in seen[d])
  OBVIOUS
<1>7. /\ DueFirst(timers, InputTimer(d)) /\ ReadEvents(d)
      /\ timers' = Rearmed(timers, InputTimer(d), PollPeriod)
      /\ moved' = [moved EXCEPT ![d] = {}]
      /\ UNCHANGED <<closed, open>>
  BY DEF InputTimerData
<1> QED
  BY <1>1, <1>3, <1>4, <1>5, <1>6, <1>7

(* A line of a device on its own that is about to be reported has moved,   *)
(* and is found as it is.                                                  *)
LEMMA ChangeIsTrue ==
  ASSUME IInv, NEW d \in open, OnItsOwn(d), Connected, NEW l \in Lines(d),
         (l \in InputMask(d)) # (l \in seen[d])
  PROVE  /\ l \in moved[d]
         /\ (l \in InputMask(d)) <=> \E k \in closed[d] : LineOf(d, k) = l
<1>1. PICK k \in Mapped(d) : l = LineOf(d, k)
  BY DEF Lines
<1>2. Types /\ d \in Devices
  BY DEF IInv, Types, TypeOK
<1>3. KeyInv(d, k)
  BY DEF IInv, DeviceInv, Unpolled, Connected
<1>4. l \in InputMask(d) <=> IF k \in unread[d] /\ Api[d] # "ApiGpio"
                             THEN k \in closed[d] ELSE Level(d, k)
  BY <1>1, <1>2, InputMaskFacts
<1>5. l \in moved[d]
  BY <1>1, <1>3, <1>4 DEF KeyInv
<1>6. l \in InputMask(d) <=> k \in closed[d]
  BY <1>1, <1>3, <1>4, <1>5 DEF KeyInv, Level
<1>7. (\E j \in closed[d] : LineOf(d, j) = l) <=> k \in closed[d]
  <2>1. closed[d] \subseteq Mapped(d)
    BY <1>2 DEF Types, TypeOK
  <2> QED
    BY <1>1, <1>2, <2>1, LineOnce
<1> QED
  BY <1>5, <1>6, <1>7

(* What a report says of its line. *)
LEMMA ReportFacts ==
  ASSUME NEW d, NEW l, NEW found, NEW r,
         r = InputChangedData(<<d, l>>, l \in InputMask(d), found)
  PROVE  /\ r.pair = <<d, l>> /\ r.pair[1] = d /\ r.pair[2] = l
         /\ r.state = ((l \in InputMask(d)) # (<<d, l>> \in Inverted))
         /\ r.fed \subseteq DOMAIN NormalState
         /\ r.log = LogEntry(Events[<<d, l>>], r.state)
BY DEF InputChangedData, Invert, Fed

(* The words of the log. *)
LEMMA LogFacts ==
  ASSUME NEW events \in {"both", "rising", "falling"}, NEW state \in BOOLEAN
  PROVE  /\ LogEntry(events, state) = "ON" => state
         /\ LogEntry(events, state) = "OFF" => ~state
         /\ LogEntry(events, state) = "ACTIVATED" =>
              state = (events = "rising")
BY DEF LogEntry

LEMMA InputTimerDataIInv ==
  ASSUME IInv, NEW d \in Devices, InputTimerData(d)
  PROVE  IInv'
<1>1. /\ DueFirst(timers, InputTimer(d))
      /\ running' \in BOOLEAN
      /\ seen' = [seen EXCEPT ![d] = InputMask(d)]
      /\ last' \in [Commanded -> {"none", "on", "off", "missed"}]
      /\ ReadEvents(d)
      /\ timers' = Rearmed(timers, InputTimer(d), PollPeriod)
      /\ moved' = [moved EXCEPT ![d] = {}]
      /\ UNCHANGED <<closed, open>>
  BY InputTimerDataFacts DEF IInv, Types, TypeOK
<1>2. Types
  BY DEF IInv
<1>3. d \in open
  BY <1>1, <1>2, TimerNames DEF Types, TypeOK, DueFirst
<1>4. /\ DOMAIN timers' = DOMAIN timers
      /\ timers[InputTimer(d)] <= 0
      /\ timers'[InputTimer(d)] \in -MaxLate .. StartupDelay
      /\ \A t \in DOMAIN timers : t # InputTimer(d) => timers'[t] = timers[t]
  <2>1. /\ InputTimer(d) \in DOMAIN timers /\ timers[InputTimer(d)] <= 0
        /\ timers[InputTimer(d)] \in -MaxLate .. StartupDelay
    BY <1>1, <1>2 DEF DueFirst, Types, TypeOK
  <2>2. timers'[InputTimer(d)]
          = IF timers[InputTimer(d)] + PollPeriod < 0 THEN PollPeriod
            ELSE timers[InputTimer(d)] + PollPeriod
    BY <1>1, <2>1 DEF Rearmed
  <2>3. timers'[InputTimer(d)] \in -MaxLate .. StartupDelay
    BY <2>1, <2>2, Periods
  <2> QED
    BY <1>1, <2>1, <2>3 DEF Rearmed
<1>5. /\ input_mask' = IF Api[d] = "ApiGpio" THEN input_mask
                                             ELSE InputMask(d)
      /\ input_mask' \subseteq 0 .. MaxLines - 1
      /\ DOMAIN unread' = Devices /\ unread'[d] = {}
      /\ \A e \in Devices \ {d} : unread'[e] = unread[e]
  BY <1>1, <1>2, ReadFacts
<1>6. Types'
  <2>1. \A r \in emitted' : r.pair \in Pairs /\ r.fed \subseteq DOMAIN NormalState
    <3>1. \A l \in Lines(d) : <<d, l>> \in Pairs
      BY DEF Pairs
    <3>2. TAKE r \in emitted'
    <3>3. PICK l \in Lines(d), found \in {"Transition", "High", "fault"} :
            r = InputChangedData(<<d, l>>, l \in InputMask(d), found)
      BY InputTimerDataFacts
    <3>4. r.pair = <<d, l>> /\ r.fed \subseteq DOMAIN NormalState
      BY <3>3, ReportFacts
    <3> QED
      BY <3>1, <3>4
  <2>2. InputMask(d) \subseteq 0 .. MaxLines - 1
    BY <1>2, InputMaskFacts
  <2>3. \A t \in DOMAIN timers' : timers'[t] \in -MaxLate .. StartupDelay
    BY <1>2, <1>4 DEF Types, TypeOK
  <2>4. \A e \in Devices : /\ closed'[e] \cup unread'[e] \subseteq Mapped(e)
                           /\ moved'[e] \subseteq Lines(e)
                           /\ seen'[e] \subseteq 0 .. MaxLines - 1
    BY <1>1, <1>2, <1>5, <2>2 DEF Types, TypeOK
  <2> QED
    BY <1>1, <1>2, <1>4, <1>5, <2>1, <2>3, <2>4 DEF Types, TypeOK
<1>7. ReportsAreTrue'
  <2> SUFFICES ASSUME NEW r \in emitted', OnItsOwn(r.pair[1])'
               PROVE  /\ r.state = Active(r.pair)'
                      /\ r.log = "ON" => Active(r.pair)'
                      /\ r.log = "OFF" => ~Active(r.pair)'
                      /\ r.log = "ACTIVATED" =>
                           Active(r.pair)' = (Events[r.pair] = "rising")
    BY DEF ReportsAreTrue
  <2>1. PICK l \in Lines(d), found \in {"Transition", "High", "fault"} :
          /\ Connected /\ (l \in InputMask(d)) # (l \in seen[d])
          /\ r = InputChangedData(<<d, l>>, l \in InputMask(d), found)
    BY InputTimerDataFacts
  <2>2. /\ r.pair = <<d, l>> /\ r.pair[1] = d /\ r.pair[2] = l
        /\ r.state = ((l \in InputMask(d)) # (<<d, l>> \in Inverted))
        /\ r.log = LogEntry(Events[<<d, l>>], r.state)
    BY <2>1, ReportFacts
  <2>3. OnItsOwn(d)
    BY <1>1, <2>2 DEF OnItsOwn
  <2>4. (l \in InputMask(d)) <=> \E k \in closed[d] : LineOf(d, k) = l
    BY <1>3, <2>1, <2>3, ChangeIsTrue
  <2>5. Active(r.pair)' = ((\E k \in closed[d] : LineOf(d, k) = l)
                             # (<<d, l>> \in Inverted))
    BY <1>1, <2>2 DEF Active
  <2>6. r.state = Active(r.pair)' /\ r.state \in BOOLEAN
    <3> DEFINE mask == l \in InputMask(d)
               closes == \E k \in closed[d] : LineOf(d, k) = l
    <3>1. mask \in BOOLEAN /\ closes \in BOOLEAN
      OBVIOUS
    <3>2. mask <=> closes
      BY <2>4
    <3>3. /\ r.state = (mask # (<<d, l>> \in Inverted))
          /\ Active(r.pair)' = (closes # (<<d, l>> \in Inverted))
      BY <2>2, <2>5
    <3> HIDE DEF mask, closes
    <3> QED
      BY <3>1, <3>2, <3>3
  <2>7. Events[<<d, l>>] \in {"both", "rising", "falling"}
    BY InputDevicesAssumption DEF Pairs
  <2> QED
    BY <2>2, <2>6, <2>7, LogFacts
<1>8. ASSUME NEW e \in open' PROVE DeviceInv(e)'
  <2>1. CASE e = d
    <3>1. ASSUME NEW k \in Mapped(d) PROVE KeyInv(d, k)'
      <4>1. LineOf(d, k) \notin moved'[d] /\ k \notin unread'[d]
        BY <1>1, <1>2, <1>5 DEF Types
      <4>2. seen'[d] = InputMask(d)
        BY <1>1, <1>2 DEF Types
      <4>3. LineOf(d, k) \in InputMask(d) <=> Level(d, k)'
        <5>1. CASE Api[d] = "ApiGpio"
          BY <1>1, <1>2, <5>1, InputMaskFacts DEF Level
        <5>2. CASE Api[d] # "ApiGpio"
          BY <1>5, <5>2 DEF Level
        <5> QED
          BY <5>1, <5>2
      <4> QED
        BY <4>1, <4>2, <4>3 DEF KeyInv
    <3> QED
      BY <2>1, <3>1 DEF DeviceInv
  <2>2. CASE e # d
    <3>1. e \in open /\ e \in Devices /\ InputTimer(e) \in DOMAIN timers
      BY <1>1, <1>2 DEF Types, TypeOK
    <3>2. moved'[e] = moved[e] /\ seen'[e] = seen[e]
      BY <1>1, <1>2, <2>2, <3>1 DEF Types
    <3>3. Unpolled(e) => Unpolled(e)'
      BY <1>4, <2>2, <3>1, TimerNames DEF Unpolled
    <3>4. OnItsOwn(e) => \A k \in Mapped(e) : KeyInv(e, k) => KeyInv(e, k)'
      BY <1>1, <1>2, <1>3, <2>2, <3>1, <3>2, ReadOther
    <3> QED
      BY <1>1, <3>1, <3>3, <3>4 DEF IInv, DeviceInv, OnItsOwn
  <2> QED
    BY <2>1, <2>2
<1> QED
  BY <1>6, <1>7, <1>8 DEF IInv

-----------------------------------------------------------------------------
LEMMA NextIInv == IInv /\ [Next]_vars => IInv'
<1> SUFFICES ASSUME IInv, [Next]_vars PROVE IInv'
  OBVIOUS
<1>1. CASE Tick
  BY <1>1, TickIInv
<1>2. CASE Handler
  BY <1>2, StartupTimeoutDataIInv, InputTimerDataIInv DEF Handler
<1>3. CASE Reload
  BY <1>3, ReloadIInv
<1>4. CASE \E d \in Devices : InputState(d)
  BY <1>4, InputStateIInv
<1>5. CASE \E d \in Devices : \E k \in Mapped(d) : LineChange(d, k)
  BY <1>5, LineChangeIInv
<1>6. CASE UNCHANGED vars
  <2>1. /\ UNCHANGED <<closed, unread, open, input_mask, seen, timers>>
        /\ UNCHANGED <<running, emitted, moved, last>>
    BY <1>6 DEF vars
  <2>2. Types'
    BY <2>1 DEF IInv, Types, TypeOK
  <2>3. ReportsAreTrue'
    BY <2>1 DEF IInv, ReportsAreTrue, OnItsOwn, Active
  <2>4. \A d \in open' : DeviceInv(d)'
    BY <2>1 DEF IInv, DeviceInv, KeyInv, Level, Unpolled, OnItsOwn
  <2> QED
    BY <2>2, <2>3, <2>4 DEF IInv
<1> QED
  BY <1>1, <1>2, <1>3, <1>4, <1>5, <1>6 DEF Next

(* The inductive invariant holds of every behaviour of the inputs. *)
THEOREM InputsInOrder == Spec => []IInv
<1> QED
  BY InitIInv, NextIInv, PTL DEF Spec

(* Every variable keeps its type; whatever a stray read has found, only    *)
(* watchdogs that exist are updated.                                       *)
THEOREM TypeCorrect == Spec => []TypeOK
<1>1. IInv => TypeOK
  BY DEF IInv, Types
<1> QED
  BY <1>1, InputsInOrder, PTL

(* What is logged and commanded is how the line stands at that moment, on  *)
(* every device that does not share the static mask with another.          *)
THEOREM ReportsTellTheTruth == Spec => []ReportsAreTrue
<1>1. IInv => ReportsAreTrue
  BY DEF IInv
<1> QED
  BY <1>1, InputsInOrder, PTL

(* Only the poll reports, and only lines that have moved. *)
LEMMA ReportStep ==
  ASSUME IInv, [Next]_vars, vars' # vars, NEW r \in emitted',
         OnItsOwn(r.pair[1])
  PROVE  r.pair[2] \in moved[r.pair[1]]
<1>1. PICK d \in Devices : InputTimerData(d)
  BY DEF Next, Handler, Tick, StartupTimeoutData, Reload, InputState, LineChange
<1>2. PICK l \in Lines(d), found \in {"Transition", "High", "fault"} :
        /\ Connected /\ (l \in InputMask(d)) # (l \in seen[d])
        /\ r = InputChangedData(<<d, l>>, l \in InputMask(d), found)
  BY <1>1, InputTimerDataFacts
<1>3. r.pair[1] = d /\ r.pair[2] = l
  BY <1>2, ReportFacts
<1>4. d \in open
  BY <1>1, InputTimerDataFacts, TimerNames DEF IInv, Types, TypeOK, DueFirst
<1> QED
  BY <1>2, <1>3, <1>4, ChangeIsTrue

(* A start, a reload or what the static mask still holds never makes a     *)
(* report: a line that is reported has moved since the poll before.        *)
THEOREM ReportsHaveCause == Spec => ReportHasCause
<1> DEFINE A == \A r \in emitted' :
                  OnItsOwn(r.pair[1]) => r.pair[2] \in moved[r.pair[1]]
<1>1. IInv /\ [Next]_vars => [A]_vars
  BY ReportStep
<1> HIDE DEF A
<1>2. Spec => [][A]_vars
  BY <1>1, InputsInOrder, PTL DEF Spec
<1> QED
  BY <1>2 DEF A, ReportHasCause
=============================================================================

-------------------------- MODULE UdpMonitorProofs --------------------------
(***************************************************************************)
(* Proofs about UdpMonitor, for any monitors, timeouts, queues and         *)
(* lateness of the event loop.                                             *)
(*                                                                         *)
(* That silence is reported and no timeout is false depends on how the     *)
(* timer of a monitor, the age of what waits in its socket and the time    *)
(* since its last datagram fit together: IInv adds that.                   *)
(***************************************************************************)
EXTENDS UdpMonitor, SequenceTheorems, WellFoundedInduction, TLAPS

(* A notifier waits only for a socket that has something to read, and an   *)
(* empty socket makes nothing wait.                                        *)
SocketInv(m) ==
  /\ m \in notified => queue[m] # <<>>
  /\ queue[m] = <<>> => wait[m] = 0

(* The timer and the silence add up to the timeout, but for the time the   *)
(* last datagram may have waited before it was read; with nothing unread   *)
(* they add up to no less.                                                 *)
TimerInv(m) ==
  m \in DOMAIN timers =>
    /\ timers[m] + quiet[m] <= Timeout[m] + MaxLate
    /\ queue[m] = <<>> => timers[m] + quiet[m] >= Timeout[m]

(* What a stopped read loop has left in the socket: the timer was started  *)
(* when it was left, so the two lie there equally long.                    *)
LeftInv(m) ==
  MaxLate < Timeout[m] /\ m \notin notified /\ fresh[m] # Len(queue[m]) =>
    /\ m \in DOMAIN timers
    /\ timers[m] + wait[m] >= Timeout[m]

WatchedInv(m) ==
  /\ state[m] <=> m \in DOMAIN timers
  /\ queue[m] # <<>> => quiet[m] <= wait[m]
  /\ TimerInv(m)
  /\ LeftInv(m)

MonInv(m) == SocketInv(m) /\ (m \in Watched => WatchedInv(m))

Shape ==
  DOMAIN queue = Monitors /\ DOMAIN fresh = Monitors /\ DOMAIN wait = Monitors

IInv ==
  /\ TypeOK
  /\ Shape
  /\ \A m \in Monitors : MonInv(m)

-----------------------------------------------------------------------------
(* Every non-empty set of natural numbers has a least one. *)
LEMMA LeastExists ==
  ASSUME NEW S \in SUBSET Nat, S # {}
  PROVE  \E m \in S : \A n \in S : m <= n
<1>1. \E m \in S : \A n \in S : <<n, m>> \notin OpToRel(<, Nat)
  BY NatLessThanWellFounded, WFMin, Zenon
<1>2. PICK m \in S : \A n \in S : <<n, m>> \notin OpToRel(<, Nat)
  BY <1>1
<1>3. \A n \in S : ~(n < m)
  BY <1>2 DEF OpToRel
<1> QED
  BY <1>3

(* What the types say about one monitor. *)
LEMMA TypeOf ==
  ASSUME TypeOK, NEW m \in Monitors
  PROVE  /\ Timeout[m] \in Nat /\ MaxLate \in Nat
         /\ state[m] \in BOOLEAN
         /\ queue[m] \in Seq(Datagrams) /\ Len(queue[m]) \in Nat
         /\ fresh[m] \in Nat /\ fresh[m] <= Len(queue[m])
         /\ wait[m] \in Nat /\ wait[m] <= MaxLate
         /\ quiet[m] \in Nat
         /\ m \in DOMAIN timers => /\ m \in Watched
                                   /\ timers[m] \in Int
                                   /\ timers[m] >= -MaxLate
                                   /\ timers[m] <= Timeout[m]
<1>1. Timeout[m] \in Nat /\ MaxLate \in Nat
  BY UdpMonitorAssumption
<1>2. /\ queue[m] \in Seq(Datagrams)
      /\ fresh[m] \in 0 .. Len(queue[m])
      /\ wait[m] \in 0 .. MaxLate
  BY DEF TypeOK
<1>3. Len(queue[m]) \in Nat
  BY <1>2, LenProperties
<1>4. m \in DOMAIN timers => /\ m \in Watched
                             /\ timers[m] \in -MaxLate .. Timeout[m]
  BY DEF TypeOK
<1> QED
  BY <1>1, <1>2, <1>3, <1>4 DEF TypeOK

(* What a read leaves behind is the end of what was there. *)
LEMMA UnreadFacts ==
  ASSUME NEW q \in Seq(Datagrams)
  PROVE  Unread(q) \in Seq(Datagrams) /\ Len(Unread(q)) <= Len(q)
<1> DEFINE stops == {i \in DOMAIN q : q[i] # "data"}
           first == CHOOSE i \in stops : \A j \in stops : i <= j
<1>1. /\ DOMAIN q = 1 .. Len(q) /\ Len(q) \in Nat
      /\ \A i \in 1 .. Len(q) : q[i] \in Datagrams
  BY LenProperties, ElementOfSeq
<1>2. CASE stops = {}
  <2>1. Unread(q) = <<>>
    BY <1>2 DEF Unread
  <2> QED
    BY <1>1, <2>1, EmptySeq
<1>3. CASE stops # {}
  <2>1. stops \in SUBSET Nat
    BY <1>1
  <2>2. first \in stops
    BY <1>3, <2>1, LeastExists
  <2>3. Unread(q) = SubSeq(q, first + 1, Len(q))
    BY <1>3 DEF Unread
  <2> HIDE DEF first
  <2>4. first \in 1 .. Len(q)
    BY <1>1, <2>2
  <2>5. \A i \in first + 1 .. Len(q) : q[i] \in Datagrams
    BY <1>1, <2>4
  <2>6. /\ SubSeq(q, first + 1, Len(q)) \in Seq(Datagrams)
        /\ Len(SubSeq(q, first + 1, Len(q))) =
             IF first + 1 <= Len(q) THEN Len(q) - (first + 1) + 1 ELSE 0
    BY <1>1, <2>4, <2>5, SubSeqProperties
  <2> QED
    BY <1>1, <2>3, <2>4, <2>6
<1> QED
  BY <1>2, <1>3

(* A step that leaves everything about a monitor alone. *)
LEMMA KeptNext ==
  ASSUME NEW m \in Monitors, MonInv(m),
         m \in notified' <=> m \in notified,
         state'[m] = state[m], queue'[m] = queue[m], wait'[m] = wait[m],
         fresh'[m] = fresh[m], quiet'[m] = quiet[m],
         m \in DOMAIN timers' <=> m \in DOMAIN timers,
         m \in DOMAIN timers => timers'[m] = timers[m]
  PROVE  MonInv(m)'
BY DEF MonInv, SocketInv, WatchedInv, TimerInv, LeftInv, Watched

-----------------------------------------------------------------------------
(* A monitor as Init() sets it up. *)
LEMMA FreshMonitor ==
  ASSUME NEW m \in Monitors,
         state[m] = TRUE, queue[m] = <<>>, wait[m] = 0, fresh[m] = 0,
         quiet[m] = 0, m \notin notified,
         m \in Watched => m \in DOMAIN timers /\ timers[m] = Timeout[m]
  PROVE  MonInv(m)
<1>1. Timeout[m] \in Nat /\ MaxLate \in Nat /\ Len(<<>>) = 0
  BY UdpMonitorAssumption
<1> QED
  BY <1>1 DEF MonInv, SocketInv, WatchedInv, TimerInv, LeftInv

(* IInv holds when the daemon has started. *)
LEMMA InitIInv == Init => IInv
<1> SUFFICES ASSUME Init PROVE IInv
  OBVIOUS
<1>1. MaxQueue \in Nat /\ MaxLate \in Nat /\ Timeout \in [Monitors -> Nat]
  BY UdpMonitorAssumption
<1>2. <<>> \in Seq(Datagrams) /\ Len(<<>>) = 0
  OBVIOUS
<1>3. TypeOK /\ Shape
  BY <1>1, <1>2 DEF Init, TypeOK, Shape, Clear, Watched
<1>4. \A m \in Monitors : MonInv(m)
  BY FreshMonitor DEF Init, Clear
<1> QED
  BY <1>3, <1>4 DEF IInv

(* IInv after a SIGHUP, which sets every monitor up again. *)
LEMMA ReloadIInv == IInv /\ Reload => IInv'
<1> SUFFICES ASSUME IInv, Reload PROVE IInv'
  OBVIOUS
<1>1. MaxQueue \in Nat /\ MaxLate \in Nat /\ Timeout \in [Monitors -> Nat]
  BY UdpMonitorAssumption
<1>2. <<>> \in Seq(Datagrams) /\ Len(<<>>) = 0
  OBVIOUS
<1>3. TypeOK' /\ Shape'
  BY <1>1, <1>2 DEF Reload, IInv, TypeOK, Shape, Clear, Watched
<1>4. ASSUME NEW m \in Monitors
      PROVE  MonInv(m)'
  <2>1. /\ state'[m] = TRUE /\ queue'[m] = <<>> /\ wait'[m] = 0
        /\ fresh'[m] = 0 /\ quiet'[m] = 0 /\ m \notin notified'
        /\ m \in Watched => m \in DOMAIN timers' /\ timers'[m] = Timeout[m]
    BY DEF Reload, Clear
  <2> QED
    BY <1>1, <1>2, <2>1
       DEF MonInv, SocketInv, WatchedInv, TimerInv, LeftInv, Watched
<1> QED
  BY <1>3, <1>4 DEF IInv

(* IInv after a datagram has come in: the silence ends, and what is new    *)
(* since the pass began grows with the queue.                              *)
LEMMA ArriveIInv ==
  ASSUME NEW n \in Monitors, NEW d \in Datagrams
  PROVE  IInv /\ Arrive(n, d) => IInv'
<1> SUFFICES ASSUME IInv, Arrive(n, d) PROVE IInv'
  OBVIOUS
<1>1. MaxQueue \in Nat
  BY UdpMonitorAssumption
<1>2. /\ queue[n] \in Seq(Datagrams) /\ Len(queue[n]) \in Nat
      /\ fresh[n] \in Nat /\ fresh[n] <= Len(queue[n])
  BY TypeOf DEF IInv
<1>3. /\ queue'[n] = Append(queue[n], d)
      /\ fresh'[n] = fresh[n] + 1
      /\ quiet'[n] = 0
      /\ Len(queue[n]) < MaxQueue
      /\ UNCHANGED <<state, timers, notified, wait>>
  BY DEF Arrive, IInv, Shape, TypeOK
<1>4. /\ queue'[n] \in Seq(Datagrams) /\ queue'[n] # <<>>
      /\ Len(queue'[n]) = Len(queue[n]) + 1
  BY <1>2, <1>3, AppendProperties
<1>5. ASSUME NEW m \in Monitors, m # n
      PROVE  /\ queue'[m] = queue[m] /\ fresh'[m] = fresh[m]
             /\ quiet'[m] = quiet[m]
  BY <1>5 DEF Arrive, IInv, Shape, TypeOK
<1>6. TypeOK'
  <2>1. ASSUME NEW m \in Monitors
        PROVE  /\ queue'[m] \in Seq(Datagrams) /\ Len(queue'[m]) <= MaxQueue
               /\ fresh'[m] \in 0 .. Len(queue'[m])
    <3>1. CASE m = n
      <4>1. Len(queue'[n]) <= MaxQueue /\ fresh'[n] \in 0 .. Len(queue'[n])
        BY <1>1, <1>2, <1>3, <1>4
      <4> QED
        BY <1>4, <3>1, <4>1
    <3>2. CASE m # n
      BY <1>5, <3>2 DEF IInv, TypeOK
    <3> QED
      BY <3>1, <3>2
  <2>2. quiet' \in [Monitors -> Nat]
    BY DEF Arrive, IInv, TypeOK
  <2> QED
    BY <1>3, <2>1, <2>2 DEF IInv, TypeOK
<1>7. Shape'
  BY <1>3 DEF Arrive, IInv, Shape
<1>8. ASSUME NEW m \in Monitors
      PROVE  MonInv(m)'
  <2>1. MonInv(m)
    BY DEF IInv
  <2>2. CASE m # n
    BY <1>3, <1>5, <2>1, <2>2, KeptNext
  <2>3. CASE m = n
    <3>1. /\ Timeout[m] \in Nat /\ MaxLate \in Nat /\ wait[m] \in Nat
          /\ m \in DOMAIN timers => /\ timers[m] \in Int
                                    /\ timers[m] <= Timeout[m]
      BY TypeOf DEF IInv
    <3>2. fresh'[m] = Len(queue'[m]) <=> fresh[m] = Len(queue[m])
      BY <1>2, <1>3, <1>4, <2>3
    <3> QED
      BY <1>3, <1>4, <2>1, <2>3, <3>1, <3>2
         DEF MonInv, SocketInv, WatchedInv, TimerInv, LeftInv, Watched
  <2> QED
    BY <2>2, <2>3
<1> QED
  BY <1>6, <1>7, <1>8 DEF IInv

(* IInv when a pass begins: every socket that has something is on its way  *)
(* to be read.                                                             *)
LEMMA BeginPassIInv == IInv /\ BeginPass => IInv'
<1> SUFFICES ASSUME IInv, BeginPass PROVE IInv'
  OBVIOUS
<1>1. TypeOK'
  <2>1. \A m \in Monitors : fresh'[m] \in 0 .. Len(queue[m])
    BY TypeOf DEF BeginPass, IInv
  <2> QED
    BY <2>1 DEF BeginPass, IInv, TypeOK
<1>2. Shape'
  BY DEF BeginPass, IInv, Shape
<1>3. ASSUME NEW m \in Monitors
      PROVE  MonInv(m)'
  <2>1. /\ m \in notified' <=> queue[m] # <<>>
        /\ fresh'[m] = 0
        /\ UNCHANGED <<state, timers, queue, wait, quiet>>
    BY DEF BeginPass
  <2>2. queue[m] = <<>> => Len(queue[m]) = 0
    OBVIOUS
  <2>3. MonInv(m)
    BY DEF IInv
  <2> QED
    BY <2>1, <2>2, <2>3
       DEF MonInv, SocketInv, WatchedInv, TimerInv, LeftInv, Watched
<1> QED
  BY <1>1, <1>2, <1>3 DEF IInv

(* IInv after a socket was read: the monitor is up and timed anew, and     *)
(* what it has heard last came in no longer ago than MaxLate.              *)
LEMMA MonitorPacketDataIInv ==
  ASSUME NEW n \in Monitors
  PROVE  IInv /\ MonitorPacketData(n) => IInv'
<1> SUFFICES ASSUME IInv, MonitorPacketData(n) PROVE IInv'
  OBVIOUS
<1>1. /\ Timeout[n] \in Nat /\ MaxLate \in Nat
      /\ queue[n] \in Seq(Datagrams) /\ Len(queue[n]) \in Nat
      /\ fresh[n] \in Nat /\ fresh[n] <= Len(queue[n])
      /\ wait[n] \in Nat /\ wait[n] <= MaxLate
      /\ quiet[n] \in Nat
  BY TypeOf DEF IInv
<1>2. /\ queue'[n] = Unread(queue[n])
      /\ fresh'[n] = IF fresh[n] > Len(queue'[n]) THEN Len(queue'[n])
                                                 ELSE fresh[n]
      /\ wait'[n] = IF queue'[n] = <<>> THEN 0 ELSE wait[n]
      /\ state'[n] = TRUE
      /\ quiet' = quiet
      /\ n \in notified /\ notified' = notified \ {n}
  BY DEF MonitorPacketData, ReadAll, SetState, IInv, Shape, TypeOK
<1>3. ASSUME NEW m \in Monitors, m # n
      PROVE  /\ queue'[m] = queue[m] /\ fresh'[m] = fresh[m]
             /\ wait'[m] = wait[m] /\ state'[m] = state[m]
             /\ m \in notified' <=> m \in notified
  BY <1>3 DEF MonitorPacketData, ReadAll, SetState, IInv, Shape, TypeOK
<1>4. /\ queue'[n] \in Seq(Datagrams)
      /\ Len(queue'[n]) \in Nat /\ Len(queue'[n]) <= Len(queue[n])
  BY <1>1, <1>2, UnreadFacts, LenProperties
<1>5. timers' = IF Timeout[n] > 0 THEN Started(timers, n, Timeout[n])
                                  ELSE Stopped(timers, {n})
  BY DEF MonitorPacketData, TimedAnew
<1>6. /\ n \in Watched => n \in DOMAIN timers' /\ timers'[n] = Timeout[n]
      /\ n \notin Watched => n \notin DOMAIN timers'
      /\ \A m \in Monitors : m # n =>
           /\ m \in DOMAIN timers' <=> m \in DOMAIN timers
           /\ m \in DOMAIN timers => timers'[m] = timers[m]
      /\ DOMAIN timers' \subseteq DOMAIN timers \cup {n}
  <2>1. CASE Timeout[n] > 0
    BY <1>5, <2>1 DEF Started, Watched
  <2>2. CASE ~(Timeout[n] > 0)
    BY <1>5, <2>2 DEF Stopped, Watched
  <2> QED
    BY <2>1, <2>2
<1>7. TypeOK'
  <2>1. DOMAIN timers' \subseteq Watched
    BY <1>6 DEF IInv, TypeOK, Watched
  <2>2. ASSUME NEW m \in DOMAIN timers'
        PROVE  timers'[m] \in -MaxLate .. Timeout[m]
    <3>1. m \in Monitors
      BY <2>1 DEF Watched
    <3>2. CASE m = n
      BY <1>1, <1>6, <2>1, <3>2
    <3>3. CASE m # n
      BY <1>6, <3>1, <3>3 DEF IInv, TypeOK
    <3> QED
      BY <3>2, <3>3
  <2>3. ASSUME NEW m \in Monitors
        PROVE  /\ queue'[m] \in Seq(Datagrams) /\ Len(queue'[m]) <= MaxQueue
               /\ fresh'[m] \in 0 .. Len(queue'[m])
               /\ wait'[m] \in 0 .. MaxLate
    <3>1. CASE m = n
      <4>1. Len(queue[n]) <= MaxQueue /\ MaxQueue \in Nat
        BY UdpMonitorAssumption DEF IInv, TypeOK
      <4> QED
        BY <1>1, <1>2, <1>4, <3>1, <4>1
    <3>2. CASE m # n
      BY <1>3, <3>2 DEF IInv, TypeOK
    <3> QED
      BY <3>1, <3>2
  <2>4. state' \in [Monitors -> BOOLEAN]
    BY DEF MonitorPacketData, SetState, IInv, TypeOK
  <2> QED
    BY <1>2, <2>1, <2>2, <2>3, <2>4 DEF IInv, TypeOK
<1>8. Shape'
  BY DEF MonitorPacketData, ReadAll, IInv, Shape
<1>9. ASSUME NEW m \in Monitors
      PROVE  MonInv(m)'
  <2>1. MonInv(m)
    BY DEF IInv
  <2>2. CASE m # n
    BY <1>2, <1>3, <1>6, <2>1, <2>2, KeptNext
  <2>3. CASE m = n
    <3>1. SocketInv(m)'
      BY <1>2, <2>3 DEF SocketInv
    <3>2. m \in Watched => quiet[m] <= wait[m]
      BY <1>2, <2>1, <2>3 DEF MonInv, SocketInv, WatchedInv
    <3>3. m \in Watched => TimerInv(m)'
      BY <1>1, <1>2, <1>6, <2>3, <3>2 DEF TimerInv
    <3>4. m \in Watched => LeftInv(m)'
      BY <1>1, <1>2, <1>6, <2>3 DEF LeftInv
    <3> QED
      BY <1>2, <1>6, <2>3, <3>1, <3>2, <3>3, <3>4
         DEF MonInv, WatchedInv, Watched
  <2> QED
    BY <2>2, <2>3
<1> QED
  BY <1>7, <1>8, <1>9 DEF IInv

(* IInv after a timeout, which takes the timer and the state away at once. *)
(* What a stopped read loop had left cannot be there any more.             *)
LEMMA MonitorTimeoutDataIInv ==
  ASSUME NEW n \in Monitors
  PROVE  IInv /\ MonitorTimeoutData(n) => IInv'
<1> SUFFICES ASSUME IInv, MonitorTimeoutData(n) PROVE IInv'
  OBVIOUS
<1>1. /\ n \in DOMAIN timers /\ timers[n] <= 0
      /\ state'[n] = FALSE
      /\ \A m \in Monitors : m # n => state'[m] = state[m]
      /\ state' \in [Monitors -> BOOLEAN]
      /\ UNCHANGED <<queue, notified, wait, fresh, quiet>>
  BY DEF MonitorTimeoutData, DueFirst, SetState, IInv, TypeOK
<1>2. /\ DOMAIN timers' = DOMAIN timers \ {n}
      /\ \A m \in DOMAIN timers : m # n => timers'[m] = timers[m]
  BY DEF MonitorTimeoutData, Stopped
<1>3. TypeOK'
  BY <1>1, <1>2 DEF IInv, TypeOK
<1>4. Shape'
  BY <1>1 DEF IInv, Shape
<1>5. ASSUME NEW m \in Monitors
      PROVE  MonInv(m)'
  <2>1. MonInv(m)
    BY DEF IInv
  <2>2. CASE m # n
    BY <1>1, <1>2, <2>1, <2>2, KeptNext
  <2>3. CASE m = n
    <3>1. /\ Timeout[m] \in Nat /\ MaxLate \in Nat
          /\ wait[m] \in Nat /\ wait[m] <= MaxLate
          /\ timers[m] \in Int /\ m \in Watched
      BY <1>1, <2>3, TypeOf DEF IInv
    <3>2. LeftInv(m)'
      BY <1>1, <2>1, <2>3, <3>1 DEF MonInv, WatchedInv, LeftInv
    <3> QED
      BY <1>1, <1>2, <2>1, <2>3, <3>2
         DEF MonInv, SocketInv, WatchedInv, TimerInv, Watched
  <2> QED
    BY <2>2, <2>3
<1> QED
  BY <1>3, <1>4, <1>5 DEF IInv

(* IInv after a tick: what a timer loses the silence gains, and so does    *)
(* what waits in a socket.                                                 *)
LEMMA TickIInv == IInv /\ Tick => IInv'
<1> SUFFICES ASSUME IInv, Tick PROVE IInv'
  OBVIOUS
<1>1. /\ DOMAIN timers' = DOMAIN timers
      /\ \A m \in DOMAIN timers :
           timers[m] > -MaxLate /\ timers'[m] = timers[m] - 1
      /\ UNCHANGED <<state, queue, notified, fresh>>
  BY DEF Tick, MayElapse, Elapsed
<1>2. ASSUME NEW m \in Monitors
      PROVE  /\ wait'[m] = IF queue[m] = <<>> THEN 0 ELSE wait[m] + 1
             /\ quiet'[m] = IF quiet[m] < Cap(m) THEN quiet[m] + 1
                                                 ELSE quiet[m]
             /\ queue[m] # <<>> => wait[m] < MaxLate
  BY DEF Tick
<1>3. TypeOK'
  <2>1. ASSUME NEW m \in DOMAIN timers
        PROVE  timers'[m] \in -MaxLate .. Timeout[m]
    <3>1. m \in Monitors
      BY DEF IInv, TypeOK, Watched
    <3> QED
      BY <1>1, <3>1, TypeOf DEF IInv
  <2>2. ASSUME NEW m \in Monitors
        PROVE  wait'[m] \in 0 .. MaxLate
    BY <1>2, TypeOf DEF IInv
  <2>3. quiet' \in [Monitors -> Nat]
    BY DEF Tick, IInv, TypeOK
  <2> QED
    BY <1>1, <2>1, <2>2, <2>3 DEF IInv, TypeOK
<1>4. Shape'
  BY <1>1 DEF Tick, IInv, Shape
<1>5. ASSUME NEW m \in Monitors
      PROVE  MonInv(m)'
  <2>1. MonInv(m)
    BY DEF IInv
  <2>2. /\ Timeout[m] \in Nat /\ MaxLate \in Nat
        /\ wait[m] \in Nat /\ quiet[m] \in Nat
        /\ fresh[m] \in Nat /\ fresh[m] <= Len(queue[m])
        /\ m \in DOMAIN timers => timers[m] \in Int
    BY TypeOf DEF IInv
  <2>3. SocketInv(m)'
    BY <1>1, <1>2, <2>1 DEF MonInv, SocketInv
  <2>4. ASSUME m \in Watched
        PROVE  WatchedInv(m)'
    <3>1. WatchedInv(m)
      BY <2>1, <2>4 DEF MonInv
    <3>2. Cap(m) = Timeout[m] + 2 * MaxLate + 2
      BY <2>4 DEF Cap
    <3>3. queue[m] # <<>> => quiet'[m] <= wait'[m]
      BY <1>2, <2>2, <3>1 DEF WatchedInv
    <3>4. TimerInv(m)'
      <4> SUFFICES ASSUME m \in DOMAIN timers
                   PROVE  /\ timers'[m] + quiet'[m] <= Timeout[m] + MaxLate
                          /\ queue[m] = <<>> =>
                               timers'[m] + quiet'[m] >= Timeout[m]
        BY <1>1 DEF TimerInv
      <4>1. /\ timers[m] + quiet[m] <= Timeout[m] + MaxLate
            /\ queue[m] = <<>> => timers[m] + quiet[m] >= Timeout[m]
        BY <3>1 DEF WatchedInv, TimerInv
      <4>2. timers[m] > -MaxLate /\ timers'[m] = timers[m] - 1
        BY <1>1
      <4>3. quiet[m] < Cap(m)
        BY <2>2, <3>2, <4>1, <4>2
      <4>4. quiet'[m] = quiet[m] + 1
        BY <1>2, <4>3
      <4> QED
        BY <2>2, <4>1, <4>2, <4>4
    <3>5. LeftInv(m)'
      <4>1. fresh[m] # Len(queue[m]) => queue[m] # <<>>
        BY <2>2
      <4> QED
        BY <1>1, <1>2, <2>2, <3>1, <4>1 DEF WatchedInv, LeftInv
    <3> QED
      BY <1>1, <3>1, <3>3, <3>4, <3>5 DEF WatchedInv
  <2> QED
    BY <2>3, <2>4 DEF MonInv, Watched
<1> QED
  BY <1>3, <1>4, <1>5 DEF IInv

(* Every step preserves IInv. *)
LEMMA NextIInv == IInv /\ [Next]_vars => IInv'
<1> SUFFICES ASSUME IInv, [Next]_vars PROVE IInv'
  OBVIOUS
<1>1. CASE Tick
  BY <1>1, TickIInv
<1>2. CASE BeginPass
  BY <1>2, BeginPassIInv
<1>3. ASSUME NEW m \in Monitors, MonitorPacketData(m) PROVE IInv'
  BY <1>3, MonitorPacketDataIInv
<1>4. ASSUME NEW m \in Monitors, MonitorTimeoutData(m) PROVE IInv'
  BY <1>4, MonitorTimeoutDataIInv
<1>5. CASE Reload
  BY <1>5, ReloadIInv
<1>6. ASSUME NEW m \in Monitors, NEW d \in Datagrams, Arrive(m, d) PROVE IInv'
  BY <1>6, ArriveIInv
<1>7. CASE UNCHANGED vars
  BY <1>7 DEF vars, IInv, TypeOK, Shape, MonInv, SocketInv, WatchedInv,
              TimerInv, LeftInv, Watched
<1> QED
  BY <1>1, <1>2, <1>3, <1>4, <1>5, <1>6, <1>7 DEF Next, Handler

-----------------------------------------------------------------------------
(* The timers, sockets and states of the monitors fit together in every    *)
(* behaviour.                                                              *)
THEOREM MonitorsInOrder == Spec => []IInv
BY InitIInv, NextIInv, PTL DEF Spec

(* Types, and that nothing is ever later than the event loop may be.       *)
THEOREM TypeCorrect == Spec => []TypeOK
<1>1. IInv => TypeOK
  BY DEF IInv
<1> QED
  BY <1>1, MonitorsInOrder, PTL

(* A monitor is up exactly while it is timed: the stop() and the start()   *)
(* of monitorPacketData() never leave one up that can no longer time out.  *)
THEOREM UpAreTimed == Spec => []UpIsTimed
<1>1. IInv => UpIsTimed
  BY DEF IInv, MonInv, WatchedInv, UpIsTimed, Watched
<1> QED
  BY <1>1, MonitorsInOrder, PTL

(* A monitor that has heard nothing for its timeout is down. *)
THEOREM SilenceIsReported == Spec => []SilenceReported
<1>1. ASSUME IInv PROVE SilenceReported
  <2> SUFFICES ASSUME NEW m \in Watched,
                      quiet[m] > Timeout[m] + 2 * MaxLate, state[m]
               PROVE  FALSE
    BY DEF SilenceReported
  <2>1. m \in Monitors
    BY DEF Watched
  <2>2. WatchedInv(m)
    BY <1>1, <2>1 DEF IInv, MonInv
  <2>3. /\ Timeout[m] \in Nat /\ MaxLate \in Nat /\ quiet[m] \in Nat
        /\ m \in DOMAIN timers => timers[m] \in Int /\ timers[m] >= -MaxLate
    BY <1>1, <2>1, TypeOf DEF IInv
  <2> QED
    BY <2>2, <2>3 DEF WatchedInv, TimerInv
<1> QED
  BY <1>1, MonitorsInOrder, PTL

(* Only the timeout handler takes a monitor down, and then for a reason.   *)
LEMMA StepNoFalseTimeout ==
  ASSUME IInv, [Next]_vars, NEW m \in Monitors, state[m], ~state'[m]
  PROVE  IF queue[m] = <<>>
         THEN quiet[m] >= Timeout[m]
         ELSE MaxLate < Timeout[m] => fresh[m] = Len(queue[m])
<1>1. MonitorTimeoutData(m)
  <2>1. ASSUME NEW n \in Monitors, MonitorTimeoutData(n) PROVE n = m
    BY <2>1 DEF MonitorTimeoutData, SetState, IInv, TypeOK
  <2>2. ASSUME NEW n \in Monitors, MonitorPacketData(n) PROVE FALSE
    BY <2>2 DEF MonitorPacketData, SetState, IInv, TypeOK
  <2>3. ASSUME NEW n \in Monitors, NEW d \in Datagrams, Arrive(n, d)
        PROVE  FALSE
    BY <2>3 DEF Arrive
  <2>4. ~(Tick \/ BeginPass \/ Reload \/ UNCHANGED vars)
    BY DEF Tick, BeginPass, Reload, Clear, vars
  <2> QED
    BY <2>1, <2>2, <2>3, <2>4 DEF Next, Handler
<1>2. m \in DOMAIN timers /\ timers[m] <= 0 /\ m \notin notified
  BY <1>1 DEF MonitorTimeoutData, DueFirst
<1>3. /\ Timeout[m] \in Nat /\ MaxLate \in Nat /\ quiet[m] \in Nat
      /\ wait[m] \in Nat /\ wait[m] <= MaxLate
      /\ timers[m] \in Int /\ m \in Watched
  BY <1>2, TypeOf DEF IInv
<1>4. TimerInv(m) /\ LeftInv(m)
  BY <1>3 DEF IInv, MonInv, WatchedInv
<1> QED
  BY <1>2, <1>3, <1>4 DEF TimerInv, LeftInv

(* No timeout is false. *)
THEOREM TimeoutsAreTrue == Spec => NoFalseTimeout
<1>1. IInv /\ [Next]_vars =>
        [\A m \in Monitors :
           state[m] /\ ~state'[m] =>
             IF queue[m] = <<>>
             THEN quiet[m] >= Timeout[m]
             ELSE MaxLate < Timeout[m] => fresh[m] = Len(queue[m])]_vars
  BY StepNoFalseTimeout
<1> QED
  BY <1>1, MonitorsInOrder, PTL DEF Spec, NoFalseTimeout
=============================================================================

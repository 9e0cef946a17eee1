----------------------------- MODULE UdpMonitor -----------------------------
(***************************************************************************)
(* The UDP monitors: GPIMonitor and the two handlers of gpilog.cpp that    *)
(* serve it, the sockets they read and the passes Qt's event loop makes    *)
(* over sockets and timers.                                                *)
(*                                                                         *)
(* A pass first asks which sockets are readable, then activates those,     *)
(* then the due timers; a datagram that comes in after the question waits  *)
(* for the next pass.                                                      *)
(***************************************************************************)
EXTENDS QtTimers, Sequences, FiniteSets

CONSTANTS
  Monitors,  \* gpio_monitors
  Timeout,   \* [Monitors -> ticks], Timeout=; 0 for none
  MaxQueue,  \* most datagrams that wait in a socket
  MaxLate    \* most ticks the event loop may be late for a due timer

ASSUME UdpMonitorAssumption ==
  /\ IsFiniteSet(Monitors)
  /\ Timeout \in [Monitors -> Nat]
  /\ MaxQueue \in Nat \ {0}
  /\ MaxLate \in Nat

(* What readBlock() returns for a datagram: a positive length, zero for an *)
(* empty one, and an error for one whose checksum turns out wrong, which   *)
(* the kernel throws away.                                                 *)
Datagrams == {"data", "empty", "corrupt"}

VARIABLES
  state,     \* mon_state
  timers,    \* the running timeout timers (see QtTimers)
  queue,     \* the datagrams that wait in each socket
  notified,  \* monitors whose notifier this pass has yet to activate
  wait,      \* ticks the oldest datagram has waited in each socket
  fresh,     \* history: datagrams that came in since this pass began
  quiet      \* history: ticks since any datagram or a reload, capped

vars == <<state, timers, queue, notified, wait, fresh, quiet>>

Watched == {m \in Monitors : Timeout[m] > 0}

(* The history counts for the monitors that have a timeout. *)
Cap(m) == IF m \in Watched THEN Timeout[m] + 2 * MaxLate + 2 ELSE 0

-----------------------------------------------------------------------------
(* clear(): a GPIMonitor begins with mon_state true. *)
Clear == [m \in Monitors |-> TRUE]

(* The timer of a monitor that has a timeout runs from the start. *)
Init ==
  /\ state = Clear
  /\ timers = [m \in Watched |-> Timeout[m]]
  /\ queue = [m \in Monitors |-> <<>>]
  /\ notified = {}
  /\ wait = [m \in Monitors |-> 0]
  /\ fresh = [m \in Monitors |-> 0]
  /\ quiet = [m \in Monitors |-> 0]

(* restartData() on a SIGHUP: Restart() closes the sockets with whatever   *)
(* waits in them, Init() opens new ones.                                   *)
Reload ==
  /\ notified = {}
  /\ state' = Clear
  /\ timers' = [m \in Watched |-> Timeout[m]]
  /\ queue' = [m \in Monitors |-> <<>>]
  /\ wait' = [m \in Monitors |-> 0]
  /\ fresh' = [m \in Monitors |-> 0]
  /\ quiet' = [m \in Monitors |-> 0]
  /\ UNCHANGED notified

(* A datagram reaches the socket. *)
Arrive(m, d) ==
  /\ Len(queue[m]) < MaxQueue
  /\ queue' = [queue EXCEPT ![m] = Append(@, d)]
  /\ fresh' = [fresh EXCEPT ![m] = @ + 1]
  /\ quiet' = [quiet EXCEPT ![m] = 0]
  /\ UNCHANGED <<state, timers, notified, wait>>

(* A pass of the event loop begins once the last one is over. *)
BeginPass ==
  /\ notified = {}
  /\ notified' = {m \in Monitors : queue[m] # <<>>}
  /\ fresh' = [m \in Monitors |-> 0]
  /\ UNCHANGED <<state, timers, queue, wait, quiet>>

(* The loop reads until readBlock() returns nothing positive. *)
Unread(q) ==
  LET stops == {i \in DOMAIN q : q[i] # "data"}
      first == CHOOSE i \in stops : \A j \in stops : i <= j
  IN  IF stops = {} THEN <<>> ELSE SubSeq(q, first + 1, Len(q))

(* readBlock() until the socket has nothing more, or fails. *)
ReadAll(m) ==
  /\ m \in notified
  /\ notified' = notified \ {m}
  /\ queue' = [queue EXCEPT ![m] = Unread(@)]
  /\ fresh' = [fresh EXCEPT ![m] = IF @ > Len(queue'[m]) THEN Len(queue'[m])
                                                         ELSE @]
  /\ wait' = [wait EXCEPT ![m] = IF queue'[m] = <<>> THEN 0 ELSE @]
  /\ UNCHANGED quiet

(* Faulty variants: a monitor that is down stays down; one that is up      *)
(* stays up.                                                               *)
SetStateDownOnly(m, s) == [state EXCEPT ![m] = @ /\ s]
SetStateUpOnly(m, s) == [state EXCEPT ![m] = @ \/ s]

SetState(m, s) == [state EXCEPT ![m] = s]

(* Faulty variants: a timeout of zero is not left out; the timer is not    *)
(* started again; only a monitor that is down is timed anew.               *)
TimedAnewAlways(m) == Started(timers, m, Timeout[m])
TimedAnewNever(m) == Stopped(timers, {m})
TimedAnewDown(m) ==
  IF Timeout[m] > 0 /\ ~state[m] THEN Started(timers, m, Timeout[m]) ELSE timers

TimedAnew(m) ==
  IF Timeout[m] > 0
  THEN Started(timers, m, Timeout[m])
  ELSE Stopped(timers, {m})

MonitorPacketData(m) ==
  /\ ReadAll(m)
  /\ state' = SetState(m, TRUE)
  /\ timers' = TimedAnew(m)

MonitorTimeoutData(m) ==
  /\ notified = {}
  /\ DueFirst(timers, m)
  /\ timers' = Stopped(timers, {m})
  /\ state' = SetState(m, FALSE)
  /\ UNCHANGED <<queue, notified, wait, fresh, quiet>>

(* Passes follow each other at once: a socket stays unread no longer than *)
(* a timer may be late.                                                   *)
Tick ==
  /\ MayElapse(timers, MaxLate)
  /\ \A m \in Monitors : queue[m] # <<>> => wait[m] < MaxLate
  /\ timers' = Elapsed(timers)
  /\ wait' = [m \in Monitors |-> IF queue[m] = <<>> THEN 0 ELSE wait[m] + 1]
  /\ quiet' = [m \in Monitors |-> IF quiet[m] < Cap(m) THEN quiet[m] + 1
                                                      ELSE quiet[m]]
  /\ UNCHANGED <<state, queue, notified, fresh>>

Handler ==
  \E m \in Monitors : MonitorPacketData(m) \/ MonitorTimeoutData(m)

Next ==
  \/ Tick
  \/ BeginPass
  \/ Handler
  \/ Reload
  \/ \E m \in Monitors, d \in Datagrams : Arrive(m, d)

Spec == Init /\ [][Next]_vars

(* Time goes on, passes follow one another and handlers run. *)
FairSpec == Spec /\ WF_vars(Tick \/ BeginPass \/ Handler)

-----------------------------------------------------------------------------
(* Types, and what is late by how much at most. *)
TypeOK ==
  /\ state \in [Monitors -> BOOLEAN]
  /\ DOMAIN timers \subseteq Watched
  /\ \A m \in DOMAIN timers : timers[m] \in -MaxLate .. Timeout[m]
  /\ \A m \in Monitors :
       /\ queue[m] \in Seq(Datagrams) /\ Len(queue[m]) <= MaxQueue
       /\ fresh[m] \in 0 .. Len(queue[m])
       /\ wait[m] \in 0 .. MaxLate
  /\ notified \subseteq Monitors
  /\ quiet \in [Monitors -> Nat]

(* A monitor that is up is being timed, and one that is down is not: the   *)
(* stop() at the head of monitorPacketData() and the start() at its end    *)
(* never leave a monitor up that can no longer time out.                   *)
UpIsTimed == \A m \in Watched : state[m] <=> m \in DOMAIN timers

(* A monitor times out only after a silence of its whole timeout, counted  *)
(* from the last datagram or from its creation at a start or a reload.  A  *)
(* datagram that is still unread came in after the pass that handles the   *)
(* timeout had looked at the sockets, unless handlers take longer than the *)
(* timeout: then what a stopped read loop left behind may wait for all of  *)
(* it within one pass.                                                     *)
NoFalseTimeout ==
  [][\A m \in Monitors :
       state[m] /\ ~state'[m] =>
         IF queue[m] = <<>>
         THEN quiet[m] >= Timeout[m]
         ELSE MaxLate < Timeout[m] => fresh[m] = Len(queue[m])]_vars

(* A monitor that has heard nothing at all for its timeout is down. *)
SilenceReported ==
  \A m \in Watched : quiet[m] > Timeout[m] + 2 * MaxLate => ~state[m]

(* Whatever waits in a socket brings its monitor up, even while datagrams  *)
(* keep coming in for the others.                                          *)
TrafficRestores ==
  \A m \in Monitors : queue[m] # <<>> ~> state[m]
=============================================================================

----------------------------- MODULE PingTester -----------------------------
(***************************************************************************)
(* The IPv4 address monitors: every PingTester (ping_tester.cpp), the one  *)
(* IPv4Pinger whose raw socket they share (ipv4_pinger.cpp), and the       *)
(* network and hosts between them, which may lose, delay, reorder and      *)
(* duplicate what they carry.                                              *)
(***************************************************************************)
EXTENDS QtTimers, FiniteSets

CONSTANTS
  Testers,     \* gpio_ping_testers
  Address,     \* [Testers -> addresses], Address=
  Pings,       \* [Testers -> Nat], Pings=
  ValidPings,  \* [Testers -> Nat], ValidPings=
  Interval,    \* [Testers -> ticks], Interval=
  Second,      \* ticks in the 1000 ms between two pings of a run
  Ids,         \* identifiers rand() can return
  FreshIds,    \* rand() never returns an identifier that is still in use
  Over,        \* every run that is over (see counted)
  MaxRtt,      \* ticks after which a request is answered or lost
  MaxLate      \* most ticks the event loop may be late for a due timer

Addresses == {Address[n] : n \in Testers}

ASSUME PingAssumption ==
  /\ IsFiniteSet(Testers)
  /\ Pings \in [Testers -> Nat] /\ ValidPings \in [Testers -> Nat]
  /\ Interval \in [Testers -> Nat \ {0}]
  /\ Second \in Nat \ {0}
  /\ FreshIds \in BOOLEAN
  /\ Over \notin Testers
  /\ MaxRtt \in Nat /\ MaxLate \in Nat

VARIABLES
  ping_istate,   \* pings sent in this run; Pings + 1 while asleep
  ping_id,       \* identifier of this run
  ping_replies,  \* reply slots
  ping_state,    \* what stateChanged() last said
  timers,        \* every ping_timer (see QtTimers)
  up,            \* the hosts that answer
  wire,          \* echo requests not yet answered or lost, with their ages
  clean,         \* history: this run has met no outage and lost nothing
  counted        \* history: the run whose request each reply slot counts

(* No handler reads clean and counted, nor the run a request on the wire   *)
(* carries: they say what belongs to which run.  A tester has one run at a *)
(* time, named by the tester, and a run that is over stays Over.           *)
vars == <<ping_istate, ping_id, ping_replies, ping_state, timers, up, wire,
          clean, counted>>

Seqs(n) == 0 .. Pings[n] - 1

(* The wire once the runs of these testers are over. *)
Ended(N) ==
  {[r EXCEPT !.run = IF r.run \in N THEN Over ELSE r.run] : r \in wire}

-----------------------------------------------------------------------------
(* The constructor marks every reply as received and leaves ping_id        *)
(* uninitialised.                                                          *)
Init ==
  /\ ping_istate = Pings
  /\ ping_id \in [Testers -> Ids]
  /\ ping_replies = [n \in Testers |-> [s \in Seqs(n) |-> TRUE]]
  /\ ping_state = [n \in Testers |-> TRUE]
  /\ timers = Interval
  /\ up \in SUBSET Addresses
  /\ wire = {}
  /\ clean = [n \in Testers |-> TRUE]
  /\ counted = [n \in Testers |-> [s \in Seqs(n) |-> n]]

(* restartData() on a SIGHUP: Restart() deletes the testers and the pinger *)
(* and Init() makes new ones.  The new raw socket hears the answers to the *)
(* requests of the old one.                                                *)
Reload ==
  /\ ping_istate' = Pings
  /\ ping_id' \in [Testers -> Ids]
  /\ ping_replies' = [n \in Testers |-> [s \in Seqs(n) |-> TRUE]]
  /\ ping_state' = [n \in Testers |-> TRUE]
  /\ timers' = Interval
  /\ clean' = [n \in Testers |-> TRUE]
  /\ counted' = [n \in Testers |-> [s \in Seqs(n) |-> n]]
  /\ wire' = Ended(Testers)
  /\ UNCHANGED up

(* sendPing(), with these requests on the wire already: a request that no  *)
(* host will answer is as good as lost.                                    *)
Send(n, seq, id, sent) ==
  wire' = IF Address[n] \in up
          THEN sent \cup {[addr |-> Address[n], seq |-> seq, id |-> id,
                           run |-> n, age |-> 0]}
          ELSE sent

Valid(n) == Cardinality({s \in Seqs(n) : ping_replies[n][s]})

(* Faulty variants: ValidPings= answers do not suffice; an address once    *)
(* reported lost is never restored.                                        *)
VerdictStrict(n) == Valid(n) > ValidPings[n]
VerdictLatched(n) == ping_state[n] /\ Valid(n) >= ValidPings[n]

Verdict(n) == Valid(n) >= ValidPings[n]

(* The last second of a run is over: judge it and sleep. *)
CheckReplies(n) ==
  /\ ping_istate[n] = Pings[n]
  /\ ping_state' = [ping_state EXCEPT ![n] = Verdict(n)]
  /\ ping_istate' = [ping_istate EXCEPT ![n] = @ + 1]
  /\ timers' = Started(timers, n, Interval[n])
  /\ UNCHANGED <<ping_id, ping_replies, wire, clean, counted>>

(* An answer to another request may still carry this identifier. *)
InUse(n, id) ==
  \/ \E r \in wire : r.addr = Address[n] /\ r.id = id
  \/ \E m \in Testers \ {n} : Address[m] = Address[n] /\ ping_id[m] = id

(* Faulty variants: the answers of the last run still count; ping_istate=0 *)
(* is missing.                                                             *)
NoRepliesKept(n) == ping_replies[n]
FirstPingLeft(n) == ping_istate[n]

NoReplies(n) == [s \in Seqs(n) |-> FALSE]
FirstPing(n) == 0

StartRun(n) ==
  /\ ping_istate[n] > Pings[n]
  /\ \E id \in Ids :
       /\ FreshIds => ~InUse(n, id)
       /\ ping_id' = [ping_id EXCEPT ![n] = id]
       /\ Send(n, FirstPing(n), id, Ended({n}))
  /\ ping_replies' = [ping_replies EXCEPT ![n] = NoReplies(n)]
  /\ ping_istate' = [ping_istate EXCEPT ![n] = FirstPing(n) + 1]
  /\ timers' = Started(timers, n, Second)
  /\ clean' = [clean EXCEPT ![n] = Address[n] \in up]
  /\ counted' = [counted EXCEPT ![n] = [s \in Seqs(n) |-> Over]]
  /\ UNCHANGED ping_state

NextPing(n) ==
  /\ ping_istate[n] < Pings[n]
  /\ Send(n, ping_istate[n], ping_id[n], wire)
  /\ ping_istate' = [ping_istate EXCEPT ![n] = @ + 1]
  /\ timers' = Started(timers, n, Second)
  /\ UNCHANGED <<ping_id, ping_replies, ping_state, clean, counted>>

TimeoutData(n) ==
  /\ DueFirst(timers, n)
  /\ CheckReplies(n) \/ StartRun(n) \/ NextPing(n)
  /\ UNCHANGED up

(* A faulty variant: instead of the identifier it is compared whether the  *)
(* number was asked.                                                       *)
MineByNumber(n, r) == Address[n] = r.addr /\ r.seq < ping_istate[n]

Mine(n, r) == Address[n] = r.addr /\ ping_id[n] = r.id

(* readyReadData() for one packet: the shared socket shows every answer to *)
(* every tester.  The network may deliver a copy and keep the original.    *)
EchoReceivedData(r) ==
  /\ ping_replies' =
       [n \in Testers |->
          [s \in Seqs(n) |-> ping_replies[n][s] \/ (Mine(n, r) /\ r.seq = s)]]
  /\ counted' =
       [n \in Testers |->
          [s \in Seqs(n) |-> IF ping_replies'[n][s] /\ ~ping_replies[n][s]
                             THEN r.run ELSE counted[n][s]]]
  /\ \/ wire' = wire \ {r}
     \/ UNCHANGED wire
  /\ UNCHANGED <<ping_istate, ping_id, ping_state, timers, up, clean>>

(* A request or its answer is lost. *)
Lose(r) ==
  /\ wire' = wire \ {r}
  /\ clean' = [n \in Testers |-> clean[n] /\ Address[n] # r.addr]
  /\ UNCHANGED <<ping_istate, ping_id, ping_replies, ping_state, timers, up,
                 counted>>

HostDown(a) ==
  /\ a \in up
  /\ up' = up \ {a}
  /\ clean' = [n \in Testers |-> clean[n] /\ Address[n] # a]
  /\ UNCHANGED <<ping_istate, ping_id, ping_replies, ping_state, timers,
                 wire, counted>>

HostUp(a) ==
  /\ a \notin up
  /\ up' = up \cup {a}
  /\ UNCHANGED <<ping_istate, ping_id, ping_replies, ping_state, timers,
                 wire, clean, counted>>

Tick ==
  /\ MayElapse(timers, MaxLate)
  /\ \A r \in wire : r.age < MaxRtt
  /\ timers' = Elapsed(timers)
  /\ wire' = {[r EXCEPT !.age = @ + 1] : r \in wire}
  /\ UNCHANGED <<ping_istate, ping_id, ping_replies, ping_state, up, clean,
                 counted>>

Arrival == \E r \in wire : EchoReceivedData(r) /\ wire' # wire

Loss == \E r \in wire : Lose(r)

Next ==
  \/ Tick
  \/ \E n \in Testers : TimeoutData(n)
  \/ \E r \in wire : EchoReceivedData(r)
  \/ Loss
  \/ Reload
  \/ \E a \in Addresses : HostDown(a) \/ HostUp(a)

Spec == Init /\ [][Next]_vars

(* Time goes on, the event loop runs the testers that are due, and what is *)
(* on the wire arrives (or is lost) in the end.                            *)
FairSpec ==
  Spec /\ WF_vars(Tick \/ (\E n \in Testers : TimeoutData(n)) \/ Arrival)

-----------------------------------------------------------------------------
(* Types; each tester's timer always runs. *)
TypeOK ==
  /\ \A n \in Testers :
       /\ ping_istate[n] \in 0 .. Pings[n] + 1
       /\ ping_replies[n] \in [Seqs(n) -> BOOLEAN]
  /\ ping_id \in [Testers -> Ids]
  /\ ping_state \in [Testers -> BOOLEAN]
  /\ DOMAIN timers = Testers
  /\ \A n \in Testers : timers[n] >= -MaxLate
  /\ up \subseteq Addresses
  /\ \A r \in wire : r.addr \in Addresses /\ r.id \in Ids
                     /\ r.seq \in Nat /\ r.age \in 0 .. MaxRtt
                     /\ r.run \in Testers \cup {Over}
  /\ clean \in [Testers -> BOOLEAN]
  /\ \A n \in Testers : counted[n] \in [Seqs(n) -> Testers \cup {Over}]

(* Enough requests of a run have time to be answered before it is judged,  *)
(* one Second after the last of them.                                      *)
Roomy(n) ==
  /\ ValidPings[n] <= Pings[n]
  /\ MaxRtt < Second * (Pings[n] - ValidPings[n] + 1)

Judged(n) == ping_istate[n] = Pings[n] + 1

(* A host that was up throughout a run, and lost none of its packets, is   *)
(* not judged unreachable by that run, whatever the order of its answers   *)
(* and whatever the other testers do on the shared socket, provided the    *)
(* network is fast enough for the pace of the run.                         *)
CleanRunPasses ==
  \A n \in Testers : Roomy(n) /\ Judged(n) /\ clean[n] => ping_state[n]

(* An address that has stopped answering for good is reported and stays    *)
(* reported, unless the daemon is reloaded forever: answers of earlier     *)
(* runs that are still on their way, and the answers to other testers,     *)
(* cannot keep it alive.                                                   *)
OutageReported ==
  \A n \in Testers :
    ValidPings[n] > 0 /\ Pings[n] > 0 =>
      (<>[](Address[n] \notin up) /\ <>[][~Reload]_vars
         => <>[]~ping_state[n])

(* An address that answers for good, over a network that loses nothing any *)
(* more and keeps pace, is reported restored and stays so.                 *)
RecoveryReported ==
  \A n \in Testers :
    Roomy(n) /\ Pings[n] > 0 =>
      (<>[](Address[n] \in up) /\ <>[][~Loss]_vars => <>[]ping_state[n])

(* The requests whose answers n has counted, by run and number. *)
Counted(n) == {<<counted[n][s], s>> : s \in {q \in Seqs(n) : ping_replies[n][q]}}

Abstract == INSTANCE Reachability WITH
  asked <- ping_istate,
  answered <- [n \in Testers |-> Counted(n)],
  reachable <- ping_state

(* Every verdict counts answers to that run's own requests and no others,  *)
(* and comes once all of them have been sent, if identifiers are fresh: an *)
(* answer to an earlier run of the tester, or to another tester of the     *)
(* address, counts for nothing even when its number has been asked again.  *)
JudgesItsOwnRun == Abstract!Spec
=============================================================================

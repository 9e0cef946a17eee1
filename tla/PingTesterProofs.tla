-------------------------- MODULE PingTesterProofs --------------------------
(***************************************************************************)
(* Proofs about PingTester, for any set of testers, of addresses and of    *)
(* identifiers: type correctness, CleanRunPasses and, with identifiers     *)
(* that are fresh, the refinement of Reachability.                         *)
(*                                                                         *)
(* CleanRunPasses says something of the last second of a run only.  The    *)
(* invariant behind it follows every request from the moment it is sent:   *)
(* as long as the run is clean it is answered, or on the wire for exactly  *)
(* as long as the pace of the run says.                                    *)
(***************************************************************************)
EXTENDS PingTester, FiniteSetTheorems, TLAPS

(* What can be on the wire. *)
Requests == [addr : Addresses, seq : Nat, id : Ids, run : Testers \cup {Over},
             age : 0 .. MaxRtt]

CountedType ==
  /\ DOMAIN counted = Testers
  /\ \A n \in Testers : counted[n] \in [Seqs(n) -> Testers \cup {Over}]

(* TypeOK, and that every variable is what its comment says it is. *)
Types ==
  /\ TypeOK
  /\ ping_istate \in [Testers -> Nat]
  /\ DOMAIN ping_replies = Testers
  /\ timers \in [Testers -> Int]
  /\ wire \subseteq Requests
  /\ CountedType

(* Request s of n's run is on the wire: it was sent when ping_istate was   *)
(* s, and every ping after it took a Second.                               *)
Pending(n, s) ==
  \E r \in wire :
    /\ Mine(n, r) /\ r.seq = s
    /\ r.age + timers[n] >= Second * (ping_istate[n] - s)

(* A clean run before its verdict has an answer to come for every request  *)
(* it has sent and has no answer to yet.                                   *)
Accounted(n) ==
  ping_istate[n] <= Pings[n] =>
    \A s \in 0 .. ping_istate[n] - 1 : ping_replies[n][s] \/ Pending(n, s)

CleanInv(n) ==
  clean[n] =>
    /\ ping_istate[n] < Pings[n] => Address[n] \in up
    /\ Accounted(n)
    /\ Roomy(n) /\ Judged(n) => ping_state[n]

(* A tester that sends no ping has nothing to judge. *)
NoPings(n) == Roomy(n) /\ Pings[n] = 0 => ping_state[n]

IInv == Types /\ \A n \in Testers : CleanInv(n) /\ NoPings(n)

-----------------------------------------------------------------------------
(* The constants of one tester. *)
LEMMA TesterConstants ==
  ASSUME NEW n \in Testers
  PROVE  /\ Pings[n] \in Nat /\ ValidPings[n] \in Nat
         /\ Interval[n] \in Nat \ {0}
         /\ Second \in Nat \ {0} /\ MaxRtt \in Nat /\ MaxLate \in Nat
BY PingAssumption

(* A verdict is never passed on more than Pings answers. *)
LEMMA ValidCount ==
  ASSUME Types, NEW n \in Testers
  PROVE  Verdict(n) \in BOOLEAN
BY DEF Verdict

(* If the first ValidPings requests of a run were answered, or all were,   *)
(* the address is judged reachable.                                        *)
LEMMA EnoughAnswers ==
  ASSUME Types, NEW n \in Testers, Roomy(n),
         \A s \in Seqs(n) : s < ValidPings[n] => ping_replies[n][s]
  PROVE  Verdict(n)
<1> DEFINE S == {s \in Seqs(n) : ping_replies[n][s]}
           T == 0 .. ValidPings[n] - 1
<1>1. /\ Pings[n] \in Nat /\ ValidPings[n] \in Nat
      /\ ValidPings[n] <= Pings[n]
  BY TesterConstants DEF Roomy
<1>2. T \in SUBSET S
  BY <1>1 DEF Seqs
<1>3. IsFiniteSet(Seqs(n)) /\ S \in SUBSET Seqs(n)
  <2>1. 0 \in Int /\ Pings[n] - 1 \in Int
    BY <1>1
  <2>2. IsFiniteSet(0 .. Pings[n] - 1)
    BY <2>1, FS_Interval
  <2> QED
    BY <2>2 DEF Seqs
<1>4. IsFiniteSet(S)
  BY <1>3, FS_Subset
<1>5. Cardinality(T) <= Cardinality(S)
  BY <1>2, <1>4, FS_Subset
<1>6. Cardinality(T) = ValidPings[n]
  <2> DEFINE b == ValidPings[n] - 1
  <2>1. 0 \in Int /\ b \in Int
    BY <1>1
  <2> HIDE DEF b
  <2>2. Cardinality(0 .. b) = IF 0 > b THEN 0 ELSE b - 0 + 1
    BY <2>1, FS_Interval
  <2> QED
    BY <1>1, <2>2 DEF b
<1> QED
  BY <1>5, <1>6 DEF Verdict, Valid

-----------------------------------------------------------------------------
(* The requests of the wire are all there still, of whatever run. *)
StillIn(sent) ==
  \A r \in wire : \E o \in sent : /\ o.addr = r.addr /\ o.id = r.id
                                 /\ o.seq = r.seq /\ o.age = r.age

(* The end of a run changes nothing on the wire but what it belongs to. *)
LEMMA EndedFacts ==
  ASSUME Types, NEW N
  PROVE  /\ Ended(N) \subseteq Requests
         /\ StillIn(Ended(N))
         /\ \A o \in Ended(N) :
              \E r \in wire : /\ o.addr = r.addr /\ o.id = r.id
                             /\ o.seq = r.seq
                             /\ o.run = IF r.run \in N THEN Over ELSE r.run
<1> DEFINE E(r) == [r EXCEPT !.run = IF r.run \in N THEN Over ELSE r.run]
<1>1. ASSUME NEW r \in wire
      PROVE  /\ E(r) \in Requests
             /\ E(r).addr = r.addr /\ E(r).id = r.id
             /\ E(r).seq = r.seq /\ E(r).age = r.age
             /\ E(r).run = IF r.run \in N THEN Over ELSE r.run
  <2>1. r \in Requests
    BY DEF Types
  <2> QED
    BY <2>1 DEF Requests
<1>2. Ended(N) = {E(r) : r \in wire}
  BY DEF Ended
<1> HIDE DEF E
<1> QED
  BY <1>1, <1>2 DEF StillIn

LEMMA InitIInv == Init => IInv
<1> SUFFICES ASSUME Init PROVE IInv
  OBVIOUS
<1>1. Types
  <2>1. /\ ping_istate \in [Testers -> Nat]
        /\ timers \in [Testers -> Int]
        /\ \A n \in Testers : timers[n] >= -MaxLate
    BY PingAssumption DEF Init
  <2>2. \A n \in Testers : /\ ping_istate[n] \in 0 .. Pings[n] + 1
                           /\ ping_replies[n] \in [Seqs(n) -> BOOLEAN]
    BY TesterConstants DEF Init
  <2>3. CountedType
    BY DEF Init, CountedType
  <2> QED
    BY <2>1, <2>2, <2>3 DEF Init, Types, TypeOK, CountedType
<1>2. ASSUME NEW n \in Testers PROVE CleanInv(n) /\ NoPings(n)
  <2>1. ping_istate[n] = Pings[n] /\ ping_state[n]
    BY DEF Init
  <2>2. \A s \in 0 .. ping_istate[n] - 1 : ping_replies[n][s]
    BY <2>1 DEF Init, Seqs
  <2>3. ~(ping_istate[n] < Pings[n])
    BY <2>1, TesterConstants
  <2> QED
    BY <2>1, <2>2, <2>3 DEF CleanInv, NoPings, Accounted
<1> QED
  BY <1>1, <1>2 DEF IInv

LEMMA ReloadIInv == IInv /\ Reload => IInv'
<1> SUFFICES ASSUME IInv, Reload PROVE IInv'
  OBVIOUS
<1>1. Types'
  <2>1. /\ ping_istate' \in [Testers -> Nat]
        /\ timers' \in [Testers -> Int]
        /\ \A n \in Testers : timers'[n] >= -MaxLate
    BY PingAssumption DEF Reload
  <2>2. \A n \in Testers : /\ ping_istate'[n] \in 0 .. Pings[n] + 1
                           /\ ping_replies'[n] \in [Seqs(n) -> BOOLEAN]
    BY TesterConstants DEF Reload
  <2>3. CountedType'
    BY DEF Reload, CountedType, Seqs
  <2>4. wire' \subseteq Requests
    BY EndedFacts DEF Reload, IInv
  <2>5. \A r \in wire' : /\ r.addr \in Addresses /\ r.id \in Ids
                         /\ r.seq \in Nat /\ r.age \in 0 .. MaxRtt
                         /\ r.run \in Testers \cup {Over}
    BY <2>4 DEF Requests
  <2> QED
    BY <2>1, <2>2, <2>3, <2>4, <2>5
       DEF Reload, IInv, Types, TypeOK, CountedType
<1>2. ASSUME NEW n \in Testers PROVE CleanInv(n)' /\ NoPings(n)'
  <2>1. ping_istate'[n] = Pings[n] /\ ping_state'[n]
    BY DEF Reload
  <2>2. \A s \in 0 .. ping_istate'[n] - 1 : ping_replies'[n][s]
    BY <2>1 DEF Reload, Seqs
  <2>3. ~(ping_istate'[n] < Pings[n])
    BY <2>1, TesterConstants
  <2> QED
    BY <2>1, <2>2, <2>3 DEF CleanInv, NoPings, Accounted
<1> QED
  BY <1>1, <1>2 DEF IInv

(* What every step of the timers' handlers leaves of another tester. *)
LEMMA OtherKept ==
  ASSUME IInv, NEW m \in Testers,
         UNCHANGED <<ping_istate[m], ping_id[m], ping_replies[m],
                     ping_state[m], timers[m], clean[m], up>>,
         StillIn(wire')
  PROVE  CleanInv(m)' /\ NoPings(m)'
<1>1. CleanInv(m) /\ NoPings(m)
  BY DEF IInv
<1>2. ASSUME NEW s, Pending(m, s) PROVE Pending(m, s)'
  <2>1. PICK r \in wire :
          /\ Mine(m, r) /\ r.seq = s
          /\ r.age + timers[m] >= Second * (ping_istate[m] - s)
    BY <1>2 DEF Pending
  <2>2. PICK o \in wire' : /\ o.addr = r.addr /\ o.id = r.id
                           /\ o.seq = r.seq /\ o.age = r.age
    BY DEF StillIn
  <2> QED
    BY <2>1, <2>2 DEF Pending, Mine
<1>3. Accounted(m) => Accounted(m)'
  BY <1>2 DEF Accounted
<1> QED
  BY <1>1, <1>3 DEF CleanInv, NoPings, Roomy, Judged

(* Sending a ping only adds to what has been sent. *)
LEMMA SendFacts ==
  ASSUME Types, NEW n \in Testers, NEW seq \in Nat, NEW id \in Ids,
         NEW sent \in SUBSET Requests, StillIn(sent), Send(n, seq, id, sent)
  PROVE  /\ sent \subseteq wire' /\ StillIn(wire')
         /\ wire' \subseteq Requests
         /\ \A r \in wire' \ sent : /\ r.addr = Address[n] /\ r.id = id
                                    /\ r.seq = seq /\ r.run = n
         /\ Address[n] \in up =>
              \E r \in wire' : /\ r.addr = Address[n] /\ r.id = id
                               /\ r.seq = seq /\ r.age = 0
<1> DEFINE new == [addr |-> Address[n], seq |-> seq, id |-> id,
                   run |-> n, age |-> 0]
<1>1. new \in Requests
  BY TesterConstants DEF Addresses, Requests
<1>2. CASE Address[n] \in up
  <2>1. wire' = sent \cup {new}
    BY <1>2 DEF Send
  <2>2. /\ new.addr = Address[n] /\ new.id = id /\ new.run = n
        /\ new.seq = seq /\ new.age = 0
    OBVIOUS
  <2> HIDE DEF new
  <2> QED
    BY <1>1, <2>1, <2>2 DEF StillIn
<1>3. CASE Address[n] \notin up
  BY <1>3 DEF Send
<1> QED
  BY <1>2, <1>3

(* The types after a handler that starts n's timer again. *)
LEMMA HandlerTypes ==
  ASSUME Types, NEW n \in Testers, NEW k \in 0 .. Pings[n] + 1,
         NEW d \in Nat \ {0},
         ping_istate' = [ping_istate EXCEPT ![n] = k],
         timers' = Started(timers, n, d),
         wire' \subseteq Requests,
         ping_id' \in [Testers -> Ids],
         DOMAIN ping_replies' = Testers,
         \A m \in Testers : ping_replies'[m] \in [Seqs(m) -> BOOLEAN],
         ping_state' \in [Testers -> BOOLEAN],
         clean' \in [Testers -> BOOLEAN], CountedType',
         up' = up
  PROVE  Types'
<1>1. /\ timers' \in [Testers -> Int]
      /\ \A m \in Testers : timers'[m] >= -MaxLate
  <2>1. DOMAIN timers \cup {n} = Testers /\ DOMAIN timers = Testers
    BY DEF Types
  <2>2. timers' = [u \in Testers |-> IF u = n THEN d ELSE timers[u]]
    BY <2>1 DEF Started
  <2>3. \A m \in Testers : timers[m] \in Int /\ timers[m] >= -MaxLate
    BY DEF Types, TypeOK
  <2> QED
    BY <2>1, <2>2, <2>3, TesterConstants
<1>2. /\ ping_istate' \in [Testers -> Nat]
      /\ \A m \in Testers : ping_istate'[m] \in 0 .. Pings[m] + 1
  BY TesterConstants DEF Types, TypeOK
<1>3. \A r \in wire' : /\ r.addr \in Addresses /\ r.id \in Ids
                       /\ r.seq \in Nat /\ r.age \in 0 .. MaxRtt
                       /\ r.run \in Testers \cup {Over}
  BY DEF Requests
<1> QED
  BY <1>1, <1>2, <1>3 DEF Types, TypeOK, CountedType

-----------------------------------------------------------------------------
(* The verdict of a clean run, when its last second is over: whatever has  *)
(* not been answered is too young to be on the wire still.                 *)
LEMMA CleanVerdict ==
  ASSUME IInv, NEW n \in Testers, Roomy(n), clean[n],
         ping_istate[n] = Pings[n], timers[n] <= 0
  PROVE  Verdict(n)
<1> SUFFICES ASSUME NEW s \in Seqs(n), s < ValidPings[n]
             PROVE  ping_replies[n][s]
  BY EnoughAnswers DEF IInv
<1>1. /\ Pings[n] \in Nat /\ ValidPings[n] \in Nat /\ Second \in Nat \ {0}
      /\ s \in 0 .. ping_istate[n] - 1 /\ timers[n] \in Int
  BY TesterConstants DEF Seqs, IInv, Types
<1>2. ping_replies[n][s] \/ Pending(n, s)
  BY <1>1 DEF IInv, CleanInv, Accounted
<1>3. ASSUME Pending(n, s) PROVE FALSE
  <2>1. PICK r \in wire : r.age + timers[n] >= Second * (Pings[n] - s)
    BY <1>3 DEF Pending
  <2>2. r.age \in Nat /\ r.age <= MaxRtt /\ MaxRtt \in Nat
    BY TesterConstants DEF IInv, Types, Requests
  <2>3. MaxRtt >= Second * (Pings[n] - s)
    BY <1>1, <2>1, <2>2
  <2> DEFINE a == Pings[n] - s
             b == Pings[n] - ValidPings[n] + 1
  <2>4. a \in Nat /\ b \in Int /\ b <= a
    BY <1>1
  <2>5. MaxRtt < Second * b /\ MaxRtt >= Second * a
    BY <2>3 DEF Roomy
  <2> HIDE DEF a, b
  <2>6. Second * b <= Second * a
    BY <1>1, <2>4
  <2> QED
    BY <1>1, <2>2, <2>4, <2>5, <2>6
<1> QED
  BY <1>2, <1>3

LEMMA CheckRepliesIInv ==
  ASSUME IInv, NEW n \in Testers, DueFirst(timers, n), CheckReplies(n),
         up' = up
  PROVE  IInv'
<1>1. /\ ping_istate[n] = Pings[n]
      /\ ping_state' = [ping_state EXCEPT ![n] = Verdict(n)]
      /\ ping_istate' = [ping_istate EXCEPT ![n] = Pings[n] + 1]
      /\ timers' = Started(timers, n, Interval[n])
      /\ UNCHANGED <<ping_id, ping_replies, wire, clean, counted>>
  BY DEF CheckReplies
<1>2. Types'
  <2>1. /\ Pings[n] + 1 \in 0 .. Pings[n] + 1 /\ Interval[n] \in Nat \ {0}
        /\ ping_state' \in [Testers -> BOOLEAN]
    BY <1>1, TesterConstants, ValidCount DEF IInv, Types, TypeOK
  <2>2. /\ Types /\ ping_id' \in [Testers -> Ids]
        /\ DOMAIN ping_replies' = Testers
        /\ \A m \in Testers : ping_replies'[m] \in [Seqs(m) -> BOOLEAN]
        /\ clean' \in [Testers -> BOOLEAN] /\ CountedType'
        /\ wire' \subseteq Requests
    BY <1>1 DEF IInv, Types, TypeOK, CountedType, Seqs
  <2> QED
    BY <1>1, <2>1, <2>2, HandlerTypes
<1>3. ASSUME NEW m \in Testers PROVE CleanInv(m)' /\ NoPings(m)'
  <2>1. CASE m = n
    <3>1. ping_state'[n] = Verdict(n) /\ ping_istate'[n] = Pings[n] + 1
      BY <1>1 DEF IInv, Types, TypeOK
    <3>2. Roomy(n) /\ clean[n] => Verdict(n)
      BY <1>1, CleanVerdict DEF DueFirst
    <3>3. Roomy(n) /\ Pings[n] = 0 => Verdict(n)
      BY TesterConstants, EnoughAnswers DEF Seqs, IInv
    <3>4. ~(ping_istate'[n] <= Pings[n])
      BY <3>1, TesterConstants
    <3>5. CleanInv(n)'
      BY <1>1, <3>1, <3>2, <3>4, TesterConstants
         DEF CleanInv, Accounted, Roomy
    <3>6. NoPings(n)'
      BY <3>1, <3>3 DEF NoPings, Roomy
    <3> QED
      BY <2>1, <3>5, <3>6
  <2>2. CASE m # n
    <3>1. UNCHANGED <<ping_istate[m], ping_id[m], ping_replies[m],
                      ping_state[m], timers[m], clean[m], up>>
      BY <1>1, <2>2 DEF Started, IInv, Types, TypeOK
    <3>2. StillIn(wire')
      BY <1>1 DEF StillIn
    <3> QED
      BY <1>1, <3>1, <3>2, OtherKept
  <2> QED
    BY <2>1, <2>2
<1> QED
  BY <1>2, <1>3 DEF IInv

LEMMA StartRunIInv ==
  ASSUME IInv, NEW n \in Testers, StartRun(n), up' = up
  PROVE  IInv'
<1>1. PICK id \in Ids : /\ ping_id' = [ping_id EXCEPT ![n] = id]
                        /\ Send(n, 0, id, Ended({n}))
  BY DEF StartRun, FirstPing
<1>2. /\ ping_istate[n] > Pings[n]
      /\ ping_istate' = [ping_istate EXCEPT ![n] = 1]
      /\ ping_replies' = [ping_replies EXCEPT ![n] = [s \in Seqs(n) |-> FALSE]]
      /\ timers' = Started(timers, n, Second)
      /\ clean' = [clean EXCEPT ![n] = Address[n] \in up]
      /\ counted' = [counted EXCEPT ![n] = [s \in Seqs(n) |-> Over]]
      /\ ping_state' = ping_state
  BY DEF StartRun, FirstPing, NoReplies
<1>3. Types
  BY DEF IInv
<1>4. /\ StillIn(wire')
      /\ wire' \subseteq Requests
      /\ Address[n] \in up =>
           \E r \in wire' : /\ r.addr = Address[n] /\ r.id = id
                            /\ r.seq = 0 /\ r.age = 0
  <2> DEFINE sent == Ended({n})
  <2>1. sent \in SUBSET Requests /\ StillIn(sent)
    BY <1>3, EndedFacts
  <2>2. Send(n, 0, id, sent)
    BY <1>1
  <2> HIDE DEF sent
  <2> QED
    BY <1>3, <2>1, <2>2, SendFacts
<1>5. Types'
  <2>1. 1 \in 0 .. Pings[n] + 1 /\ Second \in Nat \ {0}
    BY TesterConstants
  <2>2. /\ ping_id' \in [Testers -> Ids]
        /\ DOMAIN ping_replies' = Testers
        /\ \A m \in Testers : ping_replies'[m] \in [Seqs(m) -> BOOLEAN]
        /\ clean' \in [Testers -> BOOLEAN]
        /\ ping_state' \in [Testers -> BOOLEAN]
    BY <1>1, <1>2, <1>3 DEF Types, TypeOK
  <2>3. CountedType'
    <3>1. ASSUME NEW m \in Testers
          PROVE  counted'[m] \in [Seqs(m) -> Testers \cup {Over}]
      BY <1>2, <1>3 DEF Types, CountedType
    <3>2. DOMAIN counted' = Testers
      BY <1>2, <1>3 DEF Types, CountedType
    <3> QED
      BY <3>1, <3>2 DEF CountedType, Seqs
  <2> QED
    BY <1>2, <1>3, <1>4, <2>1, <2>2, <2>3, HandlerTypes
<1>6. ASSUME NEW m \in Testers PROVE CleanInv(m)' /\ NoPings(m)'
  <2>1. CASE m = n
    <3>1. /\ ping_istate'[n] = 1 /\ ping_id'[n] = id /\ ping_state'[n] = ping_state[n]
          /\ clean'[n] = (Address[n] \in up)
      BY <1>1, <1>2, <1>3 DEF Types, TypeOK
    <3>2. timers'[n] = Second /\ Second \in Nat
      BY <1>2, TesterConstants DEF Started
    <3>3. NoPings(n)'
      BY <3>1 DEF IInv, NoPings, Roomy
    <3>4. Judged(n)' => Pings[n] = 0
      BY <3>1, TesterConstants DEF Judged
    <3>5. clean'[n] => Accounted(n)'
      <4> SUFFICES ASSUME clean'[n], NEW s \in 0 .. ping_istate'[n] - 1
                   PROVE  Pending(n, s)'
        BY DEF Accounted
      <4>1. s = 0
        BY <3>1
      <4>2. PICK r \in wire' : /\ r.addr = Address[n] /\ r.id = id
                               /\ r.seq = 0 /\ r.age = 0
        BY <1>4, <3>1
      <4>3. r.age + timers'[n] >= Second * (ping_istate'[n] - s)
        BY <3>1, <3>2, <4>1, <4>2
      <4> QED
        BY <3>1, <4>1, <4>2, <4>3 DEF Pending, Mine
    <3> QED
      BY <2>1, <3>1, <3>3, <3>4, <3>5 DEF CleanInv, NoPings, Roomy
  <2>2. CASE m # n
    <3>1. UNCHANGED <<ping_istate[m], ping_id[m], ping_replies[m],
                      ping_state[m], timers[m], clean[m], up>>
      BY <1>1, <1>2, <1>3, <2>2 DEF Started, Types, TypeOK
    <3> QED
      BY <1>4, <3>1, OtherKept
  <2> QED
    BY <2>1, <2>2
<1> QED
  BY <1>5, <1>6 DEF IInv

LEMMA NextPingIInv ==
  ASSUME IInv, NEW n \in Testers, DueFirst(timers, n), NextPing(n), up' = up
  PROVE  IInv'
<1> DEFINE k == ping_istate[n]
<1>1. /\ k < Pings[n] /\ Send(n, k, ping_id[n], wire)
      /\ ping_istate' = [ping_istate EXCEPT ![n] = k + 1]
      /\ timers' = Started(timers, n, Second)
      /\ UNCHANGED <<ping_id, ping_replies, ping_state, clean, counted>>
  BY DEF NextPing
<1>2. /\ Types /\ k \in Nat /\ ping_id[n] \in Ids
      /\ Pings[n] \in Nat /\ Second \in Nat \ {0}
      /\ timers[n] \in Int /\ timers[n] <= 0
  BY TesterConstants DEF IInv, Types, TypeOK, DueFirst
<1> HIDE DEF k
<1>3. /\ StillIn(wire')
      /\ wire' \subseteq Requests
      /\ Address[n] \in up =>
           \E r \in wire' : /\ r.addr = Address[n] /\ r.id = ping_id[n]
                            /\ r.seq = k /\ r.age = 0
  <2>1. wire \subseteq Requests /\ StillIn(wire)
    BY <1>2 DEF StillIn, Types
  <2> QED
    BY <1>1, <1>2, <2>1, SendFacts
<1>4. Types'
  <2>1. k + 1 \in 0 .. Pings[n] + 1
    BY <1>1, <1>2
  <2>2. /\ ping_id' \in [Testers -> Ids]
        /\ DOMAIN ping_replies' = Testers
        /\ \A m \in Testers : ping_replies'[m] \in [Seqs(m) -> BOOLEAN]
        /\ clean' \in [Testers -> BOOLEAN]
        /\ ping_state' \in [Testers -> BOOLEAN] /\ CountedType'
    BY <1>1, <1>2 DEF Types, TypeOK, CountedType, Seqs
  <2> QED
    BY <1>1, <1>2, <1>3, <2>1, <2>2, HandlerTypes
<1>5. ASSUME NEW m \in Testers PROVE CleanInv(m)' /\ NoPings(m)'
  <2>1. CASE m = n
    <3>1. /\ ping_istate'[n] = k + 1
          /\ UNCHANGED <<ping_id[n], ping_replies[n], ping_state[n], clean[n]>>
      BY <1>1, <1>2 DEF Types
    <3>2. timers'[n] = Second
      BY <1>1 DEF Started
    <3>3. NoPings(n)'
      BY <3>1 DEF IInv, NoPings, Roomy
    <3>4. ~Judged(n)'
      BY <1>1, <1>2, <3>1 DEF Judged
    <3>5. clean[n] => Address[n] \in up /\ Accounted(n)
      BY <1>1 DEF IInv, CleanInv, k
    <3>6. clean[n] => Accounted(n)'
      <4> SUFFICES ASSUME clean[n], NEW s \in 0 .. ping_istate'[n] - 1,
                          ~ping_replies[n][s]
                   PROVE  Pending(n, s)'
        BY <3>1 DEF Accounted
      <4>1. CASE s = k
        <5>1. PICK r \in wire' : /\ r.addr = Address[n] /\ r.id = ping_id[n]
                                 /\ r.seq = k /\ r.age = 0
          BY <1>3, <3>5
        <5>2. r.age + timers'[n] >= Second * (ping_istate'[n] - s)
          BY <1>2, <3>1, <3>2, <4>1, <5>1
        <5> QED
          BY <3>1, <4>1, <5>1, <5>2 DEF Pending, Mine
      <4>2. CASE s # k
        <5>1. s \in 0 .. k - 1 /\ k <= Pings[n]
          BY <1>1, <1>2, <3>1, <4>2
        <5>2. Pending(n, s)
          BY <3>5, <5>1 DEF Accounted, k
        <5>3. PICK r \in wire : /\ Mine(n, r) /\ r.seq = s
                                /\ r.age + timers[n] >= Second * (k - s)
          BY <5>2 DEF Pending, k
        <5>4. r.age + timers'[n] >= Second * (ping_istate'[n] - s)
          <6> DEFINE a == k - s
          <6>1. a \in Nat /\ ping_istate'[n] - s = a + 1 /\ r.age \in Nat
            BY <1>2, <3>1, <5>1, <5>3 DEF Types, Requests
          <6>2. r.age + timers[n] >= Second * a
            BY <5>3
          <6> HIDE DEF a
          <6>3. Second * (a + 1) = Second * a + Second /\ Second * a \in Nat
            BY <1>2, <6>1
          <6> QED
            BY <1>2, <3>2, <6>1, <6>2, <6>3
        <5>5. PICK o \in wire' : /\ o.addr = r.addr /\ o.id = r.id
                                 /\ o.seq = r.seq /\ o.age = r.age
          BY <1>3 DEF StillIn
        <5> QED
          BY <3>1, <5>3, <5>4, <5>5 DEF Pending, Mine
      <4> QED
        BY <4>1, <4>2
    <3> QED
      BY <2>1, <3>1, <3>3, <3>4, <3>5, <3>6 DEF CleanInv
  <2>2. CASE m # n
    <3>1. UNCHANGED <<ping_istate[m], ping_id[m], ping_replies[m],
                      ping_state[m], timers[m], clean[m], up>>
      BY <1>1, <1>2, <2>2 DEF Started, Types
    <3> QED
      BY <1>3, <3>1, OtherKept
  <2> QED
    BY <2>1, <2>2
<1> QED
  BY <1>4, <1>5 DEF IInv

-----------------------------------------------------------------------------
(* The types after a step of the network. *)
LEMMA NetworkTypes ==
  ASSUME Types,
         UNCHANGED <<ping_istate, ping_id, ping_state, timers>>,
         wire' \subseteq wire,
         DOMAIN ping_replies' = Testers,
         \A n \in Testers : ping_replies'[n] \in [Seqs(n) -> BOOLEAN],
         clean' \in [Testers -> BOOLEAN], CountedType',
         up' \subseteq Addresses
  PROVE  Types'
BY DEF Types, TypeOK, CountedType

LEMMA EchoReceivedDataIInv ==
  ASSUME IInv, NEW r \in wire, EchoReceivedData(r)
  PROVE  IInv'
<1>1. /\ ping_replies' =
           [n \in Testers |->
              [s \in Seqs(n) |-> ping_replies[n][s] \/ (Mine(n, r) /\ r.seq = s)]]
      /\ wire \ {r} \subseteq wire' /\ wire' \subseteq wire
      /\ UNCHANGED <<ping_istate, ping_id, ping_state, timers, up, clean>>
  BY DEF EchoReceivedData
<1>2. Types
  BY DEF IInv
<1>3. \A n \in Testers : /\ ping_replies'[n] \in [Seqs(n) -> BOOLEAN]
                         /\ \A s \in Seqs(n) : ping_replies[n][s] \in BOOLEAN
  BY <1>1, <1>2 DEF Types, TypeOK, Mine
<1>4. Types'
  <2>1. /\ DOMAIN ping_replies' = Testers
        /\ clean' \in [Testers -> BOOLEAN] /\ up' \subseteq Addresses
    BY <1>1, <1>2 DEF Types, TypeOK
  <2>2. r.run \in Testers \cup {Over}
    BY <1>2 DEF Types, TypeOK
  <2>3. CountedType'
    BY <1>2, <2>2 DEF EchoReceivedData, Types, CountedType
  <2> QED
    BY <1>1, <1>2, <1>3, <2>1, <2>3, NetworkTypes
<1>5. ASSUME NEW n \in Testers PROVE CleanInv(n)' /\ NoPings(n)'
  <2>1. CleanInv(n) /\ NoPings(n)
    BY DEF IInv
  <2>2. Accounted(n) => Accounted(n)'
    <3> SUFFICES ASSUME Accounted(n), ping_istate[n] <= Pings[n],
                        NEW s \in 0 .. ping_istate[n] - 1
                 PROVE  ping_replies'[n][s] \/ Pending(n, s)'
      BY <1>1 DEF Accounted
    <3>1. s \in Seqs(n)
      BY <1>2, TesterConstants DEF Seqs, Types
    <3>2. ping_replies'[n][s] = (ping_replies[n][s] \/ (Mine(n, r) /\ r.seq = s))
      BY <1>1, <3>1
    <3>3. CASE ping_replies[n][s]
      BY <3>2, <3>3
    <3>4. CASE Pending(n, s)
      <4>1. PICK q \in wire :
              /\ Mine(n, q) /\ q.seq = s
              /\ q.age + timers[n] >= Second * (ping_istate[n] - s)
        BY <3>4 DEF Pending
      <4>2. CASE q = r
        BY <3>2, <4>1, <4>2
      <4>3. CASE q # r
        <5>1. q \in wire'
          BY <1>1, <4>3
        <5> QED
          BY <1>1, <4>1, <5>1 DEF Pending, Mine
      <4> QED
        BY <4>2, <4>3
    <3> QED
      BY <3>3, <3>4 DEF Accounted
  <2> QED
    BY <1>1, <2>1, <2>2 DEF CleanInv, NoPings, Roomy, Judged
<1> QED
  BY <1>4, <1>5 DEF IInv

LEMMA LoseIInv ==
  ASSUME IInv, NEW r \in wire, Lose(r)
  PROVE  IInv'
<1>1. /\ wire' = wire \ {r}
      /\ clean' = [n \in Testers |-> clean[n] /\ Address[n] # r.addr]
      /\ UNCHANGED <<ping_istate, ping_id, ping_replies, ping_state, timers, up,
                     counted>>
  BY DEF Lose
<1>2. Types'
  <2>1. /\ wire' \subseteq wire /\ DOMAIN ping_replies' = Testers
        /\ \A n \in Testers : ping_replies'[n] \in [Seqs(n) -> BOOLEAN]
        /\ clean' \in [Testers -> BOOLEAN] /\ up' \subseteq Addresses
        /\ CountedType'
    BY <1>1 DEF IInv, Types, TypeOK, CountedType, Seqs
  <2> QED
    BY <1>1, <2>1, NetworkTypes DEF IInv
<1>3. ASSUME NEW n \in Testers PROVE CleanInv(n)' /\ NoPings(n)'
  <2>1. clean'[n] => clean[n] /\ Address[n] # r.addr
    BY <1>1
  <2>2. Address[n] # r.addr => \A s : Pending(n, s) => Pending(n, s)'
    BY <1>1 DEF Pending, Mine
  <2>3. Address[n] # r.addr /\ Accounted(n) => Accounted(n)'
    BY <1>1, <2>2 DEF Accounted
  <2> QED
    BY <1>1, <2>1, <2>3 DEF IInv, CleanInv, NoPings, Roomy, Judged
<1> QED
  BY <1>2, <1>3 DEF IInv

LEMMA HostDownIInv ==
  ASSUME IInv, NEW a \in Addresses, HostDown(a)
  PROVE  IInv'
<1>1. /\ up' = up \ {a}
      /\ clean' = [n \in Testers |-> clean[n] /\ Address[n] # a]
      /\ UNCHANGED <<ping_istate, ping_id, ping_replies, ping_state, timers,
                     wire, counted>>
  BY DEF HostDown
<1>2. Types'
  <2>1. /\ wire' \subseteq wire /\ DOMAIN ping_replies' = Testers
        /\ \A n \in Testers : ping_replies'[n] \in [Seqs(n) -> BOOLEAN]
        /\ clean' \in [Testers -> BOOLEAN] /\ up' \subseteq Addresses
        /\ CountedType'
    BY <1>1 DEF IInv, Types, TypeOK, CountedType, Seqs
  <2> QED
    BY <1>1, <2>1, NetworkTypes DEF IInv
<1>3. ASSUME NEW n \in Testers PROVE CleanInv(n)' /\ NoPings(n)'
  <2>1. clean'[n] => clean[n] /\ Address[n] # a
    BY <1>1
  <2>2. Accounted(n) => Accounted(n)'
    BY <1>1 DEF Accounted, Pending, Mine
  <2> QED
    BY <1>1, <2>1, <2>2 DEF IInv, CleanInv, NoPings, Roomy, Judged
<1> QED
  BY <1>2, <1>3 DEF IInv

LEMMA HostUpIInv ==
  ASSUME IInv, NEW a \in Addresses, HostUp(a)
  PROVE  IInv'
<1>1. /\ up' = up \cup {a}
      /\ UNCHANGED <<ping_istate, ping_id, ping_replies, ping_state, timers,
                     wire, clean, counted>>
  BY DEF HostUp
<1>2. Types'
  BY <1>1 DEF IInv, Types, TypeOK, CountedType, Seqs
<1>3. ASSUME NEW n \in Testers PROVE CleanInv(n)' /\ NoPings(n)'
  <2>1. Accounted(n) => Accounted(n)'
    BY <1>1 DEF Accounted, Pending, Mine
  <2> QED
    BY <1>1, <2>1 DEF IInv, CleanInv, NoPings, Roomy, Judged
<1> QED
  BY <1>2, <1>3 DEF IInv

(* What is on the wire grows older as fast as the timers run down. *)
LEMMA TickIInv == IInv /\ Tick => IInv'
<1> SUFFICES ASSUME IInv, Tick PROVE IInv'
  OBVIOUS
<1>1. /\ wire' = {[r EXCEPT !.age = @ + 1] : r \in wire}
      /\ \A r \in wire : r.age < MaxRtt
      /\ UNCHANGED <<ping_istate, ping_id, ping_replies, ping_state, up, clean,
                     counted>>
  BY DEF Tick
<1>2. Types
  BY DEF IInv
<1>3. /\ timers' \in [Testers -> Int]
      /\ \A n \in Testers : timers'[n] = timers[n] - 1 /\ timers'[n] >= -MaxLate
  BY <1>2, TesterConstants DEF Tick, Elapsed, MayElapse, Types
<1> DEFINE Older(r) == [r EXCEPT !.age = @ + 1]
<1>4. ASSUME NEW r \in wire
      PROVE  /\ Older(r) \in Requests
             /\ Older(r) \in wire'
             /\ Older(r).addr = r.addr /\ Older(r).id = r.id
             /\ Older(r).seq = r.seq /\ Older(r).age = r.age + 1
  <2>1. r \in Requests
    BY <1>2 DEF Types
  <2>2. r.age + 1 \in 0 .. MaxRtt
    <3>1. r.age \in 0 .. MaxRtt /\ r.age < MaxRtt /\ MaxRtt \in Nat
      BY <1>1, <2>1, PingAssumption DEF Requests
    <3> QED
      BY <3>1
  <2>3. Older(r) \in wire'
    BY <1>1
  <2> QED
    BY <2>1, <2>2, <2>3 DEF Requests
<1>5. wire' = {Older(r) : r \in wire}
  BY <1>1
<1> HIDE DEF Older
<1>6. Types'
  <2>1. wire' \subseteq Requests
    BY <1>4, <1>5
  <2>2. \A r \in wire' : /\ r.addr \in Addresses /\ r.id \in Ids
                         /\ r.seq \in Nat /\ r.age \in 0 .. MaxRtt
                         /\ r.run \in Testers \cup {Over}
    BY <2>1 DEF Requests
  <2> QED
    BY <1>1, <1>2, <1>3, <2>1, <2>2 DEF Types, TypeOK, CountedType, Seqs
<1>7. ASSUME NEW n \in Testers PROVE CleanInv(n)' /\ NoPings(n)'
  <2>1. ASSUME NEW s, Pending(n, s) PROVE Pending(n, s)'
    <3>1. PICK r \in wire :
            /\ Mine(n, r) /\ r.seq = s
            /\ r.age + timers[n] >= Second * (ping_istate[n] - s)
      BY <2>1 DEF Pending
    <3>2. PICK o \in wire' : /\ o.addr = r.addr /\ o.id = r.id
                             /\ o.seq = r.seq /\ o.age = r.age + 1
      BY <1>4
    <3>3. o.age + timers'[n] = r.age + timers[n]
      BY <1>2, <1>3, <3>2 DEF Types, Requests
    <3> QED
      BY <1>1, <3>1, <3>2, <3>3 DEF Pending, Mine
  <2>2. Accounted(n) => Accounted(n)'
    BY <1>1, <2>1 DEF Accounted
  <2> QED
    BY <1>1, <2>2 DEF IInv, CleanInv, NoPings, Roomy, Judged
<1> QED
  BY <1>6, <1>7 DEF IInv

-----------------------------------------------------------------------------
LEMMA NextIInv == IInv /\ [Next]_vars => IInv'
<1> SUFFICES ASSUME IInv, [Next]_vars PROVE IInv'
  OBVIOUS
<1>1. CASE Tick
  BY <1>1, TickIInv
<1>2. CASE Reload
  BY <1>2, ReloadIInv
<1>3. ASSUME NEW n \in Testers, TimeoutData(n) PROVE IInv'
  BY <1>3, CheckRepliesIInv, StartRunIInv, NextPingIInv DEF TimeoutData
<1>4. ASSUME NEW r \in wire, EchoReceivedData(r) PROVE IInv'
  BY <1>4, EchoReceivedDataIInv
<1>5. CASE Loss
  BY <1>5, LoseIInv DEF Loss
<1>6. ASSUME NEW a \in Addresses, HostDown(a) \/ HostUp(a) PROVE IInv'
  BY <1>6, HostDownIInv, HostUpIInv
<1>7. CASE UNCHANGED vars
  BY <1>7 DEF vars, IInv, Types, TypeOK, CountedType, Seqs, CleanInv,
              NoPings, Accounted, Pending, Mine, Roomy, Judged
<1> QED
  BY <1>1, <1>2, <1>3, <1>4, <1>5, <1>6, <1>7 DEF Next

(* The inductive invariant holds of every behaviour of the testers and the *)
(* network between them.                                                   *)
THEOREM PingsInOrder == Spec => []IInv
<1> QED
  BY InitIInv, NextIInv, PTL DEF Spec

(* Every variable keeps its type; every tester's timer always runs, and    *)
(* nothing stays on the wire for longer than MaxRtt.                       *)
THEOREM TypeCorrect == Spec => []TypeOK
<1>1. IInv => TypeOK
  BY DEF IInv, Types
<1> QED
  BY <1>1, PingsInOrder, PTL

(* A run that met no outage and lost nothing does not report an address    *)
(* unreachable, over any network that is fast enough for its pace and with *)
(* any number of testers, of the same address or not, on the one socket.   *)
THEOREM CleanRunsPass == Spec => []CleanRunPasses
<1>1. IInv => CleanRunPasses
  BY DEF IInv, CleanInv, CleanRunPasses
<1> QED
  BY <1>1, PingsInOrder, PTL

-----------------------------------------------------------------------------
(* The refinement of Reachability needs to know which requests the answers *)
(* on the wire belong to.                                                  *)

(* Two testers of one address share an identifier only before their first  *)
(* runs, when neither sends: the constructor leaves ping_id as it finds it. *)
Twins ==
  \A m, n \in Testers :
    m # n /\ Address[m] = Address[n] /\ ping_id[m] = ping_id[n] =>
      ping_istate[m] >= Pings[m] /\ ping_istate[n] >= Pings[n]

(* What counts was asked in this run; and while an answer is still awaited *)
(* the requests that carry n's identifier are those of its run.            *)
Own(n) ==
  /\ \A s \in Seqs(n) :
       ping_replies[n][s] => s < ping_istate[n] /\ counted[n][s] = n
  /\ \A r \in wire : r.run = n => r.seq < ping_istate[n]
  /\ \A s \in Seqs(n) :
       ~ping_replies[n][s] => \A r \in wire : Mine(n, r) => r.run = n

OwnInv == Twins /\ \A n \in Testers : Own(n)

LEMMA InitOwnInv == Init => OwnInv
<1> SUFFICES ASSUME Init PROVE OwnInv
  OBVIOUS
<1>1. ping_istate = Pings /\ wire = {}
  BY DEF Init
<1>2. \A n \in Testers : Pings[n] \in Nat
  BY TesterConstants
<1>3. \A n \in Testers : \A s \in Seqs(n) :
        s < Pings[n] /\ ping_replies[n][s] /\ counted[n][s] = n
  BY <1>2 DEF Init, Seqs
<1>4. \A n \in Testers : Own(n)
  BY <1>1, <1>3 DEF Own
<1> QED
  BY <1>1, <1>2, <1>4 DEF OwnInv, Twins

LEMMA ReloadOwnInv == Types /\ Reload => OwnInv'
<1> SUFFICES ASSUME Types, Reload PROVE OwnInv'
  OBVIOUS
<1>1. ping_istate' = Pings /\ wire' = Ended(Testers)
  BY DEF Reload
<1>2. \A n \in Testers : Pings[n] \in Nat
  BY TesterConstants
<1>3. \A n \in Testers : \A s \in Seqs(n) :
        s < Pings[n] /\ ping_replies'[n][s] /\ counted'[n][s] = n
  BY <1>2 DEF Reload, Seqs
<1>4. \A r \in wire' : r.run \notin Testers
  BY <1>1, EndedFacts, PingAssumption
<1>5. \A n \in Testers : Own(n)'
  BY <1>1, <1>3, <1>4 DEF Own, Seqs
<1> QED
  BY <1>1, <1>2, <1>5 DEF OwnInv, Twins

LEMMA CheckRepliesOwnInv ==
  ASSUME Types, OwnInv, NEW n \in Testers, CheckReplies(n)
  PROVE  OwnInv'
<1>1. /\ ping_istate[n] = Pings[n]
      /\ ping_istate' = [ping_istate EXCEPT ![n] = Pings[n] + 1]
      /\ UNCHANGED <<ping_id, ping_replies, wire, counted>>
  BY DEF CheckReplies
<1>2. \A m \in Testers : /\ ping_istate[m] \in Nat
                         /\ ping_istate'[m] \in Nat
                         /\ ping_istate'[m] >= ping_istate[m]
  BY <1>1, TesterConstants DEF Types
<1>3. Twins'
  BY <1>1, <1>2, TesterConstants DEF OwnInv, Twins
<1>4. ASSUME NEW m \in Testers PROVE Own(m)'
  <2>1. Own(m)
    BY DEF OwnInv
  <2>2. /\ \A s \in Seqs(m) : s \in Nat
        /\ \A r \in wire : r.seq \in Nat
    BY TesterConstants DEF Seqs, Types, Requests
  <2> QED
    BY <1>1, <1>2, <2>1, <2>2 DEF Own, Mine, Seqs
<1> QED
  BY <1>3, <1>4 DEF OwnInv

(* A fresh identifier is nobody else's, and nothing on the wire has it. *)
LEMMA StartRunOwnInv ==
  ASSUME FreshIds, Types, OwnInv, NEW n \in Testers, StartRun(n)
  PROVE  OwnInv'
<1> DEFINE sent == Ended({n})
<1>1. PICK id \in Ids : /\ ~InUse(n, id)
                        /\ ping_id' = [ping_id EXCEPT ![n] = id]
                        /\ Send(n, 0, id, sent)
  BY DEF StartRun, FirstPing
<1>2. /\ ping_istate' = [ping_istate EXCEPT ![n] = 1]
      /\ ping_replies' = [ping_replies EXCEPT ![n] = [s \in Seqs(n) |-> FALSE]]
      /\ counted' = [counted EXCEPT ![n] = [s \in Seqs(n) |-> Over]]
  BY DEF StartRun, FirstPing, NoReplies
<1>3. /\ ping_id'[n] = id /\ ping_istate'[n] = 1
      /\ \A s \in Seqs(n) : ~ping_replies'[n][s]
  BY <1>1, <1>2 DEF Types, TypeOK
<1>4. \A m \in Testers \ {n} :
        /\ UNCHANGED <<ping_id[m], ping_istate[m], ping_replies[m], counted[m]>>
        /\ ~(Address[m] = Address[n] /\ ping_id[m] = id)
  BY <1>1, <1>2 DEF Types, TypeOK, InUse
<1>5. Twins'
  BY <1>3, <1>4 DEF OwnInv, Twins
<1>6. \A o \in sent :
        \E r \in wire : /\ o.addr = r.addr /\ o.id = r.id /\ o.seq = r.seq
                        /\ o.run = IF r.run \in {n} THEN Over ELSE r.run
  BY EndedFacts
<1>7. \A r \in wire' \ sent : /\ r.addr = Address[n] /\ r.id = id
                              /\ r.seq = 0 /\ r.run = n
  <2>1. sent \in SUBSET Requests /\ StillIn(sent)
    BY EndedFacts
  <2> HIDE DEF sent
  <2> QED
    BY <1>1, <2>1, SendFacts
<1> HIDE DEF sent
<1>8. Over \notin Testers
  BY PingAssumption
<1>9. ASSUME NEW m \in Testers PROVE Own(m)'
  <2>1. CASE m = n
    <3>1. ASSUME NEW r \in wire' PROVE r.run = n => r.seq < ping_istate'[n]
      BY <1>3, <1>6, <1>7, <1>8
    <3>2. ASSUME NEW r \in wire', Mine(n, r)' PROVE r.run = n
      <4>1. r.addr = Address[n] /\ r.id = id
        BY <1>3, <3>2 DEF Mine
      <4>2. r \notin sent
        BY <1>1, <1>6, <4>1 DEF InUse
      <4> QED
        BY <1>7, <4>2
    <3> QED
      BY <1>3, <2>1, <3>1, <3>2 DEF Own, Seqs
  <2>2. CASE m # n
    <3>1. Own(m)
      BY DEF OwnInv
    <3>2. ASSUME NEW r \in wire' PROVE r.run = m => r.seq < ping_istate[m]
      <4>1. CASE r \in sent
        <5>1. PICK q \in wire :
                r.seq = q.seq /\ r.run = IF q.run \in {n} THEN Over ELSE q.run
          BY <1>6, <4>1
        <5> QED
          BY <1>8, <3>1, <5>1 DEF Own
      <4> QED
        BY <1>7, <2>2, <4>1
    <3>3. ASSUME NEW r \in wire', Mine(m, r)',
                 NEW s \in Seqs(m), ~ping_replies[m][s]
          PROVE  r.run = m
      <4>1. Mine(m, r)
        BY <1>4, <2>2, <3>3 DEF Mine
      <4>2. r \in sent
        BY <1>4, <1>7, <2>2, <4>1 DEF Mine
      <4>3. PICK q \in wire : /\ r.addr = q.addr /\ r.id = q.id
                              /\ r.run = IF q.run \in {n} THEN Over ELSE q.run
        BY <1>6, <4>2
      <4>4. q.run = m
        BY <3>1, <3>3, <4>1, <4>3 DEF Own, Mine
      <4> QED
        BY <2>2, <4>3, <4>4
    <3> QED
      BY <1>4, <2>2, <3>1, <3>2, <3>3 DEF Own, Seqs
  <2> QED
    BY <2>1, <2>2
<1> QED
  BY <1>5, <1>9 DEF OwnInv

LEMMA NextPingOwnInv ==
  ASSUME Types, OwnInv, NEW n \in Testers, NextPing(n)
  PROVE  OwnInv'
<1>1. /\ ping_istate[n] < Pings[n]
      /\ Send(n, ping_istate[n], ping_id[n], wire)
      /\ ping_istate' = [ping_istate EXCEPT ![n] = ping_istate[n] + 1]
      /\ UNCHANGED <<ping_id, ping_replies, counted>>
  BY DEF NextPing
<1>2. \A m \in Testers : /\ ping_istate[m] \in Nat /\ Pings[m] \in Nat
                         /\ ping_istate'[m] \in Nat
                         /\ ping_istate'[m] >= ping_istate[m]
                         /\ \A s \in Seqs(m) : s \in Nat
  BY <1>1, TesterConstants DEF Types, Seqs
<1>3. \A m \in Testers \ {n} :
        ~(Address[m] = Address[n] /\ ping_id[m] = ping_id[n])
  BY <1>1, <1>2 DEF OwnInv, Twins
<1>4. Twins'
  BY <1>1, <1>2 DEF OwnInv, Twins
<1>5. /\ \A r \in wire : r.seq \in Nat
      /\ \A r \in wire' \ wire : /\ r.addr = Address[n] /\ r.id = ping_id[n]
                                 /\ r.seq = ping_istate[n] /\ r.run = n
      /\ ping_istate'[n] = ping_istate[n] + 1
  <2>1. wire \in SUBSET Requests /\ StillIn(wire) /\ ping_id[n] \in Ids
    BY DEF Types, TypeOK, StillIn
  <2>2. \A r \in wire' \ wire : /\ r.addr = Address[n] /\ r.id = ping_id[n]
                                /\ r.seq = ping_istate[n] /\ r.run = n
    BY <1>1, <1>2, <2>1, SendFacts
  <2> QED
    BY <1>1, <2>1, <2>2 DEF Types, Requests
<1>6. ASSUME NEW m \in Testers PROVE Own(m)'
  <2>1. Own(m)
    BY DEF OwnInv
  <2>2. ASSUME NEW r \in wire', r.run = m PROVE r.seq < ping_istate'[m]
    <3>1. CASE r \in wire
      BY <1>2, <1>5, <2>1, <2>2, <3>1 DEF Own
    <3>2. CASE r \notin wire
      BY <1>2, <1>5, <2>2, <3>2
    <3> QED
      BY <3>1, <3>2
  <2>3. ASSUME NEW r \in wire', Mine(m, r)',
               NEW s \in Seqs(m), ~ping_replies[m][s]
        PROVE  r.run = m
    <3>1. Mine(m, r)
      BY <1>1, <2>3 DEF Mine
    <3>2. CASE r \in wire
      BY <2>1, <2>3, <3>1, <3>2 DEF Own
    <3>3. CASE r \notin wire
      BY <1>3, <1>5, <3>1, <3>3 DEF Mine
    <3> QED
      BY <3>2, <3>3
  <2>4. \A s \in Seqs(m) :
          ping_replies[m][s] => s < ping_istate'[m] /\ counted[m][s] = m
    BY <1>2, <2>1 DEF Own
  <2> QED
    BY <1>1, <2>2, <2>3, <2>4 DEF Own, Seqs
<1> QED
  BY <1>4, <1>6 DEF OwnInv

(* An answer that makes a slot count is one to a request of the run. *)
LEMMA EchoReceivedDataOwnInv ==
  ASSUME Types, OwnInv, NEW r \in wire, EchoReceivedData(r)
  PROVE  OwnInv'
<1>1. /\ wire' \subseteq wire /\ UNCHANGED <<ping_istate, ping_id>>
      /\ \A n \in Testers : \A s \in Seqs(n) :
           /\ ping_replies'[n][s] =
                (ping_replies[n][s] \/ (Mine(n, r) /\ r.seq = s))
           /\ counted'[n][s] =
                IF ping_replies'[n][s] /\ ~ping_replies[n][s]
                THEN r.run ELSE counted[n][s]
  BY DEF EchoReceivedData
<1>2. Twins'
  BY <1>1 DEF OwnInv, Twins
<1>3. ASSUME NEW n \in Testers PROVE Own(n)'
  <2>1. Own(n)
    BY DEF OwnInv
  <2>2. ASSUME NEW s \in Seqs(n), ping_replies'[n][s]
        PROVE  s < ping_istate[n] /\ counted'[n][s] = n
    <3>1. CASE ping_replies[n][s]
      BY <1>1, <2>1, <3>1 DEF Own
    <3>2. CASE ~ping_replies[n][s]
      <4>1. Mine(n, r) /\ r.seq = s /\ counted'[n][s] = r.run
        BY <1>1, <2>2, <3>2
      <4>2. r.run = n
        BY <2>1, <3>2, <4>1 DEF Own
      <4> QED
        BY <2>1, <4>1, <4>2 DEF Own
    <3> QED
      BY <3>1, <3>2
  <2>3. \A s \in Seqs(n) : ~ping_replies'[n][s] => ~ping_replies[n][s]
    BY <1>1
  <2> QED
    BY <1>1, <2>1, <2>2, <2>3 DEF Own, Mine, Seqs
<1> QED
  BY <1>2, <1>3 DEF OwnInv

(* Steps that leave the testers alone and put nothing new on the wire. *)
LEMMA QuietOwnInv ==
  ASSUME OwnInv, UNCHANGED <<ping_istate, ping_id, ping_replies, counted>>,
         \A r \in wire' : \E q \in wire : /\ r.addr = q.addr /\ r.id = q.id
                                          /\ r.seq = q.seq /\ r.run = q.run
  PROVE  OwnInv'
<1>1. Twins'
  BY DEF OwnInv, Twins
<1>2. ASSUME NEW n \in Testers PROVE Own(n)'
  <2>1. Own(n)
    BY DEF OwnInv
  <2>2. ASSUME NEW r \in wire' PROVE r.run = n => r.seq < ping_istate[n]
    BY <2>1 DEF Own
  <2>3. ASSUME NEW r \in wire', Mine(n, r)',
               NEW s \in Seqs(n), ~ping_replies[n][s]
        PROVE  r.run = n
    <3>1. PICK q \in wire : /\ r.addr = q.addr /\ r.id = q.id
                            /\ r.run = q.run
      OBVIOUS
    <3>2. Mine(n, q)
      BY <2>3, <3>1 DEF Mine
    <3> QED
      BY <2>1, <2>3, <3>1, <3>2 DEF Own
  <2> QED
    BY <2>1, <2>2, <2>3 DEF Own, Seqs
<1> QED
  BY <1>1, <1>2 DEF OwnInv

LEMMA TickOwnInv ==
  ASSUME Types, OwnInv, Tick PROVE OwnInv'
<1>1. /\ wire' = {[r EXCEPT !.age = @ + 1] : r \in wire}
      /\ UNCHANGED <<ping_istate, ping_id, ping_replies, counted>>
  BY DEF Tick
<1>2. ASSUME NEW q \in wire
      PROVE  LET o == [q EXCEPT !.age = @ + 1]
             IN  /\ o.addr = q.addr /\ o.id = q.id
                 /\ o.seq = q.seq /\ o.run = q.run
  <2>1. q \in Requests
    BY DEF Types
  <2> QED
    BY <2>1 DEF Requests
<1> QED
  BY <1>1, <1>2, QuietOwnInv

LEMMA NextOwnInv ==
  ASSUME FreshIds PROVE Types /\ OwnInv /\ [Next]_vars => OwnInv'
<1> SUFFICES ASSUME Types, OwnInv, [Next]_vars PROVE OwnInv'
  OBVIOUS
<1>1. CASE Tick
  BY <1>1, TickOwnInv
<1>2. CASE Reload
  BY <1>2, ReloadOwnInv
<1>3. ASSUME NEW n \in Testers, TimeoutData(n) PROVE OwnInv'
  BY <1>3, CheckRepliesOwnInv, StartRunOwnInv, NextPingOwnInv DEF TimeoutData
<1>4. ASSUME NEW r \in wire, EchoReceivedData(r) PROVE OwnInv'
  BY <1>4, EchoReceivedDataOwnInv
<1>5. CASE Loss
  BY <1>5, QuietOwnInv DEF Loss, Lose
<1>6. ASSUME NEW a \in Addresses, HostDown(a) \/ HostUp(a) PROVE OwnInv'
  BY <1>6, QuietOwnInv DEF HostDown, HostUp
<1>7. CASE UNCHANGED vars
  BY <1>7, QuietOwnInv DEF vars
<1> QED
  BY <1>1, <1>2, <1>3, <1>4, <1>5, <1>6, <1>7 DEF Next

(* With identifiers that are fresh, every answer a run has counted, or may *)
(* still count, is one to a request of that very run, in every behaviour   *)
(* of the testers.                                                         *)
THEOREM OwnInvHolds == FreshIds => (Spec => []OwnInv)
<1> SUFFICES ASSUME FreshIds PROVE Spec => []OwnInv
  OBVIOUS
<1>1. Types /\ OwnInv /\ [Next]_vars => OwnInv'
  BY NextOwnInv
<1>2. IInv => Types
  BY DEF IInv
<1> QED
  BY <1>1, <1>2, InitOwnInv, PingsInOrder, PTL DEF Spec

-----------------------------------------------------------------------------
(* Reachability counts as PingTester does. *)
LEMMA SameCardinality ==
  ASSUME NEW S PROVE Abstract!Cardinality(S) = Cardinality(S)
BY DEF Cardinality, Abstract!Cardinality

(* The slots a tester counts are as many as the questions they answer. *)
LEMMA CountedIsValid ==
  ASSUME Types, OwnInv, NEW n \in Testers
  PROVE  Cardinality(Counted(n)) = Valid(n)
<1> DEFINE S == {s \in Seqs(n) : ping_replies[n][s]}
           name == [s \in S |-> <<n, s>>]
<1>1. IsFiniteSet(S)
  <2>1. 0 \in Int /\ Pings[n] - 1 \in Int
    BY TesterConstants
  <2>2. IsFiniteSet(0 .. Pings[n] - 1)
    BY <2>1, FS_Interval
  <2> QED
    BY <2>2, FS_Subset DEF Seqs
<1>2. \A s \in S : counted[n][s] = n
  BY DEF OwnInv, Own
<1>3. Counted(n) = {<<n, s>> : s \in S}
  BY <1>2 DEF Counted
<1> HIDE DEF S
<1>4. name \in Bijection(S, Counted(n))
  <2>1. \A s, u \in S : name[s] = name[u] => s = u
    OBVIOUS
  <2>2. name \in [S -> Counted(n)] /\ \A c \in Counted(n) : \E s \in S : name[s] = c
    BY <1>3
  <2> QED
    BY <2>1, <2>2 DEF Bijection, Injection, Surjection, IsInjective
<1>5. Cardinality(S) = Cardinality(Counted(n))
  <2>1. ExistsBijection(S, Counted(n))
    BY <1>4 DEF ExistsBijection
  <2> QED
    BY <1>1, <2>1, FS_Bijection
<1> QED
  BY <1>5 DEF Valid, S

LEMMA FirstRound ==
  ASSUME NEW n \in Testers,
         \A s \in Seqs(n) : ping_replies[n][s] /\ counted[n][s] = n
  PROVE  Counted(n) = {<<n, q>> : q \in Abstract!Numbers(n)}
BY DEF Counted, Seqs, Abstract!Numbers

LEMMA InitAbstract == Init => Abstract!Init
<1> SUFFICES ASSUME Init PROVE Abstract!Init
  OBVIOUS
<1>1. \A n \in Testers :
        \A s \in Seqs(n) : ping_replies[n][s] /\ counted[n][s] = n
  BY DEF Init
<1>2. \A n \in Testers : Counted(n) = {<<n, q>> : q \in Abstract!Numbers(n)}
  BY <1>1, FirstRound
<1> QED
  BY <1>2 DEF Init, Abstract!Init

LEMMA ReloadAbstract == Reload => Abstract!Reload
<1> SUFFICES ASSUME Reload PROVE Abstract!Reload
  OBVIOUS
<1>1. \A n \in Testers : Counted(n)' = {<<n, q>> : q \in Abstract!Numbers(n)}
  BY DEF Reload, Counted, Seqs, Abstract!Numbers
<1> QED
  BY <1>1 DEF Reload, Abstract!Reload

(* A packet that makes a slot of n count answers a question of n's round,  *)
(* and no slot of another tester.                                          *)
LEMMA EchoAbstract ==
  ASSUME Types, OwnInv, NEW r \in wire, EchoReceivedData(r),
         NEW n \in Testers, NEW s \in Seqs(n),
         ~ping_replies[n][s], Mine(n, r), r.seq = s
  PROVE  Abstract!Answer(n)
<1>1. /\ UNCHANGED <<ping_istate, ping_state>>
      /\ \A m \in Testers : \A q \in Seqs(m) :
           /\ ping_replies'[m][q] =
                (ping_replies[m][q] \/ (Mine(m, r) /\ r.seq = q))
           /\ counted'[m][q] =
                IF ping_replies'[m][q] /\ ~ping_replies[m][q]
                THEN r.run ELSE counted[m][q]
  BY DEF EchoReceivedData
<1>2. r.run = n /\ s < ping_istate[n]
  BY DEF OwnInv, Own
<1>3. Counted(n)' = Counted(n) \cup {<<n, s>>}
  <2>1. \A q \in Seqs(n) : ping_replies'[n][q] = (ping_replies[n][q] \/ q = s)
    BY <1>1
  <2>2. \A q \in Seqs(n) : ping_replies[n][q] => counted'[n][q] = counted[n][q]
    BY <1>1
  <2>3. counted'[n][s] = n
    BY <1>1, <1>2
  <2> DEFINE Slots == {q \in Seqs(n) : ping_replies[n][q]}
  <2>4. {q \in Seqs(n) : ping_replies'[n][q]} = Slots \cup {s}
    BY <2>1
  <2>5. \A q \in Slots : counted'[n][q] = counted[n][q]
    BY <2>2
  <2>6. Counted(n)' = {<<counted'[n][q], q>> : q \in Slots \cup {s}}
    BY <2>4 DEF Counted, Seqs
  <2>7. Counted(n) = {<<counted[n][q], q>> : q \in Slots}
    BY DEF Counted
  <2> HIDE DEF Slots
  <2> QED
    BY <2>3, <2>5, <2>6, <2>7
<1>4. ASSUME NEW m \in Testers, m # n PROVE Counted(m)' = Counted(m)
  <2>1. \A q \in Seqs(m) : ~(Mine(m, r) /\ ~ping_replies[m][q])
    BY <1>2, <1>4 DEF OwnInv, Own
  <2>2. \A q \in Seqs(m) : /\ ping_replies'[m][q] <=> ping_replies[m][q]
                           /\ ping_replies[m][q] => counted'[m][q] = counted[m][q]
    BY <1>1, <2>1
  <2> QED
    BY <2>2 DEF Counted, Seqs
<1> DEFINE before == [m \in Testers |-> Counted(m)]
           after == [m \in Testers |-> Counted(m)']
<1>5. after = [before EXCEPT ![n] = @ \cup {<<n, s>>}]
  <2> HIDE DEF Counted
  <2> QED
    BY <1>3, <1>4
<1>6. s \in Abstract!Numbers(n)
  BY DEF Seqs, Abstract!Numbers
<1> QED
  BY <1>1, <1>2, <1>5, <1>6 DEF Abstract!Answer

LEMMA NextAbstract ==
  Types /\ OwnInv /\ [Next]_vars => [Abstract!Next]_(Abstract!vars)
<1> SUFFICES ASSUME Types, OwnInv, [Next]_vars
             PROVE  Abstract!Next \/ UNCHANGED Abstract!vars
  OBVIOUS
<1>1. CASE UNCHANGED <<ping_istate, ping_replies, ping_state, counted>>
  BY <1>1 DEF Abstract!vars, Counted, Seqs
<1>2. CASE Reload
  BY <1>2, ReloadAbstract DEF Abstract!Next
<1>3. ASSUME NEW n \in Testers, CheckReplies(n)
      PROVE  Abstract!Judge(n)
  <2> DEFINE answers == [m \in Testers |-> Counted(m)]
  <2>1. Verdict(n) = (Abstract!Cardinality(answers[n]) >= ValidPings[n])
    BY SameCardinality, CountedIsValid DEF Verdict
  <2>2. UNCHANGED answers
    BY <1>3 DEF CheckReplies, Counted, Seqs
  <2> QED
    BY <1>3, <2>1, <2>2 DEF CheckReplies, Abstract!Judge
<1>4. ASSUME NEW n \in Testers, StartRun(n)
      PROVE  Abstract!NewRound(n)
  <2>1. ping_istate[n] = Pings[n] + 1
    BY <1>4, TesterConstants DEF StartRun, Types, TypeOK
  <2>2. /\ ping_istate' = [ping_istate EXCEPT ![n] = 1]
        /\ ping_replies' =
             [ping_replies EXCEPT ![n] = [s \in Seqs(n) |-> FALSE]]
        /\ counted' = [counted EXCEPT ![n] = [s \in Seqs(n) |-> Over]]
        /\ ping_state' = ping_state
    BY <1>4 DEF StartRun, FirstPing, NoReplies
  <2>3. \A m \in Testers : Counted(m)' = IF m = n THEN {} ELSE Counted(m)
    BY <2>2 DEF Counted, Types, CountedType, Seqs
  <2>4. [m \in Testers |-> Counted(m)']
          = [[m \in Testers |-> Counted(m)] EXCEPT ![n] = {}]
    BY <2>3
  <2> QED
    BY <2>1, <2>2, <2>4 DEF Abstract!NewRound
<1>5. ASSUME NEW n \in Testers, NextPing(n)
      PROVE  Abstract!Ask(n)
  <2>1. UNCHANGED [m \in Testers |-> Counted(m)]
    BY <1>5 DEF NextPing, Counted, Seqs
  <2> QED
    BY <1>5, <2>1 DEF NextPing, Abstract!Ask
<1>6. ASSUME NEW r \in wire, EchoReceivedData(r)
      PROVE  Abstract!Next \/ UNCHANGED Abstract!vars
  <2>1. CASE \E n \in Testers : \E s \in Seqs(n) :
               ~ping_replies[n][s] /\ Mine(n, r) /\ r.seq = s
    BY <1>6, <2>1, EchoAbstract DEF Abstract!Next
  <2>2. CASE ~\E n \in Testers : \E s \in Seqs(n) :
               ~ping_replies[n][s] /\ Mine(n, r) /\ r.seq = s
    <3>1. ASSUME NEW n \in Testers PROVE Counted(n)' = Counted(n)
      <4>1. \A s \in Seqs(n) : /\ ping_replies'[n][s] <=> ping_replies[n][s]
                               /\ counted'[n][s] = counted[n][s]
        BY <1>6, <2>2 DEF EchoReceivedData
      <4> QED
        BY <4>1 DEF Counted, Seqs
    <3>2. UNCHANGED <<ping_istate, ping_state>>
      BY <1>6 DEF EchoReceivedData
    <3> QED
      BY <3>1, <3>2 DEF Abstract!vars
  <2> QED
    BY <2>1, <2>2
<1>7. CASE Tick \/ Loss
  BY <1>1, <1>7 DEF Tick, Loss, Lose
<1>8. CASE \E a \in Addresses : HostDown(a) \/ HostUp(a)
  BY <1>1, <1>8 DEF HostDown, HostUp
<1> QED
  BY <1>1, <1>2, <1>3, <1>4, <1>5, <1>6, <1>7, <1>8
     DEF Next, TimeoutData, Abstract!Next, vars

(* With identifiers that are fresh, every verdict of every tester counts   *)
(* answers to that run's own requests and no others, whatever the network  *)
(* delays, reorders and duplicates across runs, testers and reloads.       *)
THEOREM RunsJudgeThemselves == FreshIds => (Spec => JudgesItsOwnRun)
<1> SUFFICES ASSUME FreshIds PROVE Spec => JudgesItsOwnRun
  OBVIOUS
<1>1. Types /\ OwnInv /\ [Next]_vars => [Abstract!Next]_(Abstract!vars)
  BY NextAbstract
<1>2. IInv => Types
  BY DEF IInv
<1>3. Spec => []OwnInv
  BY OwnInvHolds
<1>4. Spec => Abstract!Init /\ [][Abstract!Next]_(Abstract!vars)
  BY <1>1, <1>2, <1>3, InitAbstract, PingsInOrder, PTL DEF Spec
<1> QED
  BY <1>4 DEF JudgesItsOwnRun, Abstract!Spec
=============================================================================

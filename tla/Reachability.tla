---------------------------- MODULE Reachability ----------------------------
(***************************************************************************)
(* What an IPv4 address monitor promises, without packets, identifiers and *)
(* timers: it asks a fixed number of times, then judges the address by how *)
(* many of exactly those questions were answered.                          *)
(*                                                                         *)
(* A question is the round it was asked in and its number.  <<n, q>> is    *)
(* question q of the round n is in; the questions of a round that is over  *)
(* have other names, and so have those of the other monitors.              *)
(***************************************************************************)
EXTENDS Naturals, FiniteSets

CONSTANTS Testers, Pings, ValidPings

VARIABLES
  asked,     \* questions of this round so far; Pings + 1 once it is judged
  answered,  \* the questions whose answers count in this round
  reachable  \* the last verdict

vars == <<asked, answered, reachable>>

Numbers(n) == 0 .. Pings[n] - 1

(* The first round counts as answered. *)
Init ==
  /\ asked = Pings
  /\ answered = [n \in Testers |-> {<<n, q>> : q \in Numbers(n)}]
  /\ reachable = [n \in Testers |-> TRUE]

(* All monitors are set up again, as at the beginning. *)
Reload ==
  /\ asked' = Pings
  /\ answered' = [n \in Testers |-> {<<n, q>> : q \in Numbers(n)}]
  /\ reachable' = [n \in Testers |-> TRUE]

NewRound(n) ==
  /\ asked[n] = Pings[n] + 1
  /\ asked' = [asked EXCEPT ![n] = 1]
  /\ answered' = [answered EXCEPT ![n] = {}]
  /\ UNCHANGED reachable

Ask(n) ==
  /\ asked[n] < Pings[n]
  /\ asked' = [asked EXCEPT ![n] = @ + 1]
  /\ UNCHANGED <<answered, reachable>>

(* One question of n's round, asked already, is answered. *)
Answer(n) ==
  /\ \E q \in Numbers(n) :
       /\ q < asked[n]
       /\ answered' = [answered EXCEPT ![n] = @ \cup {<<n, q>>}]
  /\ UNCHANGED <<asked, reachable>>

Judge(n) ==
  /\ asked[n] = Pings[n]
  /\ asked' = [asked EXCEPT ![n] = @ + 1]
  /\ reachable' = [reachable EXCEPT
                     ![n] = Cardinality(answered[n]) >= ValidPings[n]]
  /\ UNCHANGED answered

Next ==
  \/ \E n \in Testers : NewRound(n) \/ Ask(n) \/ Answer(n) \/ Judge(n)
  \/ Reload

Spec == Init /\ [][Next]_vars
=============================================================================

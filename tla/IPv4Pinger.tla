----------------------------- MODULE IPv4Pinger -----------------------------
(***************************************************************************)
(* The ICMP packets of class IPv4Pinger (ipv4_pinger.cpp): how an echo     *)
(* request is put together, its checksum, and which packets on the raw     *)
(* socket are taken for an answer.                                         *)
(*                                                                         *)
(* A packet is its ICMP part, a sequence of words of two bytes: type and   *)
(* code, checksum, identifier, sequence number, then the time and the      *)
(* payload.  The width of a byte is a parameter, 256 in the code.          *)
(*                                                                         *)
(* A packet comes in whole and behind an IP header of 20 bytes: those too  *)
(* long for the 1500 bytes of readyReadData(), which recvfrom() cuts, and  *)
(* those with IP options, which it takes for ICMP, are left out.           *)
(***************************************************************************)
EXTENDS Integers, FiniteSets, Sequences

CONSTANTS
  Byte,         \* values of a byte
  EchoRequest,  \* ICMP type of a request; that of a reply is 0
  Ids,          \* identifiers of runs
  Seqnos,       \* sequence numbers
  Data,         \* what may follow them in a request: time and payload
  Strays        \* packets of others that may come in

Base == Byte * Byte
Word == 0 .. Base - 1
EchoReply == 0

(* The kernel passes no packet without an ICMP header.  No packet has as   *)
(* many words as a word has values.                                        *)
ASSUME IPv4PingerAssumption ==
  /\ Byte \in Nat \ {0, 1}
  /\ EchoRequest \in 1 .. Byte - 1
  /\ Ids \cup Seqnos \subseteq Word
  /\ Data \cup Strays \subseteq Seq(Word)
  /\ \A p \in Data : Len(p) + 4 < Base
  /\ \A p \in Strays : Len(p) \in 4 .. Base - 1

VARIABLES
  ping,   \* the request that is out, or <<>>
  asked,  \* what it is to carry, <<id, seqno>>
  wire,   \* the packet on its way to the socket, or <<>>
  odd,    \* its last byte is missing
  heard   \* the last packet's echoReceived(), as <<id, seqno>>, or <<>>

vars == <<ping, asked, wire, odd, heard>>

-----------------------------------------------------------------------------
(* The loop of Checksum(), whose sum is wide enough for every packet.      *)
Total(words) ==
  LET sum[i \in 0 .. Len(words)] ==
        IF i = 0 THEN 0 ELSE sum[i - 1] + words[i]
  IN  sum[Len(words)]

(* A faulty variant: the carry is dropped. *)
FoldDropped(sum) == sum % Base

(* The carry is added once; what that carries again is cut off by the      *)
(* width of the result.                                                    *)
Fold(sum) == (sum + sum \div Base) % Base

Checksum(words) == Base - 1 - Fold(Total(words))

(* GeneratePacket().  The checksum is that of the packet without one.      *)
GeneratePacket(seqno, id, data) ==
  LET blank == <<EchoRequest * Byte, 0, id, seqno>> \o data
  IN  [blank EXCEPT ![2] = Checksum(blank)]

(* A faulty variant: any type will do. *)
CheckPacketAnyType(words) == Checksum(words) = 0

CheckPacket(words) ==
  words[1] \div Byte = EchoReply /\ Checksum(words) = 0

(* The Internet checksum (RFC 1071): one's complement addition, in which   *)
(* only nothing but zeros adds up to zero.                                 *)
OnesSum(words) ==
  IF Total(words) = 0 THEN 0 ELSE 1 + ((Total(words) - 1) % (Base - 1))

Right(words) == OnesSum(words) = Base - 1

(* The echo reply to a request. *)
Answer(request) ==
  LET blank == <<EchoReply * Byte, 0>> \o SubSeq(request, 3, Len(request))
  IN  [blank EXCEPT ![2] = Base - 1 - OnesSum(blank)]

-----------------------------------------------------------------------------
Init ==
  /\ ping = <<>> /\ asked = <<>>
  /\ wire = <<>> /\ odd = FALSE
  /\ heard = <<>>

(* The 48 bytes of payload are whatever the stack holds. *)
SendPing(seqno, id) ==
  /\ ping = <<>>
  /\ \E data \in Data : ping' = GeneratePacket(seqno, id, data)
  /\ asked' = <<id, seqno>>
  /\ UNCHANGED <<wire, odd, heard>>

(* A host answers, unless the checksum of the request is wrong. *)
Reply ==
  /\ ping # <<>> /\ wire = <<>> /\ Right(ping)
  /\ wire' = Answer(ping)
  /\ UNCHANGED <<ping, asked, odd, heard>>

(* The answer has come, or is not waited for any longer. *)
Done ==
  /\ ping # <<>> /\ wire = <<>>
  /\ ping' = <<>> /\ asked' = <<>> /\ heard' = <<>>
  /\ UNCHANGED <<wire, odd>>

(* One word of an answer is damaged on the way. *)
Damage ==
  /\ ping # <<>> /\ wire = Answer(ping)
  /\ \E i \in DOMAIN wire, w \in Word : wire' = [wire EXCEPT ![i] = w]
  /\ UNCHANGED <<ping, asked, odd, heard>>

(* The raw socket hears every ICMP packet that comes to the machine, its   *)
(* own requests to itself too.                                             *)
Stray ==
  /\ wire = <<>>
  /\ wire' \in Strays \cup (IF ping = <<>> THEN {} ELSE {ping})
  /\ odd' \in BOOLEAN
  /\ UNCHANGED <<ping, asked, heard>>

(* What Checksum() sees of the packet: past an odd end it reads a byte     *)
(* that an earlier packet has left in the buffer.                          *)
Seen ==
  IF odd
  THEN {[wire EXCEPT ![Len(wire)] = Byte * (@ \div Byte) + b] :
          b \in 0 .. Byte - 1}
  ELSE {wire}

(* A faulty variant: the two fields are taken for each other. *)
FieldsSwapped(words) == <<words[4], words[3]>>

(* The identifier and the sequence number. *)
Fields(words) == <<words[3], words[4]>>

(* readyReadData() for one packet, whole and without IP options. *)
ReadyReadData ==
  /\ wire # <<>>
  /\ \E words \in Seen :
       heard' = IF CheckPacket(words) THEN Fields(words) ELSE <<>>
  /\ wire' = <<>> /\ odd' = FALSE
  /\ UNCHANGED <<ping, asked>>

Next ==
  \/ \E seqno \in Seqnos, id \in Ids : SendPing(seqno, id)
  \/ Reply \/ Done \/ Damage \/ Stray \/ ReadyReadData

Spec == Init /\ [][Next]_vars

-----------------------------------------------------------------------------
(* A request has the right checksum unless adding the carry carries once   *)
(* more; then a host throws it away, and the monitored address seems to    *)
(* have lost a ping.                                                       *)
PingIsRight ==
  ping # <<>> =>
    LET sum == Total(ping) - ping[2]
    IN  Right(ping) <=> (sum % Base) + (sum \div Base) < Base

(* Among the packets of even length, echo replies with the right checksum  *)
(* are heard and nothing else is, although the check adds the carry only   *)
(* once as well.                                                           *)
HearsTheRight ==
  [][ReadyReadData /\ ~odd =>
       (heard' # <<>> <=> wire[1] \div Byte = EchoReply /\ Right(wire))]_vars

(* The answer to a ping is heard as that ping's, and not at all when a     *)
(* word was damaged on the way, except where one zero of one's complement  *)
(* became the other.                                                       *)
AnswerIsHeard ==
  [][ReadyReadData /\ ~odd /\ ping # <<>> /\ Len(wire) = Len(ping) =>
       LET sent == Answer(ping)
           damaged == {i \in DOMAIN wire : wire[i] # sent[i]}
       IN  /\ damaged = {} => heard' = asked
           /\ Cardinality(damaged) = 1 /\ heard' # <<>> =>
                \A i \in damaged : {wire[i], sent[i]} = {0, Base - 1}]_vars
=============================================================================

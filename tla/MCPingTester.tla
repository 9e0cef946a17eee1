---------------------------- MODULE MCPingTester ----------------------------
(* Small instances of PingTester for TLC. *)
EXTENDS PingTester, TLC

CONSTANTS t1, t2, host, i1, i2, i3

(* Two testers of one address, so that each hears the other's answers; t1  *)
(* tolerates the loss of one ping of two, t2 is too quick for the network. *)
MCAddress == t1 :> host @@ t2 :> host
MCPings == t1 :> 2 @@ t2 :> 1
MCValidPings == t1 :> 1 @@ t2 :> 1
MCInterval == t1 :> 2 @@ t2 :> 1

(* The same with short sleeps, so that answers outlive the run. *)
LateAddress == MCAddress
LatePings == t1 :> 2 @@ t2 :> 2
LateValidPings == t1 :> 2 @@ t2 :> 1
LateInterval == t1 :> 1 @@ t2 :> 2
=============================================================================

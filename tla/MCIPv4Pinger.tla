---------------------------- MODULE MCIPv4Pinger ----------------------------
(* A small instance of IPv4Pinger for TLC. *)
EXTENDS IPv4Pinger

(* Bytes of two bits, and the two zeros of one's complement among the      *)
(* words, so that every sum from no carry to a carry out of the carry      *)
(* comes up.                                                               *)
MCData == [1 .. 3 -> {0, 5, 14, 15}]

(* An unreachable with a right checksum, and a reply to somebody else. *)
MCStrays == {<<12, 3, 0, 0>>, <<0, 9, 5, 1>>}
=============================================================================

----------------------------- MODULE MCOutbound -----------------------------
(* An instance of Outbound for TLC: one channel and the main queue. *)
EXTENDS Outbound

CONSTANTS c1

QueuesInOrder == <<Main, c1>>
=============================================================================

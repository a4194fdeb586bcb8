------------------------------ MODULE MCInbound ------------------------------
(* Instances of Inbound for TLC. *)
EXTENDS Inbound, TLC

Symmetric == Permutations(Readers)

\* How much the peer sends on each stream.
MostlyData == [s \in Streams |-> IF s = "data" THEN 48 ELSE 16]
ManyWindows == [s \in Streams |-> 160]
=============================================================================

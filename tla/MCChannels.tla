---------------------------- MODULE MCChannels ----------------------------
(* Channels for TLC. *)
EXTENDS Channels, TLC
CONSTANTS u1, u2
Symmetry == Permutations({u1, u2})
=============================================================================

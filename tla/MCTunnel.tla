------------------------------ MODULE MCTunnel ------------------------------
(* Instance of Tunnel for TLC: connections, and X11 tunnels, by name. *)
EXTENDS Tunnel
CONSTANTS c1, c2, x1
=============================================================================

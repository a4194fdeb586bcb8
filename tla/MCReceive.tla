---- MODULE MCReceive ----
(* Receive with aes and hmac-sha1 in units of four bytes, and a ring that wraps
   after two packets. *)
EXTENDS Receive
====

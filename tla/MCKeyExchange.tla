---- MODULE MCKeyExchange ----
(* KeyExchange with the lists of PTsshConfig.h cut down to two algorithms, and servers
   that prefer the other one, know it alone, or have none of a list. *)
EXTENDS KeyExchange
Algs == [l \in Lists |-> IF l = "kex" THEN <<"group14", "group1">> ELSE <<"aes128", "des3">>]
Servers == {Algs,
            [Algs EXCEPT !["c2s"] = <<"des3", "aes128">>, !["s2c"] = <<"des3">>],
            [Algs EXCEPT !["kex"] = <<"ecdh">>]}
Lengths == [t \in KexTypes \cup {"data"} |-> CASE t = "kexinit" -> 3 [] t = "data" -> 2 [] OTHER -> 1]
====

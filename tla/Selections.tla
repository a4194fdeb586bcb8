------------------------------ MODULE Selections ------------------------------
(***************************************************************************)
(* The members of a sequence that are in a set, in their order: what        *)
(* SelectSeq computes, written so that it can be reasoned about.            *)
(***************************************************************************)
EXTENDS Naturals, Sequences

Selection(s, S) ==
    LET upTo[i \in 0 .. Len(s)] ==
            IF i = 0 THEN <<>>
            ELSE IF s[i] \in S THEN Append(upTo[i - 1], s[i]) ELSE upTo[i - 1]
    IN  upTo[Len(s)]
=============================================================================

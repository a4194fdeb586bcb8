---------------------------- MODULE ChannelStream ----------------------------
(***************************************************************************)
(* What the sending half of PTssh promises about every queue it serves:    *)
(* the data accepted on a channel leaves as one contiguous byte stream, in *)
(* pieces that respect the peer's window and packet limit, and a control   *)
(* message leaves at exactly the place in the stream at which it was       *)
(* accepted.  Outbound.tla is the detailed specification that implements   *)
(* this one.                                                               *)
(***************************************************************************)
EXTENDS Integers, Sequences

CONSTANTS
    Queues,     \* the queues served: one per channel, and the main queue
    MaxPiece,   \* the largest piece of data the peer takes in one packet
    Sizes       \* the byte counts that one call, grant or piece may have

VARIABLES
    accepted,   \* accepted[c]: bytes of channel data accepted so far
    ctlAt,      \* ctlAt[c]: for every control message, the bytes accepted before it
    sent,       \* sent[c]: bytes of channel data that have left
    ctlSent,    \* ctlSent[c]: control messages that have left
    granted,    \* granted[c]: bytes the peer has allowed so far
    out         \* out[c]: the message that left last

streamVars == <<accepted, ctlAt, sent, ctlSent, granted, out>>

Nothing == [n |-> 0, off |-> 0, len |-> 0]

StreamInit ==
    /\ accepted = [c \in Queues |-> 0]
    /\ ctlAt = [c \in Queues |-> <<>>]
    /\ sent = [c \in Queues |-> 0]
    /\ ctlSent = [c \in Queues |-> 0]
    /\ granted \in [Queues -> Nat]
    /\ out = [c \in Queues |-> Nothing]

AcceptData(c, k) ==
    /\ accepted' = [accepted EXCEPT ![c] = @ + k]
    /\ UNCHANGED <<ctlAt, sent, ctlSent, granted, out>>

AcceptControl(c) ==
    /\ ctlAt' = [ctlAt EXCEPT ![c] = Append(@, accepted[c])]
    /\ UNCHANGED <<accepted, sent, ctlSent, granted, out>>

Grant(c, k) ==
    /\ granted' = [granted EXCEPT ![c] = @ + k]
    /\ UNCHANGED <<accepted, ctlAt, sent, ctlSent, out>>

\* No piece passes a control message that was accepted before it.
SendData(c, k) ==
    /\ k > 0 /\ k <= MaxPiece
    /\ sent[c] + k <= accepted[c]
    /\ sent[c] + k <= granted[c]
    /\ ctlSent[c] < Len(ctlAt[c]) => sent[c] + k <= ctlAt[c][ctlSent[c] + 1]
    /\ sent' = [sent EXCEPT ![c] = @ + k]
    /\ out' = [out EXCEPT ![c] = [n |-> 0, off |-> sent[c], len |-> k]]
    /\ UNCHANGED <<accepted, ctlAt, ctlSent, granted>>

SendControl(c) ==
    /\ ctlSent[c] < Len(ctlAt[c])
    /\ ctlAt[c][ctlSent[c] + 1] = sent[c]
    /\ ctlSent' = [ctlSent EXCEPT ![c] = @ + 1]
    /\ out' = [out EXCEPT ![c] = [n |-> ctlSent[c] + 1, off |-> sent[c], len |-> 0]]
    /\ UNCHANGED <<accepted, ctlAt, sent, granted>>

StreamNext ==
    \E c \in Queues :
        \/ AcceptControl(c)
        \/ SendControl(c)
        \/ \E k \in Sizes : AcceptData(c, k) \/ Grant(c, k) \/ SendData(c, k)

StreamSpec == StreamInit /\ [][StreamNext]_streamVars
=============================================================================

----------------------------- MODULE AduExchange -----------------------------
(***************************************************************************)
(* What the replay of a connection vector promises, whatever it waits for: *)
(* the data ADUs of each side arrive at the other one once and in order,   *)
(* a side closes its socket when it has sent and received all of them, and *)
(* sees the end of the connection when both sides have done so.            *)
(*                                                                         *)
(* As ADUs arrive in the order of the vector, the numbers of those sent    *)
(* and received say which ones they are.                                   *)
(***************************************************************************)
EXTENDS Integers

Sides == {"I", "A"}

Peer(s) == IF s = "I" THEN "A" ELSE "I"

VARIABLES
    total,   \* total[s]: the data ADUs of s in the vector; never changes
    sent,    \* sent[s]: how many of them s has sent
    got,     \* got[s]: how many ADUs s has received
    closed,  \* closed[s]: whether s has closed its socket
    ended    \* ended[s]: whether s has seen the end of the connection

vars == <<total, sent, got, closed, ended>>

Init ==
    /\ total \in [Sides -> Nat]
    /\ sent = [s \in Sides |-> 0]
    /\ got = [s \in Sides |-> 0]
    /\ closed = [s \in Sides |-> FALSE]
    /\ ended = [s \in Sides |-> FALSE]

ReceivedAll(s) == got[s] = total[Peer(s)]

\* s sends up to its n-th ADU, and closes with the last one if it may.
Send(s, n) ==
    /\ ~closed[s]
    /\ n \in sent[s] + 1 .. total[s]
    /\ sent' = [sent EXCEPT ![s] = n]
    /\ \/ UNCHANGED closed
       \/ /\ n = total[s] /\ ReceivedAll(s)
          /\ closed' = [closed EXCEPT ![s] = TRUE]
    /\ UNCHANGED <<total, got, ended>>

\* s has received up to the n-th ADU of its peer, and nothing not sent.
Deliver(s, n) ==
    /\ n \in got[s] + 1 .. sent[Peer(s)]
    /\ got' = [got EXCEPT ![s] = n]
    /\ UNCHANGED <<total, sent, closed, ended>>

Close(s) ==
    /\ ~closed[s]
    /\ sent[s] = total[s] /\ ReceivedAll(s)
    /\ closed' = [closed EXCEPT ![s] = TRUE]
    /\ UNCHANGED <<total, sent, got, ended>>

\* s sees that its peer closed, and closes too if it has not yet.
End(s) ==
    /\ closed[Peer(s)] /\ ~ended[s]
    /\ sent[s] = total[s] /\ ReceivedAll(s)
    /\ closed' = [closed EXCEPT ![s] = TRUE]
    /\ ended' = [ended EXCEPT ![s] = TRUE]
    /\ UNCHANGED <<total, sent, got>>

Next ==
    \E s \in Sides :
      \/ \E n \in sent[s] + 1 .. total[s] : Send(s, n)
      \/ \E n \in got[s] + 1 .. sent[Peer(s)] : Deliver(s, n)
      \/ Close(s)
      \/ End(s)

Spec == Init /\ [][Next]_vars
=============================================================================

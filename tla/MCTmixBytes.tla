----------------------------- MODULE MCTmixBytes -----------------------------
(* Connection vectors in bytes for model-checking TmixBytes.               *)
EXTENDS TmixBytes

\* The data ADUs of the sides in the order of turns, each of a size and with
\* a wait: after the ADU before it if that is of the same side, else after
\* its receipt.
Turns(sides, sizes, waits) ==
    [i \in DOMAIN sides |->
        LET follows == i > 1 /\ sides[i] = sides[i-1]
        IN [side |-> sides[i], size |-> sizes[i],
            sendWait |-> IF follows THEN waits[i] ELSE 0,
            recvWait |-> IF i = 1 \/ follows THEN 0 ELSE waits[i]]]

\* The last sender closes explicitly after a wait.
ClosedBy(v, wait) ==
    Append(v, [side |-> v[Len(v)].side, size |-> 0, sendWait |-> wait,
               recvWait |-> 0])

\* Alternating turns of m ADUs; a wait of the first one is not used.
AlternatingTurns(m, sizes) ==
    {Turns([i \in 1..m |-> IF i % 2 = 1 THEN first ELSE Peer(first)], z, w) :
        first \in Sides, z \in [1..m -> sizes], w \in [1..m -> 1..2]}

\* Up to three ADUs of one or two bytes, and five of one byte.
SequentialVectors ==
    LET data == AlternatingTurns(1, 1..2) \cup AlternatingTurns(2, 1..2)
                  \cup AlternatingTurns(3, 1..2) \cup AlternatingTurns(5, {1})
    IN data \cup {ClosedBy(v, w) : v \in data, w \in 1..2}

\* Turns of several ADUs, three of up to three bytes, which follow each
\* other at once or after a wait, so that packets run across ADUs.
TurnVectors ==
    {Turns(d, z, w) : d \in [1..3 -> Sides], z \in [1..3 -> 1..3],
                      w \in [1..3 -> 0..1]}

ByteVectors == SequentialVectors \cup TurnVectors
=============================================================================

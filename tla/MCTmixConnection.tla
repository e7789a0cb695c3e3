-------------------------- MODULE MCTmixConnection --------------------------
(* Connection vectors for model-checking TmixConnection.                   *)
EXTENDS TmixConnection

\* Every ADU whose wait is at most w; not both waits, as in the format.
SmallAdus(w) ==
    {a \in [side: Sides, sendWait: 0..w, recvWait: 0..w, size: {0, 1}] :
        a.sendWait = 0 \/ a.recvWait = 0}

\* What the constructor takes and the file format promises.
WellFormed(v) ==
    \A s \in Sides : /\ Accepted(Adus(v, s))
                     /\ OneWait(Adus(v, s))
                     /\ FirstDoesNotFollowASend(Adus(v, s))

SeqsOf(S, n) == UNION {[1..m -> S] : m \in 0..n}

\* One ADU of the initiator and three of the acceptor, which may receive it
\* so long before its first answer that the answer is overdue when it is due.
LateAnswers ==
    {<<a>> \o v : a \in {a \in SmallAdus(0) : a.side = "I" /\ a.size = 1},
                  v \in [1..3 -> {a \in SmallAdus(2) : a.side = "A"}]}

\* Every vector of at most three ADUs, of four with waits of 0 or 1, and the
\* late answers.
AnyVectors ==
    {v \in SeqsOf(SmallAdus(2), 3) \cup SeqsOf(SmallAdus(1), 4)
            \cup LateAnswers : WellFormed(v)}

\* Sequential, turns of several ADUs: each one follows the one before it on
\* its own side by sendWait, or answers the last ADU of the turn before it.
Turns(v) ==
    /\ v # <<>> /\ v[1].size = 1 /\ Immediate(v[1])
    /\ \A i \in 2..Len(v) :
          IF v[i].side = v[i-1].side THEN v[i].sendWait > 0
          ELSE v[i].size = 1 /\ v[i].recvWait > 0

TurnVectors == {v \in SeqsOf(SmallAdus(1), 5) : Turns(v) /\ WellFormed(v)}
=============================================================================

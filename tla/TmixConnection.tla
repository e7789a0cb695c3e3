--------------------------- MODULE TmixConnection ---------------------------
(***************************************************************************)
(* One Tmix connection: the Initiator and the Acceptor of                  *)
(* src/tmix/model/tmix.cc replay a connection vector, a list of            *)
(* application data units (ADUs), over one TCP connection.                 *)
(*                                                                         *)
(* Each side keeps a queue of ADUs to send and a queue of ADUs to receive. *)
(* An ADU is sent at once, sendWait after the previous send, or recvWait   *)
(* after a receipt; a DoSend event is put in the simulator's event list    *)
(* for the last two.  A side that has nothing left to send or to receive   *)
(* closes its socket.                                                      *)
(*                                                                         *)
(* Grain: an ADU is handed to TCP, and arrives, as a whole; its size only  *)
(* tells a data ADU from the closing one, of size 0.  TmixBytes has the    *)
(* bytes of partly received ADUs and the limit of the send buffer.         *)
(*                                                                         *)
(* TCP and the simulator are external: TCP delivers every byte once and in *)
(* order, then the FIN; the simulator runs each event at its time.         *)
(***************************************************************************)
EXTENDS Integers, Sequences, FiniteSets

CONSTANTS
    Vectors,     \* the connection vectors that may be replayed
    MaxRetries   \* bound on how many times the connection attempt fails

Sides == {"I", "A"}

Peer(s) == IF s = "I" THEN "A" ELSE "I"

ADU == [side: Sides, sendWait: Nat, recvWait: Nat, size: Nat]

\* The places in v of the ADUs of s.
Places(v, s) == {p \in 1..Len(v) : v[p].side = s}

\* The place of the i-th one.
PlaceOf(v, s, i) ==
    CHOOSE p \in Places(v, s) : Cardinality({j \in Places(v, s) : j <= p}) = i

\* The ADUs of one side of a vector, in the order of the vector.
Adus(v, s) == [i \in 1..Cardinality(Places(v, s)) |-> v[PlaceOf(v, s, i)]]

\* What the constructor of Worker accepts: only the last ADU has size zero.
Accepted(q) == \A i \in 1..Len(q) : q[i].size = 0 => i = Len(q)

\* "Either sendWaitTime, or recvWaitTime, or both are always zero."
OneWait(q) == \A i \in 1..Len(q) : q[i].sendWait = 0 \/ q[i].recvWait = 0

\* No side can wait after a send before it has sent anything.
FirstDoesNotFollowASend(q) == q # <<>> => q[1].sendWait = 0

ASSUME VectorsAssumption ==
    /\ Vectors \subseteq Seq(ADU)
    /\ \A v \in Vectors, s \in Sides :
          /\ Accepted(Adus(v, s))
          /\ OneWait(Adus(v, s))
          /\ FirstDoesNotFollowASend(Adus(v, s))

ASSUME MaxRetriesAssumption == MaxRetries \in Nat

VARIABLES
    now,       \* Simulator::Now()
    cvec,      \* m_cvec
    conn,      \* conn[s]: "idle", "listening", "connecting" or "open"
    retries,   \* how often Connect was retried
    toSend,    \* toSend[s]: m_adusToSend
    toRecv,    \* toRecv[s]: m_adusToRecv
    lastSend,  \* lastSend[s]: m_lastSendTime, -1 if nothing was sent
    lastRecv,  \* lastRecv[s]: m_lastRecvTime, -1 if nothing to answer
    closed,    \* closed[s]: m_closed
    timers,    \* timers[s]: times of the DoSend events pending for s
    inflight,  \* inflight[s]: data ADUs handed to TCP that s has not got
    fin,       \* fin[s]: the peer's FIN, "none", "sent" or "seen" by s
    fatal,     \* the assertion or NS_FATAL_ERROR that stopped the program
    notified,  \* calls of m_notifyCvecComplete
    freed,     \* calls of m_deallocate
    heardAt    \* heardAt[s]: history, when s got each ADU it received

vars == <<now, cvec, conn, retries, toSend, toRecv, lastSend, lastRecv,
          closed, timers, inflight, fin, fatal, notified, freed, heardAt>>

TypeOK ==
    /\ now \in Nat
    /\ cvec \in Seq(ADU)
    /\ conn \in [Sides -> {"idle", "listening", "connecting", "open"}]
    /\ retries \in 0..MaxRetries
    /\ toSend \in [Sides -> Seq(ADU)]
    /\ toRecv \in [Sides -> Seq(ADU)]
    /\ lastSend \in [Sides -> Nat \cup {-1}]
    /\ lastRecv \in [Sides -> Nat \cup {-1}]
    /\ closed \in [Sides -> BOOLEAN]
    /\ timers \in [Sides -> Seq(Nat)]
    /\ inflight \in [Sides -> Nat]
    /\ fin \in [Sides -> {"none", "sent", "seen"}]
    /\ fatal \in {"none", "sendWait", "notConnected", "zeroSizeNotLast",
                  "extraBytes", "unsentAtFin", "finTooEarly"}
    /\ notified \in Nat
    /\ freed \in Nat
    /\ heardAt \in [Sides -> Seq(Nat)]

-----------------------------------------------------------------------------
(* The queues.                                                             *)

Immediate(a) == a.sendWait = 0 /\ a.recvWait = 0

\* Mutated: a last data ADU counts as the closing one.
DrainedLast(q) == Len(q) <= 1

\* Nothing left, or only the closing ADU: the two tests of CloseIfDone.
Drained(q) == q = <<>> \/ (Len(q) = 1 /\ q[1].size = 0)

\* The number of ADUs of q that carry data.
DataLeft(q) ==
    IF q # <<>> /\ q[Len(q)].size = 0 THEN Len(q) - 1 ELSE Len(q)

Drop(q, n) == SubSeq(q, n + 1, Len(q))

\* DoSend and ScheduleNextSend call each other as long as the next ADU is
\* to be sent immediately: the first n ADUs of q go out in one burst.
IsBurst(q, n) ==
    /\ n \in 1..Len(q)
    /\ \A i \in 2..n : Immediate(q[i])
    /\ n < Len(q) => ~Immediate(q[n + 1])

\* Mutated: the delay until t instead of t.
NotBeforeDelay(t) == t - now

\* An event is never scheduled in the past: an overdue one runs now.
NotBefore(t) == IF t >= now THEN t ELSE now

\* The DoSend events ScheduleNextSend creates for an ADU that waits, given
\* m_lastSendTime and m_lastRecvTime: none if there is nothing to answer.
Wakeups(a, sent, got) ==
    IF a.sendWait > 0 THEN <<NotBefore(sent + a.sendWait)>>
    ELSE IF got < 0 THEN <<>>
    ELSE <<NotBefore(got + a.recvWait)>>

-----------------------------------------------------------------------------
(* The functions of Worker that the handlers share.                        *)

\* Mutated: closes without looking at what is left to receive.
CloseIfSent(s, q) ==
    IF Drained(q)
    THEN /\ closed' = [closed EXCEPT ![s] = TRUE]
         /\ fin' = [fin EXCEPT ![Peer(s)] = IF @ = "none" THEN "sent" ELSE @]
    ELSE UNCHANGED <<closed, fin>>

\* CloseIfDone, called when q is what is left to send.
CloseIfDone(s, q) ==
    IF Drained(q) /\ Drained(toRecv[s])
    THEN /\ closed' = [closed EXCEPT ![s] = TRUE]
         /\ fin' = [fin EXCEPT ![Peer(s)] = IF @ = "none" THEN "sent" ELSE @]
    ELSE UNCHANGED <<closed, fin>>

\* ScheduleNextSend for a first ADU that waits for a time or a receipt.
\* pending are the DoSend events of s still to run, sent is m_lastSendTime.
WaitForNext(s, a, pending, sent) ==
    IF a.sendWait > 0 /\ sent < 0
    THEN /\ fatal' = "sendWait"
         /\ timers' = [timers EXCEPT ![s] = pending]
         /\ UNCHANGED lastRecv
    ELSE /\ timers' = [timers EXCEPT
                          ![s] = pending \o Wakeups(a, sent, lastRecv[s])]
         /\ lastRecv' = IF a.sendWait > 0 THEN lastRecv
                        ELSE [lastRecv EXCEPT ![s] = -1]
         /\ UNCHANGED fatal

\* What DoSend does to the worker when it sends the first n ADUs: the first
\* one and the immediate ones that follow it.  When no closing ADU is left
\* after data, an immediate one is queued and popped in the same burst,
\* which closes like an explicit one.
Burst(s, n, pending) ==
    LET rest == Drop(toSend[s], n)
        data == DataLeft(toSend[s]) - DataLeft(rest)
        sent == IF data > 0 THEN now ELSE lastSend[s]
        bad  == IF data > 0 /\ closed[s] THEN "notConnected"
                ELSE IF \E i \in 1..n : toSend[s][i].size = 0
                                        /\ i < Len(toSend[s])
                THEN "zeroSizeNotLast" ELSE "none"
    IN /\ IsBurst(toSend[s], n)
       /\ toSend' = [toSend EXCEPT ![s] = rest]
       /\ lastSend' = [lastSend EXCEPT ![s] = sent]
       /\ IF bad # "none"
          THEN /\ fatal' = bad
               /\ timers' = [timers EXCEPT ![s] = pending]
               /\ UNCHANGED <<lastRecv, closed, fin>>
          ELSE IF rest = <<>>
          THEN /\ CloseIfDone(s, rest)
               /\ timers' = [timers EXCEPT ![s] = pending]
               /\ UNCHANGED <<lastRecv, fatal>>
          ELSE /\ WaitForNext(s, rest[1], pending, sent)
               /\ UNCHANGED <<closed, fin>>

\* The data ADUs among the first n of s.
DataIn(s, n) == DataLeft(toSend[s]) - DataLeft(Drop(toSend[s], n))

\* DoSend with an ADU to send.
SendBurst(s, pending) ==
    \E n \in 1..Len(toSend[s]) :
      /\ Burst(s, n, pending)
      /\ inflight' = [inflight EXCEPT ![Peer(s)] = @ + DataIn(s, n)]

\* "Begin sending, maybe": what both sides do once connected.
BeginSending(s) ==
    IF toSend[s] = <<>>
    THEN UNCHANGED <<toSend, lastSend, inflight, lastRecv, timers, closed,
                     fin, fatal>>
    ELSE IF Immediate(toSend[s][1])
    THEN SendBurst(s, timers[s])
    ELSE /\ WaitForNext(s, toSend[s][1], timers[s], lastSend[s])
         /\ UNCHANGED <<toSend, lastSend, inflight, closed, fin>>

-----------------------------------------------------------------------------
(* The events.                                                             *)

Init ==
    /\ cvec \in Vectors
    /\ now = 0
    /\ conn = [s \in Sides |-> "idle"]
    /\ retries = 0
    /\ toSend = [s \in Sides |-> Adus(cvec, s)]
    /\ toRecv = [s \in Sides |-> Adus(cvec, Peer(s))]
    /\ lastSend = [s \in Sides |-> -1]
    /\ lastRecv = [s \in Sides |-> -1]
    /\ closed = [s \in Sides |-> FALSE]
    /\ timers = [s \in Sides |-> <<>>]
    /\ inflight = [s \in Sides |-> 0]
    /\ fin = [s \in Sides |-> "none"]
    /\ fatal = "none"
    /\ notified = 0
    /\ freed = 0
    /\ heardAt = [s \in Sides |-> <<>>]

Running == fatal = "none"

worker == <<toSend, toRecv, lastSend, lastRecv, closed, timers, inflight,
            fin, fatal, notified, freed, heardAt>>

\* Acceptor::Start: bind and listen.
AcceptorStart ==
    /\ Running
    /\ conn["A"] = "idle"
    /\ conn' = [conn EXCEPT !["A"] = "listening"]
    /\ UNCHANGED <<now, cvec, retries, worker>>

\* Initiator::Start, scheduled right after the acceptor's Start.
InitiatorStart ==
    /\ Running
    /\ conn["I"] = "idle" /\ conn["A"] # "idle"
    /\ conn' = [conn EXCEPT !["I"] = "connecting"]
    /\ UNCHANGED <<now, cvec, retries, worker>>

\* TCP gives up on the handshake and the initiator connects again.
ConnectionFailed ==
    /\ Running
    /\ conn["I"] = "connecting" /\ retries < MaxRetries
    /\ retries' = retries + 1
    /\ UNCHANGED <<now, cvec, conn, worker>>

ConnectionComplete ==
    /\ Running
    /\ conn["I"] = "connecting"
    /\ conn' = [conn EXCEPT !["I"] = "open"]
    /\ BeginSending("I")
    /\ UNCHANGED <<now, cvec, retries, toRecv, notified, freed, heardAt>>

\* The handshake ends at the acceptor after it ended at the initiator.
NewConnectionCreated ==
    /\ Running
    /\ conn["A"] = "listening" /\ conn["I"] = "open"
    /\ conn' = [conn EXCEPT !["A"] = "open"]
    /\ BeginSending("A")
    /\ UNCHANGED <<now, cvec, retries, toRecv, notified, freed, heardAt>>

\* Mutated: m_lastRecvTime stays set when a receipt schedules an answer.
AnswerReceiptsKeeping(s, k) ==
    /\ lastRecv' = [lastRecv EXCEPT ![s] = now]
    /\ IF toSend[s] # <<>> /\ toSend[s][1].recvWait > 0
       THEN timers' = [timers EXCEPT ![s] =
                         @ \o [i \in 1..k |-> now + toSend[s][1].recvWait]]
       ELSE UNCHANGED timers

\* Mutated: the answer is scheduled without its recvWait.
AnswerReceiptsAtOnce(s, k) ==
    IF toSend[s] # <<>> /\ toSend[s][1].recvWait > 0
    THEN /\ timers' = [timers EXCEPT ![s] = @ \o [i \in 1..k |-> now]]
         /\ lastRecv' = [lastRecv EXCEPT ![s] = -1]
    ELSE /\ lastRecv' = [lastRecv EXCEPT ![s] = now]
         /\ UNCHANGED timers

\* Mutated: a receipt calls ScheduleNextSend whatever the next ADU waits for.
AnswerReceiptsAlways(s, k) ==
    IF toSend[s] # <<>>
    THEN /\ timers' = [timers EXCEPT ![s] = @ \o
                         Wakeups(toSend[s][1], lastSend[s], now)]
         /\ lastRecv' = [lastRecv EXCEPT ![s] = -1]
    ELSE /\ lastRecv' = [lastRecv EXCEPT ![s] = now]
         /\ UNCHANGED timers

\* What a receipt triggers.  Each of the k ADUs schedules a DoSend if the
\* first ADU to send waits for a receipt, and that clears m_lastRecvTime.
AnswerReceipts(s, k) ==
    IF toSend[s] # <<>> /\ toSend[s][1].recvWait > 0
    THEN /\ timers' = [timers EXCEPT ![s] =
                         @ \o [i \in 1..k |-> now + toSend[s][1].recvWait]]
         /\ lastRecv' = [lastRecv EXCEPT ![s] = -1]
    ELSE /\ lastRecv' = [lastRecv EXCEPT ![s] = now]
         /\ UNCHANGED timers

\* Receive with a packet that completes k ADUs.
Receive(s, k) ==
    /\ Running
    /\ conn[s] = "open"
    /\ k \in 1..inflight[s]
    /\ inflight' = [inflight EXCEPT ![s] = @ - k]
    /\ IF k > DataLeft(toRecv[s])
       THEN /\ fatal' = "extraBytes"
            /\ UNCHANGED <<toRecv, heardAt, lastRecv, timers>>
       ELSE /\ toRecv' = [toRecv EXCEPT ![s] = Drop(@, k)]
            /\ heardAt' = [heardAt EXCEPT ![s] = @ \o [i \in 1..k |-> now]]
            /\ AnswerReceipts(s, k)
            /\ UNCHANGED fatal
    /\ UNCHANGED <<now, cvec, conn, retries, toSend, lastSend, closed, fin,
                   notified, freed>>

FinArrives(s) ==
    /\ Running
    /\ conn[s] = "open"
    /\ fin[s] = "sent" /\ inflight[s] = 0

\* Receive without a packet: the peer's FIN reaches a socket closed here.
ReceiveFin(s) ==
    /\ FinArrives(s)
    /\ closed[s]
    /\ IF toSend[s] # <<>>
       THEN /\ fatal' = "unsentAtFin"
            /\ UNCHANGED notified
       ELSE IF Drained(toRecv[s])
       THEN /\ notified' = notified + 1
            /\ UNCHANGED fatal
       ELSE /\ fatal' = "finTooEarly"
            /\ UNCHANGED notified
    /\ fin' = [fin EXCEPT ![s] = "seen"]
    /\ UNCHANGED <<now, cvec, conn, retries, toSend, toRecv, lastSend,
                   lastRecv, closed, timers, inflight, freed, heardAt>>

\* Mutated: the side that sees the FIN first notifies the completion too.
ClosedNotifying(s) ==
    LET done == Drained(toSend[s]) /\ Drained(toRecv[s])
    IN /\ FinArrives(s)
       /\ ~closed[s]
       /\ closed' = [closed EXCEPT ![s] = done]
       /\ fin' = [fin EXCEPT
                    ![s] = "seen",
                    ![Peer(s)] = IF done /\ @ = "none" THEN "sent" ELSE @]
       /\ notified' = notified + 1
       /\ UNCHANGED <<now, cvec, conn, retries, toSend, toRecv, lastSend,
                      lastRecv, timers, inflight, fatal, freed, heardAt>>

\* Mutated: the peer's close is not answered by closing this side.
ClosedIgnoring(s) ==
    /\ FinArrives(s)
    /\ ~closed[s]
    /\ fin' = [fin EXCEPT ![s] = "seen"]
    /\ UNCHANGED <<now, cvec, conn, retries, toSend, toRecv, lastSend,
                   lastRecv, closed, timers, inflight, fatal, notified,
                   freed, heardAt>>

\* Closed: the FIN reaches a socket still open here.  The acceptor tries
\* once more, and gives the port back if it is that call that closes.
Closed(s) ==
    LET done == Drained(toSend[s]) /\ Drained(toRecv[s])
        closedByWorker == done
        closedByAcceptor == s = "A" /\ ~closedByWorker /\ done
    IN /\ FinArrives(s)
       /\ ~closed[s]
       /\ closed' = [closed EXCEPT ![s] = closedByWorker \/ closedByAcceptor]
       /\ fin' = [fin EXCEPT
                    ![s] = "seen",
                    ![Peer(s)] = IF done /\ @ = "none" THEN "sent" ELSE @]
       /\ freed' = IF closedByAcceptor THEN freed + 1 ELSE freed
       /\ UNCHANGED <<now, cvec, conn, retries, toSend, toRecv, lastSend,
                      lastRecv, timers, inflight, fatal, notified, heardAt>>

\* The i-th pending DoSend event of s runs.
DoSend(s, i) ==
    LET pending == SubSeq(timers[s], 1, i - 1) \o Drop(timers[s], i)
    IN /\ Running
       /\ i \in 1..Len(timers[s])
       /\ timers[s][i] <= now
       /\ IF toSend[s] = <<>>
          THEN /\ timers' = [timers EXCEPT ![s] = pending]
               /\ UNCHANGED <<toSend, lastSend, inflight, lastRecv, closed,
                              fin, fatal>>
          ELSE SendBurst(s, pending)
       /\ UNCHANGED <<now, cvec, conn, retries, toRecv, notified, freed,
                      heardAt>>

\* Time passes only towards the next pending event: the workers read the
\* clock nowhere else, so a longer pause shows in no state.
Tick ==
    /\ Running
    /\ \E s \in Sides : timers[s] # <<>>
    /\ \A s \in Sides : \A i \in 1..Len(timers[s]) : timers[s][i] > now
    /\ now' = now + 1
    /\ UNCHANGED <<cvec, conn, retries, worker>>

Next ==
    \/ AcceptorStart
    \/ InitiatorStart
    \/ ConnectionFailed
    \/ ConnectionComplete
    \/ NewConnectionCreated
    \/ \E s \in Sides : \E k \in 1..inflight[s] : Receive(s, k)
    \/ \E s \in Sides : ReceiveFin(s)
    \/ \E s \in Sides : Closed(s)
    \/ \E s \in Sides : \E i \in 1..Len(timers[s]) : DoSend(s, i)
    \/ Tick

Spec == Init /\ [][Next]_vars

\* The simulator runs until no event is left, and TCP loses nothing.
FairSpec == Spec /\ WF_vars(Next)

-----------------------------------------------------------------------------
(* What has happened so far.                                               *)

\* How many of its ADUs s has sent, the closing one included.
SentCount(s) == Len(Adus(cvec, s)) - Len(toSend[s])

\* The ADUs of s that a step sends.
SentNow(s) == SentCount(s) + 1 .. Len(Adus(cvec, s)) - Len(toSend'[s])

\* The data ADUs of the other side that come before the i-th ADU of s.
RequestsBefore(s, i) ==
    Cardinality({j \in 1..PlaceOf(cvec, s, i) :
                   cvec[j].side # s /\ cvec[j].size > 0})

\* No ADU waits for a receipt: both sides send, the first ADU at once and
\* each other one some time after the one before it.
Concurrent(v) ==
    \A s \in Sides :
      LET q == Adus(v, s)
      IN /\ q # <<>> /\ q[1].size > 0 /\ Immediate(q[1])
         /\ \A i \in 2..Len(q) : q[i].sendWait > 0 /\ q[i].recvWait = 0

\* One data ADU a turn: each one answers the one before it, and at most the
\* last sender closes explicitly, some time after its last ADU.
Alternating(v) ==
    /\ v # <<>> /\ v[1].size > 0 /\ Immediate(v[1])
    /\ \A i \in 2..Len(v) :
          IF v[i].side # v[i-1].side THEN v[i].size > 0 /\ v[i].recvWait > 0
          ELSE i = Len(v) /\ v[i].size = 0 /\ v[i].sendWait > 0

RepliesSent(s) ==
    Cardinality({i \in 1..SentCount(s) : Adus(cvec, s)[i].recvWait > 0})

\* The vector was replayed to its end: both sockets are closed, each FIN
\* was seen and the completion was notified once.
Replayed ==
    /\ \A s \in Sides : closed[s] /\ fin[s] = "seen"
    /\ notified = 1

-----------------------------------------------------------------------------
(* What a connection implements.                                           *)

\* The data ADUs of s in the vector, and what AduExchange counts.
Total == [s \in Sides |-> DataLeft(Adus(cvec, s))]
Sent == [s \in Sides |-> Total[s] - DataLeft(toSend[s])]
Got == [s \in Sides |-> Total[Peer(s)] - DataLeft(toRecv[s])]
Ended == [s \in Sides |-> fin[s] = "seen"]

Exchange == INSTANCE AduExchange
              WITH total <- Total, sent <- Sent, got <- Got, ended <- Ended

\* Whatever the waits and the order of receipts and timers, the handlers of
\* Worker only do what AduExchange allows: every ADU once and in order, each
\* close after all data, the end seen after both sides closed.
ExchangesAdus == Exchange!Spec

-----------------------------------------------------------------------------
(* Safety.                                                                 *)

\* No assertion or NS_FATAL_ERROR of Worker stops the simulation: no data
\* after the socket was closed, no bytes beyond the vector, no FIN while
\* there is something to send or to receive.
NoFatal == fatal = "none"

\* A socket is closed only when both sides have sent all their data and
\* this one has received all of it; when the FIN is seen, both have.
CloseIsGraceful ==
    \A s \in Sides :
      /\ closed[s] => /\ DataLeft(toRecv[s]) = 0
                      /\ \A t \in Sides : DataLeft(toSend[t]) = 0
      /\ fin[s] = "seen" => \A t \in Sides : DataLeft(toRecv[t]) = 0

\* However receipts and DoSend events interleave, a side never sends more
\* answers than it has received ADUs (the purpose of clearing
\* m_lastRecvTime in ScheduleNextSend).
RepliesPaid == \A s \in Sides : RepliesSent(s) <= Len(heardAt[s])

\* When turns alternate, a side waits for one time at a time: no stray
\* DoSend is pending that would send the ADU after the one it is for.
NoStrayDoSend ==
    Alternating(cvec) => \A s \in Sides : Len(timers[s]) <= 1

\* An ADU that follows a send is not sent before sendWait has passed
\* ("the earliest time at which the data may be sent").
SendWaitRespected ==
    [][\A s \in Sides : \A i \in SentNow(s) :
          Adus(cvec, s)[i].sendWait > 0
            => now >= lastSend[s] + Adus(cvec, s)[i].sendWait]_vars

\* In a concurrent vector an ADU goes out exactly sendWait after the one
\* before it, whatever is received in between.
SentOnSchedule ==
    [][\A s \in Sides : \A i \in SentNow(s) :
          Concurrent(cvec) /\ i > 1
            => now = lastSend[s] + Adus(cvec, s)[i].sendWait]_vars

\* When turns alternate, an answer is sent only after every ADU before it in
\* the vector was received from the peer, and when recvWait has passed
\* since the last one.
RecvWaitRespected ==
    [][\A s \in Sides : \A i \in SentNow(s) :
          LET a == Adus(cvec, s)[i]
              n == RequestsBefore(s, i)
          IN Alternating(cvec) /\ a.recvWait > 0
               => /\ n <= Len(heardAt[s])
                  /\ now >= heardAt[s][n] + a.recvWait]_vars

-----------------------------------------------------------------------------
(* Liveness.                                                               *)

\* A side that pops its closing ADU and cannot close leaves it to the other
\* side to initiate the close.
OtherSideCloses ==
    \A s \in Sides : (conn[s] = "open" /\ toSend[s] = <<>>)
                        ~> (\E t \in Sides : closed[t])
=============================================================================

------------------------------ MODULE TmixBytes ------------------------------
(***************************************************************************)
(* A Tmix connection in bytes: TmixConnection with the loop of             *)
(* Worker::Receive, which takes a packet apart into ADUs and parts of      *)
(* ADUs, and with the send buffer that Worker::DoSend may fill up.         *)
(*                                                                         *)
(* The state is that of TmixConnection, read in bytes: inflight[s] is how  *)
(* many bytes s has not got, and the size of the first ADU in toRecv[s] is *)
(* what is missing of it.  The handlers that do not look at bytes are      *)
(* those of TmixConnection.                                                *)
(*                                                                         *)
(* DoSend hands an ADU to the socket in packets, within one event, and the *)
(* socket takes a packet as a whole or not at all; the buffer is not       *)
(* emptied meanwhile, so that only the sum decides whether all fit in.     *)
(***************************************************************************)
EXTENDS TmixConnection

CONSTANT
    SndBuf   \* SndBufSize of a socket, 2000000000

ASSUME SndBufAssumption == SndBuf \in Nat

VARIABLE
    full     \* whether "Send buffer filled" stopped the program

bvars == <<vars, full>>

-----------------------------------------------------------------------------
(* Counting bytes.                                                         *)

\* The bytes of the first n ADUs of q, for each n.
BytesUpTo(q) ==
    LET sum[n \in 0..Len(q)] == IF n = 0 THEN 0 ELSE sum[n - 1] + q[n].size
    IN sum

Bytes(q) == BytesUpTo(q)[Len(q)]

\* Mutated: counts ADUs.
AdusIn(s, n) == DataIn(s, n)

\* The bytes of the first n ADUs that s has to send.
BytesIn(s, n) == Bytes(SubSeq(toSend[s], 1, n))

\* What s has put into its socket since the connection began.
Written(s) == Bytes(Adus(cvec, s)) - Bytes(toSend[s])

\* The data of each side fits in the send buffer as a whole.
Fits(v) == \A s \in Sides : Bytes(Adus(v, s)) <= SndBuf

-----------------------------------------------------------------------------
(* Sending.                                                                *)

\* Mutated: one byte of the buffer is never used.
MayRefuseEarly(s, n) ==
    BytesIn(s, n) > 0 /\ Written(s) + BytesIn(s, n) >= SndBuf

\* The buffer holds what the peer has not acknowledged, at most all that was
\* written and at least what has not arrived.  When acknowledgements come is
\* up to TCP.
MayRefuse(s, n) ==
    BytesIn(s, n) > 0 /\ Written(s) + BytesIn(s, n) > SndBuf

MustRefuse(s, n) == inflight[Peer(s)] + BytesIn(s, n) > SndBuf

\* DoSend with an ADU to send, when the socket takes all of the burst.
SendBytes(s, pending) ==
    \E n \in 1..Len(toSend[s]) :
      /\ closed[s] \/ ~MustRefuse(s, n)
      /\ Burst(s, n, pending)
      /\ inflight' = [inflight EXCEPT ![Peer(s)] = @ + BytesIn(s, n)]
      /\ UNCHANGED <<now, cvec, retries, toRecv, notified, freed, heardAt,
                     full>>

\* "Begin sending, maybe."
BeginSendingBytes(s) ==
    IF toSend[s] # <<>> /\ Immediate(toSend[s][1])
    THEN SendBytes(s, timers[s])
    ELSE /\ IF toSend[s] = <<>> THEN UNCHANGED <<fatal, timers, lastRecv>>
            ELSE WaitForNext(s, toSend[s][1], timers[s], lastSend[s])
         /\ UNCHANGED <<now, cvec, retries, toSend, toRecv, lastSend, closed,
                        inflight, fin, notified, freed, heardAt, full>>

ConnectionCompleteBytes ==
    /\ Running
    /\ conn["I"] = "connecting"
    /\ conn' = [conn EXCEPT !["I"] = "open"]
    /\ BeginSendingBytes("I")

NewConnectionCreatedBytes ==
    /\ Running
    /\ conn["A"] = "listening" /\ conn["I"] = "open"
    /\ conn' = [conn EXCEPT !["A"] = "open"]
    /\ BeginSendingBytes("A")

\* The i-th pending DoSend event of s runs.
DoSendBytes(s, i) ==
    LET pending == SubSeq(timers[s], 1, i - 1) \o Drop(timers[s], i)
    IN /\ Running
       /\ i \in 1..Len(timers[s])
       /\ timers[s][i] <= now
       /\ UNCHANGED conn
       /\ IF toSend[s] # <<>>
          THEN SendBytes(s, pending)
          ELSE /\ timers' = [timers EXCEPT ![s] = pending]
               /\ UNCHANGED <<now, cvec, retries, toSend, toRecv, lastSend,
                              lastRecv, closed, inflight, fin, fatal,
                              notified, freed, heardAt, full>>

\* DoSend is about to run for s, called when its connection is made or from
\* a pending event.
AboutToSend(s) ==
    /\ toSend[s] # <<>>
    /\ \/ \E i \in 1..Len(timers[s]) : timers[s][i] <= now
       \/ /\ Immediate(toSend[s][1])
          /\ \/ s = "I" /\ conn["I"] = "connecting"
             \/ s = "A" /\ conn["A"] = "listening" /\ conn["I"] = "open"

\* DoSend finds the send buffer full, and "Send buffer filled while sending"
\* ends the program.
BufferFull(s) ==
    /\ Running
    /\ AboutToSend(s) /\ ~closed[s]
    /\ \E n \in 1..Len(toSend[s]) : IsBurst(toSend[s], n) /\ MayRefuse(s, n)
    /\ full' = TRUE
    /\ UNCHANGED vars

-----------------------------------------------------------------------------
(* Receiving.                                                              *)

\* The k-th ADU of q is the last one that b bytes complete.
Completes(q, b, k) ==
    /\ Bytes(SubSeq(q, 1, k)) <= b
    /\ k < DataLeft(q) => Bytes(SubSeq(q, 1, k + 1)) > b

\* Mutated: what is left of a packet behind a whole ADU is not taken off.
LessNothing(q, b) == q

\* q when b bytes of its first ADU have come, but not all of it.
LessBytes(q, b) == IF b = 0 THEN q ELSE [q EXCEPT ![1].size = @ - b]

\* Receive with a packet of b bytes: it completes k ADUs, and the rest of
\* it belongs to the next one.
ReceiveBytes(s, b) ==
    /\ Running
    /\ conn[s] = "open"
    /\ b \in 1..inflight[s]
    /\ inflight' = [inflight EXCEPT ![s] = @ - b]
    /\ \E k \in 0..DataLeft(toRecv[s]) :
         LET rest == b - Bytes(SubSeq(toRecv[s], 1, k))
         IN /\ Completes(toRecv[s], b, k)
            /\ IF k = DataLeft(toRecv[s]) /\ rest > 0
               THEN /\ fatal' = "extraBytes"
                    /\ UNCHANGED <<toRecv, heardAt, lastRecv, timers>>
               ELSE /\ toRecv' = [toRecv EXCEPT
                                    ![s] = LessBytes(Drop(@, k), rest)]
                    /\ heardAt' = [heardAt EXCEPT
                                     ![s] = @ \o [i \in 1..k |-> now]]
                    /\ IF k > 0 THEN AnswerReceipts(s, k)
                       ELSE UNCHANGED <<lastRecv, timers>>
                    /\ UNCHANGED fatal
    /\ UNCHANGED <<now, cvec, conn, retries, toSend, lastSend, closed, fin,
                   notified, freed, full>>

-----------------------------------------------------------------------------
(* The connection.                                                         *)

BytesInit == Init /\ full = FALSE

\* The handlers that do not look at bytes.
Other ==
    /\ \/ AcceptorStart
       \/ InitiatorStart
       \/ ConnectionFailed
       \/ \E s \in Sides : ReceiveFin(s)
       \/ \E s \in Sides : Closed(s)
       \/ Tick
    /\ UNCHANGED full

BytesNext ==
    /\ ~full
    /\ \/ ConnectionCompleteBytes
       \/ NewConnectionCreatedBytes
       \/ \E s \in Sides : \E i \in 1..Len(timers[s]) : DoSendBytes(s, i)
       \/ \E s \in Sides : BufferFull(s)
       \/ \E s \in Sides : \E b \in 1..inflight[s] : ReceiveBytes(s, b)
       \/ Other

\* The simulator runs until no event is left, and TCP loses nothing.
BytesSpec == BytesInit /\ [][BytesNext]_bvars /\ WF_bvars(BytesNext)

-----------------------------------------------------------------------------
(* Properties.                                                             *)

\* The ADUs s has not received completely, as they are in the vector.
WholeToRecv ==
    [s \in Sides |-> LET q == Adus(cvec, Peer(s))
                     IN Drop(q, Len(q) - Len(toRecv[s]))]

\* The data ADUs of which s misses something that was sent.
AdusInFlight ==
    [s \in Sides |-> DataLeft(toRecv[s]) - DataLeft(toSend[Peer(s)])]

Adu == INSTANCE TmixConnection
         WITH toRecv <- WholeToRecv, inflight <- AdusInFlight

\* However TCP cuts the stream of bytes into packets, and wherever these
\* begin and end within ADUs, the workers do what TmixConnection says of
\* whole ADUs.
ReplaysAdus == Adu!Spec

\* The bytes a side still expects are on their way or not sent yet: the loop
\* in Receive takes every packet off completely, across ADUs.
BytesConserved ==
    \A s \in Sides :
      Bytes(toRecv[s]) = inflight[s] + Bytes(toSend[Peer(s)])

\* A vector of alternating turns whose data fits in the send buffers is
\* replayed to its end, and its completion is notified once and never again;
\* the buffer never stops the program.
EventuallyReplayed == (Alternating(cvec) /\ Fits(cvec)) ~> []Replayed
=============================================================================

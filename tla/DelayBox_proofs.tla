--------------------------- MODULE DelayBox_proofs ---------------------------
(***************************************************************************)
(* What holds of DelayBox for all flows, rules and packets: types, and the *)
(* agreement of the queue that a flow keeps with the list of events that   *)
(* the simulator keeps.  A flow looks at its queue only, the simulator at  *)
(* its events only; the proof is that the two never come apart.            *)
(* Then when the packets leave, and that none is unaccounted for: the      *)
(* event that runs is the front of its flow's queue, and no flow with      *)
(* events is pruned, so that its events keep its rule.                     *)
(***************************************************************************)
EXTENDS DelayBox, FiniteSetTheorems, TLAPS

\* The places of a queue.
Places(q) == 1..Len(q)

\* The queues of a table t against the events P: the same events, in the
\* order in which they run, none later than the end of the last transfer.
QueuesOf(t, P) ==
    \A g \in DOMAIN t :
      /\ \A e \in P : e.packet.flow = g =>
            \E i \in Places(t[g].queue) : e = t[g].queue[i]
      /\ \A i \in Places(t[g].queue) :
            /\ t[g].queue[i] \in P
            /\ t[g].queue[i].packet.flow = g
            /\ t[g].queue[i].due <= t[g].tail
      /\ \A i, j \in Places(t[g].queue) :
            i < j => RunsBefore(t[g].queue[i], t[g].queue[j])

\* Every event belongs to a flow that is in the table and not cancelled.
EventsLive(t, P) ==
    \A e \in P : e.packet.flow \in DOMAIN t /\ ~t[e.packet.flow].cancelled

TableType(t) == DOMAIN t \subseteq Flows /\ \A g \in DOMAIN t : t[g] \in Flow

TableOK(t, P) == TableType(t) /\ QueuesOf(t, P) /\ EventsLive(t, P)

\* No two events have the same id, and the next one is new.
IdsUnique ==
    /\ \A e \in pending : e.id < nextId
    /\ \A e, d \in pending : e.id = d.id => e = d

\* The inductive invariant.
IInv == TypeOK /\ NoFatal /\ TableOK(table, pending) /\ IdsUnique

-----------------------------------------------------------------------------
(* Flows and tables.                                                       *)

\* The end of a transfer is a time, no earlier than that of the one in front.
LEMMA EndOfBound ==
    ASSUME NEW flow \in Flow, NEW p \in Packet, now \in Nat
    PROVE  EndOf(flow, p) \in Nat /\ EndOf(flow, p) >= flow.tail
<1>1. /\ flow.tail \in Nat /\ flow.rule.delay \in Nat
      /\ flow.rule.perUnit \in Nat /\ p.size \in Nat
  BY BoundsAssumption DEF Flow, Rule, Packet
<1>2. Transfer(flow.rule, p) \in Nat
  BY <1>1 DEF Transfer
<1> QED
  BY <1>1, <1>2 DEF EndOf, Later

\* What a table can be when it hands a packet to flow f: it has f, and the
\* flows it had, but for cancelled ones.
LEMMA TablesForOK ==
    ASSUME TableOK(table, pending),
           NEW f \in DOMAIN Rules, f \notin Cancelled(table),
           NEW t \in TablesFor(f)
    PROVE  /\ TableOK(t, pending) /\ f \in DOMAIN t /\ ~t[f].cancelled
           /\ DOMAIN t \subseteq DOMAIN table \cup {f}
<1> DEFINE Same(u) ==
      /\ f \in DOMAIN u /\ ~u[f].cancelled
      /\ DOMAIN u \subseteq DOMAIN table \cup {f}
      /\ \A g \in DOMAIN u : g # f => u[g] = table[g]
      /\ DOMAIN table \ Cancelled(table) \subseteq DOMAIN u
      /\ IF f \in DOMAIN table THEN u[f] = table[f]
         ELSE \E rule \in Rule : u[f] = NewFlow(rule)
<1>1. \A u \in Found(f) : Same(u)
  <2>1. CASE f \in DOMAIN table
    BY <2>1 DEF Found, Cancelled
  <2>2. CASE f \notin DOMAIN table
    <3> TAKE u \in Found(f)
    <3>1. PICK rule \in Rules[f] : u = SetFlow(table, f, NewFlow(rule))
      BY <2>2 DEF Found
    <3>2. rule \in Rule
      BY RulesAssumption
    <3> QED
      BY <2>2, <3>1, <3>2 DEF SetFlow, NewFlow, Cancelled
  <2> QED
    BY <2>1, <2>2
<1>2. Same(t)
  <2>1. CASE t \in Found(f)
    BY <1>1, <2>1
  <2>2. CASE t \notin Found(f)
    <3>1. PICK u \in Found(f) : t = Without(u, Cancelled(u))
      BY <2>2 DEF TablesFor
    <3>2. Same(u)
      BY <1>1
    <3>3. /\ DOMAIN t = DOMAIN u \ Cancelled(u)
          /\ \A g \in DOMAIN t : t[g] = u[g]
      BY <3>1 DEF Without
    <3>4. \A g \in DOMAIN u : g \in Cancelled(u) => g # f /\ g \in Cancelled(table)
      BY <3>2 DEF Cancelled
    <3>5. f \in DOMAIN t
      BY <3>2, <3>3, <3>4
    <3> HIDE DEF Cancelled
    <3> QED
      BY <3>2, <3>3, <3>4, <3>5
  <2> QED
    BY <2>1, <2>2
<1>3. \A rule \in Rule : /\ NewFlow(rule) \in Flow
                         /\ NewFlow(rule).queue = <<>>
  BY DEF NewFlow, Flow
<1>4. f \in Flows
  BY RulesAssumption
<1>5. TableType(t)
  BY <1>2, <1>3, <1>4 DEF TableOK, TableType
<1>6. EventsLive(t, pending)
  BY <1>2 DEF TableOK, EventsLive, Cancelled
<1>7. QueuesOf(t, pending)
  <2> SUFFICES ASSUME NEW g \in DOMAIN t
               PROVE  /\ \A e \in pending : e.packet.flow = g =>
                            \E i \in Places(t[g].queue) : e = t[g].queue[i]
                      /\ \A i \in Places(t[g].queue) :
                            /\ t[g].queue[i] \in pending
                            /\ t[g].queue[i].packet.flow = g
                            /\ t[g].queue[i].due <= t[g].tail
                      /\ \A i, j \in Places(t[g].queue) : i < j =>
                            RunsBefore(t[g].queue[i], t[g].queue[j])
    BY DEF QueuesOf
  <2>1. CASE g \in DOMAIN table /\ t[g] = table[g]
    BY <2>1 DEF TableOK, QueuesOf
  <2>2. CASE ~(g \in DOMAIN table /\ t[g] = table[g])
    <3>1. f \notin DOMAIN table /\ g = f /\ t[g].queue = <<>>
      BY <1>2, <1>3, <2>2
    <3>2. \A e \in pending : e.packet.flow # g
      BY <3>1 DEF TableOK, EventsLive
    <3> QED
      BY <3>1, <3>2 DEF Places
  <2> QED
    BY <2>1, <2>2
<1> QED
  BY <1>2, <1>5, <1>6, <1>7 DEF TableOK

-----------------------------------------------------------------------------
(* The steps.                                                              *)

LEMMA InitOK == Init => IInv
  BY DEF Init, IInv, TypeOK, NoFatal, TableOK, TableType, QueuesOf, EventsLive,
         IdsUnique

\* A packet that arrives is a packet.
LEMMA PacketsNowOK ==
    ASSUME TypeOK, NEW f \in Flows, NEW p \in PacketsNow(f)
    PROVE  p \in Packet /\ p.flow = f
  BY DEF TypeOK, PacketsNow, Packet

\* The types of the history when a packet leaves.
LEMMA PassOnOK ==
    ASSUME TypeOK, NEW p \in Packet, NEW rule \in Rule, PassOn(p, rule)
    PROVE  sent' \in [Flows -> Seq(Departure)]
<1>1. [packet |-> p, at |-> now, rule |-> rule] \in Departure
  BY DEF TypeOK, Departure
<1>2. p.flow \in Flows /\ sent[p.flow] \in Seq(Departure)
  BY DEF TypeOK, Packet
<1> QED
  BY <1>1, <1>2 DEF TypeOK, PassOn

LEMMA SendAtOnceOK ==
    ASSUME IInv, NEW f \in Flows, NEW p \in PacketsNow(f), SendAtOnce(f, p)
    PROVE  IInv'
<1>1. NoDelay \in Rule
  BY DEF NoDelay, Rule
<1>2. sent' \in [Flows -> Seq(Departure)]
  BY <1>1, PacketsNowOK, PassOnOK DEF IInv, SendAtOnce
<1>3. /\ arrived' \in [Flows -> Nat] /\ enqueued' \in [Flows -> Nat]
      /\ now' = now
  BY DEF IInv, TypeOK, SendAtOnce, Arrives
<1>4. /\ table' = table /\ pending' = pending
      /\ nextId' = nextId /\ fatal' = fatal
      /\ dropped' = dropped /\ discarded' = discarded
  BY DEF SendAtOnce
<1>5. TypeOK'
  BY <1>2, <1>3, <1>4 DEF IInv, TypeOK
<1> QED
  BY <1>4, <1>5 DEF IInv, NoFatal, IdsUnique

LEMMA LoseOK ==
    ASSUME IInv, NEW f \in Flows, NEW p \in PacketsNow(f), Lose(f, p)
    PROVE  IInv'
<1>1. TableOK(table', pending)
  BY TablesForOK DEF IInv, Lose
<1>2. TableOK(table', pending')
  BY <1>1 DEF Lose
<1>3. TypeOK'
  BY <1>1 DEF IInv, TypeOK, TableOK, TableType, Lose, Arrives
<1> QED
  BY <1>2, <1>3 DEF IInv, NoFatal, IdsUnique, Lose

\* A flow with one more event.
LEMMA QueuedOK ==
    ASSUME NEW flow \in Flow, NEW e \in Event
    PROVE  /\ Queued(flow, e) \in Flow
           /\ Queued(flow, e).queue = Append(flow.queue, e)
           /\ Queued(flow, e).tail = e.due
           /\ Queued(flow, e).cancelled = flow.cancelled
<1> DEFINE q == Append(flow.queue, e)
<1>1. q \in Seq(Event) /\ e.due \in Nat
  BY DEF Flow, Event
<1>2. Queued(flow, e) = [flow EXCEPT !.queue = q, !.tail = e.due]
  BY Zenon DEF Queued
<1> HIDE DEF q
<1>3. /\ Queued(flow, e) \in Flow
      /\ Queued(flow, e).queue = q
      /\ Queued(flow, e).tail = e.due
      /\ Queued(flow, e).cancelled = flow.cancelled
  BY <1>1, <1>2 DEF Flow
<1> QED
  BY <1>3 DEF q

LEMMA EnqueueOK ==
    ASSUME IInv, NEW f \in Flows, NEW p \in PacketsNow(f), Enqueue(f, p)
    PROVE  IInv'
<1>1. PICK t \in TablesFor(f) : Schedule(t, f, p)
  BY DEF Enqueue
<1>2. /\ TableOK(t, pending) /\ f \in DOMAIN t /\ ~t[f].cancelled
      /\ f \in DOMAIN Rules
  BY TablesForOK DEF IInv, Enqueue
<1>3. p \in Packet /\ p.flow = f
  BY PacketsNowOK DEF IInv
<1> DEFINE end == EndOf(t[f], p)
           event == [id |-> nextId, due |-> end, packet |-> p]
           q == t[f].queue
<1>4. t[f] \in Flow
  BY <1>2 DEF TableOK, TableType
<1>5. end \in Nat /\ end >= t[f].tail
  BY <1>3, <1>4, EndOfBound DEF IInv, TypeOK
<1>6. event \in Event /\ event.packet.flow = f /\ event.due = end /\ event.id = nextId
  BY <1>3, <1>5 DEF Event, IInv, TypeOK
<1>7. /\ pending' = pending \cup {event}
      /\ nextId' = nextId + 1
      /\ table' = [t EXCEPT ![f] = Queued(@, event)]
  BY <1>1 DEF Schedule
<1>8. /\ DOMAIN table' = DOMAIN t
      /\ table'[f] = Queued(t[f], event)
      /\ \A g \in DOMAIN t : g # f => table'[g] = t[g]
  BY <1>2, <1>7
<1> HIDE DEF event, end
<1>9. q \in Seq(Event) /\ Len(q) \in Nat
  BY <1>4 DEF Flow
<1>10. /\ Len(Append(q, event)) = Len(q) + 1
       /\ Append(q, event)[Len(q) + 1] = event
       /\ \A i \in Places(q) : Append(q, event)[i] = q[i]
       /\ Append(q, event) \in Seq(Event)
  BY <1>6, <1>9 DEF Places
<1>grown. /\ table'[f].queue = Append(q, event)
       /\ table'[f].tail = end
       /\ table'[f].cancelled = t[f].cancelled
       /\ table'[f] \in Flow
  BY <1>4, <1>6, <1>8, QueuedOK
<1>11. \A e \in pending : e.id < nextId
  BY DEF IInv, IdsUnique
<1>12. TypeOK'
  <2>1. table'[f] \in Flow /\ \A g \in DOMAIN table' : table'[g] \in Flow
    BY <1>2, <1>8, <1>grown DEF TableOK, TableType
  <2>2. DOMAIN table' \subseteq Flows
    BY <1>2, <1>8, <1>grown DEF TableOK, TableType
  <2> QED
    BY <2>1, <2>2, <1>6, <1>7 DEF IInv, TypeOK, Enqueue, Arrives
<1>13. IdsUnique'
  BY <1>6, <1>7, <1>11 DEF IInv, TypeOK, Event, IdsUnique
<1>14. TableType(table')
  BY <1>2, <1>8, <1>grown DEF TableOK, TableType
<1>15. EventsLive(table', pending')
  BY <1>2, <1>6, <1>7, <1>8, <1>grown DEF TableOK, EventsLive
<1>16. QueuesOf(table', pending')
  <2> SUFFICES ASSUME NEW g \in DOMAIN t
               PROVE  /\ \A e \in pending' : e.packet.flow = g =>
                            \E i \in Places(table'[g].queue) : e = table'[g].queue[i]
                      /\ \A i \in Places(table'[g].queue) :
                            /\ table'[g].queue[i] \in pending'
                            /\ table'[g].queue[i].packet.flow = g
                            /\ table'[g].queue[i].due <= table'[g].tail
                      /\ \A i, j \in Places(table'[g].queue) : i < j =>
                            RunsBefore(table'[g].queue[i], table'[g].queue[j])
    BY <1>8 DEF QueuesOf
  <2>1. /\ \A e \in pending : e.packet.flow = g =>
              \E i \in Places(t[g].queue) : e = t[g].queue[i]
        /\ \A i \in Places(t[g].queue) :
              /\ t[g].queue[i] \in pending
              /\ t[g].queue[i].packet.flow = g
              /\ t[g].queue[i].due <= t[g].tail
        /\ \A i, j \in Places(t[g].queue) : i < j =>
              RunsBefore(t[g].queue[i], t[g].queue[j])
    BY <1>2 DEF TableOK, QueuesOf
  <2>2. CASE g # f
    <3>1. table'[g] = t[g]
      BY <2>2, <1>8
    <3> QED
      BY <2>1, <2>2, <3>1, <1>6, <1>7
  <2>3. CASE g = f
    <3>1. \A i \in Places(Append(q, event)) : i \in Places(q) \/ i = Len(q) + 1
      BY <1>9, <1>10 DEF Places
    <3>2. /\ \A i \in Places(q) : i \in Places(Append(q, event))
          /\ Len(q) + 1 \in Places(Append(q, event))
          /\ \A i \in Places(q) : i < Len(q) + 1
          /\ \A i \in Places(q) : i \in Nat
      BY <1>9, <1>10 DEF Places
    <3>3. \A e \in pending' : e.packet.flow = f =>
              \E i \in Places(Append(q, event)) : e = Append(q, event)[i]
      <4> SUFFICES ASSUME NEW e \in pending', e.packet.flow = f
                   PROVE  \E i \in Places(Append(q, event)) :
                              e = Append(q, event)[i]
        OBVIOUS
      <4>1. CASE e = event
        BY <4>1, <3>2, <1>10
      <4>2. CASE e \in pending
        <5>1. PICK i \in Places(q) : e = q[i]
          BY <4>2, <2>1, <2>3
        <5> QED
          BY <5>1, <3>2, <1>10
      <4> QED
        BY <4>1, <4>2, <1>7
    <3>4. \A i \in Places(q) : q[i].due \in Nat /\ q[i].id \in Nat
      BY <2>1, <2>3 DEF IInv, TypeOK, Event
    <3>5. \A i \in Places(q) : q[i].due <= end /\ RunsBefore(q[i], event)
      <4>1. t[f].tail \in Nat /\ nextId \in Nat
        BY <1>4 DEF Flow, IInv, TypeOK
      <4> QED
        BY <4>1, <2>1, <2>3, <3>4, <1>5, <1>6, <1>11 DEF RunsBefore
    <3>6. \A i \in Places(Append(q, event)) :
              /\ Append(q, event)[i] \in pending'
              /\ Append(q, event)[i].packet.flow = f
              /\ Append(q, event)[i].due <= end
      <4> TAKE i \in Places(Append(q, event))
      <4>1. CASE i \in Places(q)
        BY <4>1, <2>1, <2>3, <3>5, <1>7, <1>10
      <4>2. CASE i = Len(q) + 1
        BY <4>2, <1>5, <1>6, <1>7, <1>10
      <4> QED
        BY <4>1, <4>2, <3>1
    <3>7. \A i, j \in Places(Append(q, event)) : i < j =>
              RunsBefore(Append(q, event)[i], Append(q, event)[j])
      <4> SUFFICES ASSUME NEW i \in Places(Append(q, event)),
                          NEW j \in Places(Append(q, event)), i < j
                   PROVE  RunsBefore(Append(q, event)[i], Append(q, event)[j])
        OBVIOUS
      <4>1. i \in Places(q)
        BY <3>1, <1>9, <1>10 DEF Places
      <4>2. CASE j \in Places(q)
        BY <4>1, <4>2, <2>1, <2>3, <1>10
      <4>3. CASE j = Len(q) + 1
        BY <4>1, <4>3, <3>5, <1>10
      <4> QED
        BY <4>2, <4>3, <3>1
    <3>8. table'[g].queue = Append(q, event) /\ table'[g].tail = end
      BY <2>3, <1>grown
    <3> HIDE DEF q
    <3> QED
      BY <2>3, <3>3, <3>6, <3>7, <3>8
  <2> QED
    BY <2>2, <2>3
<1> QED
  BY <1>12, <1>13, <1>14, <1>15, <1>16 DEF IInv, NoFatal, TableOK, Enqueue

\* A cancelled flow.
LEMMA CancelFlowOK ==
    ASSUME NEW flow \in Flow
    PROVE  /\ CancelFlow(flow) \in Flow
           /\ CancelFlow(flow).queue = <<>>
           /\ CancelFlow(flow).cancelled
<1> DEFINE empty == <<>>
<1>1. empty \in Seq(Event)
  OBVIOUS
<1>2. CancelFlow(flow) =
        [flow EXCEPT !.queue = empty, !.tail = 0, !.cancelled = TRUE]
  BY Zenon DEF CancelFlow
<1> HIDE DEF empty
<1>3. CancelFlow(flow) = [rule |-> flow.rule, tail |-> 0, queue |-> empty,
                          cancelled |-> TRUE]
  BY <1>2 DEF Flow
<1>4. CancelFlow(flow) \in Flow
  BY <1>1, <1>3 DEF Flow
<1>5. CancelFlow(flow).queue = empty /\ CancelFlow(flow).cancelled = TRUE
  BY <1>3
<1> QED
  BY <1>4, <1>5 DEF empty

\* The event that runs next is at the front of its flow's queue.
LEMMA FrontRuns ==
    ASSUME IInv, NEW e \in pending, IsNext(e)
    PROVE  LET f == e.packet.flow
           IN /\ f \in DOMAIN table \ Cancelled(table)
              /\ Len(table[f].queue) > 0
              /\ table[f].queue # <<>>
              /\ table[f].queue[1] = e
<1> DEFINE f == e.packet.flow
           q == table[f].queue
<1>1. f \in DOMAIN table /\ ~table[f].cancelled
  BY DEF IInv, TableOK, EventsLive
<1>2. q \in Seq(Event) /\ Len(q) \in Nat
  BY <1>1 DEF IInv, TableOK, TableType, Flow
<1>3. PICK i \in Places(q) : e = q[i]
  BY <1>1 DEF IInv, TableOK, QueuesOf
<1>4. i \in Nat /\ i >= 1 /\ i <= Len(q) /\ 1 \in Places(q)
  BY <1>2, <1>3 DEF Places
<1>5. q[1] \in pending
  BY <1>1, <1>4 DEF IInv, TableOK, QueuesOf
<1>6. /\ e.due \in Nat /\ e.id \in Nat
      /\ q[1].due \in Nat /\ q[1].id \in Nat
  BY <1>5 DEF IInv, TypeOK, Event
<1>7. ASSUME i # 1 PROVE FALSE
  <2>1. RunsBefore(q[1], e)
    BY <1>1, <1>3, <1>4, <1>7 DEF IInv, TableOK, QueuesOf
  <2>2. q[1] # e
    BY <2>1, <1>6 DEF RunsBefore
  <2>3. RunsBefore(e, q[1])
    BY <2>2, <1>5 DEF IsNext
  <2> QED
    BY <2>1, <2>3, <1>6 DEF RunsBefore
<1>8. q # <<>>
  BY <1>2, <1>4
<1> QED
  BY <1>1, <1>3, <1>4, <1>7, <1>8 DEF Cancelled

LEMMA DequeueOK ==
    ASSUME IInv, NEW e \in pending, Dequeue(e)
    PROVE  IInv'
<1> DEFINE f == e.packet.flow
           q == table[f].queue
           rest == Tail(q)
<1>1. /\ f \in DOMAIN table /\ f \notin Cancelled(table)
      /\ Len(q) > 0 /\ q # <<>> /\ q[1] = e
  BY FrontRuns DEF Dequeue
<1>2. Leave(e, rest)
  BY <1>1 DEF Dequeue
<1>3. /\ table[f] \in Flow /\ q \in Seq(Event) /\ Len(q) \in Nat
      /\ f \in Flows
  BY <1>1 DEF IInv, TableOK, TableType, Flow
<1>4. /\ rest \in Seq(Event) /\ Len(rest) = Len(q) - 1
      /\ \A i \in Places(rest) : rest[i] = q[i + 1] /\ i + 1 \in Places(q)
      /\ \A i \in Places(q) : i = 1 \/ (i - 1 \in Places(rest) /\ q[i] = rest[i - 1])
  BY <1>1, <1>3 DEF Places
<1>5. /\ \A d \in pending : d.packet.flow = f => \E i \in Places(q) : d = q[i]
      /\ \A i \in Places(q) : /\ q[i] \in pending
                               /\ q[i].packet.flow = f
                               /\ q[i].due <= table[f].tail
      /\ \A i, j \in Places(q) : i < j => RunsBefore(q[i], q[j])
  BY <1>1 DEF IInv, TableOK, QueuesOf
<1> HIDE DEF rest, q
<1>6. \A i \in Places(rest) : rest[i] \in pending /\ rest[i] # e
  <2> TAKE i \in Places(rest)
  <2>1. 1 < i + 1 /\ i + 1 \in Places(q) /\ 1 \in Places(q)
    BY <1>1, <1>3, <1>4 DEF Places
  <2>2. RunsBefore(e, rest[i])
    <3>1. RunsBefore(q[1], q[i + 1])
      BY <2>1, <1>5
    <3> QED
      BY <3>1, <1>1, <1>4
  <2>3. rest[i] \in pending
    BY <2>1, <1>4, <1>5
  <2>4. e.due \in Nat /\ e.id \in Nat
    BY DEF IInv, TypeOK, Event
  <2> QED
    BY <2>2, <2>3, <2>4 DEF RunsBefore
<1>7. \A d \in pending \ {e} : d.packet.flow = f =>
          \E i \in Places(rest) : d = rest[i]
  <2> SUFFICES ASSUME NEW d \in pending \ {e}, d.packet.flow = f
               PROVE  \E i \in Places(rest) : d = rest[i]
    OBVIOUS
  <2>1. PICK i \in Places(q) : d = q[i]
    BY <1>5
  <2>2. i # 1
    BY <2>1, <1>1
  <2> QED
    BY <2>1, <2>2, <1>4
<1>8. /\ pending' \subseteq pending
      /\ sent' \in [Flows -> Seq(Departure)]
      /\ fatal' = fatal
  <2>1. e.packet \in Packet /\ table[f].rule \in Rule
    BY <1>3 DEF IInv, TypeOK, Event, Flow
  <2>2. sent' \in [Flows -> Seq(Departure)]
    BY <1>2, <2>1, PassOnOK DEF IInv, Leave
  <2> QED
    BY <1>2, <2>2 DEF Leave, Uncancelled
<1>9. IdsUnique'
  BY <1>8 DEF IInv, IdsUnique, Dequeue
<1>10. /\ now' = now /\ nextId' = nextId /\ arrived' = arrived
       /\ enqueued' = enqueued /\ dropped' = dropped
  BY DEF Dequeue
<1>11. CASE ~e.packet.fin
  <2>1. /\ pending' = pending \ {e}
        /\ table' = [table EXCEPT ![f].queue = rest]
        /\ discarded' = discarded
    BY <1>2, <1>11 DEF Leave
  <2>2. /\ DOMAIN table' = DOMAIN table
        /\ table'[f] = [table[f] EXCEPT !.queue = rest]
        /\ \A g \in DOMAIN table : g # f => table'[g] = table[g]
    BY <1>1, <2>1
  <2>3. /\ table'[f] \in Flow /\ table'[f].queue = rest
        /\ table'[f].tail = table[f].tail
        /\ table'[f].cancelled = table[f].cancelled
    BY <1>3, <1>4, <2>2 DEF Flow
  <2>4. TableType(table')
    BY <2>2, <2>3 DEF IInv, TableOK, TableType
  <2>5. TypeOK'
    BY <1>8, <1>10, <2>1, <2>4 DEF IInv, TypeOK, TableType
  <2>6. EventsLive(table', pending')
    BY <2>1, <2>2, <2>3 DEF IInv, TableOK, EventsLive
  <2>7. QueuesOf(table', pending')
    <3> SUFFICES ASSUME NEW g \in DOMAIN table
                 PROVE  /\ \A d \in pending' : d.packet.flow = g =>
                              \E i \in Places(table'[g].queue) : d = table'[g].queue[i]
                        /\ \A i \in Places(table'[g].queue) :
                              /\ table'[g].queue[i] \in pending'
                              /\ table'[g].queue[i].packet.flow = g
                              /\ table'[g].queue[i].due <= table'[g].tail
                        /\ \A i, j \in Places(table'[g].queue) : i < j =>
                              RunsBefore(table'[g].queue[i], table'[g].queue[j])
      BY <2>2 DEF QueuesOf
    <3>1. CASE g # f
      <4>1. table'[g] = table[g]
        BY <3>1, <2>2
      <4>2. \A i \in Places(table[g].queue) : table[g].queue[i] # e
        BY <3>1 DEF IInv, TableOK, QueuesOf
      <4> QED
        BY <4>1, <4>2, <2>1 DEF IInv, TableOK, QueuesOf
    <3>2. CASE g = f
      <4>1. \A i \in Places(rest) : /\ rest[i] \in pending'
                                     /\ rest[i].packet.flow = f
                                     /\ rest[i].due <= table'[f].tail
        BY <1>4, <1>5, <1>6, <2>1, <2>3
      <4>2. \A i, j \in Places(rest) : i < j => RunsBefore(rest[i], rest[j])
        <5> SUFFICES ASSUME NEW i \in Places(rest), NEW j \in Places(rest), i < j
                     PROVE  RunsBefore(rest[i], rest[j])
          OBVIOUS
        <5>1. i + 1 < j + 1
          BY <1>3, <1>4 DEF Places
        <5> QED
          BY <5>1, <1>4, <1>5
      <4> QED
        BY <3>2, <4>1, <4>2, <1>7, <2>1, <2>3
    <3> QED
      BY <3>1, <3>2
  <2> QED
    BY <1>8, <1>9, <2>4, <2>5, <2>6, <2>7 DEF IInv, NoFatal, TableOK
<1>12. CASE e.packet.fin
  <2>1. /\ pending' = Uncancelled(pending \ {e}, rest)
        /\ table' = [table EXCEPT ![f] = CancelFlow(@)]
        /\ discarded' = [discarded EXCEPT ![f] = @ + Len(rest)]
    BY <1>2, <1>12 DEF Leave
  <2>2. /\ DOMAIN table' = DOMAIN table
        /\ table'[f] = CancelFlow(table[f])
        /\ \A g \in DOMAIN table : g # f => table'[g] = table[g]
    BY <1>1, <2>1
  <2>3. /\ table'[f] \in Flow /\ table'[f].queue = <<>>
        /\ table'[f].cancelled
    BY <1>3, <2>2, CancelFlowOK
  <2>4. TableType(table')
    BY <2>2, <2>3 DEF IInv, TableOK, TableType
  <2>5. TypeOK'
    <3>1. discarded' \in [Flows -> Nat]
      <4>1. Len(rest) \in Nat /\ discarded \in [Flows -> Nat]
        BY <1>1, <1>3, <1>4 DEF IInv, TypeOK
      <4> QED
        BY <4>1, <1>3, <2>1
    <3> QED
      BY <3>1, <1>8, <1>10, <2>4 DEF IInv, TypeOK, TableType
  <2>6. \A d \in pending' : d \in pending /\ d.packet.flow # f
    <3> SUFFICES ASSUME NEW d \in pending', d.packet.flow = f
                 PROVE  FALSE
      BY <1>8
    <3>1. d \in pending \ {e} /\ d.id \notin IdsOf(rest)
      BY <2>1 DEF Uncancelled
    <3>2. PICK i \in Places(rest) : d = rest[i]
      BY <3>1, <1>7
    <3> QED
      BY <3>1, <3>2 DEF IdsOf, Places
  <2>7. EventsLive(table', pending')
    BY <2>2, <2>6 DEF IInv, TableOK, EventsLive
  <2>8. \A d \in pending : d.packet.flow # f => d \in pending'
    <3> SUFFICES ASSUME NEW d \in pending, d.packet.flow # f
                 PROVE  d \in pending'
      OBVIOUS
    <3>1. d # e
      OBVIOUS
    <3>2. ASSUME d.id \in IdsOf(rest) PROVE FALSE
      <4>1. PICK i \in Places(rest) : d.id = rest[i].id
        BY <3>2 DEF IdsOf, Places
      <4>2. rest[i] \in pending /\ rest[i].packet.flow = f
        BY <1>4, <1>5, <1>6
      <4> QED
        BY <4>1, <4>2 DEF IInv, IdsUnique
    <3> QED
      BY <3>1, <3>2, <2>1 DEF Uncancelled
  <2>9. QueuesOf(table', pending')
    <3> SUFFICES ASSUME NEW g \in DOMAIN table
                 PROVE  /\ \A d \in pending' : d.packet.flow = g =>
                              \E i \in Places(table'[g].queue) : d = table'[g].queue[i]
                        /\ \A i \in Places(table'[g].queue) :
                              /\ table'[g].queue[i] \in pending'
                              /\ table'[g].queue[i].packet.flow = g
                              /\ table'[g].queue[i].due <= table'[g].tail
                        /\ \A i, j \in Places(table'[g].queue) : i < j =>
                              RunsBefore(table'[g].queue[i], table'[g].queue[j])
      BY <2>2 DEF QueuesOf
    <3>1. CASE g # f
      <4>1. table'[g] = table[g]
        BY <3>1, <2>2
      <4> QED
        BY <3>1, <4>1, <2>6, <2>8 DEF IInv, TableOK, QueuesOf
    <3>2. CASE g = f
      BY <3>2, <2>3, <2>6 DEF Places
    <3> QED
      BY <3>1, <3>2
  <2> QED
    BY <1>8, <1>9, <2>4, <2>5, <2>7, <2>9 DEF IInv, NoFatal, TableOK
<1> QED
  BY <1>11, <1>12

LEMMA TickOK == IInv /\ Tick => IInv'
<1> SUFFICES ASSUME IInv, Tick PROVE IInv'
  OBVIOUS
<1>1. /\ table' = table /\ pending' = pending
      /\ nextId' = nextId /\ fatal' = fatal
  BY DEF Tick
<1>2. TypeOK'
  BY DEF IInv, TypeOK, Tick
<1> QED
  BY <1>1, <1>2 DEF IInv, NoFatal, IdsUnique

LEMMA StepOK == IInv /\ [Next]_vars => IInv'
<1> SUFFICES ASSUME IInv, [Next]_vars PROVE IInv'
  OBVIOUS
<1>1. ASSUME NEW f \in Flows, NEW p \in PacketsNow(f),
             SendAtOnce(f, p) \/ Lose(f, p) \/ Enqueue(f, p)
      PROVE  IInv'
  BY <1>1, SendAtOnceOK, LoseOK, EnqueueOK
<1>2. ASSUME NEW e \in pending, Dequeue(e) PROVE IInv'
  BY <1>2, DequeueOK
<1>3. CASE Tick
  BY <1>3, TickOK
<1>4. CASE UNCHANGED vars
  <2>1. /\ table' = table /\ pending' = pending
        /\ nextId' = nextId /\ fatal' = fatal
    BY <1>4 DEF vars
  <2>2. TypeOK'
    BY <1>4 DEF IInv, TypeOK, vars
  <2> QED
    BY <2>1, <2>2 DEF IInv, NoFatal, IdsUnique
<1> QED
  BY <1>1, <1>2, <1>3, <1>4 DEF Next

-----------------------------------------------------------------------------
(* What holds in every run.                                                *)

\* The invariant holds, whatever rules flows draw from, whatever packets
\* come and whenever the table is pruned.
THEOREM Invariance == Spec => []IInv
<1> QED
  BY InitOK, StepOK, PTL DEF Spec

\* The flow table, the events and the history keep their types.
THEOREM TypeCorrectness == Spec => []TypeOK
<1>1. IInv => TypeOK
  BY DEF IInv
<1> QED
  BY <1>1, Invariance, PTL

\* No event runs on a flow that was cancelled or pruned away: the assertion
\* in DelayBoxFlow::Dequeue cannot fail.
THEOREM NoStrayEvent == Spec => []NoFatal
<1>1. IInv => NoFatal
  BY DEF IInv
<1> QED
  BY <1>1, Invariance, PTL

\* The queue of a flow is the list of its pending events in the order in
\* which they run, so that Dequeue pops the event that runs.
THEOREM QueuesMatchEvents == Spec => []QueuesArePending
<1>1. IInv => QueuesArePending
  <2> SUFFICES ASSUME IInv PROVE QueuesArePending
    OBVIOUS
  <2>1. \A e \in pending : e.packet.flow \in DOMAIN table \ Cancelled(table)
    BY DEF IInv, TableOK, EventsLive, Cancelled
  <2>2. ASSUME NEW f \in DOMAIN table
        PROVE  /\ EventsOf(f) = {table[f].queue[i] : i \in 1..Len(table[f].queue)}
               /\ \A i, j \in 1..Len(table[f].queue) : i < j =>
                     RunsBefore(table[f].queue[i], table[f].queue[j])
    BY <2>2 DEF IInv, TableOK, QueuesOf, Places, EventsOf
  <2> QED
    BY <2>1, <2>2 DEF QueuesArePending
<1> QED
  BY <1>1, Invariance, PTL

-----------------------------------------------------------------------------
(* The order of the packets.                                               *)

\* Packets of a flow are numbered in the order in which they came.  Those
\* that were sent came before those that wait, and these wait in order.
SentBeforeWaiting ==
    \A f \in Flows :
      /\ \A i \in Places(sent[f]) : sent[f][i].packet.n <= arrived[f]
      /\ \A e \in EventsOf(f) :
            /\ e.packet.n <= arrived[f]
            /\ \A i \in Places(sent[f]) : sent[f][i].packet.n < e.packet.n

WaitInOrder ==
    \A e, d \in pending :
        e.packet.flow = d.packet.flow /\ RunsBefore(e, d) =>
            e.packet.n < d.packet.n

OrderInv ==
    /\ IInv
    /\ DOMAIN table \subseteq DOMAIN Rules
    /\ SentBeforeWaiting
    /\ WaitInOrder
    /\ SentInOrder

LEMMA InitOrder == Init => OrderInv
  BY InitOK DEF Init, OrderInv, SentBeforeWaiting, WaitInOrder, SentInOrder,
                EventsOf, Places

\* What was sent are departures, of packets that carry numbers.
LEMMA SentNumbers ==
    ASSUME TypeOK
    PROVE  \A g \in Flows : \A i \in Places(sent[g]) : sent[g][i].packet.n \in Nat
<1> SUFFICES ASSUME NEW g \in Flows, NEW i \in Places(sent[g])
             PROVE  sent[g][i].packet.n \in Nat
  OBVIOUS
<1>1. sent[g] \in Seq(Departure)
  BY DEF TypeOK
<1>2. sent[g][i] \in Departure
  BY <1>1 DEF Places
<1>3. sent[g][i].packet \in Packet
  BY <1>2 DEF Departure
<1> QED
  BY <1>3 DEF Packet

\* Sending a packet appends it to what was sent of its flow.
LEMMA PassOnAppends ==
    ASSUME TypeOK, NEW p \in Packet, NEW rule \in Rule, PassOn(p, rule)
    PROVE  LET f == p.flow
           IN /\ f \in Flows
              /\ \A g \in Flows : g # f => sent'[g] = sent[g]
              /\ \A i \in Places(sent'[f]) :
                    \/ i \in Places(sent[f]) /\ sent'[f][i] = sent[f][i]
                    \/ i = Len(sent[f]) + 1 /\ sent'[f][i].packet = p
              /\ Len(sent[f]) \in Nat /\ Len(sent'[f]) = Len(sent[f]) + 1
<1> DEFINE d == [packet |-> p, at |-> now, rule |-> rule]
           f == p.flow
<1>1. d \in Departure /\ d.packet = p
  BY DEF TypeOK, Departure
<1>2. f \in Flows /\ sent[f] \in Seq(Departure)
  BY DEF TypeOK, Packet
<1>3. sent' = [sent EXCEPT ![f] = Append(@, d)]
  BY DEF PassOn
<1> HIDE DEF d
<1>4. sent'[f] = Append(sent[f], d) /\ \A g \in Flows : g # f => sent'[g] = sent[g]
  BY <1>2, <1>3 DEF TypeOK
<1> QED
  BY <1>1, <1>2, <1>4 DEF Places

\* A packet that is sent after all that were sent keeps the order.
LEMMA SendKeepsOrder ==
    ASSUME OrderInv, NEW p \in Packet, NEW rule \in Rule, PassOn(p, rule),
           \A i \in Places(sent[p.flow]) : sent[p.flow][i].packet.n < p.n
    PROVE  SentInOrder'
<1> DEFINE f == p.flow
<1>1. /\ f \in Flows
      /\ \A g \in Flows : g # f => sent'[g] = sent[g]
      /\ \A i \in Places(sent'[f]) :
            \/ i \in Places(sent[f]) /\ sent'[f][i] = sent[f][i]
            \/ i = Len(sent[f]) + 1 /\ sent'[f][i].packet = p
      /\ Len(sent[f]) \in Nat /\ Len(sent'[f]) = Len(sent[f]) + 1
  BY PassOnAppends DEF OrderInv, IInv
<1> SUFFICES ASSUME NEW g \in Flows,
                    NEW i \in Places(sent'[g]), NEW j \in Places(sent'[g]), i < j
             PROVE  sent'[g][i].packet.n < sent'[g][j].packet.n
  BY DEF SentInOrder, Places
<1>2. CASE g # f
  BY <1>1, <1>2 DEF OrderInv, SentInOrder, Places
<1>3. CASE g = f
  <2>1. i \in Places(sent[f]) /\ sent'[f][i] = sent[f][i]
    BY <1>1, <1>3 DEF Places
  <2>2. CASE j \in Places(sent[f]) /\ sent'[f][j] = sent[f][j]
    BY <1>1, <1>3, <2>1, <2>2 DEF OrderInv, SentInOrder, Places
  <2>3. CASE sent'[f][j].packet = p
    BY <1>3, <2>1, <2>3
  <2> QED
    BY <1>1, <1>3, <2>2, <2>3
<1> QED
  BY <1>2, <1>3

LEMMA SendAtOnceOrder ==
    ASSUME OrderInv, NEW f \in Flows, NEW p \in PacketsNow(f), SendAtOnce(f, p)
    PROVE  OrderInv'
<1>1. p \in Packet /\ p.flow = f /\ p.n = arrived[f] + 1
  BY PacketsNowOK DEF OrderInv, IInv, PacketsNow
<1>2. /\ arrived[f] \in Nat /\ arrived'[f] = arrived[f] + 1
      /\ \A g \in Flows : g # f => arrived'[g] = arrived[g]
  BY DEF OrderInv, IInv, TypeOK, SendAtOnce, Arrives
<1>3. /\ PassOn(p, NoDelay) /\ NoDelay \in Rule
      /\ table' = table /\ pending' = pending
  BY DEF SendAtOnce, NoDelay, Rule
<1>4. \A e \in pending : e.packet.flow # f
  BY DEF SendAtOnce, OrderInv, IInv, TableOK, EventsLive, Cancelled
<1>5. \A i \in Places(sent[f]) : /\ sent[f][i].packet.n \in Nat
                                  /\ sent[f][i].packet.n <= arrived[f]
  BY SentNumbers DEF OrderInv, SentBeforeWaiting, IInv
<1>6. SentInOrder'
  BY <1>1, <1>2, <1>3, <1>5, SendKeepsOrder
<1>7. WaitInOrder'
  BY <1>3 DEF OrderInv, WaitInOrder, RunsBefore
<1>8. SentBeforeWaiting'
  <2>1. /\ \A g \in Flows : g # f => sent'[g] = sent[g]
        /\ \A i \in Places(sent'[f]) :
              \/ i \in Places(sent[f]) /\ sent'[f][i] = sent[f][i]
              \/ i = Len(sent[f]) + 1 /\ sent'[f][i].packet = p
    BY <1>1, <1>3, PassOnAppends DEF OrderInv, IInv
  <2> SUFFICES ASSUME NEW g \in Flows
               PROVE  /\ \A i \in Places(sent'[g]) :
                            sent'[g][i].packet.n <= arrived'[g]
                      /\ \A e \in pending : e.packet.flow = g =>
                            /\ e.packet.n <= arrived'[g]
                            /\ \A i \in Places(sent'[g]) :
                                  sent'[g][i].packet.n < e.packet.n
    BY <1>3 DEF SentBeforeWaiting, EventsOf
  <2>2. CASE g # f
    BY <2>1, <2>2, <1>2 DEF OrderInv, SentBeforeWaiting, EventsOf
  <2>3. CASE g = f
    BY <2>1, <2>3, <1>1, <1>2, <1>4, <1>5
  <2> QED
    BY <2>2, <2>3
<1>9. IInv'
  BY SendAtOnceOK DEF OrderInv
<1> QED
  BY <1>3, <1>6, <1>7, <1>8, <1>9 DEF OrderInv

LEMMA LoseOrder ==
    ASSUME OrderInv, NEW f \in Flows, NEW p \in PacketsNow(f), Lose(f, p)
    PROVE  OrderInv'
<1>1. /\ \A g \in Flows : arrived[g] \in Nat /\ arrived'[g] >= arrived[g]
      /\ sent' = sent /\ pending' = pending
  BY DEF OrderInv, IInv, TypeOK, Lose, Arrives
<1>2. DOMAIN table' \subseteq DOMAIN Rules
  BY TablesForOK DEF OrderInv, IInv, Lose
<1>3. \A g \in Flows : \A i \in Places(sent[g]) : sent[g][i].packet.n \in Nat
  BY SentNumbers DEF OrderInv, IInv
<1>4. \A e \in pending : e.packet.n \in Nat
  BY DEF OrderInv, IInv, TypeOK, Event, Packet
<1>5. SentBeforeWaiting'
  <2> SUFFICES ASSUME NEW g \in Flows
               PROVE  /\ \A i \in Places(sent[g]) :
                            sent[g][i].packet.n <= arrived'[g]
                      /\ \A e \in pending : e.packet.flow = g =>
                            /\ e.packet.n <= arrived'[g]
                            /\ \A i \in Places(sent[g]) :
                                  sent[g][i].packet.n < e.packet.n
    BY <1>1 DEF SentBeforeWaiting, EventsOf
  <2>1. arrived'[g] \in Nat
    BY LoseOK DEF OrderInv, IInv, TypeOK
  <2> QED
    BY <2>1, <1>1, <1>3, <1>4 DEF OrderInv, SentBeforeWaiting, EventsOf
<1>6. IInv'
  BY LoseOK DEF OrderInv
<1> QED
  BY <1>1, <1>2, <1>5, <1>6 DEF OrderInv, WaitInOrder, SentInOrder, RunsBefore

LEMMA EnqueueOrder ==
    ASSUME OrderInv, NEW f \in Flows, NEW p \in PacketsNow(f), Enqueue(f, p)
    PROVE  OrderInv'
<1>1. PICK t \in TablesFor(f) : Schedule(t, f, p)
  BY DEF Enqueue
<1>2. /\ TableOK(t, pending) /\ f \in DOMAIN t /\ f \in DOMAIN Rules
      /\ DOMAIN t \subseteq DOMAIN table \cup {f}
  BY TablesForOK DEF OrderInv, IInv, Enqueue
<1>3. p \in Packet /\ p.flow = f /\ p.n = arrived[f] + 1
  BY PacketsNowOK DEF OrderInv, IInv, PacketsNow
<1> DEFINE event == [id |-> nextId, due |-> EndOf(t[f], p), packet |-> p]
<1>4. /\ pending' = pending \cup {event} /\ sent' = sent
      /\ DOMAIN table' = DOMAIN t
  BY <1>1 DEF Schedule, Enqueue
<1>5. /\ event.packet = p /\ event.id = nextId /\ event.due = EndOf(t[f], p)
  OBVIOUS
<1> HIDE DEF event
<1>6. /\ arrived[f] \in Nat /\ arrived'[f] = arrived[f] + 1
      /\ \A g \in Flows : g # f => arrived'[g] = arrived[g]
  BY DEF OrderInv, IInv, TypeOK, Enqueue, Arrives
<1>7. /\ \A g \in Flows : \A i \in Places(sent[g]) : sent[g][i].packet.n \in Nat
      /\ \A e \in pending : /\ e.packet.n \in Nat /\ e.id \in Nat
                            /\ e.due \in Nat /\ e.id < nextId
      /\ nextId \in Nat
  <2>1. \A g \in Flows : \A i \in Places(sent[g]) : sent[g][i].packet.n \in Nat
    BY SentNumbers DEF OrderInv, IInv
  <2> QED
    BY <2>1 DEF OrderInv, IInv, TypeOK, IdsUnique, Event, Packet
<1>8. EndOf(t[f], p) \in Nat /\ EndOf(t[f], p) >= t[f].tail /\ t[f].tail \in Nat
  <2>1. t[f] \in Flow
    BY <1>2 DEF TableOK, TableType
  <2> QED
    BY <2>1, <1>3, EndOfBound DEF OrderInv, IInv, TypeOK, Flow
<1>9. \A e \in pending : e.packet.flow = f => ~RunsBefore(event, e)
  <2> SUFFICES ASSUME NEW e \in pending, e.packet.flow = f
               PROVE  ~RunsBefore(event, e)
    OBVIOUS
  <2>1. e.due <= t[f].tail
    BY <1>2 DEF TableOK, QueuesOf
  <2> QED
    BY <2>1, <1>5, <1>7, <1>8 DEF RunsBefore
<1>10. \A e \in pending : e.packet.flow = f => e.packet.n < p.n
  BY <1>3, <1>6, <1>7 DEF OrderInv, SentBeforeWaiting, EventsOf
<1>11. ~RunsBefore(event, event)
  BY <1>5, <1>7, <1>8 DEF RunsBefore
<1>12. WaitInOrder'
  BY <1>3, <1>4, <1>5, <1>9, <1>10, <1>11 DEF OrderInv, WaitInOrder, RunsBefore
<1>13. SentBeforeWaiting'
  <2> SUFFICES ASSUME NEW g \in Flows
               PROVE  /\ \A i \in Places(sent[g]) :
                            sent[g][i].packet.n <= arrived'[g]
                      /\ \A e \in pending' : e.packet.flow = g =>
                            /\ e.packet.n <= arrived'[g]
                            /\ \A i \in Places(sent[g]) :
                                  sent[g][i].packet.n < e.packet.n
    BY <1>4 DEF SentBeforeWaiting, EventsOf
  <2>1. CASE g # f
    BY <2>1, <1>3, <1>4, <1>5, <1>6 DEF OrderInv, SentBeforeWaiting, EventsOf
  <2>2. CASE g = f
    <3>1. /\ \A i \in Places(sent[f]) : sent[f][i].packet.n <= arrived[f]
          /\ \A e \in pending : e.packet.flow = f =>
                /\ e.packet.n <= arrived[f]
                /\ \A i \in Places(sent[f]) : sent[f][i].packet.n < e.packet.n
      BY DEF OrderInv, SentBeforeWaiting, EventsOf
    <3> QED
      BY <3>1, <2>2, <1>3, <1>4, <1>5, <1>6, <1>7
  <2> QED
    BY <2>1, <2>2
<1>14. IInv'
  BY EnqueueOK DEF OrderInv
<1>15. DOMAIN table' \subseteq DOMAIN Rules
  BY <1>2, <1>4 DEF OrderInv
<1> QED
  BY <1>4, <1>12, <1>13, <1>14, <1>15 DEF OrderInv, SentInOrder

LEMMA DequeueOrder ==
    ASSUME OrderInv, NEW e \in pending, Dequeue(e)
    PROVE  OrderInv'
<1> DEFINE f == e.packet.flow
<1>1. /\ IInv /\ TypeOK /\ IsNext(e)
      /\ f \in DOMAIN table /\ f \notin Cancelled(table)
      /\ table[f].queue # <<>>
  BY FrontRuns DEF OrderInv, IInv, Dequeue
<1>2. Leave(e, Tail(table[f].queue))
  BY <1>1 DEF Dequeue
<1>3. e.packet \in Packet /\ f \in Flows /\ table[f].rule \in Rule
  BY <1>1 DEF IInv, TypeOK, TableOK, TableType, Event, Packet, Flow
<1>4. PassOn(e.packet, table[f].rule) /\ arrived' = arrived
  BY <1>2 DEF Leave, Dequeue
<1>5. pending' \subseteq pending \ {e} /\ DOMAIN table' = DOMAIN table
  BY <1>2 DEF Leave, Uncancelled
<1>6. \A d \in pending : d.packet.flow = f /\ d # e => e.packet.n < d.packet.n
  BY <1>1 DEF OrderInv, WaitInOrder, IsNext
<1>7. /\ e.packet.n <= arrived[f]
      /\ \A i \in Places(sent[f]) : sent[f][i].packet.n < e.packet.n
  BY <1>3 DEF OrderInv, SentBeforeWaiting, EventsOf
<1>8. SentInOrder'
  BY <1>3, <1>4, <1>7, SendKeepsOrder
<1>9. WaitInOrder'
  BY <1>5 DEF OrderInv, WaitInOrder, RunsBefore
<1>10. SentBeforeWaiting'
  <2>1. /\ \A g \in Flows : g # f => sent'[g] = sent[g]
        /\ \A i \in Places(sent'[f]) :
              \/ i \in Places(sent[f]) /\ sent'[f][i] = sent[f][i]
              \/ i = Len(sent[f]) + 1 /\ sent'[f][i].packet = e.packet
    BY <1>1, <1>3, <1>4, PassOnAppends
  <2> SUFFICES ASSUME NEW g \in Flows
               PROVE  /\ \A i \in Places(sent'[g]) :
                            sent'[g][i].packet.n <= arrived[g]
                      /\ \A d \in pending' : d.packet.flow = g =>
                            /\ d.packet.n <= arrived[g]
                            /\ \A i \in Places(sent'[g]) :
                                  sent'[g][i].packet.n < d.packet.n
    BY <1>4 DEF SentBeforeWaiting, EventsOf
  <2>2. CASE g # f
    BY <2>1, <2>2, <1>5 DEF OrderInv, SentBeforeWaiting, EventsOf
  <2>3. CASE g = f
    <3>1. \A i \in Places(sent'[f]) : sent'[f][i].packet.n <= arrived[f]
      BY <2>1, <1>3, <1>7 DEF OrderInv, SentBeforeWaiting
    <3>2. ASSUME NEW d \in pending', d.packet.flow = f
          PROVE  /\ d.packet.n <= arrived[f]
                 /\ \A i \in Places(sent'[f]) : sent'[f][i].packet.n < d.packet.n
      <4>1. d \in pending /\ d # e
        BY <1>5
      <4>2. /\ d.packet.n <= arrived[f] /\ e.packet.n < d.packet.n
            /\ \A i \in Places(sent[f]) : sent[f][i].packet.n < d.packet.n
        BY <4>1, <3>2, <1>3, <1>6 DEF OrderInv, SentBeforeWaiting, EventsOf
      <4> QED
        BY <4>2, <2>1
    <3> QED
      BY <2>3, <3>1, <3>2
  <2> QED
    BY <2>2, <2>3
<1>11. IInv'
  BY <1>1, DequeueOK
<1> QED
  BY <1>5, <1>8, <1>9, <1>10, <1>11 DEF OrderInv

LEMMA OrderStep == OrderInv /\ [Next]_vars => OrderInv'
<1> SUFFICES ASSUME OrderInv, [Next]_vars PROVE OrderInv'
  OBVIOUS
<1>1. ASSUME NEW f \in Flows, NEW p \in PacketsNow(f),
             SendAtOnce(f, p) \/ Lose(f, p) \/ Enqueue(f, p)
      PROVE  OrderInv'
  BY <1>1, SendAtOnceOrder, LoseOrder, EnqueueOrder
<1>2. ASSUME NEW e \in pending, Dequeue(e) PROVE OrderInv'
  BY <1>2, DequeueOrder
<1>3. CASE Tick \/ UNCHANGED vars
  <2>1. /\ table' = table /\ pending' = pending
        /\ sent' = sent /\ arrived' = arrived
    BY <1>3 DEF Tick, vars
  <2>2. IInv'
    BY StepOK DEF OrderInv
  <2> QED
    BY <2>1, <2>2 DEF OrderInv, SentBeforeWaiting, WaitInOrder, SentInOrder,
                      EventsOf
<1> QED
  BY <1>1, <1>2, <1>3 DEF Next

\* The packets of a flow leave in the order in which they came, whether the
\* rule delays them or the flow passes them on at once behind its FIN.
THEOREM SentOrder == Spec => []SentInOrder
<1>1. OrderInv => SentInOrder
  BY DEF OrderInv
<1> QED
  BY <1>1, InitOrder, OrderStep, PTL DEF Spec

-----------------------------------------------------------------------------
(* Tables and their rules.                                                 *)

\* Pruning and the creation of a flow leave all other flows as they were.
LEMMA TablesForKeep ==
    ASSUME NEW f \in DOMAIN Rules, NEW t \in TablesFor(f),
           NEW g \in DOMAIN t, g \in DOMAIN table
    PROVE  t[g] = table[g]
<1>1. ASSUME NEW u \in Found(f), NEW h \in DOMAIN u, h \in DOMAIN table
      PROVE  u[h] = table[h]
  <2>1. CASE f \in DOMAIN table
    BY <1>1, <2>1 DEF Found
  <2>2. CASE f \notin DOMAIN table
    <3>1. PICK rule \in Rules[f] : u = SetFlow(table, f, NewFlow(rule))
      BY <2>2 DEF Found
    <3> QED
      BY <1>1, <2>2, <3>1 DEF SetFlow
  <2> QED
    BY <2>1, <2>2
<1>2. CASE t \in Found(f)
  BY <1>1, <1>2
<1>3. CASE t \notin Found(f)
  <2>1. PICK u \in Found(f) : t = Without(u, Cancelled(u))
    BY <1>3 DEF TablesFor
  <2>2. g \in DOMAIN u /\ t[g] = u[g]
    BY <2>1 DEF Without
  <2> QED
    BY <1>1, <2>2
<1> QED
  BY <1>2, <1>3

\* The time on the link is a time.
LEMMA TransferNat ==
    ASSUME NEW rule \in Rule, NEW p \in Packet
    PROVE  Transfer(rule, p) \in Nat
<1>1. rule.perUnit \in Nat /\ p.size \in Nat
  BY BoundsAssumption DEF Rule, Packet
<1> QED
  BY <1>1 DEF Transfer

\* A transfer ends after the delay and the transfer itself, and this long
\* after the end of the one in front.
LEMMA EndOfTimes ==
    ASSUME NEW flow \in Flow, NEW p \in Packet, now \in Nat
    PROVE  /\ EndOf(flow, p) \in Nat
           /\ EndOf(flow, p) >= now + flow.rule.delay + Transfer(flow.rule, p)
           /\ EndOf(flow, p) >= flow.tail + Transfer(flow.rule, p)
<1>1. flow.tail \in Nat /\ flow.rule \in Rule /\ flow.rule.delay \in Nat
  BY DEF Flow, Rule
<1>2. Transfer(flow.rule, p) \in Nat
  BY <1>1, TransferNat
<1> QED
  BY <1>1, <1>2 DEF EndOf, Later

\* Sending a packet appends its departure to those of its flow.
LEMMA PassOnLast ==
    ASSUME TypeOK, NEW p \in Packet, NEW rule \in Rule, PassOn(p, rule)
    PROVE  LET f == p.flow
               n == Len(sent[f])
           IN /\ f \in Flows
              /\ \A g \in Flows : g # f => sent'[g] = sent[g]
              /\ n \in Nat /\ Len(sent'[f]) = n + 1
              /\ \A i \in 1..n : sent'[f][i] = sent[f][i]
              /\ sent'[f][n + 1] = [packet |-> p, at |-> now, rule |-> rule]
<1> DEFINE d == [packet |-> p, at |-> now, rule |-> rule]
           f == p.flow
<1>1. d \in Departure
  BY DEF TypeOK, Departure
<1>2. f \in Flows /\ sent[f] \in Seq(Departure)
  BY DEF TypeOK, Packet
<1>3. sent' = [sent EXCEPT ![f] = Append(@, d)]
  BY DEF PassOn
<1> HIDE DEF d
<1>4. sent'[f] = Append(sent[f], d) /\ \A g \in Flows : g # f => sent'[g] = sent[g]
  BY <1>2, <1>3 DEF TypeOK
<1>5. /\ Len(sent[f]) \in Nat /\ Len(sent'[f]) = Len(sent[f]) + 1
      /\ \A i \in 1..Len(sent[f]) : sent'[f][i] = sent[f][i]
      /\ sent'[f][Len(sent[f]) + 1] = d
  BY <1>1, <1>2, <1>4
<1> QED
  BY <1>2, <1>4, <1>5 DEF d

\* What was sent has a rule, a packet and a time.
LEMMA DepartureOK ==
    ASSUME TypeOK, NEW g \in Flows, NEW i \in Places(sent[g])
    PROVE  /\ sent[g][i].at \in Nat /\ sent[g][i].packet \in Packet
           /\ sent[g][i].rule \in Rule
<1>1. sent[g] \in Seq(Departure)
  BY DEF TypeOK
<1>2. sent[g][i] \in Departure
  BY <1>1 DEF Places
<1> QED
  BY <1>2 DEF Departure

-----------------------------------------------------------------------------
(* Times.                                                                  *)

RuleOf(t, e) == t[e.packet.flow].rule

\* An event is due when the delay and the link allow.
DueAfterDelay ==
    \A e \in pending :
        e.due >= e.packet.at + RuleOf(table, e).delay
                   + Transfer(RuleOf(table, e), e.packet)

\* No event is overdue, and nothing was sent in the future.
NowBetween ==
    /\ \A e \in pending : e.due >= now
    /\ \A g \in Flows : \A i \in Places(sent[g]) : sent[g][i].at <= now

\* The link is free for an event behind what its flow has sent, and behind
\* the events in front of it.
LinkFree ==
    /\ \A e \in pending : \A i \in Places(sent[e.packet.flow]) :
          e.due >= sent[e.packet.flow][i].at
                     + Transfer(RuleOf(table, e), e.packet)
    /\ \A e, d \in pending :
          e.packet.flow = d.packet.flow /\ RunsBefore(e, d) =>
              d.due >= e.due + Transfer(RuleOf(table, d), d.packet)

\* The inductive invariant for the times.
TimingInv == OrderInv /\ DueAfterDelay /\ NowBetween /\ LinkFree /\ DelayRespected

\* The events have numbers in them.
LEMMA EventNumbers ==
    ASSUME IInv, NEW e \in pending
    PROVE  /\ e.due \in Nat /\ e.id \in Nat /\ e.packet \in Packet
           /\ e.packet.flow \in Flows /\ e.packet.at \in Nat
           /\ e.packet.flow \in DOMAIN table
           /\ RuleOf(table, e) \in Rule /\ RuleOf(table, e).delay \in Nat
           /\ Transfer(RuleOf(table, e), e.packet) \in Nat
<1>1. /\ e.due \in Nat /\ e.id \in Nat /\ e.packet \in Packet
      /\ e.packet.flow \in Flows /\ e.packet.at \in Nat
  BY DEF IInv, TypeOK, Event, Packet
<1>2. e.packet.flow \in DOMAIN table
  BY DEF IInv, TableOK, EventsLive
<1>3. RuleOf(table, e) \in Rule /\ RuleOf(table, e).delay \in Nat
  BY <1>2 DEF IInv, TableOK, TableType, Flow, Rule, RuleOf
<1> QED
  BY <1>1, <1>2, <1>3, TransferNat

LEMMA InitTiming == Init => TimingInv
  BY InitOrder DEF Init, TimingInv, DueAfterDelay, NowBetween, LinkFree,
                DelayRespected, Places

\* A packet that is sent now, no earlier than allowed, respects the delay.
LEMMA SendRespectsDelay ==
    ASSUME TimingInv, NEW p \in Packet, NEW rule \in Rule, PassOn(p, rule),
           now >= p.at + rule.delay + Transfer(rule, p),
           \A i \in Places(sent[p.flow]) :
               now >= sent[p.flow][i].at + Transfer(rule, p)
    PROVE  /\ DelayRespected'
           /\ \A g \in Flows : \A i \in Places(sent'[g]) :
                  \/ i \in Places(sent[g]) /\ sent'[g][i] = sent[g][i]
                  \/ g = p.flow /\ sent'[g][i].at = now
<1> DEFINE f == p.flow
           n == Len(sent[f])
<1>1. /\ f \in Flows
      /\ \A g \in Flows : g # f => sent'[g] = sent[g]
      /\ n \in Nat /\ Len(sent'[f]) = n + 1
      /\ \A i \in 1..n : sent'[f][i] = sent[f][i]
      /\ sent'[f][n + 1].packet = p /\ sent'[f][n + 1].rule = rule
      /\ sent'[f][n + 1].at = now
  <2>1. /\ f \in Flows
        /\ \A g \in Flows : g # f => sent'[g] = sent[g]
        /\ n \in Nat /\ Len(sent'[f]) = n + 1
        /\ \A i \in 1..n : sent'[f][i] = sent[f][i]
        /\ sent'[f][n + 1] = [packet |-> p, at |-> now, rule |-> rule]
    BY PassOnLast, Zenon DEF TimingInv, OrderInv, IInv
  <2> QED
    BY <2>1
<1>2. \A g \in Flows : \A i \in Places(sent'[g]) :
          \/ i \in Places(sent[g]) /\ sent'[g][i] = sent[g][i]
          \/ g = f /\ i = n + 1
  BY <1>1 DEF Places
<1>3. DelayRespected'
  <2> SUFFICES ASSUME NEW g \in Flows, NEW i \in Places(sent'[g])
               PROVE  /\ sent'[g][i].at >= sent'[g][i].packet.at
                            + sent'[g][i].rule.delay
                            + Transfer(sent'[g][i].rule, sent'[g][i].packet)
                      /\ i > 1 => sent'[g][i].at >= sent'[g][i-1].at
                            + Transfer(sent'[g][i].rule, sent'[g][i].packet)
    BY DEF DelayRespected, Places
  <2>1. CASE i \in Places(sent[g]) /\ sent'[g][i] = sent[g][i]
    <3>1. i > 1 => sent'[g][i-1] = sent[g][i-1]
      <4>1. CASE g # f
        BY <4>1, <1>1
      <4>2. CASE g = f
        BY <4>2, <2>1, <1>1 DEF Places
      <4> QED
        BY <4>1, <4>2
    <3> QED
      BY <2>1, <3>1 DEF TimingInv, OrderInv, DelayRespected, Places
  <2>2. CASE g = f /\ i = n + 1
    <3>1. i > 1 => i - 1 \in Places(sent[f]) /\ sent'[f][i-1] = sent[f][i-1]
      BY <2>2, <1>1 DEF Places
    <3> QED
      BY <2>2, <3>1, <1>1
  <2> QED
    BY <2>1, <2>2, <1>2
<1> QED
  BY <1>1, <1>2, <1>3

LEMMA SendAtOnceTiming ==
    ASSUME TimingInv, NEW f \in Flows, NEW p \in PacketsNow(f), SendAtOnce(f, p)
    PROVE  TimingInv'
<1>1. p \in Packet /\ p.flow = f /\ p.at = now
  BY PacketsNowOK DEF TimingInv, OrderInv, IInv, PacketsNow
<1>2. /\ PassOn(p, NoDelay) /\ NoDelay \in Rule
      /\ NoDelay.delay = 0 /\ NoDelay.perUnit = 0
      /\ table' = table /\ pending' = pending /\ now' = now
  BY DEF SendAtOnce, Arrives, NoDelay, Rule
<1>3. now \in Nat /\ Transfer(NoDelay, p) = 0
  <2>1. p.size \in Nat
    BY <1>1, BoundsAssumption DEF Packet
  <2> QED
    BY <2>1, <1>2 DEF Transfer, TimingInv, OrderInv, IInv, TypeOK
<1>4. \A i \in Places(sent[f]) : sent[f][i].at \in Nat /\ sent[f][i].at <= now
  BY DepartureOK DEF TimingInv, OrderInv, IInv, NowBetween
<1>5. /\ DelayRespected'
      /\ \A g \in Flows : \A i \in Places(sent'[g]) :
             \/ i \in Places(sent[g]) /\ sent'[g][i] = sent[g][i]
             \/ g = f /\ sent'[g][i].at = now
  BY <1>1, <1>2, <1>3, <1>4, SendRespectsDelay
<1>6. \A e \in pending : e.packet.flow # f
  <2>1. f \in DOMAIN table => f \in Cancelled(table)
    BY DEF SendAtOnce, TimingInv, OrderInv
  <2> QED
    BY <2>1 DEF TimingInv, OrderInv, IInv, TableOK, EventsLive, Cancelled
<1>7. NowBetween'
  BY <1>2, <1>3, <1>5 DEF TimingInv, OrderInv, NowBetween
<1>8. LinkFree'
  <2>1. \A e \in pending : e.packet.flow \in Flows
    BY EventNumbers DEF TimingInv, OrderInv
  <2>2. \A e \in pending : \A i \in Places(sent'[e.packet.flow]) :
            e.due >= sent'[e.packet.flow][i].at
                       + Transfer(RuleOf(table, e), e.packet)
    BY <1>5, <1>6, <2>1 DEF TimingInv, OrderInv, LinkFree
  <2> QED
    BY <1>2, <2>2 DEF TimingInv, OrderInv, LinkFree, RunsBefore
<1>9. DueAfterDelay'
  BY <1>2 DEF TimingInv, OrderInv, DueAfterDelay
<1>10. OrderInv'
  BY SendAtOnceOrder DEF TimingInv
<1> QED
  BY <1>5, <1>7, <1>8, <1>9, <1>10 DEF TimingInv, OrderInv

\* The events that were pending keep their rules when a packet comes.
LEMMA RulesKept ==
    ASSUME IInv, NEW f \in DOMAIN Rules, f \notin Cancelled(table),
           NEW t \in TablesFor(f), NEW e \in pending
    PROVE  e.packet.flow \in DOMAIN t /\ RuleOf(t, e) = RuleOf(table, e)
<1>1. e.packet.flow \in DOMAIN t
  BY TablesForOK DEF IInv, TableOK, EventsLive
<1>2. e.packet.flow \in DOMAIN table
  BY EventNumbers
<1> QED
  BY <1>1, <1>2, TablesForKeep DEF RuleOf

LEMMA LoseTiming ==
    ASSUME TimingInv, NEW f \in Flows, NEW p \in PacketsNow(f), Lose(f, p)
    PROVE  TimingInv'
<1>1. /\ pending' = pending /\ sent' = sent /\ now' = now
      /\ table' \in TablesFor(f) /\ f \in DOMAIN Rules /\ f \notin Cancelled(table)
  BY DEF Lose, Arrives
<1>2. \A e \in pending : RuleOf(table', e) = RuleOf(table, e)
  BY <1>1, RulesKept DEF TimingInv, OrderInv
<1>3. DueAfterDelay'
  BY <1>1, <1>2 DEF TimingInv, OrderInv, DueAfterDelay
<1>4. LinkFree'
  BY <1>1, <1>2 DEF TimingInv, OrderInv, LinkFree, RunsBefore
<1>5. NowBetween' /\ DelayRespected'
  BY <1>1 DEF TimingInv, OrderInv, NowBetween, DelayRespected
<1>6. OrderInv'
  BY LoseOrder DEF TimingInv
<1> QED
  BY <1>3, <1>4, <1>5, <1>6 DEF TimingInv, OrderInv

LEMMA EnqueueTiming ==
    ASSUME TimingInv, NEW f \in Flows, NEW p \in PacketsNow(f), Enqueue(f, p)
    PROVE  TimingInv'
<1>1. PICK t \in TablesFor(f) : Schedule(t, f, p)
  BY DEF Enqueue
<1>2. /\ TableOK(t, pending) /\ f \in DOMAIN t
      /\ f \in DOMAIN Rules /\ f \notin Cancelled(table)
  BY TablesForOK DEF TimingInv, OrderInv, IInv, Enqueue
<1>3. p \in Packet /\ p.flow = f /\ p.at = now /\ now \in Nat
  BY PacketsNowOK DEF TimingInv, OrderInv, IInv, TypeOK, PacketsNow
<1>4. t[f] \in Flow /\ t[f].tail \in Nat /\ t[f].rule \in Rule
      /\ t[f].rule.delay \in Nat
  BY <1>2 DEF TableOK, TableType, Flow, Rule
<1> DEFINE end == EndOf(t[f], p)
           event == [id |-> nextId, due |-> end, packet |-> p]
           slot == Transfer(t[f].rule, p)
<1>5. /\ end \in Nat /\ slot \in Nat
      /\ end >= now + t[f].rule.delay + slot /\ end >= t[f].tail + slot
  BY <1>3, <1>4, EndOfTimes, TransferNat
<1>6. /\ event.packet = p /\ event.id = nextId /\ event.due = end
      /\ event \in Event /\ nextId \in Nat
  BY <1>3, <1>5 DEF Event, TimingInv, OrderInv, IInv, TypeOK
<1>7. /\ pending' = pending \cup {event} /\ sent' = sent /\ now' = now
      /\ table' = [t EXCEPT ![f] = Queued(@, event)]
  BY <1>1 DEF Schedule, Enqueue, Arrives
<1> HIDE DEF event, end
<1>8. \A e \in pending : RuleOf(table', e) = RuleOf(table, e)
  <2> SUFFICES ASSUME NEW e \in pending
               PROVE  RuleOf(table', e) = RuleOf(table, e)
    OBVIOUS
  <2>1. e.packet.flow \in DOMAIN t /\ RuleOf(t, e) = RuleOf(table, e)
    BY <1>2, RulesKept DEF TimingInv, OrderInv
  <2>2. Queued(t[f], event).rule = t[f].rule
    BY <1>4 DEF Queued, Flow
  <2> QED
    BY <2>1, <2>2, <1>2, <1>7 DEF RuleOf
<1>9. RuleOf(table', event) = t[f].rule
  <2>1. Queued(t[f], event).rule = t[f].rule
    BY <1>4 DEF Queued, Flow
  <2> QED
    BY <2>1, <1>2, <1>3, <1>6, <1>7 DEF RuleOf
<1>10. DueAfterDelay'
  <2> SUFFICES ASSUME NEW e \in pending'
               PROVE  e.due >= e.packet.at + RuleOf(table', e).delay
                                 + Transfer(RuleOf(table', e), e.packet)
    BY DEF DueAfterDelay
  <2>1. CASE e \in pending
    BY <2>1, <1>8 DEF TimingInv, OrderInv, DueAfterDelay
  <2>2. CASE e = event
    BY <2>2, <1>3, <1>5, <1>6, <1>9
  <2> QED
    BY <2>1, <2>2, <1>7
<1>11. NowBetween'
  <2>1. event.due >= now
    BY <1>3, <1>4, <1>5, <1>6
  <2> QED
    BY <2>1, <1>7 DEF TimingInv, OrderInv, NowBetween
<1>12. \A e \in pending' : \A i \in Places(sent[e.packet.flow]) :
           e.due >= sent[e.packet.flow][i].at
                      + Transfer(RuleOf(table', e), e.packet)
  <2> SUFFICES ASSUME NEW e \in pending', NEW i \in Places(sent[e.packet.flow])
               PROVE  e.due >= sent[e.packet.flow][i].at
                                 + Transfer(RuleOf(table', e), e.packet)
    OBVIOUS
  <2>1. CASE e \in pending
    BY <2>1, <1>8 DEF TimingInv, OrderInv, LinkFree
  <2>2. CASE e = event
    <3>1. sent[f][i].at \in Nat /\ sent[f][i].at <= now
      BY <2>2, <1>3, <1>6, DepartureOK DEF TimingInv, OrderInv, IInv, NowBetween
    <3> QED
      BY <3>1, <2>2, <1>3, <1>4, <1>5, <1>6, <1>9
  <2> QED
    BY <2>1, <2>2, <1>7
<1>13. \A e \in pending : e.packet.flow = f => e.due \in Nat /\ e.id < nextId
                                               /\ e.due <= t[f].tail
  BY <1>2, EventNumbers DEF TimingInv, OrderInv, IInv, IdsUnique, TableOK, QueuesOf
<1>14. \A e, d \in pending' :
           e.packet.flow = d.packet.flow /\ RunsBefore(e, d) =>
               d.due >= e.due + Transfer(RuleOf(table', d), d.packet)
  <2> SUFFICES ASSUME NEW e \in pending', NEW d \in pending',
                      e.packet.flow = d.packet.flow, RunsBefore(e, d)
               PROVE  d.due >= e.due + Transfer(RuleOf(table', d), d.packet)
    OBVIOUS
  <2>1. CASE e \in pending /\ d \in pending
    BY <2>1, <1>8 DEF TimingInv, OrderInv, LinkFree
  <2>2. CASE e \in pending /\ d = event
    BY <2>2, <1>3, <1>4, <1>5, <1>6, <1>9, <1>13
  <2>3. CASE e = event /\ d \in pending
    <3>1. /\ d.due \in Nat /\ d.id \in Nat /\ d.id < nextId
          /\ d.due <= t[f].tail
      BY <2>3, <1>3, <1>6, <1>13, EventNumbers DEF TimingInv, OrderInv
    <3>2. ~RunsBefore(event, d)
      BY <3>1, <1>4, <1>5, <1>6 DEF RunsBefore
    <3> QED
      BY <3>2, <2>3
  <2>4. CASE e = event /\ d = event
    BY <2>4, <1>5, <1>6 DEF RunsBefore
  <2> QED
    BY <2>1, <2>2, <2>3, <2>4, <1>7
<1>15. LinkFree'
  BY <1>7, <1>12, <1>14 DEF LinkFree, RunsBefore
<1>16. DelayRespected'
  BY <1>7 DEF TimingInv, OrderInv, DelayRespected
<1>17. OrderInv'
  BY EnqueueOrder DEF TimingInv
<1> QED
  BY <1>10, <1>11, <1>15, <1>16, <1>17 DEF TimingInv, OrderInv

LEMMA DequeueTiming ==
    ASSUME TimingInv, NEW e \in pending, Dequeue(e)
    PROVE  TimingInv'
<1> DEFINE f == e.packet.flow
           rule == RuleOf(table, e)
<1>1. /\ IInv /\ TypeOK /\ IsNext(e)
      /\ f \in DOMAIN table /\ f \notin Cancelled(table)
      /\ table[f].queue # <<>>
  BY FrontRuns DEF TimingInv, OrderInv, IInv, Dequeue
<1>2. Leave(e, Tail(table[f].queue)) /\ now' = now
  BY <1>1 DEF Dequeue
<1>3. /\ e.due \in Nat /\ e.id \in Nat /\ e.packet \in Packet
      /\ f \in Flows /\ e.packet.at \in Nat /\ rule \in Rule
      /\ rule.delay \in Nat /\ Transfer(rule, e.packet) \in Nat /\ now \in Nat
  BY <1>1, EventNumbers DEF IInv, TypeOK
<1>4. PassOn(e.packet, rule)
  BY <1>2 DEF Leave, RuleOf
<1>5. pending' \subseteq pending \ {e}
  BY <1>2 DEF Leave, Uncancelled
<1>6. /\ DOMAIN table' = DOMAIN table
      /\ \A g \in DOMAIN table : table'[g].rule = table[g].rule
  <2>1. table[f] \in Flow
    BY <1>1 DEF IInv, TableOK, TableType
  <2>2. CASE ~e.packet.fin
    <3>1. table' = [table EXCEPT ![f].queue = Tail(table[f].queue)]
      BY <1>2, <2>2 DEF Leave
    <3> QED
      BY <3>1, <2>1, <1>1 DEF Flow
  <2>3. CASE e.packet.fin
    <3>1. table' = [table EXCEPT ![f] = CancelFlow(@)]
      BY <1>2, <2>3 DEF Leave
    <3>2. CancelFlow(table[f]).rule = table[f].rule
      BY <2>1 DEF CancelFlow, Flow
    <3> QED
      BY <3>1, <3>2, <1>1
  <2> QED
    BY <2>2, <2>3
<1>7. \A d \in pending : RuleOf(table', d) = RuleOf(table, d)
  BY <1>1, <1>6, EventNumbers DEF RuleOf
<1>8. e.due <= now /\ e.due >= now
  BY <1>1 DEF IsNext, TimingInv, NowBetween
<1>9. now >= e.packet.at + rule.delay + Transfer(rule, e.packet)
  BY <1>3, <1>8 DEF TimingInv, OrderInv, DueAfterDelay
<1>10. \A i \in Places(sent[f]) :
           now >= sent[f][i].at + Transfer(rule, e.packet)
  <2> TAKE i \in Places(sent[f])
  <2>1. sent[f][i].at \in Nat
    BY <1>1, <1>3, DepartureOK
  <2>2. e.due >= sent[f][i].at + Transfer(rule, e.packet)
    BY DEF TimingInv, OrderInv, LinkFree
  <2> QED
    BY <2>1, <2>2, <1>3, <1>8
<1> HIDE DEF rule
<1>11. /\ DelayRespected'
       /\ \A g \in Flows : \A i \in Places(sent'[g]) :
              \/ i \in Places(sent[g]) /\ sent'[g][i] = sent[g][i]
              \/ g = f /\ sent'[g][i].at = now
  BY <1>3, <1>4, <1>9, <1>10, SendRespectsDelay
<1>12. NowBetween'
  BY <1>2, <1>3, <1>5, <1>11 DEF TimingInv, OrderInv, NowBetween
<1>13. DueAfterDelay'
  BY <1>5, <1>7 DEF TimingInv, OrderInv, DueAfterDelay
<1>14. \A d \in pending' : \A i \in Places(sent'[d.packet.flow]) :
           d.due >= sent'[d.packet.flow][i].at
                      + Transfer(RuleOf(table', d), d.packet)
  <2> SUFFICES ASSUME NEW d \in pending', NEW i \in Places(sent'[d.packet.flow])
               PROVE  d.due >= sent'[d.packet.flow][i].at
                                 + Transfer(RuleOf(table', d), d.packet)
    OBVIOUS
  <2>1. d \in pending /\ d # e /\ d.packet.flow \in Flows
    BY <1>1, <1>5, EventNumbers
  <2>2. CASE /\ i \in Places(sent[d.packet.flow])
             /\ sent'[d.packet.flow][i] = sent[d.packet.flow][i]
    BY <2>1, <2>2, <1>7 DEF TimingInv, OrderInv, LinkFree
  <2>3. CASE d.packet.flow = f /\ sent'[d.packet.flow][i].at = now
    <3>1. RunsBefore(e, d)
      BY <2>1, <1>1 DEF IsNext
    <3>2. d.due >= e.due + Transfer(RuleOf(table, d), d.packet)
      BY <3>1, <2>1, <2>3 DEF TimingInv, OrderInv, LinkFree
    <3>3. e.due = now
      BY <1>3, <1>8
    <3> QED
      BY <3>2, <3>3, <2>1, <2>3, <1>7
  <2> QED
    BY <2>1, <2>2, <2>3, <1>11
<1>15. LinkFree'
  BY <1>5, <1>7, <1>14 DEF TimingInv, OrderInv, LinkFree, RunsBefore
<1>16. OrderInv'
  BY DequeueOrder DEF TimingInv
<1> QED
  BY <1>11, <1>12, <1>13, <1>15, <1>16 DEF TimingInv, OrderInv

LEMMA TimingStep == TimingInv /\ [Next]_vars => TimingInv'
<1> SUFFICES ASSUME TimingInv, [Next]_vars PROVE TimingInv'
  OBVIOUS
<1>1. ASSUME NEW f \in Flows, NEW p \in PacketsNow(f),
             SendAtOnce(f, p) \/ Lose(f, p) \/ Enqueue(f, p)
      PROVE  TimingInv'
  BY <1>1, SendAtOnceTiming, LoseTiming, EnqueueTiming
<1>2. ASSUME NEW e \in pending, Dequeue(e) PROVE TimingInv'
  BY <1>2, DequeueTiming
<1>3. CASE Tick \/ UNCHANGED vars
  <2>1. table' = table /\ pending' = pending /\ sent' = sent
    BY <1>3 DEF Tick, vars
  <2>2. OrderInv'
    BY OrderStep DEF TimingInv
  <2>3. /\ now \in Nat /\ now' \in Nat /\ now' >= now
        /\ \A e \in pending : e.due >= now'
    <3>1. now \in Nat /\ \A e \in pending : e.due \in Nat /\ e.due >= now
      BY EventNumbers DEF TimingInv, OrderInv, IInv, TypeOK, NowBetween
    <3>2. CASE Tick
      BY <3>1, <3>2 DEF Tick
    <3>3. CASE UNCHANGED vars
      BY <3>1, <3>3 DEF vars
    <3> QED
      BY <1>3, <3>2, <3>3
  <2>4. NowBetween'
    <3>1. \A g \in Flows : \A i \in Places(sent[g]) : sent[g][i].at <= now'
      <4> TAKE g \in Flows
      <4> TAKE i \in Places(sent[g])
      <4>1. sent[g][i].at \in Nat /\ sent[g][i].at <= now
        BY DepartureOK DEF TimingInv, OrderInv, IInv, NowBetween
      <4> QED
        BY <4>1, <2>3
    <3> QED
      BY <3>1, <2>1, <2>3 DEF NowBetween
  <2>5. DueAfterDelay' /\ DelayRespected'
    BY <2>1 DEF TimingInv, OrderInv, DueAfterDelay, DelayRespected
  <2>6. LinkFree'
    BY <2>1 DEF TimingInv, OrderInv, LinkFree, RunsBefore
  <2> QED
    BY <2>2, <2>4, <2>5, <2>6 DEF TimingInv, OrderInv
<1> QED
  BY <1>1, <1>2, <1>3 DEF Next

\* A packet leaves no earlier than its delay and the link allow, whatever
\* the flow draws and however the packets come: the tail that EndOf looks at
\* is never earlier than the end of the transfers that are on their way.
THEOREM DelaysKept == Spec => []DelayRespected
<1>1. TimingInv => DelayRespected
  BY DEF TimingInv, OrderInv
<1> QED
  BY <1>1, InitTiming, TimingStep, PTL DEF Spec

-----------------------------------------------------------------------------
(* The numbers of packets.                                                 *)

\* How many packets wait in the queue of g in table t.
Waiting(t, g) == IF g \in DOMAIN t THEN Len(t[g].queue) ELSE 0

Accounts ==
    \A g \in Flows :
      /\ enqueued[g] = Len(sent[g]) + Waiting(table, g) + discarded[g]
      /\ arrived[g] = enqueued[g] + dropped[g]

AccountInv == IInv /\ Accounts

\* All that is counted are numbers.
LEMMA CountsNat ==
    ASSUME IInv, NEW g \in Flows
    PROVE  /\ Len(sent[g]) \in Nat /\ Waiting(table, g) \in Nat
           /\ enqueued[g] \in Nat /\ arrived[g] \in Nat
           /\ dropped[g] \in Nat /\ discarded[g] \in Nat
<1>1. /\ sent[g] \in Seq(Departure) /\ enqueued[g] \in Nat /\ arrived[g] \in Nat
      /\ dropped[g] \in Nat /\ discarded[g] \in Nat
  BY DEF IInv, TypeOK
<1>2. g \in DOMAIN table => table[g].queue \in Seq(Event)
  BY DEF IInv, TypeOK, Flow
<1> QED
  BY <1>1, <1>2 DEF Waiting

\* A flow without events has an empty queue.
LEMMA NoEventsNoQueue ==
    ASSUME NEW t, NEW P, TableOK(t, P), NEW g \in DOMAIN t,
           \A e \in P : e.packet.flow # g
    PROVE  Waiting(t, g) = 0
<1>1. Len(t[g].queue) \in Nat
  BY DEF TableOK, TableType, Flow
<1>2. 1 \notin Places(t[g].queue)
  BY DEF TableOK, QueuesOf
<1>3. Len(t[g].queue) = 0
  BY <1>1, <1>2 DEF Places
<1> QED
  BY <1>3 DEF Waiting

\* Neither pruning nor the creation of a flow changes what waits.
LEMMA WaitingKept ==
    ASSUME IInv, NEW f \in DOMAIN Rules, f \notin Cancelled(table),
           NEW t \in TablesFor(f), NEW g
    PROVE  Waiting(t, g) = Waiting(table, g)
<1>1. TableOK(t, pending) /\ TableOK(table, pending)
  BY TablesForOK DEF IInv
<1>2. CASE g \in DOMAIN t /\ g \in DOMAIN table
  BY <1>2, TablesForKeep DEF Waiting
<1>3. CASE g \in DOMAIN t /\ g \notin DOMAIN table
  <2>1. \A e \in pending : e.packet.flow # g
    BY <1>1, <1>3 DEF TableOK, EventsLive
  <2> QED
    BY <2>1, <1>1, <1>3, NoEventsNoQueue DEF Waiting
<1>4. CASE g \notin DOMAIN t /\ g \in DOMAIN table
  <2>1. \A e \in pending : e.packet.flow # g
    BY <1>1, <1>4 DEF TableOK, EventsLive
  <2> QED
    BY <2>1, <1>1, <1>4, NoEventsNoQueue DEF Waiting
<1>5. CASE g \notin DOMAIN t /\ g \notin DOMAIN table
  BY <1>5 DEF Waiting
<1> QED
  BY <1>2, <1>3, <1>4, <1>5

LEMMA InitAccounts == Init => AccountInv
  BY InitOK DEF Init, AccountInv, Accounts, Waiting

LEMMA SendAtOnceAccounts ==
    ASSUME AccountInv, NEW f \in Flows, NEW p \in PacketsNow(f), SendAtOnce(f, p)
    PROVE  AccountInv'
<1>1. p \in Packet /\ p.flow = f
  BY PacketsNowOK DEF AccountInv, IInv
<1>2. /\ PassOn(p, NoDelay) /\ NoDelay \in Rule
      /\ table' = table /\ dropped' = dropped /\ discarded' = discarded
  BY DEF SendAtOnce, NoDelay, Rule
<1>3. /\ \A g \in Flows : g # f => sent'[g] = sent[g]
      /\ Len(sent'[f]) = Len(sent[f]) + 1
  BY <1>1, <1>2, PassOnLast DEF AccountInv, IInv
<1>4. \A g \in Flows :
          /\ arrived'[g] = IF g = f THEN arrived[g] + 1 ELSE arrived[g]
          /\ enqueued'[g] = IF g = f THEN enqueued[g] + 1 ELSE enqueued[g]
  BY DEF SendAtOnce, Arrives, AccountInv, IInv, TypeOK
<1>5. \A g \in Flows : Waiting(table', g) = Waiting(table, g)
  BY <1>2
<1>6. Accounts'
  <2> SUFFICES ASSUME NEW g \in Flows
               PROVE  /\ enqueued'[g] = Len(sent'[g]) + Waiting(table', g)
                                          + discarded'[g]
                      /\ arrived'[g] = enqueued'[g] + dropped'[g]
    BY DEF Accounts
  <2>1. CASE g = f
    <3>1. /\ Len(sent[f]) \in Nat /\ Waiting(table, f) \in Nat
          /\ enqueued[f] \in Nat /\ dropped[f] \in Nat /\ discarded[f] \in Nat
      BY CountsNat DEF AccountInv
    <3>2. enqueued[f] = Len(sent[f]) + Waiting(table, f) + discarded[f]
      BY DEF AccountInv, Accounts
    <3>3. arrived[f] = enqueued[f] + dropped[f]
      BY DEF AccountInv, Accounts
    <3>4. enqueued'[f] = Len(sent'[f]) + Waiting(table', f) + discarded'[f]
      BY <3>1, <3>2, <1>2, <1>3, <1>4, <1>5
    <3>5. arrived'[f] = enqueued'[f] + dropped'[f]
      BY <3>1, <3>3, <1>2, <1>4
    <3> QED
      BY <2>1, <3>4, <3>5
  <2>2. CASE g # f
    BY <2>2, <1>2, <1>3, <1>4, <1>5 DEF AccountInv, Accounts
  <2> QED
    BY <2>1, <2>2
<1> QED
  BY <1>6, SendAtOnceOK DEF AccountInv

LEMMA LoseAccounts ==
    ASSUME AccountInv, NEW f \in Flows, NEW p \in PacketsNow(f), Lose(f, p)
    PROVE  AccountInv'
<1>1. /\ sent' = sent /\ enqueued' = enqueued /\ discarded' = discarded
      /\ table' \in TablesFor(f) /\ f \in DOMAIN Rules /\ f \notin Cancelled(table)
  BY DEF Lose
<1>2. \A g \in Flows :
          /\ arrived'[g] = IF g = f THEN arrived[g] + 1 ELSE arrived[g]
          /\ dropped'[g] = IF g = f THEN dropped[g] + 1 ELSE dropped[g]
  BY DEF Lose, Arrives, AccountInv, IInv, TypeOK
<1>3. \A g \in Flows : Waiting(table', g) = Waiting(table, g)
  BY <1>1, WaitingKept DEF AccountInv
<1>4. Accounts'
  <2> SUFFICES ASSUME NEW g \in Flows
               PROVE  /\ enqueued'[g] = Len(sent'[g]) + Waiting(table', g)
                                          + discarded'[g]
                      /\ arrived'[g] = enqueued'[g] + dropped'[g]
    BY DEF Accounts
  <2>1. /\ Len(sent[g]) \in Nat /\ Waiting(table, g) \in Nat
        /\ enqueued[g] \in Nat /\ arrived[g] \in Nat
        /\ dropped[g] \in Nat /\ discarded[g] \in Nat
    BY CountsNat DEF AccountInv
  <2>2. /\ enqueued[g] = Len(sent[g]) + Waiting(table, g) + discarded[g]
        /\ arrived[g] = enqueued[g] + dropped[g]
    BY DEF AccountInv, Accounts
  <2>3. /\ enqueued'[g] = enqueued[g] /\ discarded'[g] = discarded[g]
        /\ Len(sent'[g]) = Len(sent[g])
        /\ Waiting(table', g) = Waiting(table, g)
    BY <1>1, <1>3
  <2>4. \/ arrived'[g] = arrived[g] + 1 /\ dropped'[g] = dropped[g] + 1
        \/ arrived'[g] = arrived[g] /\ dropped'[g] = dropped[g]
    BY <1>2
  <2> QED
    BY <2>1, <2>2, <2>3, <2>4
<1> QED
  BY <1>4, LoseOK DEF AccountInv

LEMMA EnqueueAccounts ==
    ASSUME AccountInv, NEW f \in Flows, NEW p \in PacketsNow(f), Enqueue(f, p)
    PROVE  AccountInv'
<1>1. PICK t \in TablesFor(f) : Schedule(t, f, p)
  BY DEF Enqueue
<1>2. /\ TableOK(t, pending) /\ f \in DOMAIN t
      /\ f \in DOMAIN Rules /\ f \notin Cancelled(table)
  BY TablesForOK DEF AccountInv, IInv, Enqueue
<1> DEFINE event == [id |-> nextId, due |-> EndOf(t[f], p), packet |-> p]
<1>3. event \in Event
  <2>1. t[f] \in Flow /\ p \in Packet /\ now \in Nat /\ nextId \in Nat
    BY <1>2, PacketsNowOK DEF TableOK, TableType, AccountInv, IInv, TypeOK
  <2>2. EndOf(t[f], p) \in Nat
    BY <2>1, EndOfTimes
  <2> QED
    BY <2>1, <2>2 DEF Event
<1>4. table' = [t EXCEPT ![f] = Queued(@, event)]
  BY <1>1 DEF Schedule
<1> HIDE DEF event
<1>5. \A g \in Flows : Waiting(table', g) =
          IF g = f THEN Waiting(t, g) + 1 ELSE Waiting(t, g)
  <2>1. t[f] \in Flow /\ t[f].queue \in Seq(Event)
    BY <1>2 DEF TableOK, TableType, Flow
  <2>2. Queued(t[f], event).queue = Append(t[f].queue, event)
    BY <2>1, <1>3, QueuedOK
  <2>3. Len(Append(t[f].queue, event)) = Len(t[f].queue) + 1
    BY <2>1, <1>3
  <2> QED
    BY <2>2, <2>3, <1>2, <1>4 DEF Waiting
<1>6. \A g \in Flows : Waiting(t, g) = Waiting(table, g)
  BY <1>2, WaitingKept DEF AccountInv
<1>7. /\ sent' = sent /\ dropped' = dropped /\ discarded' = discarded
      /\ \A g \in Flows :
           /\ arrived'[g] = IF g = f THEN arrived[g] + 1 ELSE arrived[g]
           /\ enqueued'[g] = IF g = f THEN enqueued[g] + 1 ELSE enqueued[g]
  BY DEF Enqueue, Arrives, AccountInv, IInv, TypeOK
<1>8. Accounts'
  <2> SUFFICES ASSUME NEW g \in Flows
               PROVE  /\ enqueued'[g] = Len(sent'[g]) + Waiting(table', g)
                                          + discarded'[g]
                      /\ arrived'[g] = enqueued'[g] + dropped'[g]
    BY DEF Accounts
  <2>1. /\ Len(sent[g]) \in Nat /\ Waiting(table, g) \in Nat
        /\ enqueued[g] \in Nat /\ arrived[g] \in Nat
        /\ dropped[g] \in Nat /\ discarded[g] \in Nat
    BY CountsNat DEF AccountInv
  <2>2. /\ enqueued[g] = Len(sent[g]) + Waiting(table, g) + discarded[g]
        /\ arrived[g] = enqueued[g] + dropped[g]
    BY DEF AccountInv, Accounts
  <2>3. /\ Len(sent'[g]) = Len(sent[g])
        /\ dropped'[g] = dropped[g] /\ discarded'[g] = discarded[g]
    BY <1>7
  <2>4. \/ /\ Waiting(table', g) = Waiting(table, g) + 1
           /\ arrived'[g] = arrived[g] + 1 /\ enqueued'[g] = enqueued[g] + 1
        \/ /\ Waiting(table', g) = Waiting(table, g)
           /\ arrived'[g] = arrived[g] /\ enqueued'[g] = enqueued[g]
    BY <1>5, <1>6, <1>7
  <2>5. enqueued'[g] = Len(sent'[g]) + Waiting(table', g) + discarded'[g]
    <3>1. enqueued[g] = Len(sent[g]) + Waiting(table, g) + discarded[g]
      BY <2>2
    <3>2. CASE /\ Waiting(table', g) = Waiting(table, g) + 1
               /\ enqueued'[g] = enqueued[g] + 1
      <4>1. /\ Len(sent[g]) \in Nat /\ Waiting(table, g) \in Nat
            /\ discarded[g] \in Nat
        BY <2>1
      <4>2. enqueued[g] + 1
              = Len(sent[g]) + (Waiting(table, g) + 1) + discarded[g]
        BY <3>1, <4>1
      <4> QED
        BY <3>2, <4>2, <2>3
    <3>3. CASE /\ Waiting(table', g) = Waiting(table, g)
               /\ enqueued'[g] = enqueued[g]
      BY <3>1, <3>3, <2>3
    <3> QED
      BY <3>2, <3>3, <2>4
  <2>6. arrived'[g] = enqueued'[g] + dropped'[g]
    <3>1. arrived[g] = enqueued[g] + dropped[g]
      BY <2>2
    <3>2. CASE arrived'[g] = arrived[g] + 1 /\ enqueued'[g] = enqueued[g] + 1
      BY <3>1, <3>2, <2>1, <2>3
    <3>3. CASE arrived'[g] = arrived[g] /\ enqueued'[g] = enqueued[g]
      BY <3>1, <3>3, <2>3
    <3> QED
      BY <3>2, <3>3, <2>4
  <2> QED
    BY <2>5, <2>6
<1> QED
  BY <1>8, EnqueueOK DEF AccountInv

LEMMA DequeueAccounts ==
    ASSUME AccountInv, NEW e \in pending, Dequeue(e)
    PROVE  AccountInv'
<1> DEFINE f == e.packet.flow
           q == table[f].queue
<1>1. /\ IInv /\ TypeOK /\ f \in DOMAIN table /\ f \notin Cancelled(table)
      /\ q # <<>> /\ Len(q) > 0
  BY FrontRuns DEF AccountInv, IInv, Dequeue
<1>2. Leave(e, Tail(q))
  BY <1>1 DEF Dequeue
<1>3. /\ e.packet \in Packet /\ f \in Flows /\ table[f] \in Flow
      /\ table[f].rule \in Rule /\ q \in Seq(Event)
  BY <1>1 DEF IInv, TypeOK, TableOK, TableType, Event, Packet, Flow
<1>4. /\ Tail(q) \in Seq(Event) /\ Len(Tail(q)) = Len(q) - 1
      /\ Len(q) \in Nat /\ Len(Tail(q)) \in Nat
  BY <1>1, <1>3
<1>5. /\ \A g \in Flows : g # f => sent'[g] = sent[g]
      /\ Len(sent'[f]) = Len(sent[f]) + 1
  <2>1. PassOn(e.packet, table[f].rule)
    BY <1>2 DEF Leave
  <2> QED
    BY <2>1, <1>1, <1>3, PassOnLast
<1>6. arrived' = arrived /\ enqueued' = enqueued /\ dropped' = dropped
  BY DEF Dequeue
<1>7. /\ Waiting(table, f) = Len(q)
      /\ \A g \in Flows : g # f => Waiting(table', g) = Waiting(table, g)
      /\ \/ Waiting(table', f) = Len(q) - 1 /\ discarded'[f] = discarded[f]
         \/ /\ Waiting(table', f) = 0
            /\ discarded'[f] = discarded[f] + (Len(q) - 1)
      /\ \A g \in Flows : g # f => discarded'[g] = discarded[g]
  <2>1. Waiting(table, f) = Len(q)
    BY <1>1 DEF Waiting
  <2>2. discarded \in [Flows -> Nat] /\ discarded[f] \in Nat
    BY <1>1, <1>3 DEF TypeOK
  <2>3. CASE ~e.packet.fin
    <3>1. table' = [table EXCEPT ![f].queue = Tail(q)] /\ discarded' = discarded
      BY <1>2, <2>3 DEF Leave
    <3>2. /\ DOMAIN table' = DOMAIN table
          /\ table'[f] = [table[f] EXCEPT !.queue = Tail(q)]
          /\ \A g \in DOMAIN table : g # f => table'[g] = table[g]
      BY <3>1, <1>1
    <3> HIDE DEF q
    <3>3. table'[f].queue = Tail(q)
      BY <3>2, <1>3 DEF Flow
    <3>4. Waiting(table', f) = Len(q) - 1
      BY <3>2, <3>3, <1>1, <1>4 DEF Waiting
    <3>5. \A g \in Flows : g # f => Waiting(table', g) = Waiting(table, g)
      BY <3>2 DEF Waiting
    <3> QED
      BY <2>1, <2>2, <3>1, <3>4, <3>5, <1>1, <1>4
  <2>4. CASE e.packet.fin
    <3>1. /\ table' = [table EXCEPT ![f] = CancelFlow(@)]
          /\ discarded' = [discarded EXCEPT ![f] = @ + Len(Tail(q))]
      BY <1>2, <2>4 DEF Leave
    <3>2. /\ DOMAIN table' = DOMAIN table
          /\ table'[f] = CancelFlow(table[f])
          /\ \A g \in DOMAIN table : g # f => table'[g] = table[g]
      BY <3>1, <1>1
    <3>3. Waiting(table', f) = 0
      BY <3>2, <1>1, <1>3, CancelFlowOK DEF Waiting
    <3>4. /\ discarded'[f] = discarded[f] + Len(Tail(q))
          /\ \A g \in Flows : g # f => discarded'[g] = discarded[g]
      BY <3>1, <2>2, <1>3
    <3>5. \A g \in Flows : g # f => Waiting(table', g) = Waiting(table, g)
      BY <3>2 DEF Waiting
    <3> QED
      BY <2>1, <2>2, <3>3, <3>4, <3>5, <1>4
  <2> QED
    BY <2>3, <2>4
<1> HIDE DEF q
<1>8. IInv'
  BY <1>1, DequeueOK
<1>9. Accounts'
  <2> SUFFICES ASSUME NEW g \in Flows
               PROVE  /\ enqueued'[g] = Len(sent'[g]) + Waiting(table', g)
                                          + discarded'[g]
                      /\ arrived'[g] = enqueued'[g] + dropped'[g]
    BY DEF Accounts
  <2>1. CASE g = f
    <3>1. Len(sent[f]) \in Nat /\ discarded[f] \in Nat
      BY <1>1, <1>3, CountsNat
    <3>2. enqueued[f] = Len(sent[f]) + Waiting(table, f) + discarded[f]
      BY <1>3 DEF AccountInv, Accounts
    <3>3. arrived[f] = enqueued[f] + dropped[f]
      BY <1>3 DEF AccountInv, Accounts
    <3>4. enqueued'[f] = Len(sent'[f]) + Waiting(table', f) + discarded'[f]
      <4>1. enqueued[f] = Len(sent[f]) + Len(q) + discarded[f]
        BY <3>2, <1>7
      <4>2. Len(q) \in Nat
        BY <1>4
      <4>3. enqueued[f] = Len(sent[f]) + 1 + (Len(q) - 1) + discarded[f]
        BY <4>1, <4>2, <3>1
      <4>4. enqueued[f] = Len(sent[f]) + 1 + 0 + (discarded[f] + (Len(q) - 1))
        BY <4>1, <4>2, <3>1
      <4> QED
        BY <4>3, <4>4, <1>5, <1>6, <1>7
    <3> QED
      BY <2>1, <3>3, <3>4, <1>6
  <2>2. CASE g # f
    BY <2>2, <1>5, <1>6, <1>7 DEF AccountInv, Accounts
  <2> QED
    BY <2>1, <2>2
<1> QED
  BY <1>8, <1>9 DEF AccountInv

LEMMA AccountStep == AccountInv /\ [Next]_vars => AccountInv'
<1> SUFFICES ASSUME AccountInv, [Next]_vars PROVE AccountInv'
  OBVIOUS
<1>1. ASSUME NEW f \in Flows, NEW p \in PacketsNow(f),
             SendAtOnce(f, p) \/ Lose(f, p) \/ Enqueue(f, p)
      PROVE  AccountInv'
  BY <1>1, SendAtOnceAccounts, LoseAccounts, EnqueueAccounts
<1>2. ASSUME NEW e \in pending, Dequeue(e) PROVE AccountInv'
  BY <1>2, DequeueAccounts
<1>3. CASE Tick \/ UNCHANGED vars
  <2>1. /\ table' = table /\ sent' = sent /\ arrived' = arrived
        /\ enqueued' = enqueued /\ dropped' = dropped /\ discarded' = discarded
    BY <1>3 DEF Tick, vars
  <2>2. IInv'
    BY StepOK DEF AccountInv
  <2> QED
    BY <2>1, <2>2 DEF AccountInv, Accounts, Waiting
<1> QED
  BY <1>1, <1>2, <1>3 DEF Next

\* The queue of a flow has as many places as the flow has events.
LEMMA EventsCounted ==
    ASSUME IInv, NEW g
    PROVE  Cardinality(EventsOf(g)) = Waiting(table, g)
<1>1. CASE g \in DOMAIN table
  <2> DEFINE q == table[g].queue
             place == [i \in 1..Len(q) |-> q[i]]
  <2>1. Len(q) \in Nat
    BY <1>1 DEF IInv, TypeOK, Flow
  <2>2. /\ \A e \in EventsOf(g) : \E i \in 1..Len(q) : e = q[i]
        /\ \A i \in 1..Len(q) : q[i] \in EventsOf(g)
        /\ \A i, j \in 1..Len(q) : i < j => RunsBefore(q[i], q[j])
    BY <1>1 DEF IInv, TableOK, QueuesOf, Places, EventsOf
  <2>3. \A e \in EventsOf(g) : ~RunsBefore(e, e)
    BY DEF EventsOf, RunsBefore, IInv, TypeOK, Event
  <2> HIDE DEF q
  <2>4. \A i, j \in 1..Len(q) : q[i] = q[j] => i = j
    BY <2>1, <2>2, <2>3
  <2>5. place \in Bijection(1..Len(q), EventsOf(g))
    BY <2>2, <2>4 DEF Bijection, Injection, Surjection, IsInjective
  <2>6. Cardinality(EventsOf(g)) = Len(q)
    BY <2>1, <2>5, FS_CountingElements DEF ExistsBijection
  <2> QED
    BY <2>6, <1>1 DEF Waiting, q
<1>2. CASE g \notin DOMAIN table
  <2>1. EventsOf(g) = {}
    BY <1>2 DEF EventsOf, IInv, TableOK, EventsLive
  <2> QED
    BY <2>1, <1>2, FS_EmptySet DEF Waiting
<1> QED
  BY <1>1, <1>2

\* Every packet that came is sent, waits, was dropped by the loss rate or
\* discarded behind a FIN: pruning and cancelling lose none.
THEOREM NoneUnaccounted == Spec => []PacketsAccounted
<1>1. AccountInv => PacketsAccounted
  BY EventsCounted DEF AccountInv, Accounts, PacketsAccounted
<1> QED
  BY <1>1, InitAccounts, AccountStep, PTL DEF Spec
=============================================================================

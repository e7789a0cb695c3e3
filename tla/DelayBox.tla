------------------------------ MODULE DelayBox ------------------------------
(***************************************************************************)
(* The packets that a DelayBoxNetDevice delays: DelayBox::Delay, the flow  *)
(* table and the flows of src/delaybox/model/delaybox.cc.                  *)
(*                                                                         *)
(* A flow delays its packets by a fixed time and then sends them over a    *)
(* link of limited speed, one after the other.  It does so with one        *)
(* simulator event per packet, and keeps the ids of those events in a      *)
(* queue of its own, so that the delivery of a FIN can cancel what is      *)
(* left.  The table creates a flow at its first packet, and once in a      *)
(* while throws the cancelled ones out.                                    *)
(*                                                                         *)
(* A flow stands for what the classifier makes of addresses and ports: one *)
(* direction of a connection, or both in symmetric mode.  Rules maps it to *)
(* what the random variables of the rule that the lookup finds can give:   *)
(* each flow draws its own.  Sizes are counted in units that take perUnit  *)
(* to transfer; perUnit is 0 if the speed is unlimited.                    *)
(***************************************************************************)
EXTENDS Integers, Sequences, FiniteSets

CONSTANTS
    Flows,       \* the flow ids
    Rules,       \* Rules[f]: what flow f can draw; absent without a rule
    Sizes,       \* the sizes of packets
    PruneAbove,  \* the table is pruned when it has more flows than this
    MaxPackets,  \* MaxPackets[f]: bound on the packets of flow f
    MaxTime      \* bound on the time at which the last packet arrives

\* What a flow draws from its rule.
Rule == [delay: Nat, perUnit: Nat, lossy: BOOLEAN]

ASSUME RulesAssumption ==
    /\ DOMAIN Rules \subseteq Flows
    /\ \A f \in DOMAIN Rules : Rules[f] \subseteq Rule

ASSUME BoundsAssumption ==
    /\ IsFiniteSet(Flows) /\ Sizes \subseteq Nat
    /\ PruneAbove \in Nat /\ MaxPackets \in [Flows -> Nat] /\ MaxTime \in Nat

VARIABLES
    now,        \* Simulator::Now()
    table,      \* m_flows, a function on the flows that exist
    pending,    \* the Dequeue events the simulator has still to run
    nextId,     \* the id of the next event
    arrived,    \* arrived[f]: how many packets were handed to Delay
    sent,       \* sent[f]: the packets that send() passed on, in order
    enqueued,   \* enqueued[f]: calls of the DelayBoxEnqueue trace
    dropped,    \* dropped[f]: calls of the DelayBoxDrop trace
    discarded,  \* discarded[f]: history, packets whose event was cancelled
    fatal       \* the assertion that stopped the program

vars == <<now, table, pending, nextId, arrived, sent, enqueued, dropped,
          discarded, fatal>>

\* A packet of flow f, the n-th to arrive.
Packet == [flow: Flows, n: Nat, size: Sizes, fin: BOOLEAN, at: Nat]

\* An event of the simulator, with the packet it will send.
Event == [id: Nat, due: Nat, packet: Packet]

\* A packet that left, when, and what delayed it.
Departure == [packet: Packet, at: Nat, rule: Rule]

NoDelay == [delay |-> 0, perUnit |-> 0, lossy |-> FALSE]

Flow == [rule: Rule, tail: Nat, queue: Seq(Event), cancelled: BOOLEAN]

TypeOK ==
    /\ now \in Nat
    /\ DOMAIN table \subseteq Flows
    /\ \A f \in DOMAIN table : table[f] \in Flow
    /\ pending \subseteq Event
    /\ nextId \in Nat
    /\ arrived \in [Flows -> Nat]
    /\ sent \in [Flows -> Seq(Departure)]
    /\ enqueued \in [Flows -> Nat]
    /\ dropped \in [Flows -> Nat]
    /\ discarded \in [Flows -> Nat]
    /\ fatal \in {"none", "dequeueOnCancelled", "noFlow"}

-----------------------------------------------------------------------------
(* Flows and the table.                                                    *)

NewFlow(rule) ==
    [rule |-> rule, tail |-> 0, queue |-> <<>>, cancelled |-> FALSE]

\* The time the packet takes on the link.
Transfer(rule, p) == p.size * rule.perUnit

Later(a, b) == IF a >= b THEN a ELSE b

\* Mutated: without the wait for the packet in front, and without the delay
\* behind a packet.
EndOfOverlapping(flow, p) ==
    now + flow.rule.delay + Transfer(flow.rule, p)

EndOfUndelayed(flow, p) ==
    Transfer(flow.rule, p)
      + (IF now > flow.tail THEN now + flow.rule.delay ELSE flow.tail)

\* When the packet has left the link: delayed from now, and not before the
\* last bit of the packet in front of it.
EndOf(flow, p) ==
    LET ready == now + flow.rule.delay
    IN Transfer(flow.rule, p)
         + (IF now > flow.tail THEN ready ELSE Later(ready, flow.tail))

\* The table with flow f set to x.
SetFlow(t, f, x) == [g \in DOMAIN t \cup {f} |-> IF g = f THEN x ELSE t[g]]

Cancelled(t) == {f \in DOMAIN t : t[f].cancelled}

Without(t, S) == [f \in DOMAIN t \ S |-> t[f]]

\* Mutated: the queue is not cleared.
CancelKeepingQueue(flow) == [flow EXCEPT !.tail = 0, !.cancelled = TRUE]

\* A flow after Cancel: its queue is forgotten with the events in it.
CancelFlow(flow) ==
    [flow EXCEPT !.queue = <<>>, !.tail = 0, !.cancelled = TRUE]

\* send() is called for packet p, delayed by rule.
PassOn(p, rule) ==
    sent' = [sent EXCEPT ![p.flow] =
                Append(@, [packet |-> p, at |-> now, rule |-> rule])]

-----------------------------------------------------------------------------
(* The events.                                                             *)

Init ==
    /\ now = 0
    /\ table = [f \in {} |-> 0]
    /\ pending = {}
    /\ nextId = 0
    /\ arrived = [f \in Flows |-> 0]
    /\ sent = [f \in Flows |-> <<>>]
    /\ enqueued = [f \in Flows |-> 0]
    /\ dropped = [f \in Flows |-> 0]
    /\ discarded = [f \in Flows |-> 0]
    /\ fatal = "none"

Running == fatal = "none"

\* What the next packet of flow f can be.
PacketsNow(f) == [flow: {f}, n: {arrived[f] + 1}, size: Sizes, fin: BOOLEAN,
                  at: {now}]

\* Packet p of flow f comes to the device.
Arrives(f, p) ==
    /\ Running
    /\ now <= MaxTime /\ arrived[f] < MaxPackets[f]
    /\ arrived' = [arrived EXCEPT ![f] = @ + 1]
    /\ UNCHANGED now

\* Delay sends a packet at once if no rule matches, and the table does if
\* its flow was cancelled.
SendAtOnce(f, p) ==
    /\ Arrives(f, p)
    /\ f \in DOMAIN Rules => f \in Cancelled(table)
    /\ PassOn(p, NoDelay)
    /\ enqueued' = [enqueued EXCEPT ![f] = @ + 1]
    /\ UNCHANGED <<table, pending, nextId, dropped, discarded, fatal>>

\* The table with a flow f in it, created at need with what it draws.
Found(f) ==
    IF f \in DOMAIN table THEN {table}
    ELSE {SetFlow(table, f, NewFlow(rule)) : rule \in Rules[f]}

\* The table when it hands the packet to flow f: a large one may have been
\* pruned of the cancelled flows.
TablesFor(f) ==
    Found(f) \cup {Without(t, Cancelled(t)) :
                     t \in {u \in Found(f) :
                              Cardinality(DOMAIN u) > PruneAbove}}

\* The loss rate of the flow drops the packet.
Lose(f, p) ==
    /\ Arrives(f, p)
    /\ f \in DOMAIN Rules \ Cancelled(table)
    /\ table' \in TablesFor(f)
    /\ table'[f].rule.lossy
    /\ dropped' = [dropped EXCEPT ![f] = @ + 1]
    /\ UNCHANGED <<pending, nextId, sent, enqueued, discarded, fatal>>

\* A flow with the event of one more packet.
Queued(flow, event) ==
    [flow EXCEPT !.queue = Append(@, event), !.tail = event.due]

\* Flow f of table t schedules the packet behind those it has.
Schedule(t, f, p) ==
    LET event == [id |-> nextId, due |-> EndOf(t[f], p), packet |-> p]
    IN /\ pending' = pending \cup {event}
       /\ nextId' = nextId + 1
       /\ table' = [t EXCEPT ![f] = Queued(@, event)]

Enqueue(f, p) ==
    /\ Arrives(f, p)
    /\ f \in DOMAIN Rules \ Cancelled(table)
    /\ \E t \in TablesFor(f) : Schedule(t, f, p)
    /\ enqueued' = [enqueued EXCEPT ![f] = @ + 1]
    /\ UNCHANGED <<sent, dropped, discarded, fatal>>

\* The simulator runs events in the order of their times, and those of the
\* same time in the order in which they were scheduled.
RunsBefore(e, d) == e.due < d.due \/ (e.due = d.due /\ e.id < d.id)

IsNext(e) == e.due <= now /\ \A d \in pending \ {e} : RunsBefore(e, d)

IdsOf(queue) == {queue[i].id : i \in 1..Len(queue)}

\* Mutated: the events go on, or all but the front one.
UncancelledAll(events, queue) == events

UncancelledRest(events, queue) ==
    {e \in events : queue = <<>> \/ e.id # queue[1].id}

\* What Cancel leaves of the pending events.
Uncancelled(events, queue) == {e \in events : e.id \notin IdsOf(queue)}

\* The packet of event e leaves its flow, whose queue is then rest.
Leave(e, rest) ==
    LET f == e.packet.flow
    IN /\ PassOn(e.packet, table[f].rule)
       /\ \/ /\ ~e.packet.fin
             /\ pending' = pending \ {e}
             /\ table' = [table EXCEPT ![f].queue = rest]
             /\ UNCHANGED discarded
          \/ /\ e.packet.fin
             /\ pending' = Uncancelled(pending \ {e}, rest)
             /\ table' = [table EXCEPT ![f] = CancelFlow(@)]
             /\ discarded' = [discarded EXCEPT ![f] = @ + Len(rest)]
       /\ UNCHANGED fatal

\* The event finds its flow cancelled, or its queue empty, or no flow.
Stray(e) ==
    /\ pending' = pending \ {e}
    /\ fatal' = IF e.packet.flow \in DOMAIN table
                THEN "dequeueOnCancelled" ELSE "noFlow"
    /\ UNCHANGED <<table, sent, discarded>>

Dequeue(e) ==
    LET f  == e.packet.flow
        ok == /\ f \in DOMAIN table \ Cancelled(table)
              /\ table[f].queue # <<>>
    IN /\ Running
       /\ IsNext(e)
       /\ IF ok THEN Leave(e, Tail(table[f].queue)) ELSE Stray(e)
       /\ UNCHANGED <<now, nextId, arrived, enqueued, dropped>>

\* The clock moves on when no event is due.
Tick ==
    /\ Running
    /\ now < MaxTime \/ pending # {}
    /\ \A e \in pending : e.due > now
    /\ now' = now + 1
    /\ UNCHANGED <<table, pending, nextId, arrived, sent, enqueued, dropped,
                   discarded, fatal>>

Next ==
    \/ \E f \in Flows : \E p \in PacketsNow(f) :
          SendAtOnce(f, p) \/ Lose(f, p) \/ Enqueue(f, p)
    \/ \E e \in pending : Dequeue(e)
    \/ Tick

Spec == Init /\ [][Next]_vars

-----------------------------------------------------------------------------
(* Safety.                                                                 *)

EventsOf(f) == {e \in pending : e.packet.flow = f}

\* The queue of a flow holds exactly its pending events, in the order in
\* which they will run: popping the front pops the event that runs, and
\* Cancel misses none.  A flow that is cancelled or pruned has none left.
QueuesArePending ==
    /\ \A f \in DOMAIN table :
         LET q == table[f].queue
         IN /\ EventsOf(f) = {q[i] : i \in 1..Len(q)}
            /\ \A i, j \in 1..Len(q) : i < j => RunsBefore(q[i], q[j])
    /\ \A e \in pending : e.packet.flow \in DOMAIN table \ Cancelled(table)

\* No Dequeue runs on a cancelled flow or on one that was pruned away.
NoFatal == fatal = "none"

\* Packets of a flow leave in the order in which they came, delayed or not.
SentInOrder ==
    \A f \in Flows : \A i, j \in 1..Len(sent[f]) :
        i < j => sent[f][i].packet.n < sent[f][j].packet.n

\* A packet leaves no earlier than the delay and the link allow: nor does
\* the link carry it while it carries the one in front of it.
DelayRespected ==
    \A f \in Flows : \A i \in 1..Len(sent[f]) :
        LET d == sent[f][i]
        IN /\ d.at >= d.packet.at + d.rule.delay + Transfer(d.rule, d.packet)
           /\ i > 1 => d.at >= sent[f][i-1].at + Transfer(d.rule, d.packet)

\* Every packet traced as enqueued was sent, is waiting or was discarded
\* behind a FIN; every other one was dropped.
PacketsAccounted ==
    \A f \in Flows :
      /\ enqueued[f] = Len(sent[f]) + Cardinality(EventsOf(f)) + discarded[f]
      /\ arrived[f] = enqueued[f] + dropped[f]

\* Once the FIN of a flow has been passed on, no packet of it is delayed
\* ("any subsequent packets (including the FIN+ACK) will not be delayed").
FinEndsDelay ==
    \A f \in Flows :
      (\E i \in 1..Len(sent[f]) : sent[f][i].packet.fin)
        => EventsOf(f) = {}
=============================================================================

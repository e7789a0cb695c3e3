------------------------------ MODULE TmixPorts ------------------------------
(***************************************************************************)
(* Connection vectors on their way into the simulation: TmixHelper and its *)
(* PortAllocator in src/tmix/helper/tmix-helper.cc, and what               *)
(* Application::StartConnectionVector in src/tmix/model/tmix.cc does with  *)
(* the port, a DelayBox rule for each direction.                           *)
(*                                                                         *)
(* A helper looks after one pair of nodes; all helpers of a topology share *)
(* one DelayBox, and so one rule table.                                    *)
(*                                                                         *)
(* The acceptor has a callback that gives its port back, and calls it only *)
(* in a branch that is never taken (see TmixConnection: whatever closes a  *)
(* worker, Closed finds it closed already).  So ports are never given      *)
(* back, and the completion of a vector leaves the allocator alone.        *)
(***************************************************************************)
EXTENDS Integers, FiniteSets

CONSTANTS
    Pairs,       \* the pairs of nodes, each with a helper
    Vectors,     \* the connection vectors
    FirstPort,   \* 1024
    LastPort,    \* 65535, never assigned
    MaxAdded,    \* bound on how many vectors are added
    MaxTime      \* bound on the time

\* Half of minRTT, and the loss rate of each direction.
Vector == [start: Nat, oneWay: Nat, lossItoA: Nat, lossAtoI: Nat]

ASSUME PortsAssumption ==
    /\ FirstPort \in Nat /\ LastPort \in Nat /\ FirstPort <= LastPort
    /\ MaxAdded \in Nat /\ MaxTime \in Nat

ASSUME VectorsAssumption == Vectors \subseteq Vector

VARIABLES
    now,        \* Simulator::Now()
    lossless,   \* lossless[p]: m_ignoreLossRate
    added,      \* how many vectors were added
    scheduled,  \* the StartConnectionVector events still to run
    top,        \* top[p]: m_topPort
    available,  \* available[p]: m_availablePorts, a heap with the least first
    rules,      \* the rules in the DelayBox, a function on keys
    started,    \* history: all vectors that were started
    active,     \* those of them that are not complete
    fatal       \* the assertion that stopped the program

vars == <<now, lossless, added, scheduled, top, available, rules, started,
          active, fatal>>

Ports == FirstPort .. LastPort - 1

\* The key (src, srcPort, dst, dstPort) of a rule: the acceptor's port, with
\* any port of the initiator, and the side that is the source.
Key == [pair: Pairs, source: {"I", "A"}, port: Ports]

DelayBoxRule == [delay: Nat, loss: Nat]

Event == [id: Nat, due: Nat, pair: Pairs, vector: Vectors]

\* A vector with its loss rates as they are when it starts.
Replay == [id: Nat, pair: Pairs, port: Ports, vector: Vector]

TypeOK ==
    /\ now \in Nat
    /\ lossless \in [Pairs -> BOOLEAN]
    /\ added \in 0..MaxAdded
    /\ scheduled \subseteq Event
    /\ top \in [Pairs -> FirstPort..LastPort]
    /\ available \in [Pairs -> SUBSET Ports]
    /\ DOMAIN rules \subseteq Key
    /\ \A k \in DOMAIN rules : rules[k] \in DelayBoxRule
    /\ active \subseteq started /\ started \subseteq Replay
    /\ fatal \in {"none", "outOfPorts"}

-----------------------------------------------------------------------------
(* The port allocator.                                                     *)

Least(S) == CHOOSE n \in S : \A m \in S : n <= m

\* Mutated: one port too many, or one too few.
CanAllocateLast(p) == available[p] # {} \/ top[p] <= LastPort

CanAllocateEarly(p) == available[p] # {} \/ top[p] < LastPort - 1

CanAllocate(p) == available[p] # {} \/ top[p] # LastPort

\* A port that was given back is used again before a new one is assigned.
AllocatePort(p) ==
    IF available[p] # {} THEN Least(available[p]) ELSE top[p]

\* Mutated: a new port stays the next new one.
TakePortStaying(p) ==
    /\ available' = [available EXCEPT ![p] = @ \ {AllocatePort(p)}]
    /\ UNCHANGED top

TakePort(p) ==
    IF available[p] # {}
    THEN /\ available' = [available EXCEPT ![p] = @ \ {AllocatePort(p)}]
         /\ UNCHANGED top
    ELSE /\ top' = [top EXCEPT ![p] = @ + 1]
         /\ UNCHANGED available

-----------------------------------------------------------------------------
(* The rules of a vector.                                                  *)

\* std::map::insert: an entry that exists stays as it is.
Insert(r, k, x) ==
    IF k \in DOMAIN r THEN r
    ELSE [j \in DOMAIN r \cup {k} |-> IF j = k THEN x ELSE r[j]]

KeyFrom(side, p, port) == [pair |-> p, source |-> side, port |-> port]

RuleFrom(side, v) ==
    [delay |-> v.oneWay,
     loss  |-> IF side = "I" THEN v.lossItoA ELSE v.lossAtoI]

\* Each application adds the rule of its direction, the acceptor's first.
RulesWith(p, port, v) ==
    Insert(Insert(rules, KeyFrom("A", p, port), RuleFrom("A", v)),
           KeyFrom("I", p, port), RuleFrom("I", v))

-----------------------------------------------------------------------------
(* The events.                                                             *)

Init ==
    /\ now = 0
    /\ lossless = [p \in Pairs |-> FALSE]
    /\ added = 0
    /\ scheduled = {}
    /\ top = [p \in Pairs |-> FirstPort]
    /\ available = [p \in Pairs |-> {}]
    /\ rules = [k \in {} |-> 0]
    /\ started = {}
    /\ active = {}
    /\ fatal = "none"

Running == fatal = "none"

\* The user may change the loss mode at any time.
SetLossless(p, b) ==
    /\ Running
    /\ b # lossless[p]
    /\ lossless' = [lossless EXCEPT ![p] = b]
    /\ UNCHANGED <<now, added, scheduled, top, available, rules, started,
                   active, fatal>>

\* The start time is passed to Schedule, which counts it from now.
AddConnectionVector(p, v) ==
    /\ Running
    /\ added < MaxAdded
    /\ added' = added + 1
    /\ scheduled' = scheduled \cup
         {[id |-> added, due |-> now + v.start, pair |-> p, vector |-> v]}
    /\ UNCHANGED <<now, lossless, top, available, rules, started, active,
                   fatal>>

IsNext(e) ==
    /\ e.due = now
    /\ \A d \in scheduled : d.due > e.due \/ (d.due = e.due /\ d.id >= e.id)

\* The vector as it is replayed.
AsReplayed(p, v) ==
    IF lossless[p] THEN [v EXCEPT !.lossItoA = 0, !.lossAtoI = 0] ELSE v

StartConnectionVector(e) ==
    LET p    == e.pair
        port == AllocatePort(p)
        v    == AsReplayed(p, e.vector)
        a    == [id |-> e.id, pair |-> p, port |-> port, vector |-> v]
    IN /\ Running
       /\ e \in scheduled /\ IsNext(e)
       /\ scheduled' = scheduled \ {e}
       /\ \/ /\ CanAllocate(p)
             /\ TakePort(p)
             /\ rules' = RulesWith(p, port, v)
             /\ started' = started \cup {a}
             /\ active' = active \cup {a}
             /\ UNCHANGED fatal
          \/ /\ ~CanAllocate(p)
             /\ fatal' = "outOfPorts"
             /\ UNCHANGED <<top, available, rules, started, active>>
       /\ UNCHANGED <<now, lossless, added>>

\* Mutated: the acceptor gives its port back, while the rules stay.
CompleteReturning(a) ==
    /\ Running
    /\ active' = active \ {a}
    /\ available' = [available EXCEPT ![a.pair] = @ \cup {a.port}]
    /\ UNCHANGED <<now, lossless, added, scheduled, top, rules, started, fatal>>

\* The acceptor is closed, TmixConnection says when.  "Ports stay allocated
\* forever."
Complete(a) ==
    /\ Running
    /\ active' = active \ {a}
    /\ UNCHANGED <<now, lossless, added, scheduled, top, available, rules,
                   started, fatal>>

\* The clock moves on when no event is due.
Tick ==
    /\ Running
    /\ scheduled # {} \/ active # {}
    /\ \A e \in scheduled : e.due > now
    /\ now < MaxTime
    /\ now' = now + 1
    /\ UNCHANGED <<lossless, added, scheduled, top, available, rules, started,
                   active, fatal>>

Next ==
    \/ \E p \in Pairs : \E b \in BOOLEAN : SetLossless(p, b)
    \/ \E p \in Pairs : \E v \in Vectors : AddConnectionVector(p, v)
    \/ \E e \in scheduled : StartConnectionVector(e)
    \/ \E a \in active : Complete(a)
    \/ Tick

Spec == Init /\ [][Next]_vars

-----------------------------------------------------------------------------
(* Safety.                                                                 *)

\* No two vectors of a pair get the same port, not even one after the other:
\* this is what lets the rules of a vector stay in the DelayBox.
PortsDistinct ==
    \A a, b \in started : a.pair = b.pair /\ a.port = b.port => a = b

\* The DelayBox treats the packets of a vector with the delay and the loss
\* rates of that vector from its start on, those that are still on their way
\* when it is complete as well, and never with those of another vector.
\* AddRule does not overwrite: with a port used again this would be wrong.
RuleOfVector ==
    \A a \in started : \A side \in {"I", "A"} :
      LET k == KeyFrom(side, a.pair, a.port)
      IN  k \in DOMAIN rules /\ rules[k] = RuleFrom(side, a.vector)

StartedBy(p) == {a \in started : a.pair = p}

\* "Ran out of port numbers": a pair can start LastPort - FirstPort vectors
\* and no more, and the program stops at the next one, however few of them
\* are replayed at the same time.
ExhaustedByCount ==
    /\ \A p \in Pairs : Cardinality(StartedBy(p)) <= LastPort - FirstPort
    /\ fatal = "outOfPorts" =>
         \E p \in Pairs : Cardinality(StartedBy(p)) = LastPort - FirstPort
=============================================================================

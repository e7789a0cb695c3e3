---------------------------- MODULE DelayBoxRules ---------------------------
(***************************************************************************)
(* Which rule and which flow a packet gets: DelayBoxRuleKey and            *)
(* DelayBoxRuleTable of src/delaybox/model/delaybox.cc, TcpFlowClassifier, *)
(* and the part of DelayBox::Delay that uses them.                         *)
(*                                                                         *)
(* A rule is named by its place in the order in which rules were added.    *)
(* Delays, losses and the end of flows are the matter of DelayBox.         *)
(***************************************************************************)
EXTENDS Integers, Sequences, FiniteSets

\* An address and a port, both of them ordered; port 0 is any port.
Endpoint == [addr: Nat, port: Nat]

\* From a source to a destination: a packet, a rule, a key or a four-tuple.
Pair == [src: Endpoint, dst: Endpoint]

CONSTANTS
    Patterns,     \* what AddRule is called with
    Packets,      \* the packets that come
    MaxRules,     \* bound on the rules that are added
    MaxPackets    \* bound on the packets that are classified

ASSUME RulesAssumption ==
    /\ Patterns \subseteq Pair
    /\ Packets \subseteq {x \in Pair : x.src.port # 0 /\ x.dst.port # 0}
    /\ MaxRules \in Nat /\ MaxPackets \in Nat

VARIABLES
    symmetric,  \* m_symmetric
    given,      \* history: the rules added, and the mode at the time
    rules,      \* m_ruleTable, a function from keys to rules
    flowIds,    \* flowIds[m]: the classifier of mode m, from tuples to ids
    table,      \* m_flowTable, from flow ids to the rule of the flow
    carried     \* history: the packets, the mode at the time, and their flows

vars == <<symmetric, given, rules, flowIds, table, carried>>

NoFlow == 0

Given   == [pattern: Patterns, symmetric: BOOLEAN]
Carried == [packet: Packets, symmetric: BOOLEAN, flow: Nat]

TypeOK ==
    /\ symmetric \in BOOLEAN
    /\ given \in Seq(Given)
    /\ DOMAIN rules \subseteq Pair
    /\ \A k \in DOMAIN rules : rules[k] \in 1..Len(given)
    /\ DOMAIN flowIds = BOOLEAN
    /\ \A m \in BOOLEAN :
         /\ DOMAIN flowIds[m] \subseteq Pair
         /\ \A x \in DOMAIN flowIds[m] : flowIds[m][x] \in Nat \ {NoFlow}
    /\ DOMAIN table \subseteq Nat \ {NoFlow}
    /\ \A f \in DOMAIN table : table[f] \in 1..Len(given)
    /\ carried \in Seq(Carried)

-----------------------------------------------------------------------------
(* Keys.                                                                   *)

Less(e, f) == e.addr < f.addr \/ (e.addr = f.addr /\ e.port < f.port)

Reverse(x) == [src |-> x.dst, dst |-> x.src]

\* One order for both directions of a conversation.
Canonical(x) == IF Less(x.dst, x.src) THEN Reverse(x) ELSE x

KeyOf(x, sym) == IF sym THEN Canonical(x) ELSE x

Insert(f, k, x) ==
    IF k \in DOMAIN f THEN f
    ELSE [j \in DOMAIN f \cup {k} |-> IF j = k THEN x ELSE f[j]]

-----------------------------------------------------------------------------
(* The lookup of a rule.                                                   *)

AnySource(x)      == [x EXCEPT !.src.port = 0]
AnyDestination(x) == [x EXCEPT !.dst.port = 0]

\* Mutated: a rule for any source port is preferred to an exact one.
TriesAnyFirst(x) ==
    <<AnySource(x), x, AnyDestination(x), AnySource(AnyDestination(x))>>

\* Mutated: no rule for any destination port alone.
TriesOneWildcard(x) ==
    <<x, AnySource(x), AnySource(x), AnySource(AnyDestination(x))>>

\* The four combinations, most specific first.
Tries(x) ==
    <<x, AnySource(x), AnyDestination(x), AnySource(AnyDestination(x))>>

Hits(x, sym) == {i \in 1..4 : KeyOf(Tries(x)[i], sym) \in DOMAIN rules}

Found(x, sym) == Hits(x, sym) # {}

\* The rule of the first key that is found.
Lookup(x, sym) ==
    LET first == CHOOSE i \in Hits(x, sym) : \A j \in Hits(x, sym) : i <= j
    IN rules[KeyOf(Tries(x)[first], sym)]

-----------------------------------------------------------------------------
(* The classifiers.                                                        *)

\* Mutated: the two directions of a conversation keep their own order.
FlowTupleOneWay(x, sym) == x

\* In symmetric mode TcpFlowClassifier sorts the two ends, otherwise
\* Ipv4FlowClassifier takes them as they are.
FlowTuple(x, sym) == KeyOf(x, sym)

\* Mutated: the last id is given again.
NewFlowIdAgain(ids) == IF DOMAIN ids = {} THEN 1 ELSE Cardinality(DOMAIN ids)

NewFlowId(ids) == Cardinality(DOMAIN ids) + 1

\* The ids once packet x was classified, and its id among them.
Classified(x) ==
    Insert(flowIds[symmetric], FlowTuple(x, symmetric),
           NewFlowId(flowIds[symmetric]))

FlowIdOf(x) == Classified(x)[FlowTuple(x, symmetric)]

-----------------------------------------------------------------------------
(* The operations.                                                         *)

Init ==
    /\ symmetric = TRUE
    /\ given = <<>>
    /\ rules = [k \in {} |-> 0]
    /\ flowIds = [m \in BOOLEAN |-> [x \in {} |-> 0]]
    /\ table = [f \in {} |-> 0]
    /\ carried = <<>>

\* At any time, whatever there is already.
SetSymmetric(b) ==
    /\ symmetric' = b
    /\ UNCHANGED <<given, rules, flowIds, table, carried>>

\* The key is made in the mode at the time.  A rule whose key is there
\* already is not added.
AddRule(x) ==
    /\ Len(given) < MaxRules
    /\ given' = Append(given, [pattern |-> x, symmetric |-> symmetric])
    /\ rules' = Insert(rules, KeyOf(x, symmetric), Len(given) + 1)
    /\ UNCHANGED <<symmetric, flowIds, table, carried>>

CarriedIn(x, flow) == [packet |-> x, symmetric |-> symmetric, flow |-> flow]

\* Delay: classify, look the rule up, and find or create the flow.  Without
\* a rule the packet is in no flow, but its flow id is taken.
Delay(x) ==
    LET id == FlowIdOf(x)
    IN /\ Len(carried) < MaxPackets
       /\ flowIds' = [flowIds EXCEPT ![symmetric] = Classified(x)]
       /\ \/ /\ Found(x, symmetric)
             /\ table' = Insert(table, id, Lookup(x, symmetric))
             /\ carried' = Append(carried, CarriedIn(x, id))
          \/ /\ ~Found(x, symmetric)
             /\ carried' = Append(carried, CarriedIn(x, NoFlow))
             /\ UNCHANGED table
       /\ UNCHANGED <<symmetric, given, rules>>

Next ==
    \/ \E b \in BOOLEAN : SetSymmetric(b)
    \/ \E x \in Patterns : AddRule(x)
    \/ \E x \in Packets : Delay(x)

Spec == Init /\ [][Next]_vars

-----------------------------------------------------------------------------
(* Safety.                                                                 *)

Fits(pattern, x) ==
    /\ pattern.src.addr = x.src.addr /\ pattern.dst.addr = x.dst.addr
    /\ pattern.src.port \in {0, x.src.port}
    /\ pattern.dst.port \in {0, x.dst.port}

\* From the lower of its ends to the higher one.
Upward(pattern) == ~Less(pattern.dst, pattern.src)

\* Whether rule r speaks of packet x in mode sym.  In the mode it was added
\* in: of the direction it was given for, in symmetric mode of both.  Added
\* in symmetric mode and looked up in the other: of the upward direction
\* only, whichever it was given for.  Added in non-symmetric mode and looked
\* up in the other: of both if it was given upward, otherwise of none.
Covers(r, x, sym) ==
    LET p   == given[r].pattern
        was == given[r].symmetric
    IN \/ was = sym /\ Fits(p, x)
       \/ was /\ sym /\ Fits(Reverse(p), x)
       \/ was /\ ~sym /\ Upward(p) /\ Fits(p, x)
       \/ was /\ ~sym /\ Upward(Reverse(p)) /\ Fits(Reverse(p), x)
       \/ ~was /\ sym /\ Upward(p) /\ Fits(p, x)
       \/ ~was /\ sym /\ Upward(p) /\ Fits(Reverse(p), x)

FixedPorts(r) ==
    Cardinality({e \in {"src", "dst"} : given[r].pattern[e].port # 0})

KeyGiven(r) == KeyOf(given[r].pattern, given[r].symmetric)

\* The lookup finds a rule exactly if one was added that covers the packet,
\* whatever the modes were, and takes one that fixes as many ports as any;
\* of two with the same key, the first.
LookupIsBestMatch ==
    \A x \in Packets :
      LET best     == Lookup(x, symmetric)
          covering == {r \in 1..Len(given) : Covers(r, x, symmetric)}
      IN /\ Found(x, symmetric) <=> covering # {}
         /\ Found(x, symmetric) =>
              /\ best \in covering
              /\ \A r \in covering :
                   /\ FixedPorts(r) <= FixedPorts(best)
                   /\ KeyGiven(r) = KeyGiven(best) => best <= r

SameConversation(x, y, sym) == x = y \/ (sym /\ x = Reverse(y))

\* Two packets that came in one mode have the same flow exactly if they
\* belong to the same conversation, and in non-symmetric mode go the same
\* way.  Changes of the mode in between do not matter.
FlowsAreConversations ==
    \A i, j \in 1..Len(carried) :
      LET x == carried[i]
          y == carried[j]
      IN x.flow # NoFlow /\ y.flow # NoFlow /\ x.symmetric = y.symmetric =>
           (x.flow = y.flow
              <=> SameConversation(x.packet, y.packet, x.symmetric))

\* Once a packet of a conversation is in a flow, all later ones that come in
\* the same mode are: none of either direction, with its own order of the
\* four lookups, gets past the packets that are delayed.
FlowsGoOn ==
    \A i, j \in 1..Len(carried) :
      LET x == carried[i]
          y == carried[j]
      IN /\ i < j /\ x.flow # NoFlow /\ x.symmetric = y.symmetric
         /\ SameConversation(x.packet, y.packet, x.symmetric)
         => y.flow # NoFlow

\* A packet is treated by a rule that covers it, although the flow keeps the
\* rule of the packet that created it.  The ids of the two classifiers
\* overlap: of a flow with packets of both modes this says nothing, as it
\* would be wrong (delaybox.h warns of switching modes between packets).
PacketsUnderTheirRule ==
    \A i \in 1..Len(carried) :
      LET x == carried[i]
      IN x.flow # NoFlow =>
           /\ x.flow \in DOMAIN table
           /\ (\A j \in 1..Len(carried) :
                 carried[j].flow = x.flow => carried[j].symmetric = x.symmetric)
              => Covers(table[x.flow], x.packet, x.symmetric)
=============================================================================

------------------------------ MODULE TmixTrace ------------------------------
(***************************************************************************)
(* The nodes of a TmixTopology (src/tmix/model/tmix-topology.cc), the way  *)
(* of a packet through them, and the ns-2 style trace of it that           *)
(* Ns2StyleTraceHelper writes (src/tmix/helper).                           *)
(*                                                                         *)
(* A device is named by where it is and where its channel leads.  Install  *)
(* connects hooks to trace sources of devices; a hook that runs prints a   *)
(* line if the packet is the one between its two addresses.  All packets   *)
(* pass the two devices of the center channel, so the hooks of all pairs   *)
(* are there.  How long a queue, a channel or the DelayBox keeps a packet  *)
(* does not matter here: each goes on in its own time.                     *)
(***************************************************************************)
EXTENDS Integers, Sequences, SequencesExt

CONSTANTS
    MaxPairs,   \* bound on the pairs of each side
    MaxPackets  \* bound on the packets

ASSUME TraceAssumption == MaxPairs \in Nat /\ MaxPackets \in Nat

VARIABLES
    pairs,      \* pairs[side]: size of m_leftPairs and of m_rightPairs
    installed,  \* whether the traces were installed
    hooked,     \* for how many pairs of each side it connected callbacks
    packets     \* the packets so far, each with the lines printed for it

vars == <<pairs, installed, hooked, packets>>

NodeTypes   == {"LI", "LA", "RI", "RA"}
RouterTypes == {"LR", "RR"}

\* A node by its type and its place in m_leftPairs or m_rightPairs.
Node   == [type: NodeTypes, pair: 1..MaxPairs]
Router == [type: RouterTypes, pair: {0}]

Place  == Node \cup Router
Device == Place \X Place

\* The side whose list a node is in: that of its pair's initiator.
ListOf(type) == IF type \in {"LI", "RA"} THEN "left" ELSE "right"

PeerType(type) ==
    CASE type = "LI" -> "RA" [] type = "RA" -> "LI"
      [] type = "RI" -> "LA" [] type = "LA" -> "RI"

\* The router that a node is connected to.
RouterOf(type) == IF type \in {"LI", "LA"} THEN "LR" ELSE "RR"

OtherRouter(router) == IF router = "LR" THEN "RR" ELSE "LR"

At(type, k) == [type |-> type, pair |-> IF type \in RouterTypes THEN 0 ELSE k]

\* The nodes there are.
Nodes == {n \in Node : n.pair <= pairs[ListOf(n.type)]}

Line == [event: {"+", "-", "r"}, llsrc: NodeTypes \cup RouterTypes,
         lldst: NodeTypes \cup RouterTypes, src: NodeTypes, dst: NodeTypes,
         uniqid: Nat]

Hook == [device: Device, trace: {"MacTx", "PhyTxBegin", "PhyRxEnd"},
         src: Node, dst: Node, line: Line]

\* A packet, the trace events of its way so far, its lines, whether it was
\* dropped, and whether it set out when the traces had been installed.
Packet == [src: Node, dst: Node, step: 0..9, lines: Seq(Line),
           dropped: BOOLEAN, traced: BOOLEAN]

TypeOK ==
    /\ pairs \in [{"left", "right"} -> 0..MaxPairs]
    /\ installed \in BOOLEAN
    /\ hooked \in 0..pairs["left"]
    /\ packets \in Seq(Packet)

-----------------------------------------------------------------------------
(* The way of a packet.                                                    *)

\* The places a packet from n passes.
Path(n) ==
    LET router == RouterOf(n.type)
    IN <<n, At(router, 0), At(OtherRouter(router), 0),
         At(PeerType(n.type), n.pair)>>

\* Where each hop fires its three trace sources: twice where it starts, and
\* where it ends.
Sources(from, to) ==
    <<[device |-> <<from, to>>, trace |-> "MacTx"],
      [device |-> <<from, to>>, trace |-> "PhyTxBegin"],
      [device |-> <<to, from>>, trace |-> "PhyRxEnd"]>>

\* The nine trace events of the way.
Way(n) == LET p == Path(n)
          IN Sources(p[1], p[2]) \o Sources(p[2], p[3]) \o Sources(p[3], p[4])

-----------------------------------------------------------------------------
(* The hooks.                                                              *)

\* The device of a node, of a router the one to the other router.
GetDevice(type, k) ==
    IF type \in RouterTypes THEN <<At(type, 0), At(OtherRouter(type), 0)>>
    ELSE <<At(type, k), At(RouterOf(type), 0)>>

\* The device of a router to the node.
GetRouterDevice(type, k) == <<At(RouterOf(type), 0), At(type, k)>>

\* Mutated: the counter is not written into the lines.
UniqidForgotten(k) == 0

\* m_uniqid counts the pairs of pairs from zero.
Uniqid(k) == k - 1

\* Mutated: the dequeue line hangs on the trace source of the enqueue.
LinkHooksTwiceMacTx(out, in, llsrc, lldst, start, end, k) ==
    LET hook(device, trace, event) ==
          [device |-> device, trace |-> trace,
           src |-> At(start, k), dst |-> At(end, k),
           line |-> [event |-> event, llsrc |-> llsrc, lldst |-> lldst,
                     src |-> start, dst |-> end, uniqid |-> Uniqid(k)]]
    IN {hook(out, "MacTx", "+"), hook(out, "MacTx", "-"),
        hook(in, "PhyRxEnd", "r")}

\* The hooks of one link, from its device out to its device in, for the
\* packets from start to end of the k-th pairs.
LinkHooks(out, in, llsrc, lldst, start, end, k) ==
    LET hook(device, trace, event) ==
          [device |-> device, trace |-> trace,
           src |-> At(start, k), dst |-> At(end, k),
           line |-> [event |-> event, llsrc |-> llsrc, lldst |-> lldst,
                     src |-> start, dst |-> end, uniqid |-> Uniqid(k)]]
    IN {hook(out, "MacTx", "+"), hook(out, "PhyTxBegin", "-"),
        hook(in, "PhyRxEnd", "r")}

\* Mutated: exchanged by the side of the start, not of the initiator.
MiddleDevicesBySide(start, router1, router2) ==
    IF start \in {"LI", "LA"} THEN <<router1, router2>>
    ELSE <<router2, router1>>

\* The routers whose devices get the hooks of the center channel, sender
\* and receiver: exchanged for the pairs with the initiator on the right.
MiddleDevices(start, router1, router2) ==
    IF start \in {"LI", "RA"} THEN <<router1, router2>>
    ELSE <<router2, router1>>

\* Mutated: the last link is traced like the first one, seen from the node.
RouteHooksReversed(start, router1, router2, end, k) ==
    LinkHooks(GetDevice(start, k), GetRouterDevice(start, k),
              start, router1, start, end, k)
    \cup LinkHooks(GetDevice(end, k), GetRouterDevice(end, k),
                   router2, end, start, end, k)

\* Install with four node types.
RouteHooks(start, router1, router2, end, k) ==
    LET middle == MiddleDevices(start, router1, router2)
    IN LinkHooks(GetDevice(start, k), GetRouterDevice(start, k),
                 start, router1, start, end, k)
       \cup LinkHooks(GetDevice(middle[1], k), GetDevice(middle[2], k),
                      router1, router2, start, end, k)
       \cup LinkHooks(GetRouterDevice(end, k), GetDevice(end, k),
                      router2, end, start, end, k)

\* The hooks for the k-th pair of either list.
PairHooks(k) ==
    RouteHooks("LI", "LR", "RR", "RA", k)
    \cup RouteHooks("RA", "RR", "LR", "LI", k)
    \cup RouteHooks("RI", "RR", "LR", "LA", k)
    \cup RouteHooks("LA", "LR", "RR", "RI", k)

HooksOf == [k \in 1..MaxPairs |-> PairHooks(k)]

\* The hooks that are connected to a trace source.
HooksAt(source) ==
    {h \in UNION {HooksOf[k] : k \in 1..hooked} :
        h.device = source.device /\ h.trace = source.trace}

Larger(a, b) == IF a > b THEN a ELSE b

\* Mutated: one pair too many, <= for < in the second loop.
EqualPairsTooMany(p) ==
    LET n == Larger(p["left"], p["right"])
    IN [p EXCEPT !["left"] = n, !["right"] = n + 1]

\* As many pairs on either side.
EqualPairs(p) == [side \in DOMAIN p |-> Larger(p["left"], p["right"])]

-----------------------------------------------------------------------------
(* The operations.                                                         *)

Init ==
    /\ pairs = [side \in {"left", "right"} |-> 0]
    /\ installed = FALSE
    /\ hooked = 0
    /\ packets = <<>>

NewPair(side) ==
    /\ pairs[side] < MaxPairs
    /\ pairs' = [pairs EXCEPT ![side] = @ + 1]
    /\ UNCHANGED <<installed, hooked, packets>>

\* "call Install() only once"
Install ==
    /\ ~installed
    /\ installed' = TRUE
    /\ pairs' = EqualPairs(pairs)
    /\ hooked' = EqualPairs(pairs)["left"]
    /\ UNCHANGED packets

\* Node n hands a packet for its peer to its device; the packets of a
\* pair that was made after Install are not traced.
Send(n) ==
    /\ Len(packets) < MaxPackets
    /\ packets' = Append(packets,
         [src |-> n, dst |-> At(PeerType(n.type), n.pair), step |-> 0,
          lines |-> <<>>, dropped |-> FALSE,
          traced |-> n.pair <= hooked])
    /\ UNCHANGED <<pairs, installed, hooked>>

\* The lines that the hooks of a trace source print for packet p.
OutputTrace(p, source) ==
    SetToSeq({h.line : h \in {g \in HooksAt(source) :
                                g.src = p.src /\ g.dst = p.dst}})

\* The next trace source on the way of packet i fires.
Move(i) ==
    LET p == packets[i]
    IN /\ ~p.dropped /\ p.step < 9
       /\ packets' = [packets EXCEPT
            ![i].step  = @ + 1,
            ![i].lines = @ \o OutputTrace(p, Way(p.src)[p.step + 1])]
       /\ UNCHANGED <<pairs, installed, hooked>>

\* A full queue drops the packet behind MacTx, the DelayBox between the
\* first router's receipt and its MacTx.  No hook is connected to either.
Drop(i) ==
    /\ ~packets[i].dropped /\ packets[i].step \in {1, 3, 4, 7}
    /\ packets' = [packets EXCEPT ![i].dropped = TRUE]
    /\ UNCHANGED <<pairs, installed, hooked>>

Next ==
    \/ \E side \in {"left", "right"} : NewPair(side)
    \/ Install
    \/ \E n \in Nodes : Send(n)
    \/ \E i \in 1..Len(packets) : Move(i) \/ Drop(i)

Spec == Init /\ [][Next]_vars

-----------------------------------------------------------------------------
(* Safety.                                                                 *)

\* The line that the i-th event on the way of packet p should give.
LineOf(p, i) ==
    LET hop == ((i - 1) \div 3) + 1
    IN [event  |-> <<"+", "-", "r">>[((i - 1) % 3) + 1],
        llsrc  |-> Path(p.src)[hop].type,
        lldst  |-> Path(p.src)[hop + 1].type,
        src    |-> p.src.type,
        dst    |-> p.dst.type,
        uniqid |-> Uniqid(p.src.pair)]

Events(p) == [i \in 1..p.step |-> LineOf(p, i)]

TracedPackets == {i \in 1..Len(packets) : packets[i].traced}

\* Every line of the trace tells of an event that happened to the packet, of
\* a later one than the line before it: no event gives two.
NoFalseLine ==
    \A i \in 1..Len(packets) :
        LET lines  == packets[i].lines
            events == Events(packets[i])
        IN \A a \in 1..Len(lines) :
             \E e \in 1..packets[i].step :
               /\ lines[a] = events[e]
               /\ a > 1 => \E d \in 1..e - 1 : lines[a - 1] = events[d]

\* All that happens to a packet of a pair with the initiator on the left
\* is in the trace, and on the first and the last link of every pair.
LeftPairsTraced ==
    \A i \in TracedPackets :
        ListOf(packets[i].src.type) = "left" =>
            packets[i].lines = Events(packets[i])

EndLinksTraced ==
    \A i \in TracedPackets :
      LET p == packets[i]
          printed == Range(p.lines)
      IN \A e \in (1..p.step) \ (4..6) : LineOf(p, e) \in printed

\* The lines of two pairs differ in the columns of source or destination:
\* nodes of the same type have the same id, and ports may be the same.
LinesIdentifyPair ==
    \A i, j \in 1..Len(packets) :
      \A l \in Range(packets[i].lines), m \in Range(packets[j].lines) :
        (l.src = m.src /\ l.dst = m.dst /\ l.uniqid = m.uniqid)
          => packets[i].src = packets[j].src /\ packets[i].dst = packets[j].dst

\* "Installs the traces on all node pairs in the topology."
AllPairsTraced ==
    \A i \in TracedPackets : packets[i].lines = Events(packets[i])
=============================================================================

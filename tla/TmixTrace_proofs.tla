--------------------------- MODULE TmixTrace_proofs ---------------------------
(***************************************************************************)
(* What Ns2StyleTraceHelper prints, for any number of pairs and packets.   *)
(* Of all hooks on all devices at most one prints a line for an event on   *)
(* the way of a packet, and that line tells of this event; it is missing   *)
(* only on the center channel for pairs with the initiator on the right.   *)
(***************************************************************************)
EXTENDS TmixTrace, FiniteSetTheorems, SequenceTheorems, TLAPS

-----------------------------------------------------------------------------
(* At most one line is printed at a time.                                  *)

LEMMA NoElements == SetToSeq({}) = <<>>
  <1>1. Cardinality({}) = 0
    BY FS_EmptySet
  <1>2. ASSUME NEW f \in [1..0 -> {}]
        PROVE  f = <<>>
    <2>1. f \in Seq({}) /\ Len(f) = 0
      OBVIOUS
    <2>. QED
      BY <2>1, EmptySeq
  <1>3. <<>> \in [1..0 -> {}] /\ IsInjective(<<>>)
    BY DEF IsInjective
  <1>. QED
    BY <1>1, <1>2, <1>3 DEF SetToSeq

LEMMA OneElement ==
    ASSUME NEW l
    PROVE  SetToSeq({l}) = <<l>>
  <1>1. Cardinality({l}) = 1
    BY FS_Singleton
  <1>2. 1..1 = {1}
    OBVIOUS
  <1>3. \A f : f \in [{1} -> {l}] <=> f = <<l>>
    OBVIOUS
  <1>4. IsInjective(<<l>>)
    BY DEF IsInjective
  <1>. QED
    BY <1>1, <1>2, <1>3, <1>4 DEF SetToSeq

-----------------------------------------------------------------------------
(* The hooks of a link and the events on it.                               *)

EventOf(j) == <<"+", "-", "r">>[j]

\* The hooks on the link from a to b that the j-th event of a hop from c to
\* d runs: one of them if it is the same link, else none.
LEMMA LinkMatch ==
    ASSUME NEW a, NEW b, NEW c, NEW d, a # b,
           NEW x, NEW y, NEW start, NEW end, NEW k, NEW j \in 1..3, NEW h
    PROVE  /\ h \in LinkHooks(<<a, b>>, <<b, a>>, x, y, start, end, k)
           /\ h.device = Sources(c, d)[j].device
           /\ h.trace = Sources(c, d)[j].trace
           <=>
           /\ c = a /\ d = b
           /\ h = [device |-> Sources(a, b)[j].device,
                   trace |-> Sources(a, b)[j].trace,
                   src |-> At(start, k), dst |-> At(end, k),
                   line |-> [event |-> EventOf(j), llsrc |-> x, lldst |-> y,
                             src |-> start, dst |-> end,
                             uniqid |-> Uniqid(k)]]
  <1>1. CASE j = 1
    BY <1>1 DEF LinkHooks, Sources, EventOf
  <1>2. CASE j = 2
    BY <1>2 DEF LinkHooks, Sources, EventOf
  <1>3. CASE j = 3
    BY <1>3 DEF LinkHooks, Sources, EventOf
  <1>. QED
    BY <1>1, <1>2, <1>3

\* The i-th event on the way of a packet from n is the j-th one of the q-th
\* hop, and has this line.
IsEvent(n, i, q, j) ==
    /\ Way(n)[i] = Sources(Path(n)[q], Path(n)[q + 1])[j]
    /\ q = 2 <=> i \in 4..6
    /\ \A p : LineOf(p, i) =
         [event |-> EventOf(j),
          llsrc |-> Path(p.src)[q].type, lldst |-> Path(p.src)[q + 1].type,
          src |-> p.src.type, dst |-> p.dst.type,
          uniqid |-> Uniqid(p.src.pair)]

LEMMA WayEvents ==
    ASSUME NEW n, NEW i \in 1..9
    PROVE  \E q \in 1..3, j \in 1..3 : IsEvent(n, i, q, j)
  <1>1. CASE i = 1
    <2>1. IsEvent(n, i, 1, 1)
      BY <1>1 DEF IsEvent, Way, Sources, LineOf, EventOf
    <2>. QED
      BY <2>1
  <1>2. CASE i = 2
    <2>1. IsEvent(n, i, 1, 2)
      BY <1>2 DEF IsEvent, Way, Sources, LineOf, EventOf
    <2>. QED
      BY <2>1
  <1>3. CASE i = 3
    <2>1. IsEvent(n, i, 1, 3)
      BY <1>3 DEF IsEvent, Way, Sources, LineOf, EventOf
    <2>. QED
      BY <2>1
  <1>4. CASE i = 4
    <2>1. IsEvent(n, i, 2, 1)
      BY <1>4 DEF IsEvent, Way, Sources, LineOf, EventOf
    <2>. QED
      BY <2>1
  <1>5. CASE i = 5
    <2>1. IsEvent(n, i, 2, 2)
      BY <1>5 DEF IsEvent, Way, Sources, LineOf, EventOf
    <2>. QED
      BY <2>1
  <1>6. CASE i = 6
    <2>1. IsEvent(n, i, 2, 3)
      BY <1>6 DEF IsEvent, Way, Sources, LineOf, EventOf
    <2>. QED
      BY <2>1
  <1>7. CASE i = 7
    <2>1. IsEvent(n, i, 3, 1)
      BY <1>7 DEF IsEvent, Way, Sources, LineOf, EventOf
    <2>. QED
      BY <2>1
  <1>8. CASE i = 8
    <2>1. IsEvent(n, i, 3, 2)
      BY <1>8 DEF IsEvent, Way, Sources, LineOf, EventOf
    <2>. QED
      BY <2>1
  <1>9. CASE i = 9
    <2>1. IsEvent(n, i, 3, 3)
      BY <1>9 DEF IsEvent, Way, Sources, LineOf, EventOf
    <2>. QED
      BY <2>1
  <1>. QED
    BY <1>1, <1>2, <1>3, <1>4, <1>5, <1>6, <1>7, <1>8, <1>9

-----------------------------------------------------------------------------
(* Nodes and routes.                                                       *)

\* The packets between a node and its peer.
Addressed(p) == p.dst = At(PeerType(p.src.type), p.src.pair)

LEMMA NodeFacts ==
    ASSUME NEW n \in Node
    PROVE  LET r1 == RouterOf(n.type)
               r2 == OtherRouter(r1)
               m  == At(PeerType(n.type), n.pair)
           IN /\ At(n.type, n.pair) = n
              /\ m \in Node /\ m # n
              /\ m.type = PeerType(n.type) /\ m.pair = n.pair
              /\ PeerType(n.type) \in NodeTypes
              /\ RouterOf(m.type) = r2
              /\ r1 \in RouterTypes /\ r2 \in RouterTypes /\ r1 # r2
              /\ OtherRouter(r2) = r1
              /\ At(r1, 0).type = r1 /\ At(r2, 0).type = r2
              /\ At(r1, 0) # At(r2, 0)
              /\ At(r1, 0) \notin {n, m} /\ At(r2, 0) \notin {n, m}
  <1>. QED
    BY DEF Node, NodeTypes, RouterTypes, At, PeerType, RouterOf, OtherRouter

\* The links on whose devices the hooks for the packets from n are.
LEMMA RouteOf ==
    ASSUME NEW n \in Node
    PROVE  LET start == n.type
               k   == n.pair
               r1  == RouterOf(start)
               r2  == OtherRouter(r1)
               end == PeerType(start)
               a   == n
               b   == At(r1, 0)
               c   == At(r2, 0)
               d   == At(end, k)
               mid == IF ListOf(start) = "left" THEN <<b, c>> ELSE <<c, b>>
           IN RouteHooks(start, r1, r2, end, k)
              = LinkHooks(<<a, b>>, <<b, a>>, start, r1, start, end, k)
                \cup LinkHooks(mid, <<mid[2], mid[1]>>, r1, r2, start, end, k)
                \cup LinkHooks(<<c, d>>, <<d, c>>, r2, end, start, end, k)
  <1>. QED
    BY NodeFacts DEF RouteHooks, MiddleDevices, GetDevice, GetRouterDevice,
       ListOf, At, Node, NodeTypes, RouterTypes, PeerType, RouterOf, OtherRouter

LEMMA RouteEnds ==
    ASSUME NEW start, NEW r1, NEW r2, NEW end, NEW k,
           NEW h \in RouteHooks(start, r1, r2, end, k)
    PROVE  h.src = At(start, k) /\ h.dst = At(end, k)
  <1>1. ASSUME NEW out, NEW in, NEW x, NEW y,
               h \in LinkHooks(out, in, x, y, start, end, k)
        PROVE  h.src = At(start, k) /\ h.dst = At(end, k)
    BY <1>1 DEF LinkHooks
  <1>. QED
    BY <1>1 DEF RouteHooks

\* The hooks for the packets from n are those of its route.
LEMMA HooksFor ==
    ASSUME hooked \in 0..MaxPairs, NEW n \in Node, NEW h
    PROVE  LET m == At(PeerType(n.type), n.pair)
               r1 == RouterOf(n.type)
           IN /\ h \in UNION {HooksOf[k] : k \in 1..hooked}
              /\ h.src = n /\ h.dst = m
              <=>
              /\ n.pair <= hooked
              /\ h \in RouteHooks(n.type, r1, OtherRouter(r1),
                                  PeerType(n.type), n.pair)
  <1>. DEFINE m == At(PeerType(n.type), n.pair)
              r1 == RouterOf(n.type)
              Route == RouteHooks(n.type, r1, OtherRouter(r1),
                                  PeerType(n.type), n.pair)
  <1>0. /\ n.type \in NodeTypes /\ n.pair \in 1..MaxPairs
        /\ At(n.type, n.pair) = n
    BY NodeFacts DEF Node
  <1>1. ASSUME NEW k \in 1..hooked
        PROVE  HooksOf[k] = PairHooks(k)
    BY TraceAssumption DEF HooksOf
  <1>2. ASSUME NEW k \in 1..hooked, h \in PairHooks(k), h.src = n
        PROVE  n.pair = k /\ h \in Route
    <2>1. ASSUME NEW start \in NodeTypes, At(start, k) = n
          PROVE  start = n.type /\ k = n.pair
      BY <2>1 DEF At, NodeTypes, RouterTypes
    <2>2. CASE h \in RouteHooks("LI", "LR", "RR", "RA", k)
      BY <1>2, <2>1, <2>2, RouteEnds
         DEF RouterOf, OtherRouter, PeerType, NodeTypes
    <2>3. CASE h \in RouteHooks("RA", "RR", "LR", "LI", k)
      BY <1>2, <2>1, <2>3, RouteEnds
         DEF RouterOf, OtherRouter, PeerType, NodeTypes
    <2>4. CASE h \in RouteHooks("RI", "RR", "LR", "LA", k)
      BY <1>2, <2>1, <2>4, RouteEnds
         DEF RouterOf, OtherRouter, PeerType, NodeTypes
    <2>5. CASE h \in RouteHooks("LA", "LR", "RR", "RI", k)
      BY <1>2, <2>1, <2>5, RouteEnds
         DEF RouterOf, OtherRouter, PeerType, NodeTypes
    <2>. QED
      BY <1>2, <2>2, <2>3, <2>4, <2>5 DEF PairHooks
  <1>3. Route \subseteq PairHooks(n.pair)
    BY <1>0 DEF PairHooks, NodeTypes, RouterOf, OtherRouter, PeerType
  <1>4. ASSUME h \in UNION {HooksOf[k] : k \in 1..hooked}, h.src = n
        PROVE  n.pair <= hooked /\ h \in Route
    <2>1. PICK k \in 1..hooked : h \in PairHooks(k)
      BY <1>1, <1>4
    <2>. QED
      BY <1>2, <1>4, <2>1
  <1>5. ASSUME n.pair <= hooked, h \in Route
        PROVE  /\ h \in UNION {HooksOf[k] : k \in 1..hooked}
               /\ h.src = n /\ h.dst = m
    <2>1. n.pair \in 1..hooked
      BY <1>0, <1>5
    <2>2. h \in HooksOf[n.pair]
      BY <1>1, <1>3, <1>5, <2>1
    <2>3. h.src = n /\ h.dst = m
      BY <1>0, <1>5, RouteEnds
    <2>. QED
      BY <2>1, <2>2, <2>3
  <1>. QED
    BY <1>4, <1>5

-----------------------------------------------------------------------------
(* What is printed for an event.                                           *)

\* Whether the hooks for the i-th event of packet p are where it passes.
Hooked(p, i) ==
    /\ p.src.pair <= hooked
    /\ ListOf(p.src.type) = "left" \/ i \notin 4..6

LEMMA EventLines ==
    ASSUME hooked \in 0..MaxPairs,
           NEW p, p.src \in Node, Addressed(p), NEW i \in 1..9
    PROVE  OutputTrace(p, Way(p.src)[i])
             = IF Hooked(p, i) THEN <<LineOf(p, i)>> ELSE <<>>
  <1>. DEFINE start == p.src.type
              k   == p.src.pair
              r1  == RouterOf(start)
              r2  == OtherRouter(r1)
              end == PeerType(start)
              a   == p.src
              b   == At(r1, 0)
              c   == At(r2, 0)
              d   == At(end, k)
              left == ListOf(start) = "left"
              FirstLink == LinkHooks(<<a, b>>, <<b, a>>, start, r1, start, end, k)
              CenterLink == IF left
                        THEN LinkHooks(<<b, c>>, <<c, b>>, r1, r2, start, end, k)
                        ELSE LinkHooks(<<c, b>>, <<b, c>>, r1, r2, start, end, k)
              LastLink == LinkHooks(<<c, d>>, <<d, c>>, r2, end, start, end, k)
              source == Way(p.src)[i]
              Runs(h) == /\ h \in HooksAt(source)
                         /\ h.src = p.src /\ h.dst = p.dst
  <1>1. PICK q \in 1..3, j \in 1..3 : IsEvent(p.src, i, q, j)
    BY WayEvents
  <1>. DEFINE On(h, u, v) == /\ h.device = Sources(u, v)[j].device
                             /\ h.trace = Sources(u, v)[j].trace
              HookOf(u, v, x, y) ==
                [device |-> Sources(u, v)[j].device,
                 trace |-> Sources(u, v)[j].trace,
                 src |-> At(start, k), dst |-> At(end, k),
                 line |-> [event |-> EventOf(j), llsrc |-> x, lldst |-> y,
                           src |-> start, dst |-> end, uniqid |-> Uniqid(k)]]
  <1>2. /\ a # b /\ a # c /\ a # d /\ b # c /\ b # d /\ c # d
        /\ d = p.dst /\ d.type = end /\ b.type = r1 /\ c.type = r2
        /\ Path(p.src) = <<a, b, c, d>>
    BY NodeFacts DEF Addressed, Path
  <1>3. \A h : Runs(h) <=> /\ k <= hooked
                           /\ h \in FirstLink \cup CenterLink \cup LastLink
                           /\ On(h, Path(p.src)[q], Path(p.src)[q + 1])
    <2>1. RouteHooks(start, r1, r2, end, k) = FirstLink \cup CenterLink \cup LastLink
      BY RouteOf
    <2>2. \A h : /\ h \in UNION {HooksOf[n] : n \in 1..hooked}
                 /\ h.src = p.src /\ h.dst = p.dst
                 <=> k <= hooked /\ h \in FirstLink \cup CenterLink \cup LastLink
      BY <2>1, HooksFor DEF Addressed
    <2>3. source = Sources(Path(p.src)[q], Path(p.src)[q + 1])[j]
      BY <1>1 DEF IsEvent
    <2>. QED
      BY <2>2, <2>3 DEF HooksAt
  <1>4. /\ q = 2 <=> i \in 4..6
        /\ q = 1 => LineOf(p, i) = HookOf(a, b, start, r1).line
        /\ q = 2 => LineOf(p, i) = HookOf(b, c, r1, r2).line
        /\ q = 3 => LineOf(p, i) = HookOf(c, d, r2, end).line
    <2>1. LineOf(p, i) = [event |-> EventOf(j),
                          llsrc |-> Path(p.src)[q].type,
                          lldst |-> Path(p.src)[q + 1].type,
                          src |-> start, dst |-> end, uniqid |-> Uniqid(k)]
      BY <1>1, <1>2 DEF IsEvent
    <2>2. /\ q = 1 => Path(p.src)[q] = a /\ Path(p.src)[q + 1] = b
          /\ q = 2 => Path(p.src)[q] = b /\ Path(p.src)[q + 1] = c
          /\ q = 3 => Path(p.src)[q] = c /\ Path(p.src)[q + 1] = d
      BY <1>2
    <2>3. /\ Path(p.src)[q].type = IF q = 1 THEN start
                                   ELSE IF q = 2 THEN r1 ELSE r2
          /\ Path(p.src)[q + 1].type = IF q = 1 THEN r1
                                       ELSE IF q = 2 THEN r2 ELSE end
      BY <1>2, <2>2
    <2>4. \A u, v, x, y : HookOf(u, v, x, y).line =
             [event |-> EventOf(j), llsrc |-> x, lldst |-> y,
              src |-> start, dst |-> end, uniqid |-> Uniqid(k)]
      OBVIOUS
    <2>5. q = 2 <=> i \in 4..6
      BY <1>1 DEF IsEvent
    <2>. HIDE DEF HookOf, a, b, c, d, r1, r2, start, end, k
    <2>. QED
      BY <2>1, <2>3, <2>4, <2>5
  <1>. HIDE DEF a, b, c, d, r1, r2
  <1>5. \A h, u, v :
          /\ h \in FirstLink /\ On(h, u, v)
             <=> u = a /\ v = b /\ h = HookOf(a, b, start, r1)
          /\ h \in LastLink /\ On(h, u, v)
             <=> u = c /\ v = d /\ h = HookOf(c, d, r2, end)
          /\ left => (h \in CenterLink /\ On(h, u, v)
                        <=> u = b /\ v = c /\ h = HookOf(b, c, r1, r2))
          /\ ~left => (h \in CenterLink /\ On(h, u, v)
                        <=> u = c /\ v = b /\ h = HookOf(c, b, r1, r2))
    <2>1. ASSUME NEW e, NEW f, e # f, NEW x, NEW y, NEW u, NEW v, NEW h
          PROVE  /\ h \in LinkHooks(<<e, f>>, <<f, e>>, x, y, start, end, k)
                 /\ On(h, u, v)
                 <=> u = e /\ v = f /\ h = HookOf(e, f, x, y)
      BY <2>1, LinkMatch
    <2>. HIDE DEF On, HookOf, left
    <2>. QED
      BY <1>2, <2>1
  <1>. HIDE DEF FirstLink, CenterLink, LastLink, On, HookOf, left
  <1>6. CASE Hooked(p, i)
    <2>1. PICK l : /\ \A h : Runs(h) <=> h = l
                   /\ l.line = LineOf(p, i)
      <3>0. k <= hooked /\ (left \/ q # 2)
        BY <1>4, <1>6 DEF Hooked, left
      <3>1. CASE q = 1
        BY <3>0, <3>1, <1>2, <1>3, <1>4, <1>5
      <3>2. CASE q = 2
        BY <3>0, <3>2, <1>2, <1>3, <1>4, <1>5
      <3>3. CASE q = 3
        BY <3>0, <3>3, <1>2, <1>3, <1>4, <1>5
      <3>. QED
        BY <3>1, <3>2, <3>3
    <2>2. {h.line : h \in {g \in HooksAt(source) :
                             g.src = p.src /\ g.dst = p.dst}}
            = {LineOf(p, i)}
      BY <2>1
    <2>. QED
      BY <2>2, <1>6, OneElement DEF OutputTrace
  <1>7. CASE ~Hooked(p, i)
    <2>1. \A h : ~Runs(h)
      <3>1. CASE ~(k <= hooked)
        BY <3>1, <1>3
      <3>2. CASE ~left /\ q = 2
        BY <3>2, <1>2, <1>3, <1>5
      <3>. QED
        BY <3>1, <3>2, <1>4, <1>7 DEF Hooked, left
    <2>2. {h.line : h \in {g \in HooksAt(source) :
                             g.src = p.src /\ g.dst = p.dst}} = {}
      BY <2>1
    <2>. QED
      BY <2>2, <1>7, NoElements DEF OutputTrace
  <1>. QED
    BY <1>6, <1>7

-----------------------------------------------------------------------------
(* The invariant.                                                          *)

\* Each line of a packet is of a later event than the line before it.
InOrder(p) ==
    \A a \in 1..Len(p.lines) :
        \E e \in 1..p.step :
            /\ p.lines[a] = LineOf(p, e)
            /\ a > 1 => \E d \in 1..e - 1 : p.lines[a - 1] = LineOf(p, d)

\* The lines of a packet are about its events; the traced ones have all
\* lines but those of the center channel, and those too from the left.
LinesOK(p) ==
    /\ Addressed(p)
    /\ InOrder(p)
    /\ p.traced => p.src.pair <= hooked
    /\ \A l \in Range(p.lines) : \E e \in 1..p.step : l = LineOf(p, e)
    /\ p.traced => \A e \in (1..p.step) \ (4..6) : LineOf(p, e) \in Range(p.lines)
    /\ p.traced /\ ListOf(p.src.type) = "left" => p.lines = Events(p)

IInv ==
    /\ TypeOK
    /\ ~installed => hooked = 0
    /\ \A i \in 1..Len(packets) : LinesOK(packets[i])

LEMMA LineType ==
    ASSUME NEW p \in Packet, Addressed(p), NEW i \in 1..9
    PROVE  LineOf(p, i) \in Line
  <1>. DEFINE n == p.src
  <1>0. n \in Node
    BY DEF Packet
  <1>1. PICK q \in 1..3, j \in 1..3 : IsEvent(n, i, q, j)
    BY WayEvents
  <1>2. EventOf(j) \in {"+", "-", "r"}
    BY DEF EventOf
  <1>3. \A h \in 1..4 : Path(n)[h].type \in NodeTypes \cup RouterTypes
    BY <1>0, NodeFacts DEF Path, Node
  <1>4. /\ p.src.type \in NodeTypes /\ p.dst.type \in NodeTypes
        /\ Uniqid(p.src.pair) \in Nat
    BY <1>0, NodeFacts DEF Addressed, Node, Uniqid
  <1>5. LineOf(p, i) = [event |-> EventOf(j),
                        llsrc |-> Path(n)[q].type,
                        lldst |-> Path(n)[q + 1].type,
                        src |-> p.src.type, dst |-> p.dst.type,
                        uniqid |-> Uniqid(p.src.pair)]
    BY <1>1 DEF IsEvent
  <1>6. Path(n)[q].type \in NodeTypes \cup RouterTypes
        /\ Path(n)[q + 1].type \in NodeTypes \cup RouterTypes
    BY <1>3
  <1>. HIDE DEF n
  <1>. QED
    BY <1>2, <1>4, <1>5, <1>6 DEF Line

\* The lines of packets with the same ends are the same.
LEMMA SameLines ==
    ASSUME NEW p, NEW r, p.src = r.src, p.dst = r.dst
    PROVE  \A e : LineOf(p, e) = LineOf(r, e)
  BY DEF LineOf

LEMMA InitOK == Init => IInv
  <1>. SUFFICES ASSUME Init
                PROVE  IInv
    OBVIOUS
  <1>1. TypeOK
    <2>1. 0 \in 0..MaxPairs
      BY TraceAssumption
    <2>2. pairs["left"] = 0 /\ pairs \in [{"left", "right"} -> 0..MaxPairs]
      BY <2>1 DEF Init
    <2>3. packets \in Seq(Packet)
      BY DEF Init
    <2>4. installed \in BOOLEAN
      BY DEF Init
    <2>5. hooked \in 0..pairs["left"]
      <3>1. hooked = 0
        BY DEF Init
      <3>. QED
        BY <2>2, <3>1
    <2>. QED
      BY <2>2, <2>3, <2>4, <2>5 DEF TypeOK
  <1>. QED
    BY <1>1 DEF Init, IInv

LEMMA OneMore ==
    ASSUME NEW S, NEW q \in Seq(S), NEW x \in S
    PROVE  LET t == q \o <<x>>
           IN /\ t \in Seq(S) /\ Len(t) = Len(q) + 1
              /\ t = [i \in 1..Len(q) + 1 |->
                        IF i <= Len(q) THEN q[i] ELSE x]
              /\ \A y : y \in Range(t) <=> y \in Range(q) \/ y = x
  <1>. DEFINE t == q \o <<x>>
  <1>1. /\ t \in Seq(S) /\ Len(t) = Len(q) + 1 /\ Len(q) \in Nat
        /\ \A i \in 1..Len(q) : t[i] = q[i]
        /\ t[Len(q) + 1] = x
        /\ DOMAIN t = 1..Len(q) + 1 /\ DOMAIN q = 1..Len(q)
    OBVIOUS
  <1>2. t = [i \in 1..Len(q) + 1 |-> t[i]]
    BY <1>1
  <1>. HIDE DEF t
  <1>3. t = [i \in 1..Len(q) + 1 |-> IF i <= Len(q) THEN q[i] ELSE x]
    BY <1>1, <1>2
  <1>4. \A y : y \in Range(t) <=> y \in Range(q) \/ y = x
    BY <1>1 DEF Range
  <1>. QED
    BY <1>1, <1>3, <1>4 DEF t

LEMMA StillPacket ==
    ASSUME NEW p \in Packet, NEW n \in 1..9, NEW q \in Seq(Line)
    PROVE  [p EXCEPT !.step = n, !.lines = q] \in Packet
  <1>1. ASSUME NEW r \in Packet
        PROVE  [r EXCEPT !.step = n] \in Packet
    BY DEF Packet
  <1>2. ASSUME NEW r \in Packet
        PROVE  [r EXCEPT !.lines = q] \in Packet
    BY DEF Packet
  <1>3. [p EXCEPT !.step = n, !.lines = q]
          = [[p EXCEPT !.step = n] EXCEPT !.lines = q]
    OBVIOUS
  <1>. QED
    BY <1>1, <1>2, <1>3

\* A packet goes one event further.
LEMMA MoveOK ==
    ASSUME hooked \in 0..MaxPairs, NEW p \in Packet, LinesOK(p), p.step < 9
    PROVE  LET r == [p EXCEPT
                       !.step = @ + 1,
                       !.lines = @ \o OutputTrace(p, Way(p.src)[p.step + 1])]
           IN r \in Packet /\ LinesOK(r)
  <1>. DEFINE e == p.step + 1
              out == OutputTrace(p, Way(p.src)[e])
              r == [p EXCEPT !.step = @ + 1, !.lines = @ \o out]
  <1>0. /\ p.step \in 0..8 /\ e \in 1..9 /\ p.src \in Node /\ Addressed(p)
        /\ p.lines \in Seq(Line)
    BY DEF Packet, LinesOK
  <1>1. out = IF Hooked(p, e) THEN <<LineOf(p, e)>> ELSE <<>>
    BY <1>0, EventLines
  <1>2. LineOf(p, e) \in Line
    BY <1>0, LineType
  <1>. HIDE DEF out, e
  <1>3. /\ r.src = p.src /\ r.dst = p.dst /\ r.traced = p.traced
        /\ r.step = e /\ r.lines = p.lines \o out
        /\ r.lines \in Seq(Line) => r \in Packet
    <2>1. /\ r.src = p.src /\ r.dst = p.dst /\ r.traced = p.traced
          /\ r.dropped = p.dropped
          /\ r.step = e /\ r.lines = p.lines \o out
      BY DEF Packet, e
    <2>2. r = [p EXCEPT !.step = e, !.lines = p.lines \o out]
      BY DEF e
    <2>3. ASSUME r.lines \in Seq(Line)
          PROVE  r \in Packet
      <3>. DEFINE q == p.lines \o out
      <3>1. q \in Seq(Line)
        BY <2>1, <2>3
      <3>. HIDE DEF q
      <3>2. [p EXCEPT !.step = e, !.lines = q] \in Packet
        BY <1>0, <3>1, StillPacket
      <3>. QED
        BY <2>2, <3>2 DEF q
    <2>. QED
      BY <2>1, <2>3
  <1>. HIDE DEF r
  <1>4. \A n : LineOf(r, n) = LineOf(p, n)
    BY <1>3, SameLines
  <1>5. CASE Hooked(p, e)
    <2>1. /\ r.lines \in Seq(Line)
          /\ r.lines = [n \in 1..Len(p.lines) + 1 |->
                          IF n <= Len(p.lines) THEN p.lines[n] ELSE LineOf(p, e)]
      BY <1>0, <1>1, <1>2, <1>3, <1>5, OneMore
    <2>2. \A l : l \in Range(r.lines) <=> l \in Range(p.lines) \/ l = LineOf(p, e)
      BY <1>0, <1>1, <1>2, <1>3, <1>5, OneMore
    <2>3. ASSUME p.traced, ListOf(p.src.type) = "left"
          PROVE  r.lines = Events(r)
      <3>1. p.lines = [n \in 1..p.step |-> LineOf(p, n)]
        BY <2>3 DEF LinesOK, Events
      <3>2. Len(p.lines) = p.step
        BY <1>0, <3>1
      <3>3. e = p.step + 1
        BY DEF e
      <3>4. r.lines = [n \in 1..e |-> LineOf(p, n)]
        BY <1>0, <2>1, <3>1, <3>2, <3>3
      <3>5. Events(r) = [n \in 1..e |-> LineOf(p, n)]
        BY <1>3, <1>4 DEF Events
      <3>. QED
        BY <3>4, <3>5
    <2>4. \A l \in Range(r.lines) : \E n \in 1..e : l = LineOf(r, n)
      BY <1>0, <1>4, <2>2 DEF LinesOK, e
    <2>5. p.traced => \A n \in (1..e) \ (4..6) : LineOf(r, n) \in Range(r.lines)
      BY <1>0, <1>4, <2>2 DEF LinesOK, e
    <2>6. Addressed(r) /\ (r.traced => r.src.pair <= hooked)
      BY <1>0, <1>3 DEF LinesOK, Addressed
    <2>8. InOrder(r)
      <3>. SUFFICES ASSUME NEW a \in 1..Len(r.lines)
                    PROVE  \E n \in 1..r.step :
                              /\ r.lines[a] = LineOf(r, n)
                              /\ a > 1 => \E d \in 1..n - 1 :
                                            r.lines[a - 1] = LineOf(r, d)
        BY DEF InOrder
      <3>1. /\ Len(r.lines) = Len(p.lines) + 1 /\ Len(p.lines) \in Nat
            /\ \A b \in 1..Len(p.lines) : r.lines[b] = p.lines[b]
        BY <1>0, <2>1
      <3>2. e = p.step + 1 /\ r.step = e /\ p.step \in 0..8
        BY <1>0, <1>3 DEF e
      <3>3. CASE a \in 1..Len(p.lines)
        <4>1. PICK n \in 1..p.step :
                 /\ p.lines[a] = LineOf(p, n)
                 /\ a > 1 => \E d \in 1..n - 1 : p.lines[a - 1] = LineOf(p, d)
          BY <3>3 DEF LinesOK, InOrder
        <4>2. a > 1 => a - 1 \in 1..Len(p.lines)
          BY <3>1, <3>3
        <4>3. n \in 1..r.step
          BY <3>2
        <4>4. r.lines[a] = LineOf(r, n)
          BY <1>4, <3>1, <3>3, <4>1
        <4>5. a > 1 => \E d \in 1..n - 1 : r.lines[a - 1] = LineOf(r, d)
          BY <1>4, <3>1, <4>1, <4>2
        <4>. QED
          BY <4>3, <4>4, <4>5
      <3>4. CASE a = Len(p.lines) + 1
        <4>1. r.lines[a] = LineOf(r, e)
          BY <1>4, <2>1, <3>1, <3>4
        <4>2. ASSUME a > 1
              PROVE  \E d \in 1..e - 1 : r.lines[a - 1] = LineOf(r, d)
          <5>1. a - 1 \in 1..Len(p.lines)
            BY <3>1, <3>4, <4>2
          <5>2. p.lines[a - 1] \in Range(p.lines)
            BY <1>0, <5>1 DEF Range
          <5>3. PICK d \in 1..p.step : p.lines[a - 1] = LineOf(p, d)
            BY <5>2 DEF LinesOK
          <5>4. d \in 1..e - 1
            BY <3>2
          <5>. QED
            BY <1>4, <3>1, <5>1, <5>3, <5>4
        <4>3. e \in 1..r.step
          BY <3>2
        <4>. QED
          BY <4>1, <4>2, <4>3
      <3>. QED
        BY <3>1, <3>3, <3>4
    <2>7. LinesOK(r)
      BY <1>3, <2>3, <2>4, <2>5, <2>6, <2>8 DEF LinesOK
    <2>. QED
      BY <1>3, <2>1, <2>7 DEF r, e, out
  <1>6. CASE ~Hooked(p, e)
    <2>1. r.lines = p.lines
      BY <1>0, <1>1, <1>3, <1>6
    <2>2. p.traced => ListOf(p.src.type) # "left" /\ e \in 4..6
      BY <1>6 DEF LinesOK, Hooked
    <2>3. \A l \in Range(p.lines) : \E n \in 1..e : l = LineOf(p, n)
      BY <1>0 DEF LinesOK, e
    <2>4. p.traced => \A n \in (1..e) \ (4..6) : LineOf(p, n) \in Range(p.lines)
      BY <1>0, <2>2 DEF LinesOK, e
    <2>5. Addressed(r) /\ (r.traced => r.src.pair <= hooked)
      BY <1>0, <1>3 DEF LinesOK, Addressed
    <2>7. InOrder(r)
      <3>1. e = p.step + 1 /\ r.step = e /\ p.step \in 0..8
        BY <1>0, <1>3 DEF e
      <3>2. \A n \in 1..p.step : n \in 1..r.step
        BY <3>1
      <3>3. InOrder(p)
        BY DEF LinesOK
      <3>. QED
        BY <1>4, <2>1, <3>2, <3>3 DEF InOrder
    <2>6. LinesOK(r)
      BY <1>3, <1>4, <2>1, <2>2, <2>3, <2>4, <2>5, <2>7 DEF LinesOK
    <2>. QED
      BY <1>0, <1>3, <2>1, <2>6 DEF r, e, out
  <1>. QED
    BY <1>5, <1>6

LEMMA NextOK == IInv /\ [Next]_vars => IInv'
  <1>. SUFFICES ASSUME IInv, [Next]_vars
                PROVE  IInv'
    OBVIOUS
  <1>0. /\ TypeOK /\ hooked \in 0..MaxPairs
        /\ \A i \in 1..Len(packets) : packets[i] \in Packet /\ LinesOK(packets[i])
    BY TraceAssumption DEF IInv, TypeOK
  <1>1. ASSUME NEW side \in {"left", "right"}, NewPair(side)
        PROVE  IInv'
    <2>1. /\ pairs' \in [{"left", "right"} -> 0..MaxPairs]
          /\ pairs'["left"] >= pairs["left"]
          /\ pairs["left"] \in Nat /\ pairs'["left"] \in Nat
      BY <1>0, <1>1, TraceAssumption DEF NewPair, TypeOK
    <2>2. TypeOK'
      BY <1>0, <1>1, <2>1 DEF NewPair, TypeOK
    <2>. QED
      BY <1>0, <1>1, <2>2 DEF NewPair, IInv, LinesOK
  <1>2. CASE Install
    <2>1. /\ pairs' \in [{"left", "right"} -> 0..MaxPairs]
          /\ hooked' = pairs'["left"]
          /\ pairs'["left"] \in Nat
      BY <1>0, <1>2, TraceAssumption DEF Install, EqualPairs, Larger, TypeOK
    <2>2. TypeOK'
      BY <1>0, <1>2, <2>1 DEF Install, TypeOK
    <2>3. hooked = 0
      BY <1>2 DEF IInv, Install
    <2>4. ASSUME NEW p \in Packet, LinesOK(p)
          PROVE  LinesOK(p)'
      BY <2>1, <2>3, <2>4 DEF LinesOK, Packet, Node
    <2>. QED
      BY <1>0, <1>2, <2>2, <2>4 DEF Install, IInv
  <1>3. ASSUME NEW n \in Nodes, Send(n)
        PROVE  IInv'
    <2>. DEFINE p == [src |-> n, dst |-> At(PeerType(n.type), n.pair),
                      step |-> 0, lines |-> <<>>, dropped |-> FALSE,
                      traced |-> n.pair <= hooked]
    <2>1. n \in Node /\ p.dst \in Node
      BY NodeFacts DEF Nodes
    <2>2. p \in Packet
      BY <2>1 DEF Packet
    <2>3. LinesOK(p)
      <3>1. Range(p.lines) = {} /\ 1..p.step = {}
        BY DEF Range
      <3>2. Events(p) = p.lines
        BY DEF Events
      <3>4. InOrder(p)
        BY DEF InOrder
      <3>3. Addressed(p) /\ (p.traced => p.src.pair <= hooked)
        BY DEF Addressed
      <3>. HIDE DEF p
      <3>. QED
        BY <3>1, <3>2, <3>3, <3>4 DEF LinesOK
    <2>. HIDE DEF p
    <2>4. packets' = Append(packets, p)
      BY <1>3 DEF Send, p
    <2>5. /\ packets' \in Seq(Packet)
          /\ \A i \in 1..Len(packets') :
                packets'[i] = IF i <= Len(packets) THEN packets[i] ELSE p
      BY <1>0, <2>2, <2>4 DEF TypeOK
    <2>6. TypeOK'
      BY <1>0, <1>3, <2>5 DEF Send, TypeOK
    <2>7. Len(packets') = Len(packets) + 1 /\ Len(packets) \in Nat
      BY <1>0, <2>2, <2>4 DEF TypeOK
    <2>8. \A i \in 1..Len(packets') : LinesOK(packets'[i])
      BY <1>0, <2>3, <2>5, <2>7
    <2>. QED
      BY <1>0, <1>3, <2>6, <2>8 DEF Send, IInv, LinesOK
  <1>4. ASSUME NEW i \in 1..Len(packets), Move(i)
        PROVE  IInv'
    <2>. DEFINE p == packets[i]
                r == [p EXCEPT
                        !.step = @ + 1,
                        !.lines = @ \o OutputTrace(p, Way(p.src)[p.step + 1])]
    <2>1. r \in Packet /\ LinesOK(r)
      BY <1>0, <1>4, MoveOK DEF Move
    <2>2. packets' = [packets EXCEPT ![i] = r]
      BY <1>0, <1>4 DEF Move, TypeOK
    <2>. HIDE DEF r
    <2>3. /\ packets' \in Seq(Packet) /\ Len(packets') = Len(packets)
          /\ \A j \in 1..Len(packets) :
                packets'[j] = IF j = i THEN r ELSE packets[j]
      BY <1>0, <2>1, <2>2 DEF TypeOK
    <2>4. TypeOK'
      BY <1>0, <1>4, <2>3 DEF Move, TypeOK
    <2>5. \A j \in 1..Len(packets') : LinesOK(packets'[j])
      BY <1>0, <2>1, <2>3
    <2>. QED
      BY <1>0, <1>4, <2>4, <2>5 DEF Move, IInv, LinesOK
  <1>5. ASSUME NEW i \in 1..Len(packets), Drop(i)
        PROVE  IInv'
    <2>. DEFINE p == packets[i]
                r == [p EXCEPT !.dropped = TRUE]
    <2>1. r \in Packet
      BY <1>0 DEF Packet
    <2>2. LinesOK(r)
      <3>1. /\ r.src = p.src /\ r.dst = p.dst /\ r.traced = p.traced
            /\ r.step = p.step /\ r.lines = p.lines
        BY <1>0 DEF Packet
      <3>. HIDE DEF r
      <3>2. \A n : LineOf(r, n) = LineOf(p, n)
        BY <3>1, SameLines
      <3>3. Events(r) = Events(p)
        BY <3>1, <3>2 DEF Events
      <3>4. LinesOK(p)
        BY <1>0
      <3>. HIDE DEF p
      <3>. QED
        BY <3>1, <3>2, <3>3, <3>4 DEF LinesOK, Addressed, InOrder
    <2>3. packets' = [packets EXCEPT ![i] = r]
      BY <1>0, <1>5 DEF Drop, TypeOK
    <2>. HIDE DEF r
    <2>4. /\ packets' \in Seq(Packet) /\ Len(packets') = Len(packets)
          /\ \A j \in 1..Len(packets) :
                packets'[j] = IF j = i THEN r ELSE packets[j]
      BY <1>0, <2>1, <2>3 DEF TypeOK
    <2>5. TypeOK'
      BY <1>0, <1>5, <2>4 DEF Drop, TypeOK
    <2>6. \A j \in 1..Len(packets') : LinesOK(packets'[j])
      BY <1>0, <2>2, <2>4
    <2>. QED
      BY <1>0, <1>5, <2>5, <2>6 DEF Drop, IInv, LinesOK
  <1>6. CASE UNCHANGED vars
    BY <1>6 DEF vars, IInv, TypeOK, LinesOK
  <1>. QED
    BY <1>1, <1>2, <1>3, <1>4, <1>5, <1>6 DEF Next

LEMMA Invariance == Spec => []IInv
  BY InitOK, NextOK, PTL DEF Spec

-----------------------------------------------------------------------------
(* The theorems.                                                           *)

\* Install and NewPair keep the lists of nodes and the packets what they are
\* declared to be.
THEOREM TypeCorrectness == Spec => []TypeOK
  <1>1. IInv => TypeOK
    BY DEF IInv
  <1>. QED
    BY <1>1, Invariance, PTL

\* The lines of two events on the way of a packet differ, so that a line
\* tells which event it is of.
LEMMA LinesDiffer ==
    ASSUME NEW p \in Packet, NEW d \in 1..9, NEW e \in 1..9,
           LineOf(p, d) = LineOf(p, e)
    PROVE  d = e
  <1>. DEFINE hop(i) == ((i - 1) \div 3) + 1
              nth(i) == ((i - 1) % 3) + 1
              type(h) == Path(p.src)[h].type
  <1>1. /\ \A i \in 1..9 : hop(i) \in 1..3 /\ nth(i) \in 1..3
        /\ \A i, j \in 1..9 : hop(i) = hop(j) /\ nth(i) = nth(j) => i = j
    OBVIOUS
  <1>2. /\ LineOf(p, d).event = <<"+", "-", "r">>[nth(d)]
        /\ LineOf(p, e).event = <<"+", "-", "r">>[nth(e)]
        /\ LineOf(p, d).llsrc = type(hop(d))
        /\ LineOf(p, e).llsrc = type(hop(e))
    BY DEF LineOf
  <1>3. \A g, h \in 1..3 : type(g) = type(h) => g = h
    <2>1. p.src \in Node
      BY DEF Packet
    <2>2. /\ type(1) \in NodeTypes
          /\ type(2) = RouterOf(p.src.type)
          /\ type(3) = OtherRouter(RouterOf(p.src.type))
          /\ RouterOf(p.src.type) \in RouterTypes
          /\ OtherRouter(RouterOf(p.src.type)) \in RouterTypes
          /\ RouterOf(p.src.type) # OtherRouter(RouterOf(p.src.type))
      BY <2>1, NodeFacts DEF Path, Node
    <2>3. NodeTypes \cap RouterTypes = {}
      BY DEF NodeTypes, RouterTypes
    <2>. HIDE DEF type
    <2>. QED
      BY <2>2, <2>3
  <1>4. \A i, j \in 1..3 :
           <<"+", "-", "r">>[i] = <<"+", "-", "r">>[j] => i = j
    OBVIOUS
  <1>. HIDE DEF hop, nth, type
  <1>. QED
    BY <1>1, <1>2, <1>3, <1>4

\* OutputTrace prints no line that is not of an event on the packet's way so
\* far, none twice and none before one of an earlier event.
THEOREM NothingFalse == Spec => []NoFalseLine
  <1>1. ASSUME IInv
        PROVE  NoFalseLine
    <2>. SUFFICES ASSUME NEW i \in 1..Len(packets),
                         NEW a \in 1..Len(packets[i].lines)
                  PROVE  \E e \in 1..packets[i].step :
                            /\ packets[i].lines[a] = Events(packets[i])[e]
                            /\ a > 1 => \E d \in 1..e - 1 :
                                 packets[i].lines[a - 1] = Events(packets[i])[d]
      BY DEF NoFalseLine
    <2>. DEFINE p == packets[i]
    <2>1. p \in Packet /\ InOrder(p)
      BY <1>1 DEF IInv, TypeOK, LinesOK
    <2>2. PICK e \in 1..p.step :
             /\ p.lines[a] = LineOf(p, e)
             /\ a > 1 => \E d \in 1..e - 1 : p.lines[a - 1] = LineOf(p, d)
      BY <2>1 DEF InOrder
    <2>3. p.step \in 0..9
      BY <2>1 DEF Packet
    <2>4. \A d \in 1..e : Events(p)[d] = LineOf(p, d)
      BY <2>3 DEF Events
    <2>. HIDE DEF p
    <2>5. p.lines[a] = Events(p)[e]
      BY <2>2, <2>3, <2>4
    <2>6. a > 1 => \E d \in 1..e - 1 : p.lines[a - 1] = Events(p)[d]
      BY <2>2, <2>3, <2>4
    <2>. QED
      BY <2>5, <2>6 DEF p
  <1>. QED
    BY <1>1, Invariance, PTL

\* OutputTrace prints for a packet of a pair with the initiator on the left
\* exactly the lines of its way so far.
THEOREM LeftTraced == Spec => []LeftPairsTraced
  <1>1. IInv => LeftPairsTraced
    BY DEF IInv, LinesOK, LeftPairsTraced, TracedPackets
  <1>. QED
    BY <1>1, Invariance, PTL

\* OutputTrace prints a line for each event on the first and the last link,
\* for all pairs.
THEOREM EndsTraced == Spec => []EndLinksTraced
  <1>1. IInv => EndLinksTraced
    BY DEF IInv, LinesOK, EndLinksTraced, TracedPackets
  <1>. QED
    BY <1>1, Invariance, PTL

\* Two packets whose lines agree in the columns OutputTrace gives for source
\* and destination are of the same pair and go the same way.
THEOREM PairsIdentified == Spec => []LinesIdentifyPair
  <1>1. ASSUME IInv
        PROVE  LinesIdentifyPair
    <2>. SUFFICES ASSUME NEW i \in 1..Len(packets), NEW j \in 1..Len(packets),
                         NEW l \in Range(packets[i].lines),
                         NEW m \in Range(packets[j].lines),
                         l.src = m.src, l.dst = m.dst, l.uniqid = m.uniqid
                  PROVE  /\ packets[i].src = packets[j].src
                         /\ packets[i].dst = packets[j].dst
      BY DEF LinesIdentifyPair
    <2>. DEFINE p == packets[i]
                r == packets[j]
    <2>1. /\ p \in Packet /\ r \in Packet
          /\ LinesOK(p) /\ LinesOK(r)
      BY <1>1 DEF IInv, TypeOK
    <2>. HIDE DEF p, r
    <2>2. /\ l.src = p.src.type /\ l.uniqid = Uniqid(p.src.pair)
          /\ m.src = r.src.type /\ m.uniqid = Uniqid(r.src.pair)
      BY <2>1 DEF LinesOK, LineOf, p, r
    <2>3. p.src \in Node /\ r.src \in Node
      BY <2>1 DEF Packet
    <2>4. p.src.pair \in 1..MaxPairs /\ r.src.pair \in 1..MaxPairs
      BY <2>3 DEF Node
    <2>5. p.src.type = r.src.type /\ p.src.pair = r.src.pair
      <3>1. /\ p.src.type = r.src.type
            /\ Uniqid(p.src.pair) = Uniqid(r.src.pair)
        BY <2>2
      <3>2. p.src.pair - 1 = r.src.pair - 1
        BY <3>1 DEF Uniqid
      <3>. QED
        BY <2>4, <3>1, <3>2, TraceAssumption
    <2>6. p.src = r.src
      BY <2>3, <2>5 DEF Node
    <2>. QED
      BY <2>1, <2>6 DEF LinesOK, Addressed, p, r
  <1>. QED
    BY <1>1, Invariance, PTL
=============================================================================

------------------------ MODULE DelayBoxRules_proofs ------------------------
(***************************************************************************)
(* The lookup of rules and the classification of packets, for any          *)
(* addresses and ports, any number of rules and packets, and any changes   *)
(* of the mode between them.                                               *)
(*                                                                         *)
(* Everything rests on one fact: the order of the two ends is total, so    *)
(* that in symmetric mode two pairs have the same key exactly if they are  *)
(* equal or reversed, wildcards included.  A key made in one mode and      *)
(* looked up in the other is the same only if it was in order.             *)
(***************************************************************************)
EXTENDS DelayBoxRules, FiniteSetTheorems, TLAPS

-----------------------------------------------------------------------------
(* Keys.                                                                   *)

LEMMA PacketsArePairs ==
    ASSUME NEW x \in Packets
    PROVE  /\ x \in Pair
           /\ x.src.port # 0 /\ x.dst.port # 0
BY RulesAssumption

LEMMA PairFields ==
    ASSUME NEW p \in Pair
    PROVE  /\ p.src.addr \in Nat /\ p.src.port \in Nat
           /\ p.dst.addr \in Nat /\ p.dst.port \in Nat
           /\ p = [src |-> p.src, dst |-> p.dst]
           /\ p.src = [addr |-> p.src.addr, port |-> p.src.port]
           /\ p.dst = [addr |-> p.dst.addr, port |-> p.dst.port]
BY DEF Pair, Endpoint

LEMMA ReverseIsPair ==
    ASSUME NEW p \in Pair
    PROVE  /\ Reverse(p) \in Pair
           /\ Reverse(Reverse(p)) = p
BY DEF Pair, Reverse

\* The order of ends is total.
LEMMA LessIsTotal ==
    ASSUME NEW e \in Endpoint, NEW f \in Endpoint
    PROVE  /\ ~ (Less(e, f) /\ Less(f, e))
           /\ ~ Less(e, f) /\ ~ Less(f, e) => e = f
BY DEF Less, Endpoint

\* One direction is upward, and both are only if they are the same.
LEMMA UpwardOrReverse ==
    ASSUME NEW p \in Pair
    PROVE  /\ Upward(p) \/ Upward(Reverse(p))
           /\ Upward(p) /\ Upward(Reverse(p)) => p = Reverse(p)
           /\ Canonical(p) = IF Upward(p) THEN p ELSE Reverse(p)
<1>1. p.src \in Endpoint /\ p.dst \in Endpoint
  BY DEF Pair
<1>2. Reverse(p).src = p.dst /\ Reverse(p).dst = p.src
  BY DEF Reverse
<1>3. Upward(p) /\ Upward(Reverse(p)) => p.src = p.dst
  BY <1>1, <1>2, LessIsTotal DEF Upward
<1>4. p.src = p.dst => p = Reverse(p)
  BY PairFields DEF Reverse
<1> QED
  BY <1>1, <1>2, <1>3, <1>4, LessIsTotal DEF Upward, Canonical

LEMMA KeyIsPair ==
    ASSUME NEW p \in Pair, NEW sym \in BOOLEAN
    PROVE  KeyOf(p, sym) \in Pair
BY ReverseIsPair DEF KeyOf, Canonical

\* The key of p in symmetric mode is q: q is p or its reverse, and upward.
LEMMA CanonicalIs ==
    ASSUME NEW p \in Pair, NEW q \in Pair
    PROVE  Canonical(p) = q <=> Upward(q) /\ (q = p \/ q = Reverse(p))
<1>1. Canonical(p) = p \/ Canonical(p) = Reverse(p)
  BY DEF Canonical
<1>2. Upward(Canonical(p))
  BY UpwardOrReverse
<1>3. Upward(p) => Canonical(p) = p
  BY UpwardOrReverse
<1>4. Upward(Reverse(p)) => Canonical(p) = Reverse(p)
  BY UpwardOrReverse
<1> QED
  BY <1>1, <1>2, <1>3, <1>4

\* Two pairs have the same key if they are equal or, in symmetric mode, each
\* other's reverse.
LEMMA SameKey ==
    ASSUME NEW p \in Pair, NEW q \in Pair, NEW sym \in BOOLEAN
    PROVE  KeyOf(p, sym) = KeyOf(q, sym) <=> SameConversation(p, q, sym)
<1>1. CASE ~sym
  BY <1>1 DEF KeyOf, SameConversation
<1>2. CASE sym
  <2>1. /\ Reverse(p) \in Pair /\ Reverse(Reverse(p)) = p
        /\ Reverse(q) \in Pair /\ Reverse(Reverse(q)) = q
        /\ Canonical(p) \in Pair /\ Canonical(q) \in Pair
    BY ReverseIsPair DEF Canonical
  <2>2. ASSUME Canonical(p) = Canonical(q)
        PROVE  p = q \/ p = Reverse(q)
    <3>1. Canonical(p) = p \/ Canonical(p) = Reverse(p)
      BY DEF Canonical
    <3>2. Canonical(q) = q \/ Canonical(q) = Reverse(q)
      BY DEF Canonical
    <3> QED
      BY <2>1, <2>2, <3>1, <3>2
  <2>3. ASSUME p = Reverse(q)
        PROVE  Canonical(p) = Canonical(q)
    <3>1. /\ Upward(Canonical(q))
          /\ Canonical(q) = q \/ Canonical(q) = Reverse(q)
      BY <2>1, CanonicalIs
    <3> QED
      BY <2>1, <2>3, <3>1, CanonicalIs
  <2> QED
    BY <1>2, <2>2, <2>3 DEF KeyOf, SameConversation
<1> QED
  BY <1>1, <1>2

-----------------------------------------------------------------------------
(* What a lookup tries.                                                    *)

\* Covers, of a pattern and the mode it was added in.
Speaks(p, was, x, sym) ==
    \/ was = sym /\ Fits(p, x)
    \/ was /\ sym /\ Fits(Reverse(p), x)
    \/ was /\ ~sym /\ Upward(p) /\ Fits(p, x)
    \/ was /\ ~sym /\ Upward(Reverse(p)) /\ Fits(Reverse(p), x)
    \/ ~was /\ sym /\ Upward(p) /\ Fits(p, x)
    \/ ~was /\ sym /\ Upward(p) /\ Fits(Reverse(p), x)

LEMMA TriesArePairs ==
    ASSUME NEW x \in Packets, NEW i \in 1..4
    PROVE  Tries(x)[i] \in Pair
<1>1. /\ x \in Pair
      /\ AnySource(x) \in Pair
      /\ AnyDestination(x) \in Pair
      /\ AnySource(AnyDestination(x)) \in Pair
  BY PacketsArePairs DEF AnySource, AnyDestination, Pair, Endpoint
<1>2. i = 1 \/ i = 2 \/ i = 3 \/ i = 4
  OBVIOUS
<1> QED
  BY <1>1, <1>2 DEF Tries

\* The patterns that fit a packet are the ones that are tried for it.
LEMMA FitsIsTried ==
    ASSUME NEW p \in Pair, NEW x \in Packets
    PROVE  Fits(p, x) <=> \E i \in 1..4 : Tries(x)[i] = p
<1>1. /\ Tries(x)[1] = x /\ Tries(x)[2] = AnySource(x)
      /\ Tries(x)[3] = AnyDestination(x)
      /\ Tries(x)[4] = AnySource(AnyDestination(x))
  BY DEF Tries
<1>2. Fits(p, x) <=> p \in {x, AnySource(x), AnyDestination(x),
                            AnySource(AnyDestination(x))}
  <2>1. p = [src |-> [addr |-> p.src.addr, port |-> p.src.port],
             dst |-> [addr |-> p.dst.addr, port |-> p.dst.port]]
    BY PairFields
  <2>2. x = [src |-> [addr |-> x.src.addr, port |-> x.src.port],
             dst |-> [addr |-> x.dst.addr, port |-> x.dst.port]]
    BY PacketsArePairs, PairFields
  <2>3. AnySource(x) = [src |-> [addr |-> x.src.addr, port |-> 0],
                        dst |-> [addr |-> x.dst.addr, port |-> x.dst.port]]
    BY PacketsArePairs DEF AnySource, Pair, Endpoint
  <2>4. AnyDestination(x) =
            [src |-> [addr |-> x.src.addr, port |-> x.src.port],
             dst |-> [addr |-> x.dst.addr, port |-> 0]]
    BY PacketsArePairs DEF AnyDestination, Pair, Endpoint
  <2>5. AnySource(AnyDestination(x)) =
            [src |-> [addr |-> x.src.addr, port |-> 0],
             dst |-> [addr |-> x.dst.addr, port |-> 0]]
    <3>1. PICK y : y = AnyDestination(x)
      OBVIOUS
    <3>2. y = [src |-> [addr |-> x.src.addr, port |-> x.src.port],
               dst |-> [addr |-> x.dst.addr, port |-> 0]]
      BY <2>4, <3>1
    <3>3. AnySource(y) = [src |-> [addr |-> x.src.addr, port |-> 0],
                          dst |-> [addr |-> x.dst.addr, port |-> 0]]
      BY <3>2 DEF AnySource
    <3> QED
      BY <3>1, <3>3
  <2>6. Fits(p, x) =>
          p \in {x, AnySource(x), AnyDestination(x),
                 AnySource(AnyDestination(x))}
    BY <2>1, <2>2, <2>3, <2>4, <2>5 DEF Fits
  <2>7. p \in {x, AnySource(x), AnyDestination(x),
               AnySource(AnyDestination(x))} => Fits(p, x)
    BY <2>3, <2>4, <2>5 DEF Fits
  <2> QED
    BY <2>6, <2>7
<1>3. (\E i \in 1..4 : Tries(x)[i] = p)
        <=> \/ Tries(x)[1] = p \/ Tries(x)[2] = p
            \/ Tries(x)[3] = p \/ Tries(x)[4] = p
  <2>1. 1..4 = {1, 2, 3, 4}
    OBVIOUS
  <2> QED
    BY <2>1
<1> QED
  BY <1>1, <1>2, <1>3

\* A rule speaks of a packet exactly if one of the keys that are tried for
\* the packet is the rule's.
LEMMA SpeaksIsTried ==
    ASSUME NEW p \in Pair, NEW was \in BOOLEAN,
           NEW x \in Packets, NEW sym \in BOOLEAN
    PROVE  Speaks(p, was, x, sym)
             <=> \E i \in 1..4 : KeyOf(Tries(x)[i], sym) = KeyOf(p, was)
<1>1. Reverse(p) \in Pair /\ Reverse(Reverse(p)) = p
  BY ReverseIsPair
<1>2. /\ Fits(p, x) <=> \E i \in 1..4 : Tries(x)[i] = p
      /\ Fits(Reverse(p), x) <=> \E i \in 1..4 : Tries(x)[i] = Reverse(p)
  BY <1>1, FitsIsTried
<1>3. \A i \in 1..4 : /\ Tries(x)[i] \in Pair
                      /\ Reverse(Tries(x)[i]) \in Pair
                      /\ Reverse(Reverse(Tries(x)[i])) = Tries(x)[i]
  BY TriesArePairs, ReverseIsPair
<1>4. CASE was = sym
  <2>1. \A i \in 1..4 : KeyOf(Tries(x)[i], sym) = KeyOf(p, sym)
                          <=> \/ Tries(x)[i] = p
                              \/ sym /\ Tries(x)[i] = Reverse(p)
    BY <1>3, SameKey DEF SameConversation
  <2> QED
    BY <1>2, <1>4, <2>1 DEF Speaks
<1>5. CASE was /\ ~sym
  <2>1. \A i \in 1..4 : KeyOf(Tries(x)[i], sym) = KeyOf(p, was)
                          <=> Canonical(p) = Tries(x)[i]
    BY <1>5 DEF KeyOf
  <2>2. \A i \in 1..4 : Canonical(p) = Tries(x)[i]
                          <=> \/ Upward(p) /\ Tries(x)[i] = p
                              \/ Upward(Reverse(p)) /\ Tries(x)[i] = Reverse(p)
    BY <1>3, CanonicalIs
  <2> QED
    BY <1>2, <1>5, <2>1, <2>2 DEF Speaks
<1>6. CASE ~was /\ sym
  <2>1. \A i \in 1..4 : KeyOf(Tries(x)[i], sym) = KeyOf(p, was)
                          <=> Canonical(Tries(x)[i]) = p
    BY <1>6 DEF KeyOf
  <2>2. \A i \in 1..4 : Canonical(Tries(x)[i]) = p
                          <=> \/ Upward(p) /\ Tries(x)[i] = p
                              \/ Upward(p) /\ Tries(x)[i] = Reverse(p)
    BY <1>1, <1>3, CanonicalIs
  <2> QED
    BY <1>2, <1>6, <2>1, <2>2 DEF Speaks
<1> QED
  BY <1>4, <1>5, <1>6

\* A rule speaks of both directions of a conversation or of none.
LEMMA SpeaksOfConversation ==
    ASSUME NEW p, NEW was \in BOOLEAN, NEW sym \in BOOLEAN,
           NEW x \in Pair, NEW y \in Pair,
           SameConversation(x, y, sym), Speaks(p, was, x, sym)
    PROVE  Speaks(p, was, y, sym)
<1>1. CASE x = y
  BY <1>1
<1>2. CASE sym /\ x = Reverse(y)
  <2>1. Fits(p, Reverse(y)) <=> Fits(Reverse(p), y)
    BY DEF Fits, Reverse
  <2>2. Fits(Reverse(p), Reverse(y)) <=> Fits(p, y)
    BY DEF Fits, Reverse
  <2> QED
    BY <1>2, <2>1, <2>2 DEF Speaks
<1> QED
  BY <1>1, <1>2 DEF SameConversation

-----------------------------------------------------------------------------
(* How specific a rule is.                                                 *)

\* FixedPorts of a pattern, and the same by counting.
Fixed(p) == Cardinality({e \in {"src", "dst"} : p[e].port # 0})

LEMMA FixedCounts ==
    ASSUME NEW p \in Pair
    PROVE  Fixed(p) = (IF p.src.port # 0 THEN 1 ELSE 0)
                      + (IF p.dst.port # 0 THEN 1 ELSE 0)
<1> DEFINE S == {e \in {"src", "dst"} : p[e].port # 0}
<1>1. CASE p.src.port # 0 /\ p.dst.port # 0
  <2>1. S = {"src"} \cup {"dst"}
    BY <1>1
  <2>2. IsFiniteSet({"src"}) /\ Cardinality({"src"}) = 1
    BY FS_Singleton
  <2>3. Cardinality({"src"} \cup {"dst"}) = 2
    BY <2>2, FS_AddElement
  <2> QED
    BY <1>1, <2>1, <2>3 DEF Fixed
<1>2. CASE p.src.port # 0 /\ p.dst.port = 0
  <2>1. S = {"src"}
    BY <1>2
  <2>2. Cardinality({"src"}) = 1
    BY FS_Singleton
  <2>3. Fixed(p) = 1
    BY <2>1, <2>2 DEF Fixed
  <2> QED
    BY <1>2, <2>3
<1>3. CASE p.src.port = 0 /\ p.dst.port # 0
  <2>1. S = {"dst"}
    BY <1>3
  <2>2. Cardinality({"dst"}) = 1
    BY FS_Singleton
  <2>3. Fixed(p) = 1
    BY <2>1, <2>2 DEF Fixed
  <2> QED
    BY <1>3, <2>3
<1>4. CASE p.src.port = 0 /\ p.dst.port = 0
  <2>1. \A e \in {"src", "dst"} : p[e].port = 0
    BY <1>4
  <2>2. S = {}
    BY <2>1
  <2> QED
    BY <1>4, <2>2, FS_EmptySet DEF Fixed
<1> QED
  BY <1>1, <1>2, <1>3, <1>4

LEMMA FixedOfReverse ==
    ASSUME NEW p \in Pair
    PROVE  Fixed(Reverse(p)) = Fixed(p)
<1>1. /\ Reverse(p).src.port = p.dst.port
      /\ Reverse(p).dst.port = p.src.port
      /\ Reverse(p) \in Pair
  BY ReverseIsPair DEF Reverse
<1> QED
  BY <1>1, FixedCounts

\* Rules with the same key are as specific, whatever their modes.
LEMMA FixedByKey ==
    ASSUME NEW p \in Pair, NEW was \in BOOLEAN,
           NEW q \in Pair, NEW sym \in BOOLEAN,
           KeyOf(p, was) = KeyOf(q, sym)
    PROVE  Fixed(p) = Fixed(q)
<1>1. KeyOf(p, was) = p \/ KeyOf(p, was) = Reverse(p)
  BY DEF KeyOf, Canonical
<1>2. KeyOf(q, sym) = q \/ KeyOf(q, sym) = Reverse(q)
  BY DEF KeyOf, Canonical
<1>3. Fixed(KeyOf(p, was)) = Fixed(p) /\ Fixed(KeyOf(q, sym)) = Fixed(q)
  BY <1>1, <1>2, FixedOfReverse
<1> QED
  BY <1>3

\* Each try is at most as specific as the ones before it.
LEMMA TriesDescend ==
    ASSUME NEW x \in Packets, NEW i \in 1..4, NEW j \in 1..4, i <= j
    PROVE  Fixed(Tries(x)[j]) <= Fixed(Tries(x)[i])
<1>1. x.src.port # 0 /\ x.dst.port # 0
  BY PacketsArePairs
<1>2. \A k \in 1..4 :
         Fixed(Tries(x)[k]) =
           (IF Tries(x)[k].src.port # 0 THEN 1 ELSE 0)
           + (IF Tries(x)[k].dst.port # 0 THEN 1 ELSE 0)
  BY TriesArePairs, FixedCounts
<1>3. Tries(x)[1].src.port # 0 /\ Tries(x)[1].dst.port # 0
  BY <1>1 DEF Tries
<1>4. Tries(x)[2].src.port = 0 /\ Tries(x)[2].dst.port # 0
  BY <1>1, PacketsArePairs DEF Tries, AnySource, Pair, Endpoint
<1>5. Tries(x)[3].src.port # 0 /\ Tries(x)[3].dst.port = 0
  BY <1>1, PacketsArePairs DEF Tries, AnyDestination, Pair, Endpoint
<1>6. Tries(x)[4].src.port = 0 /\ Tries(x)[4].dst.port = 0
  BY PacketsArePairs DEF Tries, AnySource, AnyDestination, Pair, Endpoint
<1>7. /\ Fixed(Tries(x)[1]) = 2 /\ Fixed(Tries(x)[2]) = 1
      /\ Fixed(Tries(x)[3]) = 1 /\ Fixed(Tries(x)[4]) = 0
  BY <1>2, <1>3, <1>4, <1>5, <1>6
<1>8. i \in {1, 2, 3, 4} /\ j \in {1, 2, 3, 4}
  OBVIOUS
<1> QED
  BY <1>7, <1>8

-----------------------------------------------------------------------------
(* The invariant.                                                          *)

\* The rule table has the first rule added with each key.
RulesByKey ==
    /\ \A k \in DOMAIN rules : KeyGiven(rules[k]) = k
    /\ \A r \in 1..Len(given) :
          KeyGiven(r) \in DOMAIN rules /\ rules[KeyGiven(r)] <= r

\* A classifier numbers its tuples from 1.
Numbering(ids) ==
    /\ IsFiniteSet(DOMAIN ids)
    /\ \A t \in DOMAIN ids : ids[t] \in 1..Cardinality(DOMAIN ids)
    /\ \A t, u \in DOMAIN ids : ids[t] = ids[u] => t = u

IdsNumbered == \A m \in BOOLEAN : Numbering(flowIds[m])

\* The flow of a packet has the id its tuple has in the mode it came in.
FlowsById ==
    \A i \in 1..Len(carried) : carried[i].flow # NoFlow =>
        LET m == carried[i].symmetric
            t == FlowTuple(carried[i].packet, m)
        IN /\ t \in DOMAIN flowIds[m]
           /\ flowIds[m][t] = carried[i].flow
           /\ carried[i].flow \in DOMAIN table

\* A packet in a flow came when a rule covered it, and rules stay.
StillCovered ==
    \A i \in 1..Len(carried) : carried[i].flow # NoFlow =>
        \E r \in 1..Len(given) :
            Covers(r, carried[i].packet, carried[i].symmetric)

\* The rule of a flow covers the packet that created it.
TableByCreator ==
    \A f \in DOMAIN table : \E c \in 1..Len(carried) :
        /\ carried[c].flow = f
        /\ Covers(table[f], carried[c].packet, carried[c].symmetric)

IInv ==
    /\ TypeOK /\ RulesByKey /\ IdsNumbered /\ FlowsById /\ StillCovered
    /\ TableByCreator /\ FlowsGoOn

LEMMA ElementOfSeq ==
    ASSUME NEW S, NEW q \in Seq(S), NEW i \in 1..Len(q)
    PROVE  q[i] \in S
OBVIOUS

LEMMA AppendIsSeq ==
    ASSUME NEW S, NEW q \in Seq(S), NEW e \in S
    PROVE  /\ Append(q, e) \in Seq(S)
           /\ Len(Append(q, e)) = Len(q) + 1
           /\ Append(q, e)[Len(q) + 1] = e
           /\ \A i \in 1..Len(q) : Append(q, e)[i] = q[i]
OBVIOUS

LEMMA RulesGiven ==
    ASSUME TypeOK, NEW r \in 1..Len(given)
    PROVE  /\ given[r].pattern \in Pair
           /\ given[r].symmetric \in BOOLEAN
<1>1. given[r] \in Given
  BY ElementOfSeq DEF TypeOK
<1> QED
  BY <1>1, RulesAssumption DEF Given

LEMMA PacketsCarried ==
    ASSUME TypeOK, NEW i \in 1..Len(carried)
    PROVE  /\ carried[i].packet \in Packets
           /\ carried[i].packet \in Pair
           /\ carried[i].symmetric \in BOOLEAN
           /\ carried[i].flow \in Nat
<1>1. carried[i] \in Carried
  BY ElementOfSeq DEF TypeOK
<1> QED
  BY <1>1, RulesAssumption DEF Carried

-----------------------------------------------------------------------------
(* The lookup.                                                             *)

\* A rule covers a packet exactly if its key is tried for the packet.
LEMMA CoversIsTried ==
    ASSUME TypeOK, NEW x \in Packets, NEW sym \in BOOLEAN,
           NEW r \in 1..Len(given)
    PROVE  Covers(r, x, sym)
             <=> \E i \in 1..4 : KeyOf(Tries(x)[i], sym) = KeyGiven(r)
<1>1. given[r].pattern \in Pair /\ given[r].symmetric \in BOOLEAN
  BY RulesGiven
<1>2. PICK p \in Pair, was \in BOOLEAN :
         p = given[r].pattern /\ was = given[r].symmetric
  BY <1>1
<1>3. Covers(r, x, sym) <=> Speaks(p, was, x, sym)
  BY <1>2, Zenon DEF Covers, Speaks
<1>4. KeyGiven(r) = KeyOf(p, was)
  BY <1>2 DEF KeyGiven
<1> QED
  BY <1>3, <1>4, SpeaksIsTried

\* The lookup finds something exactly if a rule covers the packet.
LEMMA FoundIfCovered ==
    ASSUME TypeOK, RulesByKey, NEW x \in Packets, NEW sym \in BOOLEAN
    PROVE  Found(x, sym) <=> \E r \in 1..Len(given) : Covers(r, x, sym)
<1>1. ASSUME Found(x, sym)
      PROVE  \E r \in 1..Len(given) : Covers(r, x, sym)
  <2>1. PICK i \in 1..4 : KeyOf(Tries(x)[i], sym) \in DOMAIN rules
    BY <1>1 DEF Found, Hits
  <2>2. PICK r : r = rules[KeyOf(Tries(x)[i], sym)]
    OBVIOUS
  <2>3. r \in 1..Len(given)
    BY <2>1, <2>2 DEF TypeOK
  <2>4. KeyGiven(r) = KeyOf(Tries(x)[i], sym)
    BY <2>1, <2>2 DEF RulesByKey
  <2> QED
    BY <2>3, <2>4, CoversIsTried
<1>2. ASSUME NEW r \in 1..Len(given), Covers(r, x, sym)
      PROVE  Found(x, sym)
  <2>1. PICK i \in 1..4 : KeyOf(Tries(x)[i], sym) = KeyGiven(r)
    BY <1>2, CoversIsTried
  <2>2. KeyGiven(r) \in DOMAIN rules
    BY DEF RulesByKey
  <2> QED
    BY <2>1, <2>2 DEF Found, Hits
<1> QED
  BY <1>1, <1>2

\* There is a first key that is found, and its rule is the one found.
LEMMA LookupAtFirst ==
    ASSUME NEW x, NEW sym, Found(x, sym)
    PROVE  \E i \in Hits(x, sym) :
             /\ \A j \in Hits(x, sym) : i <= j
             /\ Lookup(x, sym) = rules[KeyOf(Tries(x)[i], sym)]
<1>1. Hits(x, sym) \subseteq 1..4 /\ Hits(x, sym) # {}
  BY DEF Found, Hits
<1>2. \E i \in Hits(x, sym) : \A j \in Hits(x, sym) : i <= j
  <2>1. CASE 1 \in Hits(x, sym)
    BY <1>1, <2>1
  <2>2. CASE 1 \notin Hits(x, sym) /\ 2 \in Hits(x, sym)
    BY <1>1, <2>2
  <2>3. CASE /\ 1 \notin Hits(x, sym) /\ 2 \notin Hits(x, sym)
             /\ 3 \in Hits(x, sym)
    BY <1>1, <2>3
  <2>4. CASE /\ 1 \notin Hits(x, sym) /\ 2 \notin Hits(x, sym)
             /\ 3 \notin Hits(x, sym)
    BY <1>1, <2>4
  <2> QED
    BY <2>1, <2>2, <2>3, <2>4
<1> DEFINE first == CHOOSE i \in Hits(x, sym) : \A j \in Hits(x, sym) : i <= j
<1>3. first \in Hits(x, sym) /\ \A j \in Hits(x, sym) : first <= j
  BY <1>2
<1>4. Lookup(x, sym) = rules[KeyOf(Tries(x)[first], sym)]
  BY DEF Lookup
<1> HIDE DEF first
<1> QED
  BY <1>3, <1>4

\* It covers the packet, is at least as specific as any other one that does,
\* and was added before those with its key.
LEMMA LookupIsBest ==
    ASSUME TypeOK, RulesByKey, NEW x \in Packets, NEW sym \in BOOLEAN,
           Found(x, sym)
    PROVE  /\ Lookup(x, sym) \in 1..Len(given)
           /\ Covers(Lookup(x, sym), x, sym)
           /\ \A r \in 1..Len(given) :
                 Covers(r, x, sym) =>
                   /\ FixedPorts(r) <= FixedPorts(Lookup(x, sym))
                   /\ KeyGiven(r) = KeyGiven(Lookup(x, sym))
                        => Lookup(x, sym) <= r
<1>1. PICK i \in Hits(x, sym) :
         /\ \A j \in Hits(x, sym) : i <= j
         /\ Lookup(x, sym) = rules[KeyOf(Tries(x)[i], sym)]
  BY LookupAtFirst
<1>2. i \in 1..4 /\ KeyOf(Tries(x)[i], sym) \in DOMAIN rules
  BY DEF Hits
<1>3. PICK best : best = Lookup(x, sym)
  OBVIOUS
<1>4. best \in 1..Len(given)
  BY <1>1, <1>2, <1>3 DEF TypeOK
<1>5. KeyGiven(best) = KeyOf(Tries(x)[i], sym)
  BY <1>1, <1>2, <1>3 DEF RulesByKey
<1>6. Covers(best, x, sym)
  BY <1>2, <1>4, <1>5, CoversIsTried
<1>7. \A r \in 1..Len(given), k \in 1..4 :
         KeyGiven(r) = KeyOf(Tries(x)[k], sym)
           => FixedPorts(r) = Fixed(Tries(x)[k])
  <2> SUFFICES ASSUME NEW r \in 1..Len(given), NEW k \in 1..4,
                      KeyGiven(r) = KeyOf(Tries(x)[k], sym)
               PROVE  FixedPorts(r) = Fixed(Tries(x)[k])
    OBVIOUS
  <2>1. FixedPorts(r) = Fixed(given[r].pattern)
    BY DEF FixedPorts, Fixed
  <2>2. given[r].pattern \in Pair /\ given[r].symmetric \in BOOLEAN
    BY RulesGiven
  <2>3. Fixed(given[r].pattern) = Fixed(Tries(x)[k])
    BY <2>2, TriesArePairs, FixedByKey DEF KeyGiven
  <2> QED
    BY <2>1, <2>3
<1>8. ASSUME NEW r \in 1..Len(given), Covers(r, x, sym)
      PROVE  /\ FixedPorts(r) <= FixedPorts(best)
             /\ KeyGiven(r) = KeyGiven(best) => best <= r
  <2>1. PICK j \in 1..4 : KeyOf(Tries(x)[j], sym) = KeyGiven(r)
    BY <1>8, CoversIsTried
  <2>2. KeyGiven(r) \in DOMAIN rules /\ rules[KeyGiven(r)] <= r
    BY DEF RulesByKey
  <2>3. i <= j
    BY <1>1, <2>1, <2>2 DEF Hits
  <2>4. FixedPorts(r) = Fixed(Tries(x)[j]) /\ FixedPorts(best) = Fixed(Tries(x)[i])
    BY <1>2, <1>4, <1>5, <1>7, <2>1
  <2>5. Fixed(Tries(x)[j]) <= Fixed(Tries(x)[i])
    BY <1>2, <2>3, TriesDescend
  <2>6. best = rules[KeyGiven(best)]
    BY <1>1, <1>3, <1>5
  <2> QED
    BY <2>2, <2>4, <2>5, <2>6
<1> QED
  BY <1>3, <1>4, <1>6, <1>8

\* What covers a packet covers its conversation.
LEMMA CoversConversation ==
    ASSUME TypeOK, NEW sym \in BOOLEAN, NEW r \in 1..Len(given),
           NEW x \in Pair, NEW y \in Pair,
           SameConversation(x, y, sym), Covers(r, x, sym)
    PROVE  Covers(r, y, sym)
<1>1. PICK p \in Pair, was \in BOOLEAN :
         p = given[r].pattern /\ was = given[r].symmetric
  BY RulesGiven
<1>2. \A z : Covers(r, z, sym) <=> Speaks(p, was, z, sym)
  BY <1>1, Zenon DEF Covers, Speaks
<1>3. Speaks(p, was, y, sym)
  BY <1>2, SpeaksOfConversation
<1> QED
  BY <1>2, <1>3

-----------------------------------------------------------------------------
(* Tables that grow.                                                       *)

LEMMA InsertKeeps ==
    ASSUME NEW f, NEW k, NEW x
    PROVE  /\ DOMAIN Insert(f, k, x) = DOMAIN f \cup {k}
           /\ \A j \in DOMAIN f : Insert(f, k, x)[j] = f[j]
           /\ k \notin DOMAIN f => Insert(f, k, x)[k] = x
BY DEF Insert

\* A classifier gives a new tuple a new id.
LEMMA ClassifierNumbers ==
    ASSUME NEW ids, Numbering(ids), NEW t
    PROVE  Numbering(Insert(ids, t, NewFlowId(ids)))
<1> DEFINE n == Cardinality(DOMAIN ids)
           new == Insert(ids, t, NewFlowId(ids))
<1>1. IsFiniteSet(DOMAIN ids) /\ n \in Nat
  BY FS_CardinalityType DEF Numbering
<1>2. CASE t \in DOMAIN ids
  BY <1>2 DEF Insert
<1>3. CASE t \notin DOMAIN ids
  <2>1. DOMAIN new = DOMAIN ids \cup {t}
    BY InsertKeeps
  <2>2. IsFiniteSet(DOMAIN new) /\ Cardinality(DOMAIN new) = n + 1
    BY <1>1, <1>3, <2>1, FS_AddElement
  <2>3. \A u \in DOMAIN ids : new[u] = ids[u]
    BY DEF Insert
  <2>4. new[t] = n + 1
    BY <1>3, InsertKeeps DEF NewFlowId
  <2>5. /\ \A u \in DOMAIN ids : ids[u] \in 1..n
        /\ \A u, v \in DOMAIN ids : ids[u] = ids[v] => u = v
    BY DEF Numbering
  <2> HIDE DEF new, n
  <2>6. \A u \in DOMAIN new : new[u] \in 1..n + 1
    BY <1>1, <2>1, <2>3, <2>4, <2>5
  <2>7. \A u, v \in DOMAIN new : new[u] = new[v] => u = v
    BY <1>1, <2>1, <2>3, <2>4, <2>5
  <2>8. Numbering(new)
    BY <2>2, <2>6, <2>7 DEF Numbering
  <2> QED
    BY <2>8 DEF new
<1> QED
  BY <1>2, <1>3

-----------------------------------------------------------------------------
(* The invariant holds.                                                    *)

LEMMA Initially == Init => IInv
<1> SUFFICES ASSUME Init PROVE IInv
  OBVIOUS
<1>1. TypeOK
  BY DEF Init, TypeOK
<1>2. RulesByKey
  BY DEF Init, RulesByKey
<1>3. IdsNumbered
  <2> SUFFICES ASSUME NEW m \in BOOLEAN PROVE Numbering(flowIds[m])
    BY DEF IdsNumbered
  <2>1. DOMAIN flowIds[m] = {}
    BY DEF Init
  <2> QED
    BY <2>1, FS_EmptySet DEF Numbering
<1>4. FlowsById /\ StillCovered /\ FlowsGoOn
  BY DEF Init, FlowsById, StillCovered, FlowsGoOn
<1>5. TableByCreator
  BY DEF Init, TableByCreator
<1> QED
  BY <1>1, <1>2, <1>3, <1>4, <1>5 DEF IInv

\* The invariant says nothing of the mode now.
LEMMA SetSymmetricKeeps ==
    ASSUME IInv, NEW b \in BOOLEAN, SetSymmetric(b)
    PROVE  IInv'
<1>1. /\ symmetric' = b
      /\ UNCHANGED <<given, rules, flowIds, table, carried>>
  BY DEF SetSymmetric
<1>2. TypeOK'
  BY <1>1 DEF IInv, TypeOK
<1> QED
  BY <1>1, <1>2 DEF IInv, RulesByKey, KeyGiven, IdsNumbered, FlowsById,
     StillCovered, TableByCreator, FlowsGoOn, Covers

\* A rule with a key that is there already changes nothing.
LEMMA AddRuleKeeps ==
    ASSUME IInv, NEW x \in Patterns, AddRule(x)
    PROVE  IInv'
<1>1. PICK n : n = Len(given)
  OBVIOUS
<1>2. PICK k : k = KeyOf(x, symmetric)
  OBVIOUS
<1>3. /\ given \in Seq(Given) /\ n \in Nat /\ symmetric \in BOOLEAN
      /\ given' = Append(given, [pattern |-> x, symmetric |-> symmetric])
      /\ rules' = Insert(rules, k, n + 1)
      /\ UNCHANGED <<symmetric, flowIds, table, carried>>
  BY <1>1, <1>2 DEF IInv, TypeOK, AddRule
<1>4. [pattern |-> x, symmetric |-> symmetric] \in Given
  BY <1>3 DEF Given
<1>5. /\ given' \in Seq(Given) /\ Len(given') = n + 1
      /\ given'[n + 1] = [pattern |-> x, symmetric |-> symmetric]
      /\ \A r \in 1..n : given'[r] = given[r]
  BY <1>1, <1>3, <1>4, AppendIsSeq
<1>6. /\ DOMAIN rules' = DOMAIN rules \cup {k}
      /\ \A j \in DOMAIN rules : rules'[j] = rules[j]
      /\ k \notin DOMAIN rules => rules'[k] = n + 1
  BY <1>3 DEF Insert
<1>7. /\ \A j \in DOMAIN rules : rules[j] \in 1..n
      /\ \A j \in DOMAIN table : table[j] \in 1..n
  BY <1>1 DEF IInv, TypeOK
<1>8. k \in Pair
  BY <1>2, <1>3, RulesAssumption, KeyIsPair
<1> DEFINE key(g) == KeyOf(g.pattern, g.symmetric)
<1>9. /\ key(given'[n + 1]) = k
      /\ \A r \in 1..n : key(given'[r]) = KeyGiven(r)
  BY <1>2, <1>5 DEF KeyGiven
<1> HIDE DEF key
<1>10. TypeOK'
  <2>1. DOMAIN rules' \subseteq Pair
    BY <1>6, <1>8 DEF IInv, TypeOK
  <2>2. \A j \in DOMAIN rules' : rules'[j] \in 1..Len(given')
    BY <1>3, <1>5, <1>6, <1>7
  <2>3. \A j \in DOMAIN table' : table'[j] \in 1..Len(given')
    BY <1>3, <1>5, <1>7
  <2> QED
    BY <1>3, <1>5, <2>1, <2>2, <2>3 DEF IInv, TypeOK
<1>11. RulesByKey'
  <2>1. ASSUME NEW j \in DOMAIN rules'
        PROVE  key(given'[rules'[j]]) = j
    <3>1. CASE j \in DOMAIN rules
      <4>1. rules'[j] = rules[j] /\ rules[j] \in 1..n
        BY <1>6, <1>7, <3>1
      <4>2. KeyGiven(rules[j]) = j
        BY <3>1 DEF IInv, RulesByKey
      <4> QED
        BY <1>9, <4>1, <4>2
    <3>2. CASE j \notin DOMAIN rules
      BY <1>6, <1>9, <2>1, <3>2
    <3> QED
      BY <3>1, <3>2
  <2>2. ASSUME NEW r \in 1..Len(given')
        PROVE  /\ key(given'[r]) \in DOMAIN rules'
               /\ rules'[key(given'[r])] <= r
    <3>1. CASE r = n + 1
      <4>1. rules'[k] <= n + 1
        BY <1>3, <1>6, <1>7
      <4> QED
        BY <1>6, <1>9, <3>1, <4>1
    <3>2. CASE r \in 1..n
      <4>1. KeyGiven(r) \in DOMAIN rules /\ rules[KeyGiven(r)] <= r
        BY <1>1, <3>2 DEF IInv, RulesByKey
      <4> QED
        BY <1>6, <1>9, <3>2, <4>1
    <3> QED
      BY <1>3, <1>5, <3>1, <3>2
  <2> QED
    BY <2>1, <2>2 DEF RulesByKey, KeyGiven, key
<1>12. IdsNumbered' /\ FlowsById' /\ FlowsGoOn'
  BY <1>3 DEF IInv, IdsNumbered, FlowsById, FlowsGoOn
<1>13. StillCovered'
  <2> SUFFICES ASSUME NEW i \in 1..Len(carried), carried[i].flow # NoFlow
               PROVE  \E r \in 1..Len(given') :
                        Covers(r, carried[i].packet, carried[i].symmetric)'
    BY <1>3 DEF StillCovered
  <2>1. PICK r \in 1..n : Covers(r, carried[i].packet, carried[i].symmetric)
    BY <1>1 DEF IInv, StillCovered
  <2>2. r \in 1..Len(given')
    BY <1>3, <1>5
  <2>3. given'[r] = given[r] /\ carried' = carried
    BY <1>3, <1>5
  <2>4. Covers(r, carried[i].packet, carried[i].symmetric)'
    BY <2>1, <2>3 DEF Covers
  <2> QED
    BY <2>2, <2>4
<1>14. TableByCreator'
  <2> SUFFICES ASSUME NEW f \in DOMAIN table
               PROVE  \E c \in 1..Len(carried) :
                        /\ carried[c].flow = f
                        /\ Covers(table[f], carried[c].packet,
                                  carried[c].symmetric)'
    BY <1>3 DEF TableByCreator
  <2>1. PICK c \in 1..Len(carried) :
           /\ carried[c].flow = f
           /\ Covers(table[f], carried[c].packet, carried[c].symmetric)
    BY DEF IInv, TableByCreator
  <2>2. /\ given'[table[f]] = given[table[f]]
        /\ carried' = carried /\ table' = table
    BY <1>3, <1>5, <1>7
  <2>3. Covers(table[f], carried[c].packet, carried[c].symmetric)'
    BY <2>1, <2>2 DEF Covers
  <2> QED
    BY <2>1, <2>3
<1> QED
  BY <1>10, <1>11, <1>12, <1>13, <1>14 DEF IInv

\* What Delay does to the classifier.
LEMMA DelayNumbers ==
    ASSUME IInv, NEW x \in Packets, Delay(x)
    PROVE  LET t == FlowTuple(x, symmetric)
           IN /\ DOMAIN flowIds' = BOOLEAN
              /\ DOMAIN flowIds'[symmetric] = DOMAIN flowIds[symmetric] \cup {t}
              /\ \A u \in DOMAIN flowIds[symmetric] :
                    flowIds'[symmetric][u] = flowIds[symmetric][u]
              /\ flowIds'[symmetric][t] = FlowIdOf(x)
              /\ Numbering(flowIds'[symmetric])
              /\ FlowIdOf(x) \in Nat \ {NoFlow}
              /\ \A m \in BOOLEAN : m # symmetric => flowIds'[m] = flowIds[m]
<1>1. symmetric \in BOOLEAN /\ DOMAIN flowIds = BOOLEAN
  BY DEF IInv, TypeOK
<1>2. PICK t : t = FlowTuple(x, symmetric)
  OBVIOUS
<1>3. PICK ids : ids = flowIds[symmetric]
  OBVIOUS
<1>4. PICK new : new = Insert(ids, t, NewFlowId(ids))
  OBVIOUS
<1>5. flowIds' = [flowIds EXCEPT ![symmetric] = new]
  BY <1>2, <1>3, <1>4 DEF Delay, Classified
<1>6. /\ DOMAIN flowIds' = BOOLEAN /\ flowIds'[symmetric] = new
      /\ \A m \in BOOLEAN : m # symmetric => flowIds'[m] = flowIds[m]
  BY <1>1, <1>5
<1>7. Numbering(ids)
  BY <1>1, <1>3 DEF IInv, IdsNumbered
<1>8. FlowIdOf(x) = new[t]
  BY <1>2, <1>3, <1>4 DEF Classified, FlowIdOf
<1>9. DOMAIN new = DOMAIN ids \cup {t} /\ \A u \in DOMAIN ids : new[u] = ids[u]
  BY <1>4 DEF Insert
<1>10. Numbering(new)
  BY <1>4, <1>7, ClassifierNumbers
<1>11. new[t] \in 1..Cardinality(DOMAIN new)
  BY <1>9, <1>10 DEF Numbering
<1>12. FlowIdOf(x) \in Nat \ {NoFlow}
  BY <1>8, <1>11 DEF NoFlow
<1> QED
  BY <1>2, <1>3, <1>6, <1>8, <1>9, <1>10, <1>12

\* Delay: a flow that is found keeps its rule; one that is created gets a
\* rule that covers the packet.
LEMMA DelayKeeps ==
    ASSUME IInv, NEW x \in Packets, Delay(x)
    PROVE  IInv'
<1>1. PICK m \in BOOLEAN : m = symmetric
  BY DEF IInv, TypeOK
<1>2. PICK t : t = FlowTuple(x, m)
  OBVIOUS
<1>3. PICK id : id = FlowIdOf(x)
  OBVIOUS
<1>4. PICK n \in Nat : n = Len(carried)
  BY DEF IInv, TypeOK
<1>5. /\ DOMAIN flowIds' = BOOLEAN
      /\ DOMAIN flowIds'[m] = DOMAIN flowIds[m] \cup {t}
      /\ \A u \in DOMAIN flowIds[m] : flowIds'[m][u] = flowIds[m][u]
      /\ flowIds'[m][t] = id
      /\ Numbering(flowIds'[m])
      /\ id \in Nat \ {NoFlow}
      /\ \A w \in BOOLEAN : w # m => flowIds'[w] = flowIds[w]
  BY <1>1, <1>2, <1>3, DelayNumbers
<1>6. PICK e : e = IF Found(x, m) THEN [packet |-> x, symmetric |-> m, flow |-> id]
                   ELSE [packet |-> x, symmetric |-> m, flow |-> NoFlow]
  OBVIOUS
<1>7. /\ carried' = Append(carried, e)
      /\ Found(x, m) => table' = Insert(table, id, Lookup(x, m))
      /\ ~Found(x, m) => table' = table
      /\ UNCHANGED <<symmetric, given, rules>>
  BY <1>1, <1>3, <1>6 DEF Delay, CarriedIn
<1>8. /\ e \in Carried
      /\ e.packet = x /\ e.symmetric = m
      /\ Found(x, m) => e.flow = id
      /\ ~Found(x, m) => e.flow = NoFlow
  BY <1>5, <1>6 DEF Carried, NoFlow
<1>9. /\ carried' \in Seq(Carried) /\ Len(carried') = n + 1
      /\ carried'[n + 1] = e
      /\ \A i \in 1..n : carried'[i] = carried[i]
  <2>1. carried \in Seq(Carried)
    BY DEF IInv, TypeOK
  <2> QED
    BY <1>4, <1>7, <1>8, <2>1, AppendIsSeq
<1>10. Found(x, m) => /\ Lookup(x, m) \in 1..Len(given)
                      /\ Covers(Lookup(x, m), x, m)
  BY LookupIsBest DEF IInv
<1>11. /\ DOMAIN table' \subseteq DOMAIN table \cup {id}
       /\ DOMAIN table \subseteq DOMAIN table'
       /\ \A f \in DOMAIN table : table'[f] = table[f]
       /\ \A f \in DOMAIN table' : f \notin DOMAIN table =>
             f = id /\ Found(x, m) /\ table'[f] = Lookup(x, m)
       /\ Found(x, m) => id \in DOMAIN table'
  BY <1>7 DEF Insert
<1>12. t \in Pair
  BY <1>2, PacketsArePairs, KeyIsPair DEF FlowTuple
<1>13. TypeOK'
  <2>1. \A w \in BOOLEAN :
          /\ DOMAIN flowIds'[w] \subseteq Pair
          /\ \A u \in DOMAIN flowIds'[w] : flowIds'[w][u] \in Nat \ {NoFlow}
    <3> SUFFICES ASSUME NEW w \in BOOLEAN
                 PROVE  /\ DOMAIN flowIds'[w] \subseteq Pair
                        /\ \A u \in DOMAIN flowIds'[w] :
                              flowIds'[w][u] \in Nat \ {NoFlow}
      OBVIOUS
    <3>1. CASE w = m
      <4>1. \A u \in DOMAIN flowIds'[m] : flowIds'[m][u] \in Nat \ {NoFlow}
        BY <1>5 DEF Numbering, NoFlow
      <4> QED
        BY <1>5, <1>12, <3>1, <4>1 DEF IInv, TypeOK
    <3>2. CASE w # m
      BY <1>5, <3>2 DEF IInv, TypeOK
    <3> QED
      BY <3>1, <3>2
  <2>2. /\ DOMAIN table' \subseteq Nat \ {NoFlow}
        /\ \A f \in DOMAIN table' : table'[f] \in 1..Len(given)
    BY <1>5, <1>10, <1>11 DEF IInv, TypeOK
  <2> QED
    BY <1>5, <1>7, <1>9, <2>1, <2>2 DEF IInv, TypeOK
<1>14. RulesByKey'
  BY <1>7 DEF IInv, RulesByKey, KeyGiven
<1>15. IdsNumbered'
  <2> SUFFICES ASSUME NEW w \in BOOLEAN PROVE Numbering(flowIds'[w])
    BY DEF IdsNumbered, Numbering
  <2> QED
    BY <1>5 DEF IInv, IdsNumbered
<1>16. FlowsById'
  <2> SUFFICES ASSUME NEW i \in 1..Len(carried'), carried'[i].flow # NoFlow,
                      NEW w, w = carried'[i].symmetric,
                      NEW u, u = FlowTuple(carried'[i].packet, w)
               PROVE  /\ u \in DOMAIN flowIds'[w]
                      /\ flowIds'[w][u] = carried'[i].flow
                      /\ carried'[i].flow \in DOMAIN table'
    BY DEF FlowsById, FlowTuple, KeyOf, Canonical, Less, Reverse
  <2>1. CASE i \in 1..n
    <3>1. carried'[i] = carried[i]
      BY <1>9, <2>1
    <3>2. /\ u \in DOMAIN flowIds[w]
          /\ flowIds[w][u] = carried[i].flow
          /\ carried[i].flow \in DOMAIN table
      BY <1>4, <2>1, <3>1 DEF IInv, FlowsById
    <3>3. w \in BOOLEAN
      BY <1>4, <2>1, <3>1, PacketsCarried DEF IInv
    <3> QED
      BY <1>5, <1>11, <3>1, <3>2, <3>3
  <2>2. CASE i = n + 1
    <3>1. carried'[i] = e /\ Found(x, m) /\ w = m /\ u = t
      BY <1>2, <1>8, <1>9, <2>2
    <3> QED
      BY <1>5, <1>8, <1>11, <3>1
  <2> QED
    BY <1>9, <2>1, <2>2
<1>17. StillCovered'
  <2> SUFFICES ASSUME NEW i \in 1..n + 1, carried'[i].flow # NoFlow
               PROVE  \E r \in 1..Len(given) :
                        Covers(r, carried'[i].packet, carried'[i].symmetric)
    BY <1>7, <1>9 DEF StillCovered, Covers
  <2>1. CASE i \in 1..n
    <3>1. carried'[i] = carried[i]
      BY <1>9, <2>1
    <3>2. PICK r \in 1..Len(given) :
             Covers(r, carried[i].packet, carried[i].symmetric)
      BY <1>4, <2>1, <3>1 DEF IInv, StillCovered
    <3>3. Covers(r, carried'[i].packet, carried'[i].symmetric)
      BY <3>1, <3>2
    <3> QED
      BY <3>3
  <2>2. CASE i = n + 1
    <3>1. /\ carried'[i].packet = x /\ carried'[i].symmetric = m
          /\ Found(x, m)
      BY <1>8, <1>9, <2>2
    <3>2. Covers(Lookup(x, m), x, m)
      BY <1>10, <3>1
    <3>3. PICK r \in 1..Len(given) : r = Lookup(x, m)
      BY <1>10, <3>1
    <3>4. Covers(r, carried'[i].packet, carried'[i].symmetric)
      BY <3>1, <3>2, <3>3
    <3> QED
      BY <3>4
  <2> QED
    BY <2>1, <2>2
<1>18. TableByCreator'
  <2> SUFFICES ASSUME NEW f \in DOMAIN table'
               PROVE  \E c \in 1..n + 1 :
                        /\ carried'[c].flow = f
                        /\ Covers(table'[f], carried'[c].packet,
                                  carried'[c].symmetric)
    BY <1>7, <1>9 DEF TableByCreator, Covers
  <2>1. CASE f \in DOMAIN table
    <3>1. PICK c \in 1..n :
             /\ carried[c].flow = f
             /\ Covers(table[f], carried[c].packet, carried[c].symmetric)
      BY <1>4, <2>1 DEF IInv, TableByCreator
    <3>2. carried'[c] = carried[c] /\ table'[f] = table[f]
      BY <1>9, <1>11, <2>1
    <3>3. Covers(table'[f], carried'[c].packet, carried'[c].symmetric)
      BY <3>1, <3>2
    <3>4. c \in 1..n + 1
      OBVIOUS
    <3> QED
      BY <3>1, <3>2, <3>3, <3>4
  <2>2. CASE f \notin DOMAIN table
    <3>1. f = id /\ Found(x, m) /\ table'[f] = Lookup(x, m)
      BY <1>11, <2>2
    <3>2. /\ carried'[n + 1].packet = x /\ carried'[n + 1].symmetric = m
          /\ carried'[n + 1].flow = f
      BY <1>8, <1>9, <3>1
    <3>3. Covers(Lookup(x, m), x, m)
      BY <1>10, <3>1
    <3>4. Covers(table'[f], carried'[n + 1].packet,
                 carried'[n + 1].symmetric)
      BY <3>1, <3>2, <3>3
    <3>5. n + 1 \in 1..n + 1
      OBVIOUS
    <3> QED
      BY <3>2, <3>4, <3>5
  <2> QED
    BY <2>1, <2>2
<1>19. FlowsGoOn'
  <2> SUFFICES ASSUME NEW i \in 1..n + 1, NEW j \in 1..n + 1,
                      i < j, carried'[i].flow # NoFlow,
                      carried'[i].symmetric = carried'[j].symmetric,
                      SameConversation(carried'[i].packet, carried'[j].packet,
                                       carried'[i].symmetric)
               PROVE  carried'[j].flow # NoFlow
    BY <1>9, Zenon DEF FlowsGoOn, SameConversation, Reverse
  <2>1. i \in 1..n /\ carried'[i] = carried[i]
    BY <1>9
  <2>2. CASE j \in 1..n
    <3>1. carried'[j] = carried[j]
      BY <1>9, <2>2
    <3> QED
      BY <1>4, <2>1, <2>2, <3>1 DEF IInv, FlowsGoOn
  <2>3. CASE j = n + 1
    <3>1. carried'[j] = e /\ carried[i].symmetric = m
      BY <1>8, <1>9, <2>1, <2>3
    <3>2. PICK r \in 1..Len(given) : Covers(r, carried[i].packet, m)
      BY <1>4, <2>1, <3>1 DEF IInv, StillCovered
    <3>3. PICK y \in Pair : y = carried[i].packet
      BY <1>4, <2>1, PacketsCarried DEF IInv
    <3>4. SameConversation(y, x, m)
      BY <1>8, <2>1, <3>1, <3>3
    <3>5. Covers(r, x, m)
      BY <3>2, <3>3, <3>4, PacketsArePairs, CoversConversation DEF IInv
    <3>6. Found(x, m)
      BY <3>5, FoundIfCovered DEF IInv
    <3> QED
      BY <1>5, <1>8, <3>1, <3>6
  <2> QED
    BY <2>2, <2>3
<1> QED
  BY <1>13, <1>14, <1>15, <1>16, <1>17, <1>18, <1>19 DEF IInv

\* Every step keeps the invariant.
THEOREM Invariance == Spec => []IInv
<1>1. IInv /\ [Next]_vars => IInv'
  <2> SUFFICES ASSUME IInv, [Next]_vars PROVE IInv'
    OBVIOUS
  <2>1. CASE Next
    <3>1. ASSUME NEW b \in BOOLEAN, SetSymmetric(b) PROVE IInv'
      BY <3>1, SetSymmetricKeeps
    <3>2. ASSUME NEW x \in Patterns, AddRule(x) PROVE IInv'
      BY <3>2, AddRuleKeeps
    <3>3. ASSUME NEW x \in Packets, Delay(x) PROVE IInv'
      BY <3>3, DelayKeeps
    <3> QED
      BY <2>1, <3>1, <3>2, <3>3 DEF Next
  <2>2. CASE UNCHANGED vars
    BY <2>2 DEF vars, IInv, TypeOK, RulesByKey, KeyGiven, IdsNumbered,
       FlowsById, StillCovered, TableByCreator, FlowsGoOn, Covers
  <2> QED
    BY <2>1, <2>2
<1> QED
  BY <1>1, Initially, PTL DEF Spec

-----------------------------------------------------------------------------
(* The theorems.                                                           *)

\* DelayBoxRuleTable and the classifiers stay well typed.
THEOREM TypeCorrectness == Spec => []TypeOK
<1>1. IInv => TypeOK
  BY DEF IInv
<1> QED
  BY <1>1, Invariance, PTL

\* Lookup: the four lookups in their order find a rule exactly if one was
\* added that covers the packet, and take one that fixes as many ports as
\* any; also after changes of the mode between AddRule and the packet.
THEOREM BestMatch == Spec => []LookupIsBestMatch
<1>1. IInv => LookupIsBestMatch
  <2> SUFFICES ASSUME IInv, NEW x \in Packets
               PROVE  LET best     == Lookup(x, symmetric)
                          covering ==
                              {r \in 1..Len(given) : Covers(r, x, symmetric)}
                      IN /\ Found(x, symmetric) <=> covering # {}
                         /\ Found(x, symmetric) =>
                              /\ best \in covering
                              /\ \A r \in covering :
                                   /\ FixedPorts(r) <= FixedPorts(best)
                                   /\ KeyGiven(r) = KeyGiven(best) => best <= r
    BY DEF LookupIsBestMatch
  <2>1. PICK m \in BOOLEAN : m = symmetric
    BY DEF IInv, TypeOK
  <2>2. Found(x, m) <=> \E r \in 1..Len(given) : Covers(r, x, m)
    BY FoundIfCovered DEF IInv
  <2>3. Found(x, m) =>
          /\ Lookup(x, m) \in 1..Len(given)
          /\ Covers(Lookup(x, m), x, m)
          /\ \A r \in 1..Len(given) :
                Covers(r, x, m) =>
                  /\ FixedPorts(r) <= FixedPorts(Lookup(x, m))
                  /\ KeyGiven(r) = KeyGiven(Lookup(x, m)) => Lookup(x, m) <= r
    BY LookupIsBest DEF IInv
  <2> QED
    BY <2>1, <2>2, <2>3
<1> QED
  BY <1>1, Invariance, PTL

\* GetFlowId: two packets that came in one mode are in one flow exactly if
\* they are of the same conversation.
LEMMA OneFlowOneConversation == IInv => FlowsAreConversations
<1> SUFFICES ASSUME IInv, NEW i \in 1..Len(carried), NEW j \in 1..Len(carried),
                    carried[i].flow # NoFlow, carried[j].flow # NoFlow,
                    carried[i].symmetric = carried[j].symmetric
             PROVE  carried[i].flow = carried[j].flow
                      <=> SameConversation(carried[i].packet, carried[j].packet,
                                           carried[i].symmetric)
  BY DEF FlowsAreConversations
<1>1. PICK x \in Pair, y \in Pair, m \in BOOLEAN :
         /\ x = carried[i].packet /\ y = carried[j].packet
         /\ m = carried[i].symmetric
  BY PacketsCarried DEF IInv
<1>2. KeyOf(x, m) = KeyOf(y, m) <=> SameConversation(x, y, m)
  BY SameKey
<1>3. /\ KeyOf(x, m) \in DOMAIN flowIds[m]
      /\ flowIds[m][KeyOf(x, m)] = carried[i].flow
  BY <1>1 DEF IInv, FlowsById, FlowTuple
<1>4. /\ KeyOf(y, m) \in DOMAIN flowIds[m]
      /\ flowIds[m][KeyOf(y, m)] = carried[j].flow
  BY <1>1 DEF IInv, FlowsById, FlowTuple
<1>5. \A t, u \in DOMAIN flowIds[m] : flowIds[m][t] = flowIds[m][u] => t = u
  BY DEF IInv, IdsNumbered, Numbering
<1>6. carried[i].flow = carried[j].flow <=> KeyOf(x, m) = KeyOf(y, m)
  BY <1>3, <1>4, <1>5
<1> QED
  BY <1>1, <1>2, <1>6

THEOREM Conversations == Spec => []FlowsAreConversations
BY OneFlowOneConversation, Invariance, PTL

\* Delay: once a packet of a conversation was put in a flow, none that comes
\* later in the same mode is passed on without one.
THEOREM GoOn == Spec => []FlowsGoOn
<1>1. IInv => FlowsGoOn
  BY DEF IInv
<1> QED
  BY <1>1, Invariance, PTL

\* Delay: the rule of the flow a packet is put in covers the packet, as it
\* covers the one that created the flow, and both are of one conversation.
THEOREM OwnRule == Spec => []PacketsUnderTheirRule
<1>1. IInv => PacketsUnderTheirRule
  <2> SUFFICES ASSUME IInv, NEW i \in 1..Len(carried), NEW f,
                      f = carried[i].flow, f # NoFlow
               PROVE  /\ f \in DOMAIN table
                      /\ (\A j \in 1..Len(carried) : carried[j].flow = f
                            => carried[j].symmetric = carried[i].symmetric)
                         => Covers(table[f], carried[i].packet,
                                   carried[i].symmetric)
    BY DEF PacketsUnderTheirRule
  <2>1. f \in DOMAIN table
    BY DEF IInv, FlowsById
  <2>2. ASSUME \A j \in 1..Len(carried) : carried[j].flow = f
                 => carried[j].symmetric = carried[i].symmetric
        PROVE  Covers(table[f], carried[i].packet, carried[i].symmetric)
    <3>1. PICK c \in 1..Len(carried) :
             /\ carried[c].flow = f
             /\ Covers(table[f], carried[c].packet, carried[c].symmetric)
      BY <2>1 DEF IInv, TableByCreator
    <3>2. PICK r \in 1..Len(given) : r = table[f]
      BY <2>1 DEF IInv, TypeOK
    <3>3. PICK m \in BOOLEAN :
             m = carried[i].symmetric /\ m = carried[c].symmetric
      BY <2>2, <3>1, PacketsCarried DEF IInv
    <3>4. PICK x \in Pair, y \in Pair :
             x = carried[i].packet /\ y = carried[c].packet
      BY PacketsCarried DEF IInv
    <3>5. SameConversation(y, x, m)
      BY <3>1, <3>3, <3>4, OneFlowOneConversation DEF FlowsAreConversations
    <3>6. Covers(r, y, m)
      BY <3>1, <3>2, <3>3, <3>4
    <3>7. Covers(r, x, m)
      BY <3>5, <3>6, CoversConversation DEF IInv
    <3> QED
      BY <3>2, <3>3, <3>4, <3>7
  <2> QED
    BY <2>1, <2>2
<1> QED
  BY <1>1, Invariance, PTL
=============================================================================

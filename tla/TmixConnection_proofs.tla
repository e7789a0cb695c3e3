------------------------ MODULE TmixConnection_proofs ------------------------
(***************************************************************************)
(* No run of TmixConnection, for any set of acceptable vectors, reaches an *)
(* assertion, and sockets are closed only after all data was exchanged.    *)
(* It implements AduExchange: with the vector's ADUs counted by what is    *)
(* left in the queues of the two workers, each event is a step of the      *)
(* exchange or changes nothing of it.                                      *)
(*                                                                         *)
(* The second half is about when the ADUs leave: a side never answers more *)
(* ADUs than it received, the ADUs of a concurrent vector leave exactly    *)
(* when they are due, and when turns alternate a side has one event        *)
(* pending at most and no answer leaves before its time.                   *)
(***************************************************************************)
EXTENDS TmixConnection, SequenceTheorems, FiniteSetTheorems,
        WellFoundedInduction, TLAPS

-----------------------------------------------------------------------------
(* Natural numbers.                                                        *)

\* Every set of natural numbers has a least element: < is well-founded.
LEMMA NatMin ==
    ASSUME NEW T, T \subseteq Nat, T # {}
    PROVE  \E x \in T : \A y \in T : x <= y
  <1>. DEFINE R == {ss \in Nat \X Nat : ss[1] < ss[2]}
  <1>1. R = OpToRel(<, Nat)
    BY DEF OpToRel
  <1>2. IsWellFoundedOn(R, Nat)
    BY <1>1, NatLessThanWellFounded
  <1>3. \A x, y \in Nat : y < x => <<y, x>> \in R
    OBVIOUS
  <1>. HIDE DEF R
  <1>4. PICK x \in T : \A y \in T : ~ (<<y, x>> \in R)
    BY <1>2, WFMin
  <1>5. ASSUME NEW y \in T
        PROVE  x <= y
    <2>1. x \in Nat /\ y \in Nat
      OBVIOUS
    <2>2. ~ (<<y, x>> \in R)
      BY <1>4
    <2>3. ~ (y < x)
      BY <1>3, <2>1, <2>2
    <2>. QED
      BY <2>1, <2>3
  <1>. QED
    BY <1>5

\* Induction, on the set of numbers for which something holds.
LEMMA NatInd ==
    ASSUME NEW S, 0 \in S, \A n \in Nat : n \in S => n + 1 \in S
    PROVE  Nat \subseteq S
  <1>. DEFINE T == Nat \ S
  <1>1. SUFFICES ASSUME T # {}
                 PROVE  FALSE
    OBVIOUS
  <1>2. T \subseteq Nat
    OBVIOUS
  <1>. HIDE DEF T
  <1>3. PICK x \in T : \A y \in T : x <= y
    BY <1>1, <1>2, NatMin
  <1>. QED
    BY <1>3 DEF T

-----------------------------------------------------------------------------
(* The ADUs of a side.                                                     *)

\* How many of the first p ADUs of v are of s.
Rank(v, s, p) == Cardinality({j \in Places(v, s) : j <= p})

LEMMA RankStep ==
    ASSUME NEW v \in Seq(ADU), NEW s
    PROVE  /\ IsFiniteSet(Places(v, s))
           /\ Rank(v, s, 0) = 0
           /\ Rank(v, s, Len(v)) = Cardinality(Places(v, s))
           /\ \A p \in Nat : Rank(v, s, p) \in Nat
           /\ \A p \in 0..Len(v) - 1 :
                 Rank(v, s, p + 1) = IF v[p + 1].side = s THEN Rank(v, s, p) + 1
                                     ELSE Rank(v, s, p)
  <1>. DEFINE P(p) == {j \in Places(v, s) : j <= p}
  <1>1. Len(v) \in Nat
    BY LenProperties
  <1>2. IsFiniteSet(Places(v, s))
    <2>1. IsFiniteSet(1..Len(v))
      BY <1>1, FS_Interval
    <2>. QED
      BY <2>1, FS_Subset DEF Places
  <1>3. \A p \in Nat : IsFiniteSet(P(p))
    BY <1>2, FS_Subset
  <1>4. \A p \in Nat : Rank(v, s, p) \in Nat
    BY <1>3, FS_CardinalityType DEF Rank
  <1>5. P(0) = {} /\ P(Len(v)) = Places(v, s)
    BY <1>1 DEF Places
  <1>6. Rank(v, s, 0) = 0 /\ Rank(v, s, Len(v)) = Cardinality(Places(v, s))
    BY <1>5, FS_EmptySet DEF Rank
  <1>7. ASSUME NEW p \in 0..Len(v) - 1
        PROVE  Rank(v, s, p + 1) = IF v[p + 1].side = s THEN Rank(v, s, p) + 1
                                   ELSE Rank(v, s, p)
    <2>1. p \in Nat /\ p + 1 \in 1..Len(v)
      BY <1>1
    <2>2. CASE v[p + 1].side = s
      <3>1. P(p + 1) = P(p) \cup {p + 1} /\ p + 1 \notin P(p)
        BY <2>1, <2>2, <1>1 DEF Places
      <3>. HIDE DEF P
      <3>2. Cardinality(P(p) \cup {p + 1}) = Cardinality(P(p)) + 1
        BY <1>3, <2>1, <3>1, FS_AddElement
      <3>3. Cardinality(P(p + 1)) = Cardinality(P(p)) + 1
        BY <3>1, <3>2
      <3>. QED
        BY <2>2, <3>3 DEF P, Rank
    <2>3. CASE v[p + 1].side # s
      <3>1. P(p + 1) = P(p)
        BY <2>1, <2>3, <1>1 DEF Places
      <3>. QED
        BY <2>3, <3>1 DEF Rank
    <2>. QED
      BY <2>2, <2>3
  <1>. QED
    BY <1>2, <1>4, <1>6, <1>7

\* The rank only grows, and grows at each place.
LEMMA RankGrows ==
    ASSUME NEW v \in Seq(ADU), NEW s, NEW p \in Nat, NEW r \in 0..Len(v), p < r
    PROVE  /\ Rank(v, s, p) <= Rank(v, s, r)
           /\ r \in Places(v, s) => Rank(v, s, p) < Rank(v, s, r)
  <1>. DEFINE P(n) == {j \in Places(v, s) : j <= n}
  <1>1. Len(v) \in Nat
    BY LenProperties
  <1>2. \A n, m \in Nat : n <= m => Rank(v, s, n) <= Rank(v, s, m)
    <2>. SUFFICES ASSUME NEW n \in Nat, NEW m \in Nat, n <= m
                  PROVE  Rank(v, s, n) <= Rank(v, s, m)
      OBVIOUS
    <2>1. P(n) \subseteq P(m)
      BY <1>1 DEF Places
    <2>2. IsFiniteSet(P(m))
      BY RankStep, FS_Subset
    <2>. HIDE DEF P
    <2>3. Cardinality(P(n)) <= Cardinality(P(m))
      BY <2>1, <2>2, FS_Subset
    <2>. QED
      BY <2>3 DEF P, Rank
  <1>3. ASSUME r \in Places(v, s)
        PROVE  Rank(v, s, p) < Rank(v, s, r)
    <2>1. r - 1 \in 0..Len(v) - 1 /\ p <= r - 1 /\ r - 1 \in Nat /\ (r - 1) + 1 = r
      BY <1>1
    <2>2. Rank(v, s, r) = Rank(v, s, r - 1) + 1
      <3>1. v[(r - 1) + 1].side = s
        BY <1>3, <2>1 DEF Places
      <3>2. Rank(v, s, (r - 1) + 1) = Rank(v, s, r - 1) + 1
        BY <2>1, <3>1, RankStep
      <3>. QED
        BY <2>1, <3>2
    <2>3. Rank(v, s, p) <= Rank(v, s, r - 1)
      BY <1>2, <2>1
    <2>4. /\ Rank(v, s, p) \in Nat /\ Rank(v, s, r - 1) \in Nat
      BY <2>1, RankStep
    <2>. QED
      BY <2>2, <2>3, <2>4
  <1>4. r \in Nat /\ p <= r
    BY <1>1
  <1>. QED
    BY <1>2, <1>3, <1>4

\* There is one place of each rank: the first one up to which there are that
\* many.
LEMMA PlaceOfRank ==
    ASSUME NEW v \in Seq(ADU), NEW s, NEW i \in 1..Cardinality(Places(v, s))
    PROVE  /\ PlaceOf(v, s, i) \in Places(v, s)
           /\ Rank(v, s, PlaceOf(v, s, i)) = i
           /\ \A p \in Places(v, s) : Rank(v, s, p) = i => p = PlaceOf(v, s, i)
  <1>. DEFINE T == {p \in 0..Len(v) : Rank(v, s, p) >= i}
  <1>1. /\ Len(v) \in Nat /\ Cardinality(Places(v, s)) \in Nat
        /\ Rank(v, s, 0) = 0
        /\ Rank(v, s, Len(v)) = Cardinality(Places(v, s))
        /\ \A p \in Nat : Rank(v, s, p) \in Nat
    BY LenProperties, RankStep
  <1>2. T \subseteq Nat /\ Len(v) \in T
    BY <1>1
  <1>3. PICK x \in T : \A y \in T : x <= y
    <2>. HIDE DEF T
    <2>. QED
      BY <1>2, NatMin
  <1>4. x \in 1..Len(v) /\ x - 1 \in 0..Len(v) - 1 /\ (x - 1) + 1 = x
    BY <1>1, <1>3
  <1>5. Rank(v, s, x - 1) < i
    <2>1. x - 1 \notin T
      BY <1>3, <1>4, <1>2
    <2>2. x - 1 \in 0..Len(v) /\ x - 1 \in Nat
      BY <1>1, <1>4
    <2>3. ~ (Rank(v, s, x - 1) >= i)
      BY <2>1, <2>2
    <2>. QED
      BY <1>1, <2>2, <2>3
  <1>6. Rank(v, s, x) = i /\ x \in Places(v, s)
    <2>1. Rank(v, s, x) = IF v[x].side = s THEN Rank(v, s, x - 1) + 1
                          ELSE Rank(v, s, x - 1)
      BY <1>4, RankStep
    <2>2. Rank(v, s, x) >= i /\ Rank(v, s, x - 1) \in Nat
      BY <1>1, <1>3, <1>4
    <2>. QED
      BY <1>4, <1>5, <2>1, <2>2 DEF Places
  <1>7. PlaceOf(v, s, i)
          = CHOOSE p \in Places(v, s) : Rank(v, s, p) = i
    BY DEF PlaceOf, Rank
  <1>8. PlaceOf(v, s, i) \in Places(v, s) /\ Rank(v, s, PlaceOf(v, s, i)) = i
    BY <1>6, <1>7
  <1>9. \A p, r \in Places(v, s) : Rank(v, s, p) = Rank(v, s, r) => p = r
    <2>. SUFFICES ASSUME NEW p \in Places(v, s), NEW r \in Places(v, s),
                         Rank(v, s, p) = Rank(v, s, r), p < r
                  PROVE  FALSE
      <3>1. \A p \in Places(v, s) : p \in Nat
        BY DEF Places
      <3>. QED
        BY <3>1
    <2>1. p \in Nat /\ r \in 0..Len(v) /\ Rank(v, s, p) \in Nat
      BY <1>1 DEF Places
    <2>. QED
      BY <2>1, RankGrows
  <1>. QED
    BY <1>8, <1>9

LEMMA AdusType ==
    ASSUME NEW v \in Seq(ADU), NEW s
    PROVE  /\ Adus(v, s) \in Seq(ADU)
           /\ Len(Adus(v, s)) = Rank(v, s, Len(v))
           /\ \A i \in 1..Len(Adus(v, s)) :
                 /\ PlaceOf(v, s, i) \in Places(v, s)
                 /\ Rank(v, s, PlaceOf(v, s, i)) = i
                 /\ Adus(v, s)[i] = v[PlaceOf(v, s, i)]
  <1>. DEFINE n == Cardinality(Places(v, s))
  <1>1. n \in Nat /\ Rank(v, s, Len(v)) = n
    BY RankStep, LenProperties
  <1>2. \A i \in 1..n : /\ PlaceOf(v, s, i) \in Places(v, s)
                        /\ Rank(v, s, PlaceOf(v, s, i)) = i
    BY PlaceOfRank
  <1>3. \A p \in Places(v, s) : v[p] \in ADU
    BY ElementOfSeq DEF Places
  <1>4. Adus(v, s) = [i \in 1..n |-> v[PlaceOf(v, s, i)]]
    BY DEF Adus
  <1>. HIDE DEF n
  <1>5. Adus(v, s) \in Seq(ADU) /\ Len(Adus(v, s)) = n
    BY <1>1, <1>2, <1>3, <1>4
  <1>. QED
    BY <1>1, <1>2, <1>4, <1>5

\* The vectors that may be replayed are as the constructor accepts them.
LEMMA AcceptedVector ==
    ASSUME NEW v \in Vectors, NEW s \in Sides
    PROVE  /\ v \in Seq(ADU)
           /\ Adus(v, s) \in Seq(ADU)
           /\ Accepted(Adus(v, s))
           /\ OneWait(Adus(v, s))
           /\ FirstDoesNotFollowASend(Adus(v, s))
  BY VectorsAssumption, AdusType

-----------------------------------------------------------------------------
(* The queue operators.                                                    *)

LEMMA PeerProperties ==
    \A s \in Sides : /\ Peer(s) \in Sides
                     /\ Peer(s) # s
                     /\ Peer(Peer(s)) = s
                     /\ \A t \in Sides : t = s \/ t = Peer(s)
  BY DEF Sides, Peer

LEMMA ExceptType ==
    ASSUME NEW S, NEW f \in [Sides -> S], NEW s, NEW x \in S
    PROVE  [f EXCEPT ![s] = x] \in [Sides -> S]
  OBVIOUS

\* Dropping the first n elements.
LEMMA DropProperties ==
    ASSUME NEW S, NEW q \in Seq(S), NEW n \in 0..Len(q)
    PROVE  /\ Drop(q, n) \in Seq(S)
           /\ Len(Drop(q, n)) = Len(q) - n
           /\ \A i \in 1..Len(q) - n : Drop(q, n)[i] = q[n + i]
  <1>1. Len(q) \in Nat /\ n \in Nat
    BY LenProperties
  <1>2. \A i \in n + 1..Len(q) : q[i] \in S
    BY <1>1, ElementOfSeq
  <1>3. /\ SubSeq(q, n + 1, Len(q)) \in Seq(S)
        /\ Len(SubSeq(q, n + 1, Len(q)))
             = IF n + 1 <= Len(q) THEN Len(q) - (n + 1) + 1 ELSE 0
        /\ \A i \in 1..Len(q) - (n + 1) + 1 :
              SubSeq(q, n + 1, Len(q))[i] = q[n + 1 + i - 1]
    BY <1>1, <1>2, SubSeqProperties
  <1>. QED
    BY <1>1, <1>3 DEF Drop

\* A queue keeps its closing ADU at the end.
LEMMA DropAccepted ==
    ASSUME NEW q \in Seq(ADU), NEW n \in 0..Len(q), Accepted(q)
    PROVE  Accepted(Drop(q, n))
  <1>1. Len(q) \in Nat
    BY LenProperties
  <1>2. /\ Len(Drop(q, n)) = Len(q) - n
        /\ \A i \in 1..Len(q) - n : Drop(q, n)[i] = q[n + i]
    BY DropProperties
  <1>3. \A i \in 1..Len(q) - n : n + i \in 1..Len(q)
    BY <1>1
  <1>. QED
    BY <1>1, <1>2, <1>3 DEF Accepted

\* What DataLeft counts, and that a drained queue is one without data.
LEMMA DataLeftProperties ==
    ASSUME NEW q \in Seq(ADU)
    PROVE  /\ DataLeft(q) \in Nat
           /\ DataLeft(q) <= Len(q)
           /\ Drained(q) <=> DataLeft(q) = 0
  <1>1. Len(q) \in Nat /\ (q # <<>> => Len(q) \in Nat \ {0})
    BY EmptySeq
  <1>2. q = <<>> => Len(q) = 0
    BY EmptySeq
  <1>. QED
    BY <1>1, <1>2 DEF DataLeft, Drained

\* Receiving n data ADUs takes n off the count.
LEMMA DataLeftDrop ==
    ASSUME NEW q \in Seq(ADU), NEW n \in 0..DataLeft(q)
    PROVE  /\ n \in 0..Len(q)
           /\ DataLeft(Drop(q, n)) = DataLeft(q) - n
  <1>1. /\ DataLeft(q) \in Nat /\ DataLeft(q) <= Len(q)
        /\ Len(q) \in Nat
        /\ q # <<>> => Len(q) # 0
    BY DataLeftProperties, EmptySeq
  <1>2. n \in 0..Len(q)
    BY <1>1
  <1>3. /\ Drop(q, n) \in Seq(ADU)
        /\ Len(Drop(q, n)) = Len(q) - n
        /\ \A i \in 1..Len(q) - n : Drop(q, n)[i] = q[n + i]
    BY <1>2, DropProperties
  <1>4. CASE n = Len(q)
    <2>1. Drop(q, n) = <<>>
      BY <1>3, <1>4, EmptySeq
    <2>. QED
      BY <1>1, <1>2, <1>4, <2>1, EmptySeq DEF DataLeft
  <1>5. CASE n # Len(q)
    <2>1. Len(q) - n \in 1..Len(q) - n
      BY <1>1, <1>2, <1>5
    <2>2. Drop(q, n)[Len(Drop(q, n))] = q[Len(q)]
      BY <1>1, <1>2, <1>3, <2>1
    <2>3. Drop(q, n) # <<>> /\ q # <<>>
      BY <1>1, <1>2, <1>3, <1>5, EmptySeq
    <2>. QED
      BY <1>1, <1>2, <1>3, <2>2, <2>3 DEF DataLeft
  <1>. QED
    BY <1>2, <1>4, <1>5

\* A burst that sends data, and one that does not.
LEMMA DataLeftBurst ==
    ASSUME NEW q \in Seq(ADU), q # <<>>, Accepted(q), NEW n \in 1..Len(q)
    PROVE  /\ DataLeft(q) - DataLeft(Drop(q, n)) \in Nat
           /\ DataLeft(q) = DataLeft(Drop(q, n)) => Drop(q, n) = <<>>
           /\ \A i \in 1..n : q[i].size = 0 => i = Len(q)
  <1>1. /\ Len(q) \in Nat \ {0}
        /\ DataLeft(q) \in Nat /\ DataLeft(q) <= Len(q)
    BY DataLeftProperties, EmptySeq
  <1>2. n \in 0..Len(q)
    BY <1>1
  <1>3. CASE n <= DataLeft(q)
    <2>1. DataLeft(Drop(q, n)) = DataLeft(q) - n
      BY <1>1, <1>3, DataLeftDrop
    <2>. QED
      BY <1>1, <1>3, <2>1 DEF Accepted
  <1>4. CASE n > DataLeft(q)
    <2>1. n = Len(q)
      BY <1>1, <1>4 DEF DataLeft
    <2>2. Drop(q, n) = <<>>
      BY <1>2, <2>1, DropProperties, EmptySeq
    <2>3. DataLeft(Drop(q, n)) = 0
      BY <2>2, EmptySeq DEF DataLeft
    <2>. QED
      BY <1>1, <2>2, <2>3 DEF Accepted
  <1>. QED
    BY <1>1, <1>3, <1>4

-----------------------------------------------------------------------------
(* The inductive invariant.                                                *)

\* The vectors stay as the constructor accepted them.
QueuesAccepted ==
    \A s \in Sides : Accepted(toSend[s]) /\ Accepted(toRecv[s])

\* What a side has still to receive is in flight or still to be sent.
Conserved ==
    \A s \in Sides :
      DataLeft(toRecv[s]) = inflight[s] + DataLeft(toSend[Peer(s)])

\* A side that closed has nothing left, up to the closing ADU.
ClosedDrained ==
    \A s \in Sides :
      closed[s] => DataLeft(toSend[s]) = 0 /\ DataLeft(toRecv[s]) = 0

\* A FIN comes from a closed peer and after all its data.
FinIsLast ==
    \A s \in Sides :
      /\ fin[s] # "none" => closed[Peer(s)]
      /\ fin[s] = "seen" => inflight[s] = 0

\* A side that closed before it saw the FIN popped its closing ADU.
CloserSentAll ==
    \A s \in Sides : closed[s] /\ fin[s] # "seen" => toSend[s] = <<>>

\* Only after a send does a side wait for sendWait.
WaitsAfterASend ==
    \A s \in Sides :
      lastSend[s] < 0 /\ toSend[s] # <<>> => toSend[s][1].sendWait = 0

Inv ==
    /\ TypeOK
    /\ NoFatal
    /\ QueuesAccepted
    /\ Conserved
    /\ ClosedDrained
    /\ FinIsLast
    /\ CloserSentAll
    /\ WaitsAfterASend

LEMMA InitInv == Init => Inv
  <1>. SUFFICES ASSUME Init
                PROVE  Inv
    OBVIOUS
  <1>1. /\ cvec \in Seq(ADU)
        /\ \A s \in Sides : /\ Adus(cvec, s) \in Seq(ADU)
                            /\ Accepted(Adus(cvec, s))
                            /\ FirstDoesNotFollowASend(Adus(cvec, s))
    BY AcceptedVector, VectorsAssumption DEF Init
  <1>2. \A s \in Sides : DataLeft(Adus(cvec, s)) \in Nat
    BY <1>1, DataLeftProperties
  <1>3. TypeOK
    BY <1>1, PeerProperties, MaxRetriesAssumption, EmptySeq
    DEF Init, TypeOK
  <1>4. QueuesAccepted
    BY <1>1, PeerProperties DEF Init, QueuesAccepted
  <1>5. Conserved
    BY <1>2, PeerProperties DEF Init, Conserved
  <1>6. ClosedDrained /\ FinIsLast /\ CloserSentAll /\ NoFatal
    BY DEF Init, ClosedDrained, FinIsLast, CloserSentAll, NoFatal
  <1>7. WaitsAfterASend
    BY <1>1 DEF Init, WaitsAfterASend, FirstDoesNotFollowASend
  <1>. QED
    BY <1>3, <1>4, <1>5, <1>6, <1>7 DEF Inv

-----------------------------------------------------------------------------
(* The shared functions of Worker.                                         *)

LEMMA TypeOfADU ==
    ASSUME NEW a \in ADU
    PROVE  a.sendWait \in Nat /\ a.recvWait \in Nat /\ a.size \in Nat
  BY DEF ADU

LEMMA OneTimer ==
    ASSUME NEW t \in Nat
    PROVE  <<t>> \in Seq(Nat)
  OBVIOUS

\* ScheduleNextSend with a waiting ADU keeps types and does not fail, if
\* something was sent before an ADU that waits for sendWait.
LEMMA WaitForNextStep ==
    ASSUME TypeOK, NEW s \in Sides, NEW a \in ADU, NEW pending \in Seq(Nat),
           NEW sent \in Nat \cup {-1},
           a.sendWait > 0 => sent >= 0,
           WaitForNext(s, a, pending, sent)
    PROVE  /\ fatal' = fatal
           /\ timers' \in [Sides -> Seq(Nat)]
           /\ lastRecv' \in [Sides -> Nat \cup {-1}]
  <1>1. /\ now \in Nat
        /\ timers \in [Sides -> Seq(Nat)]
        /\ lastRecv \in [Sides -> Nat \cup {-1}]
    BY DEF TypeOK
  <1>2. lastRecv[s] \in Nat \cup {-1}
    BY <1>1
  <1>3. \A t \in Nat : NotBefore(t) \in Nat
    BY <1>1 DEF NotBefore
  <1>4. Wakeups(a, sent, lastRecv[s]) \in Seq(Nat)
    <2>1. CASE a.sendWait > 0
      <3>1. sent + a.sendWait \in Nat
        BY <2>1, TypeOfADU
      <3>2. <<NotBefore(sent + a.sendWait)>> \in Seq(Nat)
        BY <1>3, <3>1, OneTimer
      <3>. QED
        BY <2>1, <3>2 DEF Wakeups
    <2>2. CASE ~(a.sendWait > 0) /\ lastRecv[s] < 0
      BY <2>2 DEF Wakeups
    <2>3. CASE ~(a.sendWait > 0) /\ ~(lastRecv[s] < 0)
      <3>1. lastRecv[s] + a.recvWait \in Nat
        BY <1>2, <2>3, TypeOfADU
      <3>2. <<NotBefore(lastRecv[s] + a.recvWait)>> \in Seq(Nat)
        BY <1>3, <3>1, OneTimer
      <3>. QED
        BY <2>3, <3>2 DEF Wakeups
    <2>. QED
      BY <2>1, <2>2, <2>3
  <1>5. pending \o Wakeups(a, sent, lastRecv[s]) \in Seq(Nat)
    BY <1>4, ConcatProperties
  <1>6. ~(a.sendWait > 0 /\ sent < 0)
    OBVIOUS
  <1>. QED
    BY <1>1, <1>5, <1>6 DEF WaitForNext

\* CloseIfDone closes this side only, only when both queues are drained,
\* and then the peer is sent a FIN.
LEMMA CloseIfDoneStep ==
    ASSUME TypeOK, FinIsLast, NEW s \in Sides, NEW q \in Seq(ADU),
           CloseIfDone(s, q)
    PROVE  /\ closed' \in [Sides -> BOOLEAN]
           /\ fin' \in [Sides -> {"none", "sent", "seen"}]
           /\ \A t \in Sides : closed[t] => closed'[t]
           /\ \A t \in Sides : closed'[t] =>
                 closed[t] \/ (t = s /\ Drained(q) /\ Drained(toRecv[s]))
           /\ \A t \in Sides : fin'[t] # "none" => closed'[Peer(t)]
           /\ \A t \in Sides : fin'[t] = "seen" <=> fin[t] = "seen"
  <1>1. /\ closed \in [Sides -> BOOLEAN]
        /\ fin \in [Sides -> {"none", "sent", "seen"}]
        /\ \A t \in Sides : fin[t] # "none" => closed[Peer(t)]
    BY DEF TypeOK, FinIsLast
  <1>2. CASE Drained(q) /\ Drained(toRecv[s])
    <2>1. /\ closed' = [closed EXCEPT ![s] = TRUE]
          /\ fin' = [fin EXCEPT
                       ![Peer(s)] = IF @ = "none" THEN "sent" ELSE @]
      BY <1>2 DEF CloseIfDone
    <2>2. \A t \in Sides : closed'[t] <=> closed[t] \/ t = s
      BY <1>1, <2>1
    <2>3. /\ fin' \in [Sides -> {"none", "sent", "seen"}]
          /\ \A t \in Sides : fin'[t] = IF t = Peer(s) /\ fin[t] = "none"
                                       THEN "sent" ELSE fin[t]
      BY <1>1, <2>1, PeerProperties
    <2>4. \A t \in Sides : fin'[t] # "none" => closed'[Peer(t)]
      BY <1>1, <2>2, <2>3, PeerProperties
    <2>. QED
      BY <1>1, <1>2, <2>1, <2>2, <2>3, <2>4
  <1>3. CASE ~(Drained(q) /\ Drained(toRecv[s]))
    <2>1. closed' = closed /\ fin' = fin
      BY <1>3 DEF CloseIfDone
    <2>2. /\ closed' \in [Sides -> BOOLEAN]
          /\ fin' \in [Sides -> {"none", "sent", "seen"}]
      BY <1>1, <2>1
    <2>3. \A t \in Sides : fin'[t] # "none" => closed'[Peer(t)]
      BY <1>1, <2>1
    <2>4. \A t \in Sides : fin'[t] = "seen" <=> fin[t] = "seen"
      BY <2>1
    <2>5. \A t \in Sides : closed'[t] = closed[t]
      BY <2>1
    <2>. QED
      BY <2>2, <2>3, <2>4, <2>5
  <1>. QED
    BY <1>2, <1>3

\* A DoSend event, with the immediate ADUs it takes along, keeps Inv.
LEMMA SendBurstStep ==
    ASSUME Inv, NEW s \in Sides, NEW pending \in Seq(Nat),
           toSend[s] # <<>>, SendBurst(s, pending),
           conn' \in [Sides -> {"idle", "listening", "connecting", "open"}],
           UNCHANGED <<now, cvec, retries, toRecv, notified, freed, heardAt>>
    PROVE  Inv'
  <1>. USE DEF Inv
  <1>1. PICK n \in 1..Len(toSend[s]) :
          LET rest == Drop(toSend[s], n)
              data == DataLeft(toSend[s]) - DataLeft(rest)
              sent == IF data > 0 THEN now ELSE lastSend[s]
              bad  == IF data > 0 /\ closed[s] THEN "notConnected"
                      ELSE IF \E i \in 1..n : toSend[s][i].size = 0
                                              /\ i < Len(toSend[s])
                      THEN "zeroSizeNotLast" ELSE "none"
          IN /\ IsBurst(toSend[s], n)
             /\ toSend' = [toSend EXCEPT ![s] = rest]
             /\ lastSend' = [lastSend EXCEPT ![s] = sent]
             /\ inflight' = [inflight EXCEPT ![Peer(s)] = @ + data]
             /\ IF bad # "none"
                THEN /\ fatal' = bad
                     /\ timers' = [timers EXCEPT ![s] = pending]
                     /\ UNCHANGED <<lastRecv, closed, fin>>
                ELSE IF rest = <<>>
                THEN /\ CloseIfDone(s, rest)
                     /\ timers' = [timers EXCEPT ![s] = pending]
                     /\ UNCHANGED <<lastRecv, fatal>>
                ELSE /\ WaitForNext(s, rest[1], pending, sent)
                     /\ UNCHANGED <<closed, fin>>
    BY DEF SendBurst, Burst, DataIn
  <1>. DEFINE rest == Drop(toSend[s], n)
              data == DataLeft(toSend[s]) - DataLeft(rest)
              sent == IF data > 0 THEN now ELSE lastSend[s]
  <1>2. /\ toSend[s] \in Seq(ADU) /\ Accepted(toSend[s])
        /\ toRecv[s] \in Seq(ADU)
        /\ lastSend[s] \in Nat \cup {-1}
        /\ now \in Nat
        /\ Len(toSend[s]) \in Nat
    BY LenProperties DEF TypeOK, QueuesAccepted
  <1>3. /\ rest \in Seq(ADU) /\ Accepted(rest)
        /\ DataLeft(rest) \in Nat /\ DataLeft(toSend[s]) \in Nat
        /\ data \in Nat
        /\ data = 0 => rest = <<>>
        /\ \A i \in 1..n : toSend[s][i].size = 0 => i = Len(toSend[s])
    <2>1. n \in 0..Len(toSend[s])
      BY <1>2
    <2>2. rest \in Seq(ADU) /\ Accepted(rest)
      BY <1>2, <2>1, DropProperties, DropAccepted
    <2>3. DataLeft(rest) \in Nat /\ DataLeft(toSend[s]) \in Nat
      BY <1>2, <2>2, DataLeftProperties
    <2>. QED
      BY <1>2, <2>2, <2>3, DataLeftBurst
  <1>4. ~(data > 0 /\ closed[s])
    BY <1>3 DEF ClosedDrained
  <1>5. ~ \E i \in 1..n : toSend[s][i].size = 0 /\ i < Len(toSend[s])
    BY <1>2, <1>3
  <1>6. /\ toSend' = [toSend EXCEPT ![s] = rest]
        /\ lastSend' = [lastSend EXCEPT ![s] = sent]
        /\ inflight' = [inflight EXCEPT ![Peer(s)] = @ + data]
        /\ rest = <<>> => /\ CloseIfDone(s, rest)
                          /\ timers' = [timers EXCEPT ![s] = pending]
                          /\ UNCHANGED <<lastRecv, fatal>>
        /\ rest # <<>> => /\ WaitForNext(s, rest[1], pending, sent)
                          /\ UNCHANGED <<closed, fin>>
    BY <1>1, <1>4, <1>5
  <1>7. /\ sent \in Nat \cup {-1}
        /\ rest # <<>> => sent = now
    BY <1>2, <1>3
  <1>. HIDE DEF rest, data, sent
  <1>8. /\ fatal' = fatal
        /\ timers' \in [Sides -> Seq(Nat)]
        /\ lastRecv' \in [Sides -> Nat \cup {-1}]
    <2>1. CASE rest = <<>>
      <3>1. /\ timers' = [timers EXCEPT ![s] = pending]
            /\ lastRecv' = lastRecv /\ fatal' = fatal
        BY <1>6, <2>1
      <3>2. /\ timers \in [Sides -> Seq(Nat)]
            /\ lastRecv \in [Sides -> Nat \cup {-1}]
        BY DEF TypeOK
      <3> QED
        BY <3>1, <3>2
    <2>2. CASE rest # <<>>
      <3>1. rest[1] \in ADU
        BY <1>3, <2>2, EmptySeq, ElementOfSeq
      <3>2. WaitForNext(s, rest[1], pending, sent)
        BY <1>6, <2>2
      <3>3. sent >= 0
        BY <1>2, <1>7, <2>2
      <3>. QED
        BY <1>7, <3>1, <3>2, <3>3, WaitForNextStep
    <2>. QED
      BY <2>1, <2>2
  <1>9. /\ closed' \in [Sides -> BOOLEAN]
        /\ fin' \in [Sides -> {"none", "sent", "seen"}]
        /\ \A t \in Sides : closed'[t] =>
              closed[t] \/ (t = s /\ rest = <<>> /\ Drained(toRecv[s]))
        /\ \A t \in Sides : fin'[t] # "none" => closed'[Peer(t)]
        /\ \A t \in Sides : fin'[t] = "seen" <=> fin[t] = "seen"
    <2>1. CASE rest = <<>>
      <3>1. CloseIfDone(s, rest)
        BY <1>6, <2>1
      <3>. QED
        BY <1>3, <2>1, <3>1, CloseIfDoneStep
    <2>2. CASE rest # <<>>
      <3>1. closed' = closed /\ fin' = fin
        BY <1>6, <2>2
      <3>2. /\ closed \in [Sides -> BOOLEAN]
            /\ fin \in [Sides -> {"none", "sent", "seen"}]
            /\ \A t \in Sides : fin[t] # "none" => closed[Peer(t)]
        BY DEF TypeOK, FinIsLast
      <3>3. /\ closed' \in [Sides -> BOOLEAN]
            /\ fin' \in [Sides -> {"none", "sent", "seen"}]
        BY <3>1, <3>2
      <3>4. \A t \in Sides : fin'[t] # "none" => closed'[Peer(t)]
        BY <3>1, <3>2
      <3>5. \A t \in Sides : fin'[t] = "seen" <=> fin[t] = "seen"
        BY <3>1
      <3>6. \A t \in Sides : closed'[t] = closed[t]
        BY <3>1
      <3>. QED
        BY <3>3, <3>4, <3>5, <3>6
    <2>. QED
      BY <2>1, <2>2
  <1>10. TypeOK'
    <2>1. toSend' \in [Sides -> Seq(ADU)]
      BY <1>3, <1>6 DEF TypeOK
    <2>2. lastSend' \in [Sides -> Nat \cup {-1}]
      <3>1. lastSend \in [Sides -> Nat \cup {-1}]
        BY DEF TypeOK
      <3>2. lastSend' = [lastSend EXCEPT ![s] = sent]
        BY <1>6
      <3>3. sent \in Nat \cup {-1}
        BY <1>7
      <3>. QED
        BY <3>1, <3>2, <3>3, ExceptType
    <2>3. inflight' \in [Sides -> Nat]
      <3>1. inflight \in [Sides -> Nat]
        BY DEF TypeOK
      <3>2. inflight' = [inflight EXCEPT ![Peer(s)] = @ + data]
        BY <1>6
      <3>3. Peer(s) \in Sides /\ data \in Nat
        BY <1>3, PeerProperties
      <3>. QED
        BY <3>1, <3>2, <3>3
    <2>. QED
      BY <1>8, <1>9, <2>1, <2>2, <2>3 DEF TypeOK
  <1>11. NoFatal'
    BY <1>8 DEF NoFatal
  <1>12. QueuesAccepted'
    BY <1>3, <1>6 DEF QueuesAccepted, TypeOK
  <1>13. Conserved'
    <2>. SUFFICES ASSUME NEW t \in Sides
                  PROVE  DataLeft(toRecv[t])
                           = inflight'[t] + DataLeft(toSend'[Peer(t)])
      BY DEF Conserved
    <2>1. /\ DataLeft(toRecv[t]) = inflight[t] + DataLeft(toSend[Peer(t)])
          /\ inflight[t] \in Nat
      BY DEF Conserved, TypeOK
    <2>2. CASE t = Peer(s)
      <3>1. inflight'[t] = inflight[t] + data /\ toSend'[Peer(t)] = rest
        BY <1>6, <2>2, PeerProperties DEF TypeOK
      <3>. QED
        BY <1>3, <2>1, <2>2, <3>1, PeerProperties DEF data
    <2>3. CASE t # Peer(s)
      <3>1. inflight'[t] = inflight[t] /\ toSend'[Peer(t)] = toSend[Peer(t)]
        BY <1>6, <2>3, PeerProperties DEF TypeOK
      <3>. QED
        BY <2>1, <3>1
    <2>. QED
      BY <2>2, <2>3
  <1>14. ClosedDrained'
    <2>. SUFFICES ASSUME NEW t \in Sides, closed'[t]
                  PROVE  /\ DataLeft(toSend'[t]) = 0
                         /\ DataLeft(toRecv[t]) = 0
      BY DEF ClosedDrained
    <2>1. CASE t # s
      BY <1>6, <1>9, <2>1 DEF ClosedDrained, TypeOK
    <2>2. CASE t = s /\ closed[s]
      <3>1. DataLeft(toSend[s]) = 0 /\ DataLeft(toRecv[s]) = 0
        BY <2>2 DEF ClosedDrained
      <3>2. DataLeft(rest) = 0
        BY <1>3, <3>1 DEF data
      <3>. QED
        BY <1>6, <2>2, <3>1, <3>2 DEF TypeOK
    <2>3. CASE t = s /\ ~closed[s]
      <3>1. rest = <<>> /\ Drained(toRecv[s])
        BY <1>9, <2>3
      <3>2. DataLeft(<<>>) = 0
        BY EmptySeq DEF DataLeft
      <3>. QED
        BY <1>2, <1>6, <2>3, <3>1, <3>2, DataLeftProperties DEF TypeOK
    <2>. QED
      BY <2>1, <2>2, <2>3
  <1>15. FinIsLast'
    <2>. SUFFICES ASSUME NEW t \in Sides, fin[t] = "seen"
                  PROVE  inflight'[t] = 0
      BY <1>9 DEF FinIsLast
    <2>1. inflight[t] = 0 /\ closed[Peer(t)]
      BY DEF FinIsLast
    <2>2. CASE t = Peer(s)
      <3>1. data = 0
        BY <1>3, <1>4, <2>1, <2>2, PeerProperties
      <3>. QED
        BY <1>6, <2>1, <3>1 DEF TypeOK
    <2>3. CASE t # Peer(s)
      BY <1>6, <2>1, <2>3 DEF TypeOK
    <2>. QED
      BY <2>2, <2>3
  <1>16. CloserSentAll'
    <2>. SUFFICES ASSUME NEW t \in Sides, closed'[t], fin[t] # "seen"
                  PROVE  toSend'[t] = <<>>
      BY <1>9 DEF CloserSentAll
    <2>. QED
      BY <1>6, <1>9 DEF CloserSentAll, TypeOK
  <1>17. WaitsAfterASend'
    BY <1>2, <1>6, <1>7 DEF WaitsAfterASend, TypeOK
  <1>. QED
    BY <1>10, <1>11, <1>12, <1>13, <1>14, <1>15, <1>16, <1>17

\* A step that leaves the queues, the sockets and the FINs alone keeps Inv
\* as soon as it keeps the types and does not fail.
LEMMA QuietStep ==
    ASSUME Inv, TypeOK', fatal' = fatal,
           UNCHANGED <<toSend, toRecv, lastSend, closed, inflight, fin>>
    PROVE  Inv'
  BY DEF Inv, NoFatal, QueuesAccepted, Conserved, ClosedDrained, FinIsLast,
         CloserSentAll, WaitsAfterASend

\* What both sides do once they are connected keeps Inv.
LEMMA BeginSendingStep ==
    ASSUME Inv, NEW s \in Sides, BeginSending(s),
           conn' \in [Sides -> {"idle", "listening", "connecting", "open"}],
           UNCHANGED <<now, cvec, retries, toRecv, notified, freed, heardAt>>
    PROVE  Inv'
  <1>1. TypeOK
    BY DEF Inv
  <1>2. CASE toSend[s] = <<>>
    <2>1. UNCHANGED <<toSend, lastSend, inflight, lastRecv, timers, closed,
                      fin, fatal>>
      BY <1>2 DEF BeginSending
    <2>2. TypeOK'
      BY <1>1, <2>1 DEF TypeOK
    <2>. QED
      BY <2>1, <2>2, QuietStep
  <1>3. CASE toSend[s] # <<>> /\ Immediate(toSend[s][1])
    <2>1. SendBurst(s, timers[s])
      BY <1>3 DEF BeginSending
    <2>2. timers[s] \in Seq(Nat)
      BY <1>1 DEF TypeOK
    <2>. QED
      BY <1>3, <2>1, <2>2, SendBurstStep
  <1>4. CASE toSend[s] # <<>> /\ ~Immediate(toSend[s][1])
    <2>1. /\ WaitForNext(s, toSend[s][1], timers[s], lastSend[s])
          /\ UNCHANGED <<toSend, lastSend, inflight, closed, fin>>
      BY <1>4 DEF BeginSending
    <2>2. /\ timers[s] \in Seq(Nat)
          /\ toSend[s] \in Seq(ADU)
          /\ lastSend[s] \in Nat \cup {-1}
      BY <1>1 DEF TypeOK
    <2>3. toSend[s][1] \in ADU
      BY <1>4, <2>2, EmptySeq, ElementOfSeq
    <2>4. toSend[s][1].sendWait > 0 => lastSend[s] >= 0
      BY <1>4, <2>2, <2>3, TypeOfADU DEF Inv, WaitsAfterASend
    <2>5. /\ fatal' = fatal
          /\ timers' \in [Sides -> Seq(Nat)]
          /\ lastRecv' \in [Sides -> Nat \cup {-1}]
      BY <1>1, <2>1, <2>2, <2>3, <2>4, WaitForNextStep
    <2>6. TypeOK'
      BY <1>1, <2>1, <2>5 DEF TypeOK
    <2>. QED
      BY <2>1, <2>5, <2>6, QuietStep
  <1>. QED
    BY <1>2, <1>3, <1>4

-----------------------------------------------------------------------------
(* The events.                                                             *)

\* The handlers that set up the connection, and the clock.
LEMMA SetUpStep ==
    ASSUME Inv,
           \/ AcceptorStart
           \/ InitiatorStart
           \/ ConnectionFailed
           \/ Tick
           \/ UNCHANGED vars
    PROVE  Inv'
  <1>1. TypeOK
    BY DEF Inv
  <1>2. UNCHANGED worker
    <2>1. CASE AcceptorStart
      BY <2>1 DEF AcceptorStart
    <2>2. CASE InitiatorStart
      BY <2>2 DEF InitiatorStart
    <2>3. CASE ConnectionFailed
      BY <2>3 DEF ConnectionFailed
    <2>4. CASE Tick
      BY <2>4 DEF Tick
    <2>5. CASE UNCHANGED vars
      BY <2>5 DEF vars, worker
    <2>. QED
      BY <2>1, <2>2, <2>3, <2>4, <2>5
  <1>3. /\ now' \in Nat
        /\ cvec' = cvec
        /\ conn' \in [Sides -> {"idle", "listening", "connecting", "open"}]
        /\ retries' \in 0..MaxRetries
    <2>. USE DEF TypeOK
    <2>1. CASE AcceptorStart
      BY <1>1, <2>1 DEF AcceptorStart
    <2>2. CASE InitiatorStart
      BY <1>1, <2>2 DEF InitiatorStart
    <2>3. CASE ConnectionFailed
      BY <1>1, <2>3, MaxRetriesAssumption DEF ConnectionFailed
    <2>4. CASE Tick
      BY <1>1, <2>4 DEF Tick
    <2>5. CASE UNCHANGED vars
      BY <1>1, <2>5 DEF vars
    <2>. QED
      BY <2>1, <2>2, <2>3, <2>4, <2>5
  <1>4. TypeOK'
    BY <1>1, <1>2, <1>3 DEF TypeOK, worker
  <1>. QED
    BY <1>2, <1>4, QuietStep DEF worker

LEMMA ConnectedStep ==
    ASSUME Inv, ConnectionComplete \/ NewConnectionCreated
    PROVE  Inv'
  <1>1. conn \in [Sides -> {"idle", "listening", "connecting", "open"}]
    BY DEF Inv, TypeOK
  <1>2. conn' \in [Sides -> {"idle", "listening", "connecting", "open"}]
    BY <1>1 DEF ConnectionComplete, NewConnectionCreated
  <1>3. \E s \in Sides : BeginSending(s)
    <2>1. ConnectionComplete => BeginSending("I")
      BY DEF ConnectionComplete
    <2>2. NewConnectionCreated => BeginSending("A")
      BY DEF NewConnectionCreated
    <2>3. "I" \in Sides /\ "A" \in Sides
      BY DEF Sides
    <2>. QED
      BY <2>1, <2>2, <2>3
  <1>4. UNCHANGED <<now, cvec, retries, toRecv, notified, freed, heardAt>>
    BY DEF ConnectionComplete, NewConnectionCreated
  <1>. QED
    BY <1>2, <1>3, <1>4, BeginSendingStep

\* The same time k times.
LEMMA SameTimes ==
    ASSUME NEW t \in Nat, NEW k \in Nat
    PROVE  [i \in 1..k |-> t] \in Seq(Nat)
  <1>1. [i \in 1..k |-> t] \in [1..k -> Nat]
    OBVIOUS
  <1>. QED
    BY <1>1, SeqDef

LEMMA AnswerReceiptsStep ==
    ASSUME TypeOK, NEW s \in Sides, NEW k \in Nat, AnswerReceipts(s, k)
    PROVE  /\ timers' \in [Sides -> Seq(Nat)]
           /\ lastRecv' \in [Sides -> Nat \cup {-1}]
  <1>1. /\ now \in Nat
        /\ timers \in [Sides -> Seq(Nat)]
        /\ lastRecv \in [Sides -> Nat \cup {-1}]
        /\ toSend[s] \in Seq(ADU)
    BY DEF TypeOK
  <1>2. CASE toSend[s] # <<>> /\ toSend[s][1].recvWait > 0
    <2>1. toSend[s][1].recvWait \in Nat
      BY <1>1, <1>2, EmptySeq, ElementOfSeq, TypeOfADU
    <2>2. now + toSend[s][1].recvWait \in Nat
      BY <1>1, <2>1
    <2>3. [i \in 1..k |-> now + toSend[s][1].recvWait] \in Seq(Nat)
      BY <2>2, SameTimes
    <2>4. timers[s] \in Seq(Nat)
      BY <1>1
    <2>5. timers[s] \o [i \in 1..k |-> now + toSend[s][1].recvWait]
            \in Seq(Nat)
      BY <2>3, <2>4, ConcatProperties
    <2>6. /\ timers' = [timers EXCEPT ![s] =
                 @ \o [i \in 1..k |-> now + toSend[s][1].recvWait]]
          /\ lastRecv' = [lastRecv EXCEPT ![s] = -1]
      BY <1>2 DEF AnswerReceipts
    <2>. QED
      BY <1>1, <2>5, <2>6
  <1>3. CASE ~(toSend[s] # <<>> /\ toSend[s][1].recvWait > 0)
    BY <1>1, <1>3 DEF AnswerReceipts
  <1>. QED
    BY <1>2, <1>3

\* k ADUs leave the network and the queue together.
LEMMA ReceiveStep ==
    ASSUME Inv, NEW s \in Sides, NEW k \in 1..inflight[s], Receive(s, k)
    PROVE  Inv'
  <1>1. /\ TypeOK
        /\ toRecv[s] \in Seq(ADU) /\ Accepted(toRecv[s])
        /\ now \in Nat
        /\ heardAt[s] \in Seq(Nat)
        /\ inflight[s] \in Nat
        /\ k \in Nat
    BY DEF Inv, TypeOK, QueuesAccepted
  <1>2. /\ DataLeft(toRecv[s]) = inflight[s] + DataLeft(toSend[Peer(s)])
        /\ DataLeft(toSend[Peer(s)]) \in Nat
        /\ DataLeft(toRecv[s]) \in Nat
    BY <1>1, PeerProperties, DataLeftProperties DEF Inv, Conserved, TypeOK
  <1>3. k \in 0..DataLeft(toRecv[s]) /\ ~(k > DataLeft(toRecv[s]))
    BY <1>1, <1>2
  <1>4. /\ inflight' = [inflight EXCEPT ![s] = @ - k]
        /\ toRecv' = [toRecv EXCEPT ![s] = Drop(@, k)]
        /\ heardAt' = [heardAt EXCEPT ![s] = @ \o [i \in 1..k |-> now]]
        /\ AnswerReceipts(s, k)
        /\ UNCHANGED fatal
        /\ UNCHANGED <<now, cvec, conn, retries, toSend, lastSend, closed,
                       fin, notified, freed>>
    BY <1>3 DEF Receive
  <1>5. /\ k \in 0..Len(toRecv[s])
        /\ DataLeft(Drop(toRecv[s], k)) = DataLeft(toRecv[s]) - k
    BY <1>1, <1>3, DataLeftDrop
  <1>6. /\ Drop(toRecv[s], k) \in Seq(ADU)
        /\ Accepted(Drop(toRecv[s], k))
    BY <1>1, <1>5, DropProperties, DropAccepted
  <1>7. TypeOK'
    <2>1. heardAt[s] \o [i \in 1..k |-> now] \in Seq(Nat)
      BY <1>1, SameTimes, ConcatProperties
    <2>2. /\ timers' \in [Sides -> Seq(Nat)]
          /\ lastRecv' \in [Sides -> Nat \cup {-1}]
      BY <1>1, <1>4, AnswerReceiptsStep
    <2>3. inflight' \in [Sides -> Nat]
      BY <1>1, <1>4 DEF TypeOK
    <2>4. toRecv' \in [Sides -> Seq(ADU)]
      BY <1>1, <1>4, <1>6 DEF TypeOK
    <2>5. heardAt' \in [Sides -> Seq(Nat)]
      BY <1>1, <1>4, <2>1 DEF TypeOK
    <2>. QED
      BY <1>1, <1>4, <2>2, <2>3, <2>4, <2>5 DEF TypeOK
  <1>8. NoFatal' /\ CloserSentAll' /\ WaitsAfterASend'
    BY <1>4 DEF Inv, NoFatal, CloserSentAll, WaitsAfterASend
  <1>9. QueuesAccepted'
    BY <1>1, <1>4, <1>6 DEF Inv, QueuesAccepted, TypeOK
  <1>10. Conserved'
    <2>1. /\ inflight'[s] = inflight[s] - k
          /\ DataLeft(toRecv'[s]) = DataLeft(toRecv[s]) - k
      BY <1>1, <1>4, <1>5 DEF TypeOK
    <2>2. \A t \in Sides : t # s => /\ inflight'[t] = inflight[t]
                                  /\ toRecv'[t] = toRecv[t]
      BY <1>1, <1>4 DEF TypeOK
    <2>3. DataLeft(toRecv'[s]) = inflight'[s] + DataLeft(toSend'[Peer(s)])
      BY <1>1, <1>2, <1>4, <2>1
    <2>. QED
      BY <1>4, <2>2, <2>3 DEF Inv, Conserved
  <1>11. ClosedDrained'
    <2>1. ~closed[s]
      BY <1>1, <1>3 DEF Inv, ClosedDrained
    <2>2. \A t \in Sides : t # s => toRecv'[t] = toRecv[t]
      BY <1>1, <1>4 DEF TypeOK
    <2>. QED
      BY <1>4, <2>1, <2>2 DEF Inv, ClosedDrained
  <1>12. FinIsLast'
    <2>1. fin[s] # "seen"
      BY <1>1 DEF Inv, FinIsLast
    <2>2. \A t \in Sides : t # s => inflight'[t] = inflight[t]
      BY <1>1, <1>4 DEF TypeOK
    <2>. QED
      BY <1>4, <2>1, <2>2 DEF Inv, FinIsLast
  <1>. QED
    BY <1>7, <1>8, <1>9, <1>10, <1>11, <1>12 DEF Inv

\* The FIN at a side that closed: nothing is left, so no assertion fails.
LEMMA ReceiveFinStep ==
    ASSUME Inv, NEW s \in Sides, ReceiveFin(s)
    PROVE  Inv'
  <1>1. TypeOK /\ toSend[s] \in Seq(ADU) /\ toRecv[s] \in Seq(ADU)
    BY DEF Inv, TypeOK
  <1>2. closed[s] /\ fin[s] = "sent" /\ inflight[s] = 0
    BY DEF ReceiveFin, FinArrives
  <1>3. toSend[s] = <<>>
    BY <1>2 DEF Inv, CloserSentAll
  <1>4. Drained(toRecv[s])
    BY <1>1, <1>2, DataLeftProperties DEF Inv, ClosedDrained
  <1>5. /\ notified' = notified + 1
        /\ fatal' = fatal
        /\ fin' = [fin EXCEPT ![s] = "seen"]
        /\ UNCHANGED <<now, cvec, conn, retries, toSend, toRecv, lastSend,
                       lastRecv, closed, timers, inflight, freed, heardAt>>
    BY <1>3, <1>4 DEF ReceiveFin
  <1>6. TypeOK'
    BY <1>1, <1>5 DEF TypeOK
  <1>7. /\ NoFatal' /\ QueuesAccepted' /\ Conserved' /\ ClosedDrained'
        /\ WaitsAfterASend'
    BY <1>5 DEF Inv, NoFatal, QueuesAccepted, Conserved, ClosedDrained,
                WaitsAfterASend
  <1>8. \A t \in Sides : fin'[t] = IF t = s THEN "seen" ELSE fin[t]
    BY <1>1, <1>5 DEF TypeOK
  <1>9. FinIsLast' /\ CloserSentAll'
    BY <1>2, <1>5, <1>8 DEF Inv, FinIsLast, CloserSentAll
  <1>. QED
    BY <1>6, <1>7, <1>9 DEF Inv

\* The FIN at a side that has not closed: the peer closed, so nothing is
\* left here either and this side closes.
LEMMA ClosedStep ==
    ASSUME Inv, NEW s \in Sides, Closed(s)
    PROVE  Inv'
  <1>1. /\ TypeOK
        /\ toSend[s] \in Seq(ADU) /\ toRecv[s] \in Seq(ADU)
        /\ Peer(s) \in Sides
        /\ toSend[Peer(s)] \in Seq(ADU) /\ toRecv[Peer(s)] \in Seq(ADU)
    BY PeerProperties DEF Inv, TypeOK
  <1>2. /\ ~closed[s] /\ fin[s] = "sent" /\ inflight[s] = 0
        /\ closed[Peer(s)]
    BY DEF Inv, FinIsLast, Closed, FinArrives
  <1>3. /\ DataLeft(toSend[Peer(s)]) = 0
        /\ DataLeft(toRecv[Peer(s)]) = 0
    BY <1>1, <1>2 DEF Inv, ClosedDrained
  <1>4. /\ DataLeft(toRecv[s]) = 0
        /\ DataLeft(toSend[s]) = 0
    <2>1. /\ DataLeft(toRecv[s]) = inflight[s] + DataLeft(toSend[Peer(s)])
          /\ DataLeft(toRecv[Peer(s)])
               = inflight[Peer(s)] + DataLeft(toSend[s])
      BY <1>1, PeerProperties DEF Inv, Conserved
    <2>2. inflight[Peer(s)] \in Nat /\ DataLeft(toSend[s]) \in Nat
      BY <1>1, DataLeftProperties DEF TypeOK
    <2>. QED
      BY <1>2, <1>3, <2>1, <2>2
  <1>5. Drained(toSend[s]) /\ Drained(toRecv[s])
    BY <1>1, <1>4, DataLeftProperties
  <1>6. /\ closed' = [closed EXCEPT ![s] = TRUE]
        /\ fin' = [fin EXCEPT ![s] = "seen",
                     ![Peer(s)] = IF @ = "none" THEN "sent" ELSE @]
        /\ freed' = freed
        /\ UNCHANGED <<now, cvec, conn, retries, toSend, toRecv, lastSend,
                       lastRecv, timers, inflight, fatal, notified, heardAt>>
    BY <1>5 DEF Closed
  <1>7. /\ \A t \in Sides : closed'[t] <=> (closed[t] \/ t = s)
        /\ closed' \in [Sides -> BOOLEAN]
    BY <1>1, <1>6 DEF TypeOK
  <1>8. /\ fin' \in [Sides -> {"none", "sent", "seen"}]
        /\ fin'[s] = "seen"
        /\ \A t \in Sides : t # s => (fin'[t] = "seen" <=> fin[t] = "seen")
    BY <1>1, <1>6, PeerProperties DEF TypeOK
  <1>9. TypeOK'
    BY <1>1, <1>6, <1>7, <1>8 DEF TypeOK
  <1>10. NoFatal' /\ QueuesAccepted' /\ Conserved' /\ WaitsAfterASend'
    BY <1>6 DEF Inv, NoFatal, QueuesAccepted, Conserved, WaitsAfterASend
  <1>11. ClosedDrained'
    BY <1>4, <1>6, <1>7 DEF Inv, ClosedDrained
  <1>12. FinIsLast'
    <2>1. \A t \in Sides : closed'[Peer(t)]
      BY <1>2, <1>7, PeerProperties
    <2>. QED
      BY <1>2, <1>6, <1>8, <2>1 DEF Inv, FinIsLast
  <1>13. CloserSentAll'
    BY <1>6, <1>7, <1>8 DEF Inv, CloserSentAll
  <1>. QED
    BY <1>9, <1>10, <1>11, <1>12, <1>13 DEF Inv

\* Taking one event out of those pending.
LEMMA OneLess ==
    ASSUME NEW q \in Seq(Nat), NEW i \in 1..Len(q)
    PROVE  SubSeq(q, 1, i - 1) \o Drop(q, i) \in Seq(Nat)
  <1>1. Len(q) \in Nat /\ i \in 0..Len(q) /\ i - 1 \in Int
    BY LenProperties
  <1>2. \A j \in 1..i - 1 : q[j] \in Nat
    BY <1>1, ElementOfSeq
  <1>3. SubSeq(q, 1, i - 1) \in Seq(Nat)
    BY <1>1, <1>2, SubSeqProperties
  <1>4. Drop(q, i) \in Seq(Nat)
    BY <1>1, DropProperties
  <1>. QED
    BY <1>3, <1>4, ConcatProperties

LEMMA DoSendStep ==
    ASSUME Inv, NEW s \in Sides, NEW i \in 1..Len(timers[s]), DoSend(s, i)
    PROVE  Inv'
  <1>. DEFINE pending == SubSeq(timers[s], 1, i - 1) \o Drop(timers[s], i)
  <1>1. TypeOK /\ timers[s] \in Seq(Nat)
    BY DEF Inv, TypeOK
  <1>2. pending \in Seq(Nat)
    BY <1>1, OneLess
  <1>3. UNCHANGED <<now, cvec, conn, retries, toRecv, notified, freed,
                    heardAt>>
    BY DEF DoSend
  <1>4. CASE toSend[s] = <<>>
    <2>1. /\ timers' = [timers EXCEPT ![s] = pending]
          /\ UNCHANGED <<toSend, lastSend, inflight, lastRecv, closed, fin,
                         fatal>>
      BY <1>4 DEF DoSend
    <2>2. TypeOK'
      BY <1>1, <1>2, <1>3, <2>1 DEF TypeOK
    <2>. QED
      BY <1>3, <2>1, <2>2, QuietStep
  <1>5. CASE toSend[s] # <<>>
    <2>1. SendBurst(s, pending)
      BY <1>5 DEF DoSend
    <2>2. conn' \in [Sides -> {"idle", "listening", "connecting", "open"}]
      BY <1>1, <1>3 DEF TypeOK
    <2>. QED
      BY <1>2, <1>3, <1>5, <2>1, <2>2, SendBurstStep
  <1>. QED
    BY <1>4, <1>5

-----------------------------------------------------------------------------
(* The theorems.                                                           *)

LEMMA NextInv == Inv /\ [Next]_vars => Inv'
  <1>. SUFFICES ASSUME Inv, [Next]_vars
                PROVE  Inv'
    OBVIOUS
  <1>1. CASE \/ AcceptorStart \/ InitiatorStart \/ ConnectionFailed
             \/ Tick \/ UNCHANGED vars
    BY <1>1, SetUpStep
  <1>2. CASE ConnectionComplete \/ NewConnectionCreated
    BY <1>2, ConnectedStep
  <1>3. ASSUME NEW s \in Sides, NEW k \in 1..inflight[s], Receive(s, k)
        PROVE  Inv'
    BY <1>3, ReceiveStep
  <1>4. ASSUME NEW s \in Sides, ReceiveFin(s)
        PROVE  Inv'
    BY <1>4, ReceiveFinStep
  <1>5. ASSUME NEW s \in Sides, Closed(s)
        PROVE  Inv'
    BY <1>5, ClosedStep
  <1>6. ASSUME NEW s \in Sides, NEW i \in 1..Len(timers[s]), DoSend(s, i)
        PROVE  Inv'
    BY <1>6, DoSendStep
  <1>. QED
    BY <1>1, <1>2, <1>3, <1>4, <1>5, <1>6 DEF Next

\* The invariant the other theorems follow from: the queues, the ADUs in
\* flight, the closed sockets and the FINs always fit together.
THEOREM Invariance == Spec => []Inv
  BY InitInv, NextInv, PTL DEF Spec

\* The variables of the two workers keep their types for all vectors.
THEOREM TypeCorrectness == Spec => []TypeOK
  <1>1. Inv => TypeOK
    BY DEF Inv
  <1>. QED
    BY <1>1, Invariance, PTL

\* Whatever vector is replayed, no assertion and no NS_FATAL_ERROR of
\* Worker stops the simulation.
THEOREM NeverFatal == Spec => []NoFatal
  <1>1. Inv => NoFatal
    BY DEF Inv
  <1>. QED
    BY <1>1, Invariance, PTL

\* A worker closes its socket only after both sides sent everything and it
\* received everything; once it has seen the FIN, so has the peer.
THEOREM GracefulClose == Spec => []CloseIsGraceful
  <1>1. Inv => CloseIsGraceful
    <2>. SUFFICES ASSUME Inv
                  PROVE  CloseIsGraceful
      OBVIOUS
    <2>1. \A s \in Sides : /\ DataLeft(toSend[s]) \in Nat
                           /\ DataLeft(toRecv[s]) \in Nat
                           /\ inflight[s] \in Nat
      BY DataLeftProperties DEF Inv, TypeOK
    <2>2. \A s \in Sides : /\ DataLeft(toRecv[s])
                                = inflight[s] + DataLeft(toSend[Peer(s)])
                           /\ DataLeft(toRecv[Peer(s)])
                                = inflight[Peer(s)] + DataLeft(toSend[s])
      BY PeerProperties DEF Inv, Conserved
    <2>3. ASSUME NEW s \in Sides, closed[s]
          PROVE  /\ DataLeft(toRecv[s]) = 0
                 /\ \A t \in Sides : DataLeft(toSend[t]) = 0
      <3>1. DataLeft(toRecv[s]) = 0 /\ DataLeft(toSend[s]) = 0
        BY <2>3 DEF Inv, ClosedDrained
      <3>2. DataLeft(toSend[Peer(s)]) = 0
        BY <2>1, <2>2, <3>1, PeerProperties
      <3>. QED
        BY <3>1, <3>2, PeerProperties
    <2>4. ASSUME NEW s \in Sides, fin[s] = "seen"
          PROVE  \A t \in Sides : DataLeft(toRecv[t]) = 0
      <3>1. inflight[s] = 0 /\ closed[Peer(s)]
        BY <2>4 DEF Inv, FinIsLast
      <3>2. /\ DataLeft(toRecv[Peer(s)]) = 0
            /\ DataLeft(toSend[Peer(s)]) = 0
        BY <2>3, <3>1, PeerProperties
      <3>3. DataLeft(toRecv[s]) = 0
        BY <2>2, <3>1, <3>2
      <3>. QED
        BY <3>2, <3>3, PeerProperties
    <2>. QED
      BY <2>3, <2>4 DEF CloseIsGraceful
  <1>. QED
    BY <1>1, Invariance, PTL

-----------------------------------------------------------------------------
(* The refinement of AduExchange: its counters.                            *)

LEMMA ExceptAtOne ==
    ASSUME NEW f, NEW g, NEW s \in Sides, NEW x,
           f = [t \in Sides |-> f[t]], g = [t \in Sides |-> g[t]],
           g[s] = x, \A t \in Sides : t # s => g[t] = f[t]
    PROVE  g = [f EXCEPT ![s] = x]
  OBVIOUS

LEMMA SidesAgree == Exchange!Sides = Sides /\ \A s : Exchange!Peer(s) = Peer(s)
  BY DEF Exchange!Sides, Exchange!Peer, Sides, Peer

\* What the counters are, and that they are functions on the sides.
LEMMA CounterValues ==
    /\ \A s \in Sides : /\ Total[s] = DataLeft(Adus(cvec, s))
                        /\ Sent[s] = Total[s] - DataLeft(toSend[s])
                        /\ Got[s] = Total[Peer(s)] - DataLeft(toRecv[s])
                        /\ Ended[s] <=> fin[s] = "seen"
    /\ Total = [s \in Sides |-> Total[s]]
    /\ Sent = [s \in Sides |-> Sent[s]]
    /\ Got = [s \in Sides |-> Got[s]]
    /\ Ended = [s \in Sides |-> Ended[s]]
  <1>1. \A s \in Sides : /\ Total[s] = DataLeft(Adus(cvec, s))
                         /\ Sent[s] = Total[s] - DataLeft(toSend[s])
                         /\ Got[s] = Total[Peer(s)] - DataLeft(toRecv[s])
                         /\ Ended[s] <=> fin[s] = "seen"
    BY DEF Total, Sent, Got, Ended
  <1>2. Total = [s \in Sides |-> Total[s]] /\ Sent = [s \in Sides |-> Sent[s]]
    BY DEF Total, Sent
  <1>3. Got = [s \in Sides |-> Got[s]] /\ Ended = [s \in Sides |-> Ended[s]]
    BY DEF Got, Ended
  <1>. QED
    BY <1>1, <1>2, <1>3

\* The same in the next state, in which the vector is the same.
LEMMA CounterSteps ==
    ASSUME UNCHANGED cvec
    PROVE  /\ Total' = Total
           /\ \A s \in Sides :
                 /\ Sent'[s] = Total[s] - DataLeft(toSend'[s])
                 /\ Got'[s] = Total[Peer(s)] - DataLeft(toRecv'[s])
                 /\ Ended'[s] <=> fin'[s] = "seen"
           /\ Sent' = [s \in Sides |-> Sent'[s]]
           /\ Got' = [s \in Sides |-> Got'[s]]
           /\ Ended' = [s \in Sides |-> Ended'[s]]
  <1>1. Total' = Total
    BY DEF Total
  <1>. QED
    BY <1>1 DEF Sent, Got, Ended

\* The queues that count are there in each state of Inv.
LEMMA LeftOver ==
    ASSUME Inv, NEW s \in Sides
    PROVE  /\ toSend[s] \in Seq(ADU) /\ toRecv[s] \in Seq(ADU)
           /\ DataLeft(toSend[s]) \in Nat /\ DataLeft(toRecv[s]) \in Nat
           /\ Drained(toSend[s]) <=> DataLeft(toSend[s]) = 0
           /\ Drained(toRecv[s]) <=> DataLeft(toRecv[s]) = 0
  BY DataLeftProperties DEF Inv, TypeOK

\* The invariant of the implementation: Inv, of one of the vectors.
VectorKept == cvec \in Vectors

VInv == Inv /\ VectorKept

LEMMA TotalType ==
    ASSUME cvec \in Vectors
    PROVE  /\ Total \in [Sides -> Nat]
           /\ \A s \in Sides : Total[s] \in Nat /\ Total[Peer(s)] \in Nat
  <1>1. \A s \in Sides : Adus(cvec, s) \in Seq(ADU)
    BY AcceptedVector
  <1>2. \A s \in Sides : DataLeft(Adus(cvec, s)) \in Nat
    BY <1>1, DataLeftProperties
  <1>3. Total \in [Sides -> Nat]
    BY <1>2 DEF Total
  <1>. QED
    BY <1>3, PeerProperties

\* No event changes the vector.
LEMMA VInvariance == Spec => []VInv
  <1>1. Init => VectorKept
    BY DEF Init, VectorKept
  <1>2. VectorKept /\ [Next]_vars => VectorKept'
    <2>1. [Next]_vars => cvec' = cvec
      BY DEF Next, vars, AcceptorStart, InitiatorStart, ConnectionFailed,
             ConnectionComplete, NewConnectionCreated, Receive, ReceiveFin,
             Closed, DoSend, Tick
    <2>. QED
      BY <2>1 DEF VectorKept
  <1>. QED
    BY <1>1, <1>2, Invariance, PTL DEF Spec, VInv

LEMMA InitExchange == Init => Exchange!Init
  <1>. SUFFICES ASSUME Init
                PROVE  Exchange!Init
    OBVIOUS
  <1>1. Total \in [Sides -> Nat]
    BY TotalType DEF Init
  <1>2. \A s \in Sides : /\ toSend[s] = Adus(cvec, s)
                         /\ toRecv[s] = Adus(cvec, Peer(s))
                         /\ fin[s] = "none"
                         /\ Peer(s) \in Sides
    BY PeerProperties DEF Init
  <1>3. \A s \in Sides : Sent[s] = 0 /\ Got[s] = 0 /\ Ended[s] = FALSE
    <2>. SUFFICES ASSUME NEW s \in Sides
                  PROVE  Sent[s] = 0 /\ Got[s] = 0 /\ Ended[s] = FALSE
      OBVIOUS
    <2>1. Total[s] \in Nat /\ Total[Peer(s)] \in Nat
      BY <1>1, <1>2
    <2>2. Sent[s] = Total[s] - Total[s]
      BY <1>2, CounterValues
    <2>3. Got[s] = Total[Peer(s)] - Total[Peer(s)]
      BY <1>2, CounterValues
    <2>4. Ended[s] = FALSE
      BY <1>2 DEF Ended
    <2>. QED
      BY <2>1, <2>2, <2>3, <2>4
  <1>4. /\ Sent = [s \in Sides |-> 0]
        /\ Got = [s \in Sides |-> 0]
        /\ Ended = [s \in Sides |-> FALSE]
    BY <1>3, CounterValues
  <1>5. closed = [s \in Sides |-> FALSE]
    BY DEF Init
  <1>. QED
    BY <1>1, <1>4, <1>5, SidesAgree DEF Exchange!Init

-----------------------------------------------------------------------------
(* The events.                                                             *)

\* An event that leaves the queues and the sockets alone, and shows no FIN.
LEMMA QuietExchange ==
    ASSUME UNCHANGED <<cvec, toSend, toRecv, closed>>,
           \A s \in Sides : fin'[s] = "seen" <=> fin[s] = "seen"
    PROVE  UNCHANGED Exchange!vars
  <1>1. Total' = Total
    BY CounterSteps
  <1>2. \A s \in Sides : /\ Sent'[s] = Sent[s]
                         /\ Got'[s] = Got[s]
    BY CounterSteps, CounterValues
  <1>3. Sent' = Sent /\ Got' = Got
    BY <1>2, CounterSteps, CounterValues
  <1>4. Ended' = Ended
    BY DEF Ended
  <1>. QED
    BY <1>1, <1>3, <1>4 DEF Exchange!vars

\* A burst sends data ADUs, and may close with the last one; a burst without
\* data is the closing ADU, which closes or does nothing.
LEMMA BurstExchange ==
    ASSUME VInv, NEW s \in Sides, toSend[s] # <<>>,
           NEW pending, SendBurst(s, pending), UNCHANGED <<cvec, toRecv>>
    PROVE  [Exchange!Next]_(Exchange!vars)
  <1>1. PICK n \in 1..Len(toSend[s]) : Burst(s, n, pending)
    BY DEF SendBurst
  <1>. DEFINE rest == Drop(toSend[s], n)
              data == DataLeft(toSend[s]) - DataLeft(rest)
  <1>2. /\ Inv /\ TypeOK /\ FinIsLast
        /\ toSend[s] \in Seq(ADU) /\ Accepted(toSend[s])
        /\ Len(toSend[s]) \in Nat
        /\ Peer(s) \in Sides
        /\ closed \in [Sides -> BOOLEAN]
        /\ toSend \in [Sides -> Seq(ADU)]
    BY LenProperties, PeerProperties DEF VInv, Inv, TypeOK, QueuesAccepted
  <1>3. /\ rest \in Seq(ADU)
        /\ DataLeft(rest) \in Nat /\ DataLeft(toSend[s]) \in Nat
        /\ data \in Nat
        /\ Drained(rest) <=> DataLeft(rest) = 0
        /\ data = 0 => rest = <<>>
    <2>1. n \in 0..Len(toSend[s])
      BY <1>2
    <2>2. rest \in Seq(ADU)
      BY <1>2, <2>1, DropProperties
    <2>. QED
      BY <1>2, <2>2, DataLeftProperties, DataLeftBurst
  <1>4. closed[s] => data = 0
    BY <1>2, <1>3 DEF Inv, ClosedDrained
  <1>5. toSend' = [toSend EXCEPT ![s] = rest]
    BY <1>1 DEF Burst
  <1>6. UNCHANGED <<closed, fin>> \/ CloseIfDone(s, rest)
    BY <1>1 DEF Burst
  <1>. HIDE DEF rest
  <1>7. \/ closed' = closed
        \/ /\ Drained(rest) /\ Drained(toRecv[s])
           /\ closed' = [closed EXCEPT ![s] = TRUE]
    BY <1>6 DEF CloseIfDone
  <1>8. \A t \in Sides : fin'[t] = "seen" <=> fin[t] = "seen"
    BY <1>2, <1>3, <1>6, CloseIfDoneStep
  <1>9. /\ Total[s] \in Nat /\ Total[Peer(s)] \in Nat
        /\ Total' = Total
        /\ Sent[s] = Total[s] - DataLeft(toSend[s])
        /\ Sent'[s] = Total[s] - DataLeft(rest)
    <2>1. toSend'[s] = rest
      BY <1>2, <1>5
    <2>. QED
      BY <2>1, TotalType, CounterValues, CounterSteps DEF VInv, VectorKept
  <1>10. Got' = Got
    <2>1. \A t \in Sides : Got'[t] = Got[t]
      BY CounterValues, CounterSteps
    <2>. QED
      BY <2>1, CounterValues, CounterSteps
  <1>11. Ended' = Ended
    BY <1>8 DEF Ended
  <1>12. \A t \in Sides : t # s => Sent'[t] = Sent[t]
    <2>. SUFFICES ASSUME NEW t \in Sides, t # s
                  PROVE  Sent'[t] = Sent[t]
      OBVIOUS
    <2>1. toSend'[t] = toSend[t]
      BY <1>2, <1>5
    <2>2. Sent[t] = Total[t] - DataLeft(toSend[t])
      BY CounterValues
    <2>3. Sent'[t] = Total[t] - DataLeft(toSend'[t])
      BY CounterSteps
    <2>. QED
      BY <2>1, <2>2, <2>3
  <1>13. Sent' = [Sent EXCEPT ![s] = Sent'[s]]
    BY <1>12, CounterValues, CounterSteps, ExceptAtOne
  <1>14. Drained(rest) => Sent'[s] = Total[s]
    BY <1>3, <1>9
  <1>15. Drained(toRecv[s]) => Got[s] = Total[Peer(s)]
    <2>1. Drained(toRecv[s]) => DataLeft(toRecv[s]) = 0
      BY <1>2, LeftOver
    <2>2. Got[s] = Total[Peer(s)] - DataLeft(toRecv[s])
      BY CounterValues
    <2>. QED
      BY <1>9, <2>1, <2>2
  <1>16. CASE data > 0
    <2>1. ~closed[s]
      BY <1>4, <1>16
    <2>2. Sent'[s] \in Sent[s] + 1 .. Total[s]
      BY <1>3, <1>9, <1>16
    <2>3. \/ UNCHANGED closed
          \/ /\ Sent'[s] = Total[s] /\ Got[s] = Total[Peer(s)]
             /\ closed' = [closed EXCEPT ![s] = TRUE]
      BY <1>7, <1>14, <1>15
    <2>4. Exchange!Send(s, Sent'[s])
      BY <1>9, <1>10, <1>11, <1>13, <2>1, <2>2, <2>3, SidesAgree
      DEF Exchange!Send, Exchange!ReceivedAll
    <2>. QED
      BY <2>2, <2>4, SidesAgree DEF Exchange!Next
  <1>17. CASE data = 0
    <2>1. Sent' = Sent
      <3>1. Sent'[s] = Sent[s]
        BY <1>3, <1>9, <1>17
      <3>2. \A t \in Sides : Sent'[t] = Sent[t]
        BY <1>12, <3>1
      <3>. QED
        BY <3>2, CounterValues, CounterSteps
    <2>2. CASE closed' = closed
      BY <1>9, <1>10, <1>11, <2>1, <2>2 DEF Exchange!vars
    <2>3. CASE closed[s] /\ closed' = [closed EXCEPT ![s] = TRUE]
      <3>1. closed' = closed
        BY <1>2, <2>3
      <3>. QED
        BY <2>2, <3>1
    <2>4. CASE /\ ~closed[s] /\ Drained(rest) /\ Drained(toRecv[s])
               /\ closed' = [closed EXCEPT ![s] = TRUE]
      <3>1. Exchange!Close(s)
        BY <1>9, <1>10, <1>11, <1>14, <1>15, <2>1, <2>4, SidesAgree
        DEF Exchange!Close, Exchange!ReceivedAll
      <3>. QED
        BY <3>1, SidesAgree DEF Exchange!Next
    <2>. QED
      BY <1>7, <2>2, <2>3, <2>4
  <1>. QED
    BY <1>3, <1>16, <1>17

LEMMA BeginSendingExchange ==
    ASSUME VInv, NEW s \in Sides, BeginSending(s), UNCHANGED <<cvec, toRecv>>
    PROVE  [Exchange!Next]_(Exchange!vars)
  <1>1. CASE toSend[s] # <<>> /\ SendBurst(s, timers[s])
    BY <1>1, BurstExchange
  <1>2. CASE UNCHANGED <<toSend, closed, fin>>
    BY <1>2, QuietExchange
  <1>. QED
    BY <1>1, <1>2 DEF BeginSending

LEMMA DoSendExchange ==
    ASSUME VInv, NEW s \in Sides, NEW i \in 1..Len(timers[s]), DoSend(s, i)
    PROVE  [Exchange!Next]_(Exchange!vars)
  <1>1. CASE toSend[s] = <<>>
    <2>1. UNCHANGED <<cvec, toSend, toRecv, closed, fin>>
      BY <1>1 DEF DoSend
    <2>. QED
      BY <2>1, QuietExchange
  <1>2. CASE toSend[s] # <<>>
    <2>1. /\ SendBurst(s, SubSeq(timers[s], 1, i - 1) \o Drop(timers[s], i))
          /\ UNCHANGED <<cvec, toRecv>>
      BY <1>2 DEF DoSend
    <2>. QED
      BY <1>2, <2>1, BurstExchange
  <1>. QED
    BY <1>1, <1>2

\* A receipt delivers the next ADUs the peer has sent.
LEMMA ReceiveExchange ==
    ASSUME VInv, NEW s \in Sides, NEW k \in 1..inflight[s], Receive(s, k),
           Inv'
    PROVE  Exchange!Next
  <1>1. /\ Inv /\ toRecv[s] \in Seq(ADU) /\ inflight[s] \in Nat
        /\ toRecv \in [Sides -> Seq(ADU)]
        /\ Peer(s) \in Sides
        /\ DataLeft(toSend[Peer(s)]) \in Nat
        /\ DataLeft(toRecv[s]) = inflight[s] + DataLeft(toSend[Peer(s)])
    BY PeerProperties, LeftOver DEF VInv, Inv, TypeOK, Conserved
  <1>2. k \in 0..DataLeft(toRecv[s]) /\ ~(k > DataLeft(toRecv[s]))
    BY <1>1
  <1>3. /\ toRecv' = [toRecv EXCEPT ![s] = Drop(@, k)]
        /\ UNCHANGED <<cvec, toSend, closed, fin>>
    BY <1>2 DEF Receive
  <1>4. DataLeft(toRecv'[s]) = DataLeft(toRecv[s]) - k
    BY <1>1, <1>2, <1>3, DataLeftDrop
  <1>5. /\ Total' = Total /\ Total[Peer(s)] \in Nat
        /\ Got[s] = Total[Peer(s)] - DataLeft(toRecv[s])
        /\ Got'[s] = Total[Peer(s)] - DataLeft(toRecv'[s])
        /\ Sent[Peer(s)] = Total[Peer(s)] - DataLeft(toSend[Peer(s)])
    BY <1>1, <1>3, TotalType, CounterValues, CounterSteps DEF VInv, VectorKept
  <1>6. Sent' = Sent /\ Ended' = Ended
    <2>1. \A t \in Sides : Sent'[t] = Sent[t]
      BY <1>3, CounterValues, CounterSteps
    <2>. QED
      BY <1>3, <2>1, CounterValues, CounterSteps DEF Ended
  <1>7. Got' = [Got EXCEPT ![s] = Got'[s]]
    <2>1. \A t \in Sides : t # s => toRecv'[t] = toRecv[t]
      BY <1>1, <1>3
    <2>2. \A t \in Sides : t # s => Got'[t] = Got[t]
      BY <1>3, <2>1, CounterValues, CounterSteps
    <2>. QED
      BY <1>3, <2>2, CounterValues, CounterSteps, ExceptAtOne
  <1>8. Got'[s] \in Got[s] + 1 .. Sent[Peer(s)]
    BY <1>1, <1>2, <1>4, <1>5
  <1>9. Exchange!Deliver(s, Got'[s])
    BY <1>3, <1>5, <1>6, <1>7, <1>8, SidesAgree DEF Exchange!Deliver
  <1>. QED
    BY <1>8, <1>9, SidesAgree DEF Exchange!Next

\* A FIN comes from a closed peer, when all was exchanged, and this side has
\* closed or closes.
LEMMA EndExchange ==
    ASSUME VInv, NEW s \in Sides, ReceiveFin(s) \/ Closed(s)
    PROVE  Exchange!Next
  <1>1. /\ Inv
        /\ Peer(s) \in Sides /\ Peer(Peer(s)) = s
        /\ fin \in [Sides -> {"none", "sent", "seen"}]
        /\ closed \in [Sides -> BOOLEAN]
        /\ fin[s] = "sent" /\ inflight[s] = 0
        /\ closed[Peer(s)]
    BY PeerProperties
    DEF VInv, Inv, TypeOK, FinIsLast, ReceiveFin, Closed, FinArrives
  <1>2. /\ DataLeft(toRecv[s]) = 0 /\ DataLeft(toSend[s]) = 0
        /\ Drained(toSend[s]) /\ Drained(toRecv[s])
    <2>1. DataLeft(toSend[Peer(s)]) = 0 /\ DataLeft(toRecv[Peer(s)]) = 0
      BY <1>1 DEF Inv, ClosedDrained
    <2>2. /\ DataLeft(toRecv[s]) = inflight[s] + DataLeft(toSend[Peer(s)])
          /\ DataLeft(toRecv[Peer(s)]) = inflight[Peer(s)] + DataLeft(toSend[s])
          /\ inflight[Peer(s)] \in Nat
      BY <1>1 DEF Inv, Conserved, TypeOK
    <2>. QED
      BY <1>1, <2>1, <2>2, LeftOver
  <1>3. closed' = [closed EXCEPT ![s] = TRUE]
    <2>1. CASE ReceiveFin(s)
      BY <1>1, <2>1 DEF ReceiveFin
    <2>2. CASE Closed(s)
      BY <1>2, <2>2 DEF Closed
    <2>. QED
      BY <2>1, <2>2
  <1>4. /\ UNCHANGED <<cvec, toSend, toRecv>>
        /\ fin'[s] = "seen"
        /\ \A t \in Sides : t # s => (fin'[t] = "seen" <=> fin[t] = "seen")
    BY <1>1, PeerProperties DEF ReceiveFin, Closed
  <1>5. Total' = Total /\ Sent' = Sent /\ Got' = Got
    <2>1. \A t \in Sides : Sent'[t] = Sent[t] /\ Got'[t] = Got[t]
      BY <1>4, CounterValues, CounterSteps
    <2>. QED
      BY <1>4, <2>1, CounterValues, CounterSteps
  <1>6. ~Ended[s] /\ Ended' = [Ended EXCEPT ![s] = TRUE]
    <2>1. ~Ended[s] /\ Ended'[s] = TRUE
      BY <1>1, <1>4 DEF Ended
    <2>2. \A t \in Sides : t # s => Ended'[t] = Ended[t]
      BY <1>4 DEF Ended
    <2>3. Ended = [t \in Sides |-> Ended[t]]
      BY CounterValues
    <2>4. Ended' = [t \in Sides |-> Ended'[t]]
      BY <1>4, CounterSteps
    <2>5. Ended' = [Ended EXCEPT ![s] = TRUE]
      BY <2>1, <2>2, <2>3, <2>4, ExceptAtOne
    <2>. QED
      BY <2>1, <2>5
  <1>7. Sent[s] = Total[s] /\ Got[s] = Total[Peer(s)]
    BY <1>1, <1>2, TotalType, CounterValues DEF VInv, VectorKept
  <1>8. Exchange!End(s)
    BY <1>1, <1>3, <1>5, <1>6, <1>7, SidesAgree
    DEF Exchange!End, Exchange!ReceivedAll
  <1>. QED
    BY <1>8, SidesAgree DEF Exchange!Next

-----------------------------------------------------------------------------
(* The refinement.                                                         *)

LEMMA NextExchange ==
    ASSUME VInv, Inv', [Next]_vars
    PROVE  [Exchange!Next]_(Exchange!vars)
  <1>1. CASE AcceptorStart \/ InitiatorStart \/ ConnectionFailed \/ Tick
             \/ UNCHANGED vars
    <2>1. UNCHANGED <<cvec, toSend, toRecv, closed, fin>>
      BY <1>1 DEF AcceptorStart, InitiatorStart, ConnectionFailed, Tick, vars,
                  worker
    <2>. QED
      BY <2>1, QuietExchange
  <1>2. CASE ConnectionComplete
    <2>1. BeginSending("I") /\ UNCHANGED <<cvec, toRecv>> /\ "I" \in Sides
      BY <1>2 DEF ConnectionComplete, Sides
    <2>. QED
      BY <2>1, BeginSendingExchange
  <1>3. CASE NewConnectionCreated
    <2>1. BeginSending("A") /\ UNCHANGED <<cvec, toRecv>> /\ "A" \in Sides
      BY <1>3 DEF NewConnectionCreated, Sides
    <2>. QED
      BY <2>1, BeginSendingExchange
  <1>4. ASSUME NEW s \in Sides, NEW k \in 1..inflight[s], Receive(s, k)
        PROVE  Exchange!Next
    BY <1>4, ReceiveExchange
  <1>5. ASSUME NEW s \in Sides, ReceiveFin(s) \/ Closed(s)
        PROVE  Exchange!Next
    BY <1>5, EndExchange
  <1>6. ASSUME NEW s \in Sides, NEW i \in 1..Len(timers[s]), DoSend(s, i)
        PROVE  [Exchange!Next]_(Exchange!vars)
    BY <1>6, DoSendExchange
  <1>. QED
    BY <1>1, <1>2, <1>3, <1>4, <1>5, <1>6 DEF Next

\* Every replay of every vector is an exchange as AduExchange describes it:
\* the handlers of Worker, in any order of events, lose and reorder no ADU,
\* close only when all was exchanged, and end with both sockets closed.
THEOREM Implementation == Spec => ExchangesAdus
  <1>1. VInv => Inv
    BY DEF VInv, VectorKept
  <1>. QED
    BY <1>1, InitExchange, NextExchange, VInvariance, PTL
    DEF Spec, Exchange!Spec, ExchangesAdus

-----------------------------------------------------------------------------
(* What a step of the connection is for one side.                          *)

Unmoved(s) == /\ toSend'[s] = toSend[s] /\ timers'[s] = timers[s]
              /\ lastSend'[s] = lastSend[s] /\ lastRecv'[s] = lastRecv[s]
              /\ heardAt'[s] = heardAt[s]

SameConnection(s) == conn'[s] = "open" <=> conn[s] = "open"

\* ScheduleNextSend for a first ADU a that is not sent at once.
WaitsFor(s, a, pending, sent) ==
    /\ timers'[s] = pending \o Wakeups(a, sent, lastRecv[s])
    /\ lastRecv'[s] = IF a.sendWait > 0 THEN lastRecv[s] ELSE -1

\* A burst of n ADUs; pending are the other events of s.
Sends(s, n, pending) ==
    /\ n \in 1..Len(toSend[s])
    /\ IsBurst(toSend[s], n)
    /\ toSend'[s] = Drop(toSend[s], n)
    /\ heardAt'[s] = heardAt[s]
    /\ \/ /\ toSend'[s] = <<>>
          /\ timers'[s] = pending /\ lastRecv'[s] = lastRecv[s]
       \/ /\ toSend'[s] # <<>>
          /\ lastSend'[s] = now
          /\ WaitsFor(s, toSend'[s][1], pending, now)

Rests(s) == Unmoved(s) /\ SameConnection(s) /\ now' = now

TimePasses(s) == /\ Unmoved(s) /\ SameConnection(s)
                 /\ now' = now + 1
                 /\ \A i \in 1..Len(timers[s]) : timers[s][i] > now

Opens(s) ==
    /\ conn[s] # "open" /\ conn'[s] = "open" /\ now' = now
    /\ \/ toSend[s] = <<>> /\ Unmoved(s)
       \/ /\ toSend[s] # <<>> /\ Immediate(toSend[s][1])
          /\ \E n \in 1..Len(toSend[s]) : Sends(s, n, timers[s])
       \/ /\ toSend[s] # <<>> /\ ~Immediate(toSend[s][1])
          /\ toSend'[s] = toSend[s] /\ heardAt'[s] = heardAt[s]
          /\ lastSend'[s] = lastSend[s]
          /\ WaitsFor(s, toSend[s][1], timers[s], lastSend[s])

Hears(s) ==
    \E k \in Nat \ {0} :
      /\ SameConnection(s) /\ conn[s] = "open" /\ now' = now
      /\ toSend'[s] = toSend[s] /\ lastSend'[s] = lastSend[s]
      /\ heardAt'[s] = heardAt[s] \o [i \in 1..k |-> now]
      /\ AnswerReceipts(s, k)

Wakes(s) ==
    \E i \in 1..Len(timers[s]) :
      LET pending == SubSeq(timers[s], 1, i - 1) \o Drop(timers[s], i)
      IN /\ SameConnection(s) /\ now' = now
         /\ timers[s][i] <= now
         /\ \/ /\ toSend[s] = <<>>
               /\ timers'[s] = pending
               /\ toSend'[s] = toSend[s] /\ heardAt'[s] = heardAt[s]
               /\ lastSend'[s] = lastSend[s] /\ lastRecv'[s] = lastRecv[s]
            \/ /\ toSend[s] # <<>>
               /\ \E n \in 1..Len(toSend[s]) : Sends(s, n, pending)

\* What else a step of side t leaves alone on the other side.
OnlySide(t) ==
    \A s \in Sides : s # t => Unmoved(s)

\* SendBurst without a failure.
LEMMA BurstSends ==
    ASSUME Inv, NEW s \in Sides, NEW pending \in Seq(Nat), toSend[s] # <<>>,
           SendBurst(s, pending), fatal' = "none", heardAt' = heardAt
    PROVE  /\ \E n \in 1..Len(toSend[s]) : Sends(s, n, pending)
           /\ OnlySide(s)
  <1>1. /\ toSend \in [Sides -> Seq(ADU)] /\ timers \in [Sides -> Seq(Nat)]
        /\ lastSend \in [Sides -> Nat \cup {-1}]
        /\ lastRecv \in [Sides -> Nat \cup {-1}]
        /\ Accepted(toSend[s])
    BY DEF Inv, TypeOK, QueuesAccepted
  <1>2. PICK n \in 1..Len(toSend[s]) :
          LET rest == Drop(toSend[s], n)
              data == DataLeft(toSend[s]) - DataLeft(rest)
              sent == IF data > 0 THEN now ELSE lastSend[s]
              bad  == IF data > 0 /\ closed[s] THEN "notConnected"
                      ELSE IF \E i \in 1..n : toSend[s][i].size = 0
                                              /\ i < Len(toSend[s])
                      THEN "zeroSizeNotLast" ELSE "none"
          IN /\ IsBurst(toSend[s], n)
             /\ toSend' = [toSend EXCEPT ![s] = rest]
             /\ lastSend' = [lastSend EXCEPT ![s] = sent]
             /\ IF bad # "none"
                THEN /\ fatal' = bad
                     /\ timers' = [timers EXCEPT ![s] = pending]
                     /\ UNCHANGED <<lastRecv, closed, fin>>
                ELSE IF rest = <<>>
                THEN /\ CloseIfDone(s, rest)
                     /\ timers' = [timers EXCEPT ![s] = pending]
                     /\ UNCHANGED <<lastRecv, fatal>>
                ELSE /\ WaitForNext(s, rest[1], pending, sent)
                     /\ UNCHANGED <<closed, fin>>
    BY DEF SendBurst, Burst
  <1>. DEFINE rest == Drop(toSend[s], n)
              data == DataLeft(toSend[s]) - DataLeft(rest)
              sent == IF data > 0 THEN now ELSE lastSend[s]
  <1>3. /\ IsBurst(toSend[s], n)
        /\ toSend' = [toSend EXCEPT ![s] = rest]
        /\ lastSend' = [lastSend EXCEPT ![s] = sent]
        /\ \/ rest = <<>> /\ timers' = [timers EXCEPT ![s] = pending]
                          /\ lastRecv' = lastRecv
           \/ rest # <<>> /\ WaitForNext(s, rest[1], pending, sent)
    BY <1>2
  <1>4. rest # <<>> => data > 0
    <2>1. toSend[s] \in Seq(ADU)
      BY <1>1
    <2>2. /\ data \in Nat
          /\ DataLeft(toSend[s]) = DataLeft(rest) => rest = <<>>
      BY <1>1, <2>1, DataLeftBurst
    <2>3. n \in 0..Len(toSend[s])
      BY LenProperties, <2>1
    <2>4. rest \in Seq(ADU)
      BY <2>1, <2>3, DropProperties
    <2>5. DataLeft(toSend[s]) \in Nat /\ DataLeft(rest) \in Nat
      BY <2>1, <2>4, DataLeftProperties
    <2>. QED
      BY <2>2, <2>5
  <1>. HIDE DEF rest, data
  <1>5. /\ toSend'[s] = rest /\ lastSend'[s] = sent
        /\ \A t \in Sides : t # s => /\ toSend'[t] = toSend[t]
                                     /\ lastSend'[t] = lastSend[t]
    BY <1>1, <1>3
  <1>6. CASE rest = <<>>
    <2>1. timers' = [timers EXCEPT ![s] = pending] /\ lastRecv' = lastRecv
      BY <1>3, <1>6
    <2>2. timers'[s] = pending
          /\ \A t \in Sides : t # s => timers'[t] = timers[t]
      BY <1>1, <2>1
    <2>3. OnlySide(s)
      BY <1>5, <2>1, <2>2 DEF OnlySide, Unmoved
    <2>4. Sends(s, n, pending)
      BY <1>3, <1>5, <1>6, <2>1, <2>2 DEF Sends, rest
    <2>. QED
      BY <2>3, <2>4
  <1>7. CASE rest # <<>>
    <2>1. sent = now /\ WaitForNext(s, rest[1], pending, sent)
      BY <1>3, <1>4, <1>7
    <2>. HIDE DEF sent
    <2>2. /\ timers' = [timers EXCEPT
                          ![s] = pending \o Wakeups(rest[1], sent, lastRecv[s])]
          /\ lastRecv' = IF rest[1].sendWait > 0 THEN lastRecv
                         ELSE [lastRecv EXCEPT ![s] = -1]
      BY <2>1 DEF WaitForNext
    <2>3. /\ timers'[s] = pending \o Wakeups(rest[1], sent, lastRecv[s])
          /\ \A t \in Sides : t # s => timers'[t] = timers[t]
      BY <1>1, <2>2
    <2>4. /\ lastRecv'[s] = IF rest[1].sendWait > 0 THEN lastRecv[s] ELSE -1
          /\ \A t \in Sides : t # s => lastRecv'[t] = lastRecv[t]
      BY <1>1, <2>2
    <2>5. OnlySide(s)
      BY <1>5, <2>3, <2>4 DEF OnlySide, Unmoved
    <2>6. WaitsFor(s, rest[1], pending, now)
      BY <2>1, <2>3, <2>4 DEF WaitsFor
    <2>7. Sends(s, n, pending)
      BY <1>3, <1>5, <1>7, <2>1, <2>6 DEF Sends, rest
    <2>. QED
      BY <2>5, <2>7
  <1>. QED
    BY <1>6, <1>7

\* BeginSending without a failure, on the side that opens.
LEMMA BeginOpens ==
    ASSUME Inv, NEW s \in Sides, BeginSending(s), fatal' = "none",
           heardAt' = heardAt, now' = now,
           conn[s] # "open", conn'[s] = "open"
    PROVE  Opens(s) /\ OnlySide(s)
  <1>1. /\ toSend \in [Sides -> Seq(ADU)] /\ timers \in [Sides -> Seq(Nat)]
        /\ lastRecv \in [Sides -> Nat \cup {-1}]
    BY DEF Inv, TypeOK
  <1>2. CASE toSend[s] = <<>>
    BY <1>2 DEF BeginSending, Opens, OnlySide, Unmoved
  <1>3. CASE toSend[s] # <<>> /\ Immediate(toSend[s][1])
    <2>1. SendBurst(s, timers[s]) /\ timers[s] \in Seq(Nat)
      BY <1>1, <1>3 DEF BeginSending
    <2>2. /\ \E n \in 1..Len(toSend[s]) : Sends(s, n, timers[s])
          /\ OnlySide(s)
      BY <1>3, <2>1, BurstSends
    <2>. QED
      BY <1>3, <2>2 DEF Opens
  <1>4. CASE toSend[s] # <<>> /\ ~Immediate(toSend[s][1])
    <2>. DEFINE a == toSend[s][1]
    <2>1. /\ WaitForNext(s, a, timers[s], lastSend[s])
          /\ UNCHANGED <<toSend, lastSend>>
      BY <1>4 DEF BeginSending
    <2>. HIDE DEF a
    <2>2. /\ timers' = [timers EXCEPT
                          ![s] = timers[s] \o Wakeups(a, lastSend[s], lastRecv[s])]
          /\ lastRecv' = IF a.sendWait > 0 THEN lastRecv
                         ELSE [lastRecv EXCEPT ![s] = -1]
      BY <2>1 DEF WaitForNext
    <2>3. /\ timers'[s] = timers[s] \o Wakeups(a, lastSend[s], lastRecv[s])
          /\ \A t \in Sides : t # s => timers'[t] = timers[t]
      BY <1>1, <2>2
    <2>4. /\ lastRecv'[s] = IF a.sendWait > 0 THEN lastRecv[s] ELSE -1
          /\ \A t \in Sides : t # s => lastRecv'[t] = lastRecv[t]
      BY <1>1, <2>2
    <2>5. OnlySide(s)
      BY <2>1, <2>3, <2>4 DEF OnlySide, Unmoved
    <2>6. WaitsFor(s, a, timers[s], lastSend[s])
      BY <2>3, <2>4 DEF WaitsFor
    <2>. QED
      BY <1>4, <2>1, <2>5, <2>6 DEF Opens, a
  <1>. QED
    BY <1>2, <1>3, <1>4

\* Every step of the connection is one of these for each side.
LEMMA SideStep ==
    ASSUME Inv, Inv', Next, NEW s \in Sides
    PROVE  \/ Rests(s) \/ TimePasses(s) \/ Opens(s) \/ Hears(s) \/ Wakes(s)
  <1>1. /\ fatal = "none" /\ fatal' = "none"
        /\ conn \in [Sides -> {"idle", "listening", "connecting", "open"}]
        /\ timers \in [Sides -> Seq(Nat)]
        /\ lastRecv \in [Sides -> Nat \cup {-1}]
        /\ heardAt \in [Sides -> Seq(Nat)]
        /\ inflight \in [Sides -> Nat]
    BY DEF Inv, NoFatal, TypeOK
  <1>2. CASE AcceptorStart \/ InitiatorStart \/ ConnectionFailed
    <2>1. Unmoved(s) /\ now' = now
      BY <1>2 DEF AcceptorStart, InitiatorStart, ConnectionFailed, worker, Unmoved
    <2>2. SameConnection(s)
      BY <1>1, <1>2 DEF AcceptorStart, InitiatorStart, ConnectionFailed,
                        SameConnection, Sides
    <2>. QED
      BY <2>1, <2>2 DEF Rests
  <1>3. CASE ConnectionComplete
    <2>1. /\ BeginSending("I") /\ heardAt' = heardAt /\ now' = now
          /\ conn["I"] # "open" /\ conn'["I"] = "open"
          /\ "I" \in Sides
      BY <1>1, <1>3 DEF ConnectionComplete, Sides
    <2>2. Opens("I") /\ OnlySide("I")
      BY <1>1, <2>1, BeginOpens
    <2>3. s # "I" => SameConnection(s)
      BY <1>1, <1>3 DEF ConnectionComplete, SameConnection
    <2>. QED
      BY <2>1, <2>2, <2>3 DEF OnlySide, Rests
  <1>4. CASE NewConnectionCreated
    <2>1. /\ BeginSending("A") /\ heardAt' = heardAt /\ now' = now
          /\ conn["A"] # "open" /\ conn'["A"] = "open"
          /\ "A" \in Sides
      BY <1>1, <1>4 DEF NewConnectionCreated, Sides
    <2>2. Opens("A") /\ OnlySide("A")
      BY <1>1, <2>1, BeginOpens
    <2>3. s # "A" => SameConnection(s)
      BY <1>1, <1>4 DEF NewConnectionCreated, SameConnection
    <2>. QED
      BY <2>1, <2>2, <2>3 DEF OnlySide, Rests
  <1>5. ASSUME NEW t \in Sides, NEW k \in 1..inflight[t], Receive(t, k)
        PROVE  Rests(s) \/ Hears(s)
    <2>1. inflight[t] \in Nat /\ k \in Nat \ {0}
      BY <1>1
    <2>2. /\ conn[t] = "open" /\ conn' = conn /\ now' = now
          /\ toSend' = toSend /\ lastSend' = lastSend
          /\ heardAt' = [heardAt EXCEPT ![t] = @ \o [i \in 1..k |-> now]]
          /\ AnswerReceipts(t, k)
      BY <1>1, <1>5 DEF Receive
    <2>3. CASE s = t
      BY <1>1, <2>1, <2>2, <2>3 DEF Hears, SameConnection
    <2>4. CASE s # t
      <3>1. timers'[s] = timers[s] /\ lastRecv'[s] = lastRecv[s]
        BY <1>1, <2>2, <2>4 DEF AnswerReceipts
      <3>. QED
        BY <1>1, <2>2, <2>4, <3>1 DEF Rests, Unmoved, SameConnection
    <2>. QED
      BY <2>3, <2>4
  <1>6. ASSUME NEW t \in Sides, ReceiveFin(t) \/ Closed(t)
        PROVE  Rests(s)
    BY <1>6 DEF ReceiveFin, Closed, FinArrives, Rests, Unmoved, SameConnection
  <1>7. ASSUME NEW t \in Sides, NEW i \in 1..Len(timers[t]), DoSend(t, i)
        PROVE  Rests(s) \/ Wakes(s)
    <2>. DEFINE pending == SubSeq(timers[t], 1, i - 1) \o Drop(timers[t], i)
    <2>1. /\ conn' = conn /\ now' = now /\ heardAt' = heardAt
          /\ timers[t][i] <= now
          /\ IF toSend[t] = <<>>
             THEN /\ timers' = [timers EXCEPT ![t] = pending]
                  /\ UNCHANGED <<toSend, lastSend, lastRecv>>
             ELSE SendBurst(t, pending)
      BY <1>7 DEF DoSend
    <2>2. pending \in Seq(Nat)
      BY <1>1, OneLess
    <2>. HIDE DEF pending
    <2>3. CASE toSend[t] = <<>>
      <3>1. /\ timers' = [timers EXCEPT ![t] = pending]
            /\ UNCHANGED <<toSend, lastSend, lastRecv>>
        BY <2>1, <2>3
      <3>2. CASE s = t
        <4>1. timers'[s] = pending
          BY <1>1, <3>1, <3>2
        <4>. QED
          BY <2>1, <2>3, <3>1, <3>2, <4>1 DEF Wakes, SameConnection, pending
      <3>3. CASE s # t
        <4>1. timers'[s] = timers[s]
          BY <1>1, <3>1, <3>3
        <4>. QED
          BY <2>1, <3>1, <4>1 DEF Rests, Unmoved, SameConnection
      <3>. QED
        BY <3>2, <3>3
    <2>4. CASE toSend[t] # <<>>
      <3>1. /\ \E n \in 1..Len(toSend[t]) : Sends(t, n, pending)
            /\ OnlySide(t)
        BY <1>1, <2>1, <2>2, <2>4, BurstSends
      <3>2. CASE s = t
        BY <2>1, <2>4, <3>1, <3>2 DEF Wakes, SameConnection, pending
      <3>3. CASE s # t
        BY <2>1, <3>1, <3>3 DEF Rests, OnlySide, SameConnection
      <3>. QED
        BY <3>2, <3>3
    <2>. QED
      BY <2>3, <2>4
  <1>8. CASE Tick
    BY <1>8 DEF Tick, worker, TimePasses, Unmoved, SameConnection
  <1>. QED
    BY <1>2, <1>3, <1>4, <1>5, <1>6, <1>7, <1>8 DEF Next

-----------------------------------------------------------------------------
(* Where a side is in its vector.                                          *)

\* What a side has still to send is the rest of its ADUs.
Suffix(s) ==
    /\ Len(toSend[s]) <= Len(Adus(cvec, s))
    /\ \A i \in 1..Len(toSend[s]) :
          toSend[s][i] = Adus(cvec, s)[SentCount(s) + i]

\* Before it is connected a side has sent nothing and waits for nothing.
Untouched(s) ==
    conn[s] # "open" => toSend[s] = Adus(cvec, s) /\ timers[s] = <<>>

PlaceInv ==
    /\ Inv
    /\ cvec \in Vectors
    /\ \A s \in Sides : Suffix(s) /\ Untouched(s)

\* Vectors are as they were accepted.
LEMMA VectorFacts ==
    ASSUME PlaceInv, NEW s \in Sides
    PROVE  /\ Adus(cvec, s) \in Seq(ADU)
           /\ OneWait(Adus(cvec, s))
           /\ FirstDoesNotFollowASend(Adus(cvec, s))
           /\ toSend[s] \in Seq(ADU) /\ timers[s] \in Seq(Nat)
           /\ heardAt[s] \in Seq(Nat)
           /\ lastSend[s] \in Nat \cup {-1} /\ lastRecv[s] \in Nat \cup {-1}
           /\ now \in Nat
  BY AcceptedVector DEF PlaceInv, Inv, TypeOK

LEMMA CvecStays == Next => cvec' = cvec
  BY DEF Next, AcceptorStart, InitiatorStart, ConnectionFailed,
         ConnectionComplete, NewConnectionCreated, Receive, ReceiveFin, Closed,
         DoSend, Tick

\* The event that runs is one less.
LEMMA OneLessLen ==
    ASSUME NEW q \in Seq(Nat), NEW i \in 1..Len(q)
    PROVE  Len(SubSeq(q, 1, i - 1) \o Drop(q, i)) = Len(q) - 1
  <1>1. Len(q) \in Nat /\ i \in 0..Len(q) /\ i - 1 \in Int
    BY LenProperties
  <1>2. \A j \in 1..i - 1 : q[j] \in Nat
    BY <1>1, ElementOfSeq
  <1>3. SubSeq(q, 1, i - 1) \in Seq(Nat) /\ Len(SubSeq(q, 1, i - 1)) = i - 1
    BY <1>1, <1>2, SubSeqProperties
  <1>4. Drop(q, i) \in Seq(Nat) /\ Len(Drop(q, i)) = Len(q) - i
    BY <1>1, DropProperties
  <1>. QED
    BY <1>1, <1>3, <1>4, ConcatProperties

\* A burst goes on from where the side is.
LEMMA SendsSuffix ==
    ASSUME PlaceInv, NEW s \in Sides, NEW n \in 1..Len(toSend[s]),
           NEW pending, Sends(s, n, pending), cvec' = cvec
    PROVE  /\ Suffix(s)'
           /\ SentCount(s)' = SentCount(s) + n
           /\ SentCount(s) \in Nat
           /\ toSend'[s] \in Seq(ADU)
           /\ Len(toSend'[s]) = Len(toSend[s]) - n
  <1>1. /\ toSend[s] \in Seq(ADU) /\ Adus(cvec, s) \in Seq(ADU)
        /\ Len(toSend[s]) \in Nat /\ Len(Adus(cvec, s)) \in Nat
        /\ n \in Nat /\ n \in 0..Len(toSend[s])
    BY VectorFacts, LenProperties
  <1>2. toSend'[s] = Drop(toSend[s], n)
    BY DEF Sends
  <1>3. /\ toSend'[s] \in Seq(ADU)
        /\ Len(toSend'[s]) = Len(toSend[s]) - n
        /\ \A i \in 1..Len(toSend[s]) - n : toSend'[s][i] = toSend[s][n + i]
    BY <1>1, <1>2, DropProperties
  <1>4. /\ Len(toSend[s]) <= Len(Adus(cvec, s))
        /\ \A i \in 1..Len(toSend[s]) :
              toSend[s][i] = Adus(cvec, s)[SentCount(s) + i]
    BY DEF PlaceInv, Suffix
  <1>5. /\ SentCount(s) = Len(Adus(cvec, s)) - Len(toSend[s])
        /\ SentCount(s)' = Len(Adus(cvec, s)) - Len(toSend'[s])
    BY DEF SentCount
  <1>6. SentCount(s)' = SentCount(s) + n /\ SentCount(s) \in Nat
    BY <1>1, <1>3, <1>4, <1>5
  <1>7. ASSUME NEW i \in 1..Len(toSend'[s])
        PROVE  toSend'[s][i] = Adus(cvec, s)[SentCount(s)' + i]
    <2>1. n + i \in 1..Len(toSend[s]) /\ i \in 1..Len(toSend[s]) - n
      BY <1>1, <1>3
    <2>2. toSend'[s][i] = Adus(cvec, s)[SentCount(s) + (n + i)]
      BY <1>3, <1>4, <2>1
    <2>3. SentCount(s) + (n + i) = SentCount(s)' + i
      BY <1>1, <1>3, <1>6
    <2>. QED
      BY <2>2, <2>3
  <1>8. Len(toSend'[s]) <= Len(Adus(cvec, s))
    BY <1>1, <1>3, <1>4
  <1>. QED
    BY <1>3, <1>6, <1>7, <1>8 DEF Suffix

\* Each step leaves a side at its place or moves it on.
LEMMA PlaceStep == PlaceInv /\ [Next]_vars => PlaceInv'
  <1>. SUFFICES ASSUME PlaceInv, [Next]_vars
                PROVE  PlaceInv'
    OBVIOUS
  <1>1. CASE UNCHANGED vars
    <2>1. Inv'
      BY NextInv DEF PlaceInv
    <2>. QED
      BY <1>1, <2>1 DEF PlaceInv, vars, Suffix, SentCount, Untouched
  <1>2. CASE Next
    <2>1. Inv' /\ cvec' = cvec
      BY <1>2, NextInv, CvecStays DEF PlaceInv
    <2>2. ASSUME NEW s \in Sides
          PROVE  Suffix(s)' /\ Untouched(s)'
      <3>0. Suffix(s) /\ Untouched(s) /\ Inv
        BY DEF PlaceInv
      <3>1. Rests(s) \/ TimePasses(s) \/ Opens(s) \/ Hears(s) \/ Wakes(s)
        BY <1>2, <2>1, SideStep DEF PlaceInv
      <3>2. CASE toSend'[s] = toSend[s] /\ SameConnection(s)
                 /\ (timers'[s] = timers[s] \/ conn[s] = "open")
        BY <2>1, <3>0, <3>2 DEF Suffix, SentCount, Untouched, SameConnection
      <3>3. CASE Opens(s)
        <4>1. Untouched(s)'
          BY <3>3 DEF Opens, Untouched
        <4>2. CASE toSend'[s] = toSend[s]
          BY <2>1, <3>0, <4>1, <4>2 DEF Suffix, SentCount
        <4>3. CASE toSend'[s] # toSend[s]
          <5>1. PICK n \in 1..Len(toSend[s]) : Sends(s, n, timers[s])
            BY <3>3, <4>3 DEF Opens, Unmoved
          <5>. QED
            BY <2>1, <4>1, <5>1, SendsSuffix
        <4>. QED
          BY <4>2, <4>3
      <3>4. CASE Wakes(s)
        <4>1. timers[s] # <<>>
          <5>1. 1..Len(timers[s]) # {}
            BY <3>4 DEF Wakes
          <5>. QED
            BY <5>1, EmptySeq
        <4>2. conn[s] = "open" /\ conn'[s] = "open"
          BY <3>0, <3>4, <4>1 DEF Wakes, Untouched, SameConnection
        <4>3. CASE toSend'[s] = toSend[s]
          BY <2>1, <3>0, <4>2, <4>3 DEF Suffix, SentCount, Untouched
        <4>4. CASE toSend'[s] # toSend[s]
          <5>1. PICK i \in 1..Len(timers[s]) :
                  \E n \in 1..Len(toSend[s]) :
                    Sends(s, n, SubSeq(timers[s], 1, i - 1) \o Drop(timers[s], i))
            BY <3>4, <4>4 DEF Wakes
          <5>2. PICK n \in 1..Len(toSend[s]) :
                  Sends(s, n, SubSeq(timers[s], 1, i - 1) \o Drop(timers[s], i))
            BY <5>1
          <5>3. Suffix(s)'
            BY <2>1, <5>2, SendsSuffix
          <5>. QED
            BY <4>2, <5>3 DEF Untouched
        <4>. QED
          BY <4>3, <4>4
      <3>. QED
        BY <3>1, <3>2, <3>3, <3>4 DEF Rests, TimePasses, Hears, Unmoved
    <2>. QED
      BY <2>1, <2>2 DEF PlaceInv
  <1>. QED
    BY <1>1, <1>2

LEMMA InitPlace == Init => PlaceInv
  <1>. SUFFICES ASSUME Init
                PROVE  PlaceInv
    OBVIOUS
  <1>1. Inv /\ cvec \in Vectors
    BY InitInv DEF Init
  <1>2. ASSUME NEW s \in Sides
        PROVE  Suffix(s) /\ Untouched(s)
    <2>1. toSend[s] = Adus(cvec, s) /\ timers[s] = <<>>
      BY DEF Init
    <2>2. Adus(cvec, s) \in Seq(ADU) /\ Len(Adus(cvec, s)) \in Nat
      BY <1>1, AcceptedVector, LenProperties
    <2>3. SentCount(s) = 0
      BY <2>1, <2>2 DEF SentCount
    <2>. QED
      BY <2>1, <2>2, <2>3 DEF Suffix, Untouched
  <1>. QED
    BY <1>1, <1>2 DEF PlaceInv

-----------------------------------------------------------------------------
(* Answers and receipts.                                                   *)

\* A received ADU no event was scheduled for yet.
Owed(s) == IF lastRecv[s] >= 0 THEN 1 ELSE 0

\* The event an ADU that follows a send waits for.
Follows(s) ==
    IF toSend[s] # <<>> /\ toSend[s][1].sendWait > 0 THEN 1 ELSE 0

\* Each receipt pays for one answer, one event or what is still owed; only
\* an ADU that follows a send brings its own event, pending until it is sent.
Paid(s) ==
    /\ RepliesSent(s) + Len(timers[s]) + Owed(s) <= Len(heardAt[s]) + Follows(s)
    /\ Follows(s) <= Len(timers[s])

\* The answers among the first m of q.
RepliesIn(q, m) == Cardinality({i \in 1..m : q[i].recvWait > 0})

\* ... grow by one with a burst that begins with an answer.
LEMMA RepliesInBurst ==
    ASSUME NEW q, NEW m \in Nat, NEW n \in Nat \ {0},
           \A i \in 2..n : ~(q[m + i].recvWait > 0)
    PROVE  /\ RepliesIn(q, m) \in Nat
           /\ RepliesIn(q, m + n)
                = RepliesIn(q, m) + (IF q[m + 1].recvWait > 0 THEN 1 ELSE 0)
  <1>. DEFINE R(k) == {i \in 1..k : q[i].recvWait > 0}
  <1>1. IsFiniteSet(R(m))
    <2>1. IsFiniteSet(1..m)
      BY FS_Interval
    <2>. QED
      BY <2>1, FS_Subset
  <1>2. \A i \in m + 2..m + n : ~(q[i].recvWait > 0)
    <2>. SUFFICES ASSUME NEW i \in m + 2..m + n
                  PROVE  ~(q[i].recvWait > 0)
      OBVIOUS
    <2>1. i - m \in 2..n /\ m + (i - m) = i
      OBVIOUS
    <2>. QED
      BY <2>1
  <1>3. CASE q[m + 1].recvWait > 0
    <2>1. R(m + n) = R(m) \cup {m + 1}
      BY <1>2, <1>3
    <2>2. m + 1 \notin R(m)
      OBVIOUS
    <2>3. Cardinality(R(m) \cup {m + 1}) = Cardinality(R(m)) + 1
      BY <1>1, <2>2, FS_AddElement
    <2>4. Cardinality(R(m)) \in Nat
      BY <1>1, FS_CardinalityType
    <2>5. RepliesIn(q, m) = Cardinality(R(m))
          /\ RepliesIn(q, m + n) = Cardinality(R(m + n))
      BY DEF RepliesIn
    <2>6. Cardinality(R(m + n)) = Cardinality(R(m)) + 1
      BY <2>1, <2>3, Zenon
    <2>7. RepliesIn(q, m) \in Nat /\ RepliesIn(q, m + n) = RepliesIn(q, m) + 1
      BY <2>4, <2>5, <2>6
    <2>. QED
      BY <1>3, <2>7
  <1>4. CASE ~(q[m + 1].recvWait > 0)
    <2>1. R(m + n) = R(m)
      BY <1>2, <1>4
    <2>2. Cardinality(R(m)) \in Nat
      BY <1>1, FS_CardinalityType
    <2>3. RepliesIn(q, m) = Cardinality(R(m))
          /\ RepliesIn(q, m + n) = Cardinality(R(m + n))
      BY DEF RepliesIn
    <2>4. RepliesIn(q, m) \in Nat /\ RepliesIn(q, m + n) = RepliesIn(q, m)
      BY <2>1, <2>2, <2>3
    <2>. QED
      BY <1>4, <2>4
  <1>. QED
    BY <1>3, <1>4

LEMMA RepliesSentIs ==
    ASSUME NEW s \in Sides
    PROVE  RepliesSent(s) = RepliesIn(Adus(cvec, s), SentCount(s))
  BY DEF RepliesSent, RepliesIn

\* Waiting adds an event for a send, or takes one for what is owed.
LEMMA WaitsForPaid ==
    ASSUME PlaceInv, NEW s \in Sides, NEW a \in ADU, NEW pending \in Seq(Nat),
           NEW sent \in Nat \cup {-1}, WaitsFor(s, a, pending, sent)
    PROVE  /\ Len(timers'[s]) \in Nat
           /\ Len(timers'[s]) + Owed(s)'
                <= Len(pending) + Owed(s) + (IF a.sendWait > 0 THEN 1 ELSE 0)
           /\ (IF a.sendWait > 0 THEN 1 ELSE 0) <= Len(timers'[s])
  <1>1. /\ lastRecv[s] \in Nat \cup {-1} /\ now \in Nat
        /\ a.sendWait \in Nat /\ a.recvWait \in Nat
        /\ Len(pending) \in Nat
    BY VectorFacts, TypeOfADU, LenProperties
  <1>2. \A t \in Nat : <<NotBefore(t)>> \in Seq(Nat)
    BY <1>1 DEF NotBefore
  <1>3. \A w \in Seq(Nat) : Len(pending \o w) = Len(pending) + Len(w)
    BY ConcatProperties
  <1>4. /\ timers'[s] = pending \o Wakeups(a, sent, lastRecv[s])
        /\ lastRecv'[s] = IF a.sendWait > 0 THEN lastRecv[s] ELSE -1
    BY DEF WaitsFor
  <1>5. CASE a.sendWait > 0
    <2>1. sent + a.sendWait \in Nat
      BY <1>1, <1>5
    <2>2. Wakeups(a, sent, lastRecv[s]) = <<NotBefore(sent + a.sendWait)>>
      BY <1>5 DEF Wakeups
    <2>3. Len(timers'[s]) = Len(pending) + 1
      BY <1>2, <1>3, <1>4, <2>1, <2>2
    <2>4. Owed(s)' = Owed(s) /\ Owed(s) \in Nat
      BY <1>4, <1>5 DEF Owed
    <2>. QED
      BY <1>1, <1>5, <2>3, <2>4
  <1>6. CASE ~(a.sendWait > 0) /\ lastRecv[s] < 0
    <2>1. Len(timers'[s]) = Len(pending) + Len(<<>>)
      BY <1>3, <1>4, <1>6, EmptySeq DEF Wakeups
    <2>2. Owed(s)' = 0 /\ Owed(s) = 0
      BY <1>1, <1>4, <1>6 DEF Owed
    <2>. QED
      BY <1>1, <1>6, <2>1, <2>2, EmptySeq
  <1>7. CASE ~(a.sendWait > 0) /\ ~(lastRecv[s] < 0)
    <2>1. lastRecv[s] + a.recvWait \in Nat
      BY <1>1, <1>7
    <2>2. Wakeups(a, sent, lastRecv[s]) = <<NotBefore(lastRecv[s] + a.recvWait)>>
      BY <1>7 DEF Wakeups
    <2>3. Len(timers'[s]) = Len(pending) + 1
      BY <1>2, <1>3, <1>4, <2>1, <2>2
    <2>4. Owed(s)' = 0 /\ Owed(s) = 1
      BY <1>1, <1>4, <1>7 DEF Owed
    <2>. QED
      BY <1>1, <1>7, <2>3, <2>4
  <1>. QED
    BY <1>5, <1>6, <1>7

\* A burst makes at most one answer, and leaves an event only for what is
\* owed or for a send.
LEMMA SendsPaid ==
    ASSUME PlaceInv, NEW s \in Sides, NEW n \in 1..Len(toSend[s]),
           NEW pending \in Seq(Nat), Sends(s, n, pending), cvec' = cvec
    PROVE  /\ RepliesSent(s) \in Nat
           /\ RepliesSent(s)' = RepliesSent(s)
                + (IF toSend[s][1].recvWait > 0 THEN 1 ELSE 0)
           /\ Len(timers'[s]) \in Nat
           /\ Len(timers'[s]) + Owed(s)'
                <= Len(pending) + Owed(s) + Follows(s)'
           /\ Follows(s)' <= Len(timers'[s])
           /\ heardAt'[s] = heardAt[s]
  <1>1. /\ toSend[s] \in Seq(ADU) /\ Len(toSend[s]) \in Nat
        /\ n \in Nat \ {0} /\ now \in Nat /\ Len(pending) \in Nat
        /\ lastRecv[s] \in Nat \cup {-1}
    BY VectorFacts, LenProperties
  <1>2. /\ SentCount(s)' = SentCount(s) + n /\ SentCount(s) \in Nat
        /\ toSend'[s] \in Seq(ADU)
    BY SendsSuffix
  <1>3. /\ RepliesSent(s) = RepliesIn(Adus(cvec, s), SentCount(s))
        /\ RepliesSent(s)' = RepliesIn(Adus(cvec, s), SentCount(s)')
    BY DEF RepliesSent, RepliesIn
  <1>4. \A i \in 1..n : toSend[s][i] = Adus(cvec, s)[SentCount(s) + i]
    BY <1>1 DEF PlaceInv, Suffix
  <1>5. \A i \in 2..n : ~(Adus(cvec, s)[SentCount(s) + i].recvWait > 0)
    <2>. SUFFICES ASSUME NEW i \in 2..n
                  PROVE  ~(Adus(cvec, s)[SentCount(s) + i].recvWait > 0)
      OBVIOUS
    <2>1. toSend[s][i].recvWait = 0
      BY DEF Sends, IsBurst, Immediate
    <2>2. toSend[s][i] = Adus(cvec, s)[SentCount(s) + i]
      BY <1>1, <1>4
    <2>. QED
      BY <2>1, <2>2
  <1>6. toSend[s][1] = Adus(cvec, s)[SentCount(s) + 1]
    BY <1>1, <1>4
  <1>7. /\ RepliesSent(s) \in Nat
        /\ RepliesSent(s)' = RepliesSent(s)
             + (IF toSend[s][1].recvWait > 0 THEN 1 ELSE 0)
    <2>. DEFINE q == Adus(cvec, s)
                m == SentCount(s)
    <2>1. /\ m \in Nat /\ n \in Nat \ {0}
          /\ \A i \in 2..n : ~(q[m + i].recvWait > 0)
      BY <1>1, <1>2, <1>5
    <2>2. RepliesSent(s) = RepliesIn(q, m) /\ RepliesSent(s)' = RepliesIn(q, m + n)
      BY <1>2, <1>3
    <2>3. toSend[s][1] = q[m + 1]
      BY <1>6
    <2>. HIDE DEF q, m
    <2>4. /\ RepliesIn(q, m) \in Nat
          /\ RepliesIn(q, m + n)
               = RepliesIn(q, m) + (IF q[m + 1].recvWait > 0 THEN 1 ELSE 0)
      BY <2>1, RepliesInBurst
    <2>. QED
      BY <2>2, <2>3, <2>4
  <1>8. CASE toSend'[s] = <<>>
    <2>1. timers'[s] = pending /\ Owed(s)' = Owed(s) /\ Owed(s) \in Nat
      BY <1>8 DEF Sends, Owed
    <2>2. Follows(s)' = 0
      BY <1>8 DEF Follows
    <2>. QED
      BY <1>1, <1>7, <2>1, <2>2 DEF Sends
  <1>9. CASE toSend'[s] # <<>>
    <2>1. WaitsFor(s, toSend'[s][1], pending, now)
      BY <1>9 DEF Sends
    <2>2. toSend'[s][1] \in ADU
      BY <1>2, <1>9, EmptySeq
    <2>3. /\ Len(timers'[s]) \in Nat
          /\ Len(timers'[s]) + Owed(s)' <= Len(pending) + Owed(s)
               + (IF toSend'[s][1].sendWait > 0 THEN 1 ELSE 0)
          /\ (IF toSend'[s][1].sendWait > 0 THEN 1 ELSE 0) <= Len(timers'[s])
      BY <1>1, <2>1, <2>2, WaitsForPaid
    <2>4. Follows(s)' = IF toSend'[s][1].sendWait > 0 THEN 1 ELSE 0
      BY <1>9 DEF Follows
    <2>. QED
      BY <1>7, <2>3, <2>4 DEF Sends
  <1>. QED
    BY <1>8, <1>9

LEMMA CountIsNat ==
    ASSUME PlaceInv, NEW s \in Sides
    PROVE  RepliesSent(s) \in Nat
  <1>1. SentCount(s) \in Nat
    <2>1. Len(Adus(cvec, s)) \in Nat /\ Len(toSend[s]) \in Nat
      BY VectorFacts, LenProperties
    <2>2. Len(toSend[s]) <= Len(Adus(cvec, s))
      BY DEF PlaceInv, Suffix
    <2>. QED
      BY <2>1, <2>2 DEF SentCount
  <1>2. IsFiniteSet(1..SentCount(s))
    BY <1>1, FS_Interval
  <1>3. IsFiniteSet({i \in 1..SentCount(s) : Adus(cvec, s)[i].recvWait > 0})
    BY <1>2, FS_Subset
  <1>. QED
    BY <1>3, FS_CardinalityType DEF RepliesSent

LEMMA PaidStep ==
    ASSUME PlaceInv, Inv', Next, NEW s \in Sides, Paid(s)
    PROVE  Paid(s)'
  <1>1. /\ cvec' = cvec
        /\ Rests(s) \/ TimePasses(s) \/ Opens(s) \/ Hears(s) \/ Wakes(s)
    BY CvecStays, SideStep DEF PlaceInv
  <1>2. /\ timers[s] \in Seq(Nat) /\ Len(timers[s]) \in Nat
        /\ heardAt[s] \in Seq(Nat) /\ Len(heardAt[s]) \in Nat
        /\ toSend[s] \in Seq(ADU) /\ now \in Nat
        /\ lastSend[s] \in Nat \cup {-1} /\ lastRecv[s] \in Nat \cup {-1}
        /\ Owed(s) \in 0..1 /\ Follows(s) \in 0..1
    BY VectorFacts, LenProperties DEF Owed, Follows
  <1>3. /\ RepliesSent(s) + Len(timers[s]) + Owed(s) <= Len(heardAt[s]) + Follows(s)
        /\ Follows(s) <= Len(timers[s])
    BY DEF Paid
  <1>4. RepliesSent(s) \in Nat
    BY CountIsNat
  <1>. DEFINE r == RepliesSent(s)
              l == Len(timers[s])
              o == Owed(s)
              h == Len(heardAt[s])
              f == Follows(s)
              r2 == RepliesSent(s)'
              l2 == Len(timers'[s])
              o2 == Owed(s)'
              h2 == Len(heardAt'[s])
              f2 == Follows(s)'
  <1>counts. /\ r \in Nat /\ l \in Nat /\ o \in Nat /\ h \in Nat /\ f \in Nat
        /\ o2 \in Nat /\ f2 \in Nat
        /\ r + l + o <= h + f
        /\ f <= l
    BY <1>2, <1>3, <1>4 DEF Owed, Follows
  <1>sum. r2 + l2 + o2 <= h2 + f2 /\ f2 <= l2 => Paid(s)'
    BY DEF Paid
  <1>5. CASE Unmoved(s)
    BY <1>1, <1>5 DEF Unmoved, Paid, RepliesSent, SentCount, Owed, Follows
  <1>6. CASE \E n \in 1..Len(toSend[s]) :
               Sends(s, n, timers[s]) /\ Immediate(toSend[s][1])
    <2>1. PICK n \in 1..Len(toSend[s]) :
            Sends(s, n, timers[s]) /\ Immediate(toSend[s][1])
      BY <1>6
    <2>2. /\ RepliesSent(s)' = RepliesSent(s)
           + (IF toSend[s][1].recvWait > 0 THEN 1 ELSE 0)
          /\ Len(timers'[s]) \in Nat
          /\ Len(timers'[s]) + Owed(s)'
               <= Len(timers[s]) + Owed(s) + Follows(s)'
          /\ heardAt'[s] = heardAt[s]
          /\ Follows(s)' <= Len(timers'[s])
      BY <1>1, <1>2, <2>1, SendsPaid
    <2>3. RepliesSent(s)' = RepliesSent(s) /\ Follows(s) = 0
      BY <1>4, <2>1, <2>2 DEF Immediate, Follows
    <2>5. /\ r2 = r /\ f = 0 /\ h2 = h
          /\ l2 \in Nat /\ l2 + o2 <= l + o + f2
          /\ f2 <= l2
      BY <2>2, <2>3
    <2>. HIDE DEF r, l, o, h, f, r2, l2, o2, h2, f2
    <2>. QED
      BY <1>counts, <1>sum, <2>5
  <1>7. CASE /\ conn[s] # "open" /\ toSend[s] # <<>>
             /\ toSend'[s] = toSend[s] /\ heardAt'[s] = heardAt[s]
             /\ WaitsFor(s, toSend[s][1], timers[s], lastSend[s])
    <2>1. toSend[s] = Adus(cvec, s)
      BY <1>7 DEF PlaceInv, Untouched
    <2>2. toSend[s][1].sendWait = 0
      BY <1>7, <2>1, VectorFacts DEF FirstDoesNotFollowASend
    <2>3. toSend[s][1] \in ADU
      BY <1>2, <1>7, EmptySeq
    <2>4. /\ Len(timers'[s]) \in Nat
          /\ Len(timers'[s]) + Owed(s)' <= Len(timers[s]) + Owed(s)
               + (IF toSend[s][1].sendWait > 0 THEN 1 ELSE 0)
      BY <1>2, <1>7, <2>3, WaitsForPaid
    <2>5. Len(timers'[s]) + Owed(s)' <= Len(timers[s]) + Owed(s)
      BY <1>2, <2>2, <2>4
    <2>6. RepliesSent(s)' = RepliesSent(s) /\ Follows(s)' = Follows(s)
      BY <1>1, <1>7 DEF RepliesSent, SentCount, Follows
    <2>8. /\ r2 = r /\ f2 = f /\ f = 0 /\ h2 = h
          /\ l2 \in Nat /\ l2 + o2 <= l + o
      BY <1>7, <2>2, <2>4, <2>5, <2>6 DEF Follows
    <2>. HIDE DEF r, l, o, h, f, r2, l2, o2, h2, f2
    <2>. QED
      BY <1>counts, <1>sum, <2>8
  <1>8. CASE Hears(s)
    <2>1. PICK k \in Nat \ {0} :
            /\ toSend'[s] = toSend[s]
            /\ heardAt'[s] = heardAt[s] \o [i \in 1..k |-> now]
            /\ AnswerReceipts(s, k)
      BY <1>8 DEF Hears
    <2>2. /\ [i \in 1..k |-> now] \in Seq(Nat)
          /\ Len([i \in 1..k |-> now]) = k
      BY <1>2
    <2>3. Len(heardAt'[s]) = Len(heardAt[s]) + k
      BY <1>2, <2>1, <2>2, ConcatProperties
    <2>4. RepliesSent(s)' = RepliesSent(s) /\ Follows(s)' = Follows(s)
      BY <1>1, <2>1 DEF RepliesSent, SentCount, Follows
    <2>5. Len(timers'[s]) + Owed(s)' <= Len(timers[s]) + Owed(s) + k
          /\ Len(timers[s]) <= Len(timers'[s])
          /\ Len(timers'[s]) \in Nat /\ Owed(s)' \in 0..1
      <3>1. /\ timers \in [Sides -> Seq(Nat)]
            /\ lastRecv \in [Sides -> Nat \cup {-1}]
        BY DEF PlaceInv, Inv, TypeOK
      <3>2. CASE toSend[s] # <<>> /\ toSend[s][1].recvWait > 0
        <4>. DEFINE w == [i \in 1..k |-> now + toSend[s][1].recvWait]
        <4>1. /\ timers' = [timers EXCEPT ![s] = @ \o w]
              /\ lastRecv' = [lastRecv EXCEPT ![s] = -1]
          BY <2>1, <3>2 DEF AnswerReceipts
        <4>2. toSend[s][1].recvWait \in Nat
          BY <1>2, <3>2, EmptySeq, TypeOfADU
        <4>3. w \in Seq(Nat) /\ Len(w) = k
          BY <1>2, <4>2
        <4>. HIDE DEF w
        <4>4. timers'[s] = timers[s] \o w /\ lastRecv'[s] = -1
          BY <3>1, <4>1
        <4>5. Len(timers'[s]) = Len(timers[s]) + k
          BY <1>2, <4>3, <4>4, ConcatProperties
        <4>6. Owed(s)' = 0
          BY <4>4 DEF Owed
        <4>. QED
          BY <1>2, <4>5, <4>6
      <3>3. CASE ~(toSend[s] # <<>> /\ toSend[s][1].recvWait > 0)
        <4>1. timers' = timers /\ lastRecv' = [lastRecv EXCEPT ![s] = now]
          BY <2>1, <3>3 DEF AnswerReceipts
        <4>2. Owed(s)' \in 0..1
          BY DEF Owed
        <4>. QED
          BY <1>2, <4>1, <4>2
      <3>. QED
        BY <3>2, <3>3
    <2>6. /\ r2 = r /\ f2 = f /\ h2 = h + k
          /\ l2 \in Nat /\ l2 + o2 <= l + o + k
          /\ l <= l2
      BY <2>3, <2>4, <2>5
    <2>. HIDE DEF r, l, o, h, f, r2, l2, o2, h2, f2
    <2>. QED
      BY <1>counts, <1>sum, <2>6
  <1>9. CASE Wakes(s)
    <2>1. PICK i \in 1..Len(timers[s]) :
            LET pending == SubSeq(timers[s], 1, i - 1) \o Drop(timers[s], i)
            IN \/ /\ toSend[s] = <<>>
                  /\ timers'[s] = pending
                  /\ toSend'[s] = toSend[s] /\ heardAt'[s] = heardAt[s]
                  /\ lastSend'[s] = lastSend[s] /\ lastRecv'[s] = lastRecv[s]
               \/ /\ toSend[s] # <<>>
                  /\ \E n \in 1..Len(toSend[s]) : Sends(s, n, pending)
      BY <1>9 DEF Wakes
    <2>. DEFINE pending == SubSeq(timers[s], 1, i - 1) \o Drop(timers[s], i)
    <2>2. pending \in Seq(Nat) /\ Len(pending) = Len(timers[s]) - 1
      BY <1>2, OneLess, OneLessLen
    <2>3. CASE toSend[s] = <<>>
      <3>1. /\ timers'[s] = pending
            /\ toSend'[s] = toSend[s] /\ heardAt'[s] = heardAt[s]
            /\ lastRecv'[s] = lastRecv[s]
        BY <2>1, <2>3, EmptySeq
      <3>2. RepliesSent(s)' = RepliesSent(s) /\ Follows(s)' = Follows(s)
            /\ Owed(s)' = Owed(s)
        BY <1>1, <3>1 DEF RepliesSent, SentCount, Follows, Owed
      <3>3. r2 = r /\ f2 = f /\ o2 = o /\ h2 = h /\ l2 = l - 1 /\ f = 0
            /\ l2 \in Nat
        BY <2>2, <2>3, <3>1, <3>2, LenProperties DEF Follows
      <3>. HIDE DEF pending, r, l, o, h, f, r2, l2, o2, h2, f2
      <3>. QED
        BY <1>counts, <1>sum, <3>3
    <2>4. CASE toSend[s] # <<>>
      <3>1. PICK n \in 1..Len(toSend[s]) : Sends(s, n, pending)
        BY <2>1, <2>4
      <3>. HIDE DEF pending
      <3>2. /\ RepliesSent(s)' = RepliesSent(s)
                 + (IF toSend[s][1].recvWait > 0 THEN 1 ELSE 0)
            /\ Len(timers'[s]) \in Nat
            /\ Len(timers'[s]) + Owed(s)' <= Len(pending) + Owed(s) + Follows(s)'
            /\ heardAt'[s] = heardAt[s]
            /\ Follows(s)' <= Len(timers'[s])
        BY <1>1, <2>2, <3>1, SendsPaid
      <3>4. RepliesSent(s)' + Follows(s) <= RepliesSent(s) + 1
            /\ RepliesSent(s)' \in Nat
        <4>1. ~(toSend[s][1].recvWait > 0 /\ Follows(s) = 1)
          <5>1. Adus(cvec, s)[SentCount(s) + 1] = toSend[s][1]
            BY <1>2, <2>4, EmptySeq, LenProperties DEF PlaceInv, Suffix
          <5>2. SentCount(s) + 1 \in 1..Len(Adus(cvec, s))
            <6>1. Len(toSend[s]) \in Nat \ {0} /\ Len(Adus(cvec, s)) \in Nat
                  /\ Len(toSend[s]) <= Len(Adus(cvec, s))
              BY <1>2, <2>4, EmptySeq, LenProperties, VectorFacts DEF PlaceInv, Suffix
            <6>. QED
              BY <6>1 DEF SentCount
          <5>3. toSend[s][1].sendWait = 0 \/ toSend[s][1].recvWait = 0
            BY <5>1, <5>2, VectorFacts DEF OneWait
          <5>. QED
            BY <5>3 DEF Follows
        <4>. QED
          BY <1>2, <1>4, <3>2, <4>1
      <3>5. /\ r2 + f <= r + 1 /\ r2 \in Nat
            /\ h2 = h
            /\ l2 \in Nat /\ l2 + o2 <= (l - 1) + o + f2
            /\ f2 <= l2
        BY <2>2, <3>2, <3>4
      <3>. HIDE DEF r, l, o, h, f, r2, l2, o2, h2, f2
      <3>. QED
        BY <1>counts, <1>sum, <3>5
    <2>. QED
      BY <2>3, <2>4
  <1>. QED
    BY <1>1, <1>5, <1>6, <1>7, <1>8, <1>9 DEF Rests, TimePasses, Opens

PaidInv == PlaceInv /\ \A s \in Sides : Paid(s)

LEMMA InitPaid == Init => PaidInv
  <1>. SUFFICES ASSUME Init
                PROVE  PaidInv
    OBVIOUS
  <1>1. PlaceInv
    BY InitPlace
  <1>2. ASSUME NEW s \in Sides
        PROVE  Paid(s)
    <2>1. /\ toSend[s] = Adus(cvec, s) /\ timers[s] = <<>>
          /\ heardAt[s] = <<>> /\ lastRecv[s] = -1
      BY <1>2 DEF Init
    <2>2. Len(Adus(cvec, s)) \in Nat
      BY <1>1, VectorFacts, LenProperties
    <2>3. SentCount(s) = 0
      BY <2>1, <2>2 DEF SentCount
    <2>4. {i \in 1..SentCount(s) : Adus(cvec, s)[i].recvWait > 0} = {}
      BY <2>3
    <2>5. RepliesSent(s) = 0
      BY <2>4, FS_EmptySet DEF RepliesSent
    <2>6. Len(timers[s]) = 0 /\ Len(heardAt[s]) = 0
      BY <2>1, EmptySeq
    <2>7. Owed(s) = 0
      BY <2>1 DEF Owed
    <2>8. Follows(s) = 0
      BY <1>1, <2>1, VectorFacts DEF Follows, FirstDoesNotFollowASend
    <2>. QED
      BY <2>5, <2>6, <2>7, <2>8 DEF Paid
  <1>. QED
    BY <1>1, <1>2 DEF PaidInv

LEMMA PaidNext == PaidInv /\ [Next]_vars => PaidInv'
  <1>. SUFFICES ASSUME PaidInv, [Next]_vars
                PROVE  PaidInv'
    OBVIOUS
  <1>1. PlaceInv'
    BY PlaceStep DEF PaidInv
  <1>2. CASE Next
    BY <1>1, <1>2, PaidStep DEF PaidInv, PlaceInv
  <1>3. CASE UNCHANGED vars
    BY <1>1, <1>3 DEF PaidInv, vars, Paid, RepliesSent, SentCount, Owed, Follows
  <1>. QED
    BY <1>2, <1>3

\* ScheduleNextSend clears m_lastRecvTime for every event it schedules: a
\* side never sends more answers than it received ADUs.
THEOREM NoFreeReplies == Spec => []RepliesPaid
  <1>1. PaidInv => RepliesPaid
    <2>. SUFFICES ASSUME PaidInv, NEW s \in Sides
                  PROVE  RepliesSent(s) <= Len(heardAt[s])
      BY DEF RepliesPaid
    <2>. DEFINE r == RepliesSent(s)
                l == Len(timers[s])
                o == Owed(s)
                h == Len(heardAt[s])
                f == Follows(s)
    <2>1. PlaceInv /\ r + l + o <= h + f /\ f <= l
      BY DEF PaidInv, Paid
    <2>2. /\ timers[s] \in Seq(Nat) /\ l \in Nat /\ h \in Nat
          /\ toSend[s] \in Seq(ADU)
      BY <2>1, VectorFacts, LenProperties
    <2>3. o \in 0..1 /\ f \in 0..1
      BY DEF Owed, Follows
    <2>4. r \in Nat
      BY <2>1, CountIsNat
    <2>. HIDE DEF r, l, o, h, f
    <2>. QED
      BY <2>1, <2>2, <2>3, <2>4 DEF r, h
  <1>. QED
    BY InitPaid, PaidNext, <1>1, PTL DEF Spec

-----------------------------------------------------------------------------
(* Concurrent vectors.                                                     *)

\* A side of a concurrent vector waits for one time, that of its next ADU,
\* and that time has not passed.
OnSchedule(s) ==
    Concurrent(cvec) /\ conn[s] = "open" =>
      \/ toSend[s] = <<>> /\ timers[s] = <<>>
      \/ /\ toSend[s] # <<>> /\ SentCount(s) >= 1
         /\ timers[s] = <<lastSend[s] + toSend[s][1].sendWait>>
         /\ now <= lastSend[s] + toSend[s][1].sendWait

\* The ADUs s sends now are due now.
SendsOnTime(s) ==
    \A i \in SentNow(s) :
      Concurrent(cvec) /\ i > 1
        => now = lastSend[s] + Adus(cvec, s)[i].sendWait

\* All but the first ADU of a side follow a send.
LEMMA ConcurrentRest ==
    ASSUME PlaceInv, Concurrent(cvec), NEW s \in Sides,
           NEW i \in 1..Len(toSend[s]), SentCount(s) + i >= 2
    PROVE  toSend[s][i].sendWait > 0 /\ toSend[s][i].recvWait = 0
  <1>1. /\ Len(toSend[s]) \in Nat /\ Len(Adus(cvec, s)) \in Nat
        /\ Len(toSend[s]) <= Len(Adus(cvec, s))
    BY VectorFacts, LenProperties DEF PlaceInv, Suffix
  <1>2. SentCount(s) + i \in 2..Len(Adus(cvec, s))
    BY <1>1 DEF SentCount
  <1>3. toSend[s][i] = Adus(cvec, s)[SentCount(s) + i]
    BY DEF PlaceInv, Suffix
  <1>. QED
    BY <1>2, <1>3 DEF Concurrent

\* In a concurrent vector ADUs leave one at a time, and each leaves the event
\* of the next.
LEMMA ConcurrentSends ==
    ASSUME PlaceInv, Concurrent(cvec), cvec' = cvec, NEW s \in Sides,
           NEW n \in 1..Len(toSend[s]), Sends(s, n, <<>>)
    PROVE  /\ n = 1
           /\ SentCount(s)' = SentCount(s) + 1
           /\ \/ toSend'[s] = <<>> /\ timers'[s] = <<>>
              \/ /\ toSend'[s] # <<>> /\ SentCount(s)' >= 1
                 /\ timers'[s] = <<lastSend'[s] + toSend'[s][1].sendWait>>
                 /\ now <= lastSend'[s] + toSend'[s][1].sendWait
  <1>1. /\ toSend[s] \in Seq(ADU) /\ Len(toSend[s]) \in Nat /\ now \in Nat
        /\ SentCount(s) \in Nat
        /\ SentCount(s)' = SentCount(s) + n /\ Suffix(s)'
        /\ toSend'[s] \in Seq(ADU) /\ Len(toSend'[s]) = Len(toSend[s]) - n
    BY VectorFacts, LenProperties, SendsSuffix
  <1>2. n = 1
    <2>. SUFFICES ASSUME n # 1
                  PROVE  FALSE
      OBVIOUS
    <2>1. 2 \in 2..n /\ 2 \in 1..Len(toSend[s])
      BY <1>1
    <2>2. Immediate(toSend[s][2])
      BY <2>1 DEF Sends, IsBurst
    <2>3. SentCount(s) + 2 >= 2
      BY <1>1
    <2>4. toSend[s][2].sendWait > 0
      BY <2>1, <2>3, ConcurrentRest
    <2>. QED
      BY <2>2, <2>4 DEF Immediate
  <1>3. CASE toSend'[s] = <<>>
    BY <1>1, <1>2, <1>3 DEF Sends
  <1>4. CASE toSend'[s] # <<>>
    <2>. DEFINE a == toSend'[s][1]
    <2>1. /\ lastSend'[s] = now
          /\ timers'[s] = <<>> \o Wakeups(a, now, lastRecv[s])
      BY <1>4 DEF Sends, WaitsFor
    <2>2. a \in ADU /\ Len(toSend[s]) > 1
      BY <1>1, <1>2, <1>4, EmptySeq
    <2>3. a = toSend[s][2]
      <3>1. toSend'[s] = Drop(toSend[s], 1) /\ 1 \in 0..Len(toSend[s])
            /\ 1 \in 1..Len(toSend[s]) - 1
        BY <1>1, <1>2, <2>2 DEF Sends
      <3>2. Drop(toSend[s], 1)[1] = toSend[s][1 + 1]
        BY <1>1, <3>1, DropProperties
      <3>. QED
        BY <3>1, <3>2
    <2>4. a.sendWait > 0 /\ a.sendWait \in Nat
      <3>1. SentCount(s) + 2 >= 2 /\ 2 \in 1..Len(toSend[s])
        BY <1>1, <2>2
      <3>. QED
        BY <2>2, <2>3, <3>1, ConcurrentRest, TypeOfADU
    <2>. HIDE DEF a
    <2>5. Wakeups(a, now, lastRecv[s]) = <<now + a.sendWait>>
      BY <1>1, <2>4 DEF Wakeups, NotBefore
    <2>6. timers'[s] = <<now + a.sendWait>>
      <3>1. <<now + a.sendWait>> \in Seq(Nat)
        BY <1>1, <2>4
      <3>2. <<>> \o <<now + a.sendWait>> = <<now + a.sendWait>>
        BY <3>1, ConcatEmptySeq
      <3>. QED
        BY <2>1, <2>5, <3>2
    <2>7. now <= now + a.sendWait
      BY <1>1, <2>4
    <2>8. SentCount(s)' >= 1
      BY <1>1, <1>2
    <2>. QED
      BY <1>1, <1>2, <1>4, <2>1, <2>6, <2>7, <2>8 DEF a
  <1>. QED
    BY <1>3, <1>4

\* Nothing is sent while the queue stays as it is.
LEMMA QuietOnTime ==
    ASSUME PlaceInv, cvec' = cvec, NEW s \in Sides, toSend'[s] = toSend[s]
    PROVE  SentNow(s) = {} /\ SentCount(s)' = SentCount(s)
  <1>1. Len(toSend[s]) \in Nat /\ Len(Adus(cvec, s)) \in Nat
    BY VectorFacts, LenProperties
  <1>. DEFINE c == Len(Adus(cvec, s)) - Len(toSend[s])
  <1>2. SentCount(s) = c /\ SentCount(s)' = c
    BY DEF SentCount
  <1>3. SentNow(s) = c + 1..c
    BY DEF SentNow, SentCount
  <1>4. c \in Int
    BY <1>1
  <1>. HIDE DEF c
  <1>5. c + 1..c = {}
    BY <1>4
  <1>. QED
    BY <1>2, <1>3, <1>5

LEMMA ScheduleStep ==
    ASSUME PlaceInv, Inv', Next, NEW s \in Sides, OnSchedule(s)
    PROVE  OnSchedule(s)' /\ SendsOnTime(s)
  <1>. SUFFICES ASSUME Concurrent(cvec)
                PROVE  OnSchedule(s)' /\ SendsOnTime(s)
    BY CvecStays DEF OnSchedule, SendsOnTime
  <1>1. /\ cvec' = cvec
        /\ Rests(s) \/ TimePasses(s) \/ Opens(s) \/ Hears(s) \/ Wakes(s)
    BY CvecStays, SideStep DEF PlaceInv
  <1>2. /\ timers[s] \in Seq(Nat) /\ toSend[s] \in Seq(ADU)
        /\ Adus(cvec, s) \in Seq(ADU)
        /\ Len(toSend[s]) \in Nat /\ Len(Adus(cvec, s)) \in Nat /\ now \in Nat
        /\ lastSend[s] \in Nat \cup {-1}
    BY VectorFacts, LenProperties
  <1>3. CASE Rests(s)
    <2>1. SentNow(s) = {} /\ SentCount(s)' = SentCount(s)
      BY <1>1, <1>3, QuietOnTime DEF Rests, Unmoved
    <2>. QED
      BY <1>1, <1>3, <2>1
      DEF Rests, Unmoved, SameConnection, OnSchedule, SendsOnTime
  <1>4. CASE TimePasses(s)
    <2>1. SentNow(s) = {} /\ SentCount(s)' = SentCount(s)
      BY <1>1, <1>4, QuietOnTime DEF TimePasses, Unmoved
    <2>2. CASE conn[s] = "open" /\ toSend[s] # <<>>
      <3>. DEFINE t == lastSend[s] + toSend[s][1].sendWait
      <3>1. timers[s] = <<t>> /\ now <= t /\ SentCount(s) >= 1
        BY <2>2 DEF OnSchedule
      <3>2. t \in Nat
        BY <1>2, <3>1
      <3>3. 1 \in 1..Len(timers[s]) /\ timers[s][1] = t
        BY <3>1
      <3>4. t > now
        BY <1>4, <3>3 DEF TimePasses
      <3>5. now' <= t
        BY <1>2, <1>4, <3>2, <3>4 DEF TimePasses
      <3>6. t = lastSend'[s] + toSend'[s][1].sendWait
        BY <1>4 DEF TimePasses, Unmoved
      <3>. HIDE DEF t
      <3>. QED
        BY <1>4, <2>1, <2>2, <3>1, <3>5, <3>6
        DEF TimePasses, Unmoved, OnSchedule, SendsOnTime
    <2>3. CASE ~(conn[s] = "open" /\ toSend[s] # <<>>)
      BY <1>1, <1>4, <2>1, <2>3
      DEF TimePasses, Unmoved, SameConnection, OnSchedule, SendsOnTime
    <2>. QED
      BY <2>2, <2>3
  <1>5. CASE Opens(s)
    <2>1. toSend[s] = Adus(cvec, s) /\ timers[s] = <<>>
      BY <1>5 DEF Opens, PlaceInv, Untouched
    <2>2. toSend[s] # <<>> /\ Immediate(toSend[s][1])
      BY <2>1 DEF Concurrent
    <2>3. PICK n \in 1..Len(toSend[s]) : Sends(s, n, <<>>)
      BY <1>5, <2>1, <2>2 DEF Opens
    <2>4. /\ SentCount(s)' = SentCount(s) + 1
          /\ \/ toSend'[s] = <<>> /\ timers'[s] = <<>>
             \/ /\ toSend'[s] # <<>> /\ SentCount(s)' >= 1
                /\ timers'[s] = <<lastSend'[s] + toSend'[s][1].sendWait>>
                /\ now <= lastSend'[s] + toSend'[s][1].sendWait
      BY <1>1, <2>3, ConcurrentSends
    <2>5. SentCount(s) = 0
      BY <1>2, <2>1 DEF SentCount
    <2>6. SentNow(s) = SentCount(s) + 1..SentCount(s)'
      BY <1>1 DEF SentNow, SentCount
    <2>7. SentNow(s) = 1..1
      BY <2>4, <2>5, <2>6
    <2>8. now' = now
      BY <1>5 DEF Opens
    <2>. QED
      BY <2>4, <2>7, <2>8 DEF OnSchedule, SendsOnTime
  <1>6. CASE Hears(s)
    <2>1. PICK k \in Nat \ {0} :
            /\ SameConnection(s) /\ conn[s] = "open" /\ now' = now
            /\ toSend'[s] = toSend[s] /\ lastSend'[s] = lastSend[s]
            /\ AnswerReceipts(s, k)
      BY <1>6 DEF Hears
    <2>2. SentNow(s) = {} /\ SentCount(s)' = SentCount(s)
      BY <1>1, <2>1, QuietOnTime
    <2>3. ~(toSend[s] # <<>> /\ toSend[s][1].recvWait > 0)
      <3>1. CASE toSend[s] # <<>>
        <4>1. 1 \in 1..Len(toSend[s])
          BY <1>2, <3>1, EmptySeq
        <4>2. SentCount(s) >= 1 /\ SentCount(s) \in Int
          BY <1>2, <2>1, <3>1 DEF OnSchedule, SentCount
        <4>3. SentCount(s) + 1 >= 2
          BY <4>2
        <4>4. toSend[s][1].recvWait = 0
          BY <4>1, <4>3, ConcurrentRest
        <4>. QED
          BY <4>4
      <3>. QED
        BY <3>1
    <2>4. timers' = timers
      BY <2>1, <2>3 DEF AnswerReceipts
    <2>. QED
      BY <1>1, <2>1, <2>2, <2>4 DEF SameConnection, OnSchedule, SendsOnTime
  <1>7. CASE Wakes(s)
    <2>1. PICK i \in 1..Len(timers[s]) :
            LET pending == SubSeq(timers[s], 1, i - 1) \o Drop(timers[s], i)
            IN /\ SameConnection(s) /\ now' = now
               /\ timers[s][i] <= now
               /\ \/ toSend[s] = <<>>
                  \/ \E n \in 1..Len(toSend[s]) : Sends(s, n, pending)
      BY <1>7 DEF Wakes
    <2>2. timers[s] # <<>>
      <3>1. 1..Len(timers[s]) # {}
        BY <2>1
      <3>. QED
        BY <3>1, EmptySeq
    <2>3. conn[s] = "open"
      BY <2>2 DEF PlaceInv, Untouched
    <2>. DEFINE t == lastSend[s] + toSend[s][1].sendWait
    <2>4. /\ toSend[s] # <<>> /\ SentCount(s) >= 1
          /\ timers[s] = <<t>> /\ now <= t
      BY <2>2, <2>3 DEF OnSchedule
    <2>5. i = 1 /\ timers[s][1] = t /\ Len(timers[s]) = 1
      BY <2>1, <2>4
    <2>6. t \in Nat
      BY <1>2, <2>4
    <2>. HIDE DEF t
    <2>7. now = t
      BY <1>2, <2>1, <2>4, <2>5, <2>6
    <2>8. SubSeq(timers[s], 1, i - 1) \o Drop(timers[s], i) = <<>>
      <3>1. Len(SubSeq(timers[s], 1, i - 1) \o Drop(timers[s], i)) = 0
        <4>1. Len(SubSeq(timers[s], 1, i - 1) \o Drop(timers[s], i))
                = Len(timers[s]) - 1
          BY <1>2, OneLessLen
        <4>. QED
          BY <2>5, <4>1
      <3>2. SubSeq(timers[s], 1, i - 1) \o Drop(timers[s], i) \in Seq(Nat)
        BY <1>2, OneLess
      <3>. QED
        BY <3>1, <3>2, EmptySeq
    <2>9. PICK n \in 1..Len(toSend[s]) : Sends(s, n, <<>>)
      BY <2>1, <2>4, <2>8
    <2>10. /\ SentCount(s)' = SentCount(s) + 1
           /\ \/ toSend'[s] = <<>> /\ timers'[s] = <<>>
              \/ /\ toSend'[s] # <<>> /\ SentCount(s)' >= 1
                 /\ timers'[s] = <<lastSend'[s] + toSend'[s][1].sendWait>>
                 /\ now <= lastSend'[s] + toSend'[s][1].sendWait
      BY <1>1, <2>9, ConcurrentSends
    <2>11. OnSchedule(s)'
      BY <2>1, <2>10 DEF OnSchedule
    <2>12. SentNow(s) = SentCount(s) + 1..SentCount(s)'
      BY <1>1 DEF SentNow, SentCount
    <2>13. SentCount(s) \in Int
      BY <1>2 DEF SentCount
    <2>14. \A j \in SentNow(s) : j = SentCount(s) + 1
      BY <2>10, <2>12, <2>13
    <2>15. Adus(cvec, s)[SentCount(s) + 1] = toSend[s][1]
      <3>1. 1 \in 1..Len(toSend[s])
        BY <1>2, <2>4, EmptySeq
      <3>. QED
        BY <3>1 DEF PlaceInv, Suffix
    <2>. QED
      BY <2>7, <2>11, <2>14, <2>15 DEF SendsOnTime, t
  <1>. QED
    BY <1>1, <1>3, <1>4, <1>5, <1>6, <1>7

ScheduleInv == PlaceInv /\ \A s \in Sides : OnSchedule(s)

LEMMA ScheduleHolds == Spec => []ScheduleInv
  <1>1. Init => ScheduleInv
    BY InitPlace DEF Init, ScheduleInv, OnSchedule
  <1>2. ScheduleInv /\ [Next]_vars => ScheduleInv'
    <2>. SUFFICES ASSUME ScheduleInv, [Next]_vars
                  PROVE  ScheduleInv'
      OBVIOUS
    <2>1. PlaceInv'
      BY PlaceStep DEF ScheduleInv
    <2>2. CASE Next
      BY <2>1, <2>2, ScheduleStep DEF ScheduleInv, PlaceInv
    <2>3. CASE UNCHANGED vars
      BY <2>1, <2>3 DEF ScheduleInv, vars, OnSchedule, SentCount
    <2>. QED
      BY <2>2, <2>3
  <1>. QED
    BY <1>1, <1>2, PTL DEF Spec

\* ScheduleNextSend and DoSend: in a concurrent vector each ADU leaves exactly
\* sendWait after the one before it, whatever is received meanwhile.
THEOREM Scheduled == Spec => SentOnSchedule
  <1>1. ScheduleInv /\ [Next]_vars =>
          [\A s \in Sides : \A i \in SentNow(s) :
             Concurrent(cvec) /\ i > 1
               => now = lastSend[s] + Adus(cvec, s)[i].sendWait]_vars
    <2>. SUFFICES ASSUME ScheduleInv, Next, NEW s \in Sides
                  PROVE  SendsOnTime(s)
      BY DEF SendsOnTime
    <2>1. PlaceInv /\ Inv' /\ OnSchedule(s)
      BY NextInv DEF ScheduleInv, PlaceInv
    <2>. QED
      BY <2>1, ScheduleStep
  <1>. QED
    BY <1>1, ScheduleHolds, PTL DEF Spec, SentOnSchedule

-----------------------------------------------------------------------------
(* Alternating vectors.                                                    *)

\* The turns of v: each is one data ADU, of the sides by turns.
LEMMA TurnsAlternate ==
    ASSUME NEW v \in Seq(ADU), Alternating(v)
    PROVE  LET n == DataLeft(v)
               first == v[1].side
           IN /\ Len(v) \in Nat /\ n \in 1..Len(v) /\ first \in Sides
              /\ Immediate(v[1])
              /\ \A p \in 1..n : v[p].size > 0 /\ (p > 1 => v[p].recvWait > 0)
              /\ \A k \in Nat :
                    /\ 2 * k + 1 <= n => v[2 * k + 1].side = first
                    /\ 2 * k + 2 <= n => v[2 * k + 2].side = Peer(first)
              /\ n < Len(v) => /\ Len(v) = n + 1
                               /\ v[n + 1].side = v[n].side
                               /\ v[n + 1].size = 0 /\ v[n + 1].sendWait > 0
  <1>. DEFINE n == DataLeft(v)
              first == v[1].side
  <1>1. /\ v # <<>> /\ v[1].size > 0 /\ Immediate(v[1])
        /\ \A i \in 2..Len(v) :
              IF v[i].side # v[i-1].side THEN v[i].size > 0 /\ v[i].recvWait > 0
              ELSE i = Len(v) /\ v[i].size = 0 /\ v[i].sendWait > 0
    BY DEF Alternating
  <1>2. Len(v) \in Nat \ {0}
    BY <1>1, EmptySeq
  <1>3. \A p \in 1..Len(v) : v[p].side \in Sides
    <2>1. \A p \in 1..Len(v) : v[p] \in ADU
      BY ElementOfSeq
    <2>. QED
      BY <2>1 DEF ADU
  <1>4. n = IF v[Len(v)].size = 0 THEN Len(v) - 1 ELSE Len(v)
    BY <1>1 DEF DataLeft
  <1>5. n \in 1..Len(v)
    BY <1>1, <1>2, <1>4
  <1>6. \A p \in 2..n : /\ v[p].side # v[p - 1].side
                        /\ v[p].size > 0 /\ v[p].recvWait > 0
    BY <1>1, <1>2, <1>4
  <1>7. n < Len(v) => /\ Len(v) = n + 1
                      /\ v[n + 1].side = v[n].side
                      /\ v[n + 1].size = 0 /\ v[n + 1].sendWait > 0
    BY <1>1, <1>2, <1>4, <1>5
  <1>. HIDE DEF n
  <1>8. first \in Sides
    BY <1>2, <1>3
  <1>. HIDE DEF first
  <1>9. \A p \in 2..n : v[p].side = Peer(v[p - 1].side)
    <2>. SUFFICES ASSUME NEW p \in 2..n
                  PROVE  v[p].side = Peer(v[p - 1].side)
      OBVIOUS
    <2>1. p \in 1..Len(v) /\ p - 1 \in 1..Len(v)
      BY <1>2, <1>5
    <2>. QED
      BY <1>3, <1>6, <2>1, PeerProperties
  <1>10. \A k \in Nat : /\ 2 * k + 1 <= n => v[2 * k + 1].side = first
                        /\ 2 * k + 2 <= n => v[2 * k + 2].side = Peer(first)
    <2>. DEFINE S == {k \in Nat :
                        /\ 2 * k + 1 <= n => v[2 * k + 1].side = first
                        /\ 2 * k + 2 <= n => v[2 * k + 2].side = Peer(first)}
    <2>1. 0 \in S
      <3>1. v[2 * 0 + 1].side = first
        BY DEF first
      <3>2. 2 * 0 + 2 <= n => v[2 * 0 + 2].side = Peer(first)
        BY <1>5, <1>9 DEF first
      <3>. QED
        BY <3>1, <3>2
    <2>2. ASSUME NEW k \in Nat, k \in S
          PROVE  k + 1 \in S
      <3>1. 2 * (k + 1) + 1 <= n => v[2 * (k + 1) + 1].side = first
        <4>1. ASSUME 2 * (k + 1) + 1 <= n
              PROVE  v[2 * (k + 1) + 1].side = first
          <5>1. /\ 2 * (k + 1) + 1 \in 2..n
                /\ 2 * (k + 1) + 1 - 1 = 2 * k + 2 /\ 2 * k + 2 <= n
            BY <1>5, <4>1
          <5>2. v[2 * (k + 1) + 1].side = Peer(v[2 * k + 2].side)
            BY <1>9, <5>1
          <5>3. v[2 * k + 2].side = Peer(first)
            BY <2>2, <5>1
          <5>. QED
            BY <1>8, <5>2, <5>3, PeerProperties
        <4>. QED
          BY <4>1
      <3>2. 2 * (k + 1) + 2 <= n => v[2 * (k + 1) + 2].side = Peer(first)
        <4>1. ASSUME 2 * (k + 1) + 2 <= n
              PROVE  v[2 * (k + 1) + 2].side = Peer(first)
          <5>1. /\ 2 * (k + 1) + 2 \in 2..n
                /\ 2 * (k + 1) + 2 - 1 = 2 * (k + 1) + 1
                /\ 2 * (k + 1) + 1 <= n
            BY <1>5, <4>1
          <5>. QED
            BY <1>9, <3>1, <5>1
        <4>. QED
          BY <4>1
      <3>. QED
        BY <3>1, <3>2
    <2>. HIDE DEF S
    <2>3. Nat \subseteq S
      BY <2>1, <2>2, NatInd
    <2>. QED
      BY <2>3 DEF S
  <1>11. \A p \in 1..n : v[p].size > 0 /\ (p > 1 => v[p].recvWait > 0)
    BY <1>1, <1>5, <1>6
  <1>. QED
    BY <1>1, <1>2, <1>5, <1>7, <1>8, <1>10, <1>11 DEF n, first

\* How many of the first turns are of either side.
LEMMA TurnRanks ==
    ASSUME NEW v \in Seq(ADU), Alternating(v)
    PROVE  LET n == DataLeft(v)
               first == v[1].side
           IN \A k \in Nat :
                /\ 2 * k <= n => /\ Rank(v, first, 2 * k) = k
                                 /\ Rank(v, Peer(first), 2 * k) = k
                /\ 2 * k + 1 <= n => /\ Rank(v, first, 2 * k + 1) = k + 1
                                     /\ Rank(v, Peer(first), 2 * k + 1) = k
  <1>. DEFINE n == DataLeft(v)
              first == v[1].side
  <1>1. /\ Len(v) \in Nat /\ n \in 1..Len(v) /\ first \in Sides
        /\ \A k \in Nat : /\ 2 * k + 1 <= n => v[2 * k + 1].side = first
                          /\ 2 * k + 2 <= n => v[2 * k + 2].side = Peer(first)
    BY TurnsAlternate
  <1>2. Peer(first) # first
    BY <1>1, PeerProperties
  <1>3. \A s \in Sides :
           /\ Rank(v, s, 0) = 0
           /\ \A p \in 0..n - 1 :
                 Rank(v, s, p + 1) = IF v[p + 1].side = s THEN Rank(v, s, p) + 1
                                     ELSE Rank(v, s, p)
    <2>1. \A p \in 0..n - 1 : p \in 0..Len(v) - 1
      BY <1>1
    <2>. HIDE DEF n
    <2>2. \A s : /\ Rank(v, s, 0) = 0
                 /\ \A p \in 0..Len(v) - 1 :
                      Rank(v, s, p + 1) = IF v[p + 1].side = s
                                          THEN Rank(v, s, p) + 1
                                          ELSE Rank(v, s, p)
      BY RankStep
    <2>. QED
      BY <2>1, <2>2, Zenon
  <1>. HIDE DEF n, first
  <1>. DEFINE even(k) == 2 * k <= n => /\ Rank(v, first, 2 * k) = k
                                       /\ Rank(v, Peer(first), 2 * k) = k
              odd(k) == 2 * k + 1 <= n =>
                          /\ Rank(v, first, 2 * k + 1) = k + 1
                          /\ Rank(v, Peer(first), 2 * k + 1) = k
              S == {k \in Nat : even(k) /\ odd(k)}
  <1>4. ASSUME NEW k \in Nat, even(k)
        PROVE  odd(k)
    <2>1. SUFFICES ASSUME 2 * k + 1 <= n
                   PROVE  /\ Rank(v, first, 2 * k + 1) = k + 1
                          /\ Rank(v, Peer(first), 2 * k + 1) = k
      OBVIOUS
    <2>2. 2 * k \in 0..n - 1 /\ 2 * k <= n
      BY <1>1, <2>1
    <2>3. v[2 * k + 1].side = first
      BY <1>1, <2>1
    <2>4. Rank(v, first, 2 * k + 1) = Rank(v, first, 2 * k) + 1
      BY <1>1, <1>3, <2>2, <2>3
    <2>5. Rank(v, Peer(first), 2 * k + 1) = Rank(v, Peer(first), 2 * k)
      BY <1>1, <1>2, <1>3, <2>2, <2>3, PeerProperties
    <2>. QED
      BY <1>4, <2>2, <2>4, <2>5
  <1>5. ASSUME NEW k \in Nat, odd(k)
        PROVE  even(k + 1)
    <2>1. SUFFICES ASSUME 2 * (k + 1) <= n
                   PROVE  /\ Rank(v, first, 2 * (k + 1)) = k + 1
                          /\ Rank(v, Peer(first), 2 * (k + 1)) = k + 1
      OBVIOUS
    <2>2. /\ 2 * k + 1 \in 0..n - 1 /\ 2 * k + 1 <= n /\ 2 * k + 2 <= n
          /\ 2 * (k + 1) = (2 * k + 1) + 1 /\ 2 * k + 2 = (2 * k + 1) + 1
      BY <1>1, <2>1
    <2>3. v[(2 * k + 1) + 1].side = Peer(first)
      BY <1>1, <2>2
    <2>4. Rank(v, first, (2 * k + 1) + 1) = Rank(v, first, 2 * k + 1)
      BY <1>1, <1>2, <1>3, <2>2, <2>3
    <2>5. Rank(v, Peer(first), (2 * k + 1) + 1) = Rank(v, Peer(first), 2 * k + 1) + 1
      BY <1>1, <1>3, <2>2, <2>3, PeerProperties
    <2>. QED
      BY <1>5, <2>2, <2>4, <2>5
  <1>6. even(0)
    BY <1>1, <1>3, PeerProperties
  <1>. HIDE DEF even, odd
  <1>7. 0 \in S
    BY <1>4, <1>6
  <1>8. \A k \in Nat : k \in S => k + 1 \in S
    BY <1>4, <1>5
  <1>. HIDE DEF S
  <1>9. Nat \subseteq S
    BY <1>7, <1>8, NatInd
  <1>. QED
    BY <1>9 DEF S, even, odd, n, first

LEMMA Halves == \A p \in Nat \ {0} : \E k \in Nat : p = 2 * k + 1 \/ p = 2 * k + 2
  <1>. SUFFICES ASSUME NEW p \in Nat \ {0}
                PROVE  \E k \in Nat : p = 2 * k + 1 \/ p = 2 * k + 2
    OBVIOUS
  <1>. DEFINE k == (p - 1) \div 2
  <1>1. k \in Nat /\ (p = 2 * k + 1 \/ p = 2 * k + 2)
    OBVIOUS
  <1>. QED
    BY <1>1

\* The ADUs of one side in an alternating vector: the data ADUs are answers
\* but for the very first, and a closing one comes from the last sender.
LEMMA AlternatingAdus ==
    ASSUME NEW v \in Seq(ADU), Alternating(v), NEW s \in Sides
    PROVE  LET q == Adus(v, s)
               first == v[1].side
               other == DataLeft(Adus(v, Peer(s)))
           IN /\ Len(q) \in Nat /\ DataLeft(q) \in Nat /\ other \in Nat
              /\ DataLeft(q) = Len(q) \/ DataLeft(q) = Len(q) - 1
              /\ first \in Sides
              /\ \A i \in 1..DataLeft(q) :
                    /\ s = first /\ i = 1 => Immediate(q[i])
                    /\ ~(s = first /\ i = 1) => q[i].recvWait > 0
                    /\ PlaceOf(v, s, i) \in 1..DataLeft(v)
                    /\ Rank(v, Peer(s), PlaceOf(v, s, i))
                         = IF s = first THEN i - 1 ELSE i
              /\ DataLeft(q) < Len(q) =>
                    /\ q[Len(q)].sendWait > 0
                    /\ DataLeft(q) = IF s = first THEN other + 1 ELSE other
  <1>. DEFINE n == DataLeft(v)
              first == v[1].side
  <1>1. /\ Len(v) \in Nat /\ n \in 1..Len(v) /\ first \in Sides
        /\ Immediate(v[1])
        /\ \A p \in 1..n : v[p].size > 0 /\ (p > 1 => v[p].recvWait > 0)
        /\ \A k \in Nat : /\ 2 * k + 1 <= n => v[2 * k + 1].side = first
                          /\ 2 * k + 2 <= n => v[2 * k + 2].side = Peer(first)
        /\ n < Len(v) => /\ Len(v) = n + 1
                         /\ v[n + 1].side = v[n].side
                         /\ v[n + 1].size = 0 /\ v[n + 1].sendWait > 0
    BY TurnsAlternate
  <1>2. \A k \in Nat :
           /\ 2 * k <= n => /\ Rank(v, first, 2 * k) = k
                            /\ Rank(v, Peer(first), 2 * k) = k
           /\ 2 * k + 1 <= n => /\ Rank(v, first, 2 * k + 1) = k + 1
                                /\ Rank(v, Peer(first), 2 * k + 1) = k
    BY TurnRanks
  <1>3. \A t \in Sides :
           /\ Adus(v, t) \in Seq(ADU) /\ Len(Adus(v, t)) \in Nat
           /\ Len(Adus(v, t)) = Rank(v, t, Len(v))
           /\ \A i \in 1..Len(Adus(v, t)) :
                 /\ PlaceOf(v, t, i) \in Places(v, t)
                 /\ Rank(v, t, PlaceOf(v, t, i)) = i
                 /\ Adus(v, t)[i] = v[PlaceOf(v, t, i)]
           /\ \A p \in Places(v, t) : p \in 1..Len(v) /\ v[p].side = t
           /\ \A p \in 0..Len(v) - 1 :
                 Rank(v, t, p + 1) = IF v[p + 1].side = t THEN Rank(v, t, p) + 1
                                     ELSE Rank(v, t, p)
           /\ \A p \in Nat : Rank(v, t, p) \in Nat
    <2>. SUFFICES ASSUME NEW t \in Sides
                  PROVE  /\ Adus(v, t) \in Seq(ADU) /\ Len(Adus(v, t)) \in Nat
                         /\ Len(Adus(v, t)) = Rank(v, t, Len(v))
                         /\ \A i \in 1..Len(Adus(v, t)) :
                               /\ PlaceOf(v, t, i) \in Places(v, t)
                               /\ Rank(v, t, PlaceOf(v, t, i)) = i
                               /\ Adus(v, t)[i] = v[PlaceOf(v, t, i)]
                         /\ \A p \in Places(v, t) :
                               p \in 1..Len(v) /\ v[p].side = t
                         /\ \A p \in 0..Len(v) - 1 :
                               Rank(v, t, p + 1)
                                 = IF v[p + 1].side = t THEN Rank(v, t, p) + 1
                                   ELSE Rank(v, t, p)
                         /\ \A p \in Nat : Rank(v, t, p) \in Nat
      OBVIOUS
    <2>1. /\ Adus(v, t) \in Seq(ADU)
          /\ Len(Adus(v, t)) = Rank(v, t, Len(v))
          /\ \A i \in 1..Len(Adus(v, t)) :
                /\ PlaceOf(v, t, i) \in Places(v, t)
                /\ Rank(v, t, PlaceOf(v, t, i)) = i
                /\ Adus(v, t)[i] = v[PlaceOf(v, t, i)]
      BY AdusType
    <2>2. Len(Adus(v, t)) \in Nat
      BY <2>1, LenProperties
    <2>3. /\ \A p \in 0..Len(v) - 1 :
                Rank(v, t, p + 1) = IF v[p + 1].side = t THEN Rank(v, t, p) + 1
                                    ELSE Rank(v, t, p)
          /\ \A p \in Nat : Rank(v, t, p) \in Nat
      BY RankStep
    <2>4. \A p \in Places(v, t) : p \in 1..Len(v) /\ v[p].side = t
      BY DEF Places
    <2>. QED
      BY <2>1, <2>2, <2>3, <2>4
  <1>. HIDE DEF n, first
  \* The data of a side are those among the first n.
  <1>4. ASSUME NEW t \in Sides
        PROVE  /\ DataLeft(Adus(v, t)) = Rank(v, t, n)
               /\ \A i \in 1..Rank(v, t, n) : PlaceOf(v, t, i) \in 1..n
               /\ DataLeft(Adus(v, t)) < Len(Adus(v, t)) =>
                    /\ n < Len(v) /\ v[n].side = t
                    /\ Len(Adus(v, t)) = Rank(v, t, n) + 1
                    /\ Adus(v, t)[Len(Adus(v, t))] = v[n + 1]
    <2>. DEFINE q == Adus(v, t)
                l == Len(q)
    <2>0. /\ n < Len(v) => /\ n \in 0..Len(v) - 1 /\ n + 1 = Len(v)
                           /\ Rank(v, t, n + 1)
                                = IF v[n].side = t THEN Rank(v, t, n) + 1
                                  ELSE Rank(v, t, n)
          /\ ~(n < Len(v)) => n = Len(v)
          /\ n \in Nat /\ Rank(v, t, n) \in Nat
          /\ l = Rank(v, t, Len(v)) /\ l \in Nat
      <3>1. /\ n < Len(v) => n \in 0..Len(v) - 1 /\ n + 1 = Len(v)
            /\ ~(n < Len(v)) => n = Len(v)
            /\ n \in Nat
        BY <1>1
      <3>2. ASSUME n < Len(v)
            PROVE  Rank(v, t, n + 1) = IF v[n].side = t THEN Rank(v, t, n) + 1
                                       ELSE Rank(v, t, n)
        <4>1. v[n + 1].side = v[n].side /\ n \in 0..Len(v) - 1
          BY <1>1, <3>1, <3>2
        <4>2. Rank(v, t, n + 1) = IF v[n + 1].side = t THEN Rank(v, t, n) + 1
                                  ELSE Rank(v, t, n)
          BY <4>1, RankStep
        <4>. QED
          BY <4>1, <4>2
      <3>3. Rank(v, t, n) \in Nat /\ l = Rank(v, t, Len(v)) /\ l \in Nat
        BY <1>3, <3>1
      <3>. QED
        BY <3>1, <3>2, <3>3
    <2>1. CASE n < Len(v) /\ v[n].side = t
      <3>1. l = Rank(v, t, n) + 1
        BY <2>0, <2>1
      <3>2. l \in 1..l /\ l \in Nat /\ Rank(v, t, n) \in Nat
        BY <2>0, <3>1
      <3>3. PlaceOf(v, t, l) = n + 1
        <4>1. n + 1 \in Places(v, t) /\ Rank(v, t, n + 1) = l
          <5>1. v[n + 1].side = t /\ n + 1 \in 1..Len(v)
            BY <1>1, <2>0, <2>1
          <5>2. Rank(v, t, n + 1) = l
            BY <2>0, <2>1
          <5>. QED
            BY <5>1, <5>2 DEF Places
        <4>2. l \in 1..Cardinality(Places(v, t))
          BY <1>3, <3>2, RankStep
        <4>. QED
          BY <4>1, <4>2, PlaceOfRank
      <3>4. q[l] = v[n + 1]
        <4>1. Adus(v, t)[l] = v[PlaceOf(v, t, l)]
          BY <1>3, <3>2
        <4>. QED
          BY <3>3, <4>1
      <3>5. DataLeft(q) = l - 1
        BY <1>1, <2>1, <3>2, <3>4, EmptySeq DEF DataLeft
      <3>6. ASSUME NEW i \in 1..Rank(v, t, n)
            PROVE  PlaceOf(v, t, i) \in 1..n
        <4>1. i \in 1..l /\ i # l
          BY <3>1, <3>2
        <4>2. PlaceOf(v, t, i) \in 1..Len(v) /\ Rank(v, t, PlaceOf(v, t, i)) = i
          BY <1>3, <4>1
        <4>3. PlaceOf(v, t, i) # n + 1
          <5>1. Rank(v, t, n + 1) = l
            BY <2>0, <2>1
          <5>. QED
            BY <4>1, <4>2, <5>1
        <4>. QED
          BY <1>1, <2>1, <4>2, <4>3
      <3>. QED
        BY <2>1, <3>1, <3>2, <3>4, <3>5, <3>6
    <2>2. CASE ~(n < Len(v) /\ v[n].side = t)
      <3>1. l = Rank(v, t, n)
        BY <2>0, <2>2
      <3>2. \A i \in 1..l : PlaceOf(v, t, i) \in 1..n
        <4>. SUFFICES ASSUME NEW i \in 1..l
                      PROVE  PlaceOf(v, t, i) \in 1..n
          OBVIOUS
        <4>1. /\ PlaceOf(v, t, i) \in 1..Len(v)
              /\ v[PlaceOf(v, t, i)].side = t
          BY <1>3
        <4>. QED
          BY <1>1, <2>2, <4>1
      <3>3. DataLeft(q) = l
        <4>1. CASE l = 0
          BY <1>3, <4>1, EmptySeq DEF DataLeft
        <4>2. CASE l > 0
          <5>1. l \in 1..l
            BY <1>3, <4>2
          <5>2. q[l].size > 0
            BY <1>1, <1>3, <3>2, <5>1
          <5>3. q[l].size # 0
            <6>1. q[l] \in ADU
              BY <1>3, <5>1, ElementOfSeq
            <6>. QED
              BY <5>2, <6>1 DEF ADU
          <5>. QED
            BY <5>3 DEF DataLeft
        <4>. QED
          BY <1>3, <4>1, <4>2
      <3>. QED
        BY <1>3, <3>1, <3>2, <3>3
    <2>. QED
      BY <2>1, <2>2
  <1>. DEFINE q == Adus(v, s)
              other == DataLeft(Adus(v, Peer(s)))
  <1>5. Peer(s) \in Sides /\ Peer(s) # s /\ (s = first \/ s = Peer(first))
        /\ Peer(Peer(first)) = first
    BY <1>1, PeerProperties
  <1>6. /\ Len(q) \in Nat /\ DataLeft(q) \in Nat /\ other \in Nat
        /\ DataLeft(q) = Len(q) \/ DataLeft(q) = Len(q) - 1
    <2>1. DataLeft(q) = Len(q) \/ DataLeft(q) = Len(q) - 1
      BY DEF DataLeft
    <2>. QED
      BY <1>3, <1>5, <2>1, DataLeftProperties
  <1>7. ASSUME NEW i \in 1..DataLeft(q)
        PROVE  /\ s = first /\ i = 1 => Immediate(q[i])
               /\ ~(s = first /\ i = 1) => q[i].recvWait > 0
               /\ PlaceOf(v, s, i) \in 1..n
               /\ Rank(v, Peer(s), PlaceOf(v, s, i))
                    = IF s = first THEN i - 1 ELSE i
    <2>. DEFINE p == PlaceOf(v, s, i)
    <2>1. /\ p \in 1..n /\ p \in Nat \ {0} /\ Rank(v, s, p) = i
          /\ q[i] = v[p] /\ v[p].side = s
      <3>1. p \in 1..n
        BY <1>4
      <3>2. i \in 1..Len(q)
        BY <1>6
      <3>3. /\ Rank(v, s, p) = i /\ q[i] = v[p] /\ p \in Places(v, s)
        BY <1>3, <3>2
      <3>4. v[p].side = s /\ p \in Nat \ {0}
        BY <1>1, <3>1, <3>3 DEF Places
      <3>. QED
        BY <3>1, <3>3, <3>4
    <2>. HIDE DEF p, q
    <2>2. PICK k \in Nat : p = 2 * k + 1 \/ p = 2 * k + 2
      BY <2>1, Halves
    <2>3. CASE p = 2 * k + 1
      <3>1. s = first
        BY <1>1, <2>1, <2>3
      <3>2. i = k + 1 /\ Rank(v, Peer(s), p) = k
        <4>1. 2 * k + 1 <= n
          BY <1>1, <2>1, <2>3
        <4>. QED
          BY <1>2, <2>1, <2>3, <3>1, <4>1
      <3>. QED
        BY <1>1, <2>1, <2>3, <3>1, <3>2 DEF p
    <2>4. CASE p = 2 * k + 2
      <3>1. s = Peer(first) /\ s # first
        BY <1>1, <1>5, <2>1, <2>4, PeerProperties
      <3>2. 2 * (k + 1) = p /\ 2 * (k + 1) <= n /\ k + 1 \in Nat
        BY <1>1, <2>1, <2>4
      <3>3. i = k + 1 /\ Rank(v, Peer(s), p) = k + 1
        BY <1>2, <1>5, <2>1, <3>1, <3>2
      <3>. QED
        BY <1>1, <2>1, <2>4, <3>1, <3>3 DEF p
    <2>. QED
      BY <2>2, <2>3, <2>4
  <1>8. ASSUME DataLeft(q) < Len(q)
        PROVE  /\ q[Len(q)].sendWait > 0
               /\ DataLeft(q) = IF s = first THEN other + 1 ELSE other
    <2>1. /\ n < Len(v) /\ v[n].side = s /\ q[Len(q)] = v[n + 1]
      BY <1>4, <1>8
    <2>2. /\ DataLeft(q) = Rank(v, s, n) /\ other = Rank(v, Peer(s), n)
      BY <1>4, <1>5
    <2>3. PICK k \in Nat : n = 2 * k + 1 \/ n = 2 * k + 2
      <3>1. n \in Nat \ {0}
        BY <1>1
      <3>. QED
        BY <3>1, Halves
    <2>. HIDE DEF q, other
    <2>4. CASE n = 2 * k + 1
      <3>1. s = first /\ 2 * k + 1 <= n
        BY <1>1, <2>1, <2>4
      <3>2. Rank(v, s, n) = k + 1 /\ Rank(v, Peer(s), n) = k
        BY <1>2, <2>4, <3>1
      <3>3. DataLeft(q) = other + 1
        BY <2>2, <3>2
      <3>4. q[Len(q)].sendWait > 0
        BY <1>1, <2>1
      <3>. QED
        BY <3>1, <3>3, <3>4
    <2>5. CASE n = 2 * k + 2
      <3>1. s = Peer(first) /\ s # first
        BY <1>1, <2>1, <2>5, PeerProperties
      <3>2. 2 * (k + 1) = n /\ 2 * (k + 1) <= n /\ k + 1 \in Nat
        BY <1>1, <2>5
      <3>3. Rank(v, s, n) = k + 1 /\ Rank(v, Peer(s), n) = k + 1
        BY <1>2, <1>5, <3>1, <3>2
      <3>4. DataLeft(q) = other
        BY <2>2, <3>3
      <3>5. q[Len(q)].sendWait > 0
        BY <1>1, <2>1
      <3>. QED
        BY <3>1, <3>4, <3>5
    <2>. QED
      BY <2>3, <2>4, <2>5
  <1>. QED
    BY <1>1, <1>6, <1>7, <1>8 DEF n, first

\* How many data ADUs s has sent.
DataSent(s) == DataLeft(Adus(cvec, s)) - DataLeft(toSend[s])

LEMMA DataSentIs ==
    ASSUME PlaceInv, NEW s \in Sides
    PROVE  LET all == DataLeft(Adus(cvec, s))
           IN /\ SentCount(s) \in Nat /\ DataSent(s) \in Nat /\ all \in Nat
              /\ SentCount(s) <= Len(Adus(cvec, s))
              /\ DataSent(s) = IF SentCount(s) <= all THEN SentCount(s) ELSE all
              /\ toSend[s] # <<>> => /\ SentCount(s) + 1 <= Len(Adus(cvec, s))
                                     /\ toSend[s][1] = Adus(cvec, s)[SentCount(s) + 1]
  <1>. DEFINE q == Adus(cvec, s)
              l == Len(toSend[s])
              m == Len(q)
  <1>1. /\ q \in Seq(ADU) /\ toSend[s] \in Seq(ADU)
        /\ l \in Nat /\ m \in Nat /\ l <= m
        /\ \A i \in 1..l : toSend[s][i] = q[SentCount(s) + i]
        /\ SentCount(s) = m - l
    BY VectorFacts, LenProperties DEF PlaceInv, Suffix, SentCount
  <1>2. DataLeft(q) \in Nat /\ DataLeft(q) <= m
    BY <1>1, DataLeftProperties
  <1>3. CASE l = 0
    <2>1. toSend[s] = <<>>
      BY <1>1, <1>3, EmptySeq
    <2>2. DataLeft(toSend[s]) = 0
      BY <1>3, <2>1 DEF DataLeft
    <2>. QED
      BY <1>1, <1>2, <1>3, <2>1, <2>2 DEF DataSent
  <1>4. CASE l > 0
    <2>1. toSend[s] # <<>> /\ q # <<>>
      BY <1>1, <1>4, EmptySeq
    <2>2. l \in 1..l /\ 1 \in 1..l
      BY <1>1, <1>4
    <2>3. toSend[s][l] = q[m]
      <3>1. SentCount(s) + l = m
        BY <1>1
      <3>2. toSend[s][l] = q[SentCount(s) + l]
        BY <1>1, <2>2
      <3>. QED
        BY <3>1, <3>2
    <2>4. \/ DataLeft(q) = m /\ DataLeft(toSend[s]) = l
          \/ DataLeft(q) = m - 1 /\ DataLeft(toSend[s]) = l - 1
      BY <2>1, <2>3 DEF DataLeft
    <2>5. toSend[s][1] = q[SentCount(s) + 1]
      BY <1>1, <2>2
    <2>. HIDE DEF q, l, m
    <2>6. /\ SentCount(s) \in Nat /\ SentCount(s) <= m
          /\ SentCount(s) + 1 <= m /\ SentCount(s) <= DataLeft(q)
          /\ DataSent(s) = SentCount(s)
      BY <1>1, <1>2, <1>4, <2>4 DEF DataSent, q
    <2>7. DataSent(s) = IF SentCount(s) <= DataLeft(q) THEN SentCount(s)
                        ELSE DataLeft(q)
      BY <2>6
    <2>8. DataSent(s) \in Nat /\ DataLeft(q) \in Nat
      BY <1>2, <2>6
    <2>. QED
      BY <2>5, <2>6, <2>7, <2>8 DEF q, m
  <1>5. l = 0 \/ l > 0
    BY <1>1
  <1>. QED
    BY <1>3, <1>4, <1>5

\* In an alternating vector every data ADU but the very first is an answer.
LEMMA RepliesAre ==
    ASSUME PlaceInv, Alternating(cvec), NEW s \in Sides
    PROVE  RepliesSent(s) = IF s = cvec[1].side /\ DataSent(s) > 0
                            THEN DataSent(s) - 1 ELSE DataSent(s)
  <1>. DEFINE q == Adus(cvec, s)
              c == SentCount(s)
              d == DataSent(s)
              all == DataLeft(q)
              low == IF s = cvec[1].side THEN 2 ELSE 1
              R == {i \in 1..c : q[i].recvWait > 0}
  <1>1. cvec \in Seq(ADU) /\ q \in Seq(ADU)
    BY AcceptedVector DEF PlaceInv
  <1>2. /\ c \in Nat /\ d \in Nat /\ all \in Nat /\ c <= Len(q)
        /\ d = IF c <= all THEN c ELSE all
    BY DataSentIs
  <1>3. /\ Len(q) \in Nat
        /\ all = Len(q) \/ all = Len(q) - 1
        /\ \A i \in 1..all :
              /\ s = cvec[1].side /\ i = 1 => Immediate(q[i])
              /\ ~(s = cvec[1].side /\ i = 1) => q[i].recvWait > 0
        /\ all < Len(q) => q[Len(q)].sendWait > 0
    BY <1>1, AlternatingAdus
  <1>4. \A i \in 1..Len(q) : /\ q[i].sendWait \in Nat /\ q[i].recvWait \in Nat
                             /\ q[i].sendWait = 0 \/ q[i].recvWait = 0
    <2>1. \A i \in 1..Len(q) : q[i] \in ADU
      BY <1>1, ElementOfSeq
    <2>2. OneWait(q)
      BY VectorFacts
    <2>. QED
      BY <2>1, <2>2 DEF ADU, OneWait
  <1>. HIDE DEF q, c, d, all
  <1>5. \A i \in 1..c : q[i].recvWait > 0 <=> i \in low..d
    <2>. SUFFICES ASSUME NEW i \in 1..c
                  PROVE  q[i].recvWait > 0 <=> i \in low..d
      OBVIOUS
    <2>1. i \in 1..Len(q)
      BY <1>2, <1>3
    <2>2. CASE i <= all
      <3>1. i \in 1..all /\ i <= d
        BY <1>2, <2>2
      <3>2. s = cvec[1].side /\ i = 1 => q[i].recvWait = 0
        BY <1>3, <3>1 DEF Immediate
      <3>3. ~(s = cvec[1].side /\ i = 1) => q[i].recvWait > 0
        BY <1>3, <3>1
      <3>. QED
        BY <1>2, <1>4, <2>1, <3>1, <3>2, <3>3
    <2>3. CASE i > all
      <3>1. i = Len(q) /\ all < Len(q) /\ d = all
        BY <1>2, <1>3, <2>1, <2>3
      <3>2. q[i].recvWait = 0
        BY <1>3, <1>4, <2>1, <3>1
      <3>. QED
        BY <1>2, <2>3, <3>1, <3>2
    <2>. QED
      BY <1>2, <2>2, <2>3
  <1>6. R = low..d
    <2>1. \A i \in low..d : i \in 1..c
      BY <1>2
    <2>. QED
      BY <1>5, <2>1
  <1>7. Cardinality(low..d) = IF low > d THEN 0 ELSE d - low + 1
    <2>1. low \in Int /\ d \in Int
      BY <1>2
    <2>. HIDE DEF low
    <2>. QED
      BY <2>1, FS_Interval
  <1>8. RepliesSent(s) = Cardinality(low..d)
    BY <1>6 DEF RepliesSent, c, q
  <1>. QED
    BY <1>2, <1>7, <1>8 DEF d

\* What a side heard is what its peer sent, less what is on its way.
Heard(s) ==
    Len(heardAt[s]) + DataLeft(toRecv[s]) = DataLeft(Adus(cvec, Peer(s)))

TurnInv == PaidInv /\ \A s \in Sides : Heard(s)

LEMMA HeardStep ==
    ASSUME PlaceInv, Inv', Next, NEW s \in Sides, Heard(s)
    PROVE  Heard(s)'
  <1>1. cvec' = cvec
    BY CvecStays
  <1>2. CASE \E t \in Sides : \E k \in 1..inflight[t] : Receive(t, k)
    <2>1. PICK t \in Sides : \E k \in 1..inflight[t] : Receive(t, k)
      BY <1>2
    <2>2. PICK k \in 1..inflight[t] : Receive(t, k)
      BY <2>1
    <2>3. /\ fatal' = "none"
          /\ toRecv \in [Sides -> Seq(ADU)] /\ heardAt \in [Sides -> Seq(Nat)]
          /\ inflight \in [Sides -> Nat] /\ now \in Nat
      BY DEF PlaceInv, Inv, NoFatal, TypeOK
    <2>4. /\ ~(k > DataLeft(toRecv[t]))
          /\ toRecv' = [toRecv EXCEPT ![t] = Drop(@, k)]
          /\ heardAt' = [heardAt EXCEPT ![t] = @ \o [i \in 1..k |-> now]]
      BY <2>2, <2>3 DEF Receive
    <2>5. CASE s # t
      BY <1>1, <2>3, <2>4, <2>5 DEF Heard
    <2>6. CASE s = t
      <3>1. /\ toRecv'[s] = Drop(toRecv[s], k)
            /\ heardAt'[s] = heardAt[s] \o [i \in 1..k |-> now]
        BY <2>3, <2>4, <2>6
      <3>2. k \in Nat /\ DataLeft(toRecv[s]) \in Nat /\ k \in 0..DataLeft(toRecv[s])
        BY <2>3, <2>4, <2>6, DataLeftProperties
      <3>3. DataLeft(toRecv'[s]) = DataLeft(toRecv[s]) - k
        BY <2>3, <3>1, <3>2, DataLeftDrop
      <3>4. Len(heardAt'[s]) = Len(heardAt[s]) + k /\ Len(heardAt[s]) \in Nat
        <4>1. [i \in 1..k |-> now] \in Seq(Nat) /\ Len([i \in 1..k |-> now]) = k
          BY <2>3, <3>2
        <4>. HIDE DEF Heard
        <4>. QED
          BY <2>3, <3>1, <4>1, ConcatProperties, LenProperties
      <3>. QED
        BY <1>1, <3>2, <3>3, <3>4 DEF Heard
    <2>. QED
      BY <2>5, <2>6
  <1>3. CASE ~(\E t \in Sides : \E k \in 1..inflight[t] : Receive(t, k))
    <2>1. toRecv' = toRecv /\ heardAt' = heardAt
      BY <1>3 DEF Next, AcceptorStart, InitiatorStart, ConnectionFailed,
             ConnectionComplete, NewConnectionCreated, ReceiveFin, Closed,
             DoSend, Tick, worker
    <2>. QED
      BY <1>1, <2>1 DEF Heard
  <1>. QED
    BY <1>2, <1>3

LEMMA InitTurns == Init => TurnInv
  <1>. SUFFICES ASSUME Init
                PROVE  TurnInv
    OBVIOUS
  <1>1. ASSUME NEW s \in Sides
        PROVE  Heard(s)
    <2>1. toRecv[s] = Adus(cvec, Peer(s)) /\ heardAt[s] = <<>>
      BY DEF Init
    <2>2. Adus(cvec, Peer(s)) \in Seq(ADU)
      BY AcceptedVector, PeerProperties DEF Init
    <2>. QED
      BY <2>1, <2>2, DataLeftProperties, EmptySeq DEF Heard
  <1>. QED
    BY <1>1, InitPaid DEF TurnInv

LEMMA TurnNext == TurnInv /\ [Next]_vars => TurnInv'
  <1>. SUFFICES ASSUME TurnInv, [Next]_vars
                PROVE  TurnInv'
    OBVIOUS
  <1>1. PaidInv'
    BY PaidNext DEF TurnInv
  <1>2. CASE Next
    BY <1>1, <1>2, HeardStep DEF TurnInv, PaidInv, PlaceInv
  <1>3. CASE UNCHANGED vars
    BY <1>1, <1>3 DEF TurnInv, vars, Heard
  <1>. QED
    BY <1>2, <1>3

LEMMA TurnsHold == Spec => []TurnInv
  BY InitTurns, TurnNext, PTL DEF Spec

\* Counts of the ADUs sent, received and answered by the two sides.
LEMMA TurnCounts ==
    ASSUME TurnInv, Alternating(cvec), NEW s \in Sides
    PROVE  LET first == cvec[1].side
               answers == IF s = first /\ DataSent(s) > 0 THEN DataSent(s) - 1
                          ELSE DataSent(s)
           IN /\ DataSent(s) \in Nat /\ Len(heardAt[s]) \in Nat
              /\ Len(timers[s]) \in Nat
              /\ first \in Sides
              /\ answers + Len(timers[s]) <= Len(heardAt[s]) + Follows(s)
              /\ answers <= Len(heardAt[s])
              /\ Len(heardAt[s]) <= DataSent(Peer(s))
              /\ DataSent(s) <= DataLeft(Adus(cvec, s))
              /\ Follows(s) \in 0..1
              /\ Follows(s) = 1 =>
                   /\ DataSent(s) = DataLeft(Adus(cvec, s))
                   /\ DataLeft(Adus(cvec, s))
                        = IF s = first THEN DataLeft(Adus(cvec, Peer(s))) + 1
                          ELSE DataLeft(Adus(cvec, Peer(s)))
  <1>. DEFINE first == cvec[1].side
              q == Adus(cvec, s)
              c == SentCount(s)
              p == Peer(s)
              answers == IF s = first /\ DataSent(s) > 0 THEN DataSent(s) - 1
                         ELSE DataSent(s)
  <1>1. PlaceInv /\ Inv /\ p \in Sides
    BY PeerProperties DEF TurnInv, PaidInv, PlaceInv
  <1>2. /\ cvec \in Seq(ADU) /\ q \in Seq(ADU) /\ OneWait(q)
        /\ timers[s] \in Seq(Nat) /\ heardAt[s] \in Seq(Nat)
        /\ Len(timers[s]) \in Nat /\ Len(heardAt[s]) \in Nat
        /\ lastRecv[s] \in Nat \cup {-1} /\ toSend[s] \in Seq(ADU)
    BY <1>1, VectorFacts, AcceptedVector, LenProperties DEF PlaceInv
  <1>3. /\ c \in Nat /\ DataSent(s) \in Nat /\ DataLeft(q) \in Nat /\ c <= Len(q)
        /\ DataSent(s) = IF c <= DataLeft(q) THEN c ELSE DataLeft(q)
        /\ toSend[s] # <<>> => c + 1 <= Len(q) /\ toSend[s][1] = q[c + 1]
        /\ DataSent(p) \in Nat
    BY <1>1, DataSentIs
  <1>4. /\ Len(q) \in Nat /\ first \in Sides
        /\ DataLeft(q) = Len(q) \/ DataLeft(q) = Len(q) - 1
        /\ \A i \in 1..DataLeft(q) :
              /\ s = first /\ i = 1 => Immediate(q[i])
              /\ ~(s = first /\ i = 1) => q[i].recvWait > 0
        /\ DataLeft(q) < Len(q) =>
              DataLeft(q) = IF s = first THEN DataLeft(Adus(cvec, p)) + 1
                            ELSE DataLeft(Adus(cvec, p))
    BY <1>2, AlternatingAdus
  <1>5. RepliesSent(s) = answers
    BY <1>1, RepliesAre
  <1>6. Follows(s) \in 0..1 /\ Owed(s) \in 0..1
    BY DEF Follows, Owed
  <1>7. /\ answers + Len(timers[s]) + Owed(s) <= Len(heardAt[s]) + Follows(s)
        /\ Follows(s) <= Len(timers[s])
    BY <1>5 DEF TurnInv, PaidInv, Paid
  <1>8. Len(heardAt[s]) <= DataSent(p)
    <2>1. /\ toRecv[s] \in Seq(ADU) /\ inflight[s] \in Nat
          /\ toSend[p] \in Seq(ADU)
      BY <1>1 DEF Inv, TypeOK
    <2>2. DataLeft(toRecv[s]) = inflight[s] + DataLeft(toSend[p])
      BY <1>1 DEF Inv, Conserved
    <2>3. Len(heardAt[s]) + DataLeft(toRecv[s]) = DataLeft(Adus(cvec, p))
      BY DEF TurnInv, Heard
    <2>4. DataLeft(toRecv[s]) \in Nat /\ DataLeft(toSend[p]) \in Nat
      BY <2>1, DataLeftProperties
    <2>5. DataLeft(Adus(cvec, p)) \in Nat
      BY <1>1, DataSentIs
    <2>. DEFINE x == DataLeft(toRecv[s])
                y == DataLeft(toSend[p])
                z == DataLeft(Adus(cvec, p))
                h == Len(heardAt[s])
    <2>6. DataSent(p) = z - y
      BY DEF DataSent
    <2>7. /\ x = inflight[s] + y /\ h + x = z /\ x \in Nat /\ y \in Nat /\ z \in Nat
          /\ h \in Nat /\ inflight[s] \in Nat
      BY <1>2, <2>1, <2>2, <2>3, <2>4, <2>5
    <2>. HIDE DEF x, y, z, h
    <2>8. h <= z - y
      BY <2>7
    <2>. QED
      BY <2>6, <2>8 DEF h
  <1>9. ASSUME Follows(s) = 1
        PROVE  DataSent(s) = DataLeft(q) /\ DataLeft(q) < Len(q)
    <2>1. toSend[s] # <<>> /\ toSend[s][1].sendWait > 0
      BY <1>9 DEF Follows
    <2>2. c + 1 \in 1..Len(q) /\ q[c + 1].sendWait > 0
      BY <1>3, <1>4, <2>1
    <2>3. q[c + 1] \in ADU
      BY <1>2, <2>2, ElementOfSeq
    <2>4. /\ q[c + 1].sendWait \in Nat /\ q[c + 1].recvWait \in Nat
          /\ q[c + 1].sendWait = 0 \/ q[c + 1].recvWait = 0
      BY <1>2, <2>2, <2>3 DEF ADU, OneWait
    <2>5. ~(c + 1 \in 1..DataLeft(q))
      BY <1>4, <2>2, <2>4 DEF Immediate
    <2>. HIDE DEF q, c
    <2>. QED
      BY <1>3, <1>4, <2>2, <2>5
  <1>10. answers + Len(timers[s]) <= Len(heardAt[s]) + Follows(s)
         /\ answers <= Len(heardAt[s])
    <2>. DEFINE o == Owed(s)
                f == Follows(s)
                l == Len(timers[s])
                h == Len(heardAt[s])
                a == answers
    <2>1. /\ a + l + o <= h + f /\ f <= l /\ o \in 0..1 /\ f \in 0..1
          /\ l \in Nat /\ h \in Nat /\ a \in Nat
      BY <1>2, <1>3, <1>6, <1>7
    <2>. HIDE DEF o, f, l, h, a
    <2>2. a + l <= h + f /\ a <= h
      BY <2>1
    <2>. QED
      BY <2>2 DEF f, l, h, a
  <1>11. DataSent(s) <= DataLeft(q)
    BY <1>3
  <1>. HIDE DEF answers
  <1>. QED
    BY <1>2, <1>3, <1>4, <1>6, <1>8, <1>9, <1>10, <1>11 DEF answers

\* Whoever's turn it is, the other side can have no more than that answered.
LEMMA OneEventAtATime ==
    ASSUME TurnInv, Alternating(cvec), NEW s \in Sides
    PROVE  /\ Len(timers[s]) \in 0..1
           /\ Len(heardAt[s]) <= IF s = cvec[1].side THEN DataSent(s)
                                 ELSE DataSent(s) + 1
  <1>. DEFINE p == Peer(s)
              first == cvec[1].side
              a == DataSent(s)
              b == DataSent(p)
              h == Len(heardAt[s])
              g == Len(heardAt[p])
              l == Len(timers[s])
              f == Follows(s)
              m == DataLeft(Adus(cvec, s))
              n == DataLeft(Adus(cvec, p))
  <1>1. p \in Sides /\ Peer(p) = s /\ p # s /\ (first \in Sides => first = s \/ first = p)
    BY PeerProperties
  <1>2. /\ a \in Nat /\ h \in Nat /\ l \in Nat /\ first \in Sides /\ f \in 0..1
        /\ (IF s = first /\ a > 0 THEN a - 1 ELSE a) + l <= h + f
        /\ (IF s = first /\ a > 0 THEN a - 1 ELSE a) <= h
        /\ h <= b /\ a <= m
        /\ f = 1 => a = m /\ m = IF s = first THEN n + 1 ELSE n
    BY TurnCounts
  <1>3. /\ b \in Nat /\ g \in Nat
        /\ (IF p = first /\ b > 0 THEN b - 1 ELSE b) <= g
        /\ g <= a /\ b <= n
    BY <1>1, TurnCounts
  <1>. HIDE DEF p, first, a, b, h, g, l, f, m, n
  <1>4. m \in Nat /\ n \in Nat
    <2>1. PlaceInv
      BY DEF TurnInv, PaidInv
    <2>. QED
      BY <1>1, <2>1, DataSentIs DEF m, n
  <1>5. l \in 0..1 /\ h <= IF s = first THEN a ELSE a + 1
    <2>1. CASE s = first
      BY <1>1, <1>2, <1>3, <1>4, <2>1
    <2>2. CASE s # first
      BY <1>1, <1>2, <1>3, <1>4, <2>2
    <2>. QED
      BY <2>1, <2>2
  <1>. QED
    BY <1>5 DEF l, h, a, first

\* The waits of an alternating vector are served one at a time: what
\* ScheduleNextSend and the receipts schedule, DoSend has run before the next.
THEOREM OneWaitAtATime == Spec => []NoStrayDoSend
  <1>1. TurnInv => NoStrayDoSend
    <2>1. \A l \in 0..1 : l <= 1
      OBVIOUS
    <2>. QED
      BY <2>1, OneEventAtATime DEF NoStrayDoSend
  <1>. QED
    BY <1>1, TurnsHold, PTL

-----------------------------------------------------------------------------
(* The waits of answers.                                                   *)

\* When turns alternate, m_lastRecvTime is when the last ADU came, and no
\* event is pending that would send an answer before its wait is over.
Answers(s) ==
    LET got  == heardAt[s]
        last == got[Len(got)]
    IN Alternating(cvec) =>
         /\ lastRecv[s] >= 0 => got # <<>> /\ lastRecv[s] = last
         /\ toSend[s] # <<>> /\ toSend[s][1].recvWait > 0 =>
              \A i \in 1..Len(timers[s]) :
                 got # <<>> /\ timers[s][i] >= last + toSend[s][1].recvWait

AnswerInv == TurnInv /\ \A s \in Sides : Answers(s)

\* What is pending after ScheduleNextSend for an answer.
LEMMA WaitsForAnswer ==
    ASSUME TurnInv, Alternating(cvec), cvec' = cvec, NEW s \in Sides, Answers(s),
           toSend'[s] # <<>>, toSend'[s][1] \in ADU,
           \/ toSend'[s][1].sendWait = 0 \/ toSend'[s][1].recvWait = 0,
           heardAt'[s] = heardAt[s], NEW sent,
           WaitsFor(s, toSend'[s][1], <<>>, sent)
    PROVE  Answers(s)'
  <1>. DEFINE a == toSend'[s][1]
              got == heardAt[s]
              last == got[Len(got)]
  <1>1. /\ lastRecv[s] \in Nat \cup {-1} /\ now \in Nat /\ got \in Seq(Nat)
    BY VectorFacts DEF TurnInv, PaidInv
  <1>2. a.sendWait \in Nat /\ a.recvWait \in Nat
    BY DEF ADU
  <1>3. lastRecv[s] >= 0 => got # <<>> /\ lastRecv[s] = last
    BY DEF Answers
  <1>4. /\ timers'[s] = <<>> \o Wakeups(a, sent, lastRecv[s])
        /\ lastRecv'[s] = IF a.sendWait > 0 THEN lastRecv[s] ELSE -1
    BY DEF WaitsFor
  <1>. HIDE DEF a, last, got
  <1>5. lastRecv'[s] >= 0 => got # <<>> /\ lastRecv'[s] = last
    BY <1>3, <1>4
  <1>6. ASSUME a.recvWait > 0, NEW i \in 1..Len(timers'[s])
        PROVE  got # <<>> /\ timers'[s][i] >= last + a.recvWait
    <2>1. a.sendWait = 0 /\ ~(a.sendWait > 0)
      BY <1>2, <1>6 DEF a
    <2>2. CASE lastRecv[s] < 0
      <3>1. timers'[s] = <<>>
        BY <1>4, <2>1, <2>2 DEF Wakeups
      <3>. QED
        BY <1>6, <3>1
    <2>3. CASE lastRecv[s] >= 0
      <3>1. timers'[s] = <<NotBefore(lastRecv[s] + a.recvWait)>>
        BY <1>1, <1>4, <2>1, <2>3 DEF Wakeups
      <3>2. i = 1 /\ timers'[s][i] = NotBefore(lastRecv[s] + a.recvWait)
        BY <1>6, <3>1
      <3>3. lastRecv[s] = last /\ last \in Nat /\ got # <<>>
        BY <1>1, <1>3, <2>3
      <3>4. NotBefore(last + a.recvWait) >= last + a.recvWait
        BY <1>1, <1>2, <3>3 DEF NotBefore
      <3>. QED
        BY <3>2, <3>3, <3>4
    <2>. QED
      BY <1>1, <2>2, <2>3
  <1>. QED
    BY <1>5, <1>6 DEF Answers, a, got, last

\* What s still has to send are ADUs of the vector.
LEMMA RestOfVector ==
    ASSUME PlaceInv, NEW s \in Sides, toSend[s] # <<>>
    PROVE  /\ 1 \in 1..Len(toSend[s])
           /\ toSend[s][1] \in ADU
           /\ toSend[s][1].sendWait \in Nat /\ toSend[s][1].recvWait \in Nat
           /\ toSend[s][1].sendWait = 0 \/ toSend[s][1].recvWait = 0
  <1>1. /\ toSend[s] \in Seq(ADU) /\ Len(toSend[s]) \in Nat \ {0}
    BY VectorFacts, EmptySeq
  <1>2. 1 \in 1..Len(toSend[s]) /\ toSend[s][1] \in ADU
    BY <1>1, ElementOfSeq
  <1>3. /\ SentCount(s) + 1 \in 1..Len(Adus(cvec, s))
        /\ toSend[s][1] = Adus(cvec, s)[SentCount(s) + 1]
    BY DataSentIs
  <1>4. OneWait(Adus(cvec, s))
    BY VectorFacts
  <1>. QED
    BY <1>2, <1>3, <1>4 DEF OneWait, ADU

\* Both facts hold after a step as before it.
NextIsAdu ==
    \A s \in Sides : toSend[s] # <<>> =>
      /\ toSend[s][1] \in ADU
      /\ toSend[s][1].sendWait = 0 \/ toSend[s][1].recvWait = 0

OneEvent == Alternating(cvec) => \A s \in Sides : Len(timers[s]) \in 0..1

LEMMA NextIsAduNext == PlaceInv' => NextIsAdu'
  <1>1. PlaceInv => NextIsAdu
    BY RestOfVector DEF NextIsAdu
  <1>. QED
    BY <1>1, PTL

LEMMA OneEventNext == TurnInv' => OneEvent'
  <1>1. TurnInv => OneEvent
    BY OneEventAtATime DEF OneEvent
  <1>. QED
    BY <1>1, PTL

LEMMA PendingSeq ==
    ASSUME NEW q \in Seq(Nat), NEW i \in 1..Len(q)
    PROVE  SubSeq(q, 1, i - 1) \in Seq(Nat) /\ Drop(q, i) \in Seq(Nat)
  <1>1. Len(q) \in Nat /\ i \in 0..Len(q) /\ i - 1 \in Int
    BY LenProperties
  <1>2. \A j \in 1..i - 1 : q[j] \in Nat
    BY <1>1, ElementOfSeq
  <1>. QED
    BY <1>1, <1>2, SubSeqProperties, DropProperties

LEMMA ConcatLast ==
    ASSUME NEW p \in Seq(Nat), NEW q \in Seq(Nat), NEW k \in 1..Len(q)
    PROVE  /\ Len(p \o q) = Len(p) + Len(q)
           /\ (p \o q)[Len(p) + k] = q[k]
  <1>1. Len(p) \in Nat /\ Len(q) \in Nat
    BY LenProperties
  <1>2. /\ Len(p \o q) = Len(p) + Len(q)
        /\ \A i \in 1..Len(p) + Len(q) :
              (p \o q)[i] = IF i <= Len(p) THEN p[i] ELSE q[i - Len(p)]
    BY ConcatProperties
  <1>. QED
    BY <1>1, <1>2

\* The event that runs is the only one.
LEMMA OnlyEvent ==
    ASSUME TurnInv, Alternating(cvec), NEW s \in Sides,
           NEW i \in 1..Len(timers[s])
    PROVE  SubSeq(timers[s], 1, i - 1) \o Drop(timers[s], i) = <<>>
  <1>. DEFINE q == SubSeq(timers[s], 1, i - 1) \o Drop(timers[s], i)
  <1>1. timers[s] \in Seq(Nat)
    BY VectorFacts DEF TurnInv, PaidInv
  <1>2. Len(timers[s]) \in 0..1
    BY OneEventAtATime
  <1>3. Len(q) = Len(timers[s]) - 1
    BY <1>1, OneLessLen
  <1>4. Len(timers[s]) = 1 /\ i = 1
    <2>. DEFINE l == Len(timers[s])
    <2>1. l \in 0..1 /\ i \in 1..l
      BY <1>2
    <2>. HIDE DEF l
    <2>2. l = 1 /\ i = 1
      BY <2>1
    <2>. QED
      BY <2>2 DEF l
  <1>5. Len(q) = 0
    BY <1>3, <1>4
  <1>6. q \in Seq(Nat)
    <2>1. SubSeq(timers[s], 1, i - 1) \in Seq(Nat) /\ Drop(timers[s], i) \in Seq(Nat)
      BY <1>1, PendingSeq
    <2>. QED
      BY <2>1, ConcatProperties
  <1>. HIDE DEF q
  <1>7. q = <<>>
    BY <1>5, <1>6, EmptySeq
  <1>. QED
    BY <1>7 DEF q

\* A burst leaves an answer waiting, or nothing.
LEMMA SendsAnswers ==
    ASSUME TurnInv, PlaceInv', Alternating(cvec), cvec' = cvec,
           NEW s \in Sides, Answers(s), NEW n, Sends(s, n, <<>>)
    PROVE  Answers(s)'
  <1>1. CASE toSend'[s] = <<>>
    BY <1>1 DEF Sends, Answers
  <1>2. CASE toSend'[s] # <<>>
    <2>1. /\ toSend'[s][1] \in ADU
          /\ toSend'[s][1].sendWait = 0 \/ toSend'[s][1].recvWait = 0
      BY <1>2, NextIsAduNext DEF NextIsAdu
    <2>2. WaitsFor(s, toSend'[s][1], <<>>, now) /\ heardAt'[s] = heardAt[s]
      BY <1>2 DEF Sends
    <2>. QED
      BY <1>2, <2>1, <2>2, WaitsForAnswer
  <1>. QED
    BY <1>1, <1>2

\* A receipt schedules the answer, if it is that side's turn.
LEMMA HearsAnswers ==
    ASSUME TurnInv, TurnInv', Alternating(cvec), cvec' = cvec,
           NEW s \in Sides, Answers(s), Hears(s)
    PROVE  Answers(s)'
  <1>. DEFINE got == heardAt[s]
              got2 == heardAt'[s]
              last2 == got2[Len(got2)]
  <1>1. PICK k \in Nat \ {0} :
           /\ toSend'[s] = toSend[s]
           /\ heardAt'[s] = heardAt[s] \o [i \in 1..k |-> now]
           /\ AnswerReceipts(s, k)
    BY DEF Hears
  <1>2. /\ lastRecv \in [Sides -> Nat \cup {-1}] /\ now \in Nat
        /\ got \in Seq(Nat) /\ timers \in [Sides -> Seq(Nat)]
        /\ toSend[s] \in Seq(ADU) /\ timers' \in [Sides -> Seq(Nat)]
    BY DEF TurnInv, PaidInv, PlaceInv, Inv, TypeOK
  <1>3. /\ got2 # <<>> /\ last2 = now
    <2>. DEFINE q == [i \in 1..k |-> now]
    <2>1. q \in Seq(Nat) /\ Len(q) = k /\ q[k] = now /\ k \in 1..k
      BY <1>2
    <2>. HIDE DEF q
    <2>2. got2 = got \o q
      BY <1>1 DEF q
    <2>. HIDE DEF got, got2, last2
    <2>3. Len(got) \in Nat /\ got \in Seq(Nat)
      BY <1>2, LenProperties
    <2>4. /\ Len(got \o q) = Len(got) + k
          /\ (got \o q)[Len(got) + k] = q[k]
      BY <2>1, <2>3, ConcatLast
    <2>5. Len(got2) = Len(got) + k /\ got2[Len(got) + k] = now
      BY <2>1, <2>2, <2>4
    <2>6. Len(got2) # 0 /\ got2[Len(got2)] = now
      BY <2>3, <2>5
    <2>. QED
      BY <2>6, EmptySeq DEF last2
  <1>4. CASE toSend[s] # <<>> /\ toSend[s][1].recvWait > 0
    <2>. DEFINE w == toSend[s][1].recvWait
                r == [i \in 1..k |-> now + w]
    <2>1. lastRecv'[s] = -1 /\ timers'[s] = timers[s] \o r
      BY <1>1, <1>2, <1>4 DEF AnswerReceipts
    <2>2. w \in Nat
      BY <1>4, RestOfVector DEF TurnInv, PaidInv
    <2>3. r \in Seq(Nat) /\ Len(r) = k /\ \A i \in 1..k : r[i] = now + w
      BY <1>2, <2>2
    <2>4. Len(timers'[s]) \in 0..1
      BY OneEventNext DEF OneEvent
    <2>. HIDE DEF r, w
    <2>5. /\ Len(timers[s] \o r) = Len(timers[s]) + k /\ Len(timers[s]) \in Nat
          /\ timers[s] \in Seq(Nat)
      <3>. DEFINE p == timers[s]
      <3>1. p \in Seq(Nat) /\ Len(p) \in Nat
        BY <1>2, LenProperties
      <3>. HIDE DEF p
      <3>2. Len(p \o r) = Len(p) + Len(r)
        BY <2>3, <3>1, ConcatProperties
      <3>. QED
        BY <2>3, <3>1, <3>2 DEF p
    <2>6. Len(timers[s]) = 0 /\ k = 1
      BY <2>1, <2>4, <2>5
    <2>7. timers'[s] = r
      <3>1. timers[s] = <<>>
        BY <1>2, <2>6, EmptySeq
      <3>. QED
        BY <2>1, <2>3, <3>1
    <2>8. \A i \in 1..Len(timers'[s]) : timers'[s][i] >= now + w
      BY <1>2, <2>2, <2>3, <2>7
    <2>. HIDE DEF got, got2, last2
    <2>9. toSend'[s][1].recvWait = w
      BY <1>1 DEF w
    <2>10. \A i \in 1..Len(timers'[s]) :
              got2 # <<>> /\ timers'[s][i] >= last2 + toSend'[s][1].recvWait
      BY <1>3, <2>8, <2>9
    <2>11. ~(lastRecv'[s] >= 0)
      BY <2>1
    <2>. QED
      BY <2>10, <2>11 DEF Answers, got2, last2
  <1>5. CASE ~(toSend[s] # <<>> /\ toSend[s][1].recvWait > 0)
    <2>1. lastRecv'[s] = now
      BY <1>1, <1>2, <1>5 DEF AnswerReceipts
    <2>. QED
      BY <1>1, <1>3, <1>5, <2>1 DEF Answers
  <1>. QED
    BY <1>4, <1>5

LEMMA AnswerStep ==
    ASSUME TurnInv, TurnInv', Next, NEW s \in Sides, Answers(s)
    PROVE  Answers(s)'
  <1>1. /\ cvec' = cvec
        /\ Rests(s) \/ TimePasses(s) \/ Opens(s) \/ Hears(s) \/ Wakes(s)
    BY CvecStays, SideStep DEF TurnInv, PaidInv, PlaceInv
  <1>2. SUFFICES ASSUME Alternating(cvec)
                 PROVE  Answers(s)'
    BY <1>1 DEF Answers
  <1>3. PlaceInv /\ PlaceInv'
    BY DEF TurnInv, PaidInv
  <1>4. CASE Unmoved(s)
    BY <1>1, <1>4 DEF Unmoved, Answers
  <1>5. CASE Opens(s)
    <2>1. timers[s] = <<>>
      BY <1>3, <1>5 DEF Opens, PlaceInv, Untouched
    <2>2. ASSUME toSend[s] # <<>>, ~Immediate(toSend[s][1]),
                 toSend'[s] = toSend[s], heardAt'[s] = heardAt[s],
                 WaitsFor(s, toSend[s][1], timers[s], lastSend[s])
          PROVE  Answers(s)'
      BY <1>1, <1>2, <1>3, <2>1, <2>2, RestOfVector, WaitsForAnswer
    <2>. QED
      BY <1>1, <1>2, <1>3, <1>4, <1>5, <2>1, <2>2, SendsAnswers DEF Opens
  <1>6. CASE Hears(s)
    BY <1>1, <1>2, <1>6, HearsAnswers
  <1>7. CASE Wakes(s)
    <2>1. PICK i \in 1..Len(timers[s]) :
             LET pending == SubSeq(timers[s], 1, i - 1) \o Drop(timers[s], i)
             IN \/ /\ timers'[s] = pending
                   /\ toSend'[s] = toSend[s] /\ heardAt'[s] = heardAt[s]
                   /\ lastRecv'[s] = lastRecv[s] /\ toSend[s] = <<>>
                \/ \E n \in 1..Len(toSend[s]) : Sends(s, n, pending)
      BY <1>7 DEF Wakes
    <2>2. SubSeq(timers[s], 1, i - 1) \o Drop(timers[s], i) = <<>>
      BY <1>2, <1>3, OnlyEvent
    <2>. QED
      BY <1>1, <1>2, <1>3, <2>1, <2>2, SendsAnswers DEF Answers
  <1>. QED
    BY <1>1, <1>4, <1>5, <1>6, <1>7 DEF Rests, TimePasses

LEMMA AnswersHold == Spec => []AnswerInv
  <1>1. Init => AnswerInv
    <2>. SUFFICES ASSUME Init
                  PROVE  AnswerInv
      OBVIOUS
    <2>1. TurnInv
      BY InitTurns
    <2>2. ASSUME NEW s \in Sides
          PROVE  Answers(s)
      <3>1. timers[s] = <<>> /\ lastRecv[s] = -1
        BY DEF Init
      <3>2. ~(lastRecv[s] >= 0) /\ 1..Len(timers[s]) = {}
        BY <3>1
      <3>. QED
        BY <3>2 DEF Answers
    <2>. QED
      BY <2>1, <2>2 DEF AnswerInv
  <1>2. AnswerInv /\ [Next]_vars => AnswerInv'
    <2>. SUFFICES ASSUME AnswerInv, [Next]_vars
                  PROVE  AnswerInv'
      OBVIOUS
    <2>1. TurnInv'
      BY TurnNext DEF AnswerInv
    <2>2. CASE Next
      BY <2>1, <2>2, AnswerStep DEF AnswerInv
    <2>3. CASE UNCHANGED vars
      BY <2>1, <2>3 DEF AnswerInv, vars, Answers
    <2>. QED
      BY <2>2, <2>3
  <1>. QED
    BY <1>1, <1>2, PTL DEF Spec

\* In an alternating vector the requests before an answer are the ADUs of the
\* peer before it.
LEMMA RequestsAre ==
    ASSUME PlaceInv, Alternating(cvec), NEW s \in Sides,
           NEW i \in 1..DataLeft(Adus(cvec, s))
    PROVE  RequestsBefore(s, i) = IF s = cvec[1].side THEN i - 1 ELSE i
  <1>. DEFINE p == PlaceOf(cvec, s, i)
              n == DataLeft(cvec)
  <1>1. cvec \in Seq(ADU)
    BY AcceptedVector DEF PlaceInv
  <1>2. /\ p \in 1..n
        /\ Rank(cvec, Peer(s), p) = IF s = cvec[1].side THEN i - 1 ELSE i
    BY <1>1, AlternatingAdus
  <1>3. /\ n \in 1..Len(cvec) /\ Len(cvec) \in Nat
        /\ \A j \in 1..n : cvec[j].size > 0
    BY <1>1, TurnsAlternate
  <1>. HIDE DEF p, n
  <1>4. \A j \in 1..p : /\ j \in 1..Len(cvec) /\ cvec[j].size > 0
                        /\ cvec[j].side \in Sides
    <2>. SUFFICES ASSUME NEW j \in 1..p
                  PROVE  /\ j \in 1..Len(cvec) /\ cvec[j].size > 0
                         /\ cvec[j].side \in Sides
      OBVIOUS
    <2>1. j \in 1..Len(cvec) /\ j \in 1..n
      BY <1>2, <1>3
    <2>2. cvec[j] \in ADU
      BY <1>1, <2>1, ElementOfSeq
    <2>. QED
      BY <1>3, <2>1, <2>2 DEF ADU
  <1>5. {j \in 1..p : cvec[j].side # s /\ cvec[j].size > 0}
          = {j \in Places(cvec, Peer(s)) : j <= p}
    <2>1. \A j \in 1..p : cvec[j].side # s <=> cvec[j].side = Peer(s)
      BY <1>4, PeerProperties
    <2>2. p \in Nat
      BY <1>2, <1>3
    <2>3. \A j \in 1..Len(cvec) : j <= p <=> j \in 1..p
      BY <2>2
    <2>. QED
      BY <1>4, <2>1, <2>3 DEF Places
  <1>6. RequestsBefore(s, i) = Rank(cvec, Peer(s), p)
    BY <1>5 DEF RequestsBefore, Rank, p
  <1>. QED
    BY <1>2, <1>6

\* An answer leaves when an event is due, which none is before its time.
LEMMA WakesAnswer ==
    ASSUME AnswerInv, Alternating(cvec), NEW s \in Sides,
           NEW j \in 1..Len(timers[s]), timers[s][j] <= now,
           toSend[s] # <<>>, toSend[s][1].recvWait > 0
    PROVE  LET n == RequestsBefore(s, SentCount(s) + 1)
           IN n <= Len(heardAt[s])
              /\ now >= heardAt[s][n] + toSend[s][1].recvWait
  <1>. DEFINE q == Adus(cvec, s)
              c == SentCount(s)
              n == RequestsBefore(s, c + 1)
              w == toSend[s][1].recvWait
              h == Len(heardAt[s])
              l == Len(timers[s])
              first == cvec[1].side
              d == DataSent(s)
  <1>1. TurnInv /\ PlaceInv /\ cvec \in Seq(ADU) /\ Answers(s)
    BY AcceptedVector DEF AnswerInv, TurnInv, PaidInv, PlaceInv
  <1>2. /\ c \in Nat /\ d \in Nat /\ DataLeft(q) \in Nat /\ c <= Len(q)
        /\ d = IF c <= DataLeft(q) THEN c ELSE DataLeft(q)
        /\ c + 1 <= Len(q) /\ toSend[s][1] = q[c + 1]
    BY <1>1, DataSentIs
  <1>3. /\ Len(q) \in Nat
        /\ DataLeft(q) = Len(q) \/ DataLeft(q) = Len(q) - 1
        /\ \A i \in 1..DataLeft(q) : s = first /\ i = 1 => Immediate(q[i])
        /\ DataLeft(q) < Len(q) => q[Len(q)].sendWait > 0
    BY <1>1, AlternatingAdus
  <1>4. w \in Nat /\ w > 0 /\ toSend[s][1].sendWait = 0
    BY <1>1, RestOfVector
  <1>5. c + 1 \in 1..DataLeft(q) /\ d = c
    <2>1. DataLeft(q) < Len(q) => c + 1 # Len(q)
      BY <1>2, <1>3, <1>4
    <2>. QED
      BY <1>2, <1>3, <2>1
  <1>6. ~(s = first /\ c = 0)
    BY <1>2, <1>3, <1>4, <1>5 DEF Immediate
  <1>7. n = IF s = first THEN c ELSE c + 1
    <2>1. RequestsBefore(s, c + 1) = IF s = first THEN (c + 1) - 1 ELSE c + 1
      BY <1>1, <1>5, RequestsAre
    <2>. QED
      BY <1>2, <2>1
  <1>8. Follows(s) = 0
    BY <1>4 DEF Follows
  <1>9. /\ h \in Nat /\ l \in Nat
        /\ (IF s = first /\ d > 0 THEN d - 1 ELSE d) + l <= h + Follows(s)
    BY <1>1, TurnCounts
  <1>10. h <= IF s = first THEN d ELSE d + 1
    BY <1>1, OneEventAtATime
  <1>11. /\ heardAt[s] # <<>>
         /\ timers[s][j] >= heardAt[s][Len(heardAt[s])] + w
    BY <1>1 DEF Answers
  <1>12. /\ heardAt[s] \in Seq(Nat) /\ timers[s] \in Seq(Nat) /\ now \in Nat
    BY <1>1, VectorFacts
  <1>13. /\ timers[s][j] \in Nat /\ heardAt[s][h] \in Nat
    BY <1>11, <1>12, ElementOfSeq, EmptySeq
  <1>14. j \in 1..l
    OBVIOUS
  <1>15. now >= heardAt[s][h] + w
    <2>. DEFINE t == timers[s][j]
                last == heardAt[s][h]
    <2>1. t \in Nat /\ last \in Nat /\ t <= now /\ t >= last + w
      BY <1>11, <1>13
    <2>. HIDE DEF t, last, w
    <2>2. now >= last + w
      BY <1>4, <1>12, <2>1
    <2>. QED
      BY <2>2 DEF last
  <1>. HIDE DEF n, h, l, c, d, first, w
  <1>16. n = h
    BY <1>2, <1>5, <1>6, <1>7, <1>8, <1>9, <1>10, <1>14
  <1>. QED
    BY <1>9, <1>15, <1>16 DEF n, h, w, c

\* Only the first ADU of a burst is an answer.
LEMMA FirstOfBurst ==
    ASSUME PlaceInv, NEW s \in Sides, NEW n \in 1..Len(toSend[s]), NEW pending,
           Sends(s, n, pending), cvec' = cvec, NEW i \in SentNow(s),
           Adus(cvec, s)[i].recvWait > 0
    PROVE  /\ i = SentCount(s) + 1
           /\ toSend[s] # <<>> /\ toSend[s][1] = Adus(cvec, s)[i]
  <1>. DEFINE c == SentCount(s)
              q == Adus(cvec, s)
  <1>1. /\ c \in Nat /\ SentCount(s)' = c + n
    BY SendsSuffix
  <1>2. i \in c + 1..c + n
    BY <1>1 DEF SentNow, SentCount
  <1>3. /\ toSend[s] \in Seq(ADU) /\ Len(toSend[s]) \in Nat
        /\ \A k \in 1..Len(toSend[s]) : toSend[s][k] = q[c + k]
    BY VectorFacts, LenProperties DEF PlaceInv, Suffix
  <1>. HIDE DEF c, q
  <1>4. /\ i - c \in 1..Len(toSend[s]) /\ i - c \in 1..n /\ c + (i - c) = i
        /\ i \in Nat
    BY <1>1, <1>2, <1>3
  <1>5. toSend[s][i - c] = q[i]
    BY <1>3, <1>4
  <1>6. ~(i - c \in 2..n)
    <2>1. ASSUME i - c \in 2..n
          PROVE  toSend[s][i - c].recvWait = 0
      BY <2>1 DEF Sends, IsBurst, Immediate
    <2>. QED
      BY <1>5, <2>1 DEF q
  <1>7. i - c = 1
    BY <1>1, <1>4, <1>6
  <1>8. toSend[s] # <<>>
    BY <1>3, <1>4, EmptySeq
  <1>9. i = c + 1
    BY <1>1, <1>4, <1>7
  <1>. QED
    BY <1>5, <1>7, <1>8, <1>9 DEF c, q

LEMMA AnswersWait ==
    ASSUME AnswerInv, TurnInv', Next, Alternating(cvec), NEW s \in Sides,
           NEW i \in SentNow(s), Adus(cvec, s)[i].recvWait > 0
    PROVE  LET n == RequestsBefore(s, i)
           IN n <= Len(heardAt[s])
              /\ now >= heardAt[s][n] + Adus(cvec, s)[i].recvWait
  <1>1. /\ TurnInv /\ PlaceInv /\ Inv /\ Inv'
        /\ cvec' = cvec
    BY CvecStays DEF AnswerInv, TurnInv, PaidInv, PlaceInv
  <1>2. Rests(s) \/ TimePasses(s) \/ Opens(s) \/ Hears(s) \/ Wakes(s)
    BY <1>1, SideStep
  <1>3. toSend'[s] # toSend[s]
    <2>1. SUFFICES ASSUME toSend'[s] = toSend[s]
                   PROVE  FALSE
      OBVIOUS
    <2>2. SentCount(s) \in Nat
      BY <1>1, DataSentIs
    <2>3. i \in SentCount(s) + 1..SentCount(s)
      BY <2>1 DEF SentNow, SentCount
    <2>. QED
      BY <2>2, <2>3
  <1>4. CASE Opens(s)
    <2>1. Immediate(toSend[s][1])
          /\ \E n \in 1..Len(toSend[s]) : Sends(s, n, timers[s])
      BY <1>3, <1>4 DEF Opens, Unmoved
    <2>2. toSend[s][1] = Adus(cvec, s)[i]
      BY <1>1, <2>1, FirstOfBurst
    <2>3. FALSE
      BY <2>1, <2>2 DEF Immediate
    <2>. QED
      BY <2>3
  <1>5. CASE Wakes(s)
    <2>1. PICK j \in 1..Len(timers[s]) :
            /\ timers[s][j] <= now
            /\ \E n \in 1..Len(toSend[s]) :
                 Sends(s, n, SubSeq(timers[s], 1, j - 1) \o Drop(timers[s], j))
      BY <1>3, <1>5 DEF Wakes
    <2>2. /\ i = SentCount(s) + 1 /\ toSend[s] # <<>>
          /\ toSend[s][1] = Adus(cvec, s)[i]
      BY <1>1, <2>1, FirstOfBurst
    <2>3. toSend[s][1].recvWait > 0
      BY <2>2
    <2>4. LET n == RequestsBefore(s, SentCount(s) + 1)
          IN n <= Len(heardAt[s])
             /\ now >= heardAt[s][n] + toSend[s][1].recvWait
      BY <2>1, <2>2, <2>3, WakesAnswer
    <2>. QED
      BY <2>2, <2>4
  <1>. QED
    BY <1>2, <1>3, <1>4, <1>5 DEF Rests, TimePasses, Hears, Unmoved

\* When turns alternate, m_lastRecvTime and the events of Receive hold every
\* answer back for its recvWait after all it answers has come.
THEOREM AnswersAreLate == Spec => RecvWaitRespected
  <1>1. AnswerInv /\ [Next]_vars =>
          [\A s \in Sides : \A i \in SentNow(s) :
             LET a == Adus(cvec, s)[i]
                 n == RequestsBefore(s, i)
             IN Alternating(cvec) /\ a.recvWait > 0
                  => /\ n <= Len(heardAt[s])
                     /\ now >= heardAt[s][n] + a.recvWait]_vars
    <2>1. AnswerInv /\ [Next]_vars => TurnInv'
      BY TurnNext DEF AnswerInv
    <2>. QED
      BY <2>1, AnswersWait
  <1>. QED
    BY <1>1, AnswersHold, PTL DEF Spec, RecvWaitRespected
=============================================================================

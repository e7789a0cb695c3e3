-------------------------- MODULE Evaluation_proofs --------------------------
(***************************************************************************)
(* What the statistics report, what the files hold and what the graphs     *)
(* show, for all TCPs, values and lengths of a simulation.  The calendar   *)
(* of a simulation has the reports that are left to make, each one once:   *)
(* what runs next is known by the time and the order of scheduling.  The   *)
(* percentile is proved of every list of samples.                          *)
(***************************************************************************)
EXTENDS Evaluation, SequenceTheorems, FiniteSetTheorems,
        WellFoundedInduction, TLAPS

-----------------------------------------------------------------------------
(* Natural numbers.                                                        *)

\* Every set of natural numbers has a least element: < is well-founded.
LEMMA NatMin ==
    ASSUME NEW T, T \subseteq Nat, T # {}
    PROVE  \E x \in T : \A y \in T : x <= y
  <1>. DEFINE R == {ss \in Nat \X Nat : ss[1] < ss[2]}
  <1>1. R = OpToRel(<, Nat)
    BY DEF OpToRel
  <1>2. IsWellFoundedOn(R, Nat)
    BY <1>1, NatLessThanWellFounded
  <1>3. \A x, y \in Nat : y < x => <<y, x>> \in R
    OBVIOUS
  <1>. HIDE DEF R
  <1>4. PICK x \in T : \A y \in T : ~ (<<y, x>> \in R)
    BY <1>2, WFMin
  <1>5. ASSUME NEW y \in T
        PROVE  x <= y
    <2>1. x \in Nat /\ y \in Nat
      OBVIOUS
    <2>2. ~ (<<y, x>> \in R)
      BY <1>4
    <2>3. ~ (y < x)
      BY <1>3, <2>1, <2>2
    <2>. QED
      BY <2>1, <2>3
  <1>. QED
    BY <1>5

\* Induction, on the set of numbers for which something holds.
LEMMA NatInd ==
    ASSUME NEW S, 0 \in S, \A n \in Nat : n \in S => n + 1 \in S
    PROVE  Nat \subseteq S
  <1>. DEFINE T == Nat \ S
  <1>1. SUFFICES ASSUME T # {}
                 PROVE  FALSE
    OBVIOUS
  <1>2. T \subseteq Nat
    OBVIOUS
  <1>. HIDE DEF T
  <1>3. PICK x \in T : \A y \in T : x <= y
    BY <1>1, <1>2, NatMin
  <1>. QED
    BY <1>3 DEF T

-----------------------------------------------------------------------------
(* Sums of samples.                                                        *)

\* f has the sums of list up to the m-th element.
Sums(list, f, m) ==
    /\ f \in [0..m -> Nat]
    /\ f[0] = 0
    /\ \A n \in 1..m : f[n] = f[n - 1] + list[n]

LEMMA SumsExist ==
    ASSUME NEW list, NEW l \in Nat, \A n \in 1..l : list[n] \in Nat
    PROVE  \E f : Sums(list, f, l)
  <1>. DEFINE S == {m \in Nat : m <= l => \E f : Sums(list, f, m)}
  <1>1. 0 \in S
    <2>1. Sums(list, [n \in 0..0 |-> 0], 0)
      BY DEF Sums
    <2>. QED
      BY <2>1
  <1>2. ASSUME NEW m \in Nat, m \in S
        PROVE  m + 1 \in S
    <2>1. SUFFICES ASSUME m + 1 <= l
                   PROVE  \E f : Sums(list, f, m + 1)
      OBVIOUS
    <2>2. PICK f : Sums(list, f, m)
      BY <1>2, <2>1
    <2>. DEFINE g == [n \in 0..m + 1 |->
                        IF n = m + 1 THEN f[m] + list[m + 1] ELSE f[n]]
    <2>3. /\ f \in [0..m -> Nat] /\ f[0] = 0 /\ f[m] \in Nat
          /\ \A n \in 1..m : f[n] = f[n - 1] + list[n]
          /\ list[m + 1] \in Nat
      BY <2>1, <2>2 DEF Sums
    <2>4. g \in [0..m + 1 -> Nat] /\ g[0] = 0
      BY <2>3
    <2>5. ASSUME NEW n \in 1..m + 1
          PROVE  g[n] = g[n - 1] + list[n]
      <3>1. CASE n = m + 1
        BY <3>1
      <3>2. CASE n \in 1..m
        BY <2>3, <3>2
      <3>. QED
        BY <3>1, <3>2
    <2>. HIDE DEF g
    <2>6. Sums(list, g, m + 1)
      BY <2>4, <2>5 DEF Sums
    <2>. QED
      BY <2>6
  <1>. HIDE DEF S
  <1>3. l \in S
    BY <1>1, <1>2, NatInd
  <1>. QED
    BY <1>3 DEF S

\* SumUpTo is what its recursive definition says: such a function exists.
LEMMA SumUpToDef ==
    ASSUME NEW list \in Seq(Nat)
    PROVE  /\ SumUpTo(list)[0] = 0
           /\ \A n \in 1..Len(list) :
                 SumUpTo(list)[n] = SumUpTo(list)[n - 1] + list[n]
  <1>. DEFINE l == Len(list)
              def(f) == [n \in 0..l |-> IF n = 0 THEN 0
                                        ELSE f[n - 1] + list[n]]
  <1>1. l \in Nat /\ \A n \in 1..l : list[n] \in Nat
    BY ElementOfSeq, LenProperties
  <1>2. PICK f : Sums(list, f, l)
    BY <1>1, SumsExist
  <1>3. f = def(f)
    BY <1>1, <1>2 DEF Sums
  <1>4. SumUpTo(list) = CHOOSE g : g = def(g)
    BY DEF SumUpTo
  <1>. HIDE DEF def
  <1>5. SumUpTo(list) = def(SumUpTo(list))
    BY <1>3, <1>4
  <1>. QED
    BY <1>1, <1>5 DEF def

\* One more sample.
LEMMA SumAppend ==
    ASSUME NEW list \in Seq(Nat), NEW x \in Nat
    PROVE  Sum(Append(list, x)) = Sum(list) + x
  <1>. DEFINE l == Len(list)
              more == Append(list, x)
              S == {n \in Nat : n <= l => SumUpTo(more)[n] = SumUpTo(list)[n]}
  <1>1. /\ l \in Nat /\ more \in Seq(Nat) /\ Len(more) = l + 1
        /\ \A n \in 1..l : more[n] = list[n]
        /\ more[l + 1] = x
    BY AppendProperties, LenProperties
  <1>2. /\ SumUpTo(list)[0] = 0
        /\ \A n \in 1..l : SumUpTo(list)[n] = SumUpTo(list)[n - 1] + list[n]
    BY SumUpToDef
  <1>3. /\ SumUpTo(more)[0] = 0
        /\ \A n \in 1..l + 1 :
              SumUpTo(more)[n] = SumUpTo(more)[n - 1] + more[n]
    BY <1>1, SumUpToDef
  <1>. HIDE DEF l, more
  <1>4. 0 \in S
    BY <1>2, <1>3
  <1>5. ASSUME NEW n \in Nat, n \in S
        PROVE  n + 1 \in S
    <2>1. SUFFICES ASSUME n + 1 <= l
                   PROVE  SumUpTo(more)[n + 1] = SumUpTo(list)[n + 1]
      OBVIOUS
    <2>. DEFINE e == n + 1
    <2>2. e \in 1..l /\ e \in 1..l + 1 /\ e - 1 = n
      BY <1>1, <2>1
    <2>. HIDE DEF e
    <2>3. SumUpTo(more)[e] = SumUpTo(list)[e]
      BY <1>1, <1>2, <1>3, <1>5, <2>1, <2>2
    <2>. QED
      BY <2>3 DEF e
  <1>. HIDE DEF S
  <1>6. l \in S
    BY <1>1, <1>4, <1>5, NatInd
  <1>7. SumUpTo(more)[l] = SumUpTo(list)[l]
    BY <1>1, <1>6 DEF S
  <1>. DEFINE e == l + 1
  <1>8. e \in 1..l + 1 /\ e - 1 = l /\ Len(more) = e /\ more[e] = x
    BY <1>1
  <1>. HIDE DEF e
  <1>9. SumUpTo(more)[e] = SumUpTo(list)[l] + x
    BY <1>3, <1>7, <1>8
  <1>. QED
    BY <1>8, <1>9 DEF Sum, l, more

\* The zeros of the constructor.
LEMMA SumZeros ==
    ASSUME NEW l \in Nat
    PROVE  /\ [i \in 1..l |-> 0] \in Seq(Nat)
           /\ Len([i \in 1..l |-> 0]) = l
           /\ Sum([i \in 1..l |-> 0]) = 0
  <1>. DEFINE list == [i \in 1..l |-> 0]
              S == {n \in Nat : n <= l => SumUpTo(list)[n] = 0}
  <1>1. list \in Seq(Nat) /\ Len(list) = l /\ \A n \in 1..l : list[n] = 0
    OBVIOUS
  <1>2. /\ SumUpTo(list)[0] = 0
        /\ \A n \in 1..l : SumUpTo(list)[n] = SumUpTo(list)[n - 1] + list[n]
    BY <1>1, SumUpToDef
  <1>. HIDE DEF list
  <1>3. 0 \in S
    BY <1>2
  <1>4. ASSUME NEW n \in Nat, n \in S
        PROVE  n + 1 \in S
    <2>1. SUFFICES ASSUME n + 1 <= l
                   PROVE  SumUpTo(list)[n + 1] = 0
      OBVIOUS
    <2>. DEFINE e == n + 1
    <2>2. e \in 1..l /\ e - 1 = n
      BY <2>1
    <2>. HIDE DEF e
    <2>3. SumUpTo(list)[e] = 0
      BY <1>1, <1>2, <1>4, <2>1, <2>2
    <2>. QED
      BY <2>3 DEF e
  <1>. HIDE DEF S
  <1>5. l \in S
    BY <1>3, <1>4, NatInd
  <1>6. SumUpTo(list)[l] = 0
    BY <1>5 DEF S
  <1>. QED
    BY <1>1, <1>6 DEF Sum, list

LEMMA SumEmpty == Sum(<<>>) = 0
  <1>1. <<>> \in Seq(Nat) /\ Len(<<>>) = 0
    OBVIOUS
  <1>. QED
    BY <1>1, SumUpToDef DEF Sum

-----------------------------------------------------------------------------
(* Sequences.                                                              *)

\* What is left without the i-th element.
LEMMA RemoveProperties ==
    ASSUME NEW S, NEW s \in Seq(S), NEW i \in 1..Len(s)
    PROVE  /\ RemoveAt(s, i) \in Seq(S)
           /\ Len(RemoveAt(s, i)) = Len(s) - 1
           /\ \A j \in 1..Len(s) - 1 :
                 RemoveAt(s, i)[j] = IF j < i THEN s[j] ELSE s[j + 1]
  <1>. DEFINE l == Len(s)
              a == SubSeq(s, 1, i - 1)
              b == SubSeq(s, i + 1, l)
  <1>1. l \in Nat /\ \A j \in 1..l : s[j] \in S
    BY ElementOfSeq, LenProperties
  <1>2. i \in 1..l /\ i - 1 \in Nat /\ i + 1 \in Int
    BY <1>1
  <1>3. /\ a \in Seq(S) /\ Len(a) = i - 1
        /\ \A j \in 1..i - 1 : a[j] = s[j]
    <2>1. \A j \in 1..i - 1 : s[j] \in S
      BY <1>1, <1>2
    <2>2. /\ a \in Seq(S)
          /\ Len(a) = IF 1 <= i - 1 THEN i - 1 - 1 + 1 ELSE 0
          /\ \A j \in 1..i - 1 - 1 + 1 : a[j] = s[1 + j - 1]
      BY <1>1, <1>2, <2>1, SubSeqProperties
    <2>. QED
      BY <1>2, <2>2
  <1>4. /\ b \in Seq(S) /\ Len(b) = l - i
        /\ \A j \in 1..l - i : b[j] = s[i + j]
    <2>1. \A j \in i + 1..l : s[j] \in S
      BY <1>1, <1>2
    <2>2. /\ b \in Seq(S)
          /\ Len(b) = IF i + 1 <= l THEN l - (i + 1) + 1 ELSE 0
          /\ \A j \in 1..l - (i + 1) + 1 : b[j] = s[i + 1 + j - 1]
      BY <1>1, <1>2, <2>1, SubSeqProperties
    <2>. QED
      BY <1>1, <1>2, <2>2
  <1>5. RemoveAt(s, i) = a \o b
    BY DEF RemoveAt
  <1>. HIDE DEF a, b, l
  <1>6. /\ a \o b \in Seq(S) /\ Len(a \o b) = Len(a) + Len(b)
        /\ \A j \in 1..Len(a) + Len(b) :
              (a \o b)[j] = IF j <= Len(a) THEN a[j] ELSE b[j - Len(a)]
    BY <1>3, <1>4, ConcatProperties
  <1>7. Len(a) + Len(b) = l - 1
    BY <1>1, <1>2, <1>3, <1>4
  <1>8. ASSUME NEW j \in 1..l - 1
        PROVE  (a \o b)[j] = IF j < i THEN s[j] ELSE s[j + 1]
    <2>1. j \in 1..Len(a) + Len(b)
      BY <1>7
    <2>2. CASE j < i
      <3>1. j <= Len(a) /\ j \in 1..i - 1
        BY <1>1, <1>2, <1>3, <2>2
      <3>. QED
        BY <1>3, <1>6, <2>1, <2>2, <3>1
    <2>3. CASE ~(j < i)
      <3>1. /\ ~(j <= Len(a)) /\ j - Len(a) \in 1..l - i
            /\ i + (j - Len(a)) = j + 1
        BY <1>1, <1>2, <1>3, <2>3
      <3>. QED
        BY <1>4, <1>6, <2>1, <2>3, <3>1
    <2>. QED
      BY <2>2, <2>3
  <1>. QED
    BY <1>5, <1>6, <1>7, <1>8 DEF l

LEMMA PutProperties ==
    ASSUME NEW f, NEW x, NEW y
    PROVE  /\ DOMAIN Put(f, x, y) = DOMAIN f \cup {x}
           /\ Put(f, x, y)[x] = y
           /\ \A z \in DOMAIN f : z # x => Put(f, x, y)[z] = f[z]
  BY DEF Put

-----------------------------------------------------------------------------
(* The calendar of a simulation.                                           *)

EventNames == {"SizeReset", "ThroughputFinder", "DynamicSocketFitter",
               "start", "stop"}

Events == [at : Nat, what : EventNames]

\* What happens once, in front of the traffic.
Preludes == {Event(2, "start"), Event(3, "DynamicSocketFitter")}

\* The events that a simulation has still to run, when LinkStats reported r
\* and SinkStats h times, and left is what is left of the prelude.
Due(r, h, left) ==
    {Event(2 * i, "SizeReset") : i \in r + 1..Seconds}
      \cup {Event(2 * i, "ThroughputFinder") : i \in h + 1..Seconds}
      \cup {Event(2 * Seconds, "stop")}
      \cup left

\* The calendar c has the events of D, each one once, and Stop behind the
\* reports.
InOrder(c, D) ==
    /\ c \in Seq(Events)
    /\ \A i \in 1..Len(c) : c[i] \in D
    /\ \A e \in D : \E i \in 1..Len(c) : c[i] = e
    /\ \A i, j \in 1..Len(c) : c[i] = c[j] => i = j
    /\ \A i, j \in 1..Len(c) :
          c[i].what = "stop"
            /\ c[j].what \in {"SizeReset", "ThroughputFinder"} => j < i

\* The calendar without one of its events.
LEMMA RemoveInOrder ==
    ASSUME NEW c, NEW D, InOrder(c, D), NEW i \in 1..Len(c)
    PROVE  InOrder(RemoveAt(c, i), D \ {c[i]})
  <1>. DEFINE l == Len(c)
              z == RemoveAt(c, i)
              old(j) == IF j < i THEN j ELSE j + 1
  <1>1. /\ c \in Seq(Events) /\ l \in Nat /\ i \in 1..l
        /\ \A j \in 1..l : c[j] \in D
        /\ \A e \in D : \E j \in 1..l : c[j] = e
        /\ \A j, k \in 1..l : c[j] = c[k] => j = k
        /\ \A j, k \in 1..l :
              c[j].what = "stop"
                /\ c[k].what \in {"SizeReset", "ThroughputFinder"} => k < j
    BY DEF InOrder
  <1>2. /\ z \in Seq(Events) /\ Len(z) = l - 1
        /\ \A j \in 1..l - 1 : z[j] = IF j < i THEN c[j] ELSE c[j + 1]
    BY <1>1, RemoveProperties
  <1>. HIDE DEF l, z
  <1>3. ASSUME NEW j \in 1..l - 1
        PROVE  /\ old(j) \in 1..l /\ old(j) # i /\ z[j] = c[old(j)]
    BY <1>1, <1>2
  <1>4. \A j, k \in 1..l - 1 : /\ old(j) = old(k) => j = k
                               /\ old(j) < old(k) => j < k
    BY <1>1
  <1>. HIDE DEF old
  <1>5. ASSUME NEW j \in 1..l - 1
        PROVE  z[j] \in D \ {c[i]}
    BY <1>1, <1>3
  <1>6. ASSUME NEW e \in D \ {c[i]}
        PROVE  \E j \in 1..l - 1 : z[j] = e
    <2>1. PICK k \in 1..l : c[k] = e
      BY <1>1
    <2>2. CASE k < i
      <3>1. k \in 1..l - 1 /\ z[k] = c[k]
        BY <1>1, <1>2, <2>2
      <3>. QED
        BY <2>1, <3>1
    <2>3. CASE k > i
      <3>. DEFINE m == k - 1
      <3>1. m \in 1..l - 1 /\ ~(m < i) /\ m + 1 = k
        BY <1>1, <2>3
      <3>. HIDE DEF m
      <3>2. z[m] = e
        BY <1>2, <2>1, <3>1
      <3>. QED
        BY <3>1, <3>2
    <2>4. k # i
      BY <2>1
    <2>. QED
      BY <1>1, <2>2, <2>3, <2>4
  <1>7. ASSUME NEW j \in 1..l - 1, NEW k \in 1..l - 1, z[j] = z[k]
        PROVE  j = k
    <2>1. old(j) = old(k)
      BY <1>1, <1>3, <1>7
    <2>. QED
      BY <1>4, <2>1
  <1>8. ASSUME NEW j \in 1..l - 1, NEW k \in 1..l - 1, z[j].what = "stop",
               z[k].what \in {"SizeReset", "ThroughputFinder"}
        PROVE  k < j
    <2>1. old(k) < old(j)
      BY <1>1, <1>3, <1>8
    <2>. QED
      BY <1>4, <2>1
  <1>. QED
    BY <1>2, <1>5, <1>6, <1>7, <1>8 DEF InOrder, z

\* The simulator runs one of the earliest events.
LEMMA RunsEvent ==
    ASSUME NEW D, InOrder(calendar, D), NEW what, Runs(what)
    PROVE  \E e \in D :
              /\ e.what = what /\ now' = e.at
              /\ \A d \in D : e.at <= d.at
              /\ InOrder(calendar', D \ {e})
  <1>1. PICK i \in 1..Len(calendar) :
              /\ calendar[i].what = what /\ IsNext(i)
              /\ now' = calendar[i].at
              /\ calendar' = RemoveAt(calendar, i)
    BY DEF Runs, InOrder
  <1>2. calendar[i] \in D
    BY DEF InOrder
  <1>3. ASSUME NEW d \in D
        PROVE  calendar[i].at <= d.at
    <2>1. PICK j \in 1..Len(calendar) : calendar[j] = d
      BY DEF InOrder
    <2>2. calendar[i] \in Events /\ calendar[j] \in Events
      BY ElementOfSeq DEF InOrder
    <2>3. \/ calendar[i].at < calendar[j].at
          \/ calendar[i].at = calendar[j].at
      BY <1>1 DEF IsNext, InOrder
    <2>. QED
      BY <2>1, <2>2, <2>3 DEF Events
  <1>4. InOrder(calendar', D \ {calendar[i]})
    BY <1>1, RemoveInOrder
  <1>. QED
    BY <1>1, <1>2, <1>3, <1>4

\* Stop runs behind the reports of the same time.
LEMMA StopEvent ==
    ASSUME NEW D, InOrder(calendar, D), NEW i \in DOMAIN calendar,
           calendar[i].what = "stop", IsNext(i)
    PROVE  /\ calendar[i] \in D
           /\ \A d \in D : d.what \in {"SizeReset", "ThroughputFinder"}
                             => calendar[i].at < d.at
  <1>1. i \in 1..Len(calendar)
    BY DEF InOrder
  <1>2. calendar[i] \in D
    BY <1>1 DEF InOrder
  <1>3. ASSUME NEW d \in D, d.what \in {"SizeReset", "ThroughputFinder"}
        PROVE  calendar[i].at < d.at
    <2>1. PICK j \in 1..Len(calendar) : calendar[j] = d
      BY DEF InOrder
    <2>2. j < i
      BY <1>1, <1>3, <2>1 DEF InOrder
    <2>3. \/ calendar[i].at < calendar[j].at
          \/ calendar[i].at = calendar[j].at /\ i <= j
      BY <2>1 DEF IsNext, InOrder
    <2>. QED
      BY <1>1, <2>1, <2>2, <2>3
  <1>. QED
    BY <1>2, <1>3

\* What is due, event by event.
LEMMA DueEvents ==
    ASSUME NEW r \in 0..Seconds, NEW h \in 0..Seconds,
           NEW left, left \subseteq Preludes,
           NEW e \in Due(r, h, left)
    PROVE  \/ \E i \in r + 1..Seconds : e = Event(2 * i, "SizeReset")
           \/ \E i \in h + 1..Seconds : e = Event(2 * i, "ThroughputFinder")
           \/ e = Event(2 * Seconds, "stop")
           \/ e \in left /\ e = Event(2, "start")
           \/ e \in left /\ e = Event(3, "DynamicSocketFitter")
  BY DEF Due, Preludes

LEMMA EventFields ==
    ASSUME NEW at, NEW what
    PROVE  Event(at, what).at = at /\ Event(at, what).what = what
  BY DEF Event

\* Every event is from the time of the simulation.
LEMMA DueInTime ==
    ASSUME NEW r \in 0..Seconds, NEW h \in 0..Seconds,
           NEW left, left \subseteq Preludes,
           NEW e \in Due(r, h, left)
    PROVE  e.at \in 0..2 * Seconds
  <1>1. Seconds \in Nat /\ Seconds > 1
    BY EvaluationAssumption
  <1>2. ASSUME NEW n \in Nat, NEW i \in n + 1..Seconds
        PROVE  2 * i \in 0..2 * Seconds
    BY <1>1
  <1>3. 2 \in 0..2 * Seconds /\ 3 \in 0..2 * Seconds
        /\ 2 * Seconds \in 0..2 * Seconds
    BY <1>1
  <1>4. CASE \E i \in r + 1..Seconds : e = Event(2 * i, "SizeReset")
    BY <1>2, <1>4, EventFields
  <1>5. CASE \E i \in h + 1..Seconds : e = Event(2 * i, "ThroughputFinder")
    BY <1>2, <1>5, EventFields
  <1>6. CASE \/ e = Event(2 * Seconds, "stop") \/ e = Event(2, "start")
             \/ e = Event(3, "DynamicSocketFitter")
    BY <1>3, <1>6, EventFields
  <1>. QED
    BY <1>4, <1>5, <1>6, DueEvents

\* The application starts, or SocketStats looks for the socket.
LEMMA DuePrelude ==
    ASSUME NEW r \in 0..Seconds, NEW h \in 0..Seconds,
           NEW left, left \subseteq Preludes,
           NEW e \in Due(r, h, left),
           e.what \in {"start", "DynamicSocketFitter"}
    PROVE  /\ e \in left
           /\ Due(r, h, left) \ {e} = Due(r, h, left \ {e})
  <1>1. e \in left
    BY DueEvents, EventFields
  <1>2. ASSUME NEW d \in Due(r, h, {})
        PROVE  d # e
    <2>1. \/ \E i \in r + 1..Seconds : d = Event(2 * i, "SizeReset")
          \/ \E i \in h + 1..Seconds : d = Event(2 * i, "ThroughputFinder")
          \/ d = Event(2 * Seconds, "stop")
      BY <1>2 DEF Due
    <2>2. d.what # "start" /\ d.what # "DynamicSocketFitter"
      BY <2>1, EventFields
    <2>. QED
      BY <2>2
  <1>3. /\ Due(r, h, left) = Due(r, h, {}) \cup left
        /\ Due(r, h, left \ {e}) = Due(r, h, {}) \cup (left \ {e})
    BY DEF Due
  <1>. QED
    BY <1>1, <1>2, <1>3

\* What is due besides the reports of LinkStats.
DueButReset(h, left) ==
    {Event(2 * i, "ThroughputFinder") : i \in h + 1..Seconds}
      \cup {Event(2 * Seconds, "stop")}
      \cup left

DueButFinder(r, left) ==
    {Event(2 * i, "SizeReset") : i \in r + 1..Seconds}
      \cup {Event(2 * Seconds, "stop")}
      \cup left

\* The earliest of the reports that are left of one kind is the next one.
LEMMA NextReport ==
    ASSUME NEW what, NEW n \in 0..Seconds,
           NEW i \in n + 1..Seconds,
           \A j \in n + 1..Seconds : 2 * i <= 2 * j
    PROVE  /\ n + 1 \in 0..Seconds /\ i = n + 1
           /\ {Event(2 * j, what) : j \in n + 1..Seconds} =
                {Event(2 * i, what)}
                  \cup {Event(2 * j, what) : j \in n + 1 + 1..Seconds}
           /\ Event(2 * i, what) \notin
                {Event(2 * j, what) : j \in n + 1 + 1..Seconds}
  <1>. DEFINE e == n + 1
  <1>1. Seconds \in Nat
    BY EvaluationAssumption
  <1>2. e \in e..Seconds
    BY <1>1
  <1>3. 2 * i <= 2 * e
    BY <1>2
  <1>4. e \in 0..Seconds /\ i = e
    BY <1>1, <1>3
  <1>5. ASSUME NEW j \in e..Seconds, j # i
        PROVE  j \in e + 1..Seconds
    BY <1>1, <1>4, <1>5
  <1>6. ASSUME NEW j \in e + 1..Seconds
        PROVE  j \in e..Seconds
    BY <1>1, <1>4
  <1>7. ASSUME NEW j \in e + 1..Seconds
        PROVE  Event(2 * i, what) # Event(2 * j, what)
    <2>1. 2 * i # 2 * j
      BY <1>1, <1>4
    <2>. QED
      BY <2>1, EventFields
  <1>. HIDE DEF e
  <1>8. {Event(2 * j, what) : j \in e..Seconds} =
          {Event(2 * i, what)} \cup {Event(2 * j, what) : j \in e + 1..Seconds}
    BY <1>4, <1>2, <1>5, <1>6
  <1>. QED
    BY <1>4, <1>7, <1>8 DEF e

\* LinkStats reports.
LEMMA DueReset ==
    ASSUME NEW r \in 0..Seconds, NEW h \in 0..Seconds,
           NEW left, left \subseteq Preludes,
           NEW e \in Due(r, h, left), e.what = "SizeReset",
           \A d \in Due(r, h, left) : e.at <= d.at
    PROVE  /\ r + 1 \in 0..Seconds /\ e.at = 2 * (r + 1)
           /\ Due(r, h, left) \ {e}
                = Due(r + 1, h, left)
  <1>. DEFINE D == Due(r, h, left)
              M(n) == {Event(2 * j, "SizeReset") : j \in n + 1..Seconds}
              R == DueButReset(h, left)
  <1>1. PICK i \in r + 1..Seconds : e = Event(2 * i, "SizeReset")
    BY DueEvents, EventFields
  <1>2. \A j \in r + 1..Seconds : 2 * i <= 2 * j
    BY <1>1, EventFields DEF Due
  <1>3. /\ r + 1 \in 0..Seconds /\ i = r + 1
        /\ M(r) = {e} \cup M(r + 1)
        /\ e \notin M(r + 1)
    <2>1. /\ r + 1 \in 0..Seconds /\ i = r + 1
          /\ M(r) = {Event(2 * i, "SizeReset")} \cup M(r + 1)
          /\ Event(2 * i, "SizeReset") \notin M(r + 1)
      BY <1>2, NextReport
    <2>. HIDE DEF M
    <2>. QED
      BY <1>1, <2>1
  <1>4. Due(r, h, left) = M(r) \cup R
    BY DEF Due, DueButReset
  <1>5. Due(r + 1, h, left) = M(r + 1) \cup R
    BY DEF Due, DueButReset
  <1>6. \A d \in R : d.what # "SizeReset"
    BY EventFields DEF DueButReset, Preludes
  <1>. HIDE DEF M, R
  <1>7. e.at = 2 * (r + 1)
    BY <1>1, <1>3, EventFields
  <1>8. Due(r, h, left) \ {e}
          = Due(r + 1, h, left)
    BY <1>3, <1>4, <1>5, <1>6
  <1>. QED
    BY <1>3, <1>7, <1>8

\* SinkStats reports.
LEMMA DueFinder ==
    ASSUME NEW r \in 0..Seconds, NEW h \in 0..Seconds,
           NEW left, left \subseteq Preludes,
           NEW e \in Due(r, h, left),
           e.what = "ThroughputFinder",
           \A d \in Due(r, h, left) : e.at <= d.at
    PROVE  /\ h + 1 \in 0..Seconds /\ e.at = 2 * (h + 1)
           /\ Due(r, h, left) \ {e}
                = Due(r, h + 1, left)
  <1>. DEFINE D == Due(r, h, left)
              M(n) == {Event(2 * j, "ThroughputFinder") : j \in n + 1..Seconds}
              R == DueButFinder(r, left)
  <1>1. PICK i \in h + 1..Seconds : e = Event(2 * i, "ThroughputFinder")
    BY DueEvents, EventFields
  <1>2. \A j \in h + 1..Seconds : 2 * i <= 2 * j
    BY <1>1, EventFields DEF Due
  <1>3. /\ h + 1 \in 0..Seconds /\ i = h + 1
        /\ M(h) = {e} \cup M(h + 1)
        /\ e \notin M(h + 1)
    <2>1. /\ h + 1 \in 0..Seconds /\ i = h + 1
          /\ M(h) = {Event(2 * i, "ThroughputFinder")} \cup M(h + 1)
          /\ Event(2 * i, "ThroughputFinder") \notin M(h + 1)
      BY <1>2, NextReport
    <2>. HIDE DEF M
    <2>. QED
      BY <1>1, <2>1
  <1>4. Due(r, h, left) = M(h) \cup R
    BY DEF Due, DueButFinder
  <1>5. Due(r, h + 1, left) = M(h + 1) \cup R
    BY DEF Due, DueButFinder
  <1>6. \A d \in R : d.what # "ThroughputFinder"
    BY EventFields DEF DueButFinder, Preludes
  <1>. HIDE DEF M, R
  <1>7. e.at = 2 * (h + 1)
    BY <1>1, <1>3, EventFields
  <1>8. Due(r, h, left) \ {e}
          = Due(r, h + 1, left)
    BY <1>3, <1>4, <1>5, <1>6
  <1>. QED
    BY <1>3, <1>7, <1>8

\* Stop finds every report made.
LEMMA DueStop ==
    ASSUME NEW r \in 0..Seconds, NEW h \in 0..Seconds,
           NEW left, left \subseteq Preludes,
           NEW e \in Due(r, h, left), e.what = "stop",
           \A d \in Due(r, h, left) :
              d.what \in {"SizeReset", "ThroughputFinder"} => e.at < d.at
    PROVE  r = Seconds /\ h = Seconds
  <1>1. e.at = 2 * Seconds /\ Seconds \in Nat
    BY DueEvents, EventFields, EvaluationAssumption
  <1>2. ASSUME r # Seconds
        PROVE  FALSE
    <2>1. Seconds \in r + 1..Seconds
      BY <1>1, <1>2
    <2>2. Event(2 * Seconds, "SizeReset") \in Due(r, h, left)
      BY <2>1 DEF Due
    <2>. QED
      BY <1>1, <2>2, EventFields
  <1>3. ASSUME h # Seconds
        PROVE  FALSE
    <2>1. Seconds \in h + 1..Seconds
      BY <1>1, <1>3
    <2>2. Event(2 * Seconds, "ThroughputFinder")
             \in Due(r, h, left)
      BY <2>1 DEF Due
    <2>. QED
      BY <1>1, <2>2, EventFields
  <1>. QED
    BY <1>2, <1>3

\* The calendar in front of Simulator::Run, event by event.
LEMMA FirstEvents ==
    /\ FirstCalendar \in Seq(Events)
    /\ Len(FirstCalendar) = Seconds + 1 + Seconds + 2
    /\ \A i \in 1..Seconds + 1 + Seconds + 2 :
          FirstCalendar[i] =
            IF i <= Seconds THEN Event(2 * i, "SizeReset")
            ELSE IF i = Seconds + 1 THEN Event(3, "DynamicSocketFitter")
            ELSE IF i <= Seconds + 1 + Seconds
                 THEN Event(2 * (i - (Seconds + 1)), "ThroughputFinder")
            ELSE IF i = Seconds + 1 + Seconds + 1
                 THEN Event(2 * Seconds, "stop")
            ELSE Event(2, "start")
  <1>. DEFINE S == Seconds
              a == EverySecond("SizeReset")
              b == <<Event(3, "DynamicSocketFitter")>>
              c == EverySecond("ThroughputFinder")
              d == <<Event(2 * Seconds, "stop"), Event(2, "start")>>
              ab == a \o b
              abc == ab \o c
              all == abc \o d
              s1 == S + 1
              s2 == s1 + S
              s3 == s2 + 2
  <1>1. S \in Nat
    BY EvaluationAssumption
  <1>3. /\ a \in Seq(Events) /\ Len(a) = S
        /\ \A i \in 1..S : a[i] = Event(2 * i, "SizeReset")
    <2>1. ASSUME NEW i \in 1..S
          PROVE  Event(2 * i, "SizeReset") \in Events
      <3>1. 2 * i \in Nat
        BY <1>1
      <3>. QED
        BY <3>1 DEF Event, Events, EventNames
    <2>. QED
      BY <1>1, <2>1 DEF EverySecond
  <1>4. /\ c \in Seq(Events) /\ Len(c) = S
        /\ \A i \in 1..S : c[i] = Event(2 * i, "ThroughputFinder")
    <2>1. ASSUME NEW i \in 1..S
          PROVE  Event(2 * i, "ThroughputFinder") \in Events
      <3>1. 2 * i \in Nat
        BY <1>1
      <3>. QED
        BY <3>1 DEF Event, Events, EventNames
    <2>. QED
      BY <1>1, <2>1 DEF EverySecond
  <1>5. /\ b \in Seq(Events) /\ Len(b) = 1
        /\ b[1] = Event(3, "DynamicSocketFitter")
    <2>1. Event(3, "DynamicSocketFitter") \in Events
      BY DEF Event, Events, EventNames
    <2>. QED
      BY <2>1
  <1>6. /\ d \in Seq(Events) /\ Len(d) = 2
        /\ d[1] = Event(2 * S, "stop") /\ d[2] = Event(2, "start")
    <2>1. Event(2 * S, "stop") \in Events /\ Event(2, "start") \in Events
      <3>1. 2 * S \in Nat
        BY <1>1
      <3>. QED
        BY <3>1 DEF Event, Events, EventNames
    <2>. QED
      BY <2>1
  <1>7. FirstCalendar = all
    BY DEF FirstCalendar
  <1>. HIDE DEF a, b, c, d, S
  <1>8. /\ ab \in Seq(Events) /\ Len(ab) = s1
        /\ \A i \in 1..s1 : ab[i] = IF i <= S THEN a[i] ELSE b[i - S]
    <2>1. /\ ab \in Seq(Events) /\ Len(ab) = Len(a) + Len(b)
          /\ \A i \in 1..Len(a) + Len(b) :
                ab[i] = IF i <= Len(a) THEN a[i] ELSE b[i - Len(a)]
      BY <1>1, <1>3, <1>5, ConcatProperties
    <2>. HIDE DEF ab
    <2>. QED
      BY <1>1, <1>3, <1>5, <2>1
  <1>9. s1 \in Nat /\ s1 = S + 1
    BY <1>1
  <1>. HIDE DEF ab, s1
  <1>10. /\ abc \in Seq(Events) /\ Len(abc) = s2
         /\ \A i \in 1..s2 : abc[i] = IF i <= s1 THEN ab[i] ELSE c[i - s1]
    <2>1. /\ abc \in Seq(Events) /\ Len(abc) = Len(ab) + Len(c)
          /\ \A i \in 1..Len(ab) + Len(c) :
                abc[i] = IF i <= Len(ab) THEN ab[i] ELSE c[i - Len(ab)]
      BY <1>4, <1>8, <1>9, ConcatProperties
    <2>. HIDE DEF abc
    <2>. QED
      BY <1>4, <1>8, <1>9, <2>1
  <1>11. s2 \in Nat /\ s2 = s1 + S
    BY <1>1, <1>9
  <1>. HIDE DEF abc, s2
  <1>12. /\ all \in Seq(Events) /\ Len(all) = s3
         /\ \A i \in 1..s3 : all[i] = IF i <= s2 THEN abc[i] ELSE d[i - s2]
    <2>1. /\ all \in Seq(Events) /\ Len(all) = Len(abc) + Len(d)
          /\ \A i \in 1..Len(abc) + Len(d) :
                all[i] = IF i <= Len(abc) THEN abc[i] ELSE d[i - Len(abc)]
      BY <1>6, <1>10, <1>11, ConcatProperties
    <2>. HIDE DEF all
    <2>. QED
      BY <1>6, <1>10, <1>11, <2>1
  <1>13. s3 = s2 + 2
    BY <1>11
  <1>. HIDE DEF all, s3
  <1>14. ASSUME NEW i \in 1..s3
         PROVE  all[i] = IF i <= S THEN Event(2 * i, "SizeReset")
                         ELSE IF i = s1 THEN Event(3, "DynamicSocketFitter")
                         ELSE IF i <= s2
                              THEN Event(2 * (i - s1), "ThroughputFinder")
                         ELSE IF i = s2 + 1 THEN Event(2 * S, "stop")
                         ELSE Event(2, "start")
    <2>1. CASE i <= S
      <3>1. i \in 1..s2 /\ i <= s2 /\ i \in 1..s1 /\ i <= s1 /\ i \in 1..S
        BY <1>1, <1>9, <1>11, <1>13, <2>1
      <3>. QED
        BY <1>3, <1>8, <1>10, <1>12, <2>1, <3>1
    <2>2. CASE i = s1
      <3>1. i \in 1..s2 /\ i <= s2 /\ i \in 1..s1 /\ i <= s1 /\ ~(i <= S)
            /\ i - S = 1
        BY <1>1, <1>9, <1>11, <1>13, <2>2
      <3>. QED
        BY <1>5, <1>8, <1>10, <1>12, <2>2, <3>1
    <2>3. CASE ~(i <= s1) /\ i <= s2
      <3>. DEFINE k == i - s1
      <3>1. i \in 1..s2 /\ k \in 1..S /\ ~(i <= S) /\ i # s1
        BY <1>1, <1>9, <1>11, <1>13, <2>3
      <3>2. all[i] = c[k]
        BY <1>10, <1>12, <2>3, <3>1
      <3>. HIDE DEF k
      <3>3. all[i] = Event(2 * k, "ThroughputFinder")
        BY <1>4, <3>1, <3>2
      <3>. QED
        BY <2>3, <3>1, <3>3 DEF k
    <2>4. CASE ~(i <= s2)
      <3>1. i - s2 \in 1..2 /\ ~(i <= S) /\ i # s1
            /\ (i = s2 + 1 <=> i - s2 = 1)
        BY <1>1, <1>9, <1>11, <1>13, <2>4
      <3>2. all[i] = d[i - s2]
        BY <1>12, <2>4
      <3>. QED
        BY <1>6, <2>4, <3>1, <3>2
    <2>. QED
      BY <1>1, <1>9, <1>11, <2>1, <2>2, <2>3, <2>4
  <1>. QED
    BY <1>7, <1>9, <1>11, <1>12, <1>13, <1>14 DEF S

LEMMA FirstInOrder == InOrder(FirstCalendar, Due(0, 0, Preludes))
  <1>. DEFINE S == Seconds
              c == FirstCalendar
              D == Due(0, 0, Preludes)
              s1 == S + 1
              s2 == s1 + S
              s3 == s2 + 2
  <1>1. S \in Nat /\ S > 1
    BY EvaluationAssumption
  <1>2. /\ c \in Seq(Events) /\ Len(c) = s3
        /\ \A i \in 1..s3 :
             c[i] = IF i <= S THEN Event(2 * i, "SizeReset")
                    ELSE IF i = s1 THEN Event(3, "DynamicSocketFitter")
                    ELSE IF i <= s2
                         THEN Event(2 * (i - s1), "ThroughputFinder")
                    ELSE IF i = s2 + 1 THEN Event(2 * S, "stop")
                    ELSE Event(2, "start")
    BY FirstEvents
  <1>3. /\ \A i \in 1..S : Event(2 * i, "SizeReset") \in D
        /\ Event(3, "DynamicSocketFitter") \in D
        /\ \A i \in 1..S : Event(2 * i, "ThroughputFinder") \in D
        /\ Event(2 * S, "stop") \in D
        /\ Event(2, "start") \in D
    BY DEF Due, Preludes
  <1>4. ASSUME NEW e \in D
        PROVE  \/ \E i \in 1..S : e = Event(2 * i, "SizeReset")
               \/ \E i \in 1..S : e = Event(2 * i, "ThroughputFinder")
               \/ e = Event(2 * S, "stop")
               \/ e = Event(2, "start")
               \/ e = Event(3, "DynamicSocketFitter")
    BY DEF Due, Preludes
  <1>. HIDE DEF S, c, D
  <1>5. ASSUME NEW i \in 1..s3
        PROVE  c[i] \in D
    <2>1. CASE i <= S
      <3>1. i \in 1..S
        BY <1>1, <2>1
      <3>. QED
        BY <1>2, <1>3, <2>1, <3>1
    <2>2. CASE ~(i <= S) /\ i # s1 /\ i <= s2
      <3>1. i - s1 \in 1..S
        BY <1>1, <2>2
      <3>2. c[i] = Event(2 * (i - s1), "ThroughputFinder")
        BY <1>2, <2>2
      <3>. QED
        BY <1>3, <3>1, <3>2
    <2>. QED
      BY <1>2, <1>3, <2>1, <2>2
  <1>6. ASSUME NEW e \in D
        PROVE  \E i \in 1..s3 : c[i] = e
    <2>1. ASSUME NEW i \in 1..S, e = Event(2 * i, "SizeReset")
          PROVE  \E j \in 1..s3 : c[j] = e
      <3>1. i \in 1..s3 /\ i <= S
        BY <1>1
      <3>. QED
        BY <1>2, <2>1, <3>1
    <2>2. ASSUME NEW i \in 1..S, e = Event(2 * i, "ThroughputFinder")
          PROVE  \E j \in 1..s3 : c[j] = e
      <3>. DEFINE j == i + s1
      <3>1. j \in 1..s3 /\ ~(j <= S) /\ j # s1 /\ j <= s2 /\ j - s1 = i
        BY <1>1
      <3>. HIDE DEF j, s1, s2, s3
      <3>2. c[j] = e
        BY <1>2, <2>2, <3>1
      <3>. QED
        BY <3>1, <3>2
    <2>3. CASE e = Event(2 * S, "stop")
      <3>. DEFINE j == s2 + 1
      <3>1. j \in 1..s3 /\ ~(j <= S) /\ j # s1 /\ ~(j <= s2)
        BY <1>1
      <3>2. c[j] = e
        BY <1>2, <2>3, <3>1
      <3>. QED
        BY <3>1, <3>2
    <2>4. CASE e = Event(2, "start")
      <3>. DEFINE j == s2 + 2
      <3>1. j \in 1..s3 /\ ~(j <= S) /\ j # s1 /\ ~(j <= s2) /\ j # s2 + 1
        BY <1>1
      <3>2. c[j] = e
        BY <1>2, <2>4, <3>1
      <3>. QED
        BY <3>1, <3>2
    <2>5. CASE e = Event(3, "DynamicSocketFitter")
      <3>1. s1 \in 1..s3 /\ ~(s1 <= S)
        BY <1>1
      <3>2. c[s1] = e
        BY <1>2, <2>5, <3>1
      <3>. QED
        BY <3>1, <3>2
    <2>. QED
      BY <1>4, <2>1, <2>2, <2>3, <2>4, <2>5
  <1>7. ASSUME NEW i \in 1..s3
        PROVE  \/ /\ i <= S /\ c[i].at = 2 * i /\ c[i].what = "SizeReset"
               \/ /\ i = s1 /\ c[i].what = "DynamicSocketFitter"
               \/ /\ ~(i <= s1) /\ i <= s2 /\ c[i].at = 2 * (i - s1)
                  /\ c[i].what = "ThroughputFinder"
               \/ /\ i = s2 + 1 /\ c[i].what = "stop"
               \/ /\ i = s2 + 2 /\ c[i].what = "start"
    <2>1. \/ i <= S
          \/ ~(i <= S) /\ i = s1
          \/ ~(i <= S) /\ i # s1 /\ ~(i <= s1) /\ i <= s2
          \/ ~(i <= S) /\ i # s1 /\ ~(i <= s2) /\ i = s2 + 1
          \/ ~(i <= S) /\ i # s1 /\ ~(i <= s2) /\ i # s2 + 1 /\ i = s2 + 2
      BY <1>1
    <2>. QED
      BY <1>2, <2>1, EventFields
  <1>8. ASSUME NEW i \in 1..s3, NEW j \in 1..s3, c[i] = c[j]
        PROVE  i = j
    <2>1. c[i].at = c[j].at /\ c[i].what = c[j].what
      BY <1>8
    <2>. QED
      BY <1>1, <1>7, <2>1
  <1>9. ASSUME NEW i \in 1..s3, NEW j \in 1..s3, c[i].what = "stop",
               c[j].what \in {"SizeReset", "ThroughputFinder"}
        PROVE  j < i
    <2>1. i = s2 + 1
      BY <1>7, <1>9
    <2>2. j <= S \/ j <= s2
      BY <1>7, <1>9
    <2>. QED
      BY <1>1, <2>1, <2>2
  <1>. QED
    BY <1>2, <1>5, <1>6, <1>8, <1>9 DEF InOrder, c, D

-----------------------------------------------------------------------------
(* The inductive invariant.                                                *)

PhaseType ==
    /\ phase \in {"runfile", "values", "config", "setup", "simulate", "plot",
                  "done", "exit"}
    /\ val \in Nat \cup {EndMark}
    /\ words \in Seq(Nat \cup {EndMark})
    /\ variables \in Seq(Nat)
    /\ enabled \subseteq Kinds
    /\ turn \in 0..Turns
    /\ phase \in {"setup", "simulate", "plot"} => turn > 0
    /\ phase \in {"runfile", "values", "config"} => turn = 0
    /\ kindNo \in 1..Len(GraphOrder)
    /\ phase # "plot" => kindNo = 1
    /\ oldX \in 0..2 * Seconds

CounterType ==
    /\ link \in [bytesOut: Nat, avgQueueLength: Nat, nthSampleInInterval: Nat,
                 listOfQueueLengths: Seq(Nat)]
    /\ sink \in [total: Nat, prevThru: Nat]
    /\ DOMAIN seen = {"transmitted", "bytes", "reports", "delivered",
                      "early", "changes", "percentile"}
    /\ seen.transmitted \in Nat /\ seen.bytes \in Nat /\ seen.reports \in Nat
    /\ seen.delivered \in Nat /\ seen.early \in Nat
    /\ seen.changes \in [SocketKinds -> Seq(Line)]

SimType ==
    /\ socketType \in {"none", "TcpTahoe", "TcpReno"}
    /\ now \in 0..2 * Seconds
    /\ socket \in BOOLEAN /\ hooked \in BOOLEAN
    /\ CounterType

\* Lines are from the time of a simulation.
InTime(file) == \A i \in 1..Len(file) : file[i].at <= 2 * Seconds

FileType(f) ==
    /\ f \in [Kinds -> Seq(Line)]
    /\ \A k \in Kinds : InTime(f[k])

FilesType == \A n \in DOMAIN files : FileType(files[n])

\* Between two simulations nothing is left of one.
AtRest ==
    /\ calendar = <<>> /\ now = 0 /\ socket = FALSE /\ hooked = FALSE
    /\ link = Cleared /\ sink = NewSink /\ seen = NothingYet

\* What is left of the prelude of a simulation.
Left == (IF socket THEN {} ELSE {Event(2, "start")})
          \cup (IF hooked THEN {} ELSE {Event(3, "DynamicSocketFitter")})

\* The calendar has the events that are due; the application has started
\* when SocketStats looks for its socket, and SocketStats is connected from
\* then on.
Timely(h) ==
    /\ seen.reports \in 0..Seconds
    /\ InOrder(calendar, Due(seen.reports, h, Left))
    /\ \A e \in Due(seen.reports, h, Left) : now <= e.at
    /\ hooked => socket
    /\ now >= 3 <=> hooked

\* The first m reports of a simulation.
Lines(run, m) == [i \in 1..m |-> [at |-> 2 * i, run |-> run]]

\* The files have the reports made, and the changes since the connection.
Logged(h) ==
    /\ NameOf(turn) \in DOMAIN files
    /\ \A k \in LinkKinds :
          files[NameOf(turn)][k] = Lines(turn, seen.reports)
    /\ files[NameOf(turn)]["thr"] = Lines(turn, h)
    /\ \A k \in SocketKinds :
          files[NameOf(turn)][k] = seen.changes[k]

Simulating == \E h \in 0..Seconds : Timely(h) /\ Logged(h)

Partition ==
    /\ seen.bytes + link.bytesOut = seen.transmitted
    /\ Len(link.listOfQueueLengths) =
          link.nthSampleInInterval
            + (IF seen.reports = 0 THEN StaleSamples ELSE 0)
    /\ link.avgQueueLength = Sum(link.listOfQueueLengths)
    /\ seen.delivered = sink.prevThru

\* How many simulations are over.
Over == IF phase \in {"setup", "simulate"} THEN turn - 1
        ELSE IF phase \in {"plot", "done"} THEN Turns ELSE 0

\* Of the first n simulations the m-th is the last one that wrote the files
\* of the k-th.
IsWriter(m, k, n) ==
    /\ m \in 1..n /\ NameOf(m) = NameOf(k)
    /\ \A j \in m + 1..n : NameOf(j) # NameOf(k)

Complete(f, run) ==
    \A kind \in LinkKinds \cup {"thr"} : f[kind] = Append(Reports(run), End)

\* The files of the k-th simulation, when n are over.
WrittenBy(k, n) ==
    /\ NameOf(k) \in DOMAIN files
    /\ \E m \in 1..n :
         /\ IsWriter(m, k, n)
         /\ \/ phase = "simulate" /\ NameOf(k) = NameOf(turn)
            \/ Complete(files[NameOf(k)], m)

Written == \A k \in 1..Over : WrittenBy(k, Over)

\* The plot shows the lines of a file.
Shows(plot, lines, each) ==
    /\ Len(plot) = each * Len(lines)
    /\ \A i \in DOMAIN plot :
          /\ plot[i].line = lines[(i + each - 1) \div each]
          /\ plot[i].x = IF i % each = 0 THEN plot[i].line.at
                         ELSE IF i = 1 THEN plot[1].x ELSE plot[i - 1].x

Shown(k, kind) ==
    /\ <<NameOf(k), kind>> \in DOMAIN plots
    /\ Shows(plots[<<NameOf(k), kind>>], LinesOf(files[NameOf(k)][kind]),
             IF kind \in Flattened THEN 2 ELSE 1)

\* The graphs made so far.
Plotted ==
    /\ phase = "plot" =>
         \A k \in 1..turn, kind \in enabled :
            (k < turn \/ \E j \in 1..kindNo - 1 : GraphOrder[j] = kind)
              => Shown(k, kind)
    /\ phase = "done" => \A k \in 1..Turns, kind \in enabled : Shown(k, kind)

RunInv ==
    /\ phase # "simulate" => AtRest
    /\ phase = "simulate" => Simulating /\ Partition

EInv == PhaseType /\ SimType /\ FilesType /\ RunInv /\ Written /\ Plotted

-----------------------------------------------------------------------------
(* Helpers.                                                                *)

LEMMA TurnsNat ==
    ASSUME variables \in Seq(Nat)
    PROVE  Turns \in Nat
  <1>1. Len(TCPs) \in Nat /\ Len(variables) \in Nat
    BY EvaluationAssumption, LenProperties
  <1>2. \A a, b \in Nat : a * b \in Nat
    OBVIOUS
  <1>. QED
    BY <1>1, <1>2 DEF Turns

\* Names do not change once the values are read.
LEMMA NamesKept ==
    ASSUME variables' = variables
    PROVE  /\ Turns' = Turns
           /\ \A k : NameOf(k)' = NameOf(k)
           /\ \A m, k, n : IsWriter(m, k, n)' = IsWriter(m, k, n)
           /\ turn' = turn => NameOf(turn)' = NameOf(turn)
  BY DEF Turns, NameOf, TcpOf, ValueOf, IsWriter

LEMMA LeftOfPreludes == Left \subseteq Preludes
  BY DEF Left, Preludes

LEMMA LinesProperties ==
    ASSUME NEW run \in Nat, NEW m \in Nat
    PROVE  /\ Lines(run, m) \in Seq(Line)
           /\ Len(Lines(run, m)) = m
           /\ Append(Lines(run, m), [at |-> 2 * (m + 1), run |-> run])
                = Lines(run, m + 1)
  <1>. DEFINE a == Lines(run, m)
              b == Lines(run, m + 1)
              x == [at |-> 2 * (m + 1), run |-> run]
              c == Append(a, x)
              e == m + 1
  <1>1. \A i \in Nat : [at |-> 2 * i, run |-> run] \in Line
    BY DEF Line
  <1>2. /\ a \in Seq(Line) /\ Len(a) = m
        /\ \A i \in 1..m : a[i] = [at |-> 2 * i, run |-> run]
    BY <1>1 DEF Lines
  <1>3. /\ b \in Seq(Line) /\ Len(b) = e
        /\ \A i \in 1..e : b[i] = [at |-> 2 * i, run |-> run]
    BY <1>1 DEF Lines
  <1>4. x \in Line /\ e \in Nat /\ e = m + 1
    <2>1. m + 1 \in Nat
      OBVIOUS
    <2>. QED
      BY <1>1, <2>1
  <1>5. \A i \in 1..m : b[i] = a[i]
    BY <1>2, <1>3, <1>4
  <1>6. b[e] = x
    BY <1>3, <1>4
  <1>. HIDE DEF a, b, x
  <1>7. /\ c \in Seq(Line) /\ Len(c) = e
        /\ \A i \in 1..m : c[i] = a[i]
        /\ c[e] = x
    BY <1>2, <1>4, AppendProperties
  <1>. HIDE DEF c
  <1>8. \A i \in 1..e : c[i] = b[i]
    BY <1>4, <1>5, <1>6, <1>7
  <1>9. c = b
    BY <1>3, <1>7, <1>8, SeqEqual
  <1>. QED
    BY <1>2, <1>9 DEF a, b, c, x, e

\* One more line, of a time within the simulation.
LEMMA AppendInTime ==
    ASSUME NEW s \in Seq(Line), InTime(s), NEW x \in Line,
           x.at <= 2 * Seconds
    PROVE  Append(s, x) \in Seq(Line) /\ InTime(Append(s, x))
  <1>. DEFINE t == Append(s, x)
              l == Len(s)
  <1>1. /\ t \in Seq(Line) /\ Len(t) = l + 1 /\ l \in Nat
        /\ \A i \in 1..l : t[i] = s[i]
        /\ t[l + 1] = x
    BY AppendProperties, LenProperties
  <1>2. \A i \in 1..l : s[i].at <= 2 * Seconds
    BY DEF InTime
  <1>. HIDE DEF t, l
  <1>3. ASSUME NEW i \in 1..Len(t)
        PROVE  t[i].at <= 2 * Seconds
    <2>1. i \in 1..l \/ i = l + 1
      BY <1>1
    <2>. QED
      BY <1>1, <1>2, <2>1
  <1>. QED
    BY <1>1, <1>3 DEF InTime, t

\* What Write leaves alone, and what it adds.
LEMMA WriteLines ==
    ASSUME FilesType, turn \in Nat, NameOf(turn) \in DOMAIN files,
           NEW kinds, NEW at \in 0..2 * Seconds, Write(kinds, at)
    PROVE  /\ FilesType'
           /\ DOMAIN files' = DOMAIN files
           /\ \A n \in DOMAIN files : n # NameOf(turn) => files'[n] = files[n]
           /\ \A k \in Kinds :
                files'[NameOf(turn)][k] =
                  IF k \in kinds
                  THEN Append(files[NameOf(turn)][k],
                              [at |-> at, run |-> turn])
                  ELSE files[NameOf(turn)][k]
  <1>. DEFINE N == NameOf(turn)
              x == [at |-> at, run |-> turn]
              f == files[N]
              g == [k \in Kinds |-> IF k \in kinds THEN Append(f[k], x)
                                    ELSE f[k]]
  <1>1. files' = [files EXCEPT ![N] = g]
    BY DEF Write
  <1>2. FileType(f)
    BY DEF FilesType
  <1>3. x \in Line /\ x.at <= 2 * Seconds
    BY EvaluationAssumption DEF Line
  <1>. HIDE DEF x, f, N
  <1>4. ASSUME NEW k \in Kinds
        PROVE  g[k] \in Seq(Line) /\ InTime(g[k])
    <2>1. f[k] \in Seq(Line) /\ InTime(f[k])
      BY <1>2 DEF FileType
    <2>2. Append(f[k], x) \in Seq(Line) /\ InTime(Append(f[k], x))
      BY <1>3, <2>1, AppendInTime
    <2>. QED
      BY <2>1, <2>2
  <1>5. FileType(g)
    BY <1>4 DEF FileType
  <1>6. \A k \in Kinds : g[k] = IF k \in kinds THEN Append(f[k], x) ELSE f[k]
    OBVIOUS
  <1>. HIDE DEF g
  <1>7. /\ DOMAIN files' = DOMAIN files
        /\ \A n \in DOMAIN files : n # N => files'[n] = files[n]
        /\ files'[N] = g
    BY <1>1 DEF N
  <1>8. FilesType'
    BY <1>5, <1>7 DEF FilesType
  <1>. QED
    BY <1>6, <1>7, <1>8 DEF N, x, f

-----------------------------------------------------------------------------
(* The parsers.                                                            *)

LEMMA ReadProperties ==
    ASSUME NEW T, NEW from \in Seq(T), NEW old \in T
    PROVE  Read(from, old) \in T /\ After(from) \in Seq(T)
  <1>1. CASE from = <<>>
    BY <1>1 DEF Read, After
  <1>2. CASE from # <<>>
    <2>1. Head(from) \in T /\ Tail(from) \in Seq(T)
      BY <1>2, HeadTailProperties
    <2>. QED
      BY <1>2, <2>1 DEF Read, After
  <1>. QED
    BY <1>1, <1>2

\* What the steps of the parsers have in common.
Parses ==
    /\ phase \in {"runfile", "values", "config"}
    /\ phase' \in {"values", "config", "setup", "done", "exit"}
    /\ phase' = "setup" => turn' = 1
    /\ phase' = "done" => Turns' = 0
    /\ UNCHANGED <<sim, files, plotting>>

Parsing == NoFile \/ ReadType \/ ReadValue \/ ReadEnd \/ ParseConfigfile

LEMMA ParsingParses ==
    ASSUME PhaseType, Parsing
    PROVE  Parses /\ PhaseType'
  <1>. USE DEF plotting
  <1>1. turn = 0 /\ variables \in Seq(Nat) /\ Turns \in Nat
    BY TurnsNat DEF PhaseType, Parsing, NoFile, ReadType, ReadValue, ReadEnd,
                    ParseConfigfile
  <1>2. CASE NoFile
    <2>1. Turns' = Turns
      BY <1>2, NamesKept DEF NoFile, parsing
    <2>. QED
      BY <1>1, <1>2, <2>1 DEF PhaseType, NoFile, Parses, parsing
  <1>3. CASE ReadType
    <2>1. Turns' = Turns
      BY <1>3, NamesKept DEF ReadType
    <2>2. PICK r \in RunFiles :
             IF r.type \in Types
             THEN /\ phase' = "values"
                  /\ val' = Read(r.words, 0)
                  /\ words' = After(r.words)
             ELSE phase' = "exit" /\ UNCHANGED <<val, words>>
      BY <1>3 DEF ReadType
    <2>3. r.words \in Seq(Nat \cup {EndMark})
      BY EvaluationAssumption
    <2>4. Read(r.words, 0) \in Nat \cup {EndMark}
          /\ After(r.words) \in Seq(Nat \cup {EndMark})
      BY <2>3, ReadProperties
    <2>5. val' \in Nat \cup {EndMark} /\ words' \in Seq(Nat \cup {EndMark})
          /\ phase' \in {"values", "exit"}
      BY <2>2, <2>4 DEF PhaseType
    <2>. QED
      BY <1>1, <1>3, <2>1, <2>5 DEF PhaseType, ReadType, Parses
  <1>4. CASE ReadValue
    <2>1. val \in Nat
      BY <1>4 DEF ReadValue, PhaseType
    <2>2. variables' \in Seq(Nat)
      BY <1>1, <1>4, <2>1, AppendProperties DEF ReadValue
    <2>3. Read(words, val) \in Nat \cup {EndMark}
          /\ After(words) \in Seq(Nat \cup {EndMark})
      BY ReadProperties DEF PhaseType
    <2>4. Turns' \in Nat
      <3>1. Len(TCPs) \in Nat /\ Len(variables') \in Nat
        BY <2>2, EvaluationAssumption, LenProperties
      <3>2. \A a, b \in Nat : a * b \in Nat
        OBVIOUS
      <3>. QED
        BY <3>1, <3>2 DEF Turns
    <2>. QED
      BY <1>1, <1>4, <2>2, <2>3, <2>4 DEF PhaseType, ReadValue, Parses
  <1>5. CASE ReadEnd
    <2>1. Turns' = Turns
      BY <1>5, NamesKept DEF ReadEnd, parsing
    <2>. QED
      BY <1>1, <1>5, <2>1 DEF PhaseType, ReadEnd, Parses, parsing
  <1>6. CASE ParseConfigfile
    <2>1. Turns' = Turns
      BY <1>6, NamesKept DEF ParseConfigfile
    <2>2. enabled' \subseteq Kinds
      BY <1>6, EvaluationAssumption DEF ParseConfigfile
    <2>3. \/ Turns = 0 /\ turn' = 0 /\ phase' = "done"
          \/ Turns # 0 /\ turn' = 1 /\ phase' = "setup"
      BY <1>6 DEF ParseConfigfile, StartLoop
    <2>4. turn' \in 0..Turns' /\ (phase' = "setup" => turn' > 0)
      BY <1>1, <2>1, <2>3
    <2>. QED
      BY <1>1, <1>6, <2>1, <2>2, <2>3, <2>4
         DEF PhaseType, ParseConfigfile, Parses
  <1>. QED
    BY <1>2, <1>3, <1>4, <1>5, <1>6 DEF Parsing

LEMMA ParsingStep ==
    ASSUME EInv, Parsing
    PROVE  EInv'
  <1>1. Parses /\ PhaseType'
    BY ParsingParses DEF EInv
  <1>2. SimType'
    BY <1>1 DEF EInv, SimType, CounterType, Parses, sim
  <1>3. FilesType'
    BY <1>1 DEF EInv, FilesType, Parses
  <1>4. RunInv'
    BY <1>1 DEF EInv, RunInv, AtRest, Parses, sim
  <1>5. Over' = 0
    BY <1>1 DEF Over, Parses
  <1>6. Written'
    BY <1>5 DEF Written
  <1>7. Plotted'
    BY <1>1 DEF Plotted, Parses
  <1>. QED
    BY <1>1, <1>2, <1>3, <1>4, <1>6, <1>7 DEF EInv

-----------------------------------------------------------------------------
(* The start of a simulation.                                              *)

LEMMA EmptyFile == /\ FileType([k \in Kinds |-> <<>>])
                   /\ \A run \in Nat : Lines(run, 0) = <<>>
  <1>1. <<>> \in Seq(Line) /\ Len(<<>>) = 0
    OBVIOUS
  <1>2. InTime(<<>>)
    BY <1>1 DEF InTime
  <1>3. ASSUME NEW run \in Nat
        PROVE  Lines(run, 0) = <<>>
    BY LinesProperties, EmptySeq
  <1>. QED
    BY <1>1, <1>2, <1>3 DEF FileType

LEMMA SetUpStep ==
    ASSUME EInv, SetUp
    PROVE  EInv'
  <1>. DEFINE N == NameOf(turn)
              f == [k \in Kinds |-> <<>>]
  <1>1. /\ phase = "setup" /\ phase' = "simulate"
        /\ variables' = variables /\ turn' = turn
        /\ turn \in 1..Turns /\ Turns \in Nat
    BY TurnsNat DEF SetUp, parsing, EInv, PhaseType
  <1>2. /\ Turns' = Turns
        /\ \A k : NameOf(k)' = NameOf(k)
        /\ \A m, k, n : IsWriter(m, k, n)' = IsWriter(m, k, n)
        /\ NameOf(turn)' = N
    BY <1>1, NamesKept
  <1>3. /\ calendar = <<>> /\ now = 0 /\ socket = FALSE /\ hooked = FALSE
        /\ link = Cleared /\ sink = NewSink /\ seen = NothingYet
    BY <1>1 DEF EInv, RunInv, AtRest
  <1>4. PhaseType'
    BY <1>1, <1>2 DEF EInv, PhaseType, SetUp, parsing, plotting
  <1>. DEFINE zeros == [i \in 1..StaleSamples |-> 0]
  <1>5. /\ zeros \in Seq(Nat) /\ Len(zeros) = StaleSamples /\ Sum(zeros) = 0
        /\ StaleSamples \in Nat
    BY SumZeros, EvaluationAssumption
  <1>. HIDE DEF zeros
  <1>6. link' = [bytesOut |-> 0, avgQueueLength |-> 0,
                 nthSampleInInterval |-> 0, listOfQueueLengths |-> zeros]
    BY DEF SetUp, Cleared, zeros
  <1>7. SimType'
    <2>1. link' \in [bytesOut: Nat, avgQueueLength: Nat,
                     nthSampleInInterval: Nat, listOfQueueLengths: Seq(Nat)]
      BY <1>5, <1>6
    <2>2. CounterType'
      BY <2>1 DEF SetUp, EInv, SimType, CounterType
    <2>3. socketType' \in {"none", "TcpTahoe", "TcpReno"}
      BY DEF SetUp, GetTcpTypeId
    <2>4. now' \in 0..2 * Seconds
      BY EvaluationAssumption DEF SetUp
    <2>. QED
      BY <2>2, <2>3, <2>4 DEF SetUp, EInv, SimType
  <1>8. /\ files' = Put(files, N, f)
        /\ DOMAIN files' = DOMAIN files \cup {N}
        /\ files'[N] = f
        /\ \A n \in DOMAIN files : n # N => files'[n] = files[n]
    <2>1. files' = Put(files, N, f)
      BY DEF SetUp, FreshFiles
    <2>. HIDE DEF N, f
    <2>. QED
      BY <2>1 DEF Put
  <1>9. FilesType'
    BY <1>8, EmptyFile DEF EInv, FilesType
  <1>10. seen' = NothingYet /\ seen'.reports = 0
         /\ \A k \in SocketKinds : seen'.changes[k] = <<>>
    BY <1>3 DEF SetUp, NothingYet
  <1>11. Timely(0)'
    <2>1. InOrder(calendar', Due(0, 0, Preludes))
      BY FirstInOrder DEF SetUp
    <2>2. seen'.reports = 0 /\ socket' = FALSE /\ hooked' = FALSE /\ now' = 0
      BY <1>3, <1>10 DEF SetUp
    <2>3. 0 \in 0..Seconds
      BY EvaluationAssumption
    <2>4. ASSUME NEW e \in Due(0, 0, Preludes)
          PROVE  0 <= e.at
      <3>1. e.at \in 0..2 * Seconds
        BY <2>3, DueInTime DEF Preludes
      <3>. QED
        BY <3>1
    <2>5. /\ seen'.reports \in 0..Seconds
          /\ InOrder(calendar', Due(seen'.reports, 0, Left'))
          /\ \A e \in Due(seen'.reports, 0, Left') : now' <= e.at
          /\ ~ hooked' /\ ~ (now' >= 3)
      <3>1. Due(seen'.reports, 0, Left')
              = Due(0, 0, Preludes)
        BY <2>2 DEF Left, Preludes
      <3>2. ~ hooked' /\ ~ (now' >= 3) /\ seen'.reports \in 0..Seconds
        BY <2>2, <2>3
      <3>3. \A e \in Due(0, 0, Preludes) : now' <= e.at
        BY <2>2, <2>4
      <3>. QED
        BY <2>1, <3>1, <3>2, <3>3
    <2>. QED
      BY <2>5 DEF Timely
  <1>12. Logged(0)'
    <2>1. Lines(turn, 0) = <<>> /\ Len(<<>>) = 0
      BY <1>1, EmptyFile
    <2>2. \A k \in Kinds : f[k] = <<>>
      OBVIOUS
    <2>3. N \in DOMAIN files' /\ files'[N] = f
      BY <1>8
    <2>. HIDE DEF f, N
    <2>. QED
      BY <1>1, <1>2, <1>10, <2>1, <2>2, <2>3
         DEF Logged, Kinds, LinkKinds, SocketKinds
  <1>13. Partition'
    <2>1. /\ link'.bytesOut = 0 /\ link'.avgQueueLength = 0
          /\ link'.nthSampleInInterval = 0 /\ link'.listOfQueueLengths = zeros
      BY <1>6
    <2>2. /\ seen'.bytes = 0 /\ seen'.transmitted = 0 /\ seen'.delivered = 0
          /\ sink'.prevThru = 0
      BY <1>3 DEF SetUp, NothingYet, NewSink
    <2>. QED
      BY <1>5, <1>10, <2>1, <2>2 DEF Partition
  <1>14. RunInv'
    <2>1. Simulating'
      BY <1>11, <1>12, EvaluationAssumption DEF Simulating
    <2>. QED
      BY <1>1, <1>13, <2>1 DEF RunInv
  <1>15. Over' = Over
    BY <1>1 DEF Over
  <1>16. ASSUME NEW k \in 1..Over
         PROVE  WrittenBy(k, Over)'
    <2>1. WrittenBy(k, Over)
      BY DEF EInv, Written
    <2>2. PICK m \in 1..Over : IsWriter(m, k, Over)
                               /\ Complete(files[NameOf(k)], m)
      BY <1>1, <2>1 DEF WrittenBy
    <2>3. NameOf(k) \in DOMAIN files'
      BY <1>8, <2>1 DEF WrittenBy
    <2>4. NameOf(k) = N \/ files'[NameOf(k)] = files[NameOf(k)]
      BY <1>8, <2>1 DEF WrittenBy
    <2>5. CASE NameOf(k) = N
      BY <1>1, <1>2, <1>15, <2>2, <2>3, <2>5 DEF WrittenBy
    <2>6. CASE files'[NameOf(k)] = files[NameOf(k)]
      <3>1. Complete(files'[NameOf(k)], m)
        BY <2>2, <2>6
      <3>. QED
        BY <1>2, <1>15, <2>2, <2>3, <3>1 DEF WrittenBy, Complete, Reports
    <2>. QED
      BY <2>4, <2>5, <2>6
  <1>17. Written'
    BY <1>15, <1>16 DEF Written
  <1>18. Plotted'
    BY <1>1 DEF Plotted
  <1>. QED
    BY <1>4, <1>7, <1>9, <1>14, <1>17, <1>18 DEF EInv

-----------------------------------------------------------------------------
(* The steps of a simulation.                                              *)

\* What the steps of a simulation, but for the last one, have in common.
Simulates ==
    /\ phase = "simulate"
    /\ UNCHANGED <<phase, parsing, turn, plotting>>
    /\ DOMAIN files' = DOMAIN files
    /\ \A n \in DOMAIN files : n # NameOf(turn) => files'[n] = files[n]

\* They leave the files and graphs of the simulations that are over.
LEMMA SimulatesKeeps ==
    ASSUME EInv, Simulates, SimType', FilesType', Simulating', Partition'
    PROVE  EInv'
  <1>1. /\ phase = "simulate" /\ phase' = "simulate"
        /\ variables' = variables /\ turn' = turn
    BY DEF Simulates, parsing
  <1>2. /\ Turns' = Turns
        /\ \A k : NameOf(k)' = NameOf(k)
        /\ NameOf(turn)' = NameOf(turn)
    BY <1>1, NamesKept
  <1>3. PhaseType'
    BY <1>1, <1>2 DEF EInv, PhaseType, Simulates, parsing, plotting
  <1>4. RunInv'
    BY <1>1 DEF RunInv
  <1>5. Over' = Over
    BY <1>1 DEF Over
  <1>6. ASSUME NEW k \in 1..Over
        PROVE  WrittenBy(k, Over)'
    <2>1. NameOf(k) \in DOMAIN files /\ NameOf(k) \in DOMAIN files'
      BY DEF EInv, Written, WrittenBy, Simulates
    <2>2. PICK m \in 1..Over :
             /\ IsWriter(m, k, Over)
             /\ NameOf(k) = NameOf(turn) \/ Complete(files[NameOf(k)], m)
      BY DEF EInv, Written, WrittenBy
    <2>3. NameOf(k) = NameOf(turn) \/ Complete(files'[NameOf(k)], m)
      BY <2>1, <2>2 DEF Simulates
    <2>. QED
      BY <1>1, <1>2, <1>5, <2>1, <2>2, <2>3
         DEF WrittenBy, Complete, Reports, IsWriter
  <1>7. Written'
    BY <1>5, <1>6 DEF Written
  <1>8. Plotted'
    BY <1>1 DEF Plotted
  <1>. QED
    BY <1>3, <1>4, <1>7, <1>8 DEF EInv

\* Of the network.
LEMMA NetworkStep ==
    ASSUME EInv, ForwardElsewhere \/ ForwardToBottleneck \/ Deliver
    PROVE  EInv'
  <1>. USE DEF parsing, plotting
  <1>1. /\ phase = "simulate"
        /\ UNCHANGED <<phase, parsing, turn, socketType, calendar, now, socket,
                       hooked, files, plotting>>
    BY DEF ForwardElsewhere, ForwardToBottleneck, Transmits, Deliver
  <1>2. Simulates
    BY <1>1 DEF Simulates
  <1>3. FilesType'
    BY <1>1 DEF EInv, FilesType
  <1>4. Partition /\ CounterType
    BY <1>1 DEF EInv, RunInv, SimType
  <1>5. /\ Partition' /\ CounterType'
        /\ seen'.reports = seen.reports /\ seen'.changes = seen.changes
    <2>1. CASE ForwardElsewhere
      <3>1. /\ link' = [link EXCEPT !.bytesOut = @ + 1]
            /\ seen' = [seen EXCEPT !.transmitted = @ + 1]
            /\ sink' = sink
        BY <2>1 DEF ForwardElsewhere, Transmits
      <3>2. /\ link'.bytesOut = link.bytesOut + 1
            /\ link'.avgQueueLength = link.avgQueueLength
            /\ link'.nthSampleInInterval = link.nthSampleInInterval
            /\ link'.listOfQueueLengths = link.listOfQueueLengths
            /\ link' \in [bytesOut: Nat, avgQueueLength: Nat,
                          nthSampleInInterval: Nat,
                          listOfQueueLengths: Seq(Nat)]
        <4>. DEFINE n == link.bytesOut + 1
        <4>1. n \in Nat
          BY <1>4 DEF CounterType
        <4>2. link' = [link EXCEPT !.bytesOut = n] /\ n = link.bytesOut + 1
          BY <1>4, <3>1 DEF CounterType
        <4>. HIDE DEF n
        <4>. QED
          BY <1>4, <4>1, <4>2 DEF CounterType
      <3>3. /\ seen'.transmitted = seen.transmitted + 1
            /\ seen'.reports = seen.reports /\ seen'.changes = seen.changes
            /\ seen'.bytes = seen.bytes /\ seen'.delivered = seen.delivered
            /\ seen'.early = seen.early /\ DOMAIN seen' = DOMAIN seen
        BY <1>4, <3>1 DEF CounterType
      <3>4. CounterType'
        BY <1>4, <3>1, <3>2, <3>3 DEF CounterType
      <3>5. Partition'
        <4>1. seen'.bytes + link'.bytesOut = seen'.transmitted
          BY <1>4, <3>2, <3>3 DEF Partition, CounterType
        <4>. QED
          BY <1>4, <3>1, <3>2, <3>3, <4>1 DEF Partition
      <3>. QED
        BY <3>3, <3>4, <3>5
    <2>2. CASE ForwardToBottleneck
      <3>1. PICK length \in 0..MaxQueue :
              link' = [bytesOut |-> link.bytesOut + 1,
                       avgQueueLength |-> link.avgQueueLength + length,
                       nthSampleInInterval |-> link.nthSampleInInterval + 1,
                       listOfQueueLengths |->
                           Append(link.listOfQueueLengths, length)]
        BY <2>2 DEF ForwardToBottleneck
      <3>2. /\ seen' = [seen EXCEPT !.transmitted = @ + 1]
            /\ sink' = sink
        BY <2>2 DEF ForwardToBottleneck, Transmits
      <3>. DEFINE list == link.listOfQueueLengths
                  more == Append(list, length)
      <3>3. length \in Nat /\ list \in Seq(Nat)
        BY <1>4, EvaluationAssumption DEF CounterType
      <3>4. more \in Seq(Nat) /\ Len(more) = Len(list) + 1
            /\ Sum(more) = Sum(list) + length /\ Len(list) \in Nat
        BY <3>3, SumAppend, AppendProperties, LenProperties
      <3>. HIDE DEF list, more
      <3>5. link' = [bytesOut |-> link.bytesOut + 1,
                     avgQueueLength |-> link.avgQueueLength + length,
                     nthSampleInInterval |-> link.nthSampleInInterval + 1,
                     listOfQueueLengths |-> more]
        BY <3>1 DEF list, more
      <3>6. CounterType'
        <4>1. link' \in [bytesOut: Nat, avgQueueLength: Nat,
                         nthSampleInInterval: Nat,
                         listOfQueueLengths: Seq(Nat)]
          <5>. DEFINE a == link.bytesOut + 1
                      b == link.avgQueueLength + length
                      c == link.nthSampleInInterval + 1
          <5>1. a \in Nat /\ b \in Nat /\ c \in Nat
            BY <1>4, <3>3 DEF CounterType
          <5>. HIDE DEF a, b, c
          <5>2. link' = [bytesOut |-> a, avgQueueLength |-> b,
                         nthSampleInInterval |-> c,
                         listOfQueueLengths |-> more]
            BY <3>5 DEF a, b, c
          <5>. QED
            BY <3>4, <5>1, <5>2
        <4>2. /\ seen'.transmitted = seen.transmitted + 1
              /\ seen'.reports = seen.reports /\ seen'.changes = seen.changes
              /\ seen'.bytes = seen.bytes /\ seen'.delivered = seen.delivered
              /\ seen'.early = seen.early /\ DOMAIN seen' = DOMAIN seen
          BY <1>4, <3>2 DEF CounterType
        <4>. QED
          BY <1>4, <3>2, <4>1, <4>2 DEF CounterType
      <3>7. seen'.reports = seen.reports /\ seen'.changes = seen.changes
            /\ seen'.bytes = seen.bytes /\ seen'.delivered = seen.delivered
            /\ seen'.transmitted = seen.transmitted + 1
        BY <1>4, <3>2 DEF CounterType
      <3>8. Partition'
        <4>1. /\ link'.bytesOut = link.bytesOut + 1
              /\ link'.avgQueueLength = link.avgQueueLength + length
              /\ link'.nthSampleInInterval = link.nthSampleInInterval + 1
              /\ link'.listOfQueueLengths = more
          BY <3>5
        <4>2. /\ seen.bytes + link.bytesOut = seen.transmitted
              /\ Len(list) = link.nthSampleInInterval
                    + (IF seen.reports = 0 THEN StaleSamples ELSE 0)
              /\ link.avgQueueLength = Sum(list)
              /\ seen.delivered = sink.prevThru
          BY <1>4 DEF Partition, list
        <4>3. seen'.bytes + link'.bytesOut = seen'.transmitted
          BY <1>4, <3>7, <4>1, <4>2 DEF CounterType
        <4>4. Len(more) = link'.nthSampleInInterval
                    + (IF seen.reports = 0 THEN StaleSamples ELSE 0)
          <5>1. StaleSamples \in Nat
            BY EvaluationAssumption
          <5>2. link.nthSampleInInterval \in Nat
            BY <1>4 DEF CounterType
          <5>3. CASE seen.reports = 0
            BY <3>4, <4>1, <4>2, <5>1, <5>2, <5>3
          <5>4. CASE seen.reports # 0
            BY <3>4, <4>1, <4>2, <5>2, <5>4
          <5>. QED
            BY <5>3, <5>4
        <4>5. link'.avgQueueLength = Sum(more)
          BY <3>4, <4>1, <4>2
        <4>. QED
          BY <3>2, <3>7, <4>1, <4>2, <4>3, <4>4, <4>5 DEF Partition
      <3>. QED
        BY <3>6, <3>7, <3>8
    <2>3. CASE Deliver
      <3>1. /\ sink' = [sink EXCEPT !.total = @ + 1]
            /\ link' = link /\ seen' = seen
        BY <2>3 DEF Deliver
      <3>2. sink' \in [total: Nat, prevThru: Nat]
            /\ sink'.prevThru = sink.prevThru
        BY <1>4, <3>1 DEF CounterType
      <3>. QED
        BY <1>4, <3>1, <3>2 DEF Partition, CounterType
    <2>. QED
      BY <2>1, <2>2, <2>3
  <1>6. SimType'
    BY <1>1, <1>5 DEF EInv, SimType
  <1>7. Simulating'
    <2>1. PICK h \in 0..Seconds : Timely(h) /\ Logged(h)
      BY <1>1 DEF EInv, RunInv, Simulating
    <2>2. Timely(h)'
      BY <1>1, <1>5, <2>1 DEF Timely, Left
    <2>3. NameOf(turn)' = NameOf(turn)
      BY <1>1, NamesKept
    <2>4. Logged(h)'
      BY <1>1, <1>5, <2>1, <2>3 DEF Logged
    <2>. QED
      BY <2>2, <2>4 DEF Simulating
  <1>. QED
    BY <1>2, <1>3, <1>5, <1>6, <1>7, SimulatesKeeps

\* Of a socket, which SocketStats logs.
LEMMA ChangeStep ==
    ASSUME EInv, NEW s \in SocketKinds, Change(s)
    PROVE  EInv'
  <1>. DEFINE N == NameOf(turn)
              x == [at |-> now, run |-> turn]
  <1>1. /\ phase = "simulate"
        /\ UNCHANGED <<phase, parsing, turn, socketType, calendar, now, socket,
                       hooked, link, sink, plotting>>
        /\ \/ now < 3 /\ seen' = [seen EXCEPT !.early = @ + 1]
           \/ now >= 3 /\ seen' = [seen EXCEPT !.changes[s] = Append(@, x)]
        /\ IF hooked THEN Write({s}, now) ELSE UNCHANGED files
    BY DEF Change
  <1>2. PICK h \in 0..Seconds : Timely(h) /\ Logged(h)
    BY <1>1 DEF EInv, RunInv, Simulating
  <1>3. turn \in Nat /\ N \in DOMAIN files /\ now \in 0..2 * Seconds
        /\ FilesType /\ CounterType /\ Partition
    <2>1. turn \in Nat
      BY TurnsNat DEF EInv, PhaseType
    <2>. QED
      BY <1>1, <1>2, <2>1 DEF EInv, RunInv, SimType, Logged
  <1>4. x \in Line
    BY <1>3, EvaluationAssumption DEF Line
  <1>5. N' = N /\ turn' = turn
    BY <1>1, NamesKept DEF parsing
  <1>. HIDE DEF x
  <1>6. /\ FilesType'
        /\ DOMAIN files' = DOMAIN files
        /\ \A n \in DOMAIN files : n # N => files'[n] = files[n]
        /\ \A k \in LinkKinds \cup {"thr"} : files'[N][k] = files[N][k]
        /\ \A k \in SocketKinds : files'[N][k] = seen'.changes[k]
        /\ seen'.transmitted = seen.transmitted /\ seen'.bytes = seen.bytes
        /\ seen'.reports = seen.reports /\ seen'.delivered = seen.delivered
        /\ DOMAIN seen' = DOMAIN seen
        /\ CounterType'
    <2>1. CASE now < 3
      <3>1. ~ hooked /\ ~ (now >= 3)
        BY <1>2, <1>3, <2>1 DEF Timely
      <3>2. files' = files /\ seen' = [seen EXCEPT !.early = @ + 1]
        BY <1>1, <3>1
      <3>3. /\ seen'.early = seen.early + 1 /\ seen'.changes = seen.changes
            /\ seen'.transmitted = seen.transmitted
            /\ seen'.bytes = seen.bytes /\ seen'.reports = seen.reports
            /\ seen'.delivered = seen.delivered /\ DOMAIN seen' = DOMAIN seen
        BY <1>3, <3>2 DEF CounterType
      <3>4. CounterType'
        BY <1>1, <1>3, <3>3 DEF CounterType
      <3>5. \A k \in SocketKinds : files[N][k] = seen.changes[k]
        BY <1>2 DEF Logged
      <3>6. FilesType'
        BY <1>3, <3>2 DEF FilesType
      <3>. HIDE DEF N
      <3>. QED
        BY <3>2, <3>3, <3>4, <3>5, <3>6
    <2>2. CASE now >= 3
      <3>1. hooked /\ ~ (now < 3)
        BY <1>2, <1>3, <2>2 DEF Timely
      <3>2. /\ Write({s}, now)
            /\ seen' = [seen EXCEPT !.changes[s] = Append(@, x)]
        BY <1>1, <3>1
      <3>3. /\ FilesType'
            /\ DOMAIN files' = DOMAIN files
            /\ \A n \in DOMAIN files : n # N => files'[n] = files[n]
            /\ \A k \in Kinds :
                  files'[N][k] = IF k \in {s} THEN Append(files[N][k], x)
                                 ELSE files[N][k]
        BY <1>3, <3>2, WriteLines DEF x
      <3>4. /\ seen'.changes = [seen.changes EXCEPT ![s] = Append(@, x)]
            /\ seen'.early = seen.early
            /\ seen'.transmitted = seen.transmitted
            /\ seen'.bytes = seen.bytes /\ seen'.reports = seen.reports
            /\ seen'.delivered = seen.delivered /\ DOMAIN seen' = DOMAIN seen
        BY <1>3, <3>2 DEF CounterType
      <3>5. CounterType'
        <4>1. seen.changes[s] \in Seq(Line)
          BY <1>3 DEF CounterType
        <4>2. Append(seen.changes[s], x) \in Seq(Line)
          BY <1>4, <4>1, AppendProperties
        <4>3. seen'.changes \in [SocketKinds -> Seq(Line)]
          BY <1>3, <3>4, <4>2 DEF CounterType
        <4>. QED
          BY <1>1, <1>3, <3>4, <4>3 DEF CounterType
      <3>6. \A k \in LinkKinds \cup {"thr"} : k \in Kinds /\ k \notin {s}
        BY DEF Kinds, LinkKinds, SocketKinds
      <3>7. \A k \in SocketKinds : files[N][k] = seen.changes[k]
        BY <1>2 DEF Logged
      <3>8. ASSUME NEW k \in SocketKinds
            PROVE  files'[N][k] = seen'.changes[k]
        <4>. HIDE DEF N
        <4>1. k \in Kinds /\ files[N][k] = seen.changes[k]
          BY <3>7 DEF Kinds
        <4>2. seen'.changes[k] = IF k = s THEN Append(seen.changes[k], x)
                                 ELSE seen.changes[k]
          BY <1>3, <3>4 DEF CounterType
        <4>3. files'[N][k] = IF k = s THEN Append(files[N][k], x)
                             ELSE files[N][k]
          BY <3>3, <4>1
        <4>. QED
          BY <4>1, <4>2, <4>3
      <3>. HIDE DEF N
      <3>. QED
        BY <3>3, <3>4, <3>5, <3>6, <3>8
    <2>. QED
      BY <1>3, <2>1, <2>2
  <1>7. Simulates
    BY <1>1, <1>6 DEF Simulates
  <1>8. SimType'
    BY <1>1, <1>6 DEF EInv, SimType
  <1>9. Partition'
    BY <1>1, <1>3, <1>6 DEF Partition
  <1>10. Timely(h)'
    BY <1>1, <1>2, <1>6 DEF Timely, Left
  <1>11. Logged(h)'
    BY <1>2, <1>3, <1>5, <1>6 DEF Logged
  <1>12. Simulating'
    BY <1>10, <1>11 DEF Simulating
  <1>. QED
    BY <1>6, <1>7, <1>8, <1>9, <1>12, SimulatesKeeps

\* The application starts, and has its socket.
LEMMA StartStep ==
    ASSUME EInv, StartApplication
    PROVE  EInv'
  <1>1. /\ phase = "simulate" /\ Runs("start") /\ socket' = TRUE
        /\ UNCHANGED <<phase, parsing, turn, socketType, hooked, link, sink,
                       seen, files, plotting>>
    BY DEF StartApplication, Runs
  <1>2. PICK h \in 0..Seconds : Timely(h) /\ Logged(h)
    BY <1>1 DEF EInv, RunInv, Simulating
  <1>. DEFINE r == seen.reports
              D == Due(r, h, Left)
  <1>3. r \in 0..Seconds /\ InOrder(calendar, D)
        /\ socket \in BOOLEAN /\ hooked \in BOOLEAN
    BY <1>2 DEF Timely, EInv, SimType
  <1>4. PICK e \in D : /\ e.what = "start" /\ now' = e.at
                       /\ \A d \in D : e.at <= d.at
                       /\ InOrder(calendar', D \ {e})
    BY <1>1, <1>3, RunsEvent
  <1>5. e \in Left /\ D \ {e} = Due(r, h, Left \ {e})
    BY <1>3, <1>4, LeftOfPreludes, DuePrelude
  <1>6. /\ e = Event(2, "start") /\ e.at = 2
        /\ e # Event(3, "DynamicSocketFitter")
    BY <1>4, <1>5, EventFields DEF Left
  <1>7. Left' = Left \ {e} /\ ~ hooked
    <2>1. Left' = Left \ {e}
      BY <1>1, <1>6 DEF Left
    <2>2. ~ socket
      BY <1>5, <1>6 DEF Left
    <2>. QED
      BY <1>2, <2>1, <2>2 DEF Timely
  <1>8. Timely(h)'
    <2>1. seen'.reports = r /\ now' = 2 /\ ~ hooked'
      BY <1>1, <1>4, <1>6, <1>7
    <2>2. (\A d \in Due(r, h, Left') : now' <= d.at)
          /\ InOrder(calendar', Due(r, h, Left'))
      BY <1>4, <1>5, <1>7
    <2>3. ~ (now' >= 3)
      BY <2>1
    <2>. HIDE DEF D, r
    <2>. QED
      BY <1>3, <2>1, <2>2, <2>3 DEF Timely
  <1>9. Logged(h)'
    <2>1. NameOf(turn)' = NameOf(turn)
      BY <1>1, NamesKept DEF parsing
    <2>. QED
      BY <1>1, <1>2, <2>1 DEF Logged
  <1>10. Simulating'
    BY <1>8, <1>9 DEF Simulating
  <1>11. SimType'
    <2>1. now' \in 0..2 * Seconds
      BY <1>3, <1>4, DueInTime, LeftOfPreludes
    <2>. QED
      BY <1>1, <2>1 DEF EInv, SimType, CounterType
  <1>12. FilesType' /\ Partition'
    BY <1>1 DEF EInv, RunInv, FilesType, Partition
  <1>13. Simulates
    BY <1>1 DEF Simulates
  <1>. QED
    BY <1>10, <1>11, <1>12, <1>13, SimulatesKeeps

\* SocketStats finds the socket: the application has started a moment ago.
LEMMA FitterStep ==
    ASSUME EInv, DynamicSocketFitter
    PROVE  EInv'
  <1>1. /\ phase = "simulate" /\ Runs("DynamicSocketFitter")
        /\ hooked' = socket
        /\ UNCHANGED <<phase, parsing, turn, socketType, socket, link, sink,
                       seen, files, plotting>>
    BY DEF DynamicSocketFitter, Runs
  <1>2. PICK h \in 0..Seconds : Timely(h) /\ Logged(h)
    BY <1>1 DEF EInv, RunInv, Simulating
  <1>. DEFINE r == seen.reports
              D == Due(r, h, Left)
  <1>3. r \in 0..Seconds /\ InOrder(calendar, D)
        /\ socket \in BOOLEAN /\ hooked \in BOOLEAN
    BY <1>2 DEF Timely, EInv, SimType
  <1>4. PICK e \in D : /\ e.what = "DynamicSocketFitter" /\ now' = e.at
                       /\ \A d \in D : e.at <= d.at
                       /\ InOrder(calendar', D \ {e})
    BY <1>1, <1>3, RunsEvent
  <1>5. e \in Left /\ D \ {e} = Due(r, h, Left \ {e})
    BY <1>3, <1>4, LeftOfPreludes, DuePrelude
  <1>6. /\ e = Event(3, "DynamicSocketFitter") /\ e.at = 3
        /\ e # Event(2, "start")
    BY <1>4, <1>5, EventFields DEF Left
  <1>7. socket = TRUE
    <2>1. ASSUME socket = FALSE
          PROVE  FALSE
      <3>1. Event(2, "start") \in D
        BY <2>1 DEF Due, Left
      <3>2. 3 <= 2
        BY <1>4, <1>6, <3>1, EventFields
      <3>. QED
        BY <3>2
    <2>. QED
      BY <1>3, <2>1
  <1>8. hooked' = TRUE /\ socket' = TRUE /\ Left' = Left \ {e}
    BY <1>1, <1>6, <1>7 DEF Left
  <1>9. Timely(h)'
    <2>1. seen'.reports = r /\ now' >= 3
      BY <1>1, <1>4, <1>6
    <2>2. (\A d \in Due(r, h, Left') : now' <= d.at)
          /\ InOrder(calendar', Due(r, h, Left'))
      BY <1>4, <1>5, <1>8
    <2>. HIDE DEF D, r
    <2>. QED
      BY <1>3, <1>8, <2>1, <2>2 DEF Timely
  <1>10. Logged(h)'
    <2>1. NameOf(turn)' = NameOf(turn)
      BY <1>1, NamesKept DEF parsing
    <2>. QED
      BY <1>1, <1>2, <2>1 DEF Logged
  <1>11. Simulating'
    BY <1>9, <1>10 DEF Simulating
  <1>12. SimType'
    <2>1. now' \in 0..2 * Seconds
      BY <1>3, <1>4, DueInTime, LeftOfPreludes
    <2>. QED
      BY <1>1, <1>8, <2>1 DEF EInv, SimType, CounterType
  <1>13. FilesType' /\ Partition'
    BY <1>1 DEF EInv, RunInv, FilesType, Partition
  <1>14. Simulates
    BY <1>1 DEF Simulates
  <1>. QED
    BY <1>11, <1>12, <1>13, <1>14, SimulatesKeeps

\* A report of either kind comes behind the one of SocketStats, or before
\* it and not behind 1.000001 s.
LEMMA ReportInTime ==
    ASSUME NEW r \in 0..Seconds, NEW h \in 0..Seconds,
           hooked \in BOOLEAN, now \in Nat,
           now >= 3 <=> hooked,
           NEW i \in Nat, now <= 2 * i,
           \A d \in Due(r, h, Left) : 2 * i <= d.at
    PROVE  2 * i >= 3 <=> hooked
  <1>1. ASSUME hooked = FALSE, 2 * i >= 3
        PROVE  FALSE
    <2>1. Event(3, "DynamicSocketFitter") \in Due(r, h, Left)
      BY <1>1 DEF Due, Left
    <2>2. 2 * i <= 3
      BY <2>1, EventFields
    <2>. QED
      BY <1>1, <2>2
  <1>2. ASSUME hooked
        PROVE  2 * i >= 3
    BY <1>2
  <1>. QED
    BY <1>1, <1>2

LEMMA SizeResetStep ==
    ASSUME EInv, SizeReset
    PROVE  EInv'
  <1>. DEFINE N == NameOf(turn)
              r == seen.reports
  <1>1. /\ phase = "simulate" /\ Runs("SizeReset")
        /\ Write(LinkKinds, now')
        /\ link' = Cleared
        /\ seen' = [seen EXCEPT !.bytes = @ + link.bytesOut,
                          !.reports = @ + 1,
                          !.percentile = Percentile(link.listOfQueueLengths)]
        /\ UNCHANGED <<phase, parsing, turn, socketType, socket, hooked, sink,
                       plotting>>
    BY DEF SizeReset, Runs, ClearedAfter
  <1>2. PICK h \in 0..Seconds : Timely(h) /\ Logged(h)
    BY <1>1 DEF EInv, RunInv, Simulating
  <1>. DEFINE D == Due(r, h, Left)
  <1>3. r \in 0..Seconds /\ socket \in BOOLEAN /\ hooked \in BOOLEAN
        /\ InOrder(calendar, D) /\ (hooked => socket) /\ Left' = Left
    BY <1>1, <1>2 DEF Timely, EInv, SimType, Left
  <1>4. PICK e \in D : /\ e.what = "SizeReset" /\ now' = e.at
                       /\ \A d \in D : e.at <= d.at
                       /\ InOrder(calendar', D \ {e})
    BY <1>1, <1>3, RunsEvent
  <1>5. /\ r + 1 \in 0..Seconds /\ e.at = 2 * (r + 1)
        /\ D \ {e} = Due(r + 1, h, Left)
    BY <1>3, <1>4, DueReset, LeftOfPreludes
  <1>6. e.at \in 0..2 * Seconds
    BY <1>3, <1>4, DueInTime, LeftOfPreludes
  <1>7. turn \in Nat /\ N \in DOMAIN files
        /\ FilesType /\ CounterType /\ Partition
    <2>1. turn \in Nat
      BY TurnsNat DEF EInv, PhaseType
    <2>. QED
      BY <1>1, <1>2, <2>1 DEF EInv, RunInv, SimType, Logged
  <1>8. /\ FilesType'
        /\ DOMAIN files' = DOMAIN files
        /\ \A n \in DOMAIN files : n # N => files'[n] = files[n]
        /\ \A k \in Kinds :
              files'[N][k] =
                IF k \in LinkKinds
                THEN Append(files[N][k], [at |-> e.at, run |-> turn])
                ELSE files[N][k]
    <2>1. Write(LinkKinds, e.at)
      BY <1>1, <1>4
    <2>. QED
      BY <1>6, <1>7, <2>1, WriteLines
  <1>9. Simulates
    BY <1>1, <1>8 DEF Simulates
  <1>10. /\ seen'.bytes = seen.bytes + link.bytesOut
         /\ seen'.reports = r + 1
         /\ seen'.transmitted = seen.transmitted
         /\ seen'.delivered = seen.delivered
         /\ seen'.changes = seen.changes /\ seen'.early = seen.early
         /\ DOMAIN seen' = DOMAIN seen
    BY <1>1, <1>7 DEF CounterType
  <1>11. CounterType'
    <2>0. <<>> \in Seq(Nat)
      OBVIOUS
    <2>1. link' \in [bytesOut: Nat, avgQueueLength: Nat,
                     nthSampleInInterval: Nat, listOfQueueLengths: Seq(Nat)]
      BY <1>1, <2>0 DEF Cleared
    <2>2. link.bytesOut \in Nat /\ sink' = sink
      BY <1>1, <1>7 DEF CounterType
    <2>3. seen'.bytes \in Nat /\ seen'.reports \in Nat
      BY <1>3, <1>7, <1>10, <2>2 DEF CounterType
    <2>. HIDE DEF r
    <2>. QED
      BY <1>7, <1>10, <2>1, <2>2, <2>3 DEF CounterType
  <1>12. SimType'
    BY <1>1, <1>4, <1>6, <1>11 DEF EInv, SimType
  <1>13. Partition'
    <2>1. /\ link'.bytesOut = 0 /\ link'.avgQueueLength = 0
          /\ link'.nthSampleInInterval = 0 /\ link'.listOfQueueLengths = <<>>
      BY <1>1 DEF Cleared
    <2>2. seen'.reports # 0 /\ Len(<<>>) = 0
      BY <1>3, <1>10
    <2>3. /\ seen.bytes \in Nat /\ link.bytesOut \in Nat
          /\ seen.bytes + link.bytesOut = seen.transmitted
          /\ seen.delivered = sink.prevThru /\ sink' = sink
      BY <1>1, <1>7 DEF Partition, CounterType
    <2>. QED
      BY <1>10, <2>1, <2>2, <2>3, SumEmpty DEF Partition
  <1>14. Timely(h)'
    <2>. DEFINE E == Due(r + 1, h, Left)
    <2>1. (\A d \in E : now' <= d.at) /\ InOrder(calendar', E)
      BY <1>4, <1>5
    <2>2. now' >= 3 <=> hooked
      <3>1. now' = 2 * (r + 1) /\ r + 1 \in Nat
        BY <1>3, <1>4, <1>5
      <3>2. \A d \in D : 2 * (r + 1) <= d.at
        BY <1>4, <1>5
      <3>3. /\ now \in Nat /\ now <= 2 * (r + 1)
            /\ now >= 3 <=> hooked
        BY <1>2, <1>4, <1>5 DEF Timely, EInv, SimType
      <3>4. 2 * (r + 1) >= 3 <=> hooked
        BY <1>3, <3>1, <3>2, <3>3, ReportInTime
      <3>. QED
        BY <3>1, <3>4
    <2>. HIDE DEF D
    <2>. QED
      BY <1>1, <1>3, <1>5, <1>10, <2>1, <2>2 DEF Timely
  <1>15. N' = N /\ turn' = turn
    BY <1>1, NamesKept DEF parsing
  <1>16. Logged(h)'
    <2>. HIDE DEF N, r, D
    <2>1. ASSUME NEW k \in LinkKinds
          PROVE  files'[N][k] = Lines(turn, r + 1)
      <3>1. k \in Kinds /\ files[N][k] = Lines(turn, r)
        BY <1>2 DEF Kinds, Logged, N, r
      <3>2. files'[N][k] = Append(Lines(turn, r),
                                  [at |-> 2 * (r + 1), run |-> turn])
        BY <1>5, <1>8, <3>1
      <3>. QED
        BY <1>3, <1>7, <3>2, LinesProperties
    <2>2. ASSUME NEW k \in SocketKinds \cup {"thr"}
          PROVE  files'[N][k] = files[N][k]
      <3>1. k \in Kinds /\ k \notin LinkKinds
        BY DEF Kinds, LinkKinds, SocketKinds
      <3>. QED
        BY <1>8, <3>1
    <2>3. N \in DOMAIN files'
      BY <1>7, <1>8
    <2>4. /\ files[N]["thr"] = Lines(turn, h)
          /\ \A k \in SocketKinds : files[N][k] = seen.changes[k]
      BY <1>2 DEF Logged, N
    <2>5. /\ N' \in DOMAIN files'
          /\ \A k \in LinkKinds : files'[N'][k] = Lines(turn', seen'.reports)
          /\ files'[N']["thr"] = Lines(turn', h)
          /\ \A k \in SocketKinds : files'[N'][k] = seen'.changes[k]
      BY <1>10, <1>15, <2>1, <2>2, <2>3, <2>4
    <2>. QED
      BY <2>5 DEF Logged, N
  <1>17. Simulating'
    BY <1>14, <1>16 DEF Simulating
  <1>. QED
    BY <1>8, <1>9, <1>12, <1>13, <1>17, SimulatesKeeps

LEMMA ThroughputStep ==
    ASSUME EInv, ThroughputFinder
    PROVE  EInv'
  <1>. DEFINE N == NameOf(turn)
              r == seen.reports
  <1>1. /\ phase = "simulate" /\ Runs("ThroughputFinder")
        /\ Write({"thr"}, now')
        /\ sink' = [sink EXCEPT !.prevThru = sink.total]
        /\ seen' = [seen EXCEPT !.delivered = @ + (sink.total - sink.prevThru)]
        /\ UNCHANGED <<phase, parsing, turn, socketType, socket, hooked, link,
                       plotting>>
    BY DEF ThroughputFinder, Runs
  <1>2. PICK h \in 0..Seconds : Timely(h) /\ Logged(h)
    BY <1>1 DEF EInv, RunInv, Simulating
  <1>. DEFINE D == Due(r, h, Left)
  <1>3. r \in 0..Seconds /\ socket \in BOOLEAN /\ hooked \in BOOLEAN
        /\ InOrder(calendar, D) /\ (hooked => socket) /\ Left' = Left
    BY <1>1, <1>2 DEF Timely, EInv, SimType, Left
  <1>4. PICK e \in D : /\ e.what = "ThroughputFinder" /\ now' = e.at
                       /\ \A d \in D : e.at <= d.at
                       /\ InOrder(calendar', D \ {e})
    BY <1>1, <1>3, RunsEvent
  <1>5. /\ h + 1 \in 0..Seconds /\ e.at = 2 * (h + 1)
        /\ D \ {e} = Due(r, h + 1, Left)
    BY <1>3, <1>4, DueFinder, LeftOfPreludes
  <1>6. e.at \in 0..2 * Seconds
    BY <1>3, <1>4, DueInTime, LeftOfPreludes
  <1>7. turn \in Nat /\ N \in DOMAIN files
        /\ FilesType /\ CounterType /\ Partition
    <2>1. turn \in Nat
      BY TurnsNat DEF EInv, PhaseType
    <2>. QED
      BY <1>1, <1>2, <2>1 DEF EInv, RunInv, SimType, Logged
  <1>8. /\ FilesType'
        /\ DOMAIN files' = DOMAIN files
        /\ \A n \in DOMAIN files : n # N => files'[n] = files[n]
        /\ \A k \in Kinds :
              files'[N][k] =
                IF k \in {"thr"}
                THEN Append(files[N][k], [at |-> e.at, run |-> turn])
                ELSE files[N][k]
    <2>1. Write({"thr"}, e.at)
      BY <1>1, <1>4
    <2>. QED
      BY <1>6, <1>7, <2>1, WriteLines
  <1>9. Simulates
    BY <1>1, <1>8 DEF Simulates
  <1>10. /\ sink.total \in Nat /\ sink.prevThru \in Nat
         /\ sink' \in [total: Nat, prevThru: Nat]
         /\ sink'.prevThru = sink.total
    BY <1>1, <1>7 DEF CounterType
  <1>11. /\ seen'.delivered = seen.delivered + (sink.total - sink.prevThru)
         /\ seen'.bytes = seen.bytes
         /\ seen'.reports = r
         /\ seen'.transmitted = seen.transmitted
         /\ seen'.changes = seen.changes /\ seen'.early = seen.early
         /\ DOMAIN seen' = DOMAIN seen
    BY <1>1, <1>7 DEF CounterType
  <1>12. seen'.delivered = sink.total
    BY <1>7, <1>10, <1>11 DEF Partition
  <1>13. CounterType'
    BY <1>1, <1>7, <1>10, <1>11, <1>12 DEF CounterType
  <1>14. SimType'
    BY <1>1, <1>4, <1>6, <1>13 DEF EInv, SimType
  <1>15. Partition'
    BY <1>1, <1>7, <1>10, <1>11, <1>12 DEF Partition
  <1>16. Timely(h + 1)'
    <2>. DEFINE E == Due(r, h + 1, Left)
    <2>1. (\A d \in E : now' <= d.at) /\ InOrder(calendar', E)
      BY <1>4, <1>5
    <2>2. now' >= 3 <=> hooked
      <3>1. now' = 2 * (h + 1) /\ h + 1 \in Nat
        BY <1>3, <1>4, <1>5
      <3>2. \A d \in D : 2 * (h + 1) <= d.at
        BY <1>4, <1>5
      <3>3. /\ now \in Nat /\ now <= 2 * (h + 1)
            /\ now >= 3 <=> hooked
        BY <1>2, <1>4, <1>5 DEF Timely, EInv, SimType
      <3>4. 2 * (h + 1) >= 3 <=> hooked
        BY <1>3, <3>1, <3>2, <3>3, ReportInTime
      <3>. QED
        BY <3>1, <3>4
    <2>. HIDE DEF D
    <2>. QED
      BY <1>1, <1>3, <1>11, <2>1, <2>2 DEF Timely
  <1>17. N' = N /\ turn' = turn
    BY <1>1, NamesKept DEF parsing
  <1>18. Logged(h + 1)'
    <2>. HIDE DEF N, r, D
    <2>1. files'[N]["thr"] = Lines(turn, h + 1)
      <3>1. "thr" \in Kinds /\ files[N]["thr"] = Lines(turn, h)
        BY <1>2 DEF Kinds, Logged, N
      <3>2. files'[N]["thr"] = Append(Lines(turn, h),
                                      [at |-> 2 * (h + 1), run |-> turn])
        BY <1>5, <1>8, <3>1
      <3>. QED
        BY <1>7, <3>2, LinesProperties
    <2>2. ASSUME NEW k \in SocketKinds \cup LinkKinds
          PROVE  files'[N][k] = files[N][k]
      <3>1. k \in Kinds /\ k # "thr"
        BY DEF Kinds, LinkKinds, SocketKinds
      <3>. QED
        BY <1>8, <3>1
    <2>3. N \in DOMAIN files'
      BY <1>7, <1>8
    <2>4. /\ \A k \in LinkKinds : files[N][k] = Lines(turn, r)
          /\ \A k \in SocketKinds : files[N][k] = seen.changes[k]
      BY <1>2 DEF Logged, N, r
    <2>5. /\ N' \in DOMAIN files'
          /\ \A k \in LinkKinds : files'[N'][k] = Lines(turn', seen'.reports)
          /\ files'[N']["thr"] = Lines(turn', h + 1)
          /\ \A k \in SocketKinds : files'[N'][k] = seen'.changes[k]
      BY <1>11, <1>17, <2>1, <2>2, <2>3, <2>4
    <2>. QED
      BY <2>5 DEF Logged, N
  <1>19. Simulating'
    BY <1>5, <1>16, <1>18 DEF Simulating
  <1>. QED
    BY <1>8, <1>9, <1>14, <1>15, <1>19, SimulatesKeeps

\* Of the files of one simulation, with the ends.
LEMMA EndedType ==
    ASSUME NEW f, FileType(f)
    PROVE  FileType(Ended(f))
  <1>1. End \in Line /\ End.at = 0 /\ 0 <= 2 * Seconds
    BY EvaluationAssumption DEF End, Line
  <1>2. ASSUME NEW k \in Kinds
        PROVE  Append(f[k], End) \in Seq(Line) /\ InTime(Append(f[k], End))
    <2>1. f[k] \in Seq(Line) /\ InTime(f[k])
      BY DEF FileType
    <2>. QED
      BY <1>1, <2>1, AppendInTime
  <1>. QED
    BY <1>2 DEF FileType, Ended

\* The end of a simulation: every report was made, and the files are those
\* of this one until another one with its name.
LEMMA StopStep ==
    ASSUME EInv, Stop
    PROVE  EInv'
  <1>. DEFINE N == NameOf(turn)
              r == seen.reports
  <1>1. /\ phase = "simulate"
        /\ \E i \in DOMAIN calendar : calendar[i].what = "stop" /\ IsNext(i)
        /\ calendar' = <<>> /\ now' = 0 /\ socket' = FALSE /\ hooked' = FALSE
        /\ link' = Cleared /\ sink' = NewSink /\ seen' = NothingYet
        /\ files' = [files EXCEPT ![N] = Ended(@)]
        /\ IF turn < Turns THEN turn' = turn + 1 /\ phase' = "setup"
                           ELSE StartLoop("plot")
        /\ UNCHANGED <<parsing, socketType, plotting>>
    BY DEF Stop
  <1>2. /\ turn \in 1..Turns /\ Turns \in Nat /\ variables' = variables
    BY <1>1, TurnsNat DEF EInv, PhaseType, parsing
  <1>3. /\ Turns' = Turns
        /\ \A k : NameOf(k)' = NameOf(k)
    BY <1>2, NamesKept
  <1>4. \/ turn < Turns /\ turn' = turn + 1 /\ phase' = "setup"
        \/ turn = Turns /\ turn' = 1 /\ phase' = "plot"
    BY <1>1, <1>2 DEF StartLoop
  <1>5. PICK h \in 0..Seconds : Timely(h) /\ Logged(h)
    BY <1>1 DEF EInv, RunInv, Simulating
  <1>. DEFINE D == Due(r, h, Left)
  <1>6. r = Seconds /\ h = Seconds
    <2>1. r \in 0..Seconds /\ InOrder(calendar, D)
      BY <1>5 DEF Timely
    <2>2. PICK i \in DOMAIN calendar : calendar[i].what = "stop" /\ IsNext(i)
      BY <1>1
    <2>3. /\ calendar[i] \in D
          /\ \A d \in D : d.what \in {"SizeReset", "ThroughputFinder"}
                            => calendar[i].at < d.at
      BY <2>1, <2>2, StopEvent
    <2>. QED
      BY <2>1, <2>2, <2>3, DueStop, LeftOfPreludes
  <1>7. PhaseType'
    <2>1. kindNo = 1
      BY <1>1 DEF EInv, PhaseType
    <2>. QED
      BY <1>1, <1>2, <1>3, <1>4, <2>1 DEF EInv, PhaseType, parsing, plotting
  <1>8. SimType'
    <2>1. <<>> \in Seq(Nat)
      OBVIOUS
    <2>2. CounterType'
      BY <1>1, <2>1 DEF CounterType, Cleared, NewSink, NothingYet
    <2>3. now' \in 0..2 * Seconds
      BY <1>1, EvaluationAssumption
    <2>. QED
      BY <1>1, <2>2, <2>3 DEF EInv, SimType
  <1>9. /\ N \in DOMAIN files /\ DOMAIN files' = DOMAIN files
        /\ files'[N] = Ended(files[N])
        /\ \A n \in DOMAIN files : n # N => files'[n] = files[n]
    BY <1>1, <1>5 DEF Logged
  <1>10. FilesType'
    <2>1. FileType(Ended(files[N]))
      BY <1>9, EndedType DEF EInv, FilesType
    <2>. QED
      BY <1>9, <2>1 DEF EInv, FilesType
  <1>11. RunInv'
    BY <1>1, <1>4 DEF RunInv, AtRest
  <1>12. Complete(files'[N], turn)
    <2>1. Lines(turn, Seconds) = Reports(turn)
      BY DEF Lines, Reports
    <2>2. ASSUME NEW kind \in LinkKinds \cup {"thr"}
          PROVE  files'[N][kind] = Append(Reports(turn), End)
      <3>1. files[N][kind] = Lines(turn, Seconds)
        BY <1>5, <1>6 DEF Logged
      <3>2. kind \in Kinds
        BY DEF Kinds
      <3>. QED
        BY <1>9, <2>1, <3>1, <3>2 DEF Ended
    <2>. QED
      BY <2>2 DEF Complete
  <1>13. Over = turn - 1 /\ Over' = turn
    BY <1>1, <1>2, <1>3, <1>4 DEF Over
  <1>14. ASSUME NEW k \in 1..turn
         PROVE  /\ NameOf(k) \in DOMAIN files'
                /\ \E m \in 1..turn : /\ IsWriter(m, k, turn)
                                      /\ Complete(files'[NameOf(k)], m)
    <2>1. CASE NameOf(k) = N
      <3>1. turn \in 1..turn /\ \A j \in turn + 1..turn : FALSE
        BY <1>2
      <3>2. IsWriter(turn, k, turn)
        BY <2>1, <3>1 DEF IsWriter
      <3>. QED
        BY <1>9, <1>12, <2>1, <3>1, <3>2
    <2>2. CASE NameOf(k) # N
      <3>1. k \in 1..Over
        BY <1>2, <1>13, <2>2
      <3>2. NameOf(k) \in DOMAIN files
        BY <3>1 DEF EInv, Written, WrittenBy
      <3>3. PICK m \in 1..Over : IsWriter(m, k, Over)
                                 /\ Complete(files[NameOf(k)], m)
        BY <2>2, <3>1 DEF EInv, Written, WrittenBy
      <3>4. m \in 1..turn /\ files'[NameOf(k)] = files[NameOf(k)]
        BY <1>2, <1>9, <1>13, <2>2, <3>2
      <3>5. ASSUME NEW j \in m + 1..turn
            PROVE  NameOf(j) # NameOf(k)
        <4>1. j = turn \/ j \in m + 1..Over
          BY <1>2, <1>13, <3>4
        <4>. QED
          BY <2>2, <3>3, <4>1 DEF IsWriter
      <3>6. IsWriter(m, k, turn)
        BY <3>3, <3>4, <3>5 DEF IsWriter
      <3>. QED
        BY <1>9, <3>2, <3>3, <3>4, <3>6
    <2>. QED
      BY <2>1, <2>2
  <1>15. Written'
    <2>1. ASSUME NEW k \in 1..Over'
          PROVE  WrittenBy(k, Over)'
      <3>1. k \in 1..turn
        BY <1>13
      <3>2. NameOf(k) \in DOMAIN files'
        BY <1>14, <3>1
      <3>3. PICK m \in 1..turn : /\ IsWriter(m, k, turn)
                                 /\ Complete(files'[NameOf(k)], m)
        BY <1>14, <3>1
      <3>. QED
        BY <1>3, <1>13, <3>2, <3>3
           DEF WrittenBy, IsWriter, Complete, Reports
    <2>. QED
      BY <2>1 DEF Written
  <1>16. Plotted'
    <2>1. kindNo' = 1 /\ phase' # "done" /\ (phase' = "plot" => turn' = 1)
      BY <1>1, <1>4 DEF EInv, PhaseType, plotting
    <2>2. \A k \in 1..1 : ~(k < 1)
      OBVIOUS
    <2>3. \A j \in 1..1 - 1 : FALSE
      OBVIOUS
    <2>. QED
      BY <2>1, <2>2, <2>3 DEF Plotted
  <1>. QED
    BY <1>7, <1>8, <1>10, <1>11, <1>15, <1>16 DEF EInv

-----------------------------------------------------------------------------
(* The graphs.                                                             *)

\* FeedData reads the lines in front of the first end.
LEMMA LinesOfProperties ==
    ASSUME NEW file \in Seq(Line), End \in Range(file)
    PROVE  /\ LinesOf(file) \in Seq(Line)
           /\ Len(LinesOf(file)) <= Len(file)
           /\ \A i \in 1..Len(LinesOf(file)) : LinesOf(file)[i] = file[i]
  <1>. DEFINE ends == {i \in DOMAIN file : file[i] = End}
              first == CHOOSE i \in ends : \A j \in ends : i <= j
              l == Len(file)
  <1>1. l \in Nat /\ DOMAIN file = 1..l /\ \A i \in 1..l : file[i] \in Line
    BY ElementOfSeq, LenProperties
  <1>2. ends \subseteq Nat /\ ends \subseteq 1..l
    BY <1>1
  <1>3. ends # {}
    BY DEF Range
  <1>4. LinesOf(file) = SubSeq(file, 1, first - 1)
    BY DEF LinesOf
  <1>. HIDE DEF ends
  <1>5. \E i \in ends : \A j \in ends : i <= j
    BY <1>2, <1>3, NatMin
  <1>6. first \in 1..l
    BY <1>2, <1>5
  <1>. HIDE DEF first
  <1>. DEFINE m == first - 1
  <1>7. m \in Nat /\ m <= l /\ \A i \in 1..m : i \in 1..l
    BY <1>1, <1>6
  <1>. HIDE DEF m, l
  <1>8. /\ SubSeq(file, 1, m) \in Seq(Line)
        /\ Len(SubSeq(file, 1, m)) = m
        /\ \A i \in 1..m : SubSeq(file, 1, m)[i] = file[i]
    <2>1. \A i \in 1..m : file[i] \in Line
      BY <1>1, <1>7
    <2>2. /\ SubSeq(file, 1, m) \in Seq(Line)
          /\ Len(SubSeq(file, 1, m)) = IF 1 <= m THEN m - 1 + 1 ELSE 0
          /\ \A i \in 1..m - 1 + 1 : SubSeq(file, 1, m)[i] = file[1 + i - 1]
      BY <1>7, <2>1, SubSeqProperties
    <2>. QED
      BY <1>7, <2>2
  <1>. QED
    BY <1>4, <1>7, <1>8 DEF m, l

\* A graph of either shape shows the lines it is made of.
LEMMA StepsShow ==
    ASSUME NEW lines \in Seq(Line)
    PROVE  Shows(Steps(lines), lines, 2)
  <1>. DEFINE l == Len(lines)
              p == Steps(lines)
              x(i) == IF i % 2 = 0 THEN lines[(i + 1) \div 2].at
                      ELSE IF (i + 1) \div 2 = 1 THEN oldX
                      ELSE lines[((i + 1) \div 2) - 1].at
  <1>1. l \in Nat
    BY LenProperties
  <1>2. /\ DOMAIN p = 1..2 * l /\ Len(p) = 2 * l
        /\ \A i \in 1..2 * l : p[i] = Point(x(i), lines[(i + 1) \div 2])
    BY <1>1 DEF Steps
  <1>3. ASSUME NEW i \in 1..2 * l
        PROVE  p[i].line = lines[(i + 1) \div 2] /\ p[i].x = x(i)
    BY <1>2 DEF Point
  <1>. HIDE DEF p, x
  <1>4. ASSUME NEW i \in 1..2 * l
        PROVE  /\ p[i].line = lines[(i + 2 - 1) \div 2]
               /\ p[i].x = IF i % 2 = 0 THEN p[i].line.at
                           ELSE IF i = 1 THEN p[1].x ELSE p[i - 1].x
    <2>1. i + 2 - 1 = i + 1
      BY <1>1
    <2>2. CASE i % 2 = 0
      BY <1>3, <2>1, <2>2 DEF x
    <2>3. CASE i = 1
      BY <1>3, <2>1, <2>3
    <2>4. CASE i % 2 # 0 /\ i # 1
      <3>. DEFINE j == i - 1
                  n == (i + 1) \div 2
      <3>1. /\ j \in 1..2 * l /\ j % 2 = 0 /\ (j + 1) \div 2 = n - 1
            /\ n # 1
        BY <1>1, <2>4
      <3>. HIDE DEF j, n
      <3>2. p[j].x = lines[n - 1].at
        BY <1>3, <3>1 DEF x
      <3>3. p[i].x = lines[n - 1].at
        BY <1>3, <2>4, <3>1 DEF x, n
      <3>. QED
        BY <1>3, <2>1, <2>4, <3>2, <3>3 DEF j
    <2>. QED
      BY <2>2, <2>3, <2>4
  <1>. QED
    BY <1>2, <1>4 DEF Shows, p, l

LEMMA PointsShow ==
    ASSUME NEW lines \in Seq(Line)
    PROVE  Shows([i \in DOMAIN lines |-> Point(lines[i].at, lines[i])],
                 lines, 1)
  <1>. DEFINE l == Len(lines)
              p == [i \in DOMAIN lines |-> Point(lines[i].at, lines[i])]
  <1>1. l \in Nat /\ DOMAIN lines = 1..l
    BY LenProperties
  <1>2. /\ DOMAIN p = 1..l /\ Len(p) = l
        /\ \A i \in 1..l : p[i].line = lines[i] /\ p[i].x = lines[i].at
    BY <1>1 DEF Point
  <1>. HIDE DEF p
  <1>3. ASSUME NEW i \in 1..l
        PROVE  (i + 1 - 1) \div 1 = i /\ i % 1 = 0
    <2>1. i \in Int /\ i + 1 - 1 = i
      BY <1>1
    <2>2. i \div 1 = i /\ i % 1 = 0
      BY <2>1
    <2>. QED
      BY <2>1, <2>2
  <1>4. 1 * l = l
    <2>1. \A n \in Nat : 1 * n = n
      OBVIOUS
    <2>. HIDE DEF l
    <2>. QED
      BY <1>1, <2>1
  <1>5. ASSUME NEW i \in 1..l
        PROVE  /\ p[i].line = lines[(i + 1 - 1) \div 1]
               /\ p[i].x = IF i % 1 = 0 THEN p[i].line.at
                           ELSE IF i = 1 THEN p[1].x ELSE p[i - 1].x
    BY <1>2, <1>3
  <1>6. Shows(p, lines, 1)
    BY <1>2, <1>4, <1>5 DEF Shows
  <1>. QED
    BY <1>6 DEF p

LEMMA OrderOfGraphs ==
    /\ Len(GraphOrder) = 8
    /\ \A j \in 1..8 : GraphOrder[j] \in Kinds
    /\ \A kind \in Kinds : \E j \in 1..8 : GraphOrder[j] = kind
  BY DEF GraphOrder, Kinds, LinkKinds, SocketKinds

LEMMA CreateGraphStep ==
    ASSUME EInv, CreateGraph
    PROVE  EInv'
  <1>. DEFINE k == GraphOrder[kindNo]
              N == NameOf(turn)
              lines == LinesOf(files[N][k])
  <1>1. /\ phase = "plot" /\ UNCHANGED <<parsing, sim, files>> /\ NextGraph
        /\ \/ k \notin enabled /\ UNCHANGED <<oldX, plots>>
           \/ k \in enabled /\ End \in Range(files[N][k]) /\ Feed(k)
    BY DEF CreateGraph
  <1>2. /\ turn \in 1..Turns /\ Turns \in Nat /\ variables' = variables
        /\ enabled' = enabled /\ files' = files
    BY <1>1, TurnsNat DEF EInv, PhaseType, parsing
  <1>3. /\ Turns' = Turns
        /\ \A q : NameOf(q)' = NameOf(q)
    BY <1>2, NamesKept
  <1>4. kindNo \in 1..8 /\ k \in Kinds /\ Len(GraphOrder) = 8
        /\ enabled \subseteq Kinds
    BY OrderOfGraphs DEF EInv, PhaseType
  <1>5. \/ kindNo < 8 /\ kindNo' = kindNo + 1 /\ turn' = turn /\ phase' = phase
        \/ /\ kindNo = 8 /\ kindNo' = 1 /\ turn < Turns /\ turn' = turn + 1
           /\ phase' = phase
        \/ /\ kindNo = 8 /\ kindNo' = 1 /\ turn = Turns /\ turn' = turn
           /\ phase' = "done"
    BY <1>1, <1>2, <1>4 DEF NextGraph
  <1>6. N \in DOMAIN files
    <2>1. turn \in 1..Over
      BY <1>1, <1>2 DEF Over
    <2>. QED
      BY <2>1 DEF EInv, Written, WrittenBy
  <1>7. ASSUME k \in enabled
        PROVE  /\ lines \in Seq(Line)
               /\ \A i \in 1..Len(lines) : lines[i].at \in 0..2 * Seconds
    <2>1. files[N][k] \in Seq(Line) /\ InTime(files[N][k])
          /\ End \in Range(files[N][k])
      BY <1>1, <1>4, <1>6, <1>7 DEF EInv, FilesType, FileType
    <2>. DEFINE file == files[N][k]
    <2>2. /\ lines \in Seq(Line) /\ Len(lines) <= Len(file)
          /\ \A i \in 1..Len(lines) : lines[i] = file[i]
          /\ Len(lines) \in Nat /\ Len(file) \in Nat
      BY <2>1, LinesOfProperties, LenProperties
    <2>3. ASSUME NEW i \in 1..Len(lines)
          PROVE  lines[i].at \in 0..2 * Seconds
      <3>1. i \in 1..Len(file) /\ lines[i] = file[i]
        BY <2>2
      <3>2. file[i] \in Line /\ file[i].at <= 2 * Seconds
        BY <2>1, <3>1, ElementOfSeq DEF InTime
      <3>3. file[i].at \in Nat /\ Seconds \in Nat
        BY <3>2, EvaluationAssumption DEF Line
      <3>. QED
        BY <3>1, <3>2, <3>3
    <2>. QED
      BY <2>2, <2>3
  <1>8. oldX' \in 0..2 * Seconds
    <2>1. CASE oldX' = oldX
      BY <2>1 DEF EInv, PhaseType
    <2>2. CASE k \in enabled /\ lines # <<>> /\ oldX' = Last(lines).at
      <3>1. Len(lines) \in 1..Len(lines)
        BY <1>7, <2>2, EmptySeq, LenProperties
      <3>2. Last(lines) = lines[Len(lines)]
        BY DEF Last
      <3>. HIDE DEF lines, k
      <3>. QED
        BY <1>7, <2>2, <3>1, <3>2
    <2>3. ASSUME k \in enabled, Feed(k)
          PROVE  oldX' = oldX \/ (lines # <<>> /\ oldX' = Last(lines).at)
      BY <2>3 DEF Feed
    <2>. QED
      BY <1>1, <2>1, <2>2, <2>3
  <1>9. PhaseType'
    <2>. HIDE DEF k, N, lines
    <2>1. turn' \in 1..Turns /\ kindNo' \in 1..8
      BY <1>2, <1>4, <1>5
    <2>2. phase' \in {"plot", "done"} /\ (phase' # "plot" => kindNo' = 1)
      BY <1>1, <1>5
    <2>3. UNCHANGED <<val, words, variables, enabled>>
      BY <1>1 DEF parsing
    <2>. QED
      BY <1>2, <1>3, <1>4, <1>8, <2>1, <2>2, <2>3 DEF EInv, PhaseType
  <1>10. SimType' /\ FilesType' /\ RunInv'
    <2>1. phase' # "simulate"
      BY <1>1, <1>5
    <2>. QED
      BY <1>1, <2>1 DEF EInv, SimType, CounterType, FilesType, RunInv, AtRest,
                        sim
  <1>11. Over = Turns /\ Over' = Turns
    BY <1>1, <1>3, <1>5 DEF Over
  <1>12. Written'
    <2>1. ASSUME NEW q \in 1..Turns
          PROVE  WrittenBy(q, Over)'
      <3>1. NameOf(q) \in DOMAIN files
        BY <1>11, <2>1 DEF EInv, Written, WrittenBy
      <3>2. PICK m \in 1..Turns : IsWriter(m, q, Turns)
                                  /\ Complete(files[NameOf(q)], m)
        BY <1>1, <1>11, <2>1 DEF EInv, Written, WrittenBy
      <3>. QED
        BY <1>2, <1>3, <1>11, <3>1, <3>2
           DEF WrittenBy, IsWriter, Complete, Reports
    <2>. QED
      BY <1>11, <2>1 DEF Written
  <1>13. ASSUME NEW q, NEW kind \in enabled,
                Shown(q, kind) \/ (k = kind /\ NameOf(q) = N)
         PROVE  Shown(q, kind)'
    <2>. DEFINE id == <<N, k>>
                qid == <<NameOf(q), kind>>
                each == IF kind \in Flattened THEN 2 ELSE 1
                qlines == LinesOf(files[NameOf(q)][kind])
    <2>1. SUFFICES /\ qid \in DOMAIN plots'
                   /\ Shows(plots'[qid], qlines, each)
      BY <1>2, <1>3 DEF Shown, Shows
    <2>2. CASE k \notin enabled
      <3>1. plots' = plots /\ k # kind
        BY <1>1, <2>2
      <3>. QED
        BY <1>13, <3>1 DEF Shown
    <2>3. CASE k \in enabled
      <3>1. PICK plot : /\ plots' = Put(plots, id, plot)
                        /\ Shows(plot, lines,
                                 IF k \in Flattened THEN 2 ELSE 1)
        <4>1. Feed(k)
          BY <1>1, <2>3
        <4>2. Shows(Steps(lines), lines, 2)
          BY <1>7, <2>3, StepsShow
        <4>3. Shows([i \in DOMAIN lines |-> Point(lines[i].at, lines[i])],
                    lines, 1)
          BY <1>7, <2>3, PointsShow
        <4>4. CASE k \in Flattened
          <5>1. plots' = Put(plots, id, Steps(lines))
            BY <4>1, <4>4 DEF Feed
          <5>. QED
            BY <4>2, <4>4, <5>1
        <4>5. CASE k \notin Flattened
          <5>1. plots' = Put(plots, id, [i \in DOMAIN lines |->
                                           Point(lines[i].at, lines[i])])
            BY <4>1, <4>5 DEF Feed
          <5>. QED
            BY <4>3, <4>5, <5>1
        <4>. QED
          BY <4>4, <4>5
      <3>2. /\ DOMAIN plots' = DOMAIN plots \cup {id}
            /\ plots'[id] = plot
            /\ \A z \in DOMAIN plots : z # id => plots'[z] = plots[z]
        <4>. HIDE DEF id
        <4>. QED
          BY <3>1 DEF Put
      <3>3. CASE qid = id
        <4>1. kind = k /\ NameOf(q) = N
          BY <3>3
        <4>. QED
          BY <3>1, <3>2, <3>3, <4>1
      <3>4. CASE qid # id
        <4>1. Shown(q, kind)
          BY <1>13, <3>4
        <4>. QED
          BY <3>2, <3>4, <4>1 DEF Shown
      <3>. QED
        BY <3>3, <3>4
    <2>. QED
      BY <2>2, <2>3
  <1>14. ASSUME NEW q \in 1..turn, NEW kind \in enabled,
                q < turn \/ \E j \in 1..kindNo : GraphOrder[j] = kind
         PROVE  Shown(q, kind)'
    <2>1. CASE q < turn \/ \E j \in 1..kindNo - 1 : GraphOrder[j] = kind
      <3>1. Shown(q, kind)
        BY <1>1, <2>1 DEF EInv, Plotted
      <3>. QED
        BY <1>13, <3>1
    <2>2. CASE q = turn /\ GraphOrder[kindNo] = kind
      BY <1>13, <2>2
    <2>3. \A j \in 1..kindNo : j = kindNo \/ j \in 1..kindNo - 1
      BY <1>4
    <2>. QED
      BY <1>2, <1>14, <2>1, <2>2, <2>3
  <1>15. Plotted'
    <2>1. CASE kindNo < 8 /\ kindNo' = kindNo + 1 /\ turn' = turn
               /\ phase' = phase
      <3>1. kindNo' - 1 = kindNo /\ phase' # "done"
        BY <1>1, <1>4, <2>1
      <3>. QED
        BY <1>2, <1>14, <2>1, <3>1 DEF Plotted
    <2>2. CASE kindNo = 8
      <3>1. ASSUME NEW q \in 1..turn, NEW kind \in enabled
            PROVE  Shown(q, kind)'
        <4>1. \E j \in 1..kindNo : GraphOrder[j] = kind
          BY <1>4, <2>2, OrderOfGraphs
        <4>. QED
          BY <1>14, <4>1
      <3>2. CASE kindNo' = 1 /\ turn' = turn + 1 /\ phase' = phase
        <4>1. \A q \in 1..turn + 1 : q < turn + 1 => q \in 1..turn
          BY <1>2
        <4>2. \A j \in 1..1 - 1 : FALSE
          OBVIOUS
        <4>3. phase' # "done"
          BY <1>1, <3>2
        <4>. QED
          BY <1>2, <3>1, <3>2, <4>1, <4>2, <4>3 DEF Plotted
      <3>3. CASE kindNo' = 1 /\ turn = Turns /\ phase' = "done"
        BY <1>2, <1>3, <3>1, <3>3 DEF Plotted
      <3>. QED
        BY <1>5, <2>2, <3>2, <3>3
    <2>. QED
      BY <1>4, <1>5, <2>1, <2>2
  <1>. QED
    BY <1>9, <1>10, <1>12, <1>15 DEF EInv

-----------------------------------------------------------------------------
(* The theorems.                                                           *)

LEMMA EInvInit ==
    ASSUME Init
    PROVE  EInv
  <1>1. <<>> \in Seq(Nat) /\ <<>> \in Seq(Nat \cup {EndMark})
        /\ Len(<<>>) = 0 /\ DOMAIN <<>> = {}
    OBVIOUS
  <1>2. Turns \in Nat
    BY <1>1, TurnsNat DEF Init
  <1>3. PhaseType
    BY <1>1, <1>2, OrderOfGraphs, EvaluationAssumption DEF Init, PhaseType
  <1>4. CounterType
    BY <1>1 DEF Init, CounterType, Cleared, NewSink, NothingYet
  <1>5. SimType
    <2>1. 0 \in 0..2 * Seconds
      BY EvaluationAssumption
    <2>. QED
      BY <1>4, <2>1 DEF Init, SimType
  <1>6. FilesType
    BY <1>1 DEF Init, FilesType
  <1>7. RunInv
    BY DEF Init, RunInv, AtRest
  <1>8. Written
    BY DEF Init, Written, Over
  <1>9. Plotted
    BY DEF Init, Plotted
  <1>. QED
    BY <1>3, <1>5, <1>6, <1>7, <1>8, <1>9 DEF EInv

LEMMA EInvStutter ==
    ASSUME EInv, UNCHANGED vars
    PROVE  EInv'
  <1>1. /\ UNCHANGED <<phase, parsing, turn, sim, files, plotting>>
    BY DEF vars
  <1>2. /\ Turns' = Turns /\ \A k : NameOf(k)' = NameOf(k)
        /\ NameOf(turn)' = NameOf(turn)
    BY <1>1, NamesKept DEF parsing
  <1>3. PhaseType' /\ SimType' /\ FilesType'
    BY <1>1, <1>2 DEF EInv, PhaseType, SimType, CounterType, FilesType,
                      parsing, sim, plotting
  <1>4. RunInv'
    BY <1>1, <1>2 DEF EInv, RunInv, AtRest, Simulating, Timely, Left, Logged,
                      Partition, sim
  <1>5. Written'
    <2>1. Over' = Over /\ phase' = phase /\ files' = files
      BY <1>1, <1>2 DEF Over
    <2>2. ASSUME NEW k \in 1..Over
          PROVE  WrittenBy(k, Over)'
      <3>1. WrittenBy(k, Over)
        BY DEF EInv, Written
      <3>. QED
        BY <1>2, <2>1, <3>1 DEF WrittenBy, IsWriter, Complete, Reports
    <2>. QED
      BY <2>1, <2>2 DEF Written
  <1>6. Plotted'
    BY <1>1, <1>2 DEF EInv, Plotted, Shown, parsing, plotting
  <1>. QED
    BY <1>3, <1>4, <1>5, <1>6 DEF EInv

LEMMA EInvStep ==
    ASSUME EInv, [Next]_vars
    PROVE  EInv'
  <1>1. CASE Parsing
    BY <1>1, ParsingStep
  <1>2. CASE SetUp
    BY <1>2, SetUpStep
  <1>3. CASE StartApplication
    BY <1>3, StartStep
  <1>4. CASE DynamicSocketFitter
    BY <1>4, FitterStep
  <1>5. CASE SizeReset
    BY <1>5, SizeResetStep
  <1>6. CASE ThroughputFinder
    BY <1>6, ThroughputStep
  <1>7. CASE Stop
    BY <1>7, StopStep
  <1>8. CASE ForwardElsewhere \/ ForwardToBottleneck \/ Deliver
    BY <1>8, NetworkStep
  <1>9. CASE \E k \in SocketKinds : Change(k)
    BY <1>9, ChangeStep
  <1>10. CASE CreateGraph
    BY <1>10, CreateGraphStep
  <1>11. CASE UNCHANGED vars
    BY <1>11, EInvStutter
  <1>. QED
    BY <1>1, <1>2, <1>3, <1>4, <1>5, <1>6, <1>7, <1>8, <1>9, <1>10, <1>11
       DEF Next, Parsing

LEMMA Invariant == Spec => []EInv
  BY EInvInit, EInvStep, PTL DEF Spec

\* Every variable keeps to its type: the counters of the statistics are
\* never negative, times are within the simulation, and the number of the
\* turn stays within the loops of Run.
THEOREM TypeCorrectness == Spec => []TypeOK
  <1>1. EInv => TypeOK
    BY DEF EInv, PhaseType, SimType, CounterType, FilesType, FileType, TypeOK
  <1>. QED
    BY <1>1, Invariant, PTL

\* LinkStats and SinkStats report every packet in exactly one interval,
\* however reports and packets interleave, and in every simulation: nothing
\* of the one before is left.
THEOREM Reported == Spec => []ReportsPartitionRun
  <1>1. EInv => ReportsPartitionRun
    BY DEF EInv, RunInv, Partition, ReportsPartitionRun
  <1>. QED
    BY <1>1, Invariant, PTL

\* SocketStats logs every change of the socket from 1.000001 s on, once and
\* in order, in every simulation: it looks for the socket only once, at that
\* time, and the application has started by then.  Of the changes before, the
\* socket's first ones, it logs none.
THEOREM LoggedFromHook == Spec => []LoggedOnceHooked
  <1>1. EInv => LoggedOnceHooked
    BY DEF EInv, RunInv, Simulating, Logged, LoggedOnceHooked
  <1>. QED
    BY <1>1, Invariant, PTL

\* The files of every simulation that is over have a line for each second
\* and the end, and are those of the last simulation of their name.
THEOREM FilesOfLastWriter == Spec => []FilesAreComplete
  <1>1. ASSUME EInv, NEW k \in 1..Over,
               ~(phase = "simulate" /\ NameOf(k) = NameOf(turn)),
               NEW kind \in LinkKinds \cup {"thr"}
        PROVE  files[NameOf(k)][kind] = Append(Reports(Writer(k, Over)), End)
    <2>1. PICK m \in 1..Over : IsWriter(m, k, Over)
                               /\ Complete(files[NameOf(k)], m)
      BY <1>1 DEF EInv, Written, WrittenBy
    <2>2. Over \in Nat
      BY <1>1, TurnsNat DEF EInv, PhaseType, Over
    <2>3. ASSUME NEW n \in 1..Over, IsWriter(n, k, Over)
          PROVE  n = m
      <3>1. ~(n \in m + 1..Over) /\ ~(m \in n + 1..Over)
        BY <2>1, <2>3 DEF IsWriter
      <3>. QED
        BY <2>2, <3>1
    <2>4. Writer(k, Over) = CHOOSE n \in 1..Over : IsWriter(n, k, Over)
      BY DEF Writer, IsWriter
    <2>5. Writer(k, Over) = m
      BY <2>1, <2>3, <2>4
    <2>. QED
      BY <2>1, <2>5 DEF Complete
  <1>2. EInv => FilesAreComplete
    BY <1>1 DEF FilesAreComplete, Over
  <1>. QED
    BY <1>2, Invariant, PTL

\* When the program is done there is a graph of every kind that
\* tcpeval.conf leaves enabled, for every simulation, and it shows the whole
\* of its file.
THEOREM GraphsMade == Spec => []GraphsShowFiles
  <1>1. EInv => GraphsShowFiles
    BY DEF EInv, Plotted, Shown, Shows, GraphsShowFiles
  <1>. QED
    BY <1>1, Invariant, PTL

-----------------------------------------------------------------------------
(* The percentile.                                                         *)

\* Samples can be sorted: the next one has a place among those sorted.
LEMMA OrderExists ==
    ASSUME NEW list \in Seq(Nat)
    PROVE  \E p \in [DOMAIN list -> DOMAIN list] : Ascends(list, p)
  <1>. DEFINE l == Len(list)
              Sorts(p, n) ==
                /\ p \in [1..n -> 1..n]
                /\ \A i, j \in 1..n : p[i] = p[j] => i = j
                /\ \A i, j \in 1..n : i < j => list[p[i]] <= list[p[j]]
              S == {n \in Nat : n <= l => \E p : Sorts(p, n)}
  <1>1. l \in Nat /\ DOMAIN list = 1..l /\ \A i \in 1..l : list[i] \in Nat
    BY ElementOfSeq, LenProperties
  <1>. HIDE DEF l
  <1>2. 0 \in S
    <2>1. Sorts([i \in 1..0 |-> i], 0)
      OBVIOUS
    <2>. QED
      BY <2>1
  <1>3. ASSUME NEW n \in Nat, n \in S
        PROVE  n + 1 \in S
    <2>1. SUFFICES ASSUME n + 1 <= l
                   PROVE  \E p : Sorts(p, n + 1)
      <3>. HIDE DEF Sorts
      <3>. QED
        OBVIOUS
    <2>. DEFINE e == n + 1
    <2>2. e \in Nat /\ e = n + 1 /\ e \in 1..l /\ n <= l
      BY <1>1, <2>1
    <2>. HIDE DEF e
    <2>3. PICK p : Sorts(p, n)
      BY <1>3, <2>2
    <2>4. /\ p \in [1..n -> 1..n]
          /\ \A i, j \in 1..n : p[i] = p[j] => i = j
          /\ \A i, j \in 1..n : i < j => list[p[i]] <= list[p[j]]
      BY <2>3
    <2>. HIDE DEF Sorts
    <2>5. PICK k \in 1..e :
             /\ \A i \in 1..n : i < k => list[p[i]] <= list[e]
             /\ \A i \in 1..n : k <= i => list[e] <= list[p[i]]
      <3>. DEFINE T == {i \in 1..e : i = e \/ list[e] < list[p[i]]}
      <3>1. T \subseteq Nat /\ e \in T
        BY <2>2
      <3>2. PICK k \in T : \A i \in T : k <= i
        BY <3>1, NatMin
      <3>3. k \in 1..e
        OBVIOUS
      <3>4. ASSUME NEW i \in 1..n, i < k
            PROVE  list[p[i]] <= list[e]
        <4>1. i \in 1..e /\ ~(k <= i)
          BY <2>2, <3>3, <3>4
        <4>2. ~(list[e] < list[p[i]])
          BY <3>2, <4>1
        <4>3. list[e] \in Nat /\ list[p[i]] \in Nat
          BY <1>1, <2>2, <2>4
        <4>. QED
          BY <4>2, <4>3
      <3>5. ASSUME NEW i \in 1..n, k <= i
            PROVE  list[e] <= list[p[i]]
        <4>1. k \in 1..n /\ k # e
          BY <2>2, <3>3, <3>5
        <4>2. list[e] < list[p[k]]
          BY <4>1
        <4>3. list[e] \in Nat /\ list[p[i]] \in Nat /\ list[p[k]] \in Nat
          <5>1. p[i] \in 1..n /\ p[k] \in 1..n
            BY <2>4, <4>1
          <5>2. p[i] \in 1..l /\ p[k] \in 1..l
            BY <1>1, <2>2, <5>1
          <5>. QED
            BY <1>1, <2>2, <5>2
        <4>4. list[p[k]] <= list[p[i]]
          <5>1. CASE k = i
            BY <4>3, <5>1
          <5>2. CASE k < i
            BY <2>4, <4>1, <5>2
          <5>. QED
            BY <3>5, <4>1, <5>1, <5>2
        <4>. QED
          BY <4>2, <4>3, <4>4
      <3>. QED
        BY <3>3, <3>4, <3>5
    <2>. DEFINE q == [i \in 1..e |-> IF i < k THEN p[i]
                                     ELSE IF i = k THEN e ELSE p[i - 1]]
    <2>6. ASSUME NEW i \in 1..e
          PROVE  \/ i < k /\ i \in 1..n /\ q[i] = p[i] /\ p[i] \in 1..n
                 \/ i = k /\ q[i] = e
                 \/ /\ i > k /\ i - 1 \in 1..n /\ k <= i - 1
                    /\ q[i] = p[i - 1] /\ p[i - 1] \in 1..n
      <3>1. CASE i < k
        <4>1. i \in 1..n
          BY <2>2, <3>1
        <4>. QED
          BY <2>4, <3>1, <4>1
      <3>2. CASE i = k
        BY <2>2, <3>2
      <3>3. CASE i > k
        <4>1. i - 1 \in 1..n /\ k <= i - 1 /\ ~(i < k) /\ i # k
          BY <2>2, <3>3
        <4>. QED
          BY <2>4, <3>3, <4>1
      <3>. QED
        BY <2>2, <3>1, <3>2, <3>3
    <2>7. q \in [1..e -> 1..e]
      <3>1. ASSUME NEW i \in 1..e
            PROVE  q[i] \in 1..e
        <4>. HIDE DEF q
        <4>1. q[i] \in 1..n \/ q[i] = e
          BY <2>6
        <4>. QED
          BY <2>2, <4>1
      <3>. QED
        BY <3>1
    <2>. HIDE DEF q
    <2>8. ASSUME NEW i \in 1..e, NEW j \in 1..e, q[i] = q[j]
          PROVE  i = j
      <3>1. e \notin 1..n
        BY <2>2
      <3>2. CASE i = k
        BY <2>6, <2>8, <3>1, <3>2
      <3>3. CASE j = k
        BY <2>6, <2>8, <3>1, <3>3
      <3>4. CASE i # k /\ j # k
        <4>. DEFINE a == IF i < k THEN i ELSE i - 1
                    b == IF j < k THEN j ELSE j - 1
        <4>1. a \in 1..n /\ q[i] = p[a]
          BY <2>2, <2>6, <3>4
        <4>2. b \in 1..n /\ q[j] = p[b]
          BY <2>2, <2>6, <3>4
        <4>3. a = b
          <5>. HIDE DEF a, b
          <5>. QED
            BY <2>4, <2>8, <4>1, <4>2
        <4>. QED
          BY <2>2, <3>4, <4>3
      <3>. QED
        BY <3>2, <3>3, <3>4
    <2>9. ASSUME NEW i \in 1..e, NEW j \in 1..e, i < j
          PROVE  list[q[i]] <= list[q[j]]
      <3>. DEFINE b == j - 1
                  a == i - 1
      <3>1. CASE j < k
        <4>1. i < k /\ i # k /\ ~(i > k) /\ j # k /\ ~(j > k)
          BY <2>2, <2>9, <3>1
        <4>2. /\ i \in 1..n /\ q[i] = p[i]
              /\ j \in 1..n /\ q[j] = p[j]
          BY <2>6, <4>1
        <4>. QED
          BY <2>4, <2>9, <4>2
      <3>2. CASE j = k
        <4>1. i < k
          BY <2>2, <2>9, <3>2
        <4>. QED
          BY <2>2, <2>5, <2>6, <3>2, <4>1
      <3>3. CASE j > k
        <4>1. b \in 1..n /\ k <= b /\ q[j] = p[b]
          BY <2>2, <2>6, <3>3
        <4>. HIDE DEF b
        <4>2. CASE i = k
          BY <2>2, <2>5, <2>6, <4>1, <4>2
        <4>3. CASE i < k
          <5>1. i \in 1..n /\ q[i] = p[i] /\ i < b
            BY <2>2, <2>6, <4>1, <4>3
          <5>. QED
            BY <2>4, <4>1, <5>1
        <4>4. CASE i > k
          <5>1. a \in 1..n /\ q[i] = p[a]
            BY <2>2, <2>6, <4>4
          <5>2. a < b
            BY <2>2, <2>9 DEF b
          <5>. HIDE DEF a
          <5>. QED
            BY <2>4, <4>1, <5>1, <5>2
        <4>. QED
          BY <2>2, <4>2, <4>3, <4>4
      <3>. QED
        BY <2>2, <3>1, <3>2, <3>3
    <2>10. Sorts(q, e)
      BY <2>7, <2>8, <2>9 DEF Sorts
    <2>. QED
      BY <2>10 DEF e
  <1>. HIDE DEF S
  <1>4. l \in S
    BY <1>1, <1>2, <1>3, NatInd
  <1>5. PICK p : Sorts(p, l)
    <2>. HIDE DEF Sorts
    <2>1. l <= l
      BY <1>1
    <2>. QED
      BY <1>4, <2>1 DEF S
  <1>. QED
    BY <1>1, <1>5 DEF Ascends, IsInjective

LEMMA SortedAscends ==
    ASSUME NEW list \in Seq(Nat)
    PROVE  \E p \in [1..Len(list) -> 1..Len(list)] :
              /\ \A i, j \in 1..Len(list) : p[i] = p[j] => i = j
              /\ \A i, j \in 1..Len(list) :
                    i < j => list[p[i]] <= list[p[j]]
              /\ \A i \in 1..Len(list) : Sorted(list)[i] = list[p[i]]
  <1>. DEFINE p == CHOOSE p \in [DOMAIN list -> DOMAIN list] :
                      Ascends(list, p)
  <1>1. DOMAIN list = 1..Len(list)
    BY LenProperties
  <1>2. p \in [DOMAIN list -> DOMAIN list] /\ Ascends(list, p)
    BY OrderExists
  <1>3. Sorted(list) = [i \in DOMAIN list |-> list[p[i]]]
    BY DEF Sorted
  <1>. HIDE DEF p
  <1>. QED
    BY <1>1, <1>2, <1>3 DEF Ascends, IsInjective

\* The numbers of samples above and up to the k-th one in order.
LEMMA Covered ==
    ASSUME NEW list \in Seq(Nat), NEW k \in 1..Len(list)
    PROVE  LET x      == Sorted(list)[k]
               longer == {i \in DOMAIN list : list[i] > x}
               upto   == {i \in DOMAIN list : list[i] <= x}
           IN /\ x \in Range(list)
              /\ Cardinality(longer) \in Nat
              /\ Cardinality(longer) <= Len(list) - k
              /\ Cardinality(upto) \in Nat
              /\ Cardinality(upto) >= k
  <1>. DEFINE l == Len(list)
              x == Sorted(list)[k]
              longer == {i \in DOMAIN list : list[i] > x}
              upto == {i \in DOMAIN list : list[i] <= x}
  <1>1. l \in Nat /\ DOMAIN list = 1..l /\ \A i \in 1..l : list[i] \in Nat
    BY ElementOfSeq, LenProperties
  <1>2. PICK p \in [1..l -> 1..l] :
              /\ \A i, j \in 1..l : p[i] = p[j] => i = j
              /\ \A i, j \in 1..l : i < j => list[p[i]] <= list[p[j]]
              /\ \A i \in 1..l : Sorted(list)[i] = list[p[i]]
    BY SortedAscends
  <1>3. x = list[p[k]] /\ p[k] \in 1..l /\ x \in Nat
    BY <1>1, <1>2
  <1>4. x \in Range(list)
    BY <1>1, <1>3 DEF Range
  <1>. HIDE DEF x, l
  <1>5. longer \subseteq 1..l /\ upto \subseteq 1..l
    BY <1>1
  <1>6. IsFiniteSet(1..l) /\ Cardinality(1..l) = l
    BY <1>1, FS_Interval
  <1>7. IsFiniteSet(longer) /\ IsFiniteSet(upto)
        /\ Cardinality(longer) \in Nat /\ Cardinality(upto) \in Nat
    <2>. HIDE DEF longer, upto
    <2>. QED
      BY <1>5, <1>6, FS_Subset, FS_CardinalityType
  <1>8. Cardinality(upto) >= k
    <2>. DEFINE f == [i \in 1..k |-> p[i]]
    <2>1. ASSUME NEW i \in 1..k
          PROVE  p[i] \in upto
      <3>1. i \in 1..l /\ k \in 1..l /\ (i < k \/ i = k)
        BY <1>1 DEF l
      <3>2. p[i] \in 1..l /\ list[p[i]] \in Nat
        BY <1>1, <1>2, <3>1
      <3>3. list[p[i]] <= x
        BY <1>2, <1>3, <3>1, <3>2
      <3>. QED
        BY <1>1, <3>2, <3>3
    <2>. HIDE DEF upto
    <2>2. \A i \in 1..k : i \in 1..l
      BY <1>1 DEF l
    <2>3. f \in Injection(1..k, upto)
      BY <1>2, <2>1, <2>2 DEF Injection, IsInjective
    <2>. HIDE DEF f
    <2>4. Cardinality(1..k) <= Cardinality(upto)
      BY <1>7, <2>3, FS_Injection
    <2>5. k \in Nat /\ k > 0
      BY <1>1 DEF l
    <2>6. Cardinality(1..k) = k
      BY <2>5, FS_Interval
    <2>. QED
      BY <1>7, <2>4, <2>5, <2>6
  <1>9. Cardinality(longer) <= l - k
    <2>1. p \in Injection(1..l, 1..l)
      BY <1>2 DEF Injection, IsInjective
    <2>2. p \in Surjection(1..l, 1..l)
      BY <1>6, <2>1, FS_Injection
    <2>3. \A i \in 1..l : \E j \in 1..l : p[j] = i
      BY <2>2 DEF Surjection
    <2>. DEFINE place(i) == CHOOSE j \in 1..l : p[j] = i
                g == [i \in longer |-> place(i)]
    <2>4. ASSUME NEW i \in longer
          PROVE  place(i) \in k + 1..l /\ p[place(i)] = i
      <3>1. i \in 1..l /\ list[i] > x
        BY <1>1
      <3>2. place(i) \in 1..l /\ p[place(i)] = i
        BY <2>3, <3>1
      <3>. HIDE DEF place, longer
      <3>3. k \in 1..l
        BY DEF l
      <3>4. ASSUME place(i) <= k
            PROVE  FALSE
        <4>1. list[i] \in Nat
          BY <1>1, <3>1
        <4>2. list[p[place(i)]] <= list[p[k]]
          <5>1. CASE place(i) = k
            BY <1>3, <3>2, <4>1, <5>1
          <5>2. CASE place(i) < k
            BY <1>2, <3>2, <3>3, <5>2
          <5>. QED
            BY <3>2, <3>3, <3>4, <5>1, <5>2
        <4>. QED
          BY <1>3, <3>1, <3>2, <4>1, <4>2
      <3>. QED
        BY <1>1, <3>2, <3>3, <3>4
    <2>. HIDE DEF place, longer
    <2>5. g \in Injection(longer, k + 1..l)
      <3>1. g \in [longer -> k + 1..l]
        BY <2>4
      <3>2. ASSUME NEW i \in longer, NEW j \in longer, g[i] = g[j]
            PROVE  i = j
        BY <2>4, <3>2
      <3>. QED
        BY <3>1, <3>2 DEF Injection, IsInjective
    <2>. HIDE DEF g
    <2>6. k \in Nat /\ k <= l
      BY <1>1 DEF l
    <2>7. IsFiniteSet(k + 1..l) /\ Cardinality(k + 1..l) = l - k
      <3>. DEFINE a == k + 1
      <3>1. a \in Int /\ l \in Int
        BY <1>1, <2>6
      <3>2. IsFiniteSet(a..l)
            /\ Cardinality(a..l) = IF a > l THEN 0 ELSE l - a + 1
        BY <3>1, FS_Interval
      <3>3. (IF a > l THEN 0 ELSE l - a + 1) = l - k
        BY <1>1, <2>6
      <3>. QED
        BY <3>2, <3>3
    <2>8. Cardinality(longer) <= Cardinality(k + 1..l)
      BY <2>5, <2>7, FS_Injection
    <2>. QED
      BY <2>7, <2>8
  <1>. QED
    BY <1>4, <1>7, <1>8, <1>9 DEF l, x

\* What is reported of a list.
LEMMA PercentileProperties ==
    ASSUME NEW list \in Seq(Nat)
    PROVE  LET x      == Percentile(list)
               longer == {i \in DOMAIN list : list[i] > x}
               upto   == {i \in DOMAIN list : list[i] <= x}
           IN IF Len(list) * Percent < 100 THEN x = 0
              ELSE /\ x \in Range(list)
                   /\ Cardinality(longer) * 100 <= Len(list) * (100 - Percent)
                   /\ Cardinality(upto) * 100 > Len(list) * Percent
  <1>. DEFINE l == Len(list)
              c == l * Percent
              length == c \div 100
              x == Percentile(list)
              longer == {i \in DOMAIN list : list[i] > x}
              upto == {i \in DOMAIN list : list[i] <= x}
  <1>1. l \in Nat /\ Percent \in 1..99
    BY LenProperties, EvaluationAssumption
  <1>2. \A a \in Nat, b \in 1..99 :
           /\ a * b \in Nat /\ a * (100 - b) = a * 100 - a * b
           /\ (a # 0 => a * b < a * 100) /\ (a = 0 => a * b = 0)
    <2>1. ASSUME NEW a \in Nat, NEW b \in 1..99
          PROVE  a * (100 - b) = a * 100 - a * b
      OBVIOUS
    <2>2. ASSUME NEW a \in Nat, NEW b \in 1..99
          PROVE  a * b \in Nat
      OBVIOUS
    <2>3. ASSUME NEW a \in Nat, NEW b \in 1..99, a # 0
          PROVE  a * b < a * 100
      <3>1. \A m, n \in Nat : m > 0 /\ n > 0 => m * n > 0
        OBVIOUS
      <3>. DEFINE n == 100 - b
      <3>2. n \in Nat /\ n > 0 /\ a > 0
        BY <2>3
      <3>3. a * n = a * 100 - a * b
        BY <2>1
      <3>. HIDE DEF n
      <3>4. a * n > 0 /\ a * b \in Nat /\ a * n \in Nat
        BY <2>2, <3>1, <3>2
      <3>. QED
        BY <3>3, <3>4
    <2>4. ASSUME NEW a \in Nat, NEW b \in 1..99, a = 0
          PROVE  a * b = 0
      <3>1. \A n \in Nat : 0 * n = 0
        OBVIOUS
      <3>. QED
        BY <2>4, <3>1
    <2>. QED
      BY <2>1, <2>2, <2>3, <2>4
  <1>3. c \in Nat /\ l * (100 - Percent) = l * 100 - c
        /\ (l # 0 => c < l * 100) /\ (l = 0 => c = 0)
    BY <1>1, <1>2
  <1>4. x = IF length = 0 THEN 0 ELSE Sorted(list)[length + 1]
    BY DEF Percentile
  <1>. HIDE DEF l, c, x
  <1>5. /\ length \in Nat /\ (length = 0 <=> c < 100)
        /\ length * 100 <= c /\ (length + 1) * 100 > c
    BY <1>3
  <1>6. CASE c < 100
    BY <1>4, <1>5, <1>6 DEF l, c, x
  <1>7. CASE ~(c < 100)
    <2>. DEFINE k == length + 1
    <2>1. k \in 1..l
      BY <1>1, <1>3, <1>5, <1>7
    <2>2. x = Sorted(list)[k]
      BY <1>4, <1>5, <1>7
    <2>3. k \in Nat /\ k * 100 > c
      BY <1>5
    <2>. HIDE DEF k
    <2>4. /\ x \in Range(list)
          /\ Cardinality(longer) \in Nat /\ Cardinality(longer) <= l - k
          /\ Cardinality(upto) \in Nat /\ Cardinality(upto) >= k
      BY <2>1, <2>2, Covered DEF l
    <2>. HIDE DEF longer, upto
    <2>5. Cardinality(longer) * 100 <= l * (100 - Percent)
      BY <1>1, <1>3, <2>3, <2>4
    <2>6. Cardinality(upto) * 100 > c
      BY <1>3, <2>3, <2>4
    <2>. QED
      BY <1>7, <2>4, <2>5, <2>6 DEF l, c, x, longer, upto
  <1>. QED
    BY <1>6, <1>7

\* What LinkStats reports as the percentile of its samples covers Percent of
\* 100 of them, for every list: the place is never behind the end, and a
\* list too short to have one is reported as 0.
THEOREM PercentileReported == Spec => PercentileCovers
  <1>. DEFINE A ==
         LET list == link.listOfQueueLengths
             longer == {i \in DOMAIN list : list[i] > seen'.percentile}
         IN seen'.reports > seen.reports =>
              IF Len(list) * Percent < 100 THEN seen'.percentile = 0
              ELSE /\ seen'.percentile \in Range(list)
                   /\ Cardinality(longer) * 100 <= Len(list) * (100 - Percent)
                   /\ Cardinality({i \in DOMAIN list :
                                     list[i] <= seen'.percentile})
                        * 100 > Len(list) * Percent
  <1>1. ASSUME EInv, Next
        PROVE  A
    <2>1. CounterType
      BY <1>1 DEF EInv, SimType
    <2>2. CASE SizeReset
      <3>. DEFINE list == link.listOfQueueLengths
      <3>1. list \in Seq(Nat)
        BY <2>1 DEF CounterType
      <3>2. seen'.percentile = Percentile(list)
        BY <2>1, <2>2 DEF SizeReset, CounterType
      <3>. HIDE DEF list
      <3>. QED
        BY <3>1, <3>2, PercentileProperties DEF list
    <2>3. CASE seen'.reports = seen.reports
      BY <2>1, <2>3 DEF CounterType
    <2>4. CASE Stop
      <3>1. seen'.reports = 0
        BY <2>4 DEF Stop, NothingYet
      <3>. QED
        BY <2>1, <3>1 DEF CounterType
    <2>5. CASE Parsing
      <3>1. Parses
        BY <1>1, <2>5, ParsingParses DEF EInv
      <3>. QED
        BY <2>3, <3>1 DEF Parses, sim
    <2>6. CASE SetUp
      BY <2>3, <2>6 DEF SetUp
    <2>7. CASE StartApplication \/ DynamicSocketFitter
      BY <2>3, <2>7 DEF StartApplication, DynamicSocketFitter
    <2>8. CASE ForwardElsewhere \/ ForwardToBottleneck
      BY <2>1, <2>3, <2>8
         DEF ForwardElsewhere, ForwardToBottleneck, CounterType
    <2>9. CASE Deliver
      BY <2>3, <2>9 DEF Deliver
    <2>10. CASE \E k \in SocketKinds : Change(k)
      BY <2>1, <2>3, <2>10 DEF Change, CounterType
    <2>11. CASE ThroughputFinder
      BY <2>1, <2>3, <2>11 DEF ThroughputFinder, CounterType
    <2>12. CASE CreateGraph
      BY <2>3, <2>12 DEF CreateGraph, sim
    <2>. HIDE DEF A
    <2>. QED
      BY <1>1, <2>2, <2>4, <2>5, <2>6, <2>7, <2>8, <2>9, <2>10, <2>11, <2>12
         DEF Next, Parsing
  <1>2. ASSUME EInv, [Next]_vars
        PROVE  [A]_vars
    BY <1>1, <1>2
  <1>. QED
    BY <1>2, Invariant, PTL DEF Spec, PercentileCovers
=============================================================================

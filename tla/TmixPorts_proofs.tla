--------------------------- MODULE TmixPorts_proofs ---------------------------
(***************************************************************************)
(* The port allocator gives out each port once, and so the rule table has  *)
(* the rules of each vector, for any number of pairs, ports and vectors.   *)
(* A pair can start as many vectors as it has ports, and the program stops *)
(* at the next one.                                                        *)
(***************************************************************************)
EXTENDS TmixPorts, FunctionTheorems, FiniteSetTheorems, TLAPS

-----------------------------------------------------------------------------
(* The invariant.                                                          *)

\* Nothing is ever given back.
NothingFree == \A p \in Pairs : available[p] = {}

\* Ports and rules are below the next new port.
StartedBelowTop == \A a \in started : a.port < top[a.pair]

RulesBelowTop == \A k \in DOMAIN rules : k.port < top[k.pair]

\* A port below it was assigned to a vector.
AssignedOnce ==
    \A p \in Pairs : \A n \in FirstPort .. top[p] - 1 :
      \E a \in started : a.pair = p /\ a.port = n

OutOfPorts == fatal = "outOfPorts" => \E p \in Pairs : top[p] = LastPort

IInv ==
    /\ TypeOK
    /\ PortsDistinct
    /\ NothingFree
    /\ StartedBelowTop
    /\ RulesBelowTop
    /\ AssignedOnce
    /\ OutOfPorts
    /\ RuleOfVector

-----------------------------------------------------------------------------
(* The operators.                                                          *)

\* A vector gets the next new port.
LEMMA TakesNew ==
    ASSUME TypeOK, NothingFree, NEW p \in Pairs, CanAllocate(p), TakePort(p)
    PROVE  /\ AllocatePort(p) = top[p]
           /\ top[p] \in Ports
           /\ top' \in [Pairs -> FirstPort..LastPort]
           /\ \A q \in Pairs : top'[q] = IF q = p THEN top[p] + 1 ELSE top[q]
           /\ available' = available
  <1>1. available[p] = {}
    BY DEF NothingFree
  <1>2. top[p] \in FirstPort..LastPort /\ FirstPort \in Nat /\ LastPort \in Nat
    BY PortsAssumption DEF TypeOK
  <1>3. AllocatePort(p) = top[p] /\ top[p] \in Ports
    BY <1>1, <1>2 DEF AllocatePort, CanAllocate, Ports
  <1>4. top' = [top EXCEPT ![p] = @ + 1] /\ available' = available
    BY <1>1 DEF TakePort
  <1>5. \A q \in Pairs : top'[q] = IF q = p THEN top[p] + 1 ELSE top[q]
    BY <1>4 DEF TypeOK
  <1>6. top[p] + 1 \in FirstPort..LastPort
    BY <1>2, <1>3 DEF Ports
  <1>7. top' \in [Pairs -> FirstPort..LastPort]
    BY <1>4, <1>6 DEF TypeOK
  <1>. QED
    BY <1>3, <1>4, <1>5, <1>7

\* The vector that is replayed is the one that was added, but for losses.
LEMMA AsReplayedType ==
    ASSUME NEW p, NEW v \in Vector
    PROVE  AsReplayed(p, v) \in Vector
  BY DEF AsReplayed, Vector

-----------------------------------------------------------------------------
(* The invariant is inductive.                                             *)

LEMMA Initially == Init => IInv
  <1>. SUFFICES ASSUME Init PROVE IInv
    OBVIOUS
  <1>. USE DEF Init
  <1>0. FirstPort \in Nat /\ LastPort \in Nat /\ FirstPort <= LastPort /\ MaxAdded \in Nat
    BY PortsAssumption
  <1>1. TypeOK
    <2>1. FirstPort \in FirstPort..LastPort /\ 0 \in 0..MaxAdded
      BY <1>0
    <2>2. DOMAIN rules = {}
      OBVIOUS
    <2>. QED
      BY <2>1, <2>2 DEF TypeOK
  <1>2. AssignedOnce
    BY <1>0 DEF AssignedOnce
  <1>3. NothingFree /\ RulesBelowTop
    BY DEF NothingFree, RulesBelowTop
  <1>. QED
    BY <1>1, <1>2, <1>3 DEF IInv, PortsDistinct, StartedBelowTop, OutOfPorts,
       RuleOfVector

\* A vector starts: it gets a port that none had, and its rules.
LEMMA Starting ==
    ASSUME IInv, NEW e \in scheduled, StartConnectionVector(e), CanAllocate(e.pair)
    PROVE  IInv'
  <1>. USE DEF IInv
  <1>1. PICK p : p = e.pair
    OBVIOUS
  <1>2. PICK v : v = AsReplayed(p, e.vector)
    OBVIOUS
  <1>3. p \in Pairs /\ e.id \in Nat /\ v \in Vector
    BY <1>1, <1>2, VectorsAssumption, AsReplayedType DEF TypeOK, Event
  <1>4. TakePort(p)
    BY <1>1 DEF StartConnectionVector
  <1>5. PICK port : port = top[p]
    OBVIOUS
  <1>6. /\ AllocatePort(p) = port
        /\ port \in Ports
        /\ top' \in [Pairs -> FirstPort..LastPort]
        /\ \A q \in Pairs : top'[q] = IF q = p THEN port + 1 ELSE top[q]
        /\ available' = available
    BY <1>1, <1>3, <1>4, <1>5, TakesNew
  <1>7. PICK a : a = [id |-> e.id, pair |-> p, port |-> port, vector |-> v]
    OBVIOUS
  <1>8. /\ Running
        /\ scheduled' = scheduled \ {e}
        /\ rules' = RulesWith(p, port, v)
        /\ started' = started \cup {a}
        /\ active' = active \cup {a}
        /\ UNCHANGED <<now, lossless, added, fatal>>
    BY <1>1, <1>2, <1>6, <1>7 DEF StartConnectionVector
  <1>9. a \in Replay /\ a.pair = p /\ a.port = port /\ a.vector = v
    BY <1>3, <1>6, <1>7 DEF Replay
  <1>10. \A q \in Pairs : top[q] \in Nat
    BY PortsAssumption DEF TypeOK
  <1>11. \A b \in started : /\ b.pair \in Pairs /\ b.port \in Nat
                            /\ b.port < top[b.pair]
    BY PortsAssumption DEF TypeOK, Replay, Ports, StartedBelowTop
  <1>12. PICK ka, ki : ka = KeyFrom("A", p, port) /\ ki = KeyFrom("I", p, port)
    OBVIOUS
  <1>13. /\ DOMAIN rules' = DOMAIN rules \cup {ka, ki}
         /\ \A j \in DOMAIN rules : rules'[j] = rules[j]
         /\ ka \notin DOMAIN rules => rules'[ka] = RuleFrom("A", v)
         /\ ki \notin DOMAIN rules => rules'[ki] = RuleFrom("I", v)
    <2>1. PICK r : r = Insert(rules, ka, RuleFrom("A", v))
      OBVIOUS
    <2>2. rules' = Insert(r, ki, RuleFrom("I", v))
      BY <1>8, <1>12, <2>1 DEF RulesWith
    <2>3. ka # ki
      BY <1>12 DEF KeyFrom
    <2>4. /\ DOMAIN r = DOMAIN rules \cup {ka}
          /\ \A j \in DOMAIN rules : r[j] = rules[j]
          /\ ka \notin DOMAIN rules => r[ka] = RuleFrom("A", v)
      BY <2>1 DEF Insert
    <2>5. /\ DOMAIN rules' = DOMAIN r \cup {ki}
          /\ \A j \in DOMAIN r : rules'[j] = r[j]
          /\ ki \notin DOMAIN r => rules'[ki] = RuleFrom("I", v)
      BY <2>2 DEF Insert
    <2>. QED
      BY <2>3, <2>4, <2>5
  <1>14. /\ ka \in Key /\ ki \in Key
         /\ ka.pair = p /\ ki.pair = p /\ ka.port = port /\ ki.port = port
    BY <1>3, <1>6, <1>12 DEF KeyFrom, Key
  <1>15. RuleFrom("A", v) \in DelayBoxRule /\ RuleFrom("I", v) \in DelayBoxRule
    BY <1>3 DEF RuleFrom, DelayBoxRule, Vector
  <1>16. ka \notin DOMAIN rules /\ ki \notin DOMAIN rules
    BY <1>3, <1>5, <1>10, <1>14 DEF RulesBelowTop
  <1>17. TypeOK'
    <2>1. DOMAIN rules' \subseteq Key
      BY <1>13, <1>14 DEF TypeOK
    <2>2. \A k \in DOMAIN rules' : rules'[k] \in DelayBoxRule
      BY <1>13, <1>15, <1>16 DEF TypeOK
    <2>. QED
      BY <1>6, <1>8, <1>9, <2>1, <2>2 DEF TypeOK
  <1>18. PortsDistinct'
    <2>1. \A b \in started : ~ (b.pair = p /\ b.port = port)
      BY <1>3, <1>5, <1>10, <1>11
    <2>. QED
      BY <1>8, <1>9, <2>1 DEF PortsDistinct
  <1>19. NothingFree'
    BY <1>6 DEF NothingFree
  <1>20. StartedBelowTop'
    BY <1>3, <1>5, <1>6, <1>8, <1>9, <1>10, <1>11 DEF StartedBelowTop
  <1>21. RulesBelowTop'
    <2>. SUFFICES ASSUME NEW k \in DOMAIN rules' PROVE k.port < top'[k.pair]
      BY DEF RulesBelowTop
    <2>1. CASE k \in DOMAIN rules
      <3>1. k.pair \in Pairs /\ k.port \in Nat /\ k.port < top[k.pair]
        BY <2>1, PortsAssumption DEF RulesBelowTop, TypeOK, Key, Ports
      <3>. QED
        BY <1>3, <1>5, <1>6, <1>10, <3>1
    <2>2. CASE k \in {ka, ki}
      BY <1>3, <1>5, <1>6, <1>10, <1>14, <2>2
    <2>. QED
      BY <1>13, <2>1, <2>2
  <1>22. AssignedOnce'
    <2>. SUFFICES ASSUME NEW q \in Pairs, NEW n \in FirstPort .. top'[q] - 1
                  PROVE  \E b \in started' : b.pair = q /\ b.port = n
      BY DEF AssignedOnce
    <2>1. CASE n \in FirstPort .. top[q] - 1
      BY <1>8, <2>1 DEF AssignedOnce
    <2>2. CASE n \notin FirstPort .. top[q] - 1
      <3>1. FirstPort \in Nat
        BY PortsAssumption
      <3>2. q = p /\ n = port
        BY <1>3, <1>5, <1>6, <1>10, <2>2, <3>1
      <3>. QED
        BY <1>8, <1>9, <3>2
    <2>. QED
      BY <2>1, <2>2
  <1>23. RuleOfVector'
    <2>. SUFFICES ASSUME NEW b \in started', NEW side \in {"I", "A"}
                  PROVE  LET k == KeyFrom(side, b.pair, b.port)
                         IN  k \in DOMAIN rules' /\ rules'[k] = RuleFrom(side, b.vector)
      BY DEF RuleOfVector
    <2>1. CASE b \in started
      BY <1>13, <2>1 DEF RuleOfVector
    <2>2. CASE b = a
      BY <1>9, <1>12, <1>13, <1>16, <2>2
    <2>. QED
      BY <1>8, <2>1, <2>2
  <1>24. OutOfPorts'
    BY <1>8 DEF Running, OutOfPorts
  <1>. QED
    BY <1>17, <1>18, <1>19, <1>20, <1>21, <1>22, <1>23, <1>24

\* The ports and the rules stay as they are.
ledger == <<top, available, rules, started>>

LEMMA Elsewhere ==
    ASSUME IInv, TypeOK', UNCHANGED ledger, OutOfPorts'
    PROVE  IInv'
  BY DEF ledger, IInv, PortsDistinct, NothingFree, StartedBelowTop,
     RulesBelowTop, AssignedOnce, RuleOfVector

LEMMA Inductive == IInv /\ [Next]_vars => IInv'
  <1>. SUFFICES ASSUME IInv, [Next]_vars PROVE IInv'
    OBVIOUS
  <1>0. TypeOK /\ OutOfPorts
    BY DEF IInv
  <1>1. ASSUME NEW p \in Pairs, NEW b \in BOOLEAN, SetLossless(p, b) PROVE IInv'
    <2>1. TypeOK'
      BY <1>0, <1>1 DEF SetLossless, TypeOK
    <2>. QED
      BY <1>0, <1>1, <2>1, Elsewhere DEF SetLossless, ledger, OutOfPorts
  <1>2. ASSUME NEW p \in Pairs, NEW v \in Vectors, AddConnectionVector(p, v) PROVE IInv'
    <2>1. /\ added \in 0..MaxAdded /\ added < MaxAdded /\ MaxAdded \in Nat /\ now \in Nat
          /\ v.start \in Nat
      BY <1>0, <1>2, PortsAssumption, VectorsAssumption DEF AddConnectionVector, TypeOK, Vector
    <2>2. added + 1 \in 0..MaxAdded /\ added \in Nat /\ now + v.start \in Nat
      BY <2>1
    <2>3. [id |-> added, due |-> now + v.start, pair |-> p, vector |-> v] \in Event
      BY <2>2 DEF Event
    <2>4. TypeOK'
      BY <1>0, <1>2, <2>2, <2>3 DEF AddConnectionVector, TypeOK
    <2>. QED
      BY <1>0, <1>2, <2>4, Elsewhere DEF AddConnectionVector, ledger, OutOfPorts
  <1>3. ASSUME NEW e \in scheduled, StartConnectionVector(e) PROVE IInv'
    <2>1. CASE CanAllocate(e.pair)
      BY <1>3, <2>1, Starting
    <2>2. CASE ~CanAllocate(e.pair)
      <3>1. /\ fatal' = "outOfPorts"
            /\ scheduled' = scheduled \ {e}
            /\ UNCHANGED <<ledger, active, now, lossless, added>>
        BY <1>3, <2>2 DEF StartConnectionVector, ledger
      <3>2. e.pair \in Pairs /\ top[e.pair] = LastPort
        BY <1>0, <2>2 DEF TypeOK, Event, CanAllocate
      <3>3. TypeOK'
        BY <1>0, <3>1 DEF TypeOK, ledger
      <3>4. OutOfPorts'
        BY <3>1, <3>2 DEF OutOfPorts, ledger
      <3>. QED
        BY <3>1, <3>3, <3>4, Elsewhere
    <2>. QED
      BY <2>1, <2>2
  <1>4. ASSUME NEW a \in active, Complete(a) PROVE IInv'
    <2>1. TypeOK'
      BY <1>0, <1>4 DEF Complete, TypeOK
    <2>. QED
      BY <1>0, <1>4, <2>1, Elsewhere DEF Complete, ledger, OutOfPorts
  <1>5. CASE Tick
    <2>1. TypeOK'
      BY <1>0, <1>5 DEF Tick, TypeOK
    <2>. QED
      BY <1>0, <1>5, <2>1, Elsewhere DEF Tick, ledger, OutOfPorts
  <1>6. CASE UNCHANGED vars
    <2>1. TypeOK'
      BY <1>0, <1>6 DEF vars, TypeOK
    <2>. QED
      BY <1>0, <1>6, <2>1, Elsewhere DEF vars, ledger, OutOfPorts
  <1>. QED
    BY <1>1, <1>2, <1>3, <1>4, <1>5, <1>6 DEF Next

LEMMA Invariance == Spec => []IInv
  BY Initially, Inductive, PTL DEF Spec

-----------------------------------------------------------------------------
(* What follows from it.                                                   *)

\* Ports, rules and vectors keep their types; the allocator gives out ports
\* from its range only.
THEOREM TypeCorrectness == Spec => []TypeOK
  <1>1. IInv => TypeOK
    BY DEF IInv
  <1>. QED
    BY <1>1, Invariance, PTL

\* AllocatePort: no two vectors of a pair ever get one port.
THEOREM Distinct == Spec => []PortsDistinct
  <1>1. IInv => PortsDistinct
    BY DEF IInv
  <1>. QED
    BY <1>1, Invariance, PTL

\* AddRule: the DelayBox has the rules of every vector that was started, and
\* not those of another one.
THEOREM OwnRules == Spec => []RuleOfVector
  <1>1. IInv => RuleOfVector
    BY DEF IInv
  <1>. QED
    BY <1>1, Invariance, PTL

\* There are as many vectors of a pair as ports below its next one.
LEMMA OnePortEach ==
    ASSUME IInv, NEW p \in Pairs
    PROVE  /\ Cardinality(StartedBy(p)) = top[p] - FirstPort
           /\ top[p] \in FirstPort..LastPort
           /\ FirstPort \in Nat /\ LastPort \in Nat
  <1>1. PICK t : t = top[p]
    OBVIOUS
  <1>2. t \in FirstPort..LastPort /\ FirstPort \in Nat /\ LastPort \in Nat
    BY <1>1, PortsAssumption DEF IInv, TypeOK
  <1>3. IsFiniteSet(FirstPort .. t - 1) /\ Cardinality(FirstPort .. t - 1) = t - FirstPort
    <2>1. PICK b \in Int : b = t - 1
      BY <1>2
    <2>2. IsFiniteSet(FirstPort .. b)
      BY <1>2, FS_Interval
    <2>3. Cardinality(FirstPort .. b) = IF FirstPort > b THEN 0 ELSE b - FirstPort + 1
      BY <1>2, FS_Interval
    <2>. QED
      BY <1>2, <2>1, <2>2, <2>3
  <1>. DEFINE S == StartedBy(p)
              f == [a \in S |-> a.port]
  <1>4. \A a \in S : a.port \in FirstPort .. t - 1
    <2>. TAKE a \in S
    <2>1. a \in started /\ a.pair = p
      BY DEF StartedBy
    <2>2. a.port \in Ports /\ a.port < t
      BY <1>1, <2>1 DEF IInv, TypeOK, Replay, StartedBelowTop
    <2>. QED
      BY <1>2, <2>2 DEF Ports
  <1>5. f \in Injection(S, FirstPort .. t - 1)
    <2>1. f \in [S -> FirstPort .. t - 1]
      BY <1>4
    <2>2. \A a, b \in S : a.port = b.port => a = b
      BY DEF StartedBy, IInv, PortsDistinct
    <2>. QED
      BY <2>1, <2>2 DEF Injection, IsInjective
  <1>6. f \in Surjection(S, FirstPort .. t - 1)
    <2>1. \A n \in FirstPort .. t - 1 : \E a \in S : a.port = n
      BY <1>1 DEF StartedBy, IInv, AssignedOnce
    <2>. QED
      BY <1>4, <2>1 DEF Surjection
  <1>. HIDE DEF S, f
  <1>7. ExistsBijection(S, FirstPort .. t - 1)
    BY <1>5, <1>6 DEF ExistsBijection, Bijection
  <1>8. ExistsBijection(FirstPort .. t - 1, S)
    BY <1>7, Fun_ExistsBijSymmetric
  <1>9. Cardinality(S) = t - FirstPort
    BY <1>3, <1>8, FS_Bijection
  <1>. QED
    BY <1>1, <1>2, <1>9 DEF S

\* AllocatePort: "Ran out of port numbers" comes after LastPort - FirstPort
\* vectors of a pair and not before, complete or not.
THEOREM Exhaustion == Spec => []ExhaustedByCount
  <1>1. IInv => ExhaustedByCount
    <2>. SUFFICES ASSUME IInv
                  PROVE  ExhaustedByCount
      OBVIOUS
    <2>1. \A p \in Pairs : Cardinality(StartedBy(p)) <= LastPort - FirstPort
      <3>. TAKE p \in Pairs
      <3>1. PICK t : t = top[p]
        OBVIOUS
      <3>2. /\ Cardinality(StartedBy(p)) = t - FirstPort
            /\ t \in FirstPort..LastPort
            /\ FirstPort \in Nat /\ LastPort \in Nat
        BY <3>1, OnePortEach
      <3>. QED
        BY <3>2
    <2>2. ASSUME fatal = "outOfPorts"
          PROVE  \E p \in Pairs : Cardinality(StartedBy(p)) = LastPort - FirstPort
      <3>1. PICK p \in Pairs : top[p] = LastPort
        BY <2>2 DEF IInv, OutOfPorts
      <3>. QED
        BY <3>1, OnePortEach
    <2>. QED
      BY <2>1, <2>2 DEF ExhaustedByCount
  <1>. QED
    BY <1>1, Invariance, PTL
=============================================================================

-------------------------- MODULE TmixBytes_proofs --------------------------
(***************************************************************************)
(* TmixBytes implements TmixConnection, for all vectors and packets: each  *)
(* packet is the receipt of the ADUs that it completes.  The queues of a   *)
(* worker agree with the vector in bytes, as sums up to a place of it; the *)
(* invariant relates these sums to the ADUs under way.                     *)
(***************************************************************************)
EXTENDS TmixBytes, TmixConnection_proofs

-----------------------------------------------------------------------------
(* Sums of sizes.                                                          *)

\* f has the sums of the sizes of q up to the m-th one.
Sums(q, f, m) ==
    /\ f \in [0..m -> Nat]
    /\ f[0] = 0
    /\ \A n \in 1..m : f[n] = f[n - 1] + q[n].size

LEMMA SumsExist ==
    ASSUME NEW q, NEW l \in Nat, \A n \in 1..l : q[n].size \in Nat
    PROVE  \E f : Sums(q, f, l)
  <1>. DEFINE S == {m \in Nat : m <= l => \E f : Sums(q, f, m)}
  <1>1. 0 \in S
    <2>1. Sums(q, [n \in 0..0 |-> 0], 0)
      BY DEF Sums
    <2>. QED
      BY <2>1
  <1>2. ASSUME NEW m \in Nat, m \in S
        PROVE  m + 1 \in S
    <2>1. SUFFICES ASSUME m + 1 <= l
                   PROVE  \E f : Sums(q, f, m + 1)
      OBVIOUS
    <2>2. PICK f : Sums(q, f, m)
      BY <1>2, <2>1
    <2>. DEFINE g == [n \in 0..m + 1 |->
                        IF n = m + 1 THEN f[m] + q[m + 1].size ELSE f[n]]
    <2>3. /\ f \in [0..m -> Nat] /\ f[0] = 0 /\ f[m] \in Nat
          /\ \A n \in 1..m : f[n] = f[n - 1] + q[n].size
          /\ q[m + 1].size \in Nat
      BY <2>1, <2>2 DEF Sums
    <2>4. g \in [0..m + 1 -> Nat] /\ g[0] = 0
      BY <2>3
    <2>5. ASSUME NEW n \in 1..m + 1
          PROVE  g[n] = g[n - 1] + q[n].size
      <3>1. CASE n = m + 1
        BY <3>1
      <3>2. CASE n \in 1..m
        BY <2>3, <3>2
      <3>. QED
        BY <3>1, <3>2
    <2>. HIDE DEF g
    <2>6. Sums(q, g, m + 1)
      BY <2>4, <2>5 DEF Sums
    <2>. QED
      BY <2>6
  <1>. HIDE DEF S
  <1>3. l \in S
    BY <1>1, <1>2, NatInd
  <1>. QED
    BY <1>3 DEF S

\* BytesUpTo is what its recursive definition says: such a function exists.
LEMMA BytesUpToDef ==
    ASSUME NEW q \in Seq(ADU)
    PROVE  /\ BytesUpTo(q)[0] = 0
           /\ \A n \in 1..Len(q) : /\ BytesUpTo(q)[n] = BytesUpTo(q)[n - 1] + q[n].size
                                   /\ q[n].size \in Nat
           /\ \A n \in 0..Len(q) : BytesUpTo(q)[n] \in Nat
  <1>. DEFINE l == Len(q)
              def(f) == [n \in 0..l |-> IF n = 0 THEN 0
                                        ELSE f[n - 1] + q[n].size]
              S == {m \in Nat : m <= l => BytesUpTo(q)[m] \in Nat}
  <1>1. l \in Nat /\ \A n \in 1..l : q[n].size \in Nat
    <2>1. \A n \in 1..l : q[n] \in ADU
      BY ElementOfSeq
    <2>. QED
      BY <2>1, LenProperties DEF ADU
  <1>2. PICK f : Sums(q, f, l)
    BY <1>1, SumsExist
  <1>3. f = def(f)
    BY <1>1, <1>2 DEF Sums
  <1>4. BytesUpTo(q) = CHOOSE g : g = def(g)
    BY DEF BytesUpTo
  <1>. HIDE DEF def
  <1>5. BytesUpTo(q) = def(BytesUpTo(q))
    BY <1>3, <1>4
  <1>6. /\ BytesUpTo(q)[0] = 0
        /\ \A n \in 1..l : BytesUpTo(q)[n] = BytesUpTo(q)[n - 1] + q[n].size
    BY <1>1, <1>5 DEF def
  <1>. HIDE DEF l
  <1>7. 0 \in S
    BY <1>6
  <1>8. ASSUME NEW m \in Nat, m \in S
        PROVE  m + 1 \in S
    <2>1. SUFFICES ASSUME m + 1 <= l
                   PROVE  BytesUpTo(q)[m + 1] \in Nat
      OBVIOUS
    <2>2. /\ m + 1 \in 1..l /\ m + 1 - 1 = m
          /\ BytesUpTo(q)[m] \in Nat
      BY <1>1, <1>8, <2>1
    <2>. QED
      BY <1>1, <1>6, <2>2
  <1>. HIDE DEF S
  <1>9. Nat \subseteq S
    BY <1>7, <1>8, NatInd
  <1>10. \A n \in 0..l : BytesUpTo(q)[n] \in Nat
    BY <1>1, <1>9 DEF S
  <1>. QED
    BY <1>1, <1>6, <1>10 DEF l

\* Sums over a part of a queue, that is of ADUs of the same sizes.
LEMMA BytesOfPart ==
    ASSUME NEW q \in Seq(ADU), NEW r \in Seq(ADU), NEW k \in Nat,
           k + Len(r) <= Len(q),
           \A i \in 1..Len(r) : r[i].size = q[k + i].size
    PROVE  /\ \A n \in 0..Len(r) :
                 BytesUpTo(r)[n] = BytesUpTo(q)[k + n] - BytesUpTo(q)[k]
           /\ Bytes(r) = BytesUpTo(q)[k + Len(r)] - BytesUpTo(q)[k]
  <1>. DEFINE S == {n \in Nat : n <= Len(r) =>
                      BytesUpTo(r)[n] = BytesUpTo(q)[k + n] - BytesUpTo(q)[k]}
  <1>1. Len(q) \in Nat /\ Len(r) \in Nat
    BY LenProperties
  <1>2. /\ \A n \in 0..Len(q) : BytesUpTo(q)[n] \in Nat
        /\ \A n \in 1..Len(q) : BytesUpTo(q)[n] = BytesUpTo(q)[n - 1] + q[n].size
        /\ BytesUpTo(r)[0] = 0
        /\ \A n \in 1..Len(r) : /\ BytesUpTo(r)[n] = BytesUpTo(r)[n - 1] + r[n].size
                                /\ r[n].size \in Nat
    BY BytesUpToDef
  <1>3. BytesUpTo(q)[k] \in Nat
    BY <1>1, <1>2
  <1>4. 0 \in S
    BY <1>2, <1>3
  <1>5. ASSUME NEW n \in Nat, n \in S
        PROVE  n + 1 \in S
    <2>1. SUFFICES ASSUME n + 1 <= Len(r)
                   PROVE  BytesUpTo(r)[n + 1]
                            = BytesUpTo(q)[k + (n + 1)] - BytesUpTo(q)[k]
      OBVIOUS
    <2>2. BytesUpTo(r)[n] = BytesUpTo(q)[k + n] - BytesUpTo(q)[k]
      BY <1>1, <1>5, <2>1
    <2>3. /\ n + 1 \in 1..Len(r) /\ n + 1 - 1 = n
          /\ k + (n + 1) \in 1..Len(q) /\ k + (n + 1) - 1 = k + n
          /\ k + n \in 0..Len(q)
      BY <1>1, <2>1
    <2>4. BytesUpTo(r)[n + 1] = BytesUpTo(r)[n] + r[n + 1].size
      BY <1>2, <2>3
    <2>5. BytesUpTo(q)[k + (n + 1)] = BytesUpTo(q)[k + n] + q[k + (n + 1)].size
      BY <1>2, <2>3
    <2>6. r[n + 1].size = q[k + (n + 1)].size /\ r[n + 1].size \in Nat
      BY <1>2, <2>3
    <2>7. BytesUpTo(q)[k + n] \in Nat
      BY <1>2, <2>3
    <2>. HIDE DEF S
    <2>. QED
      BY <1>3, <2>2, <2>4, <2>5, <2>6, <2>7
  <1>. HIDE DEF S
  <1>6. Nat \subseteq S
    BY <1>4, <1>5, NatInd
  <1>. QED
    BY <1>1, <1>6 DEF S, Bytes

\* The sums grow, and strictly where an ADU has data.
LEMMA BytesGrow ==
    ASSUME NEW q \in Seq(ADU), NEW a \in 0..Len(q), NEW b \in 0..Len(q), a <= b
    PROVE  /\ BytesUpTo(q)[a] \in Nat /\ BytesUpTo(q)[b] \in Nat
           /\ BytesUpTo(q)[a] <= BytesUpTo(q)[b]
           /\ a < b /\ q[a + 1].size > 0 => BytesUpTo(q)[a] < BytesUpTo(q)[b]
  <1>. DEFINE S == {n \in Nat : n <= Len(q) =>
                      \A m \in 0..n : BytesUpTo(q)[m] <= BytesUpTo(q)[n]}
  <1>1. Len(q) \in Nat
    BY LenProperties
  <1>2. /\ \A n \in 0..Len(q) : BytesUpTo(q)[n] \in Nat
        /\ \A n \in 1..Len(q) : /\ BytesUpTo(q)[n] = BytesUpTo(q)[n - 1] + q[n].size
                                /\ q[n].size \in Nat
    BY BytesUpToDef
  <1>3. 0 \in S
    <2>1. BytesUpTo(q)[0] \in Nat
      BY <1>1, <1>2
    <2>2. \A m \in 0..0 : m = 0
      OBVIOUS
    <2>. QED
      BY <2>1, <2>2
  <1>4. ASSUME NEW n \in Nat, n \in S
        PROVE  n + 1 \in S
    <2>1. SUFFICES ASSUME n + 1 <= Len(q), NEW m \in 0..n + 1
                   PROVE  BytesUpTo(q)[m] <= BytesUpTo(q)[n + 1]
      OBVIOUS
    <2>2. /\ n + 1 \in 1..Len(q) /\ n + 1 - 1 = n /\ n \in 0..Len(q)
          /\ m \in 0..Len(q)
      BY <1>1, <2>1
    <2>3. /\ BytesUpTo(q)[n + 1] = BytesUpTo(q)[n] + q[n + 1].size
          /\ q[n + 1].size \in Nat /\ BytesUpTo(q)[n] \in Nat
          /\ BytesUpTo(q)[m] \in Nat
      BY <1>2, <2>2
    <2>4. CASE m = n + 1
      BY <2>3, <2>4
    <2>5. CASE m \in 0..n
      <3>1. BytesUpTo(q)[m] <= BytesUpTo(q)[n]
        BY <1>1, <1>4, <2>1, <2>5
      <3>. HIDE DEF S
      <3>. QED
        BY <2>3, <3>1
    <2>. QED
      BY <2>1, <2>4, <2>5
  <1>. HIDE DEF S
  <1>5. Nat \subseteq S
    BY <1>3, <1>4, NatInd
  <1>6. \A n, m \in 0..Len(q) : m <= n => BytesUpTo(q)[m] <= BytesUpTo(q)[n]
    BY <1>1, <1>5 DEF S
  <1>7. ASSUME a < b, q[a + 1].size > 0
        PROVE  BytesUpTo(q)[a] < BytesUpTo(q)[b]
    <2>1. a + 1 \in 1..Len(q) /\ a + 1 - 1 = a /\ a + 1 \in 0..Len(q) /\ a + 1 <= b
      BY <1>1, <1>7
    <2>2. /\ BytesUpTo(q)[a + 1] = BytesUpTo(q)[a] + q[a + 1].size
          /\ q[a + 1].size \in Nat
          /\ BytesUpTo(q)[a] \in Nat /\ BytesUpTo(q)[a + 1] \in Nat
          /\ BytesUpTo(q)[b] \in Nat
      BY <1>2, <2>1
    <2>3. BytesUpTo(q)[a + 1] <= BytesUpTo(q)[b]
      BY <1>6, <2>1
    <2>. QED
      BY <1>7, <2>2, <2>3
  <1>. QED
    BY <1>2, <1>6, <1>7

\* A closing ADU has no bytes.
LEMMA DataBytes ==
    ASSUME NEW q \in Seq(ADU)
    PROVE  /\ Bytes(q) \in Nat
           /\ DataLeft(q) \in 0..Len(q)
           /\ Bytes(q) = BytesUpTo(q)[DataLeft(q)]
  <1>1. Len(q) \in Nat /\ (q # <<>> => Len(q) # 0)
    BY LenProperties, EmptySeq
  <1>2. /\ \A n \in 0..Len(q) : BytesUpTo(q)[n] \in Nat
        /\ \A n \in 1..Len(q) : BytesUpTo(q)[n] = BytesUpTo(q)[n - 1] + q[n].size
    BY BytesUpToDef
  <1>3. DataLeft(q) \in Nat /\ DataLeft(q) <= Len(q)
    BY DataLeftProperties
  <1>4. CASE DataLeft(q) = Len(q)
    BY <1>1, <1>2, <1>4 DEF Bytes
  <1>5. CASE DataLeft(q) # Len(q)
    <2>1. q # <<>> /\ q[Len(q)].size = 0 /\ DataLeft(q) = Len(q) - 1
      BY <1>5 DEF DataLeft
    <2>2. Len(q) \in 1..Len(q) /\ Len(q) \in 0..Len(q) /\ Len(q) - 1 \in 0..Len(q)
      BY <1>1, <2>1
    <2>3. BytesUpTo(q)[Len(q)] = BytesUpTo(q)[Len(q) - 1] + 0
      BY <1>2, <2>1, <2>2
    <2>. QED
      BY <1>1, <1>2, <1>3, <2>1, <2>2, <2>3 DEF Bytes
  <1>. QED
    BY <1>4, <1>5

\* The bytes of the first ADUs of a queue and of the other ones.
LEMMA BytesSplit ==
    ASSUME NEW q \in Seq(ADU), NEW k \in 0..Len(q)
    PROVE  /\ Bytes(SubSeq(q, 1, k)) = BytesUpTo(q)[k]
           /\ Bytes(Drop(q, k)) = Bytes(q) - BytesUpTo(q)[k]
           /\ BytesUpTo(q)[k] \in Nat
  <1>1. Len(q) \in Nat /\ k \in Nat
    BY LenProperties
  <1>2. /\ BytesUpTo(q)[0] = 0
        /\ \A n \in 0..Len(q) : BytesUpTo(q)[n] \in Nat
    BY BytesUpToDef
  <1>3. /\ SubSeq(q, 1, k) \in Seq(ADU) /\ Len(SubSeq(q, 1, k)) = k
        /\ \A i \in 1..k : SubSeq(q, 1, k)[i] = q[i]
    <2>1. \A i \in 1..k : q[i] \in ADU
      BY <1>1, ElementOfSeq
    <2>2. /\ SubSeq(q, 1, k) \in Seq(ADU)
          /\ Len(SubSeq(q, 1, k)) = IF 1 <= k THEN k - 1 + 1 ELSE 0
          /\ \A i \in 1..k - 1 + 1 : SubSeq(q, 1, k)[i] = q[1 + i - 1]
      BY <1>1, <2>1, SubSeqProperties
    <2>. QED
      BY <1>1, <2>2
  <1>4. Bytes(SubSeq(q, 1, k)) = BytesUpTo(q)[0 + k] - BytesUpTo(q)[0]
    <2>. DEFINE r == SubSeq(q, 1, k)
    <2>. DEFINE z == 0
    <2>1. /\ r \in Seq(ADU) /\ z + Len(r) <= Len(q) /\ Len(r) = k /\ z \in Nat
          /\ \A i \in 1..Len(r) : r[i].size = q[z + i].size
      BY <1>1, <1>3
    <2>. HIDE DEF r, z
    <2>2. Bytes(r) = BytesUpTo(q)[z + Len(r)] - BytesUpTo(q)[z]
      BY <2>1, BytesOfPart
    <2>. QED
      BY <2>1, <2>2 DEF r, z
  <1>5. Bytes(Drop(q, k)) = BytesUpTo(q)[Len(q)] - BytesUpTo(q)[k]
    <2>. DEFINE r == Drop(q, k)
    <2>1. /\ r \in Seq(ADU) /\ Len(r) = Len(q) - k
          /\ \A i \in 1..Len(q) - k : r[i] = q[k + i]
      BY DropProperties
    <2>2. k + Len(r) = Len(q) /\ \A i \in 1..Len(r) : r[i].size = q[k + i].size
      BY <1>1, <2>1
    <2>. HIDE DEF r
    <2>. DEFINE e == k + Len(r)
    <2>3. e <= Len(q) /\ k \in Nat
      BY <1>1, <2>2
    <2>4. Bytes(r) = BytesUpTo(q)[e] - BytesUpTo(q)[k]
      BY <2>1, <2>2, <2>3, BytesOfPart
    <2>. QED
      BY <2>2, <2>4 DEF r
  <1>. QED
    BY <1>1, <1>2, <1>4, <1>5 DEF Bytes

\* A packet that ends within the first ADU of a queue.
LEMMA BytesLess ==
    ASSUME NEW q \in Seq(ADU), q # <<>>, NEW b \in 0..q[1].size
    PROVE  /\ LessBytes(q, b) \in Seq(ADU)
           /\ Len(LessBytes(q, b)) = Len(q)
           /\ LessBytes(q, b)[1].size = q[1].size - b
           /\ \A i \in 2..Len(q) : LessBytes(q, b)[i] = q[i]
           /\ Bytes(LessBytes(q, b)) = Bytes(q) - b
  <1>. DEFINE r == LessBytes(q, b)
              e == [q EXCEPT ![1].size = @ - b]
  <1>1. Len(q) \in Nat \ {0} /\ 1 \in 1..Len(q) /\ q[1] \in ADU /\ q[1].size \in Nat
    <2>1. Len(q) \in Nat \ {0}
      BY EmptySeq
    <2>2. q[1] \in ADU
      BY <2>1, ElementOfSeq
    <2>. QED
      BY <2>1, <2>2 DEF ADU
  <1>2. b \in Nat /\ q[1].size - b \in Nat
    BY <1>1
  <1>3. /\ r \in Seq(ADU) /\ Len(r) = Len(q) /\ r[1].size = q[1].size - b
        /\ \A i \in 2..Len(q) : r[i] = q[i]
    <2>1. CASE b = 0
      BY <1>1, <2>1 DEF LessBytes
    <2>2. CASE b # 0
      <3>1. r = [q EXCEPT ![1] = [q[1] EXCEPT !.size = q[1].size - b]]
        BY <2>2 DEF LessBytes
      <3>. DEFINE a == [q[1] EXCEPT !.size = q[1].size - b]
      <3>2. a \in ADU /\ a.size = q[1].size - b
        BY <1>1, <1>2 DEF ADU
      <3>. HIDE DEF a
      <3>3. r = [q EXCEPT ![1] = a]
        BY <3>1 DEF a
      <3>. HIDE DEF r
      <3>4. /\ r \in Seq(ADU) /\ Len(r) = Len(q) /\ r[1] = a
            /\ \A i \in 2..Len(q) : r[i] = q[i]
        BY <1>1, <3>2, <3>3, ExceptSeq
      <3>. QED
        BY <3>2, <3>4 DEF r
    <2>. QED
      BY <2>1, <2>2
  <1>. HIDE DEF r
  <1>4. /\ Bytes(Drop(q, 1)) = Bytes(q) - q[1].size
        /\ Bytes(Drop(r, 1)) = Bytes(r) - (q[1].size - b)
    <2>1. \A t \in Seq(ADU) : Len(t) = Len(q) =>
             Bytes(Drop(t, 1)) = Bytes(t) - t[1].size
      <3>. SUFFICES ASSUME NEW t \in Seq(ADU), Len(t) = Len(q)
                    PROVE  Bytes(Drop(t, 1)) = Bytes(t) - t[1].size
        OBVIOUS
      <3>1. 1 \in 0..Len(t) /\ 1 \in 1..Len(t) /\ 1 - 1 = 0
        BY <1>1
      <3>2. Bytes(Drop(t, 1)) = Bytes(t) - BytesUpTo(t)[1]
        BY <3>1, BytesSplit
      <3>3. /\ BytesUpTo(t)[1] = BytesUpTo(t)[1 - 1] + t[1].size
            /\ BytesUpTo(t)[0] = 0 /\ t[1].size \in Nat
        BY <3>1, BytesUpToDef
      <3>. QED
        BY <3>1, <3>2, <3>3
    <2>. QED
      BY <1>3, <2>1
  <1>5. Bytes(Drop(r, 1)) = Bytes(Drop(q, 1))
    <2>1. 1 \in 0..Len(q) /\ 1 \in 0..Len(r)
      BY <1>1, <1>3
    <2>. DEFINE x == Drop(r, 1)
                y == Drop(q, 1)
                z == 0
    <2>2. /\ y \in Seq(ADU) /\ Len(y) = Len(q) - 1
          /\ \A i \in 1..Len(q) - 1 : y[i] = q[1 + i]
      BY <2>1, DropProperties
    <2>3. /\ x \in Seq(ADU) /\ Len(x) = Len(r) - 1
          /\ \A i \in 1..Len(r) - 1 : x[i] = r[1 + i]
      BY <1>3, <2>1, DropProperties
    <2>. HIDE DEF x, y
    <2>4. /\ Len(y) \in Nat /\ z + Len(x) <= Len(y) /\ z + Len(x) = Len(y)
          /\ z \in Nat
      BY <1>1, <1>3, <2>2, <2>3
    <2>5. ASSUME NEW i \in 1..Len(x)
          PROVE  x[i].size = y[z + i].size
      <3>1. /\ i \in 1..Len(q) - 1 /\ i \in 1..Len(r) - 1
            /\ 1 + i \in 2..Len(q) /\ z + i = i
        BY <1>1, <1>3, <2>3
      <3>2. x[i] = r[1 + i] /\ y[i] = q[1 + i] /\ r[1 + i] = q[1 + i]
        BY <1>3, <2>2, <2>3, <3>1
      <3>. QED
        BY <3>1, <3>2
    <2>. HIDE DEF z
    <2>6. Bytes(x) = BytesUpTo(y)[z + Len(x)] - BytesUpTo(y)[z]
      BY <2>2, <2>3, <2>4, <2>5, BytesOfPart
    <2>7. BytesUpTo(y)[z] = 0 /\ BytesUpTo(y)[Len(y)] \in Nat
      BY <2>2, <2>4, BytesUpToDef DEF z
    <2>. QED
      BY <2>4, <2>6, <2>7 DEF Bytes, x, y
  <1>6. Bytes(q) \in Nat /\ Bytes(r) \in Nat
    BY <1>3, DataBytes
  <1>7. Bytes(r) = Bytes(q) - b
    <2>. DEFINE x == Bytes(q)
                y == Bytes(r)
                z == Bytes(Drop(q, 1))
                l == q[1].size
    <2>1. /\ x \in Nat /\ y \in Nat /\ l \in Nat /\ b \in Nat
          /\ z = x - l /\ z = y - (l - b)
      BY <1>1, <1>2, <1>4, <1>5, <1>6
    <2>. HIDE DEF x, y, z, l
    <2>2. y = x - b
      BY <2>1
    <2>. QED
      BY <2>2 DEF x, y
  <1>. QED
    BY <1>3, <1>7 DEF r

-----------------------------------------------------------------------------
(* The connection in whole ADUs.                                           *)

\* What is proved of TmixConnection, for the ADUs that are complete.
Conn == INSTANCE TmixConnection_proofs
          WITH toRecv <- WholeToRecv, inflight <- AdusInFlight

\* The operators that do not look at the mapped variables.
LEMMA SameOperators ==
    /\ Conn!Sides = Sides /\ Conn!ADU = ADU
    /\ \A s : Conn!Peer(s) = Peer(s)
    /\ \A v, s : Conn!Adus(v, s) = Adus(v, s)
    /\ \A q : Conn!DataLeft(q) = DataLeft(q) /\ (Conn!Drained(q) <=> Drained(q))
    /\ \A q, n : Conn!Drop(q, n) = Drop(q, n)
    /\ \A q : /\ Conn!Accepted(q) <=> Accepted(q)
              /\ Conn!OneWait(q) <=> OneWait(q)
              /\ Conn!FirstDoesNotFollowASend(q) <=> FirstDoesNotFollowASend(q)
    /\ \A s : Conn!SentCount(s) = SentCount(s)
  <1>1. Conn!Sides = Sides /\ Conn!ADU = ADU /\ \A s : Conn!Peer(s) = Peer(s)
    BY DEF Conn!Sides, Conn!ADU, Conn!Peer, Sides, ADU, Peer
  <1>2. \A v, s : Conn!Adus(v, s) = Adus(v, s)
    BY DEF Conn!Adus, Adus, Conn!Places, Places, Conn!PlaceOf, PlaceOf,
           Conn!Cardinality, Cardinality
  <1>3. /\ \A q : /\ Conn!DataLeft(q) = DataLeft(q)
                  /\ Conn!Drained(q) <=> Drained(q)
        /\ \A q, n : Conn!Drop(q, n) = Drop(q, n)
    BY DEF Conn!DataLeft, DataLeft, Conn!Drained, Drained, Conn!Drop, Drop
  <1>4. \A q : /\ Conn!Accepted(q) <=> Accepted(q)
               /\ Conn!OneWait(q) <=> OneWait(q)
               /\ Conn!FirstDoesNotFollowASend(q) <=> FirstDoesNotFollowASend(q)
    BY DEF Conn!Accepted, Accepted, Conn!OneWait, OneWait,
           Conn!FirstDoesNotFollowASend, FirstDoesNotFollowASend
  <1>5. \A s : Conn!SentCount(s) = SentCount(s)
    BY <1>2 DEF Conn!SentCount, SentCount
  <1>. QED
    BY <1>1, <1>2, <1>3, <1>4, <1>5

\* The assumptions of TmixConnection, which its theorems rest on.
LEMMA SameAssumptions ==
    /\ Vectors \subseteq Seq(Conn!ADU)
    /\ \A v \in Vectors, s \in Conn!Sides :
          /\ Conn!Accepted(Conn!Adus(v, s))
          /\ Conn!OneWait(Conn!Adus(v, s))
          /\ Conn!FirstDoesNotFollowASend(Conn!Adus(v, s))
    /\ MaxRetries \in Nat
  BY SameOperators, VectorsAssumption, MaxRetriesAssumption

-----------------------------------------------------------------------------
(* The inductive invariant.                                                *)

\* What s has to receive are the last ADUs of its peer, and of the first of
\* them a part may have come, but not all of it.
Partial(s) ==
    LET q == Adus(cvec, Peer(s))
        r == toRecv[s]
        g == Len(q) - Len(r)
    IN /\ g \in 0..DataLeft(q)
       /\ \A i \in 2..Len(r) : r[i].size = q[g + i].size
       /\ r # <<>> => /\ r[1].size <= q[g + 1].size
                      /\ r[1].size = 0 <=> q[g + 1].size = 0

\* The bytes agree with the ADUs.
InStep ==
    /\ toRecv \in [Sides -> Seq(ADU)] /\ inflight \in [Sides -> Nat]
    /\ BytesConserved
    /\ \A s \in Sides : Partial(s)

BytesInv == Conn!PlaceInv /\ InStep

\* The vector, and what s sent of it.
LEMMA SentPart ==
    ASSUME BytesInv, NEW s \in Sides
    PROVE  LET q == Adus(cvec, s)
               x == SentCount(s)
           IN /\ cvec \in Vectors
              /\ q \in Seq(ADU) /\ Len(q) \in Nat /\ Accepted(q)
              /\ toSend[s] \in Seq(ADU)
              /\ x \in 0..Len(q)
              /\ Bytes(toSend[s]) = Bytes(q) - BytesUpTo(q)[x]
              /\ DataLeft(toSend[s])
                   = IF x <= DataLeft(q) THEN DataLeft(q) - x ELSE 0
  <1>. DEFINE q == Adus(cvec, s)
              x == SentCount(s)
              t == toSend[s]
  <1>1. /\ Conn!Inv /\ cvec \in Vectors
        /\ Conn!Suffix(s)
    BY SameOperators DEF BytesInv, Conn!PlaceInv
  <1>2. q \in Seq(ADU) /\ Len(q) \in Nat /\ Accepted(q)
    BY <1>1, AcceptedVector, LenProperties
  <1>3. t \in Seq(ADU) /\ Len(t) \in Nat
    BY <1>1, SameOperators, LenProperties DEF Conn!Inv, Conn!TypeOK
  <1>4. /\ Len(t) <= Len(q)
        /\ \A i \in 1..Len(t) : t[i] = q[x + i]
    BY <1>1, SameOperators DEF Conn!Suffix
  <1>5. x = Len(q) - Len(t) /\ x \in 0..Len(q) /\ x + Len(t) = Len(q)
    BY <1>2, <1>3, <1>4 DEF SentCount
  <1>. HIDE DEF q, x, t
  <1>6. Bytes(t) = Bytes(q) - BytesUpTo(q)[x]
    <2>1. Bytes(t) = BytesUpTo(q)[x + Len(t)] - BytesUpTo(q)[x]
      <3>1. x \in Nat /\ x + Len(t) <= Len(q)
        BY <1>2, <1>5
      <3>2. \A i \in 1..Len(t) : t[i].size = q[x + i].size
        BY <1>4
      <3>. HIDE DEF q
      <3>. QED
        BY <1>2, <1>3, <3>1, <3>2, BytesOfPart
    <2>. QED
      BY <1>5, <2>1 DEF Bytes
  <1>7. DataLeft(t) = IF x <= DataLeft(q) THEN DataLeft(q) - x ELSE 0
    <2>1. /\ q # <<>> => Len(q) # 0
          /\ t # <<>> => Len(t) # 0
          /\ t = <<>> => Len(t) = 0
          /\ DataLeft(q) <= Len(q) /\ DataLeft(q) \in Nat
      BY <1>2, <1>3, DataLeftProperties, EmptySeq
    <2>2. CASE t = <<>>
      BY <1>5, <2>1, <2>2 DEF DataLeft
    <2>3. CASE t # <<>>
      <3>1. /\ Len(t) \in 1..Len(t) /\ q # <<>>
        BY <1>2, <1>3, <1>5, <2>1, <2>3
      <3>2. t[Len(t)] = q[Len(q)]
        BY <1>4, <1>5, <3>1
      <3>. QED
        BY <1>2, <1>3, <1>5, <2>1, <2>3, <3>1, <3>2 DEF DataLeft
    <2>. QED
      BY <2>2, <2>3
  <1>. QED
    BY <1>1, <1>2, <1>3, <1>5, <1>6, <1>7 DEF q, x, t

\* The data ADUs of a queue that the constructor accepts come first.
LEMMA DataFirst ==
    ASSUME NEW q \in Seq(ADU), Accepted(q), NEW i \in 1..DataLeft(q)
    PROVE  i \in 1..Len(q) /\ q[i].size > 0
  <1>1. Len(q) \in Nat /\ DataLeft(q) \in Nat /\ DataLeft(q) <= Len(q)
    BY LenProperties, DataLeftProperties
  <1>2. i \in 1..Len(q)
    BY <1>1
  <1>3. q[i] \in ADU
    BY <1>2, ElementOfSeq
  <1>4. q[i].size # 0
    <2>1. SUFFICES ASSUME q[i].size = 0
                   PROVE  FALSE
      OBVIOUS
    <2>2. i = Len(q)
      BY <1>2, <2>1 DEF Accepted
    <2>. QED
      BY <1>1, <1>2, <2>1, <2>2 DEF DataLeft
  <1>. QED
    BY <1>2, <1>3, <1>4 DEF ADU

\* What s has got of it.
LEMMA GotPart ==
    ASSUME BytesInv, NEW s \in Sides
    PROVE  LET q == Adus(cvec, Peer(s))
               r == toRecv[s]
               g == Len(q) - Len(r)
           IN /\ r \in Seq(ADU) /\ Len(r) \in Nat /\ g \in 0..DataLeft(q)
              /\ WholeToRecv[s] = Drop(q, g)
              /\ DataLeft(r) = DataLeft(q) - g
              /\ DataLeft(WholeToRecv[s]) = DataLeft(q) - g
              /\ Drained(WholeToRecv[s]) <=> Drained(r)
              /\ \A i \in 1..DataLeft(r) : i \in 1..Len(r) /\ r[i].size > 0
              /\ \A k \in 1..Len(r) : Bytes(r) - BytesUpTo(r)[k]
                                        = Bytes(q) - BytesUpTo(q)[g + k]
  <1>. DEFINE q == Adus(cvec, Peer(s))
              r == toRecv[s]
              g == Len(q) - Len(r)
              w == WholeToRecv[s]
  <1>1. Peer(s) \in Sides
    BY PeerProperties
  <1>2. q \in Seq(ADU) /\ Len(q) \in Nat /\ Accepted(q)
    BY <1>1, SentPart
  <1>3. r \in Seq(ADU) /\ Len(r) \in Nat
    BY LenProperties DEF BytesInv, InStep
  <1>4. /\ g \in 0..DataLeft(q)
        /\ \A i \in 2..Len(r) : r[i].size = q[g + i].size
        /\ r # <<>> => /\ r[1].size <= q[g + 1].size
                       /\ r[1].size = 0 <=> q[g + 1].size = 0
    BY DEF BytesInv, InStep, Partial
  <1>5. w = Drop(q, g)
    BY DEF WholeToRecv
  <1>6. /\ DataLeft(q) \in Nat /\ DataLeft(q) <= Len(q)
        /\ g \in 0..Len(q) /\ Len(r) = Len(q) - g
    BY <1>2, <1>3, <1>4, DataLeftProperties
  <1>. HIDE DEF q, r, g, w
  <1>7. DataLeft(w) = DataLeft(q) - g /\ w \in Seq(ADU)
    BY <1>2, <1>4, <1>5, <1>6, DataLeftDrop, DropProperties
  <1>8. DataLeft(r) = DataLeft(q) - g
    <2>1. /\ q # <<>> <=> Len(q) # 0
          /\ r # <<>> <=> Len(r) # 0
      BY <1>2, <1>3, EmptySeq
    <2>2. CASE Len(r) = 0
      BY <1>2, <1>3, <1>4, <1>6, <2>1, <2>2 DEF DataLeft
    <2>3. CASE Len(r) # 0
      <3>1. r # <<>> /\ q # <<>> /\ g + Len(r) = Len(q) /\ Len(r) \in 1..Len(r)
        BY <1>2, <1>3, <1>6, <2>1, <2>3
      <3>2. r[Len(r)].size = 0 <=> q[Len(q)].size = 0
        <4>1. CASE Len(r) = 1
          BY <1>4, <3>1, <4>1
        <4>2. CASE Len(r) # 1
          <5>1. Len(r) \in 2..Len(r)
            <6>. DEFINE l == Len(r)
            <6>1. l \in Nat /\ l # 0 /\ l # 1
              BY <1>3, <2>3, <4>2
            <6>. HIDE DEF l
            <6>2. l \in 2..l
              BY <6>1
            <6>. QED
              BY <6>2 DEF l
          <5>2. r[Len(r)].size = q[g + Len(r)].size
            BY <1>4, <5>1
          <5>. QED
            BY <3>1, <5>2
        <4>. QED
          BY <4>1, <4>2
      <3>. QED
        BY <1>2, <1>3, <1>6, <3>1, <3>2 DEF DataLeft
    <2>. QED
      BY <2>2, <2>3
  <1>9. Drained(w) <=> Drained(r)
    BY <1>3, <1>7, <1>8, DataLeftProperties
  <1>10. ASSUME NEW i \in 1..DataLeft(r)
         PROVE  i \in 1..Len(r) /\ r[i].size > 0
    <2>1. i \in 1..Len(r) /\ g + i \in 1..DataLeft(q) /\ r # <<>>
      BY <1>2, <1>3, <1>4, <1>6, <1>8, EmptySeq
    <2>2. q[g + i].size > 0
      BY <1>2, <2>1, DataFirst
    <2>3. r[i] \in ADU
      BY <1>3, <2>1, ElementOfSeq
    <2>4. r[i].size # 0
      <3>1. CASE i = 1
        BY <1>4, <2>1, <2>2, <3>1
      <3>2. CASE i \in 2..Len(r)
        BY <1>4, <2>2, <3>2
      <3>. QED
        BY <2>1, <3>1, <3>2
    <2>. QED
      BY <2>1, <2>3, <2>4 DEF ADU
  <1>11. ASSUME NEW k \in 1..Len(r)
         PROVE  Bytes(r) - BytesUpTo(r)[k] = Bytes(q) - BytesUpTo(q)[g + k]
    <2>. DEFINE d == Drop(r, k)
    <2>1. k \in 0..Len(r)
      BY <1>3
    <2>2. Bytes(d) = Bytes(r) - BytesUpTo(r)[k]
      BY <1>3, <2>1, BytesSplit
    <2>3. /\ d \in Seq(ADU) /\ Len(d) = Len(r) - k
          /\ \A i \in 1..Len(r) - k : d[i] = r[k + i]
      BY <1>3, <2>1, DropProperties
    <2>. HIDE DEF d
    <2>. DEFINE h == g + k
    <2>4. h \in Nat /\ h + Len(d) = Len(q) /\ h + Len(d) <= Len(q)
      BY <1>2, <1>3, <1>6, <2>1, <2>3
    <2>5. ASSUME NEW i \in 1..Len(d)
          PROVE  d[i].size = q[h + i].size
      <3>1. /\ k + i \in 2..Len(r) /\ i \in 1..Len(r) - k
            /\ g + (k + i) = h + i
        BY <1>3, <1>6, <2>3
      <3>2. d[i] = r[k + i] /\ r[k + i].size = q[g + (k + i)].size
        BY <1>4, <2>3, <3>1
      <3>. QED
        BY <3>1, <3>2
    <2>. HIDE DEF h
    <2>6. Bytes(d) = BytesUpTo(q)[h + Len(d)] - BytesUpTo(q)[h]
      BY <1>2, <2>3, <2>4, <2>5, BytesOfPart
    <2>. QED
      BY <2>2, <2>4, <2>6 DEF Bytes, h
  <1>. QED
    BY <1>3, <1>4, <1>5, <1>7, <1>8, <1>9, <1>10, <1>11 DEF q, r, g, w

\* The ADUs that are under way.
LEMMA OnTheWay ==
    ASSUME BytesInv, NEW s \in Sides
    PROVE  /\ AdusInFlight[s] = DataLeft(toRecv[s]) - DataLeft(toSend[Peer(s)])
           /\ AdusInFlight[s] \in Nat
           /\ Bytes(toRecv[s]) = inflight[s] + Bytes(toSend[Peer(s)])
           /\ inflight[s] \in Nat
  <1>1. AdusInFlight \in [Sides -> Nat]
    BY SameOperators DEF BytesInv, Conn!PlaceInv, Conn!Inv, Conn!TypeOK
  <1>. QED
    BY <1>1 DEF BytesInv, InStep, BytesConserved, AdusInFlight

\* The bytes that came do not go beyond the ADUs that were sent.
LEMMA OnlySentComes ==
    ASSUME BytesInv, NEW s \in Sides, NEW k \in 1..DataLeft(toRecv[s]),
           BytesUpTo(toRecv[s])[k] <= inflight[s]
    PROVE  k <= AdusInFlight[s]
  <1>. DEFINE p == Peer(s)
              q == Adus(cvec, p)
              r == toRecv[s]
              g == Len(q) - Len(r)
              x == SentCount(p)
              n == DataLeft(q)
              P(i) == BytesUpTo(q)[i]
  <1>1. /\ q \in Seq(ADU) /\ Len(q) \in Nat /\ Accepted(q) /\ x \in 0..Len(q)
        /\ Bytes(toSend[p]) = Bytes(q) - P(x)
        /\ DataLeft(toSend[p]) = IF x <= n THEN n - x ELSE 0
    BY SentPart, PeerProperties
  <1>2. /\ r \in Seq(ADU) /\ Len(r) \in Nat /\ g \in 0..n
        /\ DataLeft(r) = n - g
    BY GotPart
  <1>3. /\ k \in 1..Len(r)
        /\ Bytes(r) - BytesUpTo(r)[k] = Bytes(q) - P(g + k)
    BY GotPart
  <1>4. /\ AdusInFlight[s] = DataLeft(r) - DataLeft(toSend[p])
        /\ Bytes(r) = inflight[s] + Bytes(toSend[p])
        /\ inflight[s] \in Nat
    BY OnTheWay
  <1>5. n \in Nat /\ n <= Len(q) /\ Bytes(q) \in Nat
    BY <1>1, DataLeftProperties, DataBytes
  <1>6. /\ BytesUpTo(r)[k] \in Nat
        /\ \A i \in 0..Len(q) : P(i) \in Nat
    BY <1>1, <1>2, <1>3, BytesUpToDef
  <1>7. k <= DataLeft(r) /\ k \in Nat \ {0}
    BY <1>2, <1>5
  <1>. HIDE DEF p, q, r, g, x, n, P
  <1>8. g + k \in 0..Len(q) /\ x \in 0..Len(q) /\ g + k <= n
    BY <1>1, <1>2, <1>5, <1>7
  <1>9. g + k <= x
    <2>1. SUFFICES ASSUME x < g + k
                   PROVE  FALSE
      BY <1>1, <1>8
    <2>2. x + 1 \in 1..n
      <3>1. x \in Nat /\ g + k \in Nat /\ n \in Nat
        BY <1>1, <1>2, <1>5, <1>7
      <3>. DEFINE e == g + k
      <3>2. e \in Nat /\ x < e /\ e <= n
        BY <1>8, <2>1, <3>1
      <3>. HIDE DEF e
      <3>. QED
        BY <3>1, <3>2
    <2>3. q[x + 1].size > 0
      BY <1>1, <2>2, DataFirst DEF n
    <2>4. P(x) < P(g + k)
      BY <1>1, <1>8, <2>1, <2>3, BytesGrow DEF P
    <2>5. P(x) \in Nat /\ P(g + k) \in Nat
      BY <1>6, <1>8
    <2>. QED
      BY <1>1, <1>3, <1>4, <1>5, <1>6, <2>4, <2>5 DEF r
  <1>. QED
    BY <1>1, <1>2, <1>4, <1>5, <1>8, <1>9, <1>7

\* When no byte is under way, no ADU is.
LEMMA NoneOnTheWay ==
    ASSUME BytesInv, NEW s \in Sides, inflight[s] = 0
    PROVE  AdusInFlight[s] = 0
  <1>. DEFINE p == Peer(s)
              q == Adus(cvec, p)
              r == toRecv[s]
              g == Len(q) - Len(r)
              x == SentCount(p)
              n == DataLeft(q)
              P(i) == BytesUpTo(q)[i]
  <1>1. /\ q \in Seq(ADU) /\ Len(q) \in Nat /\ Accepted(q) /\ x \in 0..Len(q)
        /\ Bytes(toSend[p]) = Bytes(q) - P(x)
        /\ DataLeft(toSend[p]) = IF x <= n THEN n - x ELSE 0
    BY SentPart, PeerProperties
  <1>2. /\ r \in Seq(ADU) /\ Len(r) \in Nat /\ g \in 0..n
        /\ DataLeft(r) = n - g
        /\ \A i \in 1..DataLeft(r) : i \in 1..Len(r) /\ r[i].size > 0
    BY GotPart
  <1>3. \A k \in 1..Len(r) : Bytes(r) - BytesUpTo(r)[k] = Bytes(q) - P(g + k)
    BY GotPart
  <1>4. /\ AdusInFlight[s] = DataLeft(r) - DataLeft(toSend[p])
        /\ AdusInFlight[s] \in Nat
        /\ Bytes(r) = 0 + Bytes(toSend[p])
    BY OnTheWay
  <1>5. n \in Nat /\ n <= Len(q) /\ Bytes(q) \in Nat /\ Bytes(r) \in Nat
    BY <1>1, <1>2, DataLeftProperties, DataBytes
  <1>6. /\ \A i \in 0..Len(q) : P(i) \in Nat
        /\ BytesUpTo(r)[0] = 0
        /\ \A i \in 1..Len(r) : /\ BytesUpTo(r)[i] = BytesUpTo(r)[i - 1] + r[i].size
                                /\ r[i].size \in Nat
    BY <1>1, <1>2, BytesUpToDef
  <1>. HIDE DEF p, q, r, g, x, n, P
  <1>7. SUFFICES ASSUME AdusInFlight[s] > 0
                 PROVE  FALSE
    BY <1>4
  <1>8. /\ 1 \in 1..DataLeft(r) /\ g + 1 <= x /\ g + 1 \in 0..Len(q)
    BY <1>1, <1>2, <1>4, <1>5, <1>7
  <1>9. /\ 1 \in 1..Len(r) /\ r[1].size > 0 /\ r[1].size \in Nat
        /\ BytesUpTo(r)[1] = BytesUpTo(r)[1 - 1] + r[1].size
    BY <1>2, <1>6, <1>8
  <1>10. Bytes(r) - BytesUpTo(r)[1] = Bytes(q) - P(g + 1)
    BY <1>3, <1>9
  <1>11. P(g + 1) <= P(x)
    BY <1>1, <1>8, BytesGrow DEF P
  <1>12. P(x) \in Nat /\ P(g + 1) \in Nat
    BY <1>1, <1>6, <1>8
  <1>. QED
    BY <1>1, <1>4, <1>5, <1>6, <1>9, <1>10, <1>11, <1>12

\* There are no bytes beyond the vector.
LEMMA NoExtraBytes ==
    ASSUME BytesInv, NEW s \in Sides, NEW b \in 1..inflight[s]
    PROVE  b <= BytesUpTo(toRecv[s])[DataLeft(toRecv[s])]
  <1>1. toRecv[s] \in Seq(ADU) /\ toSend[Peer(s)] \in Seq(ADU)
    BY GotPart, SentPart, PeerProperties
  <1>2. /\ Bytes(toRecv[s]) = inflight[s] + Bytes(toSend[Peer(s)])
        /\ inflight[s] \in Nat
    BY OnTheWay
  <1>3. Bytes(toSend[Peer(s)]) \in Nat
    BY <1>1, DataBytes
  <1>4. Bytes(toRecv[s]) = BytesUpTo(toRecv[s])[DataLeft(toRecv[s])]
    BY <1>1, DataBytes
  <1>. DEFINE y == Bytes(toSend[Peer(s)])
              z == Bytes(toRecv[s])
  <1>5. z = inflight[s] + y /\ y \in Nat /\ inflight[s] \in Nat
    BY <1>2, <1>3
  <1>. HIDE DEF y, z
  <1>6. b <= z
    BY <1>5
  <1>. QED
    BY <1>4, <1>6 DEF z

-----------------------------------------------------------------------------
(* The handlers, seen in whole ADUs.                                       *)

LEMMA SameHelpers ==
    /\ \A q, n : Conn!IsBurst(q, n) <=> IsBurst(q, n)
    /\ \A a : Conn!Immediate(a) <=> Immediate(a)
    /\ \A s, a, p, t : Conn!WaitForNext(s, a, p, t) <=> WaitForNext(s, a, p, t)
    /\ \A s, k : Conn!AnswerReceipts(s, k) <=> AnswerReceipts(s, k)
  <1>1. /\ \A q, n : Conn!IsBurst(q, n) <=> IsBurst(q, n)
        /\ \A a : Conn!Immediate(a) <=> Immediate(a)
    BY DEF Conn!IsBurst, IsBurst, Conn!Immediate, Immediate
  <1>2. \A a, t, r : Conn!Wakeups(a, t, r) = Wakeups(a, t, r)
    BY DEF Conn!Wakeups, Wakeups, Conn!NotBefore, NotBefore
  <1>3. ASSUME NEW s, NEW a, NEW p, NEW t
        PROVE  Conn!WaitForNext(s, a, p, t) <=> WaitForNext(s, a, p, t)
    BY <1>2 DEF Conn!WaitForNext, WaitForNext
  <1>4. ASSUME NEW s, NEW k
        PROVE  Conn!AnswerReceipts(s, k) <=> AnswerReceipts(s, k)
    BY Zenon DEF Conn!AnswerReceipts, AnswerReceipts
  <1>. QED
    BY <1>1, <1>3, <1>4

\* CloseIfDone does not care for the part of an ADU that came.
LEMMA SameClose ==
    ASSUME BytesInv, NEW s \in Sides, NEW q
    PROVE  Conn!CloseIfDone(s, q) <=> CloseIfDone(s, q)
  <1>1. /\ Conn!Drained(q) <=> Drained(q)
        /\ Conn!Drained(WholeToRecv[s]) <=> Drained(toRecv[s])
        /\ Conn!Peer(s) = Peer(s)
    BY SameOperators, GotPart
  <1>. QED
    BY <1>1 DEF Conn!CloseIfDone, CloseIfDone

LEMMA SameBurst ==
    ASSUME BytesInv, NEW s \in Sides, NEW n, NEW pending
    PROVE  Conn!Burst(s, n, pending) <=> Burst(s, n, pending)
  <1>1. /\ \A q : Conn!DataLeft(q) = DataLeft(q)
        /\ \A q, m : Conn!Drop(q, m) = Drop(q, m)
    BY SameOperators
  <1>2. \A q : Conn!CloseIfDone(s, q) <=> CloseIfDone(s, q)
    BY SameClose
  <1>3. /\ Conn!IsBurst(toSend[s], n) <=> IsBurst(toSend[s], n)
        /\ \A a, p, t : Conn!WaitForNext(s, a, p, t) <=> WaitForNext(s, a, p, t)
    BY SameHelpers
  <1>. QED
    BY <1>1, <1>2, <1>3 DEF Conn!Burst, Burst

LEMMA QueuesStay ==
    ASSUME UNCHANGED <<cvec, toSend, toRecv>>
    PROVE  UNCHANGED <<WholeToRecv, AdusInFlight>>
  BY DEF WholeToRecv, AdusInFlight

LEMMA QuietBytes ==
    ASSUME InStep, UNCHANGED <<cvec, toSend, toRecv, inflight>>
    PROVE  InStep'
  BY DEF InStep, BytesConserved, Partial

\* What a burst adds to the ADUs and to the bytes under way.
LEMMA BurstAdds ==
    ASSUME BytesInv, NEW s \in Sides, NEW n \in 1..Len(toSend[s]),
           toSend' = [toSend EXCEPT ![s] = Drop(@, n)],
           UNCHANGED <<cvec, toRecv>>,
           inflight' = [inflight EXCEPT ![Peer(s)] = @ + BytesIn(s, n)]
    PROVE  /\ WholeToRecv' = WholeToRecv
           /\ AdusInFlight'
                = [AdusInFlight EXCEPT ![Peer(s)] = @ + DataIn(s, n)]
           /\ InStep'
  <1>1. /\ toSend \in [Sides -> Seq(ADU)]
        /\ toRecv \in [Sides -> Seq(ADU)] /\ inflight \in [Sides -> Nat]
        /\ \A t \in Sides : Partial(t) /\ Bytes(toRecv[t])
                                = inflight[t] + Bytes(toSend[Peer(t)])
    BY SameOperators
    DEF BytesInv, InStep, BytesConserved, Conn!PlaceInv, Conn!Inv, Conn!TypeOK
  <1>2. /\ Peer(s) \in Sides /\ Peer(Peer(s)) = s
        /\ \A t \in Sides : Peer(t) \in Sides
        /\ \A t \in Sides : t # Peer(s) => Peer(t) # s
    BY DEF Peer, Sides
  <1>3. /\ n \in 0..Len(toSend[s]) /\ toSend[s] \in Seq(ADU)
        /\ Drop(toSend[s], n) \in Seq(ADU)
    BY <1>1, DropProperties, LenProperties
  <1>4. /\ toSend'[s] = Drop(toSend[s], n)
        /\ \A t \in Sides : t # s => toSend'[t] = toSend[t]
    BY <1>1
  <1>5. WholeToRecv' = WholeToRecv
    BY DEF WholeToRecv
  <1>6. ASSUME NEW t \in Sides
        PROVE  AdusInFlight'[t]
                 = IF t = Peer(s) THEN AdusInFlight[t] + DataIn(s, n)
                   ELSE AdusInFlight[t]
    <2>1. /\ AdusInFlight'[t] = DataLeft(toRecv[t]) - DataLeft(toSend'[Peer(t)])
          /\ AdusInFlight[t] = DataLeft(toRecv[t]) - DataLeft(toSend[Peer(t)])
      BY DEF AdusInFlight
    <2>2. CASE t = Peer(s)
      <3>. DEFINE x == DataLeft(toRecv[t])
                  y == DataLeft(toSend[s])
                  z == DataLeft(Drop(toSend[s], n))
      <3>1. x \in Nat /\ y \in Nat /\ z \in Nat
        BY <1>1, <1>3, DataLeftProperties
      <3>2. DataIn(s, n) = y - z /\ AdusInFlight'[t] = x - z
            /\ AdusInFlight[t] = x - y
        BY <1>2, <1>4, <2>1, <2>2 DEF DataIn
      <3>. HIDE DEF x, y, z
      <3>. QED
        BY <2>2, <3>1, <3>2
    <2>3. CASE t # Peer(s)
      BY <1>2, <1>4, <2>1, <2>3
    <2>. QED
      BY <2>2, <2>3
  <1>7. AdusInFlight' = [AdusInFlight EXCEPT ![Peer(s)] = @ + DataIn(s, n)]
    <2>1. /\ AdusInFlight = [t \in Sides |-> AdusInFlight[t]]
          /\ AdusInFlight' = [t \in Sides |-> AdusInFlight'[t]]
      BY DEF AdusInFlight
    <2>. QED
      BY <1>6, <2>1
  <1>8. /\ BytesIn(s, n) \in Nat
        /\ Bytes(toSend'[s]) = Bytes(toSend[s]) - BytesIn(s, n)
        /\ Bytes(toSend[s]) \in Nat
    BY <1>3, <1>4, BytesSplit, DataBytes DEF BytesIn
  <1>9. inflight' \in [Sides -> Nat]
    BY <1>1, <1>2, <1>8
  <1>10. ASSUME NEW t \in Sides
         PROVE  Bytes(toRecv'[t]) = inflight'[t] + Bytes(toSend'[Peer(t)])
    <2>1. CASE t = Peer(s)
      <3>1. inflight'[t] = inflight[t] + BytesIn(s, n) /\ inflight[t] \in Nat
        BY <1>1, <1>2, <2>1
      <3>2. Bytes(toRecv[t]) = inflight[t] + Bytes(toSend[s])
        BY <1>1, <1>2, <2>1
      <3>. DEFINE x == Bytes(toSend[s])
                  y == Bytes(toSend'[s])
                  z == BytesIn(s, n)
      <3>3. y = x - z /\ x \in Nat /\ z \in Nat
        BY <1>8
      <3>4. inflight'[t] = inflight[t] + z /\ Bytes(toRecv[t]) = inflight[t] + x
        BY <3>1, <3>2
      <3>. HIDE DEF x, y, z
      <3>5. Bytes(toRecv[t]) = inflight'[t] + y
        BY <3>1, <3>3, <3>4
      <3>. QED
        BY <1>2, <2>1, <3>5 DEF y
    <2>2. CASE t # Peer(s)
      BY <1>1, <1>2, <1>4, <2>2
    <2>. QED
      BY <2>1, <2>2
  <1>11. \A t \in Sides : Partial(t)'
    BY <1>1 DEF Partial
  <1>. QED
    BY <1>1, <1>5, <1>7, <1>9, <1>10, <1>11 DEF InStep, BytesConserved

\* DoSend with an ADU to send.
LEMMA SendAdus ==
    ASSUME BytesInv, NEW s \in Sides, NEW pending, SendBytes(s, pending)
    PROVE  /\ Conn!SendBurst(s, pending)
           /\ UNCHANGED <<now, cvec, retries, WholeToRecv, notified, freed,
                          heardAt>>
           /\ InStep'
  <1>1. PICK n \in 1..Len(toSend[s]) :
           /\ Burst(s, n, pending)
           /\ inflight' = [inflight EXCEPT ![Peer(s)] = @ + BytesIn(s, n)]
           /\ UNCHANGED <<now, cvec, retries, toRecv, notified, freed, heardAt,
                          full>>
    BY DEF SendBytes
  <1>2. toSend' = [toSend EXCEPT ![s] = Drop(@, n)]
    BY <1>1 DEF Burst
  <1>3. /\ WholeToRecv' = WholeToRecv
        /\ AdusInFlight' = [AdusInFlight EXCEPT ![Peer(s)] = @ + DataIn(s, n)]
        /\ InStep'
    BY <1>1, <1>2, BurstAdds
  <1>4. Conn!Burst(s, n, pending)
    BY <1>1, SameBurst
  <1>5. Conn!DataIn(s, n) = DataIn(s, n) /\ Conn!Peer(s) = Peer(s)
    BY SameOperators DEF Conn!DataIn, DataIn
  <1>6. Conn!SendBurst(s, pending)
    BY <1>3, <1>4, <1>5 DEF Conn!SendBurst
  <1>. QED
    BY <1>1, <1>3, <1>6

\* "Begin sending, maybe."
LEMMA BeginAdus ==
    ASSUME BytesInv, NEW s \in Sides, BeginSendingBytes(s)
    PROVE  /\ Conn!BeginSending(s)
           /\ UNCHANGED <<now, cvec, retries, WholeToRecv, notified, freed,
                          heardAt>>
           /\ InStep'
  <1>1. CASE toSend[s] # <<>> /\ Immediate(toSend[s][1])
    <2>1. SendBytes(s, timers[s])
      BY <1>1 DEF BeginSendingBytes
    <2>2. Conn!Immediate(toSend[s][1])
      BY <1>1, SameHelpers
    <2>. QED
      BY <1>1, <2>1, <2>2, SendAdus DEF Conn!BeginSending
  <1>2. CASE ~(toSend[s] # <<>> /\ Immediate(toSend[s][1]))
    <2>1. /\ UNCHANGED <<now, cvec, retries, toSend, toRecv, lastSend, closed,
                         inflight, fin, notified, freed, heardAt>>
          /\ IF toSend[s] = <<>> THEN UNCHANGED <<fatal, timers, lastRecv>>
             ELSE WaitForNext(s, toSend[s][1], timers[s], lastSend[s])
      BY <1>2 DEF BeginSendingBytes
    <2>2. UNCHANGED <<WholeToRecv, AdusInFlight>>
      BY <2>1, QueuesStay
    <2>3. InStep'
      BY <2>1, QuietBytes DEF BytesInv
    <2>4. toSend[s] # <<>> => ~Conn!Immediate(toSend[s][1])
      BY <1>2, SameHelpers
    <2>5. toSend[s] # <<>> =>
            Conn!WaitForNext(s, toSend[s][1], timers[s], lastSend[s])
      BY <2>1, SameHelpers
    <2>. QED
      BY <2>1, <2>2, <2>3, <2>4, <2>5 DEF Conn!BeginSending
  <1>. QED
    BY <1>1, <1>2

\* Dropping twice.
LEMMA DropDrop ==
    ASSUME NEW q \in Seq(ADU), NEW a \in 0..Len(q), NEW b \in 0..Len(q) - a
    PROVE  Drop(Drop(q, a), b) = Drop(q, a + b)
  <1>. DEFINE d == Drop(q, a)
              e == Drop(d, b)
              c == a + b
              f == Drop(q, c)
  <1>1. Len(q) \in Nat /\ a \in Nat /\ b \in Nat /\ c \in 0..Len(q)
    BY LenProperties
  <1>2. /\ d \in Seq(ADU) /\ Len(d) = Len(q) - a
        /\ \A i \in 1..Len(q) - a : d[i] = q[a + i]
    BY DropProperties
  <1>3. b \in 0..Len(d)
    BY <1>2
  <1>. HIDE DEF d
  <1>4. /\ e \in Seq(ADU) /\ Len(e) = Len(d) - b
        /\ \A i \in 1..Len(d) - b : e[i] = d[b + i]
    <2>1. d \in Seq(ADU)
      BY <1>2
    <2>. QED
      BY <1>3, <2>1, DropProperties
  <1>. HIDE DEF c
  <1>5. /\ f \in Seq(ADU) /\ Len(f) = Len(q) - c
        /\ \A i \in 1..Len(q) - c : f[i] = q[c + i]
    BY <1>1, DropProperties
  <1>. HIDE DEF e, f
  <1>6. Len(e) = Len(f)
    BY <1>1, <1>2, <1>4, <1>5 DEF c
  <1>7. ASSUME NEW i \in 1..Len(e)
        PROVE  e[i] = f[i]
    <2>1. /\ i \in 1..Len(d) - b /\ b + i \in 1..Len(q) - a
          /\ i \in 1..Len(q) - c /\ a + (b + i) = c + i
      BY <1>1, <1>2, <1>4, <1>5, <1>6 DEF c
    <2>. QED
      BY <1>2, <1>4, <1>5, <2>1
  <1>. QED
    BY <1>4, <1>5, <1>6, <1>7, SeqEqual DEF d, e, f, c

\* A part of the first ADU leaves the count of data ADUs as it is.
LEMMA LessData ==
    ASSUME NEW q \in Seq(ADU), q # <<>>, NEW b \in 0..q[1].size,
           b = 0 \/ b < q[1].size
    PROVE  DataLeft(LessBytes(q, b)) = DataLeft(q)
  <1>. DEFINE r == LessBytes(q, b)
              l == Len(q)
  <1>1. /\ r \in Seq(ADU) /\ Len(r) = l
        /\ r[1].size = q[1].size - b
        /\ \A i \in 2..l : r[i] = q[i]
    BY BytesLess
  <1>2. l \in Nat \ {0} /\ q[1].size \in Nat
    <2>1. Len(q) \in Nat \ {0}
      BY EmptySeq
    <2>2. q[1] \in ADU
      BY <2>1, ElementOfSeq
    <2>. QED
      BY <2>1, <2>2 DEF ADU
  <1>. HIDE DEF r, l
  <1>3. r[l].size = 0 <=> q[l].size = 0
    <2>1. CASE l = 1
      BY <1>1, <1>2, <2>1
    <2>2. CASE l \in 2..l
      BY <1>1, <2>2
    <2>. QED
      BY <1>2, <2>1, <2>2
  <1>4. r # <<>>
    BY <1>1, <1>2, EmptySeq
  <1>. QED
    BY <1>1, <1>3, <1>4 DEF DataLeft, r, l

\* What a packet leaves of toRecv.
LEMMA PacketLeaves ==
    ASSUME BytesInv, NEW s \in Sides, NEW b \in 1..inflight[s],
           NEW k \in 0..DataLeft(toRecv[s]), Completes(toRecv[s], b, k)
    PROVE  LET r == toRecv[s]
               rest == b - Bytes(SubSeq(r, 1, k))
               u == LessBytes(Drop(r, k), rest)
           IN /\ ~(k = DataLeft(r) /\ rest > 0)
              /\ k \in 0..AdusInFlight[s]
              /\ k \in 0..Len(r)
              /\ u \in Seq(ADU) /\ Len(u) = Len(r) - k
              /\ DataLeft(u) = DataLeft(r) - k
              /\ Bytes(u) = Bytes(r) - b
              /\ \A i \in 2..Len(u) : u[i].size = r[k + i].size
              /\ u # <<>> => /\ u[1].size <= r[k + 1].size
                             /\ u[1].size = 0 <=> r[k + 1].size = 0
  <1>. DEFINE r == toRecv[s]
              p == Bytes(SubSeq(r, 1, k))
              rest == b - p
              d == Drop(r, k)
              u == LessBytes(d, rest)
              n == DataLeft(r)
  <1>1. /\ r \in Seq(ADU) /\ Len(r) \in Nat /\ n \in Nat /\ n <= Len(r)
        /\ \A i \in 1..n : i \in 1..Len(r) /\ r[i].size > 0
    BY GotPart, DataLeftProperties
  <1>2. inflight[s] \in Nat /\ b \in Nat /\ b > 0 /\ b <= inflight[s]
    BY OnTheWay
  <1>3. k \in 0..Len(r) /\ k \in Nat
    BY <1>1
  <1>4. /\ p = BytesUpTo(r)[k] /\ p \in Nat
        /\ Bytes(d) = Bytes(r) - p
    BY <1>1, <1>3, BytesSplit
  <1>5. /\ p <= b
        /\ k < n => Bytes(SubSeq(r, 1, k + 1)) > b
    BY DEF Completes
  <1>6. /\ d \in Seq(ADU) /\ Len(d) = Len(r) - k
        /\ \A i \in 1..Len(r) - k : d[i] = r[k + i]
    BY <1>1, <1>3, DropProperties
  <1>7. DataLeft(d) = n - k
    BY <1>1, DataLeftDrop
  <1>8. b <= BytesUpTo(r)[n]
    BY NoExtraBytes
  <1>9. ~(k = n /\ rest > 0)
    BY <1>2, <1>4, <1>8
  <1>10. k \in 0..AdusInFlight[s]
    <2>1. AdusInFlight[s] \in Nat
      BY OnTheWay
    <2>2. CASE k = 0
      BY <2>1, <2>2
    <2>3. CASE k # 0
      <3>1. k \in 1..n
        BY <1>3, <2>3
      <3>2. BytesUpTo(r)[k] <= inflight[s]
        BY <1>2, <1>4, <1>5
      <3>3. k <= AdusInFlight[s]
        BY <3>1, <3>2, OnlySentComes
      <3>. QED
        BY <1>3, <2>1, <3>3
    <2>. QED
      BY <2>2, <2>3
  <1>11. rest \in Nat
    BY <1>2, <1>4, <1>5
  <1>12. k < n => /\ d # <<>> /\ d[1] = r[k + 1] /\ d[1].size \in Nat
                  /\ rest < d[1].size
    <2>. SUFFICES ASSUME k < n
                  PROVE  /\ d # <<>> /\ d[1] = r[k + 1] /\ d[1].size \in Nat
                         /\ rest < d[1].size
      OBVIOUS
    <2>1. 1 \in 1..Len(r) - k /\ k + 1 \in 0..Len(r) /\ k + 1 \in 1..Len(r)
          /\ (k + 1) - 1 = k
      BY <1>1, <1>3
    <2>2. d # <<>> /\ d[1] = r[k + 1]
      BY <1>6, <2>1, EmptySeq
    <2>. DEFINE e == k + 1
    <2>3. /\ BytesUpTo(r)[e] = BytesUpTo(r)[e - 1] + r[e].size
          /\ r[e].size \in Nat
      BY <1>1, <2>1, BytesUpToDef
    <2>4. Bytes(SubSeq(r, 1, e)) = BytesUpTo(r)[e]
      BY <1>1, <2>1, BytesSplit
    <2>. QED
      BY <1>2, <1>4, <1>5, <2>1, <2>2, <2>3, <2>4
  <1>13. k = n => rest = 0
    BY <1>9, <1>11
  <1>14. /\ u \in Seq(ADU) /\ Len(u) = Len(d) /\ Bytes(u) = Bytes(d) - rest
         /\ DataLeft(u) = DataLeft(d)
         /\ \A i \in 2..Len(d) : u[i] = d[i]
         /\ u # <<>> => /\ u[1].size <= d[1].size
                        /\ u[1].size = 0 <=> d[1].size = 0
    <2>1. CASE rest = 0
      <3>1. u = d
        BY <2>1 DEF LessBytes
      <3>2. Bytes(d) \in Nat
        BY <1>6, DataBytes
      <3>3. d # <<>> => d[1].size \in Nat
        <4>1. d # <<>> => 1 \in 1..Len(d)
          BY <1>6, EmptySeq
        <4>2. d # <<>> => d[1] \in ADU
          BY <1>6, <4>1, ElementOfSeq
        <4>. QED
          BY <4>2 DEF ADU
      <3>. HIDE DEF u, d, rest
      <3>. QED
        BY <1>6, <2>1, <3>1, <3>2, <3>3
    <2>2. CASE k < n
      <3>. HIDE DEF d, rest
      <3>1. rest \in 0..d[1].size /\ (rest = 0 \/ rest < d[1].size)
        BY <1>11, <1>12, <2>2
      <3>2. /\ u \in Seq(ADU) /\ Len(u) = Len(d) /\ Bytes(u) = Bytes(d) - rest
            /\ u[1].size = d[1].size - rest
            /\ \A i \in 2..Len(d) : u[i] = d[i]
        BY <1>6, <1>12, <2>2, <3>1, BytesLess
      <3>3. DataLeft(u) = DataLeft(d)
        BY <1>6, <1>12, <2>2, <3>1, LessData
      <3>. HIDE DEF u
      <3>. QED
        BY <1>11, <1>12, <2>2, <3>1, <3>2, <3>3
    <2>. QED
      BY <1>1, <1>3, <1>13, <2>1, <2>2
  <1>15. Bytes(r) \in Nat
    BY <1>1, DataBytes
  <1>16. Bytes(u) = Bytes(r) - b
    <2>1. Bytes(u) = (Bytes(r) - p) - rest /\ rest = b - p
      BY <1>4, <1>14
    <2>. HIDE DEF u, rest, p
    <2>. QED
      BY <1>2, <1>4, <1>15, <2>1
  <1>. HIDE DEF u, d, rest, p, n
  <1>17. \A i \in 2..Len(u) : u[i].size = r[k + i].size
    BY <1>3, <1>6, <1>14
  <1>18. u # <<>> => d[1] = r[k + 1]
    <2>1. u # <<>> => 1 \in 1..Len(r) - k
      BY <1>3, <1>6, <1>14, EmptySeq
    <2>. QED
      BY <1>6, <2>1
  <1>. QED
    BY <1>3, <1>6, <1>7, <1>9, <1>10, <1>14, <1>16, <1>17, <1>18
    DEF u, d, rest, p, n

\* A packet moves what a side has received on, in bytes and in ADUs.
LEMMA PacketMoves ==
    ASSUME BytesInv, NEW s \in Sides, NEW b \in 1..inflight[s],
           NEW k \in 0..DataLeft(toRecv[s]), Completes(toRecv[s], b, k),
           toRecv' = [toRecv EXCEPT
                        ![s] = LessBytes(Drop(@, k),
                                         b - Bytes(SubSeq(toRecv[s], 1, k)))],
           inflight' = [inflight EXCEPT ![s] = @ - b],
           UNCHANGED <<cvec, toSend>>
    PROVE  /\ WholeToRecv' = [WholeToRecv EXCEPT ![s] = Drop(@, k)]
           /\ AdusInFlight' = [AdusInFlight EXCEPT ![s] = @ - k]
           /\ InStep'
  <1>. DEFINE r == toRecv[s]
              u == LessBytes(Drop(r, k), b - Bytes(SubSeq(r, 1, k)))
              q == Adus(cvec, Peer(s))
              g == Len(q) - Len(r)
  <1>1. /\ k \in 0..AdusInFlight[s] /\ k \in 0..Len(r)
        /\ u \in Seq(ADU) /\ Len(u) = Len(r) - k
        /\ DataLeft(u) = DataLeft(r) - k
        /\ Bytes(u) = Bytes(r) - b
        /\ \A i \in 2..Len(u) : u[i].size = r[k + i].size
        /\ u # <<>> => /\ u[1].size <= r[k + 1].size
                       /\ u[1].size = 0 <=> r[k + 1].size = 0
    BY PacketLeaves
  <1>2. /\ toRecv \in [Sides -> Seq(ADU)] /\ inflight \in [Sides -> Nat]
        /\ \A t \in Sides : Partial(t)
        /\ \A t \in Sides : Bytes(toRecv[t]) = inflight[t] + Bytes(toSend[Peer(t)])
    BY DEF BytesInv, InStep, BytesConserved
  <1>3. /\ r \in Seq(ADU) /\ Len(r) \in Nat /\ g \in 0..DataLeft(q)
        /\ WholeToRecv[s] = Drop(q, g)
        /\ DataLeft(r) = DataLeft(q) - g
    BY GotPart
  <1>4. q \in Seq(ADU) /\ Len(q) \in Nat /\ DataLeft(q) \in Nat
        /\ DataLeft(q) <= Len(q)
    BY SentPart, PeerProperties, DataLeftProperties
  <1>5. toRecv' = [toRecv EXCEPT ![s] = u]
    OBVIOUS
  <1>. HIDE DEF u
  <1>6. /\ toRecv'[s] = u /\ \A t \in Sides : t # s => toRecv'[t] = toRecv[t]
        /\ toRecv' \in [Sides -> Seq(ADU)]
    BY <1>1, <1>2, <1>5
  <1>7. /\ inflight'[s] = inflight[s] - b
        /\ \A t \in Sides : t # s => inflight'[t] = inflight[t]
        /\ inflight' \in [Sides -> Nat]
        /\ inflight[s] \in Nat
    BY <1>2
  <1>8. k \in Nat /\ k \in 0..DataLeft(r) /\ DataLeft(r) \in Nat
    BY <1>3, <1>4
  <1>9. WholeToRecv' = [WholeToRecv EXCEPT ![s] = Drop(@, k)]
    <2>1. WholeToRecv'[s] = Drop(q, Len(q) - Len(u))
      BY <1>6 DEF WholeToRecv
    <2>2. Len(q) - Len(u) = g + k
      BY <1>1, <1>3, <1>4, <1>8
    <2>3. g \in 0..Len(q) /\ k \in 0..Len(q) - g
      BY <1>3, <1>4, <1>8
    <2>. HIDE DEF q, g
    <2>4. Drop(Drop(q, g), k) = Drop(q, g + k)
      BY <1>4, <2>3, DropDrop
    <2>5. WholeToRecv'[s] = Drop(WholeToRecv[s], k)
      BY <1>3, <2>1, <2>2, <2>4
    <2>6. ASSUME NEW t \in Sides, t # s
          PROVE  WholeToRecv'[t] = WholeToRecv[t]
      BY <1>6, <2>6 DEF WholeToRecv
    <2>7. /\ WholeToRecv = [t \in Sides |-> WholeToRecv[t]]
          /\ WholeToRecv' = [t \in Sides |-> WholeToRecv'[t]]
      BY DEF WholeToRecv
    <2>. QED
      BY <2>5, <2>6, <2>7
  <1>10. AdusInFlight' = [AdusInFlight EXCEPT ![s] = @ - k]
    <2>1. AdusInFlight'[s] = AdusInFlight[s] - k
      <3>1. /\ AdusInFlight'[s] = DataLeft(u) - DataLeft(toSend[Peer(s)])
            /\ AdusInFlight[s] = DataLeft(r) - DataLeft(toSend[Peer(s)])
        BY <1>6 DEF AdusInFlight
      <3>2. DataLeft(toSend[Peer(s)]) \in Nat
        BY SentPart, PeerProperties, DataLeftProperties
      <3>. DEFINE y == DataLeft(toSend[Peer(s)])
                  x == DataLeft(r)
                  z == DataLeft(u)
      <3>3. /\ AdusInFlight'[s] = z - y /\ AdusInFlight[s] = x - y
            /\ z = x - k /\ x \in Nat /\ y \in Nat
        BY <1>1, <1>8, <3>1, <3>2
      <3>. HIDE DEF x, y, z
      <3>. QED
        BY <1>8, <3>3
    <2>2. ASSUME NEW t \in Sides, t # s
          PROVE  AdusInFlight'[t] = AdusInFlight[t]
      BY <1>6, <2>2 DEF AdusInFlight
    <2>3. /\ AdusInFlight = [t \in Sides |-> AdusInFlight[t]]
          /\ AdusInFlight' = [t \in Sides |-> AdusInFlight'[t]]
      BY DEF AdusInFlight
    <2>. QED
      BY <2>1, <2>2, <2>3
  <1>11. \A t \in Sides : Bytes(toRecv'[t]) = inflight'[t] + Bytes(toSend[Peer(t)])
    <2>1. Bytes(u) = inflight'[s] + Bytes(toSend[Peer(s)])
      <3>. DEFINE y == Bytes(toSend[Peer(s)])
                  x == Bytes(r)
                  z == Bytes(u)
      <3>1. y \in Nat
        BY SentPart, PeerProperties, DataBytes
      <3>2. /\ x = inflight[s] + y /\ z = x - b /\ inflight'[s] = inflight[s] - b
            /\ inflight[s] \in Nat
        BY <1>1, <1>2, <1>7
      <3>. HIDE DEF x, y, z
      <3>3. z = inflight'[s] + y
        BY <3>1, <3>2
      <3>. QED
        BY <3>3 DEF y, z
    <2>. QED
      BY <1>2, <1>6, <1>7, <2>1
  <1>12. Partial(s)'
    <2>. DEFINE h == Len(q) - Len(u)
    <2>1. h = g + k /\ g \in Nat /\ k \in Nat
      BY <1>1, <1>3, <1>4, <1>8
    <2>2. /\ \A i \in 2..Len(r) : r[i].size = q[g + i].size
          /\ r # <<>> => /\ r[1].size <= q[g + 1].size
                         /\ r[1].size = 0 <=> q[g + 1].size = 0
      BY <1>2 DEF Partial
    <2>3. h \in 0..DataLeft(q)
      BY <1>3, <1>4, <1>8, <2>1
    <2>. HIDE DEF q, r, h, g
    <2>4. ASSUME NEW i \in 2..Len(u)
          PROVE  u[i].size = q[h + i].size
      <3>1. k + i \in 2..Len(r) /\ g + (k + i) = h + i
        BY <1>1, <1>3, <2>1
      <3>. QED
        BY <1>1, <2>2, <3>1
    <2>5. ASSUME u # <<>>
          PROVE  /\ u[1].size <= q[h + 1].size
                 /\ u[1].size = 0 <=> q[h + 1].size = 0
      <3>1. Len(u) # 0 /\ Len(u) \in Nat
        BY <1>1, <2>5, EmptySeq
      <3>2. r # <<>> /\ k + 1 \in 1..Len(r)
        <4>. DEFINE l == Len(r)
                    m == Len(u)
        <4>1. m = l - k /\ m # 0 /\ m \in Nat /\ l \in Nat /\ k \in Nat
          BY <1>1, <1>3, <2>1, <3>1
        <4>. HIDE DEF l, m
        <4>2. k + 1 \in 1..l /\ l # 0
          BY <4>1
        <4>3. r # <<>>
          BY <1>3, <4>2, EmptySeq DEF l
        <4>. QED
          BY <4>2, <4>3 DEF l
      <3>3. /\ r[k + 1].size <= q[h + 1].size
            /\ r[k + 1].size = 0 <=> q[h + 1].size = 0
        <4>1. CASE k = 0
          BY <2>1, <2>2, <3>2, <4>1
        <4>2. CASE k # 0
          <5>1. k + 1 \in 2..Len(r) /\ g + (k + 1) = h + 1
            BY <2>1, <3>2, <4>2
          <5>2. r[k + 1].size = q[h + 1].size
            BY <2>2, <5>1
          <5>3. r[k + 1].size \in Nat
            <6>1. r[k + 1] \in ADU
              BY <1>3, <3>2, ElementOfSeq
            <6>. QED
              BY <6>1 DEF ADU
          <5>. QED
            BY <5>2, <5>3
        <4>. QED
          BY <4>1, <4>2
      <3>4. /\ u[1].size \in Nat /\ r[k + 1].size \in Nat
            /\ q[h + 1].size \in Nat
        <4>1. 1 \in 1..Len(u) /\ h + 1 \in 1..Len(q)
          BY <1>1, <1>4, <2>1, <2>3, <3>1, <3>2 DEF h
        <4>2. u[1] \in ADU /\ r[k + 1] \in ADU /\ q[h + 1] \in ADU
          BY <1>1, <1>3, <1>4, <3>2, <4>1, ElementOfSeq
        <4>. QED
          BY <4>2 DEF ADU
      <3>. QED
        BY <1>1, <2>5, <3>3, <3>4
    <2>. QED
      BY <1>6, <2>3, <2>4, <2>5 DEF Partial, q, h
  <1>13. ASSUME NEW t \in Sides
         PROVE  Partial(t)'
    <2>1. CASE t = s
      BY <1>12, <2>1
    <2>2. CASE t # s
      <3>1. Partial(t) /\ toRecv'[t] = toRecv[t]
        BY <1>2, <1>6, <2>2
      <3>. QED
        BY <3>1 DEF Partial
    <2>. QED
      BY <2>1, <2>2
  <1>. QED
    BY <1>6, <1>7, <1>9, <1>10, <1>11, <1>13 DEF InStep, BytesConserved

\* Receive: a packet that completes ADUs is a receipt of these, and one that
\* does not changes nothing that counts.
LEMMA ReceiveAdus ==
    ASSUME BytesInv, NEW s \in Sides, NEW b \in 1..inflight[s],
           ReceiveBytes(s, b)
    PROVE  /\ \/ \E k \in 1..AdusInFlight[s] : Conn!Receive(s, k)
              \/ UNCHANGED Conn!vars
           /\ InStep'
  <1>1. PICK k \in 0..DataLeft(toRecv[s]) :
          LET rest == b - Bytes(SubSeq(toRecv[s], 1, k))
          IN /\ Completes(toRecv[s], b, k)
             /\ IF k = DataLeft(toRecv[s]) /\ rest > 0
                THEN /\ fatal' = "extraBytes"
                     /\ UNCHANGED <<toRecv, heardAt, lastRecv, timers>>
                ELSE /\ toRecv' = [toRecv EXCEPT
                                     ![s] = LessBytes(Drop(@, k), rest)]
                     /\ heardAt' = [heardAt EXCEPT
                                      ![s] = @ \o [i \in 1..k |-> now]]
                     /\ IF k > 0 THEN AnswerReceipts(s, k)
                        ELSE UNCHANGED <<lastRecv, timers>>
                     /\ UNCHANGED fatal
    BY DEF ReceiveBytes
  <1>. DEFINE rest == b - Bytes(SubSeq(toRecv[s], 1, k))
  <1>2. /\ Running /\ conn[s] = "open"
        /\ inflight' = [inflight EXCEPT ![s] = @ - b]
        /\ UNCHANGED <<now, cvec, conn, retries, toSend, lastSend, closed, fin,
                       notified, freed, full>>
    BY DEF ReceiveBytes
  <1>3. /\ ~(k = DataLeft(toRecv[s]) /\ rest > 0)
        /\ k \in 0..AdusInFlight[s]
    BY <1>1, PacketLeaves
  <1>4. /\ toRecv' = [toRecv EXCEPT ![s] = LessBytes(Drop(@, k), rest)]
        /\ heardAt' = [heardAt EXCEPT ![s] = @ \o [i \in 1..k |-> now]]
        /\ k > 0 => AnswerReceipts(s, k)
        /\ ~(k > 0) => UNCHANGED <<lastRecv, timers>>
        /\ UNCHANGED fatal
    BY <1>1, <1>3
  <1>5. /\ WholeToRecv' = [WholeToRecv EXCEPT ![s] = Drop(@, k)]
        /\ AdusInFlight' = [AdusInFlight EXCEPT ![s] = @ - k]
        /\ InStep'
    BY <1>1, <1>2, <1>4, PacketMoves
  <1>6. /\ AdusInFlight \in [Sides -> Nat]
        /\ heardAt \in [Sides -> Seq(Nat)]
        /\ WholeToRecv \in [Sides -> Seq(ADU)]
    BY SameOperators DEF BytesInv, Conn!PlaceInv, Conn!Inv, Conn!TypeOK
  <1>7. CASE k = 0
    <2>1. AdusInFlight' = AdusInFlight
      BY <1>5, <1>6, <1>7
    <2>2. WholeToRecv' = WholeToRecv
      <3>1. /\ WholeToRecv[s] \in Seq(ADU) /\ 0 \in 0..Len(WholeToRecv[s])
            /\ Len(WholeToRecv[s]) \in Nat
        BY <1>6, LenProperties
      <3>2. Drop(WholeToRecv[s], 0) = WholeToRecv[s]
        <4>. DEFINE w == WholeToRecv[s]
        <4>1. /\ Drop(w, 0) \in Seq(ADU) /\ Len(Drop(w, 0)) = Len(w) - 0
              /\ \A i \in 1..Len(w) - 0 : Drop(w, 0)[i] = w[0 + i]
          BY <3>1, DropProperties
        <4>. HIDE DEF w
        <4>. DEFINE d == Drop(w, 0)
        <4>2. Len(d) = Len(w) /\ \A i \in 1..Len(d) : d[i] = w[i]
          BY <3>1, <4>1 DEF w
        <4>. QED
          BY <3>1, <4>1, <4>2, SeqEqual DEF w
      <3>. QED
        BY <1>5, <1>6, <1>7, <3>2
    <2>3. heardAt' = heardAt
      <3>1. [i \in 1..k |-> now] = <<>>
        BY <1>7
      <3>2. heardAt[s] \o <<>> = heardAt[s]
        BY <1>6, ConcatEmptySeq
      <3>. QED
        BY <1>4, <1>6, <3>1, <3>2
    <2>4. UNCHANGED <<lastRecv, timers>>
      BY <1>4, <1>7
    <2>. QED
      BY <1>2, <1>4, <1>5, <2>1, <2>2, <2>3, <2>4 DEF Conn!vars
  <1>8. CASE k # 0
    <2>1. /\ AdusInFlight[s] \in Nat /\ k \in 1..AdusInFlight[s] /\ k > 0
      BY <1>3, <1>6, <1>8
    <2>2. k <= DataLeft(WholeToRecv[s])
      <3>1. k <= DataLeft(toRecv[s])
        <4>1. DataLeft(toRecv[s]) \in Nat
          BY GotPart, DataLeftProperties
        <4>. QED
          BY <4>1
      <3>. QED
        BY <3>1, GotPart
    <2>3. /\ Conn!Running
          /\ Conn!DataLeft(WholeToRecv[s]) = DataLeft(WholeToRecv[s])
          /\ Conn!Drop(WholeToRecv[s], k) = Drop(WholeToRecv[s], k)
          /\ Conn!AnswerReceipts(s, k)
      BY <1>2, <1>4, <2>1, SameOperators, SameHelpers DEF Conn!Running, Running
    <2>4. ~(k > DataLeft(WholeToRecv[s]))
      <3>1. DataLeft(WholeToRecv[s]) \in Nat /\ k \in Nat
        BY <1>6, <2>1, DataLeftProperties
      <3>. QED
        BY <2>2, <3>1
    <2>5. Conn!Receive(s, k)
      BY <1>2, <1>4, <1>5, <2>1, <2>3, <2>4 DEF Conn!Receive
    <2>. QED
      BY <1>5, <2>1, <2>5
  <1>. QED
    BY <1>7, <1>8

\* The handlers that start a connection, and the clock.
LEMMA QuietAdus ==
    ASSUME BytesInv,
           AcceptorStart \/ InitiatorStart \/ ConnectionFailed \/ Tick
    PROVE  Conn!Next /\ InStep'
  <1>1. UNCHANGED <<cvec, toSend, toRecv, inflight>>
    BY DEF AcceptorStart, InitiatorStart, ConnectionFailed, Tick, worker
  <1>2. UNCHANGED <<WholeToRecv, AdusInFlight>>
    BY <1>1, QueuesStay
  <1>3. InStep'
    BY <1>1, QuietBytes DEF BytesInv
  <1>4. Conn!Sides = Sides
    BY SameOperators
  <1>5. AcceptorStart => Conn!AcceptorStart
    BY <1>2 DEF AcceptorStart, Conn!AcceptorStart, Running, Conn!Running, worker,
                Conn!worker
  <1>6. InitiatorStart => Conn!InitiatorStart
    BY <1>2 DEF InitiatorStart, Conn!InitiatorStart, Running, Conn!Running,
                worker, Conn!worker
  <1>7. ConnectionFailed => Conn!ConnectionFailed
    BY <1>2 DEF ConnectionFailed, Conn!ConnectionFailed, Running, Conn!Running,
                worker, Conn!worker
  <1>8. Tick => Conn!Tick
    BY <1>2, <1>4 DEF Tick, Conn!Tick, Running, Conn!Running, worker, Conn!worker
  <1>. QED
    BY <1>3, <1>5, <1>6, <1>7, <1>8 DEF Conn!Next

\* The connection is made.
LEMMA ConnectAdus ==
    ASSUME BytesInv, ConnectionCompleteBytes \/ NewConnectionCreatedBytes
    PROVE  Conn!Next /\ InStep'
  <1>1. CASE ConnectionCompleteBytes
    <2>1. BeginSendingBytes("I") /\ "I" \in Sides
      BY <1>1 DEF ConnectionCompleteBytes, Sides
    <2>2. /\ Conn!BeginSending("I") /\ InStep'
          /\ UNCHANGED <<now, cvec, retries, WholeToRecv, notified, freed, heardAt>>
      BY <2>1, BeginAdus
    <2>3. Conn!ConnectionComplete
      BY <1>1, <2>2
      DEF ConnectionCompleteBytes, Conn!ConnectionComplete, Running, Conn!Running
    <2>. QED
      BY <2>2, <2>3 DEF Conn!Next
  <1>2. CASE NewConnectionCreatedBytes
    <2>1. BeginSendingBytes("A") /\ "A" \in Sides
      BY <1>2 DEF NewConnectionCreatedBytes, Sides
    <2>2. /\ Conn!BeginSending("A") /\ InStep'
          /\ UNCHANGED <<now, cvec, retries, WholeToRecv, notified, freed, heardAt>>
      BY <2>1, BeginAdus
    <2>3. Conn!NewConnectionCreated
      BY <1>2, <2>2
      DEF NewConnectionCreatedBytes, Conn!NewConnectionCreated, Running,
          Conn!Running
    <2>. QED
      BY <2>2, <2>3 DEF Conn!Next
  <1>. QED
    BY <1>1, <1>2

\* A pending DoSend event runs.
LEMMA DoSendAdus ==
    ASSUME BytesInv, NEW s \in Sides, NEW i \in 1..Len(timers[s]),
           DoSendBytes(s, i)
    PROVE  Conn!DoSend(s, i) /\ InStep'
  <1>. DEFINE pending == SubSeq(timers[s], 1, i - 1) \o Drop(timers[s], i)
  <1>1. /\ Running /\ timers[s][i] <= now /\ conn' = conn
        /\ toSend[s] # <<>> => SendBytes(s, pending)
        /\ toSend[s] = <<>> =>
             /\ timers' = [timers EXCEPT ![s] = pending]
             /\ UNCHANGED <<now, cvec, retries, toSend, toRecv, lastSend,
                            lastRecv, closed, inflight, fin, fatal, notified,
                            freed, heardAt>>
    BY DEF DoSendBytes
  <1>2. SubSeq(timers[s], 1, i - 1) \o Conn!Drop(timers[s], i) = pending
    BY SameOperators
  <1>. HIDE DEF pending
  <1>3. CASE toSend[s] # <<>>
    <2>1. /\ Conn!SendBurst(s, pending) /\ InStep'
          /\ UNCHANGED <<now, cvec, retries, WholeToRecv, notified, freed, heardAt>>
      BY <1>1, <1>3, SendAdus
    <2>. QED
      BY <1>1, <1>2, <1>3, <2>1 DEF Conn!DoSend, Conn!Running, Running
  <1>4. CASE toSend[s] = <<>>
    <2>1. UNCHANGED <<cvec, toSend, toRecv, inflight>>
      BY <1>1, <1>4
    <2>2. UNCHANGED <<WholeToRecv, AdusInFlight>> /\ InStep'
      BY <2>1, QueuesStay, QuietBytes DEF BytesInv
    <2>. QED
      BY <1>1, <1>2, <1>4, <2>2 DEF Conn!DoSend, Conn!Running, Running
  <1>. QED
    BY <1>3, <1>4

\* The FIN arrives behind the last byte, hence behind the last ADU.
LEMMA FinAdus ==
    ASSUME BytesInv, NEW s \in Sides, ReceiveFin(s) \/ Closed(s)
    PROVE  (Conn!ReceiveFin(s) \/ Conn!Closed(s)) /\ InStep'
  <1>1. FinArrives(s) /\ UNCHANGED <<cvec, toSend, toRecv, inflight>>
    BY DEF ReceiveFin, Closed
  <1>2. UNCHANGED <<WholeToRecv, AdusInFlight>> /\ InStep'
    BY <1>1, QueuesStay, QuietBytes DEF BytesInv
  <1>3. Conn!FinArrives(s)
    <2>1. AdusInFlight[s] = 0
      BY <1>1, NoneOnTheWay DEF FinArrives
    <2>. QED
      BY <1>1, <2>1 DEF FinArrives, Conn!FinArrives, Running, Conn!Running
  <1>4. /\ Conn!Drained(WholeToRecv[s]) <=> Drained(toRecv[s])
        /\ Conn!Drained(toSend[s]) <=> Drained(toSend[s])
        /\ Conn!Peer(s) = Peer(s)
    BY SameOperators, GotPart
  <1>5. ReceiveFin(s) => Conn!ReceiveFin(s)
    BY <1>2, <1>3, <1>4 DEF ReceiveFin, Conn!ReceiveFin
  <1>6. Closed(s) => Conn!Closed(s)
    BY <1>2, <1>3, <1>4 DEF Closed, Conn!Closed
  <1>. QED
    BY <1>2, <1>5, <1>6

-----------------------------------------------------------------------------
(* The theorems.                                                           *)

\* Each step in bytes is a step in whole ADUs, or none.
LEMMA NextAdus ==
    ASSUME BytesInv, [BytesNext]_bvars
    PROVE  [Conn!Next]_(Conn!vars) /\ InStep'
  <1>. USE SameOperators
  <1>1. CASE AcceptorStart \/ InitiatorStart \/ ConnectionFailed \/ Tick
    BY <1>1, QuietAdus
  <1>2. CASE ConnectionCompleteBytes \/ NewConnectionCreatedBytes
    BY <1>2, ConnectAdus
  <1>3. ASSUME NEW s \in Sides, NEW i \in 1..Len(timers[s]), DoSendBytes(s, i)
        PROVE  Conn!Next /\ InStep'
    BY <1>3, DoSendAdus DEF Conn!Next
  <1>4. ASSUME NEW s \in Sides, NEW b \in 1..inflight[s], ReceiveBytes(s, b)
        PROVE  [Conn!Next]_(Conn!vars) /\ InStep'
    BY <1>4, ReceiveAdus DEF Conn!Next
  <1>5. ASSUME NEW s \in Sides, ReceiveFin(s) \/ Closed(s)
        PROVE  Conn!Next /\ InStep'
    BY <1>5, FinAdus DEF Conn!Next
  <1>6. CASE UNCHANGED vars
    <2>1. UNCHANGED <<cvec, toSend, toRecv, inflight>>
      BY <1>6 DEF vars
    <2>2. UNCHANGED <<WholeToRecv, AdusInFlight>> /\ InStep'
      BY <2>1, QueuesStay, QuietBytes DEF BytesInv
    <2>. QED
      BY <1>6, <2>2 DEF vars, Conn!vars
  <1>7. (\E s \in Sides : BufferFull(s)) \/ UNCHANGED bvars => UNCHANGED vars
    BY DEF BufferFull, bvars
  <1>. QED
    BY <1>1, <1>2, <1>3, <1>4, <1>5, <1>6, <1>7 DEF BytesNext, Other

LEMMA BytesNextInv == BytesInv /\ [BytesNext]_bvars => BytesInv'
  <1>. SUFFICES ASSUME BytesInv, [BytesNext]_bvars
                PROVE  BytesInv'
    OBVIOUS
  <1>1. Conn!PlaceInv /\ [Conn!Next]_(Conn!vars) /\ InStep'
    BY NextAdus DEF BytesInv
  <1>2. Conn!PlaceInv'
    BY <1>1, SameAssumptions, Conn!PlaceStep
  <1>. QED
    BY <1>1, <1>2 DEF BytesInv

LEMMA InitAdus == BytesInit => Conn!Init /\ BytesInv
  <1>. SUFFICES ASSUME BytesInit
                PROVE  Conn!Init /\ BytesInv
    OBVIOUS
  <1>1. Init
    BY DEF BytesInit
  <1>2. /\ cvec \in Vectors
        /\ toSend = [s \in Sides |-> Adus(cvec, s)]
        /\ toRecv = [s \in Sides |-> Adus(cvec, Peer(s))]
        /\ inflight = [s \in Sides |-> 0]
    BY <1>1 DEF Init
  <1>3. \A s \in Sides : /\ Peer(s) \in Sides
                         /\ Adus(cvec, s) \in Seq(ADU)
                         /\ Adus(cvec, Peer(s)) \in Seq(ADU)
    BY <1>2, AcceptedVector, PeerProperties
  <1>4. ASSUME NEW s \in Sides
        PROVE  /\ WholeToRecv[s] = Adus(cvec, Peer(s))
               /\ AdusInFlight[s] = 0
               /\ Bytes(toRecv[s]) = inflight[s] + Bytes(toSend[Peer(s)])
               /\ Partial(s)
    <2>. DEFINE q == Adus(cvec, Peer(s))
    <2>1. /\ q \in Seq(ADU) /\ Len(q) \in Nat
          /\ DataLeft(q) \in Nat /\ Bytes(q) \in Nat
      BY <1>3, LenProperties, DataLeftProperties, DataBytes
    <2>2. toRecv[s] = q /\ toSend[Peer(s)] = q /\ inflight[s] = 0
      BY <1>2, <1>3
    <2>3. WholeToRecv[s] = q
      <3>1. WholeToRecv[s] = Drop(q, Len(q) - Len(q))
        BY <2>2 DEF WholeToRecv
      <3>. DEFINE z == Len(q) - Len(q)
      <3>2. z = 0 /\ z \in 0..Len(q)
        BY <2>1
      <3>. HIDE DEF q, z
      <3>. DEFINE d == Drop(q, z)
      <3>3. /\ d \in Seq(ADU) /\ Len(d) = Len(q) - z
            /\ \A i \in 1..Len(q) - z : d[i] = q[z + i]
        BY <2>1, <3>2, DropProperties
      <3>. HIDE DEF d
      <3>4. Len(d) = Len(q) /\ \A i \in 1..Len(d) : d[i] = q[i]
        BY <2>1, <3>2, <3>3
      <3>5. d = q
        BY <2>1, <3>3, <3>4, SeqEqual
      <3>. QED
        BY <3>1, <3>5 DEF d, z, q
    <2>4. AdusInFlight[s] = 0
      BY <2>1, <2>2 DEF AdusInFlight
    <2>5. Partial(s)
      <3>1. \A i \in 1..Len(q) : q[i].size \in Nat
        <4>1. \A i \in 1..Len(q) : q[i] \in ADU
          BY <2>1, ElementOfSeq
        <4>. QED
          BY <4>1 DEF ADU
      <3>2. q # <<>> => 1 \in 1..Len(q)
        BY <2>1, EmptySeq
      <3>. DEFINE g == Len(q) - Len(q)
      <3>3. g = 0
        BY <2>1
      <3>. HIDE DEF q, g
      <3>4. /\ g \in 0..DataLeft(q)
            /\ \A i \in 2..Len(q) : q[i].size = q[g + i].size
            /\ q # <<>> => /\ q[1].size <= q[g + 1].size
                           /\ q[1].size = 0 <=> q[g + 1].size = 0
        BY <2>1, <3>1, <3>2, <3>3
      <3>. QED
        BY <2>2, <3>4 DEF Partial, q, g
    <2>. QED
      BY <2>1, <2>2, <2>3, <2>4, <2>5
  <1>5. /\ WholeToRecv = [s \in Sides |-> Adus(cvec, Peer(s))]
        /\ AdusInFlight = [s \in Sides |-> 0]
    <2>1. /\ WholeToRecv = [s \in Sides |-> WholeToRecv[s]]
          /\ AdusInFlight = [s \in Sides |-> AdusInFlight[s]]
      BY DEF WholeToRecv, AdusInFlight
    <2>. QED
      BY <1>4, <2>1
  <1>6. Conn!Init
    BY <1>1, <1>5, SameOperators DEF Init, Conn!Init
  <1>7. InStep
    <2>1. toRecv \in [Sides -> Seq(ADU)] /\ inflight \in [Sides -> Nat]
      BY <1>2, <1>3
    <2>. QED
      BY <1>4, <2>1 DEF InStep, BytesConserved
  <1>8. Conn!PlaceInv
    BY <1>6, SameAssumptions, Conn!InitPlace
  <1>. QED
    BY <1>6, <1>7, <1>8 DEF BytesInv

LEMMA BytesInvariance == BytesSpec => []BytesInv
  <1>. QED
    BY InitAdus, BytesNextInv, PTL DEF BytesSpec

\* However TCP cuts the stream into packets, the loop in Worker::Receive takes
\* each packet off completely: a side still expects the bytes that are under
\* way or not sent yet, no more and no less.
THEOREM NoByteLost == BytesSpec => []BytesConserved
  <1>1. BytesInv => BytesConserved
    BY DEF BytesInv, InStep
  <1>. QED
    BY <1>1, BytesInvariance, PTL

LEMMA ConnReplays == BytesSpec => Conn!Spec
  <1>1. BytesInit => Conn!Init
    BY InitAdus
  <1>2. BytesInv /\ [BytesNext]_bvars => [Conn!Next]_(Conn!vars)
    BY NextAdus
  <1>. QED
    BY <1>1, <1>2, BytesInvariance, PTL DEF BytesSpec, Conn!Spec

-----------------------------------------------------------------------------
(* TmixConnection is instantiated twice: Adu is what TmixBytes states, and  *)
(* Conn has the theorems too.  Both are the same.                           *)

LEMMA SameSend ==
    /\ \A s, q : Conn!CloseIfDone(s, q) <=> Adu!CloseIfDone(s, q)
    /\ \A s, a, p, t : Conn!WaitForNext(s, a, p, t) <=> Adu!WaitForNext(s, a, p, t)
    /\ \A s, p : Conn!SendBurst(s, p) <=> Adu!SendBurst(s, p)
    /\ \A s : Conn!BeginSending(s) <=> Adu!BeginSending(s)
  <1>1. ASSUME NEW s, NEW n, NEW p
        PROVE  Conn!Burst(s, n, p) <=> Adu!Burst(s, n, p)
    BY DEF Conn!Burst, Adu!Burst, Conn!Drop, Adu!Drop, Conn!DataLeft,
           Adu!DataLeft, Conn!IsBurst, Adu!IsBurst, Conn!Immediate,
           Adu!Immediate, Conn!CloseIfDone, Adu!CloseIfDone, Conn!WaitForNext,
           Adu!WaitForNext, Conn!Drained, Adu!Drained, Conn!Wakeups,
           Adu!Wakeups, Conn!NotBefore, Adu!NotBefore, Conn!Peer, Adu!Peer
  <1>2. \A s, q : Conn!CloseIfDone(s, q) <=> Adu!CloseIfDone(s, q)
    BY DEF Conn!CloseIfDone, Adu!CloseIfDone, Conn!Drained, Adu!Drained,
           Conn!Peer, Adu!Peer
  <1>3. \A s, a, p, t : Conn!WaitForNext(s, a, p, t) <=> Adu!WaitForNext(s, a, p, t)
    BY DEF Conn!WaitForNext, Adu!WaitForNext, Conn!Wakeups, Adu!Wakeups,
           Conn!NotBefore, Adu!NotBefore
  <1>4. \A s, p : Conn!SendBurst(s, p) <=> Adu!SendBurst(s, p)
    BY <1>1 DEF Conn!SendBurst, Adu!SendBurst, Conn!DataIn, Adu!DataIn,
                Conn!Drop, Adu!Drop, Conn!DataLeft, Adu!DataLeft, Conn!Peer,
                Adu!Peer
  <1>5. \A s : Conn!BeginSending(s) <=> Adu!BeginSending(s)
    BY <1>3, <1>4 DEF Conn!BeginSending, Adu!BeginSending, Conn!Immediate,
                      Adu!Immediate
  <1>. QED
    BY <1>2, <1>3, <1>4, <1>5

LEMMA SameNext == Conn!Next <=> Adu!Next
  <1>1. /\ Conn!AcceptorStart <=> Adu!AcceptorStart
        /\ Conn!InitiatorStart <=> Adu!InitiatorStart
        /\ Conn!ConnectionFailed <=> Adu!ConnectionFailed
        /\ Conn!Tick <=> Adu!Tick
    BY DEF Conn!AcceptorStart, Adu!AcceptorStart, Conn!InitiatorStart,
           Adu!InitiatorStart, Conn!ConnectionFailed, Adu!ConnectionFailed,
           Conn!Tick, Adu!Tick, Conn!Running, Adu!Running, Conn!worker,
           Adu!worker, Conn!Sides, Adu!Sides
  <1>2. /\ Conn!ConnectionComplete <=> Adu!ConnectionComplete
        /\ Conn!NewConnectionCreated <=> Adu!NewConnectionCreated
    BY SameSend DEF Conn!ConnectionComplete, Adu!ConnectionComplete,
       Conn!NewConnectionCreated, Adu!NewConnectionCreated, Conn!Running,
       Adu!Running
  <1>3. \A s, k : Conn!Receive(s, k) <=> Adu!Receive(s, k)
    BY Zenon DEF Conn!Receive, Adu!Receive, Conn!Running, Adu!Running,
       Conn!Drop, Adu!Drop, Conn!DataLeft, Adu!DataLeft, Conn!AnswerReceipts,
       Adu!AnswerReceipts
  <1>4. \A s : /\ Conn!ReceiveFin(s) <=> Adu!ReceiveFin(s)
               /\ Conn!Closed(s) <=> Adu!Closed(s)
    BY DEF Conn!ReceiveFin, Adu!ReceiveFin, Conn!Closed, Adu!Closed,
           Conn!FinArrives, Adu!FinArrives, Conn!Running, Adu!Running,
           Conn!Drained, Adu!Drained, Conn!Peer, Adu!Peer
  <1>5. \A s, i : Conn!DoSend(s, i) <=> Adu!DoSend(s, i)
    BY SameSend DEF Conn!DoSend, Adu!DoSend, Conn!Running, Adu!Running,
       Conn!Drop, Adu!Drop
  <1>. QED
    BY <1>1, <1>2, <1>3, <1>4, <1>5
    DEF Conn!Next, Adu!Next, Conn!Sides, Adu!Sides

\* However TCP cuts the stream into packets, a run of the workers in bytes is
\* a run of TmixConnection in whole ADUs: each packet is the receipt of the
\* ADUs it completes, and one that completes none changes nothing they see.
THEOREM ReplayOfAdus == BytesSpec => ReplaysAdus
  <1>1. Conn!Init <=> Adu!Init
    <2>1. /\ \A v, s : Conn!Adus(v, s) = Adu!Adus(v, s)
          /\ \A s : Conn!Peer(s) = Adu!Peer(s)
      BY DEF Conn!Adus, Adu!Adus, Conn!Places, Adu!Places, Conn!PlaceOf,
             Adu!PlaceOf, Conn!Cardinality, Adu!Cardinality, Conn!Peer, Adu!Peer
    <2>. QED
      BY <2>1 DEF Conn!Init, Adu!Init, Conn!Sides, Adu!Sides
  <1>2. [Conn!Next]_(Conn!vars) => [Adu!Next]_(Adu!vars)
    BY SameNext DEF Conn!vars, Adu!vars
  <1>. QED
    BY <1>1, <1>2, ConnReplays, PTL DEF ReplaysAdus, Conn!Spec, Adu!Spec

\* What a vector and a side's progress in it are does not depend on bytes.
LEMMA SameHistory ==
    /\ \A v : Conn!Alternating(v) <=> Alternating(v)
    /\ \A s : Conn!SentNow(s) = SentNow(s)
    /\ \A s : Conn!RepliesSent(s) = RepliesSent(s)
    /\ \A s, i : Conn!RequestsBefore(s, i) = RequestsBefore(s, i)
  <1>1. \A v : Conn!Alternating(v) <=> Alternating(v)
    BY DEF Conn!Alternating, Alternating, Conn!Immediate, Immediate
  <1>2. \A s : Conn!SentNow(s) = SentNow(s)
    BY SameOperators DEF Conn!SentNow, SentNow
  <1>3. \A A : Conn!Cardinality(A) = Cardinality(A)
    BY DEF Conn!Cardinality, Cardinality
  <1>4. ASSUME NEW s
        PROVE  Conn!RepliesSent(s) = RepliesSent(s)
    <2>. DEFINE A == {i \in 1..Conn!SentCount(s) :
                        Conn!Adus(cvec, s)[i].recvWait > 0}
                B == {i \in 1..SentCount(s) : Adus(cvec, s)[i].recvWait > 0}
    <2>1. /\ Conn!SentCount(s) = SentCount(s)
          /\ Conn!Adus(cvec, s) = Adus(cvec, s)
      BY SameOperators
    <2>2. A = B
      BY <2>1
    <2>3. Conn!RepliesSent(s) = Conn!Cardinality(A)
      BY DEF Conn!RepliesSent
    <2>4. RepliesSent(s) = Cardinality(B)
      BY DEF RepliesSent
    <2>. HIDE DEF A, B
    <2>. QED
      BY <1>3, <2>2, <2>3, <2>4
  <1>5. ASSUME NEW s, NEW i
        PROVE  Conn!RequestsBefore(s, i) = RequestsBefore(s, i)
    <2>. DEFINE A == {j \in 1..PlaceOf(cvec, s, i) :
                        cvec[j].side # s /\ cvec[j].size > 0}
    <2>1. Conn!PlaceOf(cvec, s, i) = PlaceOf(cvec, s, i)
      BY <1>3 DEF Conn!PlaceOf, PlaceOf, Conn!Places, Places
    <2>2. Conn!RequestsBefore(s, i) = Conn!Cardinality(A)
      BY <2>1 DEF Conn!RequestsBefore
    <2>3. RequestsBefore(s, i) = Cardinality(A)
      BY DEF RequestsBefore
    <2>. HIDE DEF A
    <2>. QED
      BY <1>3, <2>2, <2>3
  <1>. QED
    BY <1>1, <1>2, <1>4, <1>5

\* What is proved of whole ADUs holds of bytes: the program is not stopped by
\* an assertion or by NS_FATAL_ERROR, "extra bytes" least of all, sockets
\* close when all is sent and received, and no side sends more answers than
\* it got ADUs.
THEOREM BytesAreSafe == BytesSpec => [](NoFatal /\ CloseIsGraceful /\ RepliesPaid)
  <1>1. Conn!Spec => []Conn!RepliesPaid
    BY SameAssumptions, Conn!NoFreeReplies
  <1>2. Conn!Spec => []Conn!CloseIsGraceful
    BY SameAssumptions, Conn!GracefulClose
  <1>3. BytesInv => NoFatal
    BY DEF BytesInv, Conn!PlaceInv, Conn!Inv, Conn!NoFatal, NoFatal
  <1>4. Conn!RepliesPaid => RepliesPaid
    BY SameOperators, SameHistory DEF Conn!RepliesPaid, RepliesPaid
  <1>5. BytesInv /\ Conn!CloseIsGraceful => CloseIsGraceful
    <2>. SUFFICES ASSUME BytesInv, Conn!CloseIsGraceful
                  PROVE  CloseIsGraceful
      OBVIOUS
    <2>1. \A s \in Sides : DataLeft(WholeToRecv[s]) = DataLeft(toRecv[s])
      BY GotPart
    <2>. QED
      BY <2>1, SameOperators DEF Conn!CloseIsGraceful, CloseIsGraceful
  <1>. QED
    BY <1>1, <1>2, <1>3, <1>4, <1>5, ConnReplays, BytesInvariance, PTL

\* However the ADUs of an alternating vector are cut into packets, a side
\* has one DoSend pending at most.
THEOREM OneWaitInBytes == BytesSpec => []NoStrayDoSend
  <1>1. Conn!Spec => []Conn!NoStrayDoSend
    BY SameAssumptions, Conn!OneWaitAtATime
  <1>2. Conn!NoStrayDoSend => NoStrayDoSend
    BY SameOperators, SameHistory DEF Conn!NoStrayDoSend, NoStrayDoSend
  <1>. QED
    BY <1>1, <1>2, ConnReplays, PTL

\* The answer to an ADU that comes in several packets waits for the last of
\* them: a packet that completes nothing answers nothing.
THEOREM AnswersWaitInBytes == BytesSpec => RecvWaitRespected
  <1>1. Conn!Spec => Conn!RecvWaitRespected
    BY SameAssumptions, Conn!AnswersAreLate
  <1>2. BytesInv /\ [\A s \in Conn!Sides : \A i \in Conn!SentNow(s) :
                        LET a == Conn!Adus(cvec, s)[i]
                            n == Conn!RequestsBefore(s, i)
                        IN Conn!Alternating(cvec) /\ a.recvWait > 0
                             => /\ n <= Len(heardAt[s])
                                /\ now >= heardAt[s][n] + a.recvWait]_(Conn!vars)
        => [\A s \in Sides : \A i \in SentNow(s) :
              LET a == Adus(cvec, s)[i]
                  n == RequestsBefore(s, i)
              IN Alternating(cvec) /\ a.recvWait > 0
                   => /\ n <= Len(heardAt[s])
                      /\ now >= heardAt[s][n] + a.recvWait]_vars
    <2>1. ASSUME BytesInv, UNCHANGED Conn!vars, NEW s \in Sides
          PROVE  SentNow(s) = {}
      <3>1. SentCount(s) \in Nat /\ toSend' = toSend
        BY <2>1, SentPart DEF Conn!vars
      <3>2. SentNow(s) = SentCount(s) + 1..SentCount(s)
        BY <3>1 DEF SentNow, SentCount
      <3>. QED
        BY <3>1, <3>2
    <2>. QED
      BY <2>1, SameOperators, SameHistory
  <1>. QED
    BY <1>1, <1>2, ConnReplays, BytesInvariance, PTL
    DEF RecvWaitRespected, Conn!RecvWaitRespected
=============================================================================

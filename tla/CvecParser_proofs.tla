-------------------------- MODULE CvecParser_proofs --------------------------
(***************************************************************************)
(* What ParseConnectionVector and AddConnectionVectors make of a text, for *)
(* all vectors, all numbers, all layouts and any line that is damaged.     *)
(* The parser goes from mark to mark, each time right behind a line or a   *)
(* comment, until it comes to the last one, from which it finds its way    *)
(* out without reading another vector.                                     *)
(***************************************************************************)
EXTENDS CvecParser, SequenceTheorems, WellFoundedInduction, TLAPS

-----------------------------------------------------------------------------
(* The inductive invariant.                                                *)

\* The letter read last, which decides when no more can be read.
LastLetter ==
    /\ at = "w" => x \in {"S", "C"}
    /\ at = "r" => x = "w"
    /\ at = "l" => x = "r"
    /\ at = "adus" => x \in {"l", "I", "A", "#"}

\* A vector has its type and start when its header was read.
HasHeader == at \in {"r", "l", "adus"} \/ (at = "w" /\ ~failed) => cvec \in Cvec

TypeInv == TypeOK /\ LastLetter /\ HasHeader

Mark(k) == file.marks[k]
LastMark == Len(file.marks)

\* Added are the first n vectors of the text.
Copies(n) == /\ Len(added) = n
             /\ \A i \in 1..n : added[i] = file.written[i]

SameStart(c) == /\ cvec.type = file.written[c].type
                /\ cvec.start = file.written[c].start

\* Of vector c of the text, n ADUs were read.
Reading(c, n) ==
    /\ Copies(c - 1) /\ SameStart(c)
    /\ Len(cvec.adus) = n
    /\ \A i \in 1..n : cvec.adus[i] = file.written[c].adus[i]

\* The parser is at the mark m, and expects its line or a comment.
AtMark(m) ==
    /\ ~failed /\ pos = m.from
    /\ \/ m.line = 1 /\ at = "header" /\ Copies(m.cvec - 1)
       \/ /\ m.line = 1 /\ at = "adus" /\ m.cvec > 1
          /\ Reading(m.cvec - 1, Len(file.written[m.cvec - 1].adus))
       \/ /\ m.line \in 2..4 /\ at = <<"w", "r", "l">>[m.line - 1]
          /\ m.cvec <= Len(file.written)
          /\ Copies(m.cvec - 1) /\ SameStart(m.cvec)
       \/ /\ m.line > 4 /\ at = "adus"
          /\ m.cvec <= Len(file.written)
          /\ Reading(m.cvec, m.line - 5)

\* What SoundAreAdded says, in the end or before.
SoundKept == /\ Len(added) >= Sound(file)
             /\ \A i \in 1..Sound(file) : added[i] = file.written[i]

\* The vector c is the last one to be added, with the ADUs it has.
AddsLast(c) ==
    /\ c \in 1..Len(file.written)
    /\ Copies(c - 1) /\ CutOff(cvec, file.written[c])
    /\ Sound(file) <= IF cvec = file.written[c] THEN c ELSE c - 1

\* No vector is read any more.
Stops ==
    \/ at = "done"
    \/ at = "header" /\ failed
    \/ /\ at = "header" /\ ~failed /\ pos = Mark(LastMark).from
       /\ HasLetter /\ Letter \in {"S", "C"}
       /\ Letter \in Begins(Mark(LastMark))
    \/ at \in {"w", "r", "l"} /\ Letter # at
    \/ at = "adus" /\ HasLetter /\ Letter \notin {"S", "C", "I", "A", "#"}

\* From mark to mark, then out of the text, or once through LeaveLoop.
Parsing == \E k \in 1..LastMark : AtMark(Mark(k))
Ended == Stops /\ NeverMixedUp /\ SoundKept
Leaving == at = "adus" /\ failed /\ \E c \in 1..Len(file.written) : AddsLast(c)

IInv == TypeInv /\ (Parsing \/ Ended \/ Leaving)

-----------------------------------------------------------------------------
(* Progress.                                                               *)

Rank == [header |-> 1, w |-> 2, r |-> 2, l |-> 2, adus |-> 2, done |-> 0]

\* What is left to read, and then what is left to do.
Left == 6 * (Len(file.text) + 1 - pos) + (IF failed THEN 0 ELSE 3) + Rank[at]

\* No step of the parser, with a stream that failed either, leaves as much
\* to do as there was before it.
Progress == [][Left' < Left]_vars
-----------------------------------------------------------------------------
(* The stream.                                                             *)

\* Every set of natural numbers has a least element: < is well-founded.
LEMMA NatMin ==
    ASSUME NEW T, T \subseteq Nat, T # {}
    PROVE  \E n \in T : \A m \in T : n <= m
  <1>. DEFINE R == {ss \in Nat \X Nat : ss[1] < ss[2]}
  <1>1. R = OpToRel(<, Nat)
    BY DEF OpToRel
  <1>2. IsWellFoundedOn(R, Nat)
    BY <1>1, NatLessThanWellFounded
  <1>3. \A m, n \in Nat : m < n => <<m, n>> \in R
    OBVIOUS
  <1>. HIDE DEF R
  <1>4. PICK n \in T : \A m \in T : ~ (<<m, n>> \in R)
    BY <1>2, WFMin
  <1>5. ASSUME NEW m \in T
        PROVE  n <= m
    <2>1. n \in Nat /\ m \in Nat
      OBVIOUS
    <2>2. ~ (m < n)
      BY <1>3, <1>4, <2>1
    <2>. QED
      BY <2>1, <2>2
  <1>. QED
    BY <1>5

\* Skipping blanks ends at a place of the text or behind its last one.
LEMMA SkipIs ==
    ASSUME NEW t \in Seq(STRING), NEW p \in Nat \ {0}
    PROVE  /\ Skip(t, p) \in 1..Len(t) + 1
           /\ p <= Len(t) => Skip(t, p) >= p
  <1>. DEFINE l == Len(t)
              T == {i \in p..l + 1 : i <= l => ~Blank(t[i])}
  <1>1. l \in Nat
    BY LenProperties
  <1>2. CASE p > l
    BY <1>1, <1>2 DEF Skip
  <1>3. CASE p <= l
    <2>1. l + 1 \in T /\ T \subseteq Nat
      BY <1>1, <1>3
    <2>. HIDE DEF T
    <2>2. PICK i \in T : \A j \in T : i <= j
      BY <2>1, NatMin
    <2>3. i \in p..l + 1 /\ (i <= l => ~Blank(t[i]))
      BY DEF T
    <2>4. ASSUME NEW j \in p..i - 1
          PROVE  Blank(t[j])
      <3>1. j \in p..l /\ ~ (i <= j)
        BY <1>1, <2>3
      <3>2. j \notin T
        BY <2>2, <3>1
      <3>. QED
        BY <1>1, <3>1, <3>2 DEF T
    <2>5. Skip(t, p) \in p..l + 1
      BY <1>1, <1>3, <2>3, <2>4 DEF Skip
    <2>. QED
      BY <1>1, <2>5
  <1>. QED
    BY <1>1, <1>2, <1>3

\* Words is what its recursive definition says: such a function exists.
LEMMA WordsAre ==
    ASSUME NEW t, NEW p
    PROVE  /\ Words(t, p)[1] = Skip(t, p)
           /\ \A k \in 2..7 : Words(t, p)[k] = Skip(t, Words(t, p)[k - 1] + 1)
  <1>. DEFINE S(i) == Skip(t, i)
              def(f) == [k \in 1..7 |-> S(IF k = 1 THEN p ELSE f[k - 1] + 1)]
              a == S(p)      b == S(a + 1)  c == S(b + 1)  d == S(c + 1)
              e == S(d + 1)  g == S(e + 1)  h == S(g + 1)
              f == [k \in 1..7 |-> CASE k = 1 -> a [] k = 2 -> b [] k = 3 -> c
                                     [] k = 4 -> d [] k = 5 -> e [] k = 6 -> g
                                     [] OTHER -> h]
  <1>1. /\ f[1] = a /\ f[2] = b /\ f[3] = c /\ f[4] = d /\ f[5] = e
        /\ f[6] = g /\ f[7] = h
    OBVIOUS
  <1>2. \A k \in 1..7 : f[k] = S(IF k = 1 THEN p ELSE f[k - 1] + 1)
    <2>. HIDE DEF f, S
    <2>. QED
      BY <1>1
  <1>3. f = [k \in 1..7 |-> f[k]]
    OBVIOUS
  <1>4. f = def(f)
    <2>. HIDE DEF f, S
    <2>. QED
      BY <1>2, <1>3
  <1>5. Words(t, p) = CHOOSE w : w = def(w)
    BY DEF Words
  <1>. HIDE DEF def, f
  <1>6. Words(t, p) = def(Words(t, p))
    BY <1>4, <1>5
  <1>. QED
    BY <1>6 DEF def

\* The places of words are in the text or behind its last one, and ascend
\* as long as they are in the text.
LEMMA WordsAscend ==
    ASSUME NEW t \in Seq(STRING), NEW p \in 1..Len(t) + 1
    PROVE  \A k \in 1..7 : Words(t, p)[k] \in 1..Len(t) + 1
  <1>. DEFINE w == Words(t, p)
  <1>1. Len(t) \in Nat /\ p \in Nat \ {0}
    BY LenProperties
  <1>2. w[1] \in 1..Len(t) + 1
    <2>1. w[1] = Skip(t, p)
      BY WordsAre
    <2>. HIDE DEF w
    <2>. QED
      BY <1>1, <2>1, SkipIs
  <1>3. ASSUME NEW k \in 2..7, w[k - 1] \in 1..Len(t) + 1
        PROVE  w[k] \in 1..Len(t) + 1
    <2>1. w[k] = Skip(t, w[k - 1] + 1)
      BY WordsAre
    <2>2. w[k - 1] + 1 \in Nat \ {0}
      BY <1>1, <1>3
    <2>. HIDE DEF w
    <2>. QED
      BY <1>1, <2>1, <2>2, SkipIs
  <1>. HIDE DEF w
  <1>4. w[2] \in 1..Len(t) + 1
    BY <1>2, <1>3
  <1>5. w[3] \in 1..Len(t) + 1
    BY <1>4, <1>3
  <1>6. w[4] \in 1..Len(t) + 1
    BY <1>5, <1>3
  <1>7. w[5] \in 1..Len(t) + 1
    BY <1>6, <1>3
  <1>8. w[6] \in 1..Len(t) + 1
    BY <1>7, <1>3
  <1>9. w[7] \in 1..Len(t) + 1
    BY <1>8, <1>3
  <1>10. \A k \in 1..7 : \/ k = 1 \/ k = 2 \/ k = 3 \/ k = 4
                         \/ k = 5 \/ k = 6 \/ k = 7
    OBVIOUS
  <1>11. \A k \in 1..7 : w[k] \in 1..Len(t) + 1
    BY <1>2, <1>4, <1>5, <1>6, <1>7, <1>8, <1>9, <1>10
  <1>. QED
    BY <1>11 DEF w

\* Behind a word in the text there is the next one.
LEMMA WordsBehind ==
    ASSUME NEW t \in Seq(STRING), NEW p \in 1..Len(t) + 1, NEW n \in 0..5,
           \A k \in 1..n + 1 : Words(t, p)[k] \in 1..Len(t)
    PROVE  Words(t, p)[n + 1] >= p
  <1>. DEFINE w == Words(t, p)
  <1>1. Len(t) \in Nat /\ p \in Nat \ {0}
    BY LenProperties
  <1>0. /\ w[1] = Skip(t, p)
        /\ \A k \in 2..7 : w[k] = Skip(t, w[k - 1] + 1)
        /\ \A k \in 1..n + 1 : w[k] \in 1..Len(t)
    BY WordsAre
  <1>. HIDE DEF w
  <1>2. w[1] >= p
    <2>1. w[1] = Skip(t, p) /\ w[1] \in 1..Len(t)
      <3>1. 1 \in 1..n + 1
        OBVIOUS
      <3>. QED
        BY <1>0, <3>1
    <2>2. p <= Len(t) => w[1] >= p
      BY <1>1, <2>1, SkipIs
    <2>3. p = Len(t) + 1 => Skip(t, p) = Len(t) + 1
      BY <1>1 DEF Skip
    <2>. QED
      BY <1>1, <2>1, <2>2, <2>3
  <1>3. ASSUME NEW k \in 2..n + 1, w[k - 1] >= p
        PROVE  w[k] >= p
    <2>1. k \in 2..7 /\ k \in 1..n + 1 /\ k - 1 \in 1..n + 1
      OBVIOUS
    <2>2. /\ w[k] = Skip(t, w[k - 1] + 1)
          /\ w[k - 1] \in 1..Len(t) /\ w[k] \in 1..Len(t)
      BY <1>0, <2>1
    <2>3. w[k - 1] + 1 \in Nat \ {0}
      BY <1>1, <2>2
    <2>4. w[k - 1] + 1 <= Len(t) => w[k] >= w[k - 1] + 1
      BY <2>2, <2>3, SkipIs
    <2>5. w[k - 1] + 1 > Len(t) => w[k] = Len(t) + 1
      BY <2>2 DEF Skip
    <2>. QED
      BY <1>1, <1>3, <2>2, <2>4, <2>5
  <1>4. n >= 1 => w[2] >= p
    BY <1>2, <1>3
  <1>5. n >= 2 => w[3] >= p
    BY <1>4, <1>3
  <1>6. n >= 3 => w[4] >= p
    BY <1>5, <1>3
  <1>7. n >= 4 => w[5] >= p
    BY <1>6, <1>3
  <1>8. n >= 5 => w[6] >= p
    BY <1>7, <1>3
  <1>9. w[n + 1] >= p
    BY <1>2, <1>4, <1>5, <1>6, <1>7, <1>8
  <1>. QED
    BY <1>9 DEF w

\* The end of a line is in the text.
LEMMA EndOfLineIs ==
    ASSUME NEW t \in Seq(STRING), NEW p \in 1..Len(t)
    PROVE  EndOfLine(t, p) \in p..Len(t)
  <1>. DEFINE l == Len(t)
              T == {i \in p..l : i < l => Blank(t[i])}
  <1>1. l \in Nat
    BY LenProperties
  <1>2. l \in T /\ T \subseteq Nat
    BY <1>1
  <1>. HIDE DEF T
  <1>3. PICK i \in T : \A j \in T : i <= j
    BY <1>2, NatMin
  <1>4. i \in p..l /\ (i < l => Blank(t[i]))
    BY DEF T
  <1>5. ASSUME NEW j \in p..i - 1
        PROVE  ~Blank(t[j])
    <2>1. j \in p..l /\ j < l /\ ~ (i <= j)
      BY <1>1, <1>4
    <2>2. j \notin T
      BY <1>3, <2>1
    <2>. QED
      BY <2>1, <2>2 DEF T
  <1>. QED
    BY <1>1, <1>4, <1>5 DEF EndOfLine

\* How many numbers there are behind which letter.
LEMMA NeedsAre ==
    /\ Letters = {"S", "C", "w", "r", "l", "I", "A"}
    /\ Needs["S"] = 4 /\ Needs["C"] = 5 /\ Needs["w"] = 2 /\ Needs["r"] = 1
    /\ Needs["l"] = 2 /\ Needs["I"] = 3 /\ Needs["A"] = 3
    /\ \A c \in Letters : Needs[c] \in 1..5
  BY DEF Letters, Needs
-----------------------------------------------------------------------------
(* What is ahead at a mark.                                                *)

LEMMA FileIs ==
    ASSUME TypeOK
    PROVE  /\ file.text \in Seq(STRING) /\ Len(file.text) \in Nat
           /\ DOMAIN file.text = 1..Len(file.text)
           /\ file.written \in Seq(Cvec) /\ Len(file.written) \in Nat
           /\ LastMark \in Nat \ {0}
           /\ \A k \in 1..LastMark : Mark(k) \in MarksOf(file.written)
           /\ Mark(1) = [from |-> 1, cvec |-> 1, line |-> 1]
           /\ \A k \in 1..LastMark - 1 : Follows(file, Mark(k), Mark(k + 1))
           /\ NoLine(file.text, Mark(LastMark))
  <1>1. file \in Files
    BY DEF TypeOK
  <1>2. /\ file.text \in Seq(STRING)
        /\ file.written \in Seq(Cvec)
        /\ file.marks \in Seq(MarksOf(file.written)) /\ Len(file.marks) > 0
        /\ file.marks[1] = [from |-> 1, cvec |-> 1, line |-> 1]
        /\ \A k \in 1..Len(file.marks) - 1 :
              Follows(file, file.marks[k], file.marks[k + 1])
        /\ NoLine(file.text, file.marks[Len(file.marks)])
    BY <1>1, FilesAssumption
  <1>3. /\ Len(file.marks) \in Nat
        /\ \A k \in 1..Len(file.marks) : file.marks[k] \in MarksOf(file.written)
    BY <1>2, ElementOfSeq, LenProperties
  <1>. QED
    BY <1>2, <1>3, LenProperties DEF Mark, LastMark

\* A mark is in front of a line of a vector, or behind all of them.
LEMMA MarkIs ==
    ASSUME TypeOK, NEW k \in 1..LastMark
    PROVE  LET m == Mark(k)
               vs == file.written
           IN /\ m.from \in Nat \ {0} /\ m.line \in Nat \ {0}
              /\ m.cvec \in 1..Len(vs) + 1
              /\ m.cvec <= Len(vs) =>
                    /\ vs[m.cvec] \in Cvec
                    /\ Len(vs[m.cvec].adus) \in Nat
                    /\ m.line <= Len(vs[m.cvec].adus) + 4
              /\ m.cvec = Len(vs) + 1 => m.line = 1
              /\ m.cvec > 1 => /\ m.cvec - 1 \in 1..Len(vs)
                               /\ vs[m.cvec - 1] \in Cvec
                               /\ Len(vs[m.cvec - 1].adus) \in Nat
  <1>. DEFINE m == Mark(k)
              vs == file.written
  <1>1. vs \in Seq(Cvec) /\ Len(vs) \in Nat /\ m \in MarksOf(vs)
    BY FileIs
  <1>2. \A c \in 1..Len(vs) : vs[c] \in Cvec
    BY <1>1, ElementOfSeq
  <1>3. \A v \in Cvec : Len(v.adus) \in Nat
    BY LenProperties DEF Cvec
  <1>. HIDE DEF m, vs
  <1>4. /\ m.from \in Nat \ {0} /\ m.line \in Nat \ {0}
        /\ m.cvec \in 1..Len(vs) + 1
        /\ IF m.cvec <= Len(vs) THEN m.line <= Len(vs[m.cvec].adus) + 4
           ELSE m.line = 1
    BY <1>1 DEF MarksOf
  <1>5. m.cvec <= Len(vs) => m.cvec \in 1..Len(vs)
    BY <1>1, <1>4
  <1>6. m.cvec > 1 => m.cvec - 1 \in 1..Len(vs)
    BY <1>1, <1>4
  <1>. QED
    BY <1>1, <1>2, <1>3, <1>4, <1>5, <1>6 DEF m, vs

LEMMA LetterIs ==
    ASSUME TypeOK
    PROVE  /\ Letter \in Range(file.text) \cup {"?"}
           /\ Words(file.text, pos)[1] = Skip(file.text, pos)
           /\ HasLetter => /\ ~failed
                           /\ Skip(file.text, pos) \in DOMAIN file.text
                           /\ Letter = file.text[Skip(file.text, pos)]
           /\ ~HasLetter => Letter = x
           /\ ~failed /\ ~HasLetter =>
                 Skip(file.text, pos) \notin DOMAIN file.text
  <1>1. x \in Range(file.text) \cup {"?"}
    BY DEF TypeOK
  <1>2. HasLetter => file.text[Skip(file.text, pos)] \in Range(file.text)
    BY DEF HasLetter, Range
  <1>. QED
    BY <1>1, <1>2, WordsAre DEF Letter, HasLetter

\* Reading a letter with its numbers fails exactly if they are not there.
LEMMA ReadIs ==
    ASSUME TypeOK, HasLetter, Letter \in Letters, Read(Needs[Letter])
    PROVE  /\ x' = Letter
           /\ ~failed' => Readable(file.text, pos, pos')
           /\ \A q : Readable(file.text, pos, q) => ~failed' /\ pos' = q
  <1>. DEFINE t == file.text
              w == Words(t, pos)
              n == Needs[Letter]
  <1>1. w[1] \in DOMAIN t /\ t[w[1]] = Letter /\ n = Needs[t[w[1]]]
    BY LetterIs
  <1>2. HasNumbers(n) <=>
           \A k \in 2..n + 1 : w[k] \in DOMAIN t /\ t[w[k]] \in Numbers
    BY DEF HasNumbers, Word
  <1>3. /\ x' = Letter /\ failed' = ~HasNumbers(n)
        /\ HasNumbers(n) => pos' = w[n + 1] + 1
    BY DEF Read
  <1>4. \A q : Readable(t, pos, q) <=>
           /\ \A k \in 2..n + 1 : w[k] \in DOMAIN t /\ t[w[k]] \in Numbers
           /\ q = w[n + 1] + 1
    BY <1>1 DEF Readable
  <1>. HIDE DEF t, w, n
  <1>5. /\ ~failed' => Readable(t, pos, pos')
        /\ \A q : Readable(t, pos, q) => ~failed' /\ pos' = q
    BY <1>2, <1>3, <1>4
  <1>. QED
    BY <1>3, <1>5 DEF t

\* Where reading ends.
LEMMA ReadEnds ==
    ASSUME TypeOK, HasLetter, NEW n \in 0..5, Read(n)
    PROVE  \/ pos' \in pos + 1..Len(file.text) + 1
           \/ failed' /\ pos' = Len(file.text) + 1
  <1>. DEFINE t == file.text
              w == Words(t, pos)
  <1>1. /\ t \in Seq(STRING) /\ Len(t) \in Nat /\ DOMAIN t = 1..Len(t)
        /\ pos \in 1..Len(t) + 1
    BY FileIs DEF TypeOK
  <1>2. w[1] \in 1..Len(t)
    BY <1>1, LetterIs
  <1>3. CASE HasNumbers(n)
    <2>1. \A k \in 2..n + 1 : w[k] \in 1..Len(t)
      BY <1>1, <1>3 DEF HasNumbers
    <2>2. \A k \in 1..n + 1 : k = 1 \/ k \in 2..n + 1
      OBVIOUS
    <2>3. \A k \in 1..n + 1 : w[k] \in 1..Len(t)
      BY <1>2, <2>1, <2>2
    <2>4. w[n + 1] >= pos
      BY <1>1, <2>3, WordsBehind
    <2>5. pos' = w[n + 1] + 1
      BY <1>3 DEF Read
    <2>6. w[n + 1] \in 1..Len(t)
      <3>1. n + 1 \in 1..n + 1
        OBVIOUS
      <3>. QED
        BY <2>3, <3>1
    <2>. HIDE DEF w, t
    <2>7. pos' \in pos + 1..Len(t) + 1
      BY <1>1, <2>4, <2>5, <2>6
    <2>. QED
      BY <2>7 DEF t
  <1>4. CASE ~HasNumbers(n)
    BY <1>4 DEF Read
  <1>. QED
    BY <1>3, <1>4

\* A line or a comment is ahead of each mark but the last one.
LEMMA Ahead ==
    ASSUME TypeOK, NEW k \in 1..LastMark, k < LastMark,
           ~failed, pos = Mark(k).from
    PROVE  LET m == Mark(k)
               n == Mark(k + 1)
               v == file.written[m.cvec]
           IN /\ k + 1 \in 1..LastMark
              /\ HasLetter /\ Letter \in Begins(m)
              /\ Letter = "#" =>
                    /\ m.line \notin 2..4 /\ n.cvec = m.cvec /\ n.line = m.line
                    /\ n.from = EndOfLine(file.text, Skip(file.text, pos)) + 1
              /\ Letter # "#" =>
                    /\ m.cvec <= Len(file.written)
                    /\ Letter \in Letters
                    /\ Readable(file.text, pos, n.from)
                    /\ IsLine(file.text, pos, v, m.line)
                    /\ IF m.line < Len(v.adus) + 4
                       THEN n.cvec = m.cvec /\ n.line = m.line + 1
                       ELSE n.cvec = m.cvec + 1 /\ n.line = 1
  <1>. DEFINE m == Mark(k)
              n == Mark(k + 1)
              t == file.text
              v == file.written[m.cvec]
  <1>1. /\ k \in 1..LastMark - 1 /\ k + 1 \in 1..LastMark
        /\ Follows(file, m, n)
    <2>1. k \in 1..LastMark - 1 /\ k + 1 \in 1..LastMark
      BY FileIs
    <2>. QED
      BY <2>1, FileIs
  <1>2. /\ Skip(t, pos) \in DOMAIN t =>
             /\ HasLetter /\ Letter = t[Skip(t, pos)]
             /\ Letter = t[Words(t, pos)[1]]
        /\ Skip(t, pos) = Words(t, pos)[1]
    BY LetterIs
  <1>3. CASE /\ m.line \notin 2..4
             /\ Skip(t, m.from) \in DOMAIN t /\ t[Skip(t, m.from)] = "#"
             /\ n = [m EXCEPT !.from = EndOfLine(t, Skip(t, m.from)) + 1]
    <2>1. HasLetter /\ Letter = "#"
      BY <1>2, <1>3
    <2>2. m \in [from: Nat \ {0}, cvec: 1..Len(file.written) + 1,
                 line: Nat \ {0}]
      BY FileIs DEF MarksOf
    <2>3. /\ n.cvec = m.cvec /\ n.line = m.line
          /\ n.from = EndOfLine(t, Skip(t, pos)) + 1
      BY <1>3, <2>2
    <2>4. Letter \in Begins(m)
      BY <1>3, <2>1 DEF Begins
    <2>. QED
      BY <1>1, <1>3, <2>1, <2>3, <2>4
  <1>4. CASE /\ m.cvec <= Len(file.written)
             /\ Readable(t, m.from, n.from)
             /\ IsLine(t, m.from, v, m.line)
             /\ IF m.line < Len(v.adus) + 4
                THEN n.cvec = m.cvec /\ n.line = m.line + 1
                ELSE n.cvec = m.cvec + 1 /\ n.line = 1
    <2>1. Words(t, pos)[1] \in DOMAIN t /\ t[Words(t, pos)[1]] \in Letters
      BY <1>4 DEF Readable
    <2>2. HasLetter /\ Letter \in Letters /\ Letter = t[Words(t, pos)[1]]
      BY <1>2, <2>1
    <2>3. Letter # "#"
      BY <2>2, NeedsAre
    <2>4. Letter \in Begins(m)
      <3>1. /\ m.line \in Nat \ {0} /\ v \in Cvec /\ Len(v.adus) \in Nat
            /\ m.line <= Len(v.adus) + 4
        BY <1>4, MarkIs
      <3>2. CASE m.line = 1
        <4>1. Letter = v.type
          BY <1>4, <2>2, <3>2 DEF IsLine
        <4>2. v.type \in {"S", "C"}
          BY <3>1 DEF Cvec
        <4>. QED
          BY <3>2, <4>1, <4>2 DEF Begins
      <3>3. CASE m.line \in 2..4
        <4>1. Letter = <<"w", "r", "l">>[m.line - 1]
          BY <1>4, <2>2, <3>3 DEF IsLine
        <4>. QED
          BY <3>3, <4>1 DEF Begins
      <3>4. CASE m.line > 4
        <4>1. v.adus[m.line - 4] \in ADU
          <5>1. m.line - 4 \in 1..Len(v.adus) /\ v.adus \in Seq(ADU)
            BY <3>1, <3>4 DEF Cvec
          <5>. QED
            BY <5>1, ElementOfSeq
        <4>2. v.adus[m.line - 4].side = Letter
          <5>1. m.line # 1 /\ m.line \notin 2..4
            BY <3>1, <3>4
          <5>. DEFINE word(i) == t[Words(t, pos)[i]]
          <5>2. v.adus[m.line - 4] =
                  [side |-> word(1), sendWait |-> word(2),
                   recvWait |-> word(3), size |-> word(4)]
            BY <1>4, <5>1 DEF IsLine
          <5>. QED
            BY <2>2, <5>2
        <4>3. Letter \in {"I", "A"}
          BY <4>1, <4>2 DEF ADU
        <4>. QED
          BY <3>1, <3>4, <4>3 DEF Begins
      <3>. QED
        BY <3>1, <3>2, <3>3, <3>4
    <2>. QED
      BY <1>1, <1>4, <2>2, <2>3, <2>4
  <1>. QED
    BY <1>1, <1>3, <1>4 DEF Follows

\* Ahead of the last mark no line can be read.
LEMMA NothingAhead ==
    ASSUME TypeOK, ~failed, pos = Mark(LastMark).from, HasLetter,
           Letter \in Begins(Mark(LastMark))
    PROVE  /\ Letter # "#"
           /\ Letter \in Letters
           /\ file' = file /\ Read(Needs[Letter]) /\ ~failed' =>
                 HasLetter' /\ Letter' \notin Letters \cup {"#"}
  <1>. DEFINE m == Mark(LastMark)
              t == file.text
  <1>1. NoLine(t, m) /\ Skip(t, pos) \in DOMAIN t /\ t[Skip(t, pos)] = Letter
    BY FileIs, LetterIs
  <1>2. /\ Letter # "#"
        /\ \A q \in 2..Len(t) + 1 :
              Readable(t, pos, q) => /\ Skip(t, q) \in DOMAIN t
                                     /\ t[Skip(t, q)] \notin Letters \cup {"#"}
    BY <1>1 DEF NoLine
  <1>3. Letter \in Letters
    <2>1. m.line \in 2..4 => <<"w", "r", "l">>[m.line - 1] \in {"w", "r", "l"}
      OBVIOUS
    <2>. QED
      BY <1>2, <2>1, NeedsAre DEF Begins
  <1>4. ASSUME file' = file, Read(Needs[Letter]), ~failed'
        PROVE  HasLetter' /\ Letter' \notin Letters \cup {"#"}
    <2>1. Needs[Letter] \in 0..5
      BY <1>3, NeedsAre
    <2>2. pos \in 1..Len(t) + 1 /\ Len(t) \in Nat
      BY FileIs DEF TypeOK
    <2>3. pos' \in 2..Len(t) + 1
      BY <1>4, <2>1, <2>2, ReadEnds
    <2>4. Readable(t, pos, pos')
      BY <1>3, <1>4, ReadIs
    <2>5. /\ Skip(t, pos') \in DOMAIN t
          /\ t[Skip(t, pos')] \notin Letters \cup {"#"}
      BY <1>2, <2>3, <2>4
    <2>. QED
      BY <1>4, <2>5 DEF HasLetter, Letter
  <1>. QED
    BY <1>2, <1>3, <1>4
-----------------------------------------------------------------------------
(* Types.                                                                  *)

\* The variables of the stream, and the letter.
StreamOK == /\ file \in Files
            /\ pos \in 1..Len(file.text) + 1
            /\ failed \in BOOLEAN
            /\ x \in Range(file.text) \cup {"?"}

LEMMA ReadType ==
    ASSUME TypeOK, NEW n \in 0..5, Read(n), file' = file
    PROVE  /\ StreamOK' /\ x' = Letter
           /\ ~failed' => HasLetter /\ \A k \in 2..n + 1 : Word(k) \in Numbers
  <1>1. /\ Len(file.text) \in Nat /\ pos \in 1..Len(file.text) + 1
        /\ file \in Files /\ Letter \in Range(file.text) \cup {"?"}
    BY FileIs, LetterIs DEF TypeOK
  <1>2. pos' \in 1..Len(file.text) + 1
    <2>1. CASE HasLetter
      <3>1. \/ pos' \in pos + 1..Len(file.text) + 1
            \/ pos' = Len(file.text) + 1
        BY <2>1, ReadEnds
      <3>. QED
        BY <1>1, <3>1
    <2>2. CASE ~HasLetter
      BY <1>1, <2>2 DEF Read, HasNumbers
    <2>. QED
      BY <2>1, <2>2
  <1>3. x' = Letter /\ failed' = ~HasNumbers(n)
    BY DEF Read
  <1>4. failed' \in BOOLEAN
    BY <1>3
  <1>. QED
    BY <1>1, <1>2, <1>3, <1>4 DEF StreamOK, HasNumbers

LEMMA IgnoreType ==
    ASSUME TypeOK, IgnoreLine, file' = file
    PROVE  /\ StreamOK' /\ x' = Letter /\ failed' = ~HasLetter
           /\ HasLetter => pos' > pos
           /\ ~HasLetter => pos' = Len(file.text) + 1
  <1>. DEFINE t == file.text
              e == EndOfLine(t, Skip(t, pos))
  <1>1. /\ t \in Seq(STRING) /\ Len(t) \in Nat /\ DOMAIN t = 1..Len(t)
        /\ pos \in 1..Len(t) + 1
        /\ file \in Files /\ Letter \in Range(file.text) \cup {"?"}
    BY FileIs, LetterIs DEF TypeOK
  <1>2. /\ x' = Letter /\ failed' = ~HasLetter
        /\ pos' = IF HasLetter THEN e + 1 ELSE Len(t) + 1
    BY DEF IgnoreLine
  <1>3. HasLetter => e \in pos..Len(t)
    <2>1. SUFFICES ASSUME HasLetter
                   PROVE  e \in pos..Len(t)
      OBVIOUS
    <2>2. Skip(t, pos) \in 1..Len(t)
      BY <1>1, <2>1, LetterIs
    <2>3. e \in Skip(t, pos)..Len(t)
      BY <1>1, <2>2, EndOfLineIs
    <2>4. Skip(t, pos) >= pos
      <3>1. pos \in Nat \ {0}
        BY <1>1
      <3>2. pos > Len(t) => Skip(t, pos) = Len(t) + 1
        BY DEF Skip
      <3>. QED
        BY <1>1, <2>2, <3>1, <3>2, SkipIs
    <2>. HIDE DEF e
    <2>. QED
      BY <1>1, <2>2, <2>3, <2>4
  <1>4. failed' \in BOOLEAN
    BY <1>2
  <1>. HIDE DEF e
  <1>5. pos' \in 1..Len(t) + 1 /\ (HasLetter => pos' > pos)
    BY <1>1, <1>2, <1>3
  <1>. QED
    BY <1>1, <1>2, <1>4, <1>5 DEF StreamOK

LEMMA TypeStep == TypeInv /\ [Next]_vars => TypeInv'
  <1>. SUFFICES ASSUME TypeInv, [Next]_vars
                PROVE  TypeInv'
    OBVIOUS
  <1>. DEFINE RestOK == /\ at \in {"header", "w", "r", "l", "adus", "done"}
                        /\ cvec \in [type: {"S", "C", "?"},
                                     start: Numbers \cup {"?"}, adus: Seq(ADU)]
                        /\ added \in Seq(Cvec)
  <1>0. /\ TypeOK /\ LastLetter /\ HasHeader /\ StreamOK /\ RestOK
        /\ StreamOK' /\ RestOK' => TypeOK'
    BY DEF TypeInv, TypeOK, StreamOK
  <1>1. CASE ReadHeader
    <2>1. /\ Letter \in {"S", "C"} /\ HasLetter
          /\ Read(IF Letter = "S" THEN 4 ELSE 5) /\ file' = file
          /\ cvec' = [cvec EXCEPT !.type = Letter,
                         !.start = IF HasNumbers(1) THEN Word(2) ELSE "?"]
          /\ at' = "w" /\ added' = added
      BY <1>1 DEF ReadHeader
    <2>2. PICK n \in 4..5 : Read(n)
      BY <2>1
    <2>3. /\ StreamOK' /\ x' = Letter
          /\ HasNumbers(1) => Word(2) \in Numbers
          /\ ~failed' => HasNumbers(1)
      <3>1. n \in 0..5
        OBVIOUS
      <3>2. HasNumbers(1) => Word(2) \in Numbers
        BY DEF HasNumbers
      <3>3. HasNumbers(n) => HasNumbers(1)
        <4>1. \A k \in 2..1 + 1 : k \in 2..n + 1
          OBVIOUS
        <4>. QED
          BY <4>1 DEF HasNumbers
      <3>4. failed' = ~HasNumbers(n)
        BY <2>2 DEF Read
      <3>. QED
        BY <1>0, <2>1, <2>2, <3>1, <3>2, <3>3, <3>4, ReadType
    <2>4. RestOK' /\ (~failed' => cvec' \in Cvec)
      BY <1>0, <2>1, <2>3 DEF Cvec
    <2>. QED
      BY <1>0, <2>1, <2>3, <2>4 DEF TypeInv, LastLetter, HasHeader
  <1>2. CASE CommentAtHeader
    <2>1. /\ IgnoreLine /\ file' = file /\ at = "header"
          /\ UNCHANGED <<at, cvec, added>>
      BY <1>2 DEF CommentAtHeader
    <2>2. StreamOK'
      BY <1>0, <2>1, IgnoreType
    <2>. QED
      BY <1>0, <2>1, <2>2 DEF TypeInv, LastLetter, HasHeader
  <1>3. CASE NoHeader \/ BrokenHeader \/ BrokenAdu
    <2>1. at' = "done" /\ UNCHANGED <<file, pos, failed, x, cvec, added>>
      BY <1>3 DEF NoHeader, BrokenHeader, BrokenAdu, ReturnFalse
    <2>. QED
      BY <1>0, <2>1 DEF TypeInv, StreamOK, LastLetter, HasHeader
  <1>4. CASE ReadWindows
    <2>1. /\ at = "w" /\ Letter = "w" /\ Read(2) /\ at' = "r"
          /\ UNCHANGED <<file, cvec, added>>
      BY <1>4 DEF ReadWindows
    <2>2. HasLetter /\ ~failed
      BY <1>0, <2>1, LetterIs DEF LastLetter
    <2>3. StreamOK' /\ x' = Letter
      BY <1>0, <2>1, ReadType
    <2>. QED
      BY <1>0, <2>1, <2>2, <2>3 DEF TypeInv, LastLetter, HasHeader
  <1>5. CASE ReadRtt
    <2>1. /\ at = "r" /\ Letter = "r" /\ Read(1) /\ at' = "l"
          /\ UNCHANGED <<file, cvec, added>>
      BY <1>5 DEF ReadRtt
    <2>2. StreamOK' /\ x' = Letter
      BY <1>0, <2>1, ReadType
    <2>. QED
      BY <1>0, <2>1, <2>2 DEF TypeInv, LastLetter, HasHeader
  <1>6. CASE ReadLoss
    <2>1. /\ at = "l" /\ Letter = "l" /\ Read(2) /\ at' = "adus"
          /\ cvec' = [cvec EXCEPT !.adus = <<>>]
          /\ UNCHANGED <<file, added>>
      BY <1>6 DEF ReadLoss
    <2>2. StreamOK' /\ x' = Letter
      BY <1>0, <2>1, ReadType
    <2>3. cvec' \in Cvec /\ RestOK'
      BY <1>0, <2>1, EmptySeq DEF HasHeader, Cvec
    <2>. QED
      BY <1>0, <2>1, <2>2, <2>3 DEF TypeInv, LastLetter, HasHeader
  <1>7. CASE ReadAdu
    <2>1. /\ at = "adus" /\ Letter \in {"I", "A"} /\ Read(3) /\ at' = at
          /\ UNCHANGED <<file, added>>
          /\ cvec' = IF failed' THEN cvec
                     ELSE [cvec EXCEPT !.adus = Append(@,
                             [side |-> Letter, sendWait |-> Word(2),
                              recvWait |-> Word(3), size |-> Word(4)])]
      BY <1>7 DEF ReadAdu
    <2>2. /\ StreamOK' /\ x' = Letter
          /\ ~failed' => \A k \in 2..4 : Word(k) \in Numbers
      BY <1>0, <2>1, ReadType
    <2>3. cvec \in Cvec
      BY <1>0, <2>1 DEF HasHeader
    <2>4. cvec' \in Cvec
      <3>1. CASE failed'
        BY <2>1, <2>3, <3>1
      <3>2. CASE ~failed'
        <4>. DEFINE a == [side |-> Letter, sendWait |-> Word(2),
                          recvWait |-> Word(3), size |-> Word(4)]
        <4>1. Word(2) \in Numbers /\ Word(3) \in Numbers /\ Word(4) \in Numbers
          BY <2>2, <3>2
        <4>2. a \in ADU
          BY <2>1, <4>1 DEF ADU
        <4>3. cvec' = [cvec EXCEPT !.adus = Append(@, a)]
          BY <2>1, <3>2
        <4>. HIDE DEF a
        <4>4. cvec.adus \in Seq(ADU) /\ Append(cvec.adus, a) \in Seq(ADU)
          BY <2>3, <4>2, AppendProperties DEF Cvec
        <4>. QED
          BY <2>3, <4>3, <4>4 DEF Cvec
      <3>. QED
        BY <3>1, <3>2
    <2>5. RestOK'
      BY <1>0, <2>1, <2>4 DEF Cvec
    <2>. QED
      BY <1>0, <2>1, <2>2, <2>4, <2>5 DEF TypeInv, LastLetter, HasHeader
  <1>8. CASE CommentAtAdu
    <2>1. /\ IgnoreLine /\ at = "adus" /\ Letter = "#"
          /\ UNCHANGED <<file, at, cvec, added>>
      BY <1>8 DEF CommentAtAdu
    <2>2. StreamOK' /\ x' = Letter
      BY <1>0, <2>1, IgnoreType
    <2>. QED
      BY <1>0, <2>1, <2>2 DEF TypeInv, LastLetter, HasHeader
  <1>9. CASE NextHeader \/ EndOfFile \/ LeaveLoop
    <2>1. /\ at = "adus" /\ at' = "header" /\ added' = Append(added, cvec)
          /\ UNCHANGED <<file, pos, cvec>>
          /\ x' = Letter \/ x' = x
          /\ failed' \in BOOLEAN
      BY <1>0, <1>9 DEF NextHeader, EndOfFile, LeaveLoop, ReturnTrue, StreamOK
    <2>2. cvec \in Cvec
      BY <1>0, <2>1 DEF HasHeader
    <2>3. added' \in Seq(Cvec)
      BY <1>0, <2>1, <2>2, AppendProperties
    <2>4. x' \in Range(file.text) \cup {"?"}
      BY <1>0, <2>1, LetterIs DEF StreamOK
    <2>. QED
      BY <1>0, <2>1, <2>3, <2>4 DEF TypeInv, StreamOK, LastLetter, HasHeader
  <1>10. CASE UNCHANGED vars
    BY <1>10 DEF vars, TypeInv, TypeOK, LastLetter, HasHeader
  <1>. QED
    BY <1>1, <1>2, <1>3, <1>4, <1>5, <1>6, <1>7, <1>8, <1>9, <1>10 DEF Next

LEMMA InitType == Init => TypeInv
  <1>. SUFFICES ASSUME Init
                PROVE  TypeInv
    OBVIOUS
  <1>1. Len(file.text) \in Nat
    BY FilesAssumption, LenProperties DEF Init
  <1>2. <<>> \in Seq(ADU) /\ added \in Seq(Cvec)
    BY EmptySeq DEF Init
  <1>3. cvec \in [type: {"S", "C", "?"}, start: Numbers \cup {"?"},
                  adus: Seq(ADU)]
    BY <1>2 DEF Init
  <1>4. pos \in 1..Len(file.text) + 1
    BY <1>1 DEF Init
  <1>5. x \in Range(file.text) \cup {"?"}
    BY DEF Init
  <1>6. failed \in BOOLEAN
    BY DEF Init
  <1>7. file \in Files /\ at = "header" /\ ~failed
    BY DEF Init
  <1>. QED
    BY <1>2, <1>3, <1>4, <1>5, <1>6, <1>7
    DEF TypeInv, TypeOK, LastLetter, HasHeader
-----------------------------------------------------------------------------
(* Vectors that are added.                                                 *)

LEMMA PrefixOf ==
    ASSUME NEW S, NEW s \in Seq(S), NEW t \in Seq(S), Len(s) <= Len(t),
           \A i \in 1..Len(s) : s[i] = t[i]
    PROVE  IsPrefix(s, t)
  <1>1. Len(s) \in Nat /\ Len(t) \in Nat
    BY LenProperties
  <1>2. SubSeq(t, 1, Len(s)) = [i \in 1..Len(s) |-> t[i]]
    BY <1>1
  <1>3. s = [i \in 1..Len(s) |-> s[i]]
    BY LenProperties
  <1>4. s = SubSeq(t, 1, Len(s))
    BY <1>2, <1>3
  <1>. QED
    BY <1>4 DEF IsPrefix

LEMMA CutOffSelf == ASSUME NEW v \in Cvec PROVE CutOff(v, v)
  <1>1. v.adus \in Seq(ADU) /\ Len(v.adus) \in Nat
    BY LenProperties DEF Cvec
  <1>2. IsPrefix(v.adus, v.adus)
    BY <1>1, PrefixOf
  <1>. QED
    BY <1>2 DEF CutOff

\* With its first n ADUs read, a vector misses the others.
LEMMA ReadingIs ==
    ASSUME TypeOK, cvec \in Cvec, NEW c \in 1..Len(file.written), NEW n \in Nat,
           Reading(c, n), n <= Len(file.written[c].adus)
    PROVE  /\ CutOff(cvec, file.written[c])
           /\ n = Len(file.written[c].adus) => cvec = file.written[c]
  <1>. DEFINE v == file.written[c]
  <1>1. v \in Cvec
    BY FileIs, ElementOfSeq
  <1>2. /\ cvec.adus \in Seq(ADU) /\ v.adus \in Seq(ADU)
        /\ cvec = [type |-> cvec.type, start |-> cvec.start, adus |-> cvec.adus]
        /\ v = [type |-> v.type, start |-> v.start, adus |-> v.adus]
    BY <1>1 DEF Cvec
  <1>3. /\ cvec.type = v.type /\ cvec.start = v.start /\ Len(cvec.adus) = n
        /\ \A i \in 1..n : cvec.adus[i] = v.adus[i]
    BY DEF Reading, SameStart
  <1>. HIDE DEF v
  <1>4. IsPrefix(cvec.adus, v.adus)
    BY <1>2, <1>3, PrefixOf DEF v
  <1>5. n = Len(v.adus) => cvec.adus = v.adus
    BY <1>2, <1>3, SeqEqual
  <1>6. n = Len(v.adus) => cvec = v
    BY <1>2, <1>3, <1>5
  <1>. QED
    BY <1>3, <1>4, <1>6 DEF CutOff, v

\* Of the vectors in front of the damage, at most the one that ends where
\* the damaged line begins may be lost.
LEMMA SoundIs ==
    ASSUME TypeOK
    PROVE  LET m == Mark(LastMark)
           IN /\ Sound(file) \in Int /\ Sound(file) <= m.cvec - 1
              /\ ~failed /\ pos = m.from /\ HasLetter /\ m.line = 1
                  /\ Letter \notin {"S", "C"} => Sound(file) = m.cvec - 2
  <1>. DEFINE m == Mark(LastMark)
  <1>1. m.cvec \in Int
    <2>1. LastMark \in 1..LastMark
      BY FileIs
    <2>. QED
      BY <2>1, MarkIs, FileIs
  <1>2. Sound(file) = IF /\ m.line = 1
                         /\ Skip(file.text, m.from) \in DOMAIN file.text
                         /\ file.text[Skip(file.text, m.from)] \notin {"S", "C"}
                      THEN m.cvec - 2 ELSE m.cvec - 1
    BY DEF Sound, Mark, LastMark
  <1>3. pos = m.from /\ HasLetter =>
           /\ Skip(file.text, m.from) \in DOMAIN file.text
           /\ Letter = file.text[Skip(file.text, m.from)]
    BY LetterIs
  <1>. HIDE DEF m
  <1>. QED
    BY <1>1, <1>2, <1>3 DEF m

LEMMA CopiesAre ==
    ASSUME TypeOK, NEW n \in Nat, Copies(n), n <= Len(file.written),
           Sound(file) <= n
    PROVE  NeverMixedUp /\ SoundKept
  <1>1. /\ Len(added) = n /\ DOMAIN added = 1..n /\ Len(file.written) \in Nat
        /\ \A i \in 1..n : added[i] = file.written[i]
        /\ \A i \in 1..n : i \in 1..Len(file.written)
        /\ Sound(file) \in Int
    BY FileIs, SoundIs, LenProperties DEF TypeOK, Copies
  <1>2. \A i \in 1..Len(file.written) :
           CutOff(file.written[i], file.written[i])
    BY FileIs, ElementOfSeq, CutOffSelf
  <1>3. NeverMixedUp
    BY <1>1, <1>2 DEF NeverMixedUp
  <1>4. \A i \in 1..Sound(file) : i \in 1..n
    BY <1>1
  <1>5. SoundKept
    BY <1>1, <1>4 DEF SoundKept
  <1>. QED
    BY <1>3, <1>5

\* What is added last.
LEMMA AddedLast ==
    ASSUME TypeOK, NEW c \in 1..Len(file.written), AddsLast(c),
           ReturnTrue(cvec), file' = file
    PROVE  NeverMixedUp' /\ SoundKept'
  <1>1. /\ added \in Seq(Cvec) /\ Len(added) = c - 1 /\ c \in Nat
        /\ \A i \in 1..c - 1 : added[i] = file.written[i]
        /\ CutOff(cvec, file.written[c])
        /\ Sound(file) <= IF cvec = file.written[c] THEN c ELSE c - 1
        /\ Sound(file) \in Int /\ Len(file.written) \in Nat
    BY FileIs, SoundIs DEF TypeOK, AddsLast, Copies
  <1>2. added' = Append(added, cvec)
    BY DEF ReturnTrue
  <1>3. /\ Len(added') = c /\ DOMAIN added' = 1..c
        /\ added'[c] = cvec
        /\ \A i \in 1..c - 1 : added'[i] = file.written[i]
    BY <1>1, <1>2
  <1>4. NeverMixedUp'
    <2>1. ASSUME NEW i \in 1..c
          PROVE  /\ i <= Len(file.written)
                 /\ IF i < c THEN added'[i] = file.written[i]
                    ELSE CutOff(added'[i], file.written[i])
      <3>1. i < c => i \in 1..c - 1
        BY <1>1
      <3>2. ~ (i < c) => i = c
        BY <1>1
      <3>. QED
        BY <1>1, <1>3, <3>1, <3>2
    <2>. QED
      BY <1>3, <2>1 DEF NeverMixedUp, CutOff
  <1>5. SoundKept'
    <2>1. Sound(file)' = Sound(file) 
      BY DEF Sound
    <2>2. Len(added') >= Sound(file)
      BY <1>1, <1>3
    <2>3. ASSUME NEW i \in 1..Sound(file)
          PROVE  added'[i] = file.written[i]
      <3>1. i \in 1..c - 1 \/ (i = c /\ cvec = file.written[c])
        BY <1>1
      <3>. QED
        BY <1>3, <3>1
    <2>. QED
      BY <2>1, <2>2, <2>3 DEF SoundKept
  <1>. QED
    BY <1>4, <1>5

\* Adding a whole vector.
LEMMA AddedWhole ==
    ASSUME TypeOK, NEW c \in 1..Len(file.written), Copies(c - 1),
           cvec = file.written[c], ReturnTrue(cvec), file' = file
    PROVE  Copies(c)'
  <1>1. /\ added \in Seq(Cvec) /\ Len(added) = c - 1 /\ c \in Nat
        /\ \A i \in 1..c - 1 : added[i] = file.written[i]
        /\ added' = Append(added, cvec) /\ Len(file.written) \in Nat
    BY FileIs DEF TypeOK, Copies, ReturnTrue
  <1>2. /\ Len(added') = c /\ added'[c] = cvec
        /\ \A i \in 1..c - 1 : added'[i] = file.written[i]
    BY <1>1
  <1>3. \A i \in 1..c : i \in 1..c - 1 \/ i = c
    BY <1>1
  <1>. QED
    BY <1>2, <1>3 DEF Copies

\* Which step is next depends on what is read next.
LEMMA WhichStep ==
    ASSUME Next
    PROVE  /\ file' = file
           /\ at = "header" => ReadHeader \/ CommentAtHeader \/ NoHeader
           /\ at = "w" => ReadWindows \/ BrokenHeader
           /\ at = "r" => ReadRtt \/ BrokenHeader
           /\ at = "l" => ReadLoss \/ BrokenHeader
           /\ at = "adus" /\ ~failed => \/ ReadAdu \/ CommentAtAdu \/ NextHeader
                                        \/ EndOfFile \/ BrokenAdu
           /\ at = "adus" /\ failed => LeaveLoop
           /\ at # "done"
  BY DEF Next, ReadHeader, CommentAtHeader, NoHeader, ReadWindows, ReadRtt,
         ReadLoss, BrokenHeader, ReadAdu, CommentAtAdu, NextHeader, EndOfFile,
         BrokenAdu, LeaveLoop, ReturnFalse, ReturnTrue
-----------------------------------------------------------------------------
(* From a mark to the next one.                                            *)

\* What the parser has read when it is at a mark in front of the line l of
\* the vector c, in the next state.
LEMMA Reach ==
    ASSUME TypeOK, NEW k \in 1..LastMark, NEW c \in Nat, NEW l \in Nat, NEW i,
           file' = file, ~failed', pos' = Mark(k).from,
           c = Mark(k).cvec, l = Mark(k).line,
           \/ l = 1 /\ at' = "header" /\ Copies(c - 1)'
           \/ /\ l = 1 /\ at' = "adus" /\ c > 1
              /\ i = Len(file.written[c - 1].adus) /\ Reading(c - 1, i)'
           \/ /\ l \in 2..4 /\ at' = <<"w", "r", "l">>[l - 1]
              /\ c <= Len(file.written) /\ Copies(c - 1)' /\ SameStart(c)'
           \/ /\ l > 4 /\ at' = "adus" /\ c <= Len(file.written)
              /\ i = l - 5 /\ Reading(c, i)'
    PROVE  AtMark(Mark(k))'
  <1>1. /\ Mark(k)' = Mark(k) /\ file'.written = file.written
    BY DEF Mark
  <1>. QED
    BY <1>1 DEF AtMark, Reading, Copies, SameStart

\* A comment changes nothing but the place.
LEMMA CommentStep ==
    ASSUME TypeOK, NEW k \in 1..LastMark, k < LastMark, AtMark(Mark(k)),
           Letter = "#", IgnoreLine, UNCHANGED <<file, at, cvec, added>>
    PROVE  AtMark(Mark(k + 1))'
  <1>1. PICK c, l, i : /\ c = Mark(k).cvec /\ l = Mark(k).line
                       /\ i = IF l > 4 THEN l - 5
                              ELSE Len(file.written[c - 1].adus)
    OBVIOUS
  <1>2. ~failed /\ pos = Mark(k).from
    BY DEF AtMark
  <1>3. /\ HasLetter /\ k + 1 \in 1..LastMark
        /\ c = Mark(k + 1).cvec /\ l = Mark(k + 1).line
        /\ Mark(k + 1).from = EndOfLine(file.text, Skip(file.text, pos)) + 1
        /\ l \notin 2..4
    BY <1>1, <1>2, Ahead
  <1>4. ~failed' /\ pos' = Mark(k + 1).from
    BY <1>3 DEF IgnoreLine
  <1>5. c \in Nat /\ l \in Nat
    BY <1>1, MarkIs, FileIs
  <1>6. /\ \A d, j : Reading(d, j) => Reading(d, j)'
        /\ \A j : Copies(j) => Copies(j)'
    BY DEF Reading, Copies, SameStart
  <1>7. \/ l = 1 /\ at = "header" /\ Copies(c - 1)
        \/ l = 1 /\ at = "adus" /\ c > 1 /\ Reading(c - 1, i)
        \/ /\ l > 4 /\ at = "adus"
           /\ c <= Len(file.written) /\ Reading(c, i)
    BY <1>1, <1>3 DEF AtMark
  <1>8. \/ l = 1 /\ at' = "header" /\ Copies(c - 1)'
        \/ /\ l = 1 /\ at' = "adus" /\ c > 1
           /\ i = Len(file.written[c - 1].adus) /\ Reading(c - 1, i)'
        \/ /\ l > 4 /\ at' = "adus" /\ c <= Len(file.written)
           /\ i = l - 5 /\ Reading(c, i)'
    BY <1>1, <1>6, <1>7
  <1>. QED
    BY <1>3, <1>4, <1>5, <1>8, Reach

\* At the line of a header, in front of a vector.
LEMMA HeaderStep ==
    ASSUME TypeInv, NEW k \in 1..LastMark, k < LastMark, AtMark(Mark(k)),
           at = "header", Next
    PROVE  AtMark(Mark(k + 1))'
  <1>1. PICK c, v : c = Mark(k).cvec /\ v = file.written[c]
    OBVIOUS
  <1>2. /\ TypeOK /\ ~failed /\ pos = Mark(k).from
        /\ Mark(k).line = 1 /\ Copies(c - 1)
    BY <1>1 DEF TypeInv, AtMark
  <1>3. /\ file' = file
        /\ ReadHeader \/ CommentAtHeader \/ NoHeader
    BY WhichStep
  <1>4. HasLetter /\ k + 1 \in 1..LastMark
    BY <1>2, Ahead
  <1>5. CASE Letter = "#"
    <2>1. CommentAtHeader
      BY <1>3, <1>4, <1>5 DEF ReadHeader, NoHeader
    <2>. QED
      BY <1>2, <1>5, <2>1, CommentStep DEF CommentAtHeader
  <1>6. CASE Letter # "#"
    <2>1. /\ c <= Len(file.written) /\ Letter \in Letters
          /\ Readable(file.text, pos, Mark(k + 1).from)
          /\ IsLine(file.text, pos, v, 1)
          /\ 1 < Len(v.adus) + 4 =>
                Mark(k + 1).cvec = c /\ Mark(k + 1).line = 2
      BY <1>1, <1>2, <1>6, Ahead
    <2>2. c \in Nat /\ v \in Cvec /\ Len(v.adus) \in Nat
      BY <1>1, <1>2, <2>1, MarkIs
    <2>3. Mark(k + 1).cvec = c /\ Mark(k + 1).line = 2
      BY <2>1, <2>2
    <2>4. Letter = v.type /\ Word(2) = v.start
      BY <1>2, <1>4, <2>1, LetterIs DEF IsLine, Word
    <2>5. Letter \in {"S", "C"}
      BY <2>2, <2>4 DEF Cvec
    <2>6. ReadHeader
      BY <1>3, <1>4, <2>5 DEF NoHeader, CommentAtHeader
    <2>7. Read(Needs[Letter])
      BY <2>5, <2>6, NeedsAre DEF ReadHeader
    <2>8. ~failed' /\ pos' = Mark(k + 1).from
      BY <1>2, <1>4, <2>1, <2>7, ReadIs
    <2>9. /\ cvec'.type = v.type /\ cvec'.start = v.start
          /\ at' = "w" /\ added' = added
      <3>1. HasNumbers(1)
        <4>1. HasNumbers(Needs[Letter])
          BY <2>7, <2>8 DEF Read
        <4>2. \A i \in 2..1 + 1 : i \in 2..Needs[Letter] + 1
          BY <2>5, NeedsAre
        <4>. QED
          BY <4>1, <4>2 DEF HasNumbers
      <3>. QED
        BY <1>2, <2>4, <2>6, <3>1 DEF ReadHeader, TypeOK
    <2>10. Copies(c - 1)' /\ SameStart(c)'
      BY <1>1, <1>2, <1>3, <2>9 DEF Copies, SameStart
    <2>. QED
      BY <1>2, <1>3, <1>4, <2>1, <2>2, <2>3, <2>8, <2>9, <2>10, Reach
  <1>. QED
    BY <1>5, <1>6

\* At the header of the next vector, behind an ADU.
LEMMA NextVectorStep ==
    ASSUME TypeInv, NEW k \in 1..LastMark, k < LastMark, AtMark(Mark(k)),
           Mark(k).line = 1, at = "adus", Next
    PROVE  AtMark(Mark(k))' \/ AtMark(Mark(k + 1))'
  <1>1. PICK c, d, w : /\ c = Mark(k).cvec /\ d = c - 1
                       /\ w = file.written[d]
    OBVIOUS
  <1>2. /\ TypeOK /\ ~failed /\ pos = Mark(k).from /\ cvec \in Cvec
        /\ c > 1 /\ Reading(d, Len(w.adus))
    BY <1>1 DEF TypeInv, HasHeader, AtMark
  <1>3. /\ file' = file
        /\ ReadAdu \/ CommentAtAdu \/ NextHeader \/ EndOfFile \/ BrokenAdu
    BY <1>2, WhichStep
  <1>4. HasLetter
    BY <1>2, Ahead
  <1>5. CASE Letter = "#"
    <2>1. CommentAtAdu
      BY <1>3, <1>4, <1>5 DEF ReadAdu, NextHeader, EndOfFile, BrokenAdu
    <2>. QED
      BY <1>2, <1>5, <2>1, CommentStep DEF CommentAtAdu
  <1>6. CASE Letter # "#"
    <2>1. /\ c <= Len(file.written)
          /\ IsLine(file.text, pos, file.written[c], 1)
      BY <1>1, <1>2, <1>6, Ahead
    <2>2. /\ c \in Nat /\ file.written[c] \in Cvec
          /\ d \in 1..Len(file.written) /\ Len(w.adus) \in Nat
      BY <1>1, <1>2, <2>1, MarkIs, FileIs
    <2>3. Letter = file.written[c].type
      BY <1>2, <1>4, <2>1, LetterIs DEF IsLine
    <2>4. Letter \in {"S", "C"}
      BY <2>2, <2>3 DEF Cvec
    <2>5. NextHeader
      BY <1>3, <1>4, <2>4 DEF ReadAdu, CommentAtAdu, EndOfFile, BrokenAdu
    <2>6. /\ ReturnTrue(cvec) /\ at' = "header"
          /\ UNCHANGED <<file, pos, failed, cvec>>
      BY <2>5 DEF NextHeader, ReturnTrue
    <2>7. Len(w.adus) <= Len(w.adus)
      BY <2>2
    <2>8. cvec = w
      BY <1>1, <1>2, <2>2, <2>7, ReadingIs
    <2>9. Copies(d - 1)
      BY <1>2 DEF Reading
    <2>10. Copies(d)'
      BY <1>1, <1>2, <2>2, <2>6, <2>8, <2>9, AddedWhole
    <2>. QED
      BY <1>1, <1>2, <1>3, <2>2, <2>6, <2>10, Reach
  <1>. QED
    BY <1>5, <1>6

\* At a line of a header block.
LEMMA BlockStep ==
    ASSUME TypeInv, NEW k \in 1..LastMark, k < LastMark, AtMark(Mark(k)),
           at \in {"w", "r", "l"}, Next
    PROVE  AtMark(Mark(k + 1))'
  <1>1. PICK c, l, v, j : /\ c = Mark(k).cvec /\ l = Mark(k).line
                          /\ v = file.written[c] /\ j = Len(v.adus)
    OBVIOUS
  <1>2. /\ TypeOK /\ ~failed /\ pos = Mark(k).from
        /\ l \in 2..4 /\ at = <<"w", "r", "l">>[l - 1]
        /\ c <= Len(file.written)
        /\ Copies(c - 1) /\ SameStart(c)
    BY <1>1 DEF TypeInv, AtMark
  <1>3. file' = file
    BY WhichStep
  <1>4. HasLetter /\ Letter = at
    BY <1>1, <1>2, Ahead DEF Begins
  <1>5. Letter # "#"
    BY <1>4
  <1>6. /\ Letter \in Letters /\ k + 1 \in 1..LastMark
        /\ Readable(file.text, pos, Mark(k + 1).from)
        /\ IF l < j + 4
           THEN Mark(k + 1).cvec = c /\ Mark(k + 1).line = l + 1
           ELSE Mark(k + 1).cvec = c + 1 /\ Mark(k + 1).line = 1
    BY <1>1, <1>2, <1>5, Ahead
  <1>7. v \in Cvec /\ j \in Nat /\ c \in Nat \ {0}
    BY <1>1, <1>2, MarkIs, FileIs
  <1>8. ReadWindows \/ ReadRtt \/ ReadLoss
    BY <1>4, WhichStep DEF BrokenHeader
  <1>9. Read(Needs[Letter]) /\ added' = added
    BY <1>8, NeedsAre DEF ReadWindows, ReadRtt, ReadLoss
  <1>10. ~failed' /\ pos' = Mark(k + 1).from
    BY <1>2, <1>4, <1>6, <1>9, ReadIs
  <1>11. CASE ~ReadLoss
    <2>1. l \in 2..3 /\ cvec' = cvec /\ at' = <<"w", "r", "l">>[l]
      BY <1>2, <1>8, <1>11 DEF ReadWindows, ReadRtt
    <2>2. Mark(k + 1).cvec = c /\ Mark(k + 1).line = l + 1
      BY <1>6, <1>7, <2>1
    <2>3. Copies(c - 1)' /\ SameStart(c)'
      BY <1>2, <1>3, <1>9, <2>1 DEF Copies, SameStart
    <2>4. /\ l + 1 \in 2..4 /\ l + 1 \in Nat
          /\ at' = <<"w", "r", "l">>[(l + 1) - 1]
      BY <2>1
    <2>. QED
      BY <1>2, <1>3, <1>6, <1>7, <1>10, <2>2, <2>3, <2>4, Reach
  <1>12. CASE ReadLoss
    <2>1. l = 4 /\ cvec' = [cvec EXCEPT !.adus = <<>>] /\ at' = "adus"
      BY <1>2, <1>12 DEF ReadLoss
    <2>2. /\ cvec'.adus = <<>>
          /\ cvec'.type = cvec.type /\ cvec'.start = cvec.start
      BY <1>2, <2>1 DEF TypeOK
    <2>3. Copies(c - 1)' /\ SameStart(c)'
      BY <1>2, <1>3, <1>9, <2>2 DEF Copies, SameStart
    <2>4. Reading(c, 0)'
      BY <2>2, <2>3 DEF Reading
    <2>5. CASE j > 0
      <3>1. Mark(k + 1).cvec = c /\ Mark(k + 1).line = 5
        BY <1>6, <1>7, <2>1, <2>5
      <3>2. 5 \in Nat /\ 5 > 4 /\ 0 = 5 - 5
        OBVIOUS
      <3>. QED
        BY <1>2, <1>3, <1>6, <1>7, <1>10, <2>1, <2>4, <3>1, <3>2, Reach
    <2>6. CASE j = 0
      <3>1. Mark(k + 1).cvec = c + 1 /\ Mark(k + 1).line = 1
        BY <1>6, <1>7, <2>1, <2>6
      <3>2. c + 1 \in Nat /\ c + 1 > 1 /\ (c + 1) - 1 = c
        BY <1>7
      <3>. QED
        BY <1>1, <1>2, <1>3, <1>6, <1>10, <2>1, <2>4, <2>6, <3>1, <3>2, Reach
    <2>. QED
      BY <1>7, <2>5, <2>6
  <1>. QED
    BY <1>11, <1>12

\* At an ADU.
LEMMA AduStep ==
    ASSUME TypeInv, NEW k \in 1..LastMark, k < LastMark, AtMark(Mark(k)),
           Mark(k).line > 4, at = "adus", Next
    PROVE  AtMark(Mark(k + 1))'
  <1>1. PICK c, l, i, v, j : /\ c = Mark(k).cvec /\ l = Mark(k).line
                             /\ i = l - 4
                             /\ v = file.written[c] /\ j = Len(v.adus)
    OBVIOUS
  <1>0. TypeOK /\ cvec \in Cvec
    BY DEF TypeInv, HasHeader
  <1>2. /\ TypeOK /\ ~failed /\ pos = Mark(k).from /\ cvec \in Cvec
        /\ c <= Len(file.written) /\ Reading(c, l - 5)
    <2>1. l \in Nat /\ l > 4
      BY <1>0, <1>1, MarkIs
    <2>. QED
      BY <1>0, <1>1, <2>1 DEF AtMark
  <1>3. /\ file' = file
        /\ ReadAdu \/ CommentAtAdu \/ NextHeader \/ EndOfFile \/ BrokenAdu
    BY <1>2, WhichStep
  <1>4. HasLetter
    BY <1>2, Ahead
  <1>5. CASE Letter = "#"
    <2>1. CommentAtAdu
      BY <1>3, <1>4, <1>5 DEF ReadAdu, NextHeader, EndOfFile, BrokenAdu
    <2>. QED
      BY <1>2, <1>5, <2>1, CommentStep DEF CommentAtAdu
  <1>6. CASE Letter # "#"
    <2>1. /\ Letter \in Letters /\ k + 1 \in 1..LastMark
          /\ Readable(file.text, pos, Mark(k + 1).from)
          /\ IsLine(file.text, pos, v, l)
          /\ IF l < j + 4
             THEN Mark(k + 1).cvec = c /\ Mark(k + 1).line = l + 1
             ELSE Mark(k + 1).cvec = c + 1 /\ Mark(k + 1).line = 1
      BY <1>1, <1>2, <1>6, Ahead
    <2>2. /\ v \in Cvec /\ j \in Nat /\ l \in Nat /\ l <= j + 4
          /\ c \in Nat \ {0} /\ l > 4
      <3>1. /\ c \in 1..Len(file.written) + 1 /\ Len(file.written) \in Nat
            /\ l \in Nat
        BY <1>1, <1>2, MarkIs, FileIs
      <3>2. v \in Cvec /\ j \in Nat /\ l <= j + 4
        BY <1>1, <1>2, MarkIs
      <3>. QED
        BY <1>1, <3>1, <3>2
    <2>3. i \in 1..j /\ i - 1 = l - 5
      <3>1. l \in Nat /\ j \in Nat /\ l <= j + 4 /\ l > 4 /\ i = l - 4
        BY <1>1, <2>2
      <3>. QED
        BY <3>1
    <2>4. v.adus \in Seq(ADU) /\ v.adus[i] \in ADU
      <3>1. v.adus \in Seq(ADU)
        BY <2>2 DEF Cvec
      <3>. QED
        BY <1>1, <2>3, <3>1, ElementOfSeq
    <2>5. v.adus[i] = [side |-> Letter, sendWait |-> Word(2),
                       recvWait |-> Word(3), size |-> Word(4)]
      <3>1. l # 1 /\ l \notin 2..4
        BY <2>2
      <3>. QED
        BY <1>1, <1>2, <1>4, <2>1, <3>1, LetterIs DEF IsLine, Word
    <2>6. Letter \in {"I", "A"}
      BY <2>4, <2>5 DEF ADU
    <2>7. ReadAdu
      BY <1>3, <1>4, <2>6 DEF NextHeader, CommentAtAdu, EndOfFile, BrokenAdu
    <2>8. Read(Needs[Letter]) /\ at' = "adus" /\ added' = added
      BY <2>6, <2>7, NeedsAre DEF ReadAdu
    <2>9. ~failed' /\ pos' = Mark(k + 1).from
      BY <1>2, <1>4, <2>1, <2>8, ReadIs
    <2>10. cvec' = [cvec EXCEPT !.adus = Append(@, v.adus[i])]
      BY <2>5, <2>7, <2>9 DEF ReadAdu
    <2>11. /\ cvec'.type = cvec.type /\ cvec'.start = cvec.start
           /\ cvec'.adus = Append(cvec.adus, v.adus[i])
           /\ cvec.adus \in Seq(ADU)
      BY <1>2, <2>10 DEF Cvec
    <2>12. Reading(c, i)'
      <3>1. /\ Len(cvec.adus) = i - 1
            /\ \A q \in 1..i - 1 : cvec.adus[q] = v.adus[q]
            /\ Copies(c - 1) /\ SameStart(c)
        BY <1>1, <1>2, <2>3 DEF Reading
      <3>2. PICK a : a = v.adus[i] /\ a \in ADU
        BY <2>4
      <3>3. i \in Nat /\ (i - 1) + 1 = i
        BY <2>2, <2>3
      <3>4. /\ Len(cvec'.adus) = i /\ cvec'.adus[i] = a
            /\ \A q \in 1..i - 1 : cvec'.adus[q] = cvec.adus[q]
        BY <2>11, <3>1, <3>2, <3>3, AppendProperties
      <3>5. \A q \in 1..i : q \in 1..i - 1 \/ q = i
        BY <3>3
      <3>6. \A q \in 1..i : cvec'.adus[q] = v.adus[q]
        BY <3>1, <3>2, <3>4, <3>5
      <3>7. Copies(c - 1)' /\ SameStart(c)'
        BY <1>3, <2>8, <2>11, <3>1 DEF Copies, SameStart
      <3>. QED
        BY <1>1, <1>3, <3>4, <3>6, <3>7 DEF Reading
    <2>13. CASE l < j + 4
      <3>1. Mark(k + 1).cvec = c /\ Mark(k + 1).line = l + 1
        BY <2>1, <2>13
      <3>2. (l + 1) - 5 = i /\ l + 1 > 4 /\ l + 1 \in Nat
        BY <1>1, <2>2
      <3>. QED
        BY <1>2, <1>3, <2>1, <2>2, <2>8, <2>9, <2>12, <3>1, <3>2, Reach
    <2>14. CASE l = j + 4
      <3>1. Mark(k + 1).cvec = c + 1 /\ Mark(k + 1).line = 1
        BY <2>1, <2>2, <2>14
      <3>2. /\ i = j /\ c + 1 \in Nat /\ c + 1 > 1 /\ (c + 1) - 1 = c
        BY <1>1, <2>2, <2>14
      <3>. QED
        BY <1>1, <1>2, <1>3, <2>1, <2>8, <2>9, <2>12, <3>1, <3>2, Reach
    <2>. QED
      BY <2>2, <2>13, <2>14
  <1>. QED
    BY <1>5, <1>6

LEMMA MarkStep ==
    ASSUME TypeInv, NEW k \in 1..LastMark, k < LastMark, AtMark(Mark(k)), Next
    PROVE  AtMark(Mark(k))' \/ AtMark(Mark(k + 1))'
  <1>1. \/ at = "header" \/ at \in {"w", "r", "l"}
        \/ at = "adus" /\ Mark(k).line = 1
        \/ at = "adus" /\ Mark(k).line > 4
    BY DEF AtMark
  <1>. QED
    BY <1>1, HeaderStep, NextVectorStep, BlockStep, AduStep
-----------------------------------------------------------------------------
(* From the last mark on.                                                  *)

LEMMA SameVectors ==
    ASSUME UNCHANGED <<file, added>>, NeverMixedUp, SoundKept
    PROVE  NeverMixedUp' /\ SoundKept'
  BY DEF NeverMixedUp, CutOff, SoundKept, Sound

\* When reading fails, the letter stays the one that was read last.
LEMMA AfterRead ==
    ASSUME NEW n, Read(n), failed'
    PROVE  ~HasLetter' /\ Letter' = Letter
  <1>1. x' = Letter
    BY DEF Read
  <1>2. ~HasLetter'
    BY DEF HasLetter
  <1>3. Letter' = x'
    BY <1>2 DEF Letter
  <1>. QED
    BY <1>1, <1>2, <1>3

\* Behind a damaged header there is no "w".
LEMMA DamagedHeader ==
    ASSUME TypeOK, pos = Mark(LastMark).from, ReadHeader,
           Letter \in Begins(Mark(LastMark))
    PROVE  Stops' /\ UNCHANGED <<file, added>>
  <1>1. /\ HasLetter /\ Letter \in {"S", "C"} /\ Read(Needs[Letter])
        /\ file' = file /\ added' = added /\ at' = "w"
    BY NeedsAre DEF ReadHeader
  <1>2. ~failed
    BY <1>1, LetterIs
  <1>3. failed' => Letter' = Letter
    BY <1>1, AfterRead
  <1>4. ~failed' => Letter' \notin Letters
    BY <1>1, <1>2, NothingAhead
  <1>5. Letter' # "w"
    BY <1>1, <1>3, <1>4, NeedsAre
  <1>. QED
    BY <1>1, <1>5 DEF Stops

LEMMA LastHeader ==
    ASSUME TypeInv, AtMark(Mark(LastMark)), at = "header", Next
    PROVE  Ended'
  <1>1. PICK m, c : m = Mark(LastMark) /\ c = m.cvec
    OBVIOUS
  <1>2. /\ TypeOK /\ ~failed /\ pos = m.from /\ m.line = 1 /\ Copies(c - 1)
    BY <1>1 DEF TypeInv, AtMark
  <1>3. /\ c - 1 \in Nat /\ c - 1 <= Len(file.written) /\ Sound(file) <= c - 1
    <2>1. LastMark \in 1..LastMark /\ Len(file.written) \in Nat
      BY <1>2, FileIs
    <2>2. c \in 1..Len(file.written) + 1
      BY <1>1, <1>2, <2>1, MarkIs
    <2>3. Sound(file) <= c - 1
      BY <1>1, <1>2, SoundIs
    <2>. QED
      BY <2>1, <2>2, <2>3
  <1>4. NeverMixedUp /\ SoundKept
    BY <1>2, <1>3, CopiesAre
  <1>5. ReadHeader \/ CommentAtHeader \/ NoHeader
    BY WhichStep
  <1>6. Letter \in {"S", "C", "#"} => Letter \in Begins(m)
    BY <1>2 DEF Begins
  <1>7. ~CommentAtHeader
    BY <1>1, <1>2, <1>6, NothingAhead DEF CommentAtHeader
  <1>8. CASE ReadHeader
    <2>1. Stops' /\ UNCHANGED <<file, added>>
      BY <1>1, <1>2, <1>6, <1>8, DamagedHeader DEF ReadHeader
    <2>. QED
      BY <1>4, <2>1, SameVectors DEF Ended
  <1>9. CASE NoHeader
    <2>1. at' = "done" /\ UNCHANGED <<file, added>>
      BY <1>9 DEF NoHeader, ReturnFalse
    <2>. QED
      BY <1>4, <2>1, SameVectors DEF Ended, Stops
  <1>. QED
    BY <1>5, <1>7, <1>8, <1>9

LEMMA LastBlock ==
    ASSUME TypeInv, AtMark(Mark(LastMark)), at \in {"w", "r", "l"}, Next
    PROVE  Ended' \/ Leaving'
  <1>1. PICK m, c, l : /\ m = Mark(LastMark) /\ c = m.cvec /\ l = m.line
    OBVIOUS
  <1>2. /\ TypeOK /\ ~failed /\ pos = m.from
        /\ l \in 2..4 /\ at = <<"w", "r", "l">>[l - 1]
        /\ c <= Len(file.written) /\ Copies(c - 1) /\ SameStart(c)
    BY <1>1 DEF TypeInv, AtMark
  <1>3. /\ c \in 1..Len(file.written) /\ Sound(file) <= c - 1
        /\ c - 1 \in Nat /\ c - 1 <= Len(file.written) /\ Sound(file) \in Int
    <2>1. LastMark \in 1..LastMark /\ Len(file.written) \in Nat
      BY <1>2, FileIs
    <2>2. c \in 1..Len(file.written) + 1
      BY <1>1, <1>2, <2>1, MarkIs
    <2>3. Sound(file) <= c - 1 /\ Sound(file) \in Int
      BY <1>1, <1>2, SoundIs
    <2>. QED
      BY <1>2, <2>1, <2>2, <2>3
  <1>4. NeverMixedUp /\ SoundKept
    BY <1>2, <1>3, CopiesAre
  <1>5. CASE BrokenHeader
    <2>1. at' = "done" /\ UNCHANGED <<file, added>>
      BY <1>5 DEF BrokenHeader, ReturnFalse
    <2>. QED
      BY <1>4, <2>1, SameVectors DEF Ended, Stops
  <1>6. CASE ~BrokenHeader
    <2>1. ReadWindows \/ ReadRtt \/ ReadLoss
      BY <1>6, WhichStep
    <2>2. /\ Letter = at /\ Read(Needs[Letter])
          /\ file' = file /\ added' = added
      BY <2>1, NeedsAre DEF ReadWindows, ReadRtt, ReadLoss
    <2>3. HasLetter
      BY <1>2, <2>2, LetterIs DEF TypeInv, LastLetter
    <2>4. Letter \in Begins(m)
      BY <1>1, <1>2, <2>2 DEF Begins
    <2>5. ~failed' => HasLetter' /\ Letter' \notin Letters \cup {"#"}
      BY <1>1, <1>2, <2>2, <2>3, <2>4, NothingAhead
    <2>6. failed' => Letter' = at
      BY <2>2, AfterRead
    <2>7. CASE ~ReadLoss
      <3>1. at' \in {"r", "l"} /\ at' # at
        BY <2>1, <2>7 DEF ReadWindows, ReadRtt
      <3>2. Letter' # at'
        BY <2>5, <2>6, <3>1, NeedsAre
      <3>. QED
        BY <1>4, <2>2, <3>1, <3>2, SameVectors DEF Ended, Stops
    <2>8. CASE ReadLoss /\ ~failed'
      <3>1. at' = "adus"
        BY <2>8 DEF ReadLoss
      <3>2. HasLetter' /\ Letter' \notin {"S", "C", "I", "A", "#"}
        BY <2>5, <2>8, NeedsAre
      <3>. QED
        BY <1>4, <2>2, <3>1, <3>2, SameVectors DEF Ended, Stops
    <2>9. CASE ReadLoss /\ failed'
      <3>1. at' = "adus" /\ cvec' = [cvec EXCEPT !.adus = <<>>]
        BY <2>9 DEF ReadLoss
      <3>2. /\ cvec'.adus = <<>>
            /\ cvec'.type = cvec.type /\ cvec'.start = cvec.start
        BY <1>2, <3>1 DEF TypeOK
      <3>3. IsPrefix(<<>>, file.written[c].adus)
        <4>1. file.written[c] \in Cvec
          BY <1>2, <1>3, FileIs, ElementOfSeq
        <4>2. file.written[c].adus \in Seq(ADU)
          BY <4>1 DEF Cvec
        <4>3. <<>> \in Seq(ADU) /\ Len(<<>>) = 0
          BY EmptySeq
        <4>4. Len(<<>>) <= Len(file.written[c].adus)
          BY <4>2, <4>3, LenProperties
        <4>5. \A i \in 1..Len(<<>>) : <<>>[i] = file.written[c].adus[i]
          BY <4>3
        <4>. QED
          BY <4>2, <4>3, <4>4, <4>5, PrefixOf
      <3>4. AddsLast(c)'
        <4>1. Sound(file') <= IF cvec' = file'.written[c] THEN c ELSE c - 1
          BY <1>3, <2>2
        <4>. QED
          BY <1>2, <1>3, <2>2, <3>2, <3>3, <4>1
          DEF AddsLast, Copies, SameStart, CutOff
      <3>. QED
        BY <1>3, <2>2, <2>9, <3>1, <3>4 DEF Leaving
    <2>. QED
      BY <2>7, <2>8, <2>9
  <1>. QED
    BY <1>5, <1>6

LEMMA LastAdu ==
    ASSUME TypeInv, AtMark(Mark(LastMark)), at = "adus", Next
    PROVE  Ended' \/ Leaving'
  <1>1. PICK m, c, l : /\ m = Mark(LastMark) /\ c = m.cvec /\ l = m.line
    OBVIOUS
  <1>2. /\ TypeOK /\ ~failed /\ pos = m.from /\ cvec \in Cvec
        /\ x \in {"l", "I", "A", "#"}
    BY <1>1 DEF TypeInv, HasHeader, LastLetter, AtMark
  <1>3. /\ c \in 1..Len(file.written) + 1 /\ Len(file.written) \in Nat
        /\ l \in Nat /\ Sound(file) \in Int /\ Sound(file) <= c - 1
        /\ l = 1 /\ HasLetter /\ Letter \notin {"S", "C"} =>
              Sound(file) = c - 2
    <2>1. LastMark \in 1..LastMark /\ Len(file.written) \in Nat
      BY <1>2, FileIs
    <2>2. c \in 1..Len(file.written) + 1 /\ l \in Nat
      BY <1>1, <1>2, <2>1, MarkIs
    <2>. QED
      BY <1>1, <1>2, <2>1, <2>2, SoundIs
  \* The vector that is read.
  <1>4. PICK d \in 1..Len(file.written) :
            /\ AddsLast(d) /\ Copies(d - 1)
            /\ HasLetter /\ Letter \notin {"S", "C"} => Sound(file) <= d - 1
    <2>1. CASE l = 1
      <3>1. PICK d, w, j : d = c - 1 /\ w = file.written[d] /\ j = Len(w.adus)
        OBVIOUS
      <3>2. c > 1 /\ Reading(d, j)
        BY <1>1, <2>1, <3>1 DEF AtMark
      <3>3. d \in 1..Len(file.written) /\ w \in Cvec /\ j \in Nat
        <4>1. LastMark \in 1..LastMark
          BY <1>2, FileIs
        <4>. QED
          BY <1>1, <1>2, <3>1, <3>2, <4>1, MarkIs
      <3>4. cvec = w /\ CutOff(cvec, w)
        <4>1. j <= j
          BY <3>3
        <4>. QED
          BY <1>2, <3>1, <3>2, <3>3, <4>1, ReadingIs
      <3>5. Copies(d - 1)
        BY <3>2 DEF Reading
      <3>6. Sound(file) <= d /\ c - 2 = d - 1
        BY <1>3, <3>1
      <3>7. AddsLast(d)
        BY <3>1, <3>3, <3>4, <3>5, <3>6 DEF AddsLast
      <3>8. HasLetter /\ Letter \notin {"S", "C"} => Sound(file) <= d - 1
        BY <1>3, <2>1, <3>3, <3>6
      <3>. QED
        BY <3>3, <3>5, <3>7, <3>8
    <2>2. CASE l # 1
      <3>1. PICK w, j : w = file.written[c] /\ j = l - 5
        OBVIOUS
      <3>2. l > 4 /\ c <= Len(file.written) /\ Reading(c, j)
        BY <1>1, <2>2, <3>1 DEF AtMark
      <3>3. c \in 1..Len(file.written) /\ w \in Cvec
            /\ j \in Nat /\ j <= Len(w.adus)
        <4>1. LastMark \in 1..LastMark
          BY <1>2, FileIs
        <4>2. w \in Cvec /\ Len(w.adus) \in Nat /\ l <= Len(w.adus) + 4
          BY <1>1, <1>2, <3>1, <3>2, <4>1, MarkIs
        <4>3. PICK e : e = Len(w.adus)
          OBVIOUS
        <4>4. j \in Nat /\ j <= e
          BY <1>3, <3>1, <3>2, <4>2, <4>3
        <4>. QED
          BY <1>3, <3>2, <4>2, <4>3, <4>4
      <3>4. CutOff(cvec, w)
        BY <1>2, <3>1, <3>2, <3>3, ReadingIs
      <3>5. Copies(c - 1)
        BY <3>2 DEF Reading
      <3>6. AddsLast(c)
        BY <1>3, <3>1, <3>3, <3>4, <3>5 DEF AddsLast
      <3>. QED
        BY <1>3, <3>3, <3>5, <3>6
    <2>. QED
      BY <2>1, <2>2
  <1>5. Letter \in {"I", "A", "S", "C", "#"} => Letter \in Begins(m)
    <2>1. (l = 1 /\ c # 1) \/ l > 4
      BY <1>1 DEF AtMark
    <2>2. l \notin 2..4 /\ (l # 1 \/ c # 1)
      BY <1>3, <2>1
    <2>. QED
      BY <1>1, <2>2 DEF Begins
  <1>6. ASSUME HasLetter, Letter \notin {"S", "C"}
        PROVE  NeverMixedUp /\ SoundKept
    <2>1. d - 1 \in Nat /\ d - 1 <= Len(file.written)
      BY <1>3
    <2>. QED
      BY <1>2, <1>4, <1>6, <2>1, CopiesAre
  <1>7. ASSUME UNCHANGED <<file, cvec, added>>, at' = "adus", failed'
        PROVE  Leaving'
    <2>1. AddsLast(d)'
      BY <1>4, <1>7 DEF AddsLast, Copies, CutOff, Sound
    <2>. QED
      BY <1>4, <1>7, <2>1 DEF Leaving
  <1>8. /\ file' = file
        /\ ReadAdu \/ CommentAtAdu \/ NextHeader \/ EndOfFile \/ BrokenAdu
    BY <1>2, WhichStep
  <1>9. CASE ReadAdu
    <2>1. /\ Letter \in {"I", "A"} /\ Read(Needs[Letter]) /\ at' = "adus"
          /\ added' = added /\ (failed' => cvec' = cvec)
      BY <1>9, NeedsAre DEF ReadAdu
    <2>2. CASE failed'
      BY <1>7, <1>8, <2>1, <2>2
    <2>3. CASE ~failed'
      <3>1. HasLetter
        BY <2>1, <2>3 DEF Read, HasNumbers
      <3>2. HasLetter' /\ Letter' \notin Letters \cup {"#"}
        BY <1>1, <1>2, <1>5, <1>8, <2>1, <2>3, <3>1, NothingAhead
      <3>3. Stops'
        BY <2>1, <3>2, NeedsAre DEF Stops
      <3>. QED
        BY <1>6, <1>8, <2>1, <3>1, <3>3, SameVectors DEF Ended
    <2>. QED
      BY <2>2, <2>3
  <1>10. CASE CommentAtAdu
    <2>1. /\ Letter = "#" /\ IgnoreLine /\ at' = "adus"
          /\ UNCHANGED <<file, cvec, added>>
      BY <1>10 DEF CommentAtAdu
    <2>2. ~HasLetter
      BY <1>1, <1>2, <1>5, <2>1, NothingAhead
    <2>3. failed'
      BY <2>1, <2>2 DEF IgnoreLine
    <2>. QED
      BY <1>7, <2>1, <2>3
  <1>11. CASE NextHeader
    <2>1. /\ Letter \in {"S", "C"} /\ ReturnTrue(cvec) /\ at' = "header"
          /\ UNCHANGED <<file, pos, failed>>
      BY <1>11 DEF NextHeader, ReturnTrue
    <2>2. HasLetter
      BY <1>2, <2>1, LetterIs
    <2>3. NeverMixedUp' /\ SoundKept'
      BY <1>2, <1>4, <2>1, AddedLast
    <2>4. HasLetter' /\ Letter' = Letter /\ m = Mark(LastMark)'
      BY <1>1, <2>1, <2>2 DEF HasLetter, Letter, Mark, LastMark
    <2>5. Letter \in Begins(m)
      BY <1>5, <2>1
    <2>6. Stops'
      <3>1. pos' = Mark(LastMark)'.from
        BY <1>2, <2>1, <2>4
      <3>2. Begins(Mark(LastMark))' = Begins(m)
        BY <2>4 DEF Begins
      <3>3. ~failed'
        BY <1>2, <2>1
      <3>. QED
        BY <2>1, <2>4, <2>5, <3>1, <3>2, <3>3 DEF Stops
    <2>. QED
      BY <2>3, <2>6 DEF Ended
  <1>12. CASE EndOfFile
    <2>1. /\ ReturnTrue(cvec) /\ at' = "header" /\ failed'
      BY <1>12 DEF EndOfFile, ReturnTrue
    <2>2. NeverMixedUp' /\ SoundKept'
      BY <1>2, <1>4, <1>8, <2>1, AddedLast
    <2>. QED
      BY <2>1, <2>2 DEF Ended, Stops
  <1>13. CASE BrokenAdu
    <2>1. /\ HasLetter /\ Letter \notin {"S", "C"} /\ at' = "done"
          /\ added' = added
      BY <1>13 DEF BrokenAdu, ReturnFalse
    <2>. QED
      BY <1>6, <1>8, <2>1, SameVectors DEF Ended, Stops
  <1>. QED
    BY <1>8, <1>9, <1>10, <1>11, <1>12, <1>13

\* Once it stops, no vector is added.
LEMMA StopStep ==
    ASSUME TypeInv, Ended, Next
    PROVE  Ended'
  <1>1. /\ Stops /\ NeverMixedUp /\ SoundKept /\ TypeOK /\ file' = file
    BY WhichStep DEF Ended, TypeInv
  <1>2. ASSUME at' = "done", added' = added
        PROVE  Ended'
    BY <1>1, <1>2, SameVectors DEF Ended, Stops
  <1>3. at # "done"
    BY WhichStep
  <1>4. CASE at = "header" /\ failed
    <2>1. NoHeader
      BY <1>4, WhichStep DEF ReadHeader, CommentAtHeader, HasLetter
    <2>. QED
      BY <1>2, <2>1 DEF NoHeader, ReturnFalse
  <1>5. CASE /\ at = "header" /\ ~failed /\ pos = Mark(LastMark).from
             /\ HasLetter /\ Letter \in {"S", "C"}
             /\ Letter \in Begins(Mark(LastMark))
    <2>1. ReadHeader
      BY <1>5, WhichStep DEF NoHeader, CommentAtHeader
    <2>2. Stops' /\ UNCHANGED <<file, added>>
      BY <1>1, <1>5, <2>1, DamagedHeader
    <2>. QED
      BY <1>1, <2>2, SameVectors DEF Ended
  <1>6. CASE at \in {"w", "r", "l"} /\ Letter # at
    <2>1. BrokenHeader
      BY <1>6, WhichStep DEF ReadWindows, ReadRtt, ReadLoss
    <2>. QED
      BY <1>2, <2>1 DEF BrokenHeader, ReturnFalse
  <1>7. CASE at = "adus" /\ HasLetter /\ Letter \notin {"S", "C", "I", "A", "#"}
    <2>1. ~failed
      BY <1>7 DEF HasLetter
    <2>2. BrokenAdu
      BY <1>7, <2>1, WhichStep DEF ReadAdu, CommentAtAdu, NextHeader, EndOfFile
    <2>. QED
      BY <1>2, <2>2 DEF BrokenAdu, ReturnFalse
  <1>. QED
    BY <1>1, <1>3, <1>4, <1>5, <1>6, <1>7 DEF Stops

\* When a read failed, the vector is added and nothing behind it.
LEMMA LeaveStep ==
    ASSUME TypeInv, Leaving, Next
    PROVE  Ended'
  <1>1. /\ TypeOK /\ at = "adus" /\ failed
        /\ \E c \in 1..Len(file.written) : AddsLast(c)
    BY DEF TypeInv, Leaving
  <1>2. ReturnTrue(cvec) /\ file' = file /\ failed' /\ at' = "header"
    BY <1>1, WhichStep DEF LeaveLoop, ReturnTrue
  <1>3. NeverMixedUp' /\ SoundKept'
    BY <1>1, <1>2, AddedLast
  <1>. QED
    BY <1>2, <1>3 DEF Ended, Stops
-----------------------------------------------------------------------------
(* The theorems.                                                           *)

LEMMA InitInv == Init => IInv
  <1>. SUFFICES ASSUME Init
                PROVE  IInv
    OBVIOUS
  <1>1. TypeInv /\ TypeOK
    BY InitType DEF TypeInv
  <1>2. Mark(1) = [from |-> 1, cvec |-> 1, line |-> 1] /\ 1 \in 1..LastMark
    BY <1>1, FileIs
  <1>3. Copies(0)
    BY DEF Init, Copies
  <1>4. AtMark(Mark(1))
    <2>1. Mark(1).from = 1 /\ Mark(1).cvec - 1 = 0 /\ Mark(1).line = 1
      BY <1>2
    <2>2. ~failed /\ pos = 1 /\ at = "header"
      BY DEF Init
    <2>. QED
      BY <1>3, <2>1, <2>2 DEF AtMark
  <1>. QED
    BY <1>1, <1>2, <1>4 DEF IInv, Parsing

LEMMA StepInv == IInv /\ [Next]_vars => IInv'
  <1>. SUFFICES ASSUME IInv, [Next]_vars
                PROVE  IInv'
    OBVIOUS
  <1>1. TypeInv /\ TypeOK /\ TypeInv'
    BY TypeStep DEF IInv, TypeInv
  <1>2. CASE Next
    <2>1. file' = file /\ LastMark' = LastMark /\ LastMark \in Nat \ {0}
      BY <1>1, <1>2, WhichStep, FileIs DEF LastMark
    <2>2. ASSUME NEW k \in 1..LastMark, AtMark(Mark(k))
          PROVE  Parsing' \/ Ended' \/ Leaving'
      <3>1. CASE k < LastMark
        <4>1. AtMark(Mark(k))' \/ AtMark(Mark(k + 1))'
          BY <1>1, <1>2, <2>2, <3>1, MarkStep
        <4>2. k + 1 \in 1..LastMark
          BY <2>1, <3>1
        <4>. QED
          BY <2>1, <4>1, <4>2 DEF Parsing
      <3>2. CASE k = LastMark
        <4>1. at = "header" \/ at \in {"w", "r", "l"} \/ at = "adus"
          BY <2>2 DEF AtMark
        <4>. QED
          BY <1>1, <1>2, <2>2, <3>2, <4>1, LastHeader, LastBlock, LastAdu
      <3>. QED
        BY <2>1, <3>1, <3>2
    <2>3. Ended => Ended'
      BY <1>1, <1>2, StopStep
    <2>4. Leaving => Ended'
      BY <1>1, <1>2, LeaveStep
    <2>. QED
      BY <1>1, <2>2, <2>3, <2>4 DEF IInv, Parsing
  <1>3. CASE UNCHANGED vars
    BY <1>1, <1>3 DEF vars, IInv, Parsing, Ended, Leaving, Mark, LastMark,
                      AtMark, Copies, Reading, SameStart, AddsLast, Stops,
                      NeverMixedUp, SoundKept, Sound, CutOff, HasLetter,
                      Letter, Begins
  <1>. QED
    BY <1>2, <1>3

LEMMA Invariant == Spec => []IInv
  BY InitInv, StepInv, PTL DEF Spec

\* The parser reads letters and numbers of the text, writes vectors of them
\* only, and never leaves the text: ParseConnectionVector puts no word in a
\* vector that is not a number.
THEOREM TypeCorrectness == Spec => []TypeOK
  <1>1. IInv => TypeOK
    BY DEF IInv, TypeInv
  <1>. QED
    BY <1>1, Invariant, PTL

\* At each mark, and wherever the parser goes behind the last one, what is
\* added are the first vectors of the text.
LEMMA NotMixedUp == IInv => NeverMixedUp
  <1>. SUFFICES ASSUME IInv
                PROVE  NeverMixedUp
    OBVIOUS
  <1>1. TypeOK /\ Len(file.written) \in Nat
    BY FileIs DEF IInv, TypeInv
  <1>2. \A i \in 1..Len(file.written) :
           CutOff(file.written[i], file.written[i])
    BY <1>1, FileIs, ElementOfSeq, CutOffSelf
  <1>3. ASSUME NEW n \in Nat, Copies(n), n <= Len(file.written)
        PROVE  NeverMixedUp
    <2>1. DOMAIN added = 1..n /\ Len(added) = n
      BY <1>1, <1>3, LenProperties DEF TypeOK, Copies
    <2>2. \A i \in 1..n : /\ i <= Len(file.written)
                          /\ i \in 1..Len(file.written)
                          /\ added[i] = file.written[i]
      BY <1>1, <1>3 DEF Copies
    <2>. QED
      BY <1>2, <2>1, <2>2 DEF NeverMixedUp
  <1>4. ASSUME NEW k \in 1..LastMark, AtMark(Mark(k))
        PROVE  NeverMixedUp
    <2>1. PICK c : c = Mark(k).cvec
      OBVIOUS
    <2>2. c \in 1..Len(file.written) + 1
      BY <1>1, <2>1, MarkIs
    <2>3. Copies(c - 1) \/ (c > 1 /\ Copies((c - 1) - 1))
      BY <1>4, <2>1 DEF AtMark, Reading
    <2>4. /\ c - 1 \in Nat /\ c - 1 <= Len(file.written)
          /\ c > 1 => /\ (c - 1) - 1 \in Nat
                      /\ (c - 1) - 1 <= Len(file.written)
      BY <1>1, <2>2
    <2>. QED
      BY <1>3, <2>3, <2>4
  <1>5. ASSUME NEW c \in 1..Len(file.written), AddsLast(c)
        PROVE  NeverMixedUp
    <2>1. c - 1 \in Nat /\ c - 1 <= Len(file.written)
      BY <1>1
    <2>. QED
      BY <1>3, <1>5, <2>1 DEF AddsLast
  <1>. QED
    BY <1>4, <1>5 DEF IInv, Parsing, Ended, Leaving

\* Whatever line of a file is damaged, and however: AddConnectionVectors adds
\* no vector that is made of two, none in another order, none twice and none
\* from behind the damage.  This is for all numbers of vectors and of ADUs.
THEOREM NoVectorIsMixedUp == Spec => []NeverMixedUp
  BY Invariant, NotMixedUp, PTL

\* AddConnectionVectors adds every vector that ends in front of the damage,
\* and all of an undamaged file, as they are written, whatever comments,
\* blanks and ends of lines there are.
THEOREM SoundVectorsAreAdded == Spec => []SoundAreAdded
  <1>1. ASSUME IInv
        PROVE  SoundAreAdded
    <2>1. SUFFICES ASSUME at = "done"
                   PROVE  /\ Len(added) >= Sound(file)
                          /\ \A i \in 1..Sound(file) :
                                added[i] = file.written[i]
      BY DEF SoundAreAdded
    <2>2. ~Parsing /\ ~Leaving
      BY <2>1 DEF Parsing, Leaving, AtMark
    <2>. QED
      BY <1>1, <2>2 DEF IInv, Ended, SoundKept
  <1>2. IInv => SoundAreAdded
    BY <1>1
  <1>. QED
    BY <1>2, Invariant, PTL

-----------------------------------------------------------------------------
(* Every step leaves less to do.                                           *)

LEMMA LeftIs ==
    ASSUME TypeOK
    PROVE  /\ Rank[at] \in 0..2 /\ pos \in Nat /\ Len(file.text) \in Nat
           /\ pos <= Len(file.text) + 1
  BY FileIs DEF TypeOK, Rank

LEMMA LessIsLeft ==
    ASSUME TypeOK, TypeOK', file' = file,
           \/ pos' > pos
           \/ pos' >= pos /\ ~failed /\ failed'
           \/ pos' >= pos /\ failed' = failed /\ Rank[at'] < Rank[at]
    PROVE  Left' < Left
  <1>. DEFINE F(f) == IF f THEN 0 ELSE 3
  <1>1. PICK l, p, q, r, s, b, d :
          /\ l = Len(file.text) /\ p = pos /\ q = pos'
          /\ r = Rank[at] /\ s = Rank[at'] /\ b = F(failed) /\ d = F(failed')
    OBVIOUS
  <1>2. /\ l \in Nat /\ p \in Nat /\ q \in Nat /\ r \in 0..2 /\ s \in 0..2
        /\ b \in {0, 3} /\ d \in {0, 3}
    BY <1>1, LeftIs DEF TypeOK, Rank
  <1>3. /\ Left = 6 * (l + 1 - p) + b + r
        /\ Left' = 6 * (l + 1 - q) + d + s
    BY <1>1 DEF Left
  <1>4. \/ q > p
        \/ q >= p /\ b = 3 /\ d = 0
        \/ q >= p /\ d = b /\ s < r
    <2>1. ~failed => F(failed) = 3
      OBVIOUS
    <2>2. failed' => F(failed') = 0
      OBVIOUS
    <2>3. failed' = failed => F(failed') = F(failed)
      OBVIOUS
    <2>. HIDE DEF F
    <2>4. CASE pos' > pos
      <3>1. pos = p /\ pos' = q
        BY <1>1
      <3>2. q > p
        BY <1>2, <2>4, <3>1
      <3>. QED
        BY <3>2
    <2>5. CASE pos' >= pos /\ ~failed /\ failed'
      <3>1. b = 3 /\ d = 0
        BY <1>1, <2>1, <2>2, <2>5
      <3>2. pos = p /\ pos' = q
        BY <1>1
      <3>3. q >= p
        BY <1>2, <2>5, <3>2
      <3>. QED
        BY <3>1, <3>3
    <2>6. CASE pos' >= pos /\ failed' = failed /\ Rank[at'] < Rank[at]
      <3>1. d = b
        BY <1>1, <2>3, <2>6
      <3>. QED
        BY <1>1, <2>6, <3>1
    <2>. QED
      BY <2>4, <2>5, <2>6
  <1>5. 6 * (l + 1 - q) + d + s < 6 * (l + 1 - p) + b + r
    BY <1>2, <1>4
  <1>. QED
    BY <1>3, <1>5

LEMMA ReadingGoesOn ==
    ASSUME TypeOK, HasLetter, NEW n \in 0..5, Read(n)
    PROVE  pos' > pos
  <1>1. pos \in 1..Len(file.text) + 1 /\ Len(file.text) \in Nat
    BY FileIs DEF TypeOK
  <1>2. \/ pos' \in pos + 1..Len(file.text) + 1
        \/ pos' = Len(file.text) + 1
    BY ReadEnds
  <1>3. pos <= Len(file.text)
    <2>1. Skip(file.text, pos) \in 1..Len(file.text)
      BY FileIs, LetterIs
    <2>2. pos > Len(file.text) => Skip(file.text, pos) = Len(file.text) + 1
      BY DEF Skip
    <2>. QED
      BY <1>1, <2>1, <2>2
  <1>. QED
    BY <1>1, <1>2, <1>3

LEMMA ReadingFails ==
    ASSUME TypeOK, ~HasLetter, NEW n, Read(n)
    PROVE  failed' /\ pos' >= pos
  <1>1. pos \in 1..Len(file.text) + 1 /\ Len(file.text) \in Nat
    BY FileIs DEF TypeOK
  <1>2. failed' /\ pos' = Len(file.text) + 1
    BY DEF Read, HasNumbers
  <1>. QED
    BY <1>1, <1>2

\* Each step of ParseConnectionVector and of AddConnectionVectors goes on in
\* the text, meets the failure of the stream, or leaves one of the loops:
\* none of the loops, over comments, over ADUs and over vectors, can go on
\* forever, at the end of the text and with a failed stream neither.
THEOREM EveryStepIsProgress == Spec => Progress
  <1>1. ASSUME IInv, Next, IInv'
        PROVE  Left' < Left
    <2>1. /\ TypeOK /\ TypeOK' /\ TypeInv /\ file' = file
          /\ pos \in Nat /\ Rank[at] \in 0..2
      BY <1>1, WhichStep, LeftIs DEF IInv, TypeInv
    <2>2. CASE ReadHeader
      <3>1. PICK n \in 0..5 : Read(n)
        BY <2>2 DEF ReadHeader
      <3>. QED
        BY <2>1, <2>2, <3>1, ReadingGoesOn, LessIsLeft DEF ReadHeader
    <2>3. CASE CommentAtHeader
      <3>1. HasLetter /\ IgnoreLine
        BY <2>3 DEF CommentAtHeader
      <3>. QED
        BY <2>1, <3>1, IgnoreType, LessIsLeft
    <2>4. CASE NoHeader \/ BrokenHeader \/ BrokenAdu
      <3>1. at # "done" /\ at' = "done" /\ pos' = pos /\ failed' = failed
        BY <2>4 DEF NoHeader, BrokenHeader, BrokenAdu, ReturnFalse
      <3>2. Rank[at'] < Rank[at]
        BY <2>1, <3>1 DEF Rank, TypeOK
      <3>. QED
        BY <2>1, <3>1, <3>2, LessIsLeft
    <2>5. CASE ReadWindows \/ ReadRtt \/ ReadLoss
      <3>1. PICK n \in 0..5 : Read(n)
        BY <2>5 DEF ReadWindows, ReadRtt, ReadLoss
      <3>2. at \in {"w", "r", "l"} /\ Letter = at
        BY <2>5 DEF ReadWindows, ReadRtt, ReadLoss
      <3>3. HasLetter
        BY <2>1, <3>2, LetterIs DEF TypeInv, LastLetter
      <3>. QED
        BY <2>1, <3>1, <3>3, ReadingGoesOn, LessIsLeft
    <2>6. CASE ReadAdu
      <3>1. Read(3) /\ ~failed
        BY <2>6 DEF ReadAdu
      <3>2. CASE HasLetter
        BY <2>1, <3>1, <3>2, ReadingGoesOn, LessIsLeft
      <3>3. CASE ~HasLetter
        BY <2>1, <3>1, <3>3, ReadingFails, LessIsLeft
      <3>. QED
        BY <3>2, <3>3
    <2>7. CASE CommentAtAdu
      <3>1. IgnoreLine /\ ~failed
        BY <2>7 DEF CommentAtAdu
      <3>2. CASE HasLetter
        BY <2>1, <3>1, <3>2, IgnoreType, LessIsLeft
      <3>3. CASE ~HasLetter
        <4>1. failed' /\ pos' = Len(file.text) + 1
          BY <2>1, <3>1, <3>3, IgnoreType
        <4>2. pos' >= pos
          BY <2>1, <4>1, LeftIs
        <4>. QED
          BY <2>1, <3>1, <4>1, <4>2, LessIsLeft
      <3>. QED
        BY <3>2, <3>3
    <2>8. CASE NextHeader \/ LeaveLoop
      <3>1. /\ at = "adus" /\ at' = "header" /\ pos' = pos
            /\ failed' = failed
        BY <2>8 DEF NextHeader, LeaveLoop, ReturnTrue
      <3>2. Rank[at'] < Rank[at] /\ pos' >= pos
        BY <2>1, <3>1 DEF Rank
      <3>. QED
        BY <2>1, <3>1, <3>2, LessIsLeft
    <2>9. CASE EndOfFile
      <3>1. pos' = pos /\ ~failed /\ failed'
        BY <2>9 DEF EndOfFile
      <3>. QED
        BY <2>1, <3>1, LessIsLeft
    <2>. QED
      BY <1>1, <2>2, <2>3, <2>4, <2>5, <2>6, <2>7, <2>8, <2>9 DEF Next
  <1>2. IInv /\ IInv' /\ [Next]_vars => [Left' < Left]_vars
    BY <1>1
  <1>. QED
    BY <1>2, Invariant, PTL DEF Spec, Progress
=============================================================================

----------------------------- MODULE CvecParser -----------------------------
(***************************************************************************)
(* Reading a file of connection vectors: ParseConnectionVector of          *)
(* src/tmix/model/tmix.cc, called by AddConnectionVectors of               *)
(* src/tmix/helper/tmix-helper.cc until it returns false.                  *)
(*                                                                         *)
(* The text is a sequence of tokens: letters, numbers, ends of lines, "#"  *)
(* and anything else.  The stream has its place in the text and a mark     *)
(* that a read failed, after which every read fails; a failed read of a    *)
(* letter leaves the variable x as it was, and the code branches on x all  *)
(* the same.  A file that cannot be opened reads as the empty one.         *)
(*                                                                         *)
(* Of a vector the model has the type, the start time and the ADUs; the    *)
(* other numbers are read and forgotten, as the code does with the numbers *)
(* of exchanges.                                                           *)
(***************************************************************************)
EXTENDS Integers, SequencesExt

CONSTANTS
    Numbers,  \* the tokens that are numbers
    Files     \* [text: tokens, written: the vectors that the text was made
              \* of, marks: where their lines are in the text]

ADU == [side: {"I", "A"}, sendWait: Numbers, recvWait: Numbers, size: Numbers]

Cvec == [type: {"S", "C"}, start: Numbers, adus: Seq(ADU)]

-----------------------------------------------------------------------------
(* The stream.                                                             *)

Blank(c) == c = "\n"

\* The first place of t from p on that is not blank, or the end of t.
Skip(t, p) ==
    IF p > Len(t) THEN Len(t) + 1
    ELSE CHOOSE i \in p..Len(t) + 1 :
            /\ i <= Len(t) => ~Blank(t[i])
            /\ \A j \in p..i - 1 : Blank(t[j])

\* The places of the first tokens of t from p on that are not blank.
Words(t, p) ==
    LET w[k \in 1..7] == Skip(t, IF k = 1 THEN p ELSE w[k - 1] + 1)
    IN w

\* The end of the line of t in which p is, or the end of t.
EndOfLine(t, p) ==
    CHOOSE i \in p..Len(t) :
        /\ i < Len(t) => Blank(t[i])
        /\ \A j \in p..i - 1 : ~Blank(t[j])

-----------------------------------------------------------------------------
(* Files of connection vectors.  A vector has four lines and one for each  *)
(* ADU; a mark says that what comes next in the text is the line of a      *)
(* vector.  Blanks may be anywhere, and comments in front of a header and  *)
(* of an ADU.                                                              *)

\* The numbers behind a letter.
Needs == [S |-> 4, C |-> 5, w |-> 2, r |-> 1, l |-> 2, I |-> 3, A |-> 3]

Letters == DOMAIN Needs

\* At p there is a letter with its numbers, and behind them is the place q.
Readable(t, p, q) ==
    LET w == Words(t, p)
        n == Needs[t[w[1]]]
    IN /\ w[1] \in DOMAIN t /\ t[w[1]] \in Letters
       /\ \A k \in 2..n + 1 : w[k] \in DOMAIN t /\ t[w[k]] \in Numbers
       /\ q = w[n + 1] + 1

\* It is line j of the vector v, as DebugPrint writes it, but with numbers
\* for its placeholders, and as far as the model knows the line.
IsLine(t, p, v, j) ==
    LET word(k) == t[Words(t, p)[k]]
    IN \/ j = 1 /\ word(1) = v.type /\ word(2) = v.start
       \/ j \in 2..4 /\ word(1) = <<"w", "r", "l">>[j - 1]
       \/ j > 4 /\ v.adus[j - 4] = [side |-> word(1), sendWait |-> word(2),
                                    recvWait |-> word(3), size |-> word(4)]

MarksOf(vs) ==
    {m \in [from: Nat \ {0}, cvec: 1..Len(vs) + 1, line: Nat \ {0}] :
        IF m.cvec <= Len(vs) THEN m.line <= Len(vs[m.cvec].adus) + 4
        ELSE m.line = 1}

\* From the mark m on there is a comment, or the line of m, and then n.
Follows(f, m, n) ==
    LET t == f.text
        v == f.written[m.cvec]
    IN \/ /\ m.line \notin 2..4
          /\ Skip(t, m.from) \in DOMAIN t /\ t[Skip(t, m.from)] = "#"
          /\ n = [m EXCEPT !.from = EndOfLine(t, Skip(t, m.from)) + 1]
       \/ /\ m.cvec <= Len(f.written)
          /\ Readable(t, m.from, n.from)
          /\ IsLine(t, m.from, v, m.line)
          /\ IF m.line < Len(v.adus) + 4
             THEN n.cvec = m.cvec /\ n.line = m.line + 1
             ELSE n.cvec = m.cvec + 1 /\ n.line = 1

\* What may begin at a mark.
Begins(m) ==
    IF m.line \in 2..4 THEN {<<"w", "r", "l">>[m.line - 1]}
    ELSE {"S", "C", "#"}
           \cup (IF m.line = 1 /\ m.cvec = 1 THEN {} ELSE {"I", "A"})

\* From m on there is no line: the text ends, or something else begins, or
\* there are too few numbers or too many.
NoLine(t, m) ==
    LET p == Skip(t, m.from)
    IN p \in DOMAIN t /\ t[p] \in Begins(m) =>
         /\ t[p] # "#"
         /\ \A q \in 2..Len(t) + 1 :
              Readable(t, m.from, q) =>
                /\ Skip(t, q) \in DOMAIN t
                /\ t[Skip(t, q)] \notin Letters \cup {"#"}

\* The last mark of an undamaged text is its end; of a damaged one it is
\* the line with the damage.
ASSUME FilesAssumption ==
    /\ Numbers \subseteq STRING \ (Letters \cup {"#", "\n", "?"})
    /\ \A f \in Files :
         LET last == Len(f.marks)
         IN /\ f.text \in Seq(STRING)
            /\ f.written \in Seq(Cvec)
            /\ f.marks \in Seq(MarksOf(f.written)) /\ last > 0
            /\ f.marks[1] = [from |-> 1, cvec |-> 1, line |-> 1]
            /\ \A k \in 1..last - 1 : Follows(f, f.marks[k], f.marks[k + 1])
            /\ NoLine(f.text, f.marks[last])

-----------------------------------------------------------------------------

VARIABLES
    file,    \* the file that is read
    pos,     \* the place of the token of in that is read next
    failed,  \* in.fail()
    x,       \* the letter that was read last
    at,      \* what ParseConnectionVector reads next, "done" at the end
    cvec,    \* the vector it writes to, the same one in each call
    added    \* the vectors given to AddConnectionVector

vars == <<file, pos, failed, x, at, cvec, added>>

\* A vector without a header has neither type nor start; a start that could
\* not be read is not a number.
TypeOK ==
    /\ file \in Files
    /\ pos \in 1..Len(file.text) + 1
    /\ failed \in BOOLEAN
    /\ x \in Range(file.text) \cup {"?"}
    /\ at \in {"header", "w", "r", "l", "adus", "done"}
    /\ cvec \in [type: {"S", "C", "?"}, start: Numbers \cup {"?"},
                 adus: Seq(ADU)]
    /\ added \in Seq(Cvec)

\* Word k behind pos, 1 is the letter.
Word(k) == file.text[Words(file.text, pos)[k]]

\* in >> x: whether it succeeds, and x after it.
HasLetter == ~failed /\ Skip(file.text, pos) \in DOMAIN file.text
Letter == IF HasLetter THEN file.text[Skip(file.text, pos)] ELSE x

\* Whether n numbers can be read behind the letter.
HasNumbers(n) ==
    /\ HasLetter
    /\ \A k \in 2..n + 1 : /\ Words(file.text, pos)[k] \in DOMAIN file.text
                          /\ Word(k) \in Numbers

\* Reading the letter and n numbers.
Read(n) ==
    /\ x' = Letter
    /\ failed' = ~HasNumbers(n)
    /\ pos' = IF HasNumbers(n) THEN Words(file.text, pos)[n + 1] + 1
              ELSE Len(file.text) + 1

\* Reading the letter and ignoring the line behind it.
IgnoreLine ==
    /\ x' = Letter
    /\ failed' = ~HasLetter
    /\ pos' = IF HasLetter
              THEN EndOfLine(file.text, Skip(file.text, pos)) + 1
              ELSE Len(file.text) + 1

-----------------------------------------------------------------------------
(* ParseConnectionVector, from one read of x to the next.                  *)

\* It returns true, and AddConnectionVectors adds v and calls it again.
ReturnTrue(v) ==
    /\ added' = Append(added, v)
    /\ at' = "header"

\* It returns false, which ends AddConnectionVectors.
ReturnFalse ==
    /\ at' = "done"
    /\ UNCHANGED <<file, pos, failed, x, cvec, added>>

ReadHeader ==
    /\ at = "header"
    /\ HasLetter /\ Letter \in {"S", "C"}
    /\ Read(IF Letter = "S" THEN 4 ELSE 5)
    /\ cvec' = [cvec EXCEPT
                  !.type = Letter,
                  !.start = IF HasNumbers(1) THEN Word(2) ELSE "?"]
    /\ at' = "w"
    /\ UNCHANGED <<file, added>>

\* A comment in front of a vector: the function calls itself.
CommentAtHeader ==
    /\ at = "header"
    /\ HasLetter /\ Letter = "#"
    /\ IgnoreLine
    /\ UNCHANGED <<file, at, cvec, added>>

\* No header, at the end of the text or where a read failed before.
NoHeader ==
    /\ at = "header"
    /\ ~HasLetter \/ Letter \notin {"S", "C", "#"}
    /\ ReturnFalse

ReadWindows ==
    /\ at = "w" /\ Letter = "w"
    /\ Read(2)
    /\ at' = "r"
    /\ UNCHANGED <<file, cvec, added>>

ReadRtt ==
    /\ at = "r" /\ Letter = "r"
    /\ Read(1)
    /\ at' = "l"
    /\ UNCHANGED <<file, cvec, added>>

\* Mutated: the ADUs of the vector before are kept.
ReadLossKeeping ==
    /\ at = "l" /\ Letter = "l"
    /\ Read(2)
    /\ at' = "adus"
    /\ UNCHANGED <<file, cvec, added>>

ReadLoss ==
    /\ at = "l" /\ Letter = "l"
    /\ Read(2)
    /\ cvec' = [cvec EXCEPT !.adus = <<>>]
    /\ at' = "adus"
    /\ UNCHANGED <<file, added>>

\* Another letter than the header block has next.
BrokenHeader ==
    /\ at \in {"w", "r", "l"} /\ Letter # at
    /\ ReturnFalse

\* Mutated: an ADU is added though a read failed, with whatever it has.
ReadAduAlways ==
    LET number(k) == IF failed' THEN "?" ELSE Word(k + 1)
    IN /\ at = "adus" /\ ~failed
       /\ Letter \in {"I", "A"}
       /\ Read(3)
       /\ cvec' = [cvec EXCEPT !.adus = Append(@,
                     [side |-> Letter, sendWait |-> number(1),
                      recvWait |-> number(2), size |-> number(3)])]
       /\ UNCHANGED <<file, at, added>>

\* An ADU, which is added if all of it could be read.  At the end of the
\* text x still has the side of the ADU before.
ReadAdu ==
    /\ at = "adus" /\ ~failed
    /\ Letter \in {"I", "A"}
    /\ Read(3)
    /\ cvec' = IF failed' THEN cvec
               ELSE [cvec EXCEPT !.adus = Append(@,
                       [side |-> Letter,
                        sendWait |-> Word(2),
                        recvWait |-> Word(3),
                        size |-> Word(4)])]
    /\ UNCHANGED <<file, at, added>>

\* A comment between ADUs.  At the end of the text behind a comment x still
\* is "#".
CommentAtAdu ==
    /\ at = "adus" /\ ~failed
    /\ Letter = "#"
    /\ IgnoreLine
    /\ UNCHANGED <<file, at, cvec, added>>

\* The header of the next vector, whose letter is put back.
NextHeader ==
    /\ at = "adus" /\ ~failed
    /\ Letter \in {"S", "C"}
    /\ x' = Letter
    /\ ReturnTrue(cvec)
    /\ UNCHANGED <<file, pos, failed, cvec>>

\* The end of the text right behind the loss rates.
EndOfFile ==
    /\ at = "adus" /\ ~failed
    /\ ~HasLetter /\ Letter \notin {"I", "A", "S", "C", "#"}
    /\ failed' = TRUE
    /\ ReturnTrue(cvec)
    /\ UNCHANGED <<file, pos, x, cvec>>

\* Something else than an ADU: the vector is not added.
BrokenAdu ==
    /\ at = "adus" /\ ~failed
    /\ HasLetter /\ Letter \notin {"I", "A", "S", "C", "#"}
    /\ ReturnFalse

\* Mutated: the loop over the ADUs does not look at the stream.
LoopForever ==
    /\ at = "adus" /\ failed
    /\ UNCHANGED vars

\* The loop over the ADUs ends when a read failed, for whatever reason.
LeaveLoop ==
    /\ at = "adus" /\ failed
    /\ ReturnTrue(cvec)
    /\ UNCHANGED <<file, pos, failed, x, cvec>>

-----------------------------------------------------------------------------
(* AddConnectionVectors.                                                   *)

Init ==
    /\ file \in Files
    /\ pos = 1
    /\ failed = FALSE
    /\ x = "?"
    /\ at = "header"
    /\ cvec = [type |-> "?", start |-> "?", adus |-> <<>>]
    /\ added = <<>>

Next ==
    \/ ReadHeader \/ CommentAtHeader \/ NoHeader
    \/ ReadWindows \/ ReadRtt \/ ReadLoss \/ BrokenHeader
    \/ ReadAdu \/ CommentAtAdu \/ NextHeader
    \/ EndOfFile \/ BrokenAdu \/ LeaveLoop

\* The functions run to their end in one go.
Spec == Init /\ [][Next]_vars /\ WF_vars(Next)

-----------------------------------------------------------------------------
(* Properties.                                                             *)

\* How many vectors end in front of the damage: the last one of them ends
\* where another header begins, or with the text.
Sound(f) ==
    LET m == f.marks[Len(f.marks)]
        p == Skip(f.text, m.from)
    IN IF m.line = 1 /\ p \in DOMAIN f.text /\ f.text[p] \notin {"S", "C"}
       THEN m.cvec - 2 ELSE m.cvec - 1

\* The vectors that the text has in front of any damage, and thus all of an
\* undamaged text, are added as they were written and in their order,
\* whatever comments and blank lines are between them and between ADUs.
SoundAreAdded ==
    at = "done" =>
      /\ Len(added) >= Sound(file)
      /\ \A i \in 1..Sound(file) : added[i] = file.written[i]

\* v is w up to some ADU.
CutOff(v, w) == v.type = w.type /\ v.start = w.start
                  /\ IsPrefix(v.adus, w.adus)

\* However the text is damaged, a vector is never mixed up with another
\* one, nor is one behind the damage added: what is added are the first
\* vectors of the text, of which only the last may miss ADUs at its end.
NeverMixedUp ==
    \A i \in DOMAIN added :
      /\ i <= Len(file.written)
      /\ IF i < Len(added) THEN added[i] = file.written[i]
         ELSE CutOff(added[i], file.written[i])

\* The function that reads the file returns, whatever the file has in it.
EventuallyRead == <>(at = "done")
=============================================================================

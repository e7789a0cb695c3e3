---------------------------- MODULE MCCvecParser ----------------------------
(* Files of connection vectors for model-checking CvecParser: two vectors  *)
(* in several layouts, and with one thing wrong in the text.               *)
EXTENDS CvecParser

Digits == {"0", "1", "2", "3", "4", "5"}

Eol == <<"\n">>
Comment == <<"#", "S", "?", "\n">>

\* The lines of a vector; the numbers that the model forgets are "5".
Lines(v) ==
    << <<v.type, v.start>> \o (IF v.type = "S" THEN <<"5", "5", "5">>
                               ELSE <<"5", "5", "5", "5">>),
       <<"w", "5", "5">>, <<"r", "5">>, <<"l", "5", "5">> >>
    \o [i \in DOMAIN v.adus |->
          <<v.adus[i].side, v.adus[i].sendWait, v.adus[i].recvWait,
            v.adus[i].size>>]

\* A piece of text in front of which there is the mark of a line.
Piece(text, c, l) == [text |-> text, cvec |-> c, line |-> l]

\* What is between the lines.
Gap(layout) == CASE layout = "joined" -> <<>>
                 [] layout = "blanks" -> Eol \o Eol
                 [] OTHER -> Eol

\* A comment may follow line l of the vector c, on its own line or not.
CommentAfter(vs, c, l, layout) ==
    LET text == IF layout = "comments" THEN Eol \o Comment ELSE Comment
    IN IF layout \notin {"comments", "remarks"} \/ l < 4 THEN <<>>
       ELSE IF l < Len(Lines(vs[c])) THEN <<Piece(text, c, l + 1)>>
       ELSE <<Piece(text, c + 1, 1)>>

PiecesOf(vs, c, layout) ==
    FlattenSeq([l \in DOMAIN Lines(vs[c]) |->
        <<Piece(Gap(layout) \o Lines(vs[c])[l], c, l)>>
          \o CommentAfter(vs, c, l, layout)])

Pieces(vs, layout) ==
    (IF layout = "comments" THEN <<Piece(Comment, 1, 1)>> ELSE <<>>)
    \o FlattenSeq([c \in DOMAIN vs |-> PiecesOf(vs, c, layout)])

Join(pieces) == FlattenSeq([i \in DOMAIN pieces |-> pieces[i].text])

\* What the parser is made for, and the empty file.
Whole(vs, layout) ==
    LET pieces == Pieces(vs, layout) \o <<Piece(Eol, Len(vs) + 1, 1)>>
    IN [text    |-> Join(pieces),
        written |-> vs,
        marks   |-> [i \in DOMAIN pieces |->
                       [from |-> Len(Join(SubSeq(pieces, 1, i - 1))) + 1,
                        cvec |-> pieces[i].cvec, line |-> pieces[i].line]]]

\* A sequential vector of two ADUs, a concurrent one, one of no ADU.
Exchange == [type |-> "S", start |-> "1",
             adus |-> << [side |-> "I", sendWait |-> "0", recvWait |-> "0",
                          size |-> "3"],
                         [side |-> "A", sendWait |-> "0", recvWait |-> "2",
                          size |-> "4"] >>]
OneWay == [type |-> "C", start |-> "2",
           adus |-> << [side |-> "A", sendWait |-> "1", recvWait |-> "0",
                        size |-> "2"] >>]
NoAdus == [type |-> "S", start |-> "4", adus |-> <<>>]

Pairs == {<<v, w>> : v, w \in {Exchange, OneWay, NoAdus}}

Undamaged ==
    {Whole(vs, layout) :
        vs \in Pairs \cup {<<>>},
        layout \in {"plain", "comments", "remarks", "blanks", "joined"}}

Strays == {"S", "C", "w", "r", "l", "I", "A", "1", "?"}

\* Another number, or the other side, cannot be told from what it replaces.
Alike(c, d) == {c, d} \subseteq Digits \/ {c, d} \subseteq {"I", "A"}

\* The text t damaged at the place p: cut off, a token lost, one too many
\* or replaced, a comment in the middle of a line or of a header block.
DamagedAt(t, p) ==
    {SubSeq(t, 1, p - 1)}
    \cup {InsertAt(t, p, c) : c \in Strays}
    \cup {ReplaceAt(t, p, c) : c \in {s \in Strays : ~Alike(s, t[p])} \ {t[p]}}
    \cup (IF t[p] = "\n" THEN {} ELSE {RemoveAt(t, p)})
    \cup (IF t[p] \in {"S", "C", "I", "A", "\n"} THEN {}
          ELSE {SubSeq(t, 1, p - 1) \o Comment \o SubSeq(t, p, Len(t))})

\* Each of the three vectors damaged in front of and behind another one.
\* The marks in front of the damage stay where they are.
Damaged ==
    UNION {LET f == Whole(vs, "plain")
               marks(p) == SelectSeq(f.marks, LAMBDA m : m.from <= p)
           IN UNION {{[f EXCEPT !.text = t, !.marks = marks(p)] :
                        t \in DamagedAt(f.text, p)} : p \in DOMAIN f.text}
             : vs \in {<<Exchange, OneWay>>, <<OneWay, NoAdus>>,
                       <<NoAdus, Exchange>>}}

AllFiles == Undamaged \cup Damaged
=============================================================================

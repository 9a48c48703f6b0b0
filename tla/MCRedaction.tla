---------------------------- MODULE MCRedaction ----------------------------
(* Texts of up to three pieces of any kind, or five numbers and streets. *)
EXTENDS Redaction

\* halves of a card number and the whole of it, a phone in one piece and in
\* two, and a number that is none of them but may complete each
Numbers ==
  {<<4, 1, 1, 1, 1, 1, 1, 1>>, <<1, 1, 1, 1, 1, 1, 1, 1>>,
   <<4, 1, 1, 1, 1, 1, 1, 1, 1, 1, 1, 1, 1, 1, 1, 1>>,
   <<9, 8, 7, 6, 5, 4, 3, 2, 1, 0>>, <<9, 8, 7, 6, 5>>, <<1, 2>>}

NumberPieces == [kind : {"number"}, sep : {" ", "-", "."}, digits : Numbers, at : {0}]
PhrasePieces ==
  [kind : {"word", "email", "name", "street", "secret"}, sep : {" "}, digits : {<<>>}, at : {0}]
  \cup [kind : {"secret"}, sep : {" "}, digits : {<<1, 2, 3, 4, 5, 6, 7, 8, 9, 0>>}, at : {0}]

Placed(text) ==
  [n \in DOMAIN text |->
     [text[n] EXCEPT !.at = n, !.sep = IF n = 1 THEN "" ELSE text[n].sep]]

\* a phrase is followed by a space
WellFormed(text) ==
  \A n \in 2..Len(text) : text[n].sep # " " => text[n - 1].kind = "number"

TextsOf3 ==
  {Placed(text) :
     text \in {u \in BoundedSeq(NumberPieces \cup PhrasePieces, 3) : WellFormed(u)}}

\* card numbers in groups of four, beside a number that may push them out of
\* the window of the pattern, and streets, whose house number each may be
Groups == [kind : {"number"}, sep : {" ", "-"}, at : {0},
           digits : {<<4, 1, 1, 1>>, <<1, 1, 1, 1>>, <<1, 2>>}]
Street == [kind |-> "street", sep |-> " ", digits |-> <<>>, at |-> 0]
NumbersOf5 ==
  {Placed(text) : text \in {u \in BoundedSeq(Groups \cup {Street}, 5) : WellFormed(u)}}

AllTexts == TextsOf3 \cup NumbersOf5

=============================================================================

----------------------------- MODULE Redaction -----------------------------
(***************************************************************************)
(* guardrails/pii.py: what of a message reaches the prompt and the history *)
(* (mask_input), and what of an answer reaches the client and the history  *)
(* (scan_output), as engine/turn.py calls them.                            *)
(*                                                                         *)
(* A text is a sequence of pieces: numbers, kept digit by digit with the   *)
(* character before them, since the patterns for phones, cards and         *)
(* addresses read on across separators; and phrases, which stand between   *)
(* spaces and begin in lower case.  A street is two words, the second a    *)
(* type of street: an address is a street with the numbers before it, so a *)
(* house number is a number like any other.  Every other phrase is wholly  *)
(* matched by one pattern or by none, and never part of an address: it has *)
(* more words, or other characters, than one may have.                     *)
(***************************************************************************)
EXTENDS Integers, Sequences, SequencesExt, FiniteSetsExt

CONSTANTS
  Texts,          \* the texts that are sent or answered
  ProfileRedacts, \* settings.guardrails, redact_pii of the business channel
  None            \* Python's None

Phrases == {"word", "email", "name", "street", "secret"}
\* what a phrase or a number may become
Hidden == {"[EMAIL]", "[PHONE]", "[NAME]", "[ADDRESS]",
           "em***il", "phone*", "card*", "[SECRET]", "broken secret"}
Separators == {"", " ", "-", "."}

\* `at' is where the piece stood in the original text.  The digits of a secret
\* are a run of digits in the middle of it, those of what is hidden the ones
\* that still show.
Piece == [kind : {"number"} \cup Phrases \cup Hidden, sep : Separators,
          digits : Seq(0..9), at : Nat]

ASSUME RedactionAssumption ==
  /\ ProfileRedacts \in BOOLEAN /\ None \notin BOOLEAN
  /\ Texts \subseteq Seq(Piece)
  /\ \A text \in Texts : \A n \in DOMAIN text :
       /\ text[n].kind \notin Hidden
       /\ text[n].at = n
       /\ text[n].kind = "number" => text[n].digits # <<>>
       /\ text[n].kind \in Phrases => text[n].sep \in {"", " "}
       /\ n > 1 /\ text[n].sep # " " => text[n - 1].kind = "number"
       /\ text[n].sep = "" <=> n = 1

VARIABLES
  heard,   \* the text as it was sent, or as the model answered it
  asker,   \* whose message it is: the channel and the redact_pii option
  seen,    \* what is made of it
  stage    \* "raw", then "stored" for a message, "shown" for an answer

vars == <<heard, asker, seen, stage>>

-----------------------------------------------------------------------------
(* Regular expressions over pieces *)

Digits(text, i, j) == FlattenSeq([k \in 1..(j - i + 1) |-> text[i + k - 1].digits])

\* the pieces i to j are numbers, joined by separators of the pattern
Joined(text, i, j, seps) ==
  /\ \A k \in i..j : text[k].kind = "number"
  /\ \A k \in (i + 1)..j : text[k].sep \in seps

\* mutant of Longest: the pattern is lazy
Shortest(text, n, seps, least, most) ==
  LET ends == {m \in n..Len(text) :
                 Joined(text, n, m, seps) /\ Len(Digits(text, n, m)) \in least..most}
  IN  IF ends = {} THEN 0 ELSE Min(ends)

\* where the greedy match from n ends, at the end of a number; 0 if none does
Longest(text, n, seps, least, most) ==
  LET ends == {m \in n..Len(text) :
                 Joined(text, n, m, seps) /\ Len(Digits(text, n, m)) \in least..most}
  IN  IF ends = {} THEN 0 ELSE Max(ends)

\* mutant of Sub: matches may overlap
SubOverlapping(text, end, new) ==
  LET from[n \in 1..(Len(text) + 1)] ==
        IF n > Len(text) THEN <<>>
        ELSE (IF end[n] = 0 THEN <<text[n]>> ELSE new[n]) \o from[n + 1]
  IN  from[1]

\* re.sub: matches from left to right that do not overlap, each replaced; a
\* match from n ends at end[n], if that is not 0, and becomes new[n]
Sub(text, end, new) ==
  LET from[n \in 1..(Len(text) + 1)] ==
        IF n > Len(text) THEN <<>>
        ELSE IF end[n] = 0 THEN <<text[n]>> \o from[n + 1]
        ELSE new[n] \o from[end[n] + 1]
  IN  from[1]

Matched(end) == {n \in DOMAIN end : end[n] # 0}

-----------------------------------------------------------------------------
(* Phrases and addresses *)

\* phrases of one kind, replaced
SubPhrase(text, kind, new) ==
  [n \in DOMAIN text |-> IF text[n].kind = kind THEN [text[n] EXCEPT !.kind = new] ELSE text[n]]

\* how many words the pieces n to m are: a number behind a dash or a point goes
\* on with the word before it
Words(text, n, m) ==
  Cardinality({k \in n..m : text[k].kind = "number" /\ text[k].sep = " "})
  + 2 * Cardinality({k \in n..m : text[k].kind = "street"})

\* a house number: a word of up to six digits
HouseNumber(text, n) ==
  /\ text[n].kind = "number" /\ Len(text[n].digits) <= 6
  /\ n < Len(text) /\ text[n + 1].sep = " "

\* where the addresses with that house number may end: at a type of street,
\* after one to four words
StreetsOf(text, n) ==
  {m \in (n + 1)..Len(text) :
     /\ text[m].kind = "street" /\ Words(text, n + 1, m) <= 5
     /\ \A k \in (n + 1)..m : text[k].kind \in {"number", "street"}}

\* mutant of AddressEnd: like a phone, an address does not begin after a dash
AddressEndNoDash(text, n) ==
  IF HouseNumber(text, n) /\ text[n].sep # "-" /\ StreetsOf(text, n) # {}
    THEN Max(StreetsOf(text, n)) ELSE 0

\* _ADDRESS_PATTERN, greedy
AddressEnd(text, n) ==
  IF HouseNumber(text, n) /\ StreetsOf(text, n) # {} THEN Max(StreetsOf(text, n)) ELSE 0

AddressEnds(text) == [n \in DOMAIN text |-> AddressEnd(text, n)]
WithoutAddresses(text) ==
  LET end == AddressEnds(text)
  IN  Sub(text, end, [n \in Matched(end) |->
                        <<[text[n] EXCEPT !.kind = "[ADDRESS]", !.digits = <<>>]>>])

-----------------------------------------------------------------------------
(* Phones and cards *)

PhoneSeparators == {" ", "-", "."}
CardSeparators == {" ", "-"}

\* _PHONE_PATTERN, which does not begin after a dash it can see: a chunk of
\* scan_output begins after the separator a card-shaped run took with it
PhoneEnd(text, n) ==
  CASE text[n].kind = "secret" -> IF Len(text[n].digits) \in 10..12 THEN n ELSE 0
    [] text[n].sep = "-" /\ text[n - 1].kind \notin {"card*", "kept"} -> 0
    [] OTHER -> Longest(text, n, PhoneSeparators, 10, 12)

AsPhone(text, n, m) ==
  IF text[n].kind = "secret" THEN <<[text[n] EXCEPT !.kind = "broken secret"]>>
  ELSE <<[text[n] EXCEPT !.kind = "[PHONE]", !.digits = <<>>]>>

\* _mask_phone: the first and the last two of the last ten digits
AsPartialPhone(text, n, m) ==
  LET ds == Digits(text, n, m)
      national == SubSeq(ds, Len(ds) - 9, Len(ds))
  IN  IF text[n].kind = "secret" THEN AsPhone(text, n, m)
      ELSE <<[text[n] EXCEPT !.kind = "phone*",
                !.digits = SubSeq(national, 1, 2) \o SubSeq(national, 9, 10)]>>

Sum(ds) ==
  LET upto[n \in 0..Len(ds)] == IF n = 0 THEN 0 ELSE upto[n - 1] + ds[n]
  IN  upto[Len(ds)]

LuhnValid(ds) ==
  Sum([n \in DOMAIN ds |->
    IF (Len(ds) - n) % 2 = 0 THEN ds[n]
    ELSE IF 2 * ds[n] > 9 THEN 2 * ds[n] - 9 ELSE 2 * ds[n]]) % 10 = 0

CardEnd(text, n) == Longest(text, n, CardSeparators, 13, 16)

\* mutant of AsCard: what is no card is left to the later patterns
AsCardOnly(text, n, m) ==
  LET ds == Digits(text, n, m) IN
  IF LuhnValid(ds)
    THEN <<[text[n] EXCEPT !.kind = "card*", !.digits = SubSeq(ds, Len(ds) - 3, Len(ds))]>>
    ELSE SubSeq(text, n, m)

\* _mask_credit_card, or left as it is; walled off from the rest either way
AsCard(text, n, m) ==
  LET ds == Digits(text, n, m) IN
  IF LuhnValid(ds)
    THEN <<[text[n] EXCEPT !.kind = "card*", !.digits = SubSeq(ds, Len(ds) - 3, Len(ds))]>>
    ELSE [k \in 1..(m - n + 1) |-> [text[n + k - 1] EXCEPT !.kind = "kept"]]

\* a match takes a separator behind it along, which a masked card loses
Glued(text) ==
  [n \in DOMAIN text |->
     IF n > 1 /\ text[n - 1].kind = "card*" /\ text[n].sep \in CardSeparators
       THEN [text[n] EXCEPT !.sep = ""] ELSE text[n]]

PhoneEnds(text) == [n \in DOMAIN text |-> PhoneEnd(text, n)]
WithoutPhones(text) ==
  LET end == PhoneEnds(text)
  IN  Sub(text, end, [n \in Matched(end) |-> AsPhone(text, n, end[n])])
WithPartialPhones(text) ==
  LET end == PhoneEnds(text)
  IN  Sub(text, end, [n \in Matched(end) |-> AsPartialPhone(text, n, end[n])])
WithoutCards(text) ==
  LET end == [n \in DOMAIN text |-> CardEnd(text, n)]
  IN  Sub(text, end, [n \in Matched(end) |-> AsCard(text, n, end[n])])

-----------------------------------------------------------------------------
(* mask_input and scan_output *)

MaskInput(text) ==
  LET noEmail   == SubPhrase(text, "email", "[EMAIL]")
      noPhone   == WithoutPhones(noEmail)
      noAddress == WithoutAddresses(noPhone)
  IN  SubPhrase(noAddress, "name", "[NAME]")

\* mutant of ScanOutput: phones are looked for before cards
ScanPhonesFirst(text) ==
  LET noEmail == SubPhrase(text, "email", "em***il")
      noPhone == WithPartialPhones(noEmail)
      noCard  == Glued(WithoutCards(noPhone))
  IN  SubPhrase(SubPhrase(noCard, "kept", "number"), "secret", "[SECRET]")

ScanOutput(text) ==
  LET noCard  == WithoutCards(text)
      noEmail == SubPhrase(noCard, "email", "em***il")
      noPhone == WithPartialPhones(noEmail)
  IN  SubPhrase(SubPhrase(Glued(noPhone), "kept", "number"), "secret", "[SECRET]")

Customer == [channel |-> "customer", option |-> None]
Asker == {Customer} \cup
         [channel : {"business"}, option : BOOLEAN \cup {None}]

\* _should_redact
ShouldRedact(a) ==
  a.channel = "customer" \/ (IF a.option # None THEN a.option ELSE ProfileRedacts)

\* the message, as it is screened, prompted and remembered
Store(a) ==
  /\ stage = "raw"
  /\ asker' = a
  /\ seen' = IF ShouldRedact(a) THEN MaskInput(heard) ELSE heard
  /\ stage' = "stored"
  /\ UNCHANGED heard

\* the answer of the model, as it is shown and remembered
Show ==
  /\ stage = "raw"
  /\ seen' = ScanOutput(heard)
  /\ stage' = "shown"
  /\ UNCHANGED <<heard, asker>>

Init ==
  /\ heard \in Texts
  /\ asker = Customer
  /\ seen = heard
  /\ stage = "raw"

Next == Show \/ \E a \in Asker : Store(a)

Spec == Init /\ [][Next]_vars

-----------------------------------------------------------------------------
(* What must hold *)

TypeOK ==
  /\ \A n \in DOMAIN heard : heard[n] \in Piece
  /\ asker \in Asker
  /\ \A n \in DOMAIN seen : seen[n] \in Piece
  /\ \A n \in 1..(Len(seen) - 1) : seen[n].at < seen[n + 1].at
  /\ stage \in {"raw", "stored", "shown"}

\* The numbers i to j belong together, and nothing joins them to another.
Whole(i, j, seps) ==
  /\ Joined(heard, i, j, seps)
  /\ i > 1 => ~Joined(heard, i - 1, i, seps)
  /\ j < Len(heard) => ~Joined(heard, j, j + 1, seps)

Stretches(seps, least, most) ==
  {s \in (DOMAIN heard) \X (DOMAIN heard) :
     /\ s[1] <= s[2] /\ Whole(s[1], s[2], seps)
     /\ Len(Digits(heard, s[1], s[2])) \in least..most}

\* what was made of the pieces of a stretch
Made(s) == {n \in DOMAIN seen : seen[n].at \in s[1]..s[2]}
Untouched(s) ==
  /\ Cardinality(Made(s)) = s[2] - s[1] + 1
  /\ \A n \in Made(s) : \E k \in s[1]..s[2] :
       seen[n].kind = "number" /\ seen[n].at = k /\ seen[n].digits = heard[k].digits

\* The checksum by its table: the digits of twice a digit, added up.
Doubled == <<0, 2, 4, 6, 8, 1, 3, 5, 7, 9>>
IsCard(ds) ==
  LET value == [k \in DOMAIN ds |->
                  LET d == ds[Len(ds) + 1 - k] IN IF k % 2 = 0 THEN Doubled[d + 1] ELSE d]
  IN  \E q \in 0..15 : MapThenSumSet(LAMBDA k : value[k], DOMAIN ds) = 10 * q

\* A card number that nothing joins to another number, however it is grouped,
\* shows only its last four digits in an answer (scan_output).  A number that
\* follows a space or a dash is joined to it, a house number too: the pattern
\* reads on (_OUTPUT_PATTERNS), and such a run is not what this speaks of.
CardHidden ==
  stage = "shown" =>
    \A s \in Stretches(CardSeparators, 13, 16) :
      LET ds == Digits(heard, s[1], s[2]) IN
      IsCard(ds) => \A n \in Made(s) :
        /\ Cardinality(Made(s)) = 1
        /\ seen[n].digits = SubSeq(ds, Len(ds) - 3, Len(ds))

Masked == asker.channel = "customer" \/ asker.option = TRUE

\* A phone number that nothing joins to another number, be it the house number
\* of an address that follows, is never stored, and never shown but for four
\* digits, unless a business caller turned masking off.
PhoneHidden ==
  stage = "shown" \/ (stage = "stored" /\ Masked) =>
    \A s \in Stretches(PhoneSeparators, 10, 12) :
      heard[s[1]].sep # "-" =>
        /\ Cardinality(Made(s)) = 1
        /\ \A n \in Made(s) : Len(seen[n].digits) <= 4

\* a street follows, whose house number the last number of the stretch may be
BeforeStreet(s) == s[2] < Len(heard) /\ heard[s[2] + 1].kind = "street"

\* A street and its house number are never stored, whatever numbers are before
\* the house number and whatever addresses beside it, unless they make a phone
\* together or a business caller turned masking off (_ADDRESS_PATTERN).
AddressHidden ==
  stage = "stored" /\ Masked =>
    \A s \in Stretches(PhoneSeparators, 1, 9) :
      BeforeStreet(s) /\ Len(heard[s[2]].digits) <= 6 =>
        \A n \in DOMAIN seen :
          seen[n].at \in {s[2], s[2] + 1} => seen[n].kind = "[ADDRESS]"

\* What is none of these stays whole: an order id as long as a card in an answer,
\* no part of which is taken for a phone, and what is too short for a phone,
\* prices and quantities, but for a message in which a street follows; and so
\* does everything if the caller may and did turn masking off (mask_input,
\* scan_output, _should_redact).
OthersUntouched ==
  /\ stage = "shown" =>
       \A s \in Stretches(CardSeparators, 13, 16) :
         ~IsCard(Digits(heard, s[1], s[2])) => Untouched(s)
  /\ \A s \in Stretches(PhoneSeparators, 1, 9) :
       ~(stage = "stored" /\ BeforeStreet(s)) => Untouched(s)
  /\ stage = "stored" /\ asker.channel = "business" /\ asker.option = FALSE => seen = heard

=============================================================================

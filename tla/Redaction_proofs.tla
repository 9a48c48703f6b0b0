-------------------------- MODULE Redaction_proofs --------------------------
(***************************************************************************)
(* Proofs about Redaction: its type invariant and its four safety          *)
(* properties, for every set of texts.                                     *)
(*                                                                         *)
(* What is seen is computed from what was heard in one step, so the state  *)
(* invariant (Computed) is short, and the work is in what re.sub computes: *)
(* a pass is a function by recursion on the place in the text, of which    *)
(* the lemmas show that it types, that it keeps the order of the pieces    *)
(* (SubType), and that it puts what becomes of the pieces i to j between   *)
(* what was before i and what was behind j, provided no match crosses      *)
(* either end (SubBlock).  A run of numbers that nothing joins to another  *)
(* number is such a block for every pattern (RunClear): it is matched as a *)
(* whole if its length is in range (RunHit), and not at all if it is too   *)
(* short (RunShort).  A house number before a street is taken by a match   *)
(* that begins at it or by one that goes on over it (HouseHidden), and so  *)
(* the pass for addresses is a block of its own.  The rest composes the    *)
(* passes of scan_output and of mask_input, and shows that the checksum of *)
(* the code is the one of the table (LuhnIsCard).                          *)
(***************************************************************************)
EXTENDS Redaction, FoldTheorems

\* A piece on its way: one that is walled off is marked until the end.
WorkPiece == [kind : {"number", "kept"} \cup Phrases \cup Hidden, sep : Separators,
              digits : Seq(0..9), at : Nat]

\* The pieces of a text, and their fields, have their types.
LEMMA PieceType ==
  ASSUME NEW s, s \in Seq(WorkPiece)
  PROVE  \A x \in 1..Len(s) :
           s[x] \in WorkPiece /\ s[x].at \in Nat /\ s[x].digits \in Seq(0..9)
<1> SUFFICES ASSUME NEW x \in 1..Len(s)
             PROVE  s[x] \in WorkPiece /\ s[x].at \in Nat /\ s[x].digits \in Seq(0..9)
  OBVIOUS
<1>1. s[x] \in WorkPiece  OBVIOUS
<1>2. QED  BY <1>1 DEF WorkPiece

-----------------------------------------------------------------------------
(* The digits of a run of pieces                                           *)

\* c counts the digits of a text up to each of its pieces.
Counts(c, text) ==
  /\ c \in [0..Len(text) -> Nat]
  /\ \A k \in 1..Len(text) : c[k] = c[k - 1] + Len(text[k].digits)

\* Every text has such counts.
LEMMA CountsExist ==
  ASSUME NEW text, text \in Seq(WorkPiece)  PROVE  \E c : Counts(c, text)
<1> DEFINE n == Len(text)
           F == [p \in Nat \X (1..n) |-> p[1] + Len(text[p[2]].digits)]
<1>1. n \in Nat  OBVIOUS
<1>2. \A k \in 1..n : Len(text[k].digits) \in Nat
  <2> SUFFICES ASSUME NEW k \in 1..n  PROVE Len(text[k].digits) \in Nat  OBVIOUS
  <2>1. text[k] \in WorkPiece  OBVIOUS
  <2>2. text[k].digits \in Seq(0..9)  BY <2>1 DEF WorkPiece
  <2>3. QED  BY <2>2
<1>3. F \in [Nat \X (1..n) -> Nat]  BY <1>2
<1>4. \A m \in Nat : \A k \in 1..n : F[<<m, k>>] = m + Len(text[k].digits)  OBVIOUS
<1> HIDE DEF F, n
<1>5. PICK c \in [0..n -> Nat] : Iterates(c, n, 0, F)  BY <1>1, <1>3, IterationExists
<1>6. ASSUME NEW k \in 1..n  PROVE c[k] = c[k - 1] + Len(text[k].digits)
  <2>1. k - 1 \in 0..n  BY <1>1
  <2>2. c[k - 1] \in Nat  BY <2>1
  <2>3. c[k] = F[<<c[k - 1], k>>]  BY <1>5 DEF Iterates
  <2>4. QED  BY <1>4, <2>2, <2>3
<1>7. QED  BY <1>6 DEF Counts, n

\* The function that FlattenSeq computes.
Flattening(g, f, m, S) ==
  \A k \in 1..m : g[k] \in Seq(S) /\ g[k] = IF k = 1 THEN f[k] ELSE g[k - 1] \o f[k]

\* It exists, so FlattenSeq can be unfolded one element at a time.
LEMMA Flattened ==
  ASSUME NEW S, NEW m \in Nat, m # 0, NEW f, f \in [1..m -> Seq(S)]
  PROVE  \E g : FlattenSeq(f) = g[m] /\ Flattening(g, f, m, S)
<1> DEFINE F == [p \in Seq(S) \X (1..m) |-> p[1] \o f[p[2]]]
           Body(g) == [k \in 1..m |-> IF k = 1 THEN f[k] ELSE g[k - 1] \o f[k]]
<1>1. PICK h \in [0..m -> Seq(S)] : Iterates(h, m, <<>>, F)
  <2>1. F \in [Seq(S) \X (1..m) -> Seq(S)]  OBVIOUS
  <2>2. <<>> \in Seq(S)  OBVIOUS
  <2> HIDE DEF F
  <2>3. QED  BY <2>1, <2>2, IterationExists
<1>2. ASSUME NEW k \in 1..m  PROVE h[k - 1] \in Seq(S) /\ f[k] \in Seq(S) /\ h[k] = h[k - 1] \o f[k]
  <2>1. k - 1 \in 0..m  OBVIOUS
  <2>2. h[k - 1] \in Seq(S)  BY <2>1
  <2>3. h[k] = F[<<h[k - 1], k>>]  BY <1>1 DEF Iterates
  <2>4. QED  BY <2>2, <2>3
<1>3. h[1] = f[1]
  <2>1. h[0] = <<>> /\ 1 \in 1..m /\ 1 - 1 = 0  BY <1>1 DEF Iterates
  <2>2. h[1] = <<>> \o f[1] /\ f[1] \in Seq(S)  BY <1>2, <2>1
  <2>3. QED  BY <2>2
<1> DEFINE h1 == [k \in 1..m |-> h[k]]
<1>4. h1 = Body(h1)
  <2>1. ASSUME NEW k \in 1..m  PROVE h1[k] = Body(h1)[k]
    <3>1. CASE k = 1  BY <1>3, <3>1
    <3>2. CASE k # 1
      <4>1. k - 1 \in 1..m  BY <3>2
      <4>2. h1[k - 1] = h[k - 1]  BY <4>1
      <4>3. QED  BY <1>2, <3>2, <4>2
    <3>3. QED  BY <3>1, <3>2
  <2>2. QED  BY <2>1
<1> DEFINE g == CHOOSE g : g = Body(g)
<1>5. g = Body(g)
  <2> HIDE DEF h1
  <2>1. QED  BY <1>4
<1>6. FlattenSeq(f) = g[m]
  <2>1. Len(f) = m  OBVIOUS
  <2>2. QED  BY <2>1 DEF FlattenSeq
<1> HIDE DEF g
<1>7. \A k \in 1..m : g[k] = IF k = 1 THEN f[k] ELSE g[k - 1] \o f[k]  BY <1>5
<1>8. \A k \in 1..m : g[k] \in Seq(S)
  <2> DEFINE U == {k \in Nat : k \in 1..m => g[k] \in Seq(S)}
  <2>1. 0 \in U  OBVIOUS
  <2>2. ASSUME NEW k \in Nat, k \in U  PROVE k + 1 \in U
    <3> SUFFICES ASSUME k + 1 \in 1..m  PROVE g[k + 1] \in Seq(S)  OBVIOUS
    <3>1. g[k + 1] = IF k + 1 = 1 THEN f[k + 1] ELSE g[(k + 1) - 1] \o f[k + 1]  BY <1>7
    <3>2. f[k + 1] \in Seq(S)  OBVIOUS
    <3>3. CASE k = 0  BY <3>1, <3>2, <3>3
    <3>4. CASE k # 0
      <4>1. k \in 1..m /\ (k + 1) - 1 = k /\ k + 1 # 1  BY <3>4
      <4>2. g[k] \in Seq(S)  BY <2>2, <4>1
      <4>3. g[k + 1] = g[k] \o f[k + 1]  BY <3>1, <4>1
      <4>4. QED  BY <3>2, <4>2, <4>3
    <3>5. QED  BY <3>3, <3>4
  <2>3. Nat \subseteq U
    <3> HIDE DEF U
    <3>1. QED  BY <2>1, <2>2, Induction
  <2>4. QED  BY <2>3
<1>9. QED  BY <1>6, <1>7, <1>8 DEF Flattening

\* So the length of a run is the difference of two counts.
LEMMA DigitsLength ==
  ASSUME NEW text, text \in Seq(WorkPiece), NEW c, Counts(c, text),
         NEW i \in 1..Len(text), NEW j \in i..Len(text)
  PROVE  Digits(text, i, j) \in Seq(0..9) /\ Len(Digits(text, i, j)) = c[j] - c[i - 1]
<1> DEFINE m == j - i + 1
           f == [k \in 1..m |-> text[i + k - 1].digits]
<1>1. m \in Nat /\ m # 0  OBVIOUS
<1>2. \A k \in 1..m : i + k - 1 \in 1..Len(text) /\ text[i + k - 1].digits \in Seq(0..9)
  <2> SUFFICES ASSUME NEW k \in 1..m
               PROVE i + k - 1 \in 1..Len(text) /\ text[i + k - 1].digits \in Seq(0..9)
    OBVIOUS
  <2>1. i + k - 1 \in 1..Len(text)  OBVIOUS
  <2>2. text[i + k - 1] \in WorkPiece  BY <2>1
  <2>3. QED  BY <2>1, <2>2 DEF WorkPiece
<1>3. f \in [1..m -> Seq(0..9)]  BY <1>2
<1>4. PICK g : /\ FlattenSeq(f) = g[m]
               /\ \A k \in 1..m : g[k] \in Seq(0..9) /\ g[k] = IF k = 1 THEN f[k] ELSE g[k - 1] \o f[k]
  <2> DEFINE S == 0..9
  <2>1. f \in [1..m -> Seq(S)]  BY <1>3
  <2> HIDE DEF f, m, S
  <2>2. \E g : FlattenSeq(f) = g[m] /\ Flattening(g, f, m, S)  BY <1>1, <2>1, Flattened
  <2>3. QED  BY <2>2 DEF S, Flattening
<1>5. Digits(text, i, j) = g[m]  BY <1>4 DEF Digits
<1>6. \A k \in 1..m : f[k] = text[i + k - 1].digits  OBVIOUS
<1> DEFINE U == {k \in Nat : k \in 1..m => Len(g[k]) = c[i + k - 1] - c[i - 1]}
<1>7. 0 \in U  OBVIOUS
<1>8. ASSUME NEW k \in Nat, k \in U  PROVE k + 1 \in U
  <2> SUFFICES ASSUME k + 1 \in 1..m  PROVE Len(g[k + 1]) = c[i + (k + 1) - 1] - c[i - 1]
    OBVIOUS
  <2>1. i + k \in 1..Len(text) /\ i + (k + 1) - 1 = i + k /\ (i + k) - 1 = i + k - 1
        /\ i - 1 \in 0..Len(text) /\ i + k - 1 \in 0..Len(text) /\ i + k \in 0..Len(text)
    OBVIOUS
  <2>2. f[k + 1] = text[i + k].digits /\ text[i + k].digits \in Seq(0..9)  BY <1>2, <1>6, <2>1
  <2>3. c[i + k] = c[i + k - 1] + Len(text[i + k].digits)  BY <2>1 DEF Counts
  <2>4. c[i - 1] \in Nat /\ c[i + k - 1] \in Nat /\ c[i + k] \in Nat  BY <2>1 DEF Counts
  <2>5. Len(text[i + k].digits) \in Nat  BY <2>2
  <2>6. CASE k = 0
    <3>1. g[k + 1] = text[i + k].digits  BY <1>4, <2>2, <2>6
    <3>2. i + k - 1 = i - 1  BY <2>6
    <3>3. QED  BY <2>1, <2>3, <2>4, <2>5, <3>1, <3>2
  <2>7. CASE k # 0
    <3>1. k \in 1..m /\ (k + 1) - 1 = k /\ k + 1 # 1  BY <2>7
    <3>2. g[k + 1] = g[k] \o text[i + k].digits /\ g[k] \in Seq(0..9)  BY <1>4, <2>2, <3>1
    <3>3. Len(g[k + 1]) = Len(g[k]) + Len(text[i + k].digits)  BY <2>2, <3>2
    <3>4. Len(g[k]) = c[i + k - 1] - c[i - 1]  BY <1>8, <3>1
    <3>5. Len(g[k + 1]) = c[i + k] - c[i - 1]
      <4> DEFINE x == Len(text[i + k].digits)
                 y == c[i + k - 1]
                 z == c[i - 1]
      <4>1. x \in Nat /\ y \in Nat /\ z \in Nat /\ Len(g[k + 1]) = (y - z) + x /\ c[i + k] = y + x
        BY <2>3, <2>4, <2>5, <3>3, <3>4
      <4> HIDE DEF x, y, z
      <4>2. Len(g[k + 1]) = (y + x) - z  BY <4>1
      <4>3. QED  BY <4>1, <4>2 DEF z
    <3>6. QED  BY <2>1, <3>5
  <2>8. QED  BY <2>6, <2>7
<1>9. m \in 1..m /\ i + m - 1 = j  OBVIOUS
<1>10. m \in U
  <2> HIDE DEF U, m, f
  <2>1. Nat \subseteq U  BY <1>7, <1>8, Induction
  <2>2. QED  BY <1>1, <2>1
<1>11. Len(g[m]) = c[j] - c[i - 1]  BY <1>9, <1>10
<1>12. g[m] \in Seq(0..9)  BY <1>4, <1>9
<1> HIDE DEF m, f, U
<1>13. QED  BY <1>5, <1>11, <1>12

\* Part of a run has no more digits than the whole.
LEMMA DigitsMonotone ==
  ASSUME NEW text, text \in Seq(WorkPiece), NEW i \in 1..Len(text), NEW j \in i..Len(text),
         NEW k \in i..j, NEW m \in k..j
  PROVE  /\ Len(Digits(text, i, j)) \in Nat /\ Len(Digits(text, k, m)) \in Nat
         /\ Len(Digits(text, k, m)) <= Len(Digits(text, i, j))
<1>1. PICK c : Counts(c, text)  BY CountsExist
<1> DEFINE L == Len(text)
<1>2. L \in Nat /\ k \in 1..L /\ m \in k..L  OBVIOUS
<1>3. \A x \in 1..L : Len(text[x].digits) \in Nat
  <2> SUFFICES ASSUME NEW x \in 1..L  PROVE Len(text[x].digits) \in Nat  OBVIOUS
  <2>1. text[x] \in WorkPiece  OBVIOUS
  <2>2. text[x].digits \in Seq(0..9)  BY <2>1 DEF WorkPiece
  <2>3. QED  BY <2>2
<1>4. \A x \in 0..L : c[x] \in Nat  BY <1>1 DEF Counts
<1>5. \A x \in 1..L : c[x - 1] <= c[x]
  <2> SUFFICES ASSUME NEW x \in 1..L  PROVE c[x - 1] <= c[x]  OBVIOUS
  <2>1. x - 1 \in 0..L /\ c[x] = c[x - 1] + Len(text[x].digits)  BY <1>1, <1>2 DEF Counts
  <2>2. QED  BY <1>3, <1>4, <2>1
<1>6. ASSUME NEW a \in 0..L  PROVE \A b \in a..L : c[a] <= c[b]
  <2> DEFINE U == {d \in Nat : a + d <= L => c[a] <= c[a + d]}
  <2>1. 0 \in U  BY <1>4
  <2>2. ASSUME NEW d \in Nat, d \in U  PROVE d + 1 \in U
    <3> SUFFICES ASSUME a + (d + 1) <= L  PROVE c[a] <= c[a + (d + 1)]  OBVIOUS
    <3>1. /\ a + d + 1 \in 1..L /\ (a + d + 1) - 1 = a + d /\ a + (d + 1) = a + d + 1
          /\ a + d <= L /\ a + d \in 0..L /\ a + d + 1 \in 0..L
      BY <1>2
    <3>2. c[a + d] <= c[a + d + 1]  BY <1>5, <3>1
    <3>3. c[a] <= c[a + d]  BY <2>2, <3>1
    <3>4. c[a] \in Nat /\ c[a + d] \in Nat /\ c[a + d + 1] \in Nat  BY <1>4, <3>1
    <3>5. QED  BY <3>1, <3>2, <3>3, <3>4
  <2>3. Nat \subseteq U
    <3> HIDE DEF U
    <3>1. QED  BY <2>1, <2>2, Induction
  <2>4. SUFFICES ASSUME NEW b \in a..L  PROVE c[a] <= c[b]  OBVIOUS
  <2>5. b - a \in Nat /\ a + (b - a) = b /\ b <= L  BY <1>2
  <2>6. QED  BY <2>3, <2>5
<1> HIDE DEF L
<1>7. Len(Digits(text, i, j)) = c[j] - c[i - 1] /\ Digits(text, i, j) \in Seq(0..9)
  BY <1>1, DigitsLength
<1>8. Len(Digits(text, k, m)) = c[m] - c[k - 1] /\ Digits(text, k, m) \in Seq(0..9)
  BY <1>1, <1>2, DigitsLength DEF L
<1>9. i - 1 \in 0..L /\ k - 1 \in (i - 1)..L /\ m \in 0..L /\ j \in m..L /\ k - 1 \in 0..L /\ j \in 0..L
  BY <1>2 DEF L
<1>10. c[i - 1] <= c[k - 1] /\ c[m] <= c[j]  BY <1>6, <1>9
<1>11. c[i - 1] \in Nat /\ c[k - 1] \in Nat /\ c[m] \in Nat /\ c[j] \in Nat  BY <1>4, <1>9
<1>12. Len(Digits(text, i, j)) \in Nat /\ Len(Digits(text, k, m)) \in Nat  BY <1>7, <1>8
<1> DEFINE all == Len(Digits(text, i, j))
           some == Len(Digits(text, k, m))
<1>13. all = c[j] - c[i - 1] /\ some = c[m] - c[k - 1]  BY <1>7, <1>8
<1>14. all \in Nat /\ some \in Nat  BY <1>12
<1> HIDE DEF all, some
<1>15. some <= all  BY <1>10, <1>11, <1>13
<1>16. QED  BY <1>14, <1>15 DEF all, some

-----------------------------------------------------------------------------
(* Where the matches of a pass end                                         *)

Matches(text, n, m, seps, least, most) ==
  /\ m \in n..Len(text) /\ Joined(text, n, m, seps)
  /\ Len(Digits(text, n, m)) \in least..most

\* Longest is a match or 0, the last match if there is one.
LEMMA LongestIs ==
  ASSUME NEW text, text \in Seq(WorkPiece), NEW n \in 1..Len(text),
         NEW seps, NEW least, NEW most
  PROVE  LET l == Longest(text, n, seps, least, most) IN
         /\ l = 0 \/ Matches(text, n, l, seps, least, most)
         /\ \A j : /\ Matches(text, n, j, seps, least, most)
                   /\ \A m : Matches(text, n, m, seps, least, most) => m <= j
                   => l = j
         /\ (\A m : ~Matches(text, n, m, seps, least, most)) => l = 0
<1> DEFINE l == Longest(text, n, seps, least, most)
           ends == {m \in n..Len(text) :
                      Joined(text, n, m, seps) /\ Len(Digits(text, n, m)) \in least..most}
<1>1. l = IF ends = {} THEN 0 ELSE Max(ends)  BY DEF Longest
<1>2. \A m : m \in ends <=> Matches(text, n, m, seps, least, most)  BY DEF Matches
<1>3. ends \in SUBSET (1..Len(text)) /\ Len(text) \in Nat  OBVIOUS
<1> HIDE DEF ends, l
<1>4. ends # {} => Max(ends) \in ends  BY <1>3, MaxOfSome
<1>5. ASSUME NEW j \in ends, \A m \in ends : m <= j  PROVE Max(ends) = j
  <2>1. \A m \in ends : m \in Nat /\ j >= m
    <3>1. \A m \in ends : m \in 1..Len(text)  BY <1>3
    <3>2. QED  BY <1>5, <3>1
  <2>2. ASSUME NEW x \in ends, \A y \in ends : x >= y  PROVE x = j
    <3>1. x >= j /\ j >= x /\ x \in Nat /\ j \in Nat  BY <2>1, <2>2
    <3>2. QED  BY <3>1
  <2>3. QED  BY <2>1, <2>2 DEF Max
<1>6. l = 0 \/ l \in ends  BY <1>1, <1>4
<1>7. ASSUME NEW j \in ends, \A m \in ends : m <= j  PROVE l = j  BY <1>1, <1>5, <1>7
<1>8. ends = {} => l = 0  BY <1>1
<1>9. QED  BY <1>2, <1>6, <1>7, <1>8 DEF l

\* What a pass over a text takes: runs that its pattern matches, and secrets.
Ends(text, end, seps, least, most) ==
  \A n \in 1..Len(text) :
    \/ end[n] = 0
    \/ Matches(text, n, end[n], seps, least, most)
    \/ text[n].kind = "secret" /\ end[n] = n

\* The pass for cards takes nothing but runs of 13 to 16 digits.
LEMMA CardEnds ==
  ASSUME NEW text, text \in Seq(WorkPiece)
  PROVE  Ends(text, [n \in DOMAIN text |-> CardEnd(text, n)], CardSeparators, 13, 16)
<1> SUFFICES ASSUME NEW n \in 1..Len(text)
             PROVE  CardEnd(text, n) = 0
                      \/ Matches(text, n, CardEnd(text, n), CardSeparators, 13, 16)
  <2>1. DOMAIN text = 1..Len(text)  OBVIOUS
  <2>2. QED  BY <2>1 DEF Ends
<1>1. QED  BY LongestIs DEF CardEnd

\* The pass for phones takes runs of 10 to 12 digits, and secrets.
LEMMA PhoneEndsEnd ==
  ASSUME NEW text, text \in Seq(WorkPiece)
  PROVE  Ends(text, PhoneEnds(text), PhoneSeparators, 10, 12)
<1> SUFFICES ASSUME NEW n \in 1..Len(text)
             PROVE  \/ PhoneEnd(text, n) = 0
                    \/ Matches(text, n, PhoneEnd(text, n), PhoneSeparators, 10, 12)
                    \/ text[n].kind = "secret" /\ PhoneEnd(text, n) = n
  <2>1. DOMAIN text = 1..Len(text)  OBVIOUS
  <2>2. QED  BY <2>1 DEF Ends, PhoneEnds
<1>1. CASE text[n].kind = "secret"  BY <1>1 DEF PhoneEnd
<1>2. CASE text[n].kind # "secret" /\ text[n].sep = "-" /\ text[n - 1].kind \notin {"card*", "kept"}
  BY <1>2 DEF PhoneEnd
<1>3. CASE text[n].kind # "secret" /\ ~(text[n].sep = "-" /\ text[n - 1].kind \notin {"card*", "kept"})
  <2>1. PhoneEnd(text, n) = Longest(text, n, PhoneSeparators, 10, 12)  BY <1>3 DEF PhoneEnd
  <2>2. QED  BY <2>1, LongestIs
<1>4. QED  BY <1>1, <1>2, <1>3

\* Nothing joins the pieces i to j to another number.
Apart(text, i, j, seps) ==
  /\ i > 1 => text[i - 1].kind # "number" \/ text[i].sep \notin seps
  /\ j < Len(text) => text[j + 1].kind # "number" \/ text[j + 1].sep \notin seps

\* A match from before n ends before n.
Clear(end, n) == \A k \in 1..(n - 1) : end[k] < n

\* Such a run is matched within, by any pattern with no other separators.
LEMMA RunClear ==
  ASSUME NEW text, text \in Seq(WorkPiece), NEW end, NEW seps, NEW least, NEW most,
         Ends(text, end, seps, least, most),
         NEW i \in 1..Len(text), NEW j \in i..Len(text), NEW wider, seps \subseteq wider,
         Joined(text, i, j, wider), Apart(text, i, j, wider)
  PROVE  /\ Clear(end, i)
         /\ \A k \in i..j : end[k] = 0 \/ (Matches(text, k, end[k], seps, least, most) /\ end[k] \in k..j)
<1> DEFINE L == Len(text)
<1>0. L \in Nat /\ i \in 1..L /\ j \in i..L  OBVIOUS
<1>1. \A x \in i..j : text[x].kind = "number"  BY DEF Joined
<1> HIDE DEF L
<1>2. ASSUME NEW k \in 1..(i - 1)  PROVE end[k] < i
  <2>0. k \in 1..L  BY <1>0
  <2>1. CASE end[k] = 0  BY <1>0, <2>1
  <2>2. CASE text[k].kind = "secret" /\ end[k] = k  BY <1>0, <2>2
  <2>3. CASE Matches(text, k, end[k], seps, least, most)
    <3> SUFFICES ASSUME ~(end[k] < i)  PROVE FALSE  OBVIOUS
    <3>1. end[k] \in k..L /\ Joined(text, k, end[k], seps)  BY <2>3 DEF Matches, L
    <3>2. i - 1 \in k..end[k] /\ i \in (k + 1)..end[k] /\ i > 1  BY <1>0, <3>1
    <3>3. text[i - 1].kind = "number" /\ text[i].sep \in seps  BY <3>1, <3>2 DEF Joined
    <3>4. QED  BY <3>2, <3>3 DEF Apart
  <2>4. QED  BY <2>0, <2>1, <2>2, <2>3 DEF Ends, L
<1>3. ASSUME NEW k \in i..j
      PROVE end[k] = 0 \/ (Matches(text, k, end[k], seps, least, most) /\ end[k] \in k..j)
  <2>0. k \in 1..L  BY <1>0
  <2>1. CASE end[k] = 0  BY <2>1
  <2>2. text[k].kind # "secret"  BY <1>1
  <2>3. CASE Matches(text, k, end[k], seps, least, most)
    <3> SUFFICES ASSUME ~(end[k] <= j)  PROVE FALSE
      BY <1>0, <2>3 DEF Matches, L
    <3>1. end[k] \in k..L /\ Joined(text, k, end[k], seps)  BY <2>3 DEF Matches, L
    <3>2. j + 1 \in k..end[k] /\ j + 1 \in (k + 1)..end[k] /\ j < L  BY <1>0, <3>1
    <3>3. text[j + 1].kind = "number" /\ text[j + 1].sep \in seps  BY <3>1, <3>2 DEF Joined
    <3>4. QED  BY <3>2, <3>3 DEF Apart, L
  <2>4. QED  BY <2>0, <2>1, <2>2, <2>3 DEF Ends, L
<1>4. Clear(end, i)  BY <1>2 DEF Clear
<1>5. QED  BY <1>3, <1>4

\* No match begins from i to j.
Unmatched(end, i, j) == \A k \in i..j : end[k] = 0

\* A run with too few digits is not matched at all.
LEMMA RunShort ==
  ASSUME NEW text, text \in Seq(WorkPiece), NEW end, NEW seps, NEW least \in Nat, NEW most \in Nat,
         Ends(text, end, seps, least, most),
         NEW i \in 1..Len(text), NEW j \in i..Len(text), NEW wider, seps \subseteq wider,
         Joined(text, i, j, wider), Apart(text, i, j, wider), Len(Digits(text, i, j)) < least
  PROVE  Unmatched(end, i, j)
<1> SUFFICES ASSUME NEW k \in i..j, end[k] # 0  PROVE FALSE  BY DEF Unmatched
<1>1. Matches(text, k, end[k], seps, least, most) /\ end[k] \in k..j  BY RunClear
<1>2. /\ Len(Digits(text, i, j)) \in Nat /\ Len(Digits(text, k, end[k])) \in Nat
      /\ Len(Digits(text, k, end[k])) <= Len(Digits(text, i, j))
  <2> DEFINE m == end[k]
  <2>1. m \in k..j  BY <1>1
  <2> HIDE DEF m
  <2>2. /\ Len(Digits(text, i, j)) \in Nat /\ Len(Digits(text, k, m)) \in Nat
        /\ Len(Digits(text, k, m)) <= Len(Digits(text, i, j))
    BY <2>1, DigitsMonotone
  <2>3. QED  BY <2>2 DEF m
<1>3. Len(Digits(text, k, end[k])) \in least..most  BY <1>1 DEF Matches
<1>4. QED  BY <1>2, <1>3

\* What is neither a number nor a secret is not matched.
NoNumbers(text, i, j) == \A k \in i..j : text[k].kind \notin {"number", "secret"}

\* So no match begins there, nor comes from before it.
LEMMA HiddenClear ==
  ASSUME NEW text, text \in Seq(WorkPiece), NEW end, NEW seps, NEW least, NEW most,
         Ends(text, end, seps, least, most),
         NEW i \in 1..Len(text), NEW j \in i..Len(text),
         NoNumbers(text, i, j)
  PROVE  Clear(end, i) /\ Unmatched(end, i, j)
<1> DEFINE L == Len(text)
<1>0. L \in Nat /\ i \in 1..L /\ j \in i..L  OBVIOUS
<1>a. \A k \in i..j : text[k].kind \notin {"number", "secret"}  BY DEF NoNumbers
<1>1. ASSUME NEW k \in i..j  PROVE end[k] = 0
  <2>1. k \in k..end[k] \/ ~(end[k] \in k..L)  BY <1>0
  <2>2. k \in 1..L  BY <1>0
  <2>3. ~Matches(text, k, end[k], seps, least, most)  BY <1>a, <2>1 DEF Matches, Joined
  <2>4. QED  BY <1>a, <2>2, <2>3 DEF Ends
<1> HIDE DEF L
<1>2. ASSUME NEW k \in 1..(i - 1)  PROVE end[k] < i
  <2>0. k \in 1..L  BY <1>0
  <2>1. CASE end[k] = 0  BY <1>0, <2>1
  <2>2. CASE text[k].kind = "secret" /\ end[k] = k  BY <1>0, <2>2
  <2>3. CASE Matches(text, k, end[k], seps, least, most)
    <3> SUFFICES ASSUME ~(end[k] < i)  PROVE FALSE  OBVIOUS
    <3>1. end[k] \in k..L /\ Joined(text, k, end[k], seps)  BY <2>3 DEF Matches, L
    <3>2. i \in k..end[k] /\ i \in i..j  BY <1>0, <3>1
    <3>3. text[i].kind = "number"  BY <3>1, <3>2 DEF Joined
    <3>4. QED  BY <1>a, <3>2, <3>3
  <2>4. QED  BY <2>0, <2>1, <2>2, <2>3 DEF Ends, L
<1>4. Clear(end, i)  BY <1>2 DEF Clear
<1>5. QED  BY <1>1, <1>4 DEF Unmatched

-----------------------------------------------------------------------------
(* What re.sub makes of a text                                             *)

\* The pieces stand in the order of the original text.
Ordered(s) == \A n \in 1..Len(s) : \A m \in 1..(n - 1) : s[m].at < s[n].at

\* A replacement is made of pieces that are no part of an address, where the match
\* was.
Covers(p, text, n, m) ==
  /\ p \in Seq(WorkPiece) /\ p # <<>> /\ Ordered(p)
  /\ \A x \in 1..Len(p) :
       p[x].kind \notin {"number", "street"} /\ text[n].at <= p[x].at /\ p[x].at <= text[m].at

Replaces(text, end, new) ==
  \A n \in 1..Len(text) :
    end[n] = 0 \/ (end[n] \in n..Len(text) /\ Covers(new[n], text, n, end[n]))

\* from holds what becomes of the text from each of its pieces on.
Rest(from, text, end, new, n) ==
  IF n > Len(text) THEN <<>>
  ELSE IF end[n] = 0 THEN <<text[n]>> \o from[n + 1]
  ELSE new[n] \o from[end[n] + 1]
Computes(from, text, end, new) ==
  \A n \in 1..(Len(text) + 1) :
    from[n] \in Seq(WorkPiece) /\ from[n] = Rest(from, text, end, new, n)

\* One step of it keeps the type.
LEMMA RestType ==
  ASSUME NEW text, text \in Seq(WorkPiece), NEW end, NEW new, Replaces(text, end, new),
         NEW n \in 1..(Len(text) + 1), NEW from,
         \A k \in 1..(Len(text) + 1) : k > n => from[k] \in Seq(WorkPiece)
  PROVE  Rest(from, text, end, new, n) \in Seq(WorkPiece)
<1>1. CASE n > Len(text)  BY <1>1 DEF Rest
<1>2. CASE ~(n > Len(text)) /\ end[n] = 0
  <2>1. n \in 1..Len(text) /\ n + 1 \in 1..(Len(text) + 1) /\ n + 1 > n  BY <1>2
  <2>2. text[n] \in WorkPiece /\ from[n + 1] \in Seq(WorkPiece)  BY <2>1
  <2>3. QED  BY <1>2, <2>2 DEF Rest
<1>3. CASE ~(n > Len(text)) /\ end[n] # 0
  <2>1. n \in 1..Len(text)  BY <1>3
  <2>2. end[n] \in n..Len(text) /\ new[n] \in Seq(WorkPiece)
    BY <1>3, <2>1 DEF Replaces, Covers
  <2>3. end[n] + 1 \in 1..(Len(text) + 1) /\ end[n] + 1 > n  BY <2>2
  <2>4. from[end[n] + 1] \in Seq(WorkPiece)  BY <2>3
  <2>5. QED  BY <1>3, <2>2, <2>4 DEF Rest
<1>4. QED  BY <1>1, <1>2, <1>3

\* It looks only ahead.
LEMMA RestAgrees ==
  ASSUME NEW text, text \in Seq(WorkPiece), NEW end, NEW new, Replaces(text, end, new),
         NEW n \in 1..(Len(text) + 1), NEW f1, NEW f2,
         \A k \in 1..(Len(text) + 1) : k > n => f1[k] = f2[k]
  PROVE  Rest(f1, text, end, new, n) = Rest(f2, text, end, new, n)
<1>1. CASE n > Len(text)  BY <1>1 DEF Rest
<1>2. CASE ~(n > Len(text)) /\ end[n] = 0
  <2>1. n + 1 \in 1..(Len(text) + 1) /\ n + 1 > n  BY <1>2
  <2>2. QED  BY <1>2, <2>1 DEF Rest
<1>3. CASE ~(n > Len(text)) /\ end[n] # 0
  <2>1. n \in 1..Len(text)  BY <1>3
  <2>2. end[n] \in n..Len(text)  BY <1>3, <2>1 DEF Replaces
  <2>3. end[n] + 1 \in 1..(Len(text) + 1) /\ end[n] + 1 > n  BY <2>2
  <2>4. QED  BY <1>3, <2>3 DEF Rest
<1>4. QED  BY <1>1, <1>2, <1>3

\* Sub is computed by such a function.
LEMMA SubComputed ==
  ASSUME NEW text, text \in Seq(WorkPiece), NEW end, NEW new, Replaces(text, end, new)
  PROVE  \E from : Sub(text, end, new) = from[1] /\ Computes(from, text, end, new)
<1> DEFINE L == Len(text)
           Upto(g, m) == \A n \in 1..(L + 1) :
             n > L + 1 - m => g[n] \in Seq(WorkPiece) /\ g[n] = Rest(g, text, end, new, n)
           U == {m \in Nat : m <= L + 1 => \E g : Upto(g, m)}
<1>0. L \in Nat /\ L = Len(text)  OBVIOUS
<1> HIDE DEF L
<1>1. 0 \in U
  <2>1. \A n \in 1..(L + 1) : ~(n > L + 1 - 0)  BY <1>0
  <2>2. QED  BY <2>1
<1>2. ASSUME NEW m \in Nat, m \in U  PROVE m + 1 \in U
  <2> SUFFICES ASSUME m + 1 <= L + 1  PROVE \E g : Upto(g, m + 1)  OBVIOUS
  <2>1. PICK g : Upto(g, m)
    <3>1. m <= L + 1  BY <1>0
    <3>2. QED  BY <1>2, <3>1
  <2> DEFINE k == L + 1 - m
             h == [n \in 1..(L + 1) |-> IF n = k THEN Rest(g, text, end, new, k) ELSE g[n]]
  <2>2. k \in 1..(L + 1) /\ \A n \in 1..(L + 1) : n > L + 1 - (m + 1) => n = k \/ n > k
    BY <1>0
  <2>3. \A n \in 1..(L + 1) : n > k => g[n] \in Seq(WorkPiece) /\ g[n] = Rest(g, text, end, new, n)
    BY <2>1
  <2> HIDE DEF k, U
  <2>4. h[k] = Rest(g, text, end, new, k)  BY <2>2
  <2>5. \A n \in 1..(L + 1) : n > k => h[n] = g[n]
    <3>1. \A n \in 1..(L + 1) : n > k => n # k  BY <2>2, <1>0
    <3>2. QED  BY <3>1
  <2> HIDE DEF h
  <2>6. h[k] \in Seq(WorkPiece)
    <3>1. Rest(g, text, end, new, k) \in Seq(WorkPiece)
      BY <1>0, <2>2, <2>3, RestType
    <3>2. QED  BY <2>4, <3>1
  <2>7. ASSUME NEW n \in 1..(L + 1), n = k \/ n > k
        PROVE  Rest(h, text, end, new, n) = Rest(g, text, end, new, n)
    <3>1. \A l \in 1..(L + 1) : l > n => h[l] = g[l]
      <4>1. \A l \in 1..(L + 1) : l > n => l > k  BY <1>0, <2>2, <2>7
      <4>2. QED  BY <2>5, <4>1
    <3>2. QED  BY <1>0, <3>1, RestAgrees
  <2>8. ASSUME NEW n \in 1..(L + 1), n > L + 1 - (m + 1)
        PROVE  h[n] \in Seq(WorkPiece) /\ h[n] = Rest(h, text, end, new, n)
    <3>1. n = k \/ n > k  BY <2>2, <2>8
    <3>2. Rest(h, text, end, new, n) = Rest(g, text, end, new, n)  BY <2>7, <3>1
    <3>3. CASE n = k  BY <2>4, <2>6, <3>2, <3>3
    <3>4. CASE n > k  BY <2>3, <2>5, <3>2, <3>4
    <3>5. QED  BY <3>1, <3>3, <3>4
  <2>9. QED  BY <2>8
<1>3. PICK h : Upto(h, L + 1)
  <2>1. L + 1 \in U
    <3> HIDE DEF U
    <3>1. Nat \subseteq U  BY <1>1, <1>2, Induction
    <3>2. QED  BY <1>0, <3>1
  <2>2. QED  BY <1>0, <2>1
<1>4. \A n \in 1..(L + 1) : h[n] \in Seq(WorkPiece) /\ h[n] = Rest(h, text, end, new, n)
  <2>1. \A n \in 1..(L + 1) : n > L + 1 - (L + 1)  BY <1>0
  <2>2. QED  BY <1>3, <2>1
<1> DEFINE Body(g) == [n \in 1..(L + 1) |->
             IF n > L THEN <<>>
             ELSE IF end[n] = 0 THEN <<text[n]>> \o g[n + 1]
             ELSE new[n] \o g[end[n] + 1]]
           h1 == [n \in 1..(L + 1) |-> h[n]]
<1>5. h1 = Body(h1)
  <2>1. ASSUME NEW n \in 1..(L + 1)  PROVE Body(h1)[n] = h1[n]
    <3>1. Body(h1)[n] = Rest(h1, text, end, new, n)  BY <1>0 DEF Rest
    <3>2. \A k \in 1..(L + 1) : k > n => h1[k] = h[k]  OBVIOUS
    <3>3. h1[n] = Rest(h, text, end, new, n)  BY <1>4
    <3> HIDE DEF h1, Body
    <3>4. Rest(h1, text, end, new, n) = Rest(h, text, end, new, n)
      BY <1>0, <3>2, RestAgrees
    <3>5. QED  BY <3>1, <3>3, <3>4
  <2>2. QED  BY <2>1
<1> DEFINE from == CHOOSE g : g = Body(g)
<1>6. from = Body(from)
  <2> HIDE DEF h1
  <2>1. QED  BY <1>5
<1>7. Sub(text, end, new) = from[1]  BY DEF Sub, L
<1> HIDE DEF from
<1>8. \A n \in 1..(L + 1) : from[n] = Rest(from, text, end, new, n)
  <2>1. SUFFICES ASSUME NEW n \in 1..(L + 1)  PROVE from[n] = Rest(from, text, end, new, n)
    OBVIOUS
  <2>2. from[n] = Body(from)[n]  BY <1>6
  <2>3. Body(from)[n] = Rest(from, text, end, new, n)  BY <1>0 DEF Rest
  <2>4. QED  BY <2>2, <2>3
<1> DEFINE T == {n \in 1..(L + 1) : from[n] \in Seq(WorkPiece)}
<1>9. ASSUME NEW n \in 1..(L + 1), \A k \in (n + 1)..(L + 1) : k \in T  PROVE n \in T
  <2>1. \A k \in 1..(L + 1) : k > n => k \in (n + 1)..(L + 1)  BY <1>0
  <2>2. \A k \in 1..(L + 1) : k > n => from[k] \in Seq(WorkPiece)  BY <1>9, <2>1
  <2>3. Rest(from, text, end, new, n) \in Seq(WorkPiece)  BY <1>0, <2>2, RestType
  <2>4. QED  BY <1>8, <2>3
<1>10. 1..(L + 1) \subseteq T
  <2> HIDE DEF T
  <2>1. L + 1 \in Nat  BY <1>0
  <2>2. QED  BY <1>9, <2>1, Downward
<1>11. Computes(from, text, end, new)  BY <1>0, <1>8, <1>10 DEF Computes
<1>12. QED  BY <1>7, <1>11

\* What is left from the piece n on: in order, and led by that piece or by what
\* replaces it.
Tails(s, text, n) ==
  /\ s \in Seq(WorkPiece) /\ Ordered(s)
  /\ n > Len(text) => s = <<>>
  /\ n <= Len(text) =>
       /\ s # <<>> /\ (s[1] = text[n] \/ s[1].kind \notin {"number", "street"})
       /\ \A x \in 1..Len(s) : text[n].at <= s[x].at

\* Two ordered sequences make one, if the first is older than the second.
LEMMA OrderedJoin ==
  ASSUME NEW p, p \in Seq(WorkPiece), Ordered(p), NEW q, q \in Seq(WorkPiece), Ordered(q),
         \A x \in 1..Len(p) : \A y \in 1..Len(q) : p[x].at < q[y].at
  PROVE  Ordered(p \o q)
<1> DEFINE s == p \o q
           a == Len(p)
<1>1. /\ a \in Nat /\ Len(q) \in Nat /\ Len(s) = a + Len(q)
      /\ \A x \in 1..Len(s) : s[x] = IF x <= a THEN p[x] ELSE q[x - a]
  OBVIOUS
<1> HIDE DEF s
<1>2. ASSUME NEW n \in 1..Len(s), NEW m \in 1..(n - 1)  PROVE s[m].at < s[n].at
  <2>1. m \in 1..Len(s)  BY <1>1
  <2>2. CASE n <= a
    <3>1. s[n] = p[n] /\ s[m] = p[m] /\ n \in 1..Len(p)  BY <1>1, <2>1, <2>2
    <3>2. QED  BY <3>1 DEF Ordered
  <2>3. CASE ~(n <= a) /\ m <= a
    <3>1. s[n] = q[n - a] /\ s[m] = p[m] /\ n - a \in 1..Len(q) /\ m \in 1..Len(p)
      BY <1>1, <2>1, <2>3
    <3>2. QED  BY <3>1
  <2>4. CASE ~(n <= a) /\ ~(m <= a)
    <3>1. /\ s[n] = q[n - a] /\ s[m] = q[m - a]
          /\ n - a \in 1..Len(q) /\ m - a \in 1..((n - a) - 1)
      BY <1>1, <2>1, <2>4
    <3>2. QED  BY <3>1 DEF Ordered
  <2>5. QED  BY <2>2, <2>3, <2>4
<1>3. QED  BY <1>2 DEF Ordered, s

\* One replacement, or a piece that stays, before what is left behind it.
LEMMA TailsJoin ==
  ASSUME NEW text, text \in Seq(WorkPiece), Ordered(text),
         NEW n \in 1..Len(text), NEW m \in n..Len(text),
         NEW p, p \in Seq(WorkPiece), p # <<>>, Ordered(p),
         p[1] = text[n] \/ p[1].kind \notin {"number", "street"},
         \A x \in 1..Len(p) : text[n].at <= p[x].at /\ p[x].at <= text[m].at,
         NEW s, Tails(s, text, m + 1)
  PROVE  Tails(p \o s, text, n)
<1> DEFINE L == Len(text)
<1>0. /\ L \in Nat /\ n \in 1..L /\ m \in n..L
      /\ \A k \in 1..L : text[k].at \in Nat
  BY PieceType
<1>1. s \in Seq(WorkPiece) /\ Ordered(s)  BY DEF Tails
<1>2. \A x \in 1..Len(p) : p[x].at \in Nat  BY PieceType
<1>3. \A x \in 1..Len(s) : s[x].at \in Nat  BY <1>1, PieceType
<1> HIDE DEF L
<1>4. CASE m < L
  <2>1. m + 1 \in 1..L /\ m \in 1..((m + 1) - 1) /\ m \in 1..L  BY <1>0, <1>4
  <2>2. text[m].at < text[m + 1].at  BY <2>1 DEF Ordered, L
  <2>3. \A x \in 1..Len(s) : text[m + 1].at <= s[x].at
    BY <2>1 DEF Tails, L
  <2>4. ASSUME NEW x \in 1..Len(p), NEW y \in 1..Len(s)  PROVE p[x].at < s[y].at
    <3>1. p[x].at <= text[m].at /\ text[m + 1].at <= s[y].at  BY <2>3
    <3>2. p[x].at \in Nat /\ s[y].at \in Nat /\ text[m].at \in Nat /\ text[m + 1].at \in Nat
      BY <1>0, <1>2, <1>3, <2>1
    <3> DEFINE u == p[x].at
               v == text[m].at
               w == text[m + 1].at
               z == s[y].at
    <3>3. u <= v /\ v < w /\ w <= z /\ u \in Nat /\ v \in Nat /\ w \in Nat /\ z \in Nat
      BY <2>2, <3>1, <3>2
    <3> HIDE DEF u, v, w, z
    <3>4. u < z  BY <3>3
    <3>5. QED  BY <3>4 DEF u, z
  <2>5. Ordered(p \o s)  BY <1>1, <2>4, OrderedJoin
  <2>6. n <= m /\ m \in Nat /\ n \in Nat  BY <1>0
  <2>7. \A y \in 1..Len(s) : text[n].at <= s[y].at
    <3> SUFFICES ASSUME NEW y \in 1..Len(s)  PROVE text[n].at <= s[y].at  OBVIOUS
    <3>1. 1 \in 1..Len(p)  OBVIOUS
    <3>2. text[n].at <= p[1].at /\ p[1].at < s[y].at  BY <2>4, <3>1
    <3>3. p[1].at \in Nat /\ text[n].at \in Nat /\ s[y].at \in Nat  BY <1>0, <1>2, <1>3, <3>1
    <3>4. QED  BY <3>2, <3>3
  <2>8. QED
    <3> DEFINE t == p \o s
    <3>1. /\ t \in Seq(WorkPiece) /\ t # <<>> /\ t[1] = p[1]
          /\ \A x \in 1..Len(t) : IF x <= Len(p) THEN x \in 1..Len(p) /\ t[x] = p[x]
                                  ELSE x - Len(p) \in 1..Len(s) /\ t[x] = s[x - Len(p)]
      BY <1>1
    <3> HIDE DEF t
    <3>2. \A x \in 1..Len(t) : text[n].at <= t[x].at  BY <2>7, <3>1
    <3>3. Ordered(t)  BY <2>5 DEF t
    <3>4. n <= Len(text) /\ ~(n > Len(text))  OBVIOUS
    <3>5. Tails(t, text, n)  BY <3>1, <3>2, <3>3, <3>4 DEF Tails
    <3>6. QED  BY <3>5 DEF t
<1>5. CASE ~(m < L)
  <2>1. m + 1 > Len(text)  BY <1>0, <1>5 DEF L
  <2>2. s = <<>>  BY <2>1 DEF Tails
  <2>3. p \o s = p  BY <2>2
  <2>4. n <= Len(text) /\ ~(n > Len(text))  OBVIOUS
  <2>5. Tails(p, text, n)  BY <2>4 DEF Tails
  <2>6. QED  BY <2>3, <2>5
<1>6. QED  BY <1>4, <1>5

\* What becomes of the text from n on is ordered, and no older than piece n.
LEMMA SubTails ==
  ASSUME NEW text, text \in Seq(WorkPiece), Ordered(text), NEW end, NEW new,
         Replaces(text, end, new), NEW from, Computes(from, text, end, new)
  PROVE  \A n \in 1..(Len(text) + 1) : Tails(from[n], text, n)
<1> DEFINE L == Len(text)
           T == {n \in 1..(L + 1) : Tails(from[n], text, n)}
<1>0. L \in Nat /\ L = Len(text)  OBVIOUS
<1> HIDE DEF L
<1>1. ASSUME NEW n \in 1..(L + 1), \A k \in (n + 1)..(L + 1) : k \in T  PROVE n \in T
  <2>1. from[n] = Rest(from, text, end, new, n) /\ from[n] \in Seq(WorkPiece)
    BY <1>0 DEF Computes
  <2>2. CASE n > L
    <3>1. from[n] = <<>> /\ ~(n <= L) /\ Len(<<>>) = 0  BY <1>0, <2>1, <2>2 DEF Rest
    <3>2. Ordered(<<>>)
      <4>1. \A k \in 1..Len(<<>>) : FALSE  OBVIOUS
      <4>2. QED  BY <4>1 DEF Ordered
    <3>3. QED  BY <1>0, <2>1, <3>1, <3>2 DEF Tails
  <2>3. CASE ~(n > L) /\ end[n] = 0
    <3>1. n \in 1..L /\ n \in n..L /\ n + 1 \in (n + 1)..(L + 1)  BY <1>0, <2>3
    <3>2. Tails(from[n + 1], text, n + 1)  BY <1>1, <3>1
    <3>3. text[n] \in WorkPiece  BY <1>0, <3>1
    <3> DEFINE p == <<text[n]>>
    <3>4. p \in Seq(WorkPiece) /\ p # <<>> /\ Len(p) = 1 /\ p[1] = text[n]
      BY <3>3
    <3>5. from[n] = p \o from[n + 1]  BY <1>0, <2>1, <2>3 DEF Rest
    <3> HIDE DEF p
    <3>6. Ordered(p)
      <4>1. \A k \in 1..Len(p) : \A l \in 1..(k - 1) : FALSE  BY <3>4
      <4>2. QED  BY <4>1 DEF Ordered
    <3>7. \A x \in 1..Len(p) : text[n].at <= p[x].at /\ p[x].at <= text[n].at
      <4>1. \A x \in 1..Len(p) : x = 1  BY <3>4
      <4>2. text[n].at \in Nat  BY <3>3 DEF WorkPiece
      <4>3. QED  BY <3>4, <4>1, <4>2
    <3>8. Tails(p \o from[n + 1], text, n)
      BY <1>0, <3>1, <3>2, <3>4, <3>6, <3>7, TailsJoin
    <3>9. QED  BY <3>5, <3>8
  <2>4. CASE ~(n > L) /\ end[n] # 0
    <3>1. n \in 1..L  BY <1>0, <2>4
    <3> DEFINE m == end[n]
               p == new[n]
    <3>2. m \in n..L /\ Covers(p, text, n, m)  BY <1>0, <2>4, <3>1 DEF Replaces
    <3>3. from[n] = p \o from[m + 1]  BY <1>0, <2>1, <2>4 DEF Rest
    <3> HIDE DEF m, p
    <3>4. m + 1 \in (n + 1)..(L + 1)  BY <1>0, <3>1, <3>2
    <3>5. Tails(from[m + 1], text, m + 1)  BY <1>1, <3>4
    <3>6. p \in Seq(WorkPiece) /\ p # <<>> /\ Ordered(p) /\ p[1].kind \notin {"number", "street"}
      <4>1. p \in Seq(WorkPiece) /\ p # <<>> /\ Ordered(p)  BY <3>2 DEF Covers
      <4>2. 1 \in 1..Len(p)  BY <4>1
      <4>3. QED  BY <3>2, <4>1, <4>2 DEF Covers
    <3>7. \A x \in 1..Len(p) : text[n].at <= p[x].at /\ p[x].at <= text[m].at
      BY <3>2 DEF Covers
    <3>8. Tails(p \o from[m + 1], text, n)
      BY <1>0, <3>1, <3>2, <3>5, <3>6, <3>7, TailsJoin
    <3>9. QED  BY <3>3, <3>8
  <2>5. QED  BY <2>2, <2>3, <2>4
<1>2. 1..(L + 1) \subseteq T
  <2> HIDE DEF T
  <2>1. L + 1 \in Nat  BY <1>0
  <2>2. QED  BY <1>1, <2>1, Downward
<1>3. QED  BY <1>0, <1>2

\* The pieces before i are older than lo, those from j on are younger than hi.
Before(s, i, lo) == \A k \in 1..(i - 1) : s[k].at < lo
After(s, j, hi) == \A k \in j..Len(s) : s[k].at > hi

\* What becomes of the pieces n to i - 1, if no match from there reaches i: it is
\* older than lo, and ends with the last of them or with what replaces it.
Heads(p, text, n, i, lo) ==
  /\ p \in Seq(WorkPiece) /\ \A x \in 1..Len(p) : p[x].at < lo
  /\ n = i => p = <<>>
  /\ n < i => p # <<>> /\ (p[Len(p)] = text[i - 1] \/ p[Len(p)].kind \notin {"number", "street"})

\* One step of it: what is put before a head makes a head from further left.
LEMMA HeadsJoin ==
  ASSUME NEW text, text \in Seq(WorkPiece), NEW i \in 1..(Len(text) + 1),
         NEW n \in 1..(i - 1), NEW m \in n..(i - 1), NEW lo \in Nat,
         NEW p, p \in Seq(WorkPiece), p # <<>>, \A x \in 1..Len(p) : p[x].at < lo,
         p[Len(p)] = text[m] \/ p[Len(p)].kind \notin {"number", "street"},
         NEW q, Heads(q, text, m + 1, i, lo)
  PROVE  Heads(p \o q, text, n, i, lo)
<1> DEFINE t == p \o q
<1>1. q \in Seq(WorkPiece) /\ \A x \in 1..Len(q) : q[x].at < lo  BY DEF Heads
<1>2. /\ t \in Seq(WorkPiece) /\ t # <<>> /\ Len(t) = Len(p) + Len(q)
      /\ Len(p) \in Nat \ {0} /\ Len(q) \in Nat
      /\ \A x \in 1..Len(t) : IF x <= Len(p) THEN x \in 1..Len(p) /\ t[x] = p[x]
                              ELSE x - Len(p) \in 1..Len(q) /\ t[x] = q[x - Len(p)]
  BY <1>1
<1> HIDE DEF t
<1>3. \A x \in 1..Len(t) : t[x].at < lo  BY <1>1, <1>2
<1>4. n < i /\ n # i /\ m + 1 <= i  OBVIOUS
<1>5. CASE m + 1 = i
  <2>1. q = <<>>  BY <1>5 DEF Heads
  <2>2. Len(t) = Len(p) /\ Len(t) \in 1..Len(t)  BY <1>2, <2>1
  <2>3. t[Len(t)] = p[Len(p)]  BY <1>2, <2>2
  <2>4. m = i - 1  BY <1>5
  <2>5. Heads(t, text, n, i, lo)  BY <1>2, <1>3, <1>4, <2>3, <2>4 DEF Heads
  <2>6. QED  BY <2>5 DEF t
<1>6. CASE m + 1 < i
  <2>1. q # <<>> /\ (q[Len(q)] = text[i - 1] \/ q[Len(q)].kind \notin {"number", "street"})  BY <1>6 DEF Heads
  <2>2. Len(q) # 0  BY <1>1, <2>1
  <2>3. Len(t) \in 1..Len(t) /\ ~(Len(t) <= Len(p)) /\ Len(t) - Len(p) = Len(q)  BY <1>2, <2>2
  <2>4. t[Len(t)] = q[Len(q)]  BY <1>2, <2>3
  <2>5. Heads(t, text, n, i, lo)  BY <1>2, <1>3, <1>4, <2>1, <2>4 DEF Heads
  <2>6. QED  BY <2>5 DEF t
<1>7. QED  BY <1>4, <1>5, <1>6

\* Joining is associative.
LEMMA JoinTwice ==
  \A p \in Seq(WorkPiece) : \A q \in Seq(WorkPiece) : \A s \in Seq(WorkPiece) :
    p \o (q \o s) = (p \o q) \o s
OBVIOUS

\* s is p and then q.
Joins(s, p, q) ==
  /\ s \in Seq(WorkPiece) /\ Len(s) = Len(p) + Len(q)
  /\ \A x \in 1..(Len(p) + Len(q)) : s[x] = IF x <= Len(p) THEN p[x] ELSE q[x - Len(p)]

\* Joining lays one sequence behind the other.
LEMMA JoinIs == \A p \in Seq(WorkPiece) : \A q \in Seq(WorkPiece) : Joins(p \o q, p, q)
BY DEF Joins

Headed(from, text, i, lo) ==
  \A n \in 1..i : \E p : Heads(p, text, n, i, lo) /\ from[n] = p \o from[i]

\* If no match reaches i from before it, the text from n on is a head, then i on.
LEMMA SubHeads ==
  ASSUME NEW text, text \in Seq(WorkPiece), NEW end, NEW new, Replaces(text, end, new),
         NEW from, Computes(from, text, end, new),
         NEW i \in 1..(Len(text) + 1), Clear(end, i),
         NEW lo \in Nat, Before(text, i, lo)
  PROVE  Headed(from, text, i, lo)
<1> DEFINE L == Len(text)
           T == {n \in 1..i : \E p : Heads(p, text, n, i, lo) /\ from[n] = p \o from[i]}
<1>0. L \in Nat /\ L = Len(text) /\ i \in 1..(L + 1) /\ from[i] \in Seq(WorkPiece)
  BY DEF Computes
<1> HIDE DEF L
<1>a. \A k \in 1..L : text[k] \in WorkPiece /\ text[k].at \in Nat  BY <1>0, PieceType
<1>b. \A k \in 1..(i - 1) : text[k].at < lo  BY DEF Before
<1>1. ASSUME NEW n \in 1..i, \A k \in (n + 1)..i : k \in T  PROVE n \in T
  <2>0. n \in 1..(L + 1)  BY <1>0
  <2>1. from[n] = Rest(from, text, end, new, n)  BY <1>0, <2>0 DEF Computes
  <2>2. CASE n = i
    <3>1. <<>> \in Seq(WorkPiece) /\ Len(<<>>) = 0 /\ ~(n < i) /\ from[n] = <<>> \o from[i]
      BY <1>0, <2>2
    <3>2. \A x \in 1..Len(<<>>) : FALSE  OBVIOUS
    <3>3. Heads(<<>>, text, n, i, lo)  BY <3>1, <3>2 DEF Heads
    <3>4. QED  BY <3>1, <3>3
  <2>3. CASE n # i /\ end[n] = 0
    <3>1. n \in 1..L /\ ~(n > L) /\ n \in 1..(i - 1) /\ n \in n..(i - 1) /\ n + 1 \in (n + 1)..i
      BY <1>0, <2>3
    <3>2. PICK q : Heads(q, text, n + 1, i, lo) /\ from[n + 1] = q \o from[i]
      BY <1>1, <3>1
    <3> DEFINE p == <<text[n]>>
    <3>3. p \in Seq(WorkPiece) /\ p # <<>> /\ Len(p) = 1 /\ p[1] = text[n]
      BY <1>a, <3>1
    <3>4. from[n] = p \o (q \o from[i])  BY <1>0, <2>1, <2>3, <3>1, <3>2 DEF Rest
    <3> HIDE DEF p
    <3>5. \A x \in 1..Len(p) : p[x].at < lo
      <4>1. \A x \in 1..Len(p) : x = 1  BY <3>3
      <4>2. QED  BY <1>b, <3>1, <3>3, <4>1
    <3>6. Heads(p \o q, text, n, i, lo)
      BY <1>0, <3>1, <3>2, <3>3, <3>5, HeadsJoin
    <3>7. from[n] = (p \o q) \o from[i]
      <4>1. q \in Seq(WorkPiece)  BY <3>2 DEF Heads
      <4> DEFINE r == from[i]
      <4>2. r \in Seq(WorkPiece) /\ p \in Seq(WorkPiece)  BY <1>0, <3>3, <3>6
      <4> HIDE DEF r
      <4>3. p \o (q \o r) = (p \o q) \o r  BY <4>1, <4>2, JoinTwice
      <4>4. QED  BY <4>3, <3>4 DEF r
    <3>8. QED  BY <3>6, <3>7
  <2>4. CASE n # i /\ end[n] # 0
    <3>1. n \in 1..L /\ ~(n > L) /\ n \in 1..(i - 1)  BY <1>0, <2>4
    <3> DEFINE m == end[n]
               p == new[n]
    <3>2. m \in n..L /\ Covers(p, text, n, m) /\ m < i
      BY <1>0, <2>4, <3>1 DEF Replaces, Clear
    <3>3. from[n] = p \o from[m + 1]  BY <1>0, <2>1, <2>4, <3>1 DEF Rest
    <3> HIDE DEF m, p
    <3>4. m \in n..(i - 1) /\ m + 1 \in (n + 1)..i /\ m \in 1..L  BY <1>0, <3>1, <3>2
    <3>5. PICK q : Heads(q, text, m + 1, i, lo) /\ from[m + 1] = q \o from[i]
      BY <1>1, <3>4
    <3>6. p \in Seq(WorkPiece) /\ p # <<>> /\ p[Len(p)].kind \notin {"number", "street"}
      <4>1. p \in Seq(WorkPiece) /\ p # <<>>  BY <3>2 DEF Covers
      <4>2. Len(p) \in 1..Len(p)  BY <4>1
      <4>3. QED  BY <3>2, <4>1, <4>2 DEF Covers
    <3>7. \A x \in 1..Len(p) : p[x].at < lo
      <4> SUFFICES ASSUME NEW x \in 1..Len(p)  PROVE p[x].at < lo  OBVIOUS
      <4>1. p[x].at <= text[m].at  BY <3>2 DEF Covers
      <4>2. p[x].at \in Nat  BY <3>6, PieceType
      <4>3. m \in 1..(i - 1)  BY <3>1, <3>4
      <4>4. text[m].at < lo /\ text[m].at \in Nat  BY <1>a, <1>b, <3>4, <4>3
      <4> DEFINE u == p[x].at
                 v == text[m].at
      <4>5. u \in Nat /\ v \in Nat /\ u <= v /\ v < lo  BY <4>1, <4>2, <4>4
      <4> HIDE DEF u, v
      <4>6. u < lo  BY <4>5
      <4>7. QED  BY <4>6 DEF u
    <3>8. Heads(p \o q, text, n, i, lo)
      BY <1>0, <3>1, <3>4, <3>5, <3>6, <3>7, HeadsJoin
    <3>9. from[n] = (p \o q) \o from[i]
      <4>1. q \in Seq(WorkPiece)  BY <3>5 DEF Heads
      <4> DEFINE r == from[i]
      <4>2. r \in Seq(WorkPiece) /\ p \in Seq(WorkPiece)  BY <1>0, <3>3, <3>6
      <4> HIDE DEF r
      <4>3. p \o (q \o r) = (p \o q) \o r  BY <4>1, <4>2, JoinTwice
      <4>4. QED  BY <4>3, <3>3, <3>5 DEF r
    <3>10. QED  BY <3>8, <3>9
  <2>5. QED  BY <2>2, <2>3, <2>4
<1>2. 1..i \subseteq T
  <2> HIDE DEF T
  <2>1. i \in Nat  BY <1>0
  <2>2. QED  BY <1>1, <2>1, Downward
<1>3. QED  BY <1>2 DEF Headed

\* Pieces from which nothing matches stay as they are.
Keeps(from, text, i, j) == from[i] = SubSeq(text, i, j) \o from[j + 1]

\* If no match begins from i to j, these pieces are copied.
LEMMA SubKeeps ==
  ASSUME NEW text, text \in Seq(WorkPiece), NEW end, NEW new,
         NEW from, Computes(from, text, end, new),
         NEW i \in 1..Len(text), NEW j \in i..Len(text), \A k \in i..j : end[k] = 0
  PROVE  Keeps(from, text, i, j)
<1> DEFINE L == Len(text)
           T == {n \in 1..(j + 1) : n >= i => from[n] = SubSeq(text, n, j) \o from[j + 1]}
<1>0. L \in Nat /\ L = Len(text) /\ i \in 1..L /\ j \in i..L
  OBVIOUS
<1>a. j + 1 \in 1..(L + 1) /\ from[j + 1] \in Seq(WorkPiece)
  <2>1. j + 1 \in 1..(L + 1)  BY <1>0
  <2>2. QED  BY <2>1 DEF Computes
<1>b. \A k \in 1..L : text[k] \in WorkPiece  OBVIOUS
<1> HIDE DEF L
<1>1. ASSUME NEW n \in 1..(j + 1), \A k \in (n + 1)..(j + 1) : k \in T  PROVE n \in T
  <2> SUFFICES ASSUME n >= i  PROVE from[n] = SubSeq(text, n, j) \o from[j + 1]  OBVIOUS
  <2>1. CASE n = j + 1
    <3>1. SubSeq(text, n, j) = <<>>  BY <1>0, <2>1
    <3>2. QED  BY <1>a, <2>1, <3>1
  <2>2. CASE n # j + 1
    <3>1. /\ n \in 1..L /\ ~(n > L) /\ n \in i..j /\ n + 1 \in (n + 1)..(j + 1) /\ n + 1 >= i
          /\ n \in 1..(L + 1)
      BY <1>0, <2>2
    <3>2. from[n] = <<text[n]>> \o from[n + 1]
      BY <1>0, <3>1 DEF Computes, Rest
    <3>3. from[n + 1] = SubSeq(text, n + 1, j) \o from[j + 1]  BY <1>1, <3>1
    <3>4. /\ SubSeq(text, n + 1, j) \in Seq(WorkPiece) /\ <<text[n]>> \in Seq(WorkPiece)
      BY <1>0, <1>b, <3>1
    <3>5. <<text[n]>> \o SubSeq(text, n + 1, j) = SubSeq(text, n, j)
      BY <1>0, <1>b, <3>1
    <3> DEFINE p == <<text[n]>>
               q == SubSeq(text, n + 1, j)
               s == from[j + 1]
    <3>6. p \o (q \o s) = (p \o q) \o s
      <4>1. p \in Seq(WorkPiece) /\ q \in Seq(WorkPiece) /\ s \in Seq(WorkPiece)  BY <1>a, <3>4
      <4> HIDE DEF p, q, s
      <4>2. QED  BY <4>1, JoinTwice
    <3>7. QED  BY <3>2, <3>3, <3>5, <3>6
  <2>3. QED  BY <2>1, <2>2
<1>2. 1..(j + 1) \subseteq T
  <2> HIDE DEF T
  <2>1. j + 1 \in Nat  BY <1>0
  <2>2. QED  BY <1>1, <2>1, Downward
<1>3. i \in 1..(j + 1) /\ i >= i  BY <1>0
<1>4. QED  BY <1>2, <1>3 DEF Keeps

\* mid stands in s from a on, between pieces older than lo and younger than hi.
Stands(s, mid, a, lo, hi) ==
  /\ s \in Seq(WorkPiece) /\ a \in Nat \ {0} /\ a + Len(mid) - 1 <= Len(s)
  /\ \A x \in 1..Len(mid) : s[a + x - 1] = mid[x]
  /\ \A x \in 1..Len(s) : IF x < a THEN s[x].at < lo ELSE x >= a + Len(mid) => s[x].at > hi

\* The pieces beside a to b are those beside i to j of text, or no numbers.
Beside(s, a, b, text, i, j) ==
  /\ a > 1 => i > 1 /\ (s[a - 1] = text[i - 1] \/ s[a - 1].kind \notin {"number", "street"})
  /\ b < Len(s) => j < Len(text) /\ (s[b + 1] = text[j + 1] \/ s[b + 1].kind \notin {"number", "street"})

\* Where the pieces of three sequences stand in the one they are joined to.
Laid(s, p, mid, q, lo, hi) ==
  /\ Stands(s, mid, Len(p) + 1, lo, hi) /\ Len(p) \in Nat
  /\ p # <<>> => Len(p) > 0 /\ s[Len(p)] = p[Len(p)]
  /\ p = <<>> => Len(p) = 0
  /\ q # <<>> => s[Len(p) + Len(mid) + 1] = q[1]
  /\ q = <<>> => Len(s) = Len(p) + Len(mid)

\* Three sequences joined are laid one behind the other.
LEMMA StandsJoined ==
  ASSUME NEW p, p \in Seq(WorkPiece), NEW mid, mid \in Seq(WorkPiece), mid # <<>>,
         NEW q, q \in Seq(WorkPiece), NEW lo, NEW hi,
         Before(p, Len(p) + 1, lo), After(q, 1, hi),
         NEW r, Joins(r, mid, q), NEW s, Joins(s, p, r)
  PROVE  Laid(s, p, mid, q, lo, hi)
<1> DEFINE a == Len(p)
           b == Len(mid)
           c == Len(q)
<1>1. /\ a \in Nat /\ b \in Nat \ {0} /\ c \in Nat
      /\ (p = <<>> <=> a = 0) /\ (q = <<>> <=> c = 0)
  OBVIOUS
<1>2. /\ r \in Seq(WorkPiece) /\ Len(r) = b + c
      /\ \A x \in 1..(b + c) : r[x] = IF x <= b THEN mid[x] ELSE q[x - b]
  BY DEF Joins
<1>4. /\ s \in Seq(WorkPiece) /\ Len(s) = a + b + c
      /\ \A x \in 1..(a + b + c) : s[x] = IF x <= a THEN p[x] ELSE r[x - a]
  <2>1. a + (b + c) = a + b + c  BY <1>1
  <2>2. QED  BY <1>2, <2>1 DEF Joins
<1>5. \A x \in 1..a : s[x] = p[x]
  <2>1. \A x \in 1..a : x \in 1..(a + b + c) /\ x <= a  BY <1>1
  <2>2. QED  BY <1>4, <2>1
<1>6. \A x \in 1..b : s[a + x] = mid[x]
  <2> SUFFICES ASSUME NEW x \in 1..b  PROVE s[a + x] = mid[x]  OBVIOUS
  <2>1. a + x \in 1..(a + b + c) /\ ~(a + x <= a) /\ (a + x) - a = x /\ x \in 1..(b + c) /\ x <= b
    BY <1>1
  <2>2. QED  BY <1>2, <1>4, <2>1
<1>7. \A x \in 1..c : s[a + b + x] = q[x]
  <2> SUFFICES ASSUME NEW x \in 1..c  PROVE s[a + b + x] = q[x]  OBVIOUS
  <2>1. /\ a + b + x \in 1..(a + b + c) /\ ~(a + b + x <= a) /\ (a + b + x) - a = b + x
        /\ b + x \in 1..(b + c) /\ ~(b + x <= b) /\ (b + x) - b = x
    BY <1>1
  <2>2. QED  BY <1>2, <1>4, <2>1
<1>8. \A x \in 1..a : s[x].at < lo
  <2>1. \A x \in 1..a : p[x].at < lo  BY <1>1 DEF Before
  <2>2. QED  BY <1>5, <2>1
<1>9. \A x \in 1..c : s[a + b + x].at > hi
  <2>1. \A x \in 1..c : q[x].at > hi  BY DEF After
  <2>2. QED  BY <1>7, <2>1
<1>a. p # <<>> => a > 0 /\ s[a] = p[a]
  <2>1. p # <<>> => a \in 1..a  BY <1>1
  <2>2. QED  BY <1>1, <1>5, <2>1
<1>b. q # <<>> => s[a + b + 1] = q[1]
  <2>1. q # <<>> => 1 \in 1..c  BY <1>1
  <2>2. QED  BY <1>7, <2>1
<1>c. p = <<>> => a = 0  BY <1>1
<1>d. q = <<>> => Len(s) = a + b  BY <1>1, <1>4
<1> HIDE DEF a, b, c
<1>e. \A x \in 1..b : s[(a + 1) + x - 1] = mid[x]
  <2> SUFFICES ASSUME NEW x \in 1..b  PROVE s[(a + 1) + x - 1] = mid[x]  OBVIOUS
  <2>1. (a + 1) + x - 1 = a + x  BY <1>1
  <2>2. QED  BY <1>6, <2>1
<1>f. ASSUME NEW x \in 1..Len(s)
      PROVE  IF x < a + 1 THEN s[x].at < lo ELSE x >= (a + 1) + b => s[x].at > hi
  <2>1. CASE x < a + 1
    <3>1. x \in 1..a  BY <1>1, <1>4, <2>1
    <3>2. QED  BY <1>8, <2>1, <3>1
  <2>2. CASE ~(x < a + 1) /\ x >= (a + 1) + b
    <3>1. x - (a + b) \in 1..c /\ a + b + (x - (a + b)) = x  BY <1>1, <1>4, <2>2
    <3>2. s[x].at > hi  BY <1>9, <3>1
    <3>3. QED  BY <2>2, <3>2
  <2>3. CASE ~(x < a + 1) /\ ~(x >= (a + 1) + b)  BY <2>3
  <2>4. QED  BY <2>1, <2>2, <2>3
<1>g. a + 1 \in Nat \ {0} /\ (a + 1) + b - 1 <= Len(s)  BY <1>1, <1>4
<1>h. Stands(s, mid, a + 1, lo, hi)  BY <1>4, <1>e, <1>f, <1>g DEF Stands, b
<1>i. QED  BY <1>1, <1>a, <1>b, <1>c, <1>d, <1>h DEF a, b, c, Laid

\* What becomes of the pieces i to j: the match that takes them all, or itself.
Becomes(mid, text, end, new, i, j) ==
  \/ end[i] = j /\ mid = new[i]
  \/ (\A k \in i..j : end[k] = 0) /\ mid = SubSeq(text, i, j)

\* It stands in their place, beside what stood beside them, and in order.
LEMMA SubBlock ==
  ASSUME NEW text, text \in Seq(WorkPiece), Ordered(text), NEW end, NEW new,
         Replaces(text, end, new),
         NEW i \in 1..Len(text), NEW j \in i..Len(text), Clear(end, i),
         NEW lo \in Nat, Before(text, i, lo), NEW hi \in Nat, After(text, j + 1, hi),
         NEW mid, Becomes(mid, text, end, new, i, j)
  PROVE  LET s == Sub(text, end, new) IN
         /\ s \in Seq(WorkPiece) /\ Ordered(s)
         /\ \E a : Stands(s, mid, a, lo, hi) /\ Beside(s, a, a + Len(mid) - 1, text, i, j)
<1> DEFINE L == Len(text)
           s == Sub(text, end, new)
<1>0. L \in Nat /\ L = Len(text) /\ i \in 1..L /\ j \in i..L /\ i \in 1..(L + 1) /\ j + 1 \in 1..(L + 1)
  OBVIOUS
<1>a. \A k \in 1..L : text[k] \in WorkPiece /\ text[k].at \in Nat  BY PieceType
<1>1. PICK from : s = from[1] /\ Computes(from, text, end, new)  BY SubComputed
<1> HIDE DEF L, s
<1>2. \A n \in 1..(L + 1) : Tails(from[n], text, n)  BY <1>0, <1>1, SubTails
<1>3. PICK p : Heads(p, text, 1, i, lo) /\ from[1] = p \o from[i]
  <2>1. Headed(from, text, i, lo)  BY <1>0, <1>1, SubHeads
  <2>2. 1 \in 1..i  BY <1>0
  <2>3. QED  BY <2>1, <2>2 DEF Headed
<1> DEFINE q == from[j + 1]
<1>4. q \in Seq(WorkPiece) /\ Tails(q, text, j + 1)  BY <1>0, <1>1, <1>2 DEF Computes
<1>5. mid \in Seq(WorkPiece) /\ mid # <<>> /\ from[i] = mid \o q
  <2>1. CASE end[i] = j /\ mid = new[i]
    <3>1. end[i] # 0 /\ ~(i > L)  BY <1>0, <2>1
    <3>2. mid \in Seq(WorkPiece) /\ mid # <<>>  BY <1>0, <2>1, <3>1 DEF Replaces, Covers
    <3>3. from[i] = Rest(from, text, end, new, i)  BY <1>0, <1>1 DEF Computes
    <3>4. QED  BY <1>0, <2>1, <3>1, <3>2, <3>3 DEF Rest
  <2>2. CASE (\A k \in i..j : end[k] = 0) /\ mid = SubSeq(text, i, j)
    <3>0. \A k \in i..j : end[k] = 0  BY <2>2
    <3>1. Keeps(from, text, i, j)  BY <1>0, <1>1, <3>0, SubKeeps
    <3>2. SubSeq(text, i, j) \in Seq(WorkPiece) /\ Len(SubSeq(text, i, j)) = j - i + 1
      BY <1>0
    <3>3. mid # <<>>  BY <1>0, <2>2, <3>2
    <3>4. QED  BY <2>2, <3>1, <3>2, <3>3 DEF Keeps
  <2>3. QED  BY <2>1, <2>2 DEF Becomes
<1> HIDE DEF q
<1>6. p \in Seq(WorkPiece) /\ Before(p, Len(p) + 1, lo)
  <2>1. p \in Seq(WorkPiece) /\ \A x \in 1..Len(p) : p[x].at < lo  BY <1>3 DEF Heads
  <2>2. (Len(p) + 1) - 1 = Len(p)  BY <2>1
  <2>3. QED  BY <2>1, <2>2 DEF Before
<1>7. After(q, 1, hi)
  <2>a. \A k \in (j + 1)..Len(text) : text[k].at > hi  BY DEF After
  <2> SUFFICES ASSUME NEW x \in 1..Len(q)  PROVE q[x].at > hi  BY DEF After
  <2>1. j + 1 <= L
    <3> SUFFICES ASSUME ~(j + 1 <= L)  PROVE FALSE  OBVIOUS
    <3>1. j + 1 > Len(text)  BY <1>0
    <3>2. q = <<>>  BY <1>4, <3>1 DEF Tails
    <3>3. QED  BY <3>2
  <2>2. j + 1 \in 1..L /\ j + 1 \in (j + 1)..Len(text)  BY <1>0, <2>1
  <2>3. text[j + 1].at <= q[x].at  BY <1>0, <1>4, <2>1 DEF Tails
  <2>4. text[j + 1].at > hi /\ text[j + 1].at \in Nat /\ q[x].at \in Nat
    BY <1>4, <1>a, <2>a, <2>2, PieceType
  <2> DEFINE u == text[j + 1].at
             v == q[x].at
  <2>5. u <= v /\ u > hi /\ u \in Nat /\ v \in Nat  BY <2>3, <2>4
  <2> HIDE DEF u, v
  <2>6. v > hi  BY <2>5
  <2>7. QED  BY <2>6 DEF v
<1>8. Laid(s, p, mid, q, lo, hi)
  <2> DEFINE r == mid \o q
  <2>1. Joins(r, mid, q)  BY <1>4, <1>5, JoinIs
  <2>2. r \in Seq(WorkPiece)  BY <2>1 DEF Joins
  <2>3. s = p \o r  BY <1>1, <1>3, <1>5
  <2> HIDE DEF r
  <2>4. Joins(s, p, r)  BY <1>6, <2>2, <2>3, JoinIs
  <2>5. QED  BY <1>4, <1>5, <1>6, <1>7, <2>1, <2>4, StandsJoined
<1> DEFINE a == Len(p) + 1
           b == a + Len(mid) - 1
<1>9. /\ Stands(s, mid, a, lo, hi) /\ Len(p) \in Nat
      /\ p # <<>> => Len(p) > 0 /\ s[Len(p)] = p[Len(p)]
      /\ p = <<>> => Len(p) = 0
      /\ q # <<>> => s[Len(p) + Len(mid) + 1] = q[1]
      /\ q = <<>> => Len(s) = Len(p) + Len(mid)
  BY <1>8 DEF Laid
<1>10. Len(mid) \in Nat /\ b = Len(p) + Len(mid) /\ b + 1 = Len(p) + Len(mid) + 1 /\ a - 1 = Len(p)
  BY <1>5, <1>9
<1> HIDE DEF a, b
<1>11. a > 1 => i > 1 /\ (s[a - 1] = text[i - 1] \/ s[a - 1].kind \notin {"number", "street"})
  <2> SUFFICES ASSUME a > 1
               PROVE i > 1 /\ (s[a - 1] = text[i - 1] \/ s[a - 1].kind \notin {"number", "street"})
    OBVIOUS
  <2>1. p # <<>> /\ s[a - 1] = p[Len(p)]  BY <1>9, <1>10 DEF a
  <2>2. 1 < i
    <3> SUFFICES ASSUME ~(1 < i)  PROVE FALSE  OBVIOUS
    <3>1. 1 = i  BY <1>0
    <3>2. QED  BY <1>3, <2>1, <3>1 DEF Heads
  <2>3. p[Len(p)] = text[i - 1] \/ p[Len(p)].kind \notin {"number", "street"}  BY <1>3, <2>2 DEF Heads
  <2>4. QED  BY <1>0, <2>1, <2>2, <2>3
<1>12. b < Len(s) => j < Len(text) /\ (s[b + 1] = text[j + 1] \/ s[b + 1].kind \notin {"number", "street"})
  <2> SUFFICES ASSUME b < Len(s)
               PROVE j < Len(text) /\ (s[b + 1] = text[j + 1] \/ s[b + 1].kind \notin {"number", "street"})
    OBVIOUS
  <2>1. q # <<>>
    <3> SUFFICES ASSUME q = <<>>  PROVE FALSE  OBVIOUS
    <3>1. Len(s) = b  BY <1>9, <1>10
    <3>2. b \in Nat  BY <1>9, <1>10
    <3>3. QED  BY <3>1, <3>2
  <2>2. s[b + 1] = q[1]  BY <1>9, <1>10, <2>1
  <2>3. ~(j + 1 > Len(text))  BY <1>4, <2>1 DEF Tails
  <2>4. j < Len(text) /\ j + 1 <= Len(text)  BY <1>0, <2>3
  <2>5. q[1] = text[j + 1] \/ q[1].kind \notin {"number", "street"}  BY <1>4, <2>4 DEF Tails
  <2>6. QED  BY <2>2, <2>4, <2>5
<1>13. Beside(s, a, b, text, i, j)  BY <1>11, <1>12 DEF Beside
<1>14. s \in Seq(WorkPiece) /\ Ordered(s)
  <2>1. 1 \in 1..(L + 1)  BY <1>0
  <2>2. Tails(from[1], text, 1)  BY <1>2, <2>1
  <2>3. QED  BY <1>1, <2>2 DEF Tails
<1>15. \E x : Stands(s, mid, x, lo, hi) /\ Beside(s, x, x + Len(mid) - 1, text, i, j)
  BY <1>9, <1>13 DEF b
<1>16. QED  BY <1>14, <1>15 DEF s

\* The type and the order of a whole text, too.
LEMMA SubType ==
  ASSUME NEW text, text \in Seq(WorkPiece), Ordered(text), NEW end, NEW new,
         Replaces(text, end, new)
  PROVE  Sub(text, end, new) \in Seq(WorkPiece) /\ Ordered(Sub(text, end, new))
<1>1. PICK from : Sub(text, end, new) = from[1] /\ Computes(from, text, end, new)  BY SubComputed
<1>2. 1 \in 1..(Len(text) + 1)  OBVIOUS
<1>3. \A n \in 1..(Len(text) + 1) : Tails(from[n], text, n)  BY <1>1, SubTails
<1>4. Tails(from[1], text, 1)  BY <1>2, <1>3
<1>5. QED  BY <1>1, <1>4 DEF Tails

-----------------------------------------------------------------------------
(* The replacements of the passes                                          *)

Kinds == {"number", "kept"} \cup Phrases \cup Hidden

\* A piece may change its kind.
LEMMA Rekinded ==
  ASSUME NEW p \in WorkPiece, NEW k \in Kinds
  PROVE  LET q == [p EXCEPT !.kind = k] IN
         q \in WorkPiece /\ q.kind = k /\ q.sep = p.sep /\ q.digits = p.digits /\ q.at = p.at
BY DEF WorkPiece, Kinds

Redo(p, k, d) == [p EXCEPT !.kind = k, !.digits = d]
IsRedone(q, p, k, d) ==
  q \in WorkPiece /\ q.kind = k /\ q.sep = p.sep /\ q.digits = d /\ q.at = p.at

\* It may change its kind and its digits.
LEMMA Redone ==
  ASSUME NEW p \in WorkPiece, NEW k \in Kinds, NEW d \in Seq(0..9)
  PROVE  IsRedone(Redo(p, k, d), p, k, d)
BY DEF WorkPiece, Kinds, Redo, IsRedone

\* Pieces further on are no older.
LEMMA Later ==
  ASSUME NEW text, text \in Seq(WorkPiece), Ordered(text),
         NEW n \in 1..Len(text), NEW m \in n..Len(text)
  PROVE  text[n].at <= text[m].at
<1>1. text[n].at \in Nat /\ text[m].at \in Nat
  <2>1. m \in 1..Len(text)  OBVIOUS
  <2>2. QED  BY <2>1, PieceType
<1>2. CASE n = m  BY <1>1, <1>2
<1>3. CASE n # m
  <2>1. m \in 1..Len(text) /\ n \in 1..(m - 1)  BY <1>3
  <2>2. text[n].at < text[m].at  BY <2>1 DEF Ordered
  <2> DEFINE u == text[n].at
             v == text[m].at
  <2>3. u \in Nat /\ v \in Nat /\ u < v  BY <1>1, <2>2
  <2> HIDE DEF u, v
  <2>4. u <= v  BY <2>3
  <2>5. QED  BY <2>4 DEF u, v
<1>4. QED  BY <1>2, <1>3

\* One piece that keeps its place, and is no number, can stand for a match.
LEMMA OneCovers ==
  ASSUME NEW text, text \in Seq(WorkPiece), Ordered(text),
         NEW n \in 1..Len(text), NEW m \in n..Len(text),
         NEW q \in WorkPiece, q.kind \notin {"number", "street"}, q.at = text[n].at
  PROVE  Covers(<<q>>, text, n, m)
<1> DEFINE p == <<q>>
<1>1. p \in Seq(WorkPiece) /\ p # <<>> /\ Len(p) = 1 /\ p[1] = q  OBVIOUS
<1> HIDE DEF p
<1>2. \A x \in 1..Len(p) : x = 1  BY <1>1
<1>3. \A x \in 1..Len(p) : \A y \in 1..(x - 1) : FALSE  BY <1>1
<1>4. text[n].at <= text[m].at  BY Later
<1>5. text[n].at <= text[n].at
  <2>1. text[n].at \in Nat  BY PieceType
  <2>2. QED  BY <2>1
<1>6. \A x \in 1..Len(p) : p[x].kind \notin {"number", "street"} /\ text[n].at <= p[x].at /\ p[x].at <= text[m].at
  BY <1>1, <1>2, <1>4, <1>5
<1>7. Ordered(p)  BY <1>3 DEF Ordered
<1>8. Covers(p, text, n, m)  BY <1>1, <1>6, <1>7 DEF Covers
<1>9. QED  BY <1>8 DEF p

\* The elements of a sequence are in its set.
LEMMA ElementType ==
  ASSUME NEW S, NEW s, s \in Seq(S)  PROVE  \A x \in 1..Len(s) : s[x] \in S
OBVIOUS

\* The last digits of a number.
LEMMA LastDigits ==
  ASSUME NEW ds, ds \in Seq(0..9), NEW m \in 0..Len(ds)
  PROVE  /\ SubSeq(ds, Len(ds) - m + 1, Len(ds)) \in Seq(0..9)
         /\ Len(SubSeq(ds, Len(ds) - m + 1, Len(ds))) = m
<1>1. Len(ds) \in Nat /\ \A x \in 1..Len(ds) : ds[x] \in 0..9  OBVIOUS
<1>2. \A x \in (Len(ds) - m + 1)..Len(ds) : ds[x] \in 0..9  BY <1>1
<1>3. QED  BY <1>1, <1>2

\* A card, as it is masked.
CardPiece(text, n, m) ==
  [text[n] EXCEPT !.kind = "card*",
     !.digits = SubSeq(Digits(text, n, m), Len(Digits(text, n, m)) - 3, Len(Digits(text, n, m)))]

\* It is one piece, which keeps its place and the last four digits.
LEMMA CardPieceType ==
  ASSUME NEW text, text \in Seq(WorkPiece), NEW n \in 1..Len(text), NEW m \in n..Len(text),
         Len(Digits(text, n, m)) \in 13..16
  PROVE  LET q == CardPiece(text, n, m)
             ds == Digits(text, n, m) IN
         /\ q \in WorkPiece /\ q.kind = "card*" /\ q.at = text[n].at
         /\ q.digits = SubSeq(ds, Len(ds) - 3, Len(ds))
<1> DEFINE ds == Digits(text, n, m)
           d == SubSeq(ds, Len(ds) - 3, Len(ds))
<1>1. ds \in Seq(0..9)
  <2>1. PICK c : Counts(c, text)  BY CountsExist
  <2>2. QED  BY <2>1, DigitsLength
<1>2. Len(ds) \in Nat /\ 4 \in 0..Len(ds) /\ Len(ds) - 4 + 1 = Len(ds) - 3
  <2> DEFINE x == Len(ds)
  <2>1. x \in 13..16  OBVIOUS
  <2> HIDE DEF x, ds
  <2>2. x \in Nat /\ 4 \in 0..x /\ x - 4 + 1 = x - 3  BY <2>1
  <2>3. QED  BY <2>2 DEF x
<1> HIDE DEF ds
<1>3. d \in Seq(0..9)  BY <1>1, <1>2, LastDigits
<1>4. text[n] \in WorkPiece /\ "card*" \in Kinds  BY PieceType DEF Kinds, Hidden
<1> DEFINE q == Redo(text[n], "card*", d)
<1>5. CardPiece(text, n, m) = q  BY DEF CardPiece, ds, Redo
<1> HIDE DEF d
<1>6. IsRedone(q, text[n], "card*", d)  BY <1>3, <1>4, Redone
<1> HIDE DEF q
<1>7. QED  BY <1>5, <1>6 DEF ds, d, IsRedone

\* A number that is no card, as it is walled off.
Kept(text, n, m) == [k \in 1..(m - n + 1) |-> [text[n + k - 1] EXCEPT !.kind = "kept"]]

\* They keep their places, separators and digits.
LEMMA KeptType ==
  ASSUME NEW text, text \in Seq(WorkPiece), NEW n \in 1..Len(text), NEW m \in n..Len(text)
  PROVE  LET p == Kept(text, n, m) IN
         /\ p \in Seq(WorkPiece) /\ Len(p) = m - n + 1
         /\ \A x \in 1..(m - n + 1) :
              /\ n + x - 1 \in n..m /\ p[x].kind = "kept" /\ p[x].at = text[n + x - 1].at
              /\ p[x].sep = text[n + x - 1].sep /\ p[x].digits = text[n + x - 1].digits
<1> DEFINE L == Len(text)
           b == m - n + 1
           p == Kept(text, n, m)
<1>1. L \in Nat /\ n \in 1..L /\ m \in n..L /\ b \in Nat /\ "kept" \in Kinds  BY DEF Kinds
<1>2. ASSUME NEW x \in 1..b
      PROVE  LET q == [text[n + x - 1] EXCEPT !.kind = "kept"] IN
             /\ q \in WorkPiece /\ n + x - 1 \in n..m /\ q.kind = "kept"
             /\ q.at = text[n + x - 1].at
             /\ q.sep = text[n + x - 1].sep /\ q.digits = text[n + x - 1].digits
  <2>1. n + x - 1 \in 1..L /\ n + x - 1 \in n..m  BY <1>1
  <2>2. text[n + x - 1] \in WorkPiece  BY <2>1, PieceType
  <2> HIDE DEF L, b
  <2> DEFINE t == text[n + x - 1]
  <2>3. t \in WorkPiece  BY <2>2
  <2> HIDE DEF t
  <2>4. LET q == [t EXCEPT !.kind = "kept"] IN
        q \in WorkPiece /\ q.kind = "kept" /\ q.sep = t.sep /\ q.digits = t.digits /\ q.at = t.at
    BY <1>1, <2>3, Rekinded
  <2>5. QED  BY <2>1, <2>4 DEF t
<1>3. p = [k \in 1..b |-> [text[n + k - 1] EXCEPT !.kind = "kept"]]  BY DEF Kept
<1> HIDE DEF p, L
<1>4. \A x \in 1..b : p[x] = [text[n + x - 1] EXCEPT !.kind = "kept"]  BY <1>3
<1>5. \A x \in 1..b : p[x] \in WorkPiece  BY <1>2, <1>4
<1>6. DOMAIN p = 1..b /\ p = [x \in 1..b |-> p[x]]  BY <1>3
<1> HIDE DEF b
<1>7. p \in Seq(WorkPiece) /\ Len(p) = b  BY <1>1, <1>5, <1>6
<1>8. QED  BY <1>2, <1>4, <1>7 DEF p, b

\* So they can stand for the match.
LEMMA KeptCovers ==
  ASSUME NEW text, text \in Seq(WorkPiece), Ordered(text),
         NEW n \in 1..Len(text), NEW m \in n..Len(text)
  PROVE  Covers(Kept(text, n, m), text, n, m)
<1> DEFINE p == Kept(text, n, m)
<1>1. /\ p \in Seq(WorkPiece) /\ Len(p) = m - n + 1
      /\ \A x \in 1..(m - n + 1) :
           n + x - 1 \in n..m /\ p[x].kind = "kept" /\ p[x].at = text[n + x - 1].at
  BY KeptType
<1> HIDE DEF p
<1>2. p # <<>>
  <2>1. Len(p) # 0  BY <1>1
  <2>2. QED  BY <2>1
<1>3. Ordered(p)
  <2> SUFFICES ASSUME NEW x \in 1..Len(p), NEW y \in 1..(x - 1)  PROVE p[y].at < p[x].at
    BY DEF Ordered
  <2>1. /\ x \in 1..(m - n + 1) /\ y \in 1..(m - n + 1)
        /\ n + x - 1 \in 1..Len(text) /\ n + y - 1 \in 1..((n + x - 1) - 1)
    BY <1>1
  <2>2. text[n + y - 1].at < text[n + x - 1].at  BY <2>1 DEF Ordered
  <2>3. QED  BY <1>1, <2>1, <2>2
<1>4. ASSUME NEW x \in 1..Len(p)
      PROVE p[x].kind \notin {"number", "street"} /\ text[n].at <= p[x].at /\ p[x].at <= text[m].at
  <2>1. x \in 1..(m - n + 1)  BY <1>1
  <2> DEFINE k == n + x - 1
  <2>2. k \in n..m /\ p[x].kind = "kept" /\ p[x].at = text[k].at  BY <1>1, <2>1
  <2> HIDE DEF k
  <2>3. k \in 1..Len(text) /\ k \in n..Len(text) /\ m \in k..Len(text)  BY <2>2
  <2>4. text[n].at <= text[k].at /\ text[k].at <= text[m].at  BY <2>3, Later
  <2>5. QED  BY <2>2, <2>4
<1>5. Covers(p, text, n, m)  BY <1>1, <1>2, <1>3, <1>4 DEF Covers
<1>6. QED  BY <1>5 DEF p

\* _mask_credit_card does the one or the other, by the checksum.
LEMMA AsCardIs ==
  ASSUME NEW text, NEW n, NEW m
  PROVE  AsCard(text, n, m) = IF LuhnValid(Digits(text, n, m)) THEN <<CardPiece(text, n, m)>>
                              ELSE Kept(text, n, m)
BY DEF AsCard, CardPiece, Kept

CardEndsOf(text) == [n \in DOMAIN text |-> CardEnd(text, n)]
CardsOf(text) == [n \in Matched(CardEndsOf(text)) |-> AsCard(text, n, CardEndsOf(text)[n])]

\* The pass for cards replaces runs by what can stand for them.
LEMMA CardReplaces ==
  ASSUME NEW text, text \in Seq(WorkPiece), Ordered(text)
  PROVE  Replaces(text, CardEndsOf(text), CardsOf(text))
<1> DEFINE end == CardEndsOf(text)
<1>1. DOMAIN end = 1..Len(text) /\ DOMAIN text = 1..Len(text)  BY DEF CardEndsOf
<1>2. Ends(text, end, CardSeparators, 13, 16)  BY CardEnds DEF CardEndsOf
<1> HIDE DEF end
<1>3. ASSUME NEW n \in 1..Len(text), end[n] # 0
      PROVE  end[n] \in n..Len(text) /\ Covers(CardsOf(text)[n], text, n, end[n])
  <2> DEFINE m == end[n]
  <2>1. CardsOf(text)[n] = AsCard(text, n, m)
    <3>1. n \in Matched(end)  BY <1>1, <1>3 DEF Matched
    <3>2. QED  BY <3>1 DEF CardsOf, end
  <2>2. CASE text[n].kind = "secret" /\ m = n
    <3>1. CardEnd(text, n) = 0
      <4>1. \A k : ~Matches(text, n, k, CardSeparators, 13, 16)
        <5> SUFFICES ASSUME NEW k, Matches(text, n, k, CardSeparators, 13, 16)  PROVE FALSE
          OBVIOUS
        <5>1. k \in n..Len(text) /\ Joined(text, n, k, CardSeparators)  BY DEF Matches
        <5>2. n \in n..k  BY <5>1
        <5>3. text[n].kind = "number"  BY <5>1, <5>2 DEF Joined
        <5>4. QED  BY <2>2, <5>3
      <4>2. QED  BY <4>1, LongestIs DEF CardEnd
    <3>2. QED  BY <1>1, <1>3, <3>1 DEF end, CardEndsOf
  <2>3. CASE Matches(text, n, m, CardSeparators, 13, 16)
    <3> HIDE DEF m
    <3>1. m \in n..Len(text) /\ Len(Digits(text, n, m)) \in 13..16  BY <2>3 DEF Matches
    <3>2. CASE LuhnValid(Digits(text, n, m))
      <4> DEFINE q == CardPiece(text, n, m)
      <4>1. q \in WorkPiece /\ q.kind = "card*" /\ q.at = text[n].at  BY <3>1, CardPieceType
      <4> HIDE DEF q
      <4>2. Covers(<<q>>, text, n, m)  BY <3>1, <4>1, OneCovers
      <4>3. AsCard(text, n, m) = <<q>>  BY <3>2, AsCardIs DEF q
      <4>4. QED  BY <2>1, <3>1, <4>2, <4>3 DEF m
    <3>3. CASE ~LuhnValid(Digits(text, n, m))
      <4>1. Covers(Kept(text, n, m), text, n, m)  BY <3>1, KeptCovers
      <4>2. AsCard(text, n, m) = Kept(text, n, m)  BY <3>3, AsCardIs
      <4>3. QED  BY <2>1, <3>1, <4>1, <4>2 DEF m
    <3>4. QED  BY <3>2, <3>3
  <2>4. QED  BY <1>2, <1>3, <2>2, <2>3 DEF Ends
<1>4. QED  BY <1>3 DEF Replaces, end

\* A phone becomes one piece, with four digits left at most.
HidesPhone(p, text, n) ==
  \E q \in WorkPiece : /\ p = <<q>> /\ q.kind \in Hidden /\ q.at = text[n].at
                       /\ text[n].kind # "secret" => Len(q.digits) <= 4

\* A run of digits in a secret breaks it.
LEMMA SecretBroken ==
  ASSUME NEW text, text \in Seq(WorkPiece), NEW n \in 1..Len(text), NEW m,
         text[n].kind = "secret"
  PROVE  HidesPhone(AsPhone(text, n, m), text, n)
<1> DEFINE t == text[n]
<1>1. t \in WorkPiece /\ "broken secret" \in Kinds  BY PieceType DEF Kinds, Hidden
<1> DEFINE q == [t EXCEPT !.kind = "broken secret"]
<1>2. AsPhone(text, n, m) = <<q>>  BY DEF AsPhone
<1> HIDE DEF t
<1>3. q \in WorkPiece /\ q.kind = "broken secret" /\ q.at = t.at  BY <1>1, Rekinded
<1> HIDE DEF q
<1>4. QED  BY <1>2, <1>3 DEF HidesPhone, Hidden, t

\* [PHONE] has no digits.
LEMMA PhoneHides ==
  ASSUME NEW text, text \in Seq(WorkPiece), NEW n \in 1..Len(text), NEW m
  PROVE  HidesPhone(AsPhone(text, n, m), text, n)
<1>1. CASE text[n].kind = "secret"  BY <1>1, SecretBroken
<1>2. CASE text[n].kind # "secret"
  <2>1. text[n] \in WorkPiece /\ "[PHONE]" \in Kinds /\ <<>> \in Seq(0..9)
    BY PieceType DEF Kinds, Hidden
  <2> DEFINE q == Redo(text[n], "[PHONE]", <<>>)
  <2>2. AsPhone(text, n, m) = <<q>>  BY <1>2 DEF AsPhone, Redo
  <2>3. IsRedone(q, text[n], "[PHONE]", <<>>)  BY <2>1, Redone
  <2>4. Len(<<>>) <= 4  OBVIOUS
  <2> HIDE DEF q
  <2>5. QED  BY <2>2, <2>3, <2>4 DEF HidesPhone, Hidden, IsRedone
<1>3. QED  BY <1>1, <1>2

\* _mask_phone leaves four digits.
LEMMA PartialPhoneHides ==
  ASSUME NEW text, text \in Seq(WorkPiece), NEW n \in 1..Len(text), NEW m,
         text[n].kind # "secret" =>
           m \in n..Len(text) /\ Len(Digits(text, n, m)) \in 10..12
  PROVE  HidesPhone(AsPartialPhone(text, n, m), text, n)
<1>1. CASE text[n].kind = "secret"
  <2>1. AsPartialPhone(text, n, m) = AsPhone(text, n, m)  BY <1>1 DEF AsPartialPhone
  <2>2. QED  BY <1>1, <2>1, SecretBroken
<1>2. CASE text[n].kind # "secret"
  <2> DEFINE ds == Digits(text, n, m)
             national == SubSeq(ds, Len(ds) - 9, Len(ds))
             d == SubSeq(national, 1, 2) \o SubSeq(national, 9, 10)
  <2>0. m \in n..Len(text) /\ Len(ds) \in 10..12  BY <1>2
  <2>1. ds \in Seq(0..9)
    <3>1. PICK c : Counts(c, text)  BY CountsExist
    <3>2. QED  BY <2>0, <3>1, DigitsLength
  <2> HIDE DEF ds
  <2>2. national \in Seq(0..9) /\ Len(national) = 10
    <3> DEFINE l == Len(ds)
    <3>1. l \in 10..12  BY <2>0
    <3> HIDE DEF l
    <3>2. 10 \in 0..l /\ l - 10 + 1 = l - 9  BY <3>1
    <3>3. QED  BY <2>1, <3>2, LastDigits DEF l
  <2> HIDE DEF national
  <2>3. d \in Seq(0..9) /\ Len(d) = 4
    <3>1. \A x \in 1..10 : national[x] \in 0..9
      <4> DEFINE S == 0..9
      <4>1. national \in Seq(S) /\ Len(national) = 10  BY <2>2
      <4> HIDE DEF S
      <4>2. \A x \in 1..Len(national) : national[x] \in S  BY <4>1, ElementType
      <4>3. QED  BY <4>1, <4>2 DEF S
    <3> DEFINE d1 == SubSeq(national, 1, 2)
               d2 == SubSeq(national, 9, 10)
    <3>2. d1 \in Seq(0..9) /\ Len(d1) = 2  BY <2>2, <3>1
    <3>3. d2 \in Seq(0..9) /\ Len(d2) = 2  BY <2>2, <3>1
    <3>4. d = d1 \o d2  OBVIOUS
    <3> HIDE DEF d1, d2
    <3>5. d1 \o d2 \in Seq(0..9) /\ Len(d1 \o d2) = 4
      <4> DEFINE S == 0..9
      <4>1. d1 \in Seq(S) /\ d2 \in Seq(S)  BY <3>2, <3>3
      <4> HIDE DEF S
      <4>2. d1 \o d2 \in Seq(S) /\ Len(d1 \o d2) = Len(d1) + Len(d2)  BY <4>1
      <4>3. QED  BY <3>2, <3>3, <4>2 DEF S
    <3>6. QED  BY <3>4, <3>5
  <2> DEFINE q == Redo(text[n], "phone*", d)
  <2>4. AsPartialPhone(text, n, m) = <<q>>
    BY <1>2 DEF AsPartialPhone, Redo, national, ds
  <2> HIDE DEF d
  <2>5. text[n] \in WorkPiece /\ "phone*" \in Kinds  BY PieceType DEF Kinds, Hidden
  <2>6. IsRedone(q, text[n], "phone*", d)  BY <2>3, <2>5, Redone
  <2> HIDE DEF q
  <2>7. q.digits = d  BY <2>6 DEF IsRedone
  <2>8. Len(q.digits) = 4  BY <2>3, <2>7
  <2>9. Len(q.digits) <= 4  BY <2>8
  <2>10. q \in WorkPiece /\ q.kind \in Hidden /\ q.at = text[n].at  BY <2>6 DEF IsRedone, Hidden
  <2>11. QED  BY <2>4, <2>9, <2>10 DEF HidesPhone
<1>3. QED  BY <1>1, <1>2

PhonesOf(text) == [n \in Matched(PhoneEnds(text)) |-> AsPhone(text, n, PhoneEnds(text)[n])]
PartialPhonesOf(text) ==
  [n \in Matched(PhoneEnds(text)) |-> AsPartialPhone(text, n, PhoneEnds(text)[n])]

\* Either way of hiding them.
HidesPhones(text, new) ==
  \A n \in 1..Len(text) : PhoneEnds(text)[n] # 0 => HidesPhone(new[n], text, n)

\* Both passes do.
LEMMA BothHidePhones ==
  ASSUME NEW text, text \in Seq(WorkPiece)
  PROVE  HidesPhones(text, PhonesOf(text)) /\ HidesPhones(text, PartialPhonesOf(text))
<1> DEFINE end == PhoneEnds(text)
<1>1. DOMAIN end = 1..Len(text)  BY DEF PhoneEnds
<1>2. Ends(text, end, PhoneSeparators, 10, 12)  BY PhoneEndsEnd
<1> HIDE DEF end
<1>3. ASSUME NEW n \in 1..Len(text), end[n] # 0
      PROVE  HidesPhone(PhonesOf(text)[n], text, n) /\ HidesPhone(PartialPhonesOf(text)[n], text, n)
  <2>1. n \in Matched(end)  BY <1>1, <1>3 DEF Matched
  <2> DEFINE m == end[n]
  <2>2. PhonesOf(text)[n] = AsPhone(text, n, m) /\ PartialPhonesOf(text)[n] = AsPartialPhone(text, n, m)
    BY <2>1 DEF PhonesOf, PartialPhonesOf, end
  <2>3. text[n].kind # "secret" => m \in n..Len(text) /\ Len(Digits(text, n, m)) \in 10..12
    BY <1>2, <1>3 DEF Ends, Matches
  <2> HIDE DEF m
  <2>4. HidesPhone(AsPhone(text, n, m), text, n)  BY PhoneHides
  <2>5. HidesPhone(AsPartialPhone(text, n, m), text, n)  BY <2>3, PartialPhoneHides
  <2>6. QED  BY <2>2, <2>4, <2>5
<1>4. QED  BY <1>3 DEF HidesPhones, end

\* So they replace runs by what can stand for them.
LEMMA PhoneReplaces ==
  ASSUME NEW text, text \in Seq(WorkPiece), Ordered(text), NEW new, HidesPhones(text, new)
  PROVE  Replaces(text, PhoneEnds(text), new)
<1> DEFINE end == PhoneEnds(text)
<1>1. Ends(text, end, PhoneSeparators, 10, 12)  BY PhoneEndsEnd
<1>2. \A n \in 1..Len(text) : end[n] # 0 => HidesPhone(new[n], text, n)  BY DEF HidesPhones
<1> HIDE DEF end
<1>3. ASSUME NEW n \in 1..Len(text), end[n] # 0
      PROVE  end[n] \in n..Len(text) /\ Covers(new[n], text, n, end[n])
  <2> DEFINE m == end[n]
  <2>1. m \in n..Len(text)  BY <1>1, <1>3 DEF Ends, Matches
  <2>2. PICK q \in WorkPiece : new[n] = <<q>> /\ q.kind \notin {"number", "street"} /\ q.at = text[n].at
    BY <1>2, <1>3 DEF HidesPhone, Hidden
  <2> HIDE DEF m
  <2>3. Covers(<<q>>, text, n, m)  BY <2>1, <2>2, OneCovers
  <2>4. QED  BY <2>1, <2>2, <2>3 DEF m
<1>4. QED  BY <1>3 DEF Replaces, end

-----------------------------------------------------------------------------
(* What a pass does to a run that nothing joins to its neighbours          *)

\* The greedy match takes the whole run, if the whole is in range.
LEMMA RunHit ==
  ASSUME NEW text, text \in Seq(WorkPiece), NEW seps, NEW least, NEW most,
         NEW i \in 1..Len(text), NEW j \in i..Len(text),
         Joined(text, i, j, seps), Apart(text, i, j, seps),
         Len(Digits(text, i, j)) \in least..most
  PROVE  Longest(text, i, seps, least, most) = j
<1>1. Matches(text, i, j, seps, least, most)  BY DEF Matches
<1>2. ASSUME NEW m, Matches(text, i, m, seps, least, most)  PROVE m <= j
  <2> SUFFICES ASSUME ~(m <= j)  PROVE FALSE  OBVIOUS
  <2>1. m \in i..Len(text) /\ Joined(text, i, m, seps)  BY <1>2 DEF Matches
  <2>2. j + 1 \in i..m /\ j + 1 \in (i + 1)..m /\ j < Len(text)  BY <2>1
  <2>3. text[j + 1].kind = "number" /\ text[j + 1].sep \in seps  BY <2>1, <2>2 DEF Joined
  <2>4. QED  BY <2>2, <2>3 DEF Apart
<1>3. QED  BY <1>1, <1>2, LongestIs

\* The pass for phones takes a phone that stands by itself as a whole.
LEMMA PhoneHit ==
  ASSUME NEW text, text \in Seq(WorkPiece),
         NEW i \in 1..Len(text), NEW j \in i..Len(text), text[i].sep # "-",
         Joined(text, i, j, PhoneSeparators), Apart(text, i, j, PhoneSeparators),
         Len(Digits(text, i, j)) \in 10..12
  PROVE  PhoneEnds(text)[i] = j
<1>1. i \in i..j /\ i \in DOMAIN text  OBVIOUS
<1>2. text[i].kind # "secret"  BY <1>1 DEF Joined
<1>3. Longest(text, i, PhoneSeparators, 10, 12) = j  BY RunHit
<1>4. PhoneEnd(text, i) = j  BY <1>2, <1>3 DEF PhoneEnd
<1>5. QED  BY <1>1, <1>4 DEF PhoneEnds

\* The pass for cards takes a run as long as a card as a whole.
LEMMA CardHit ==
  ASSUME NEW text, text \in Seq(WorkPiece),
         NEW i \in 1..Len(text), NEW j \in i..Len(text),
         Joined(text, i, j, CardSeparators), Apart(text, i, j, CardSeparators),
         Len(Digits(text, i, j)) \in 13..16
  PROVE  CardEndsOf(text)[i] = j
<1>1. i \in DOMAIN text  OBVIOUS
<1>2. Longest(text, i, CardSeparators, 13, 16) = j  BY RunHit
<1>3. QED  BY <1>1, <1>2 DEF CardEndsOf, CardEnd

\* t holds from a to b what s holds from i to j.
Copied(t, a, b, s, i, j) ==
  /\ i \in Nat /\ j \in Nat /\ a \in Nat /\ b \in Nat /\ j - i = b - a
  /\ \A x \in 1..(j - i + 1) : t[a + x - 1] = s[i + x - 1]

\* A run that is copied is still joined, and has the same digits.
LEMMA CopiedRun ==
  ASSUME NEW s, NEW t, NEW i, NEW j, NEW a, NEW b,
         Copied(t, a, b, s, i, j), NEW seps, Joined(s, i, j, seps)
  PROVE  Joined(t, a, b, seps) /\ Digits(t, a, b) = Digits(s, i, j)
<1>0. /\ i \in Nat /\ j \in Nat /\ a \in Nat /\ b \in Nat /\ j - i = b - a
      /\ \A x \in 1..(j - i + 1) : t[a + x - 1] = s[i + x - 1]  BY DEF Copied
<1>1. ASSUME NEW k \in a..b  PROVE k - a + i \in i..j /\ t[k] = s[k - a + i]
  <2>1. k - a + 1 \in 1..(j - i + 1) /\ a + (k - a + 1) - 1 = k /\ i + (k - a + 1) - 1 = k - a + i
        /\ k - a + i \in i..j
    BY <1>0
  <2>2. t[a + (k - a + 1) - 1] = s[i + (k - a + 1) - 1]  BY <1>0, <2>1
  <2>3. QED  BY <2>1, <2>2
<1>2. \A k \in (a + 1)..b : k \in a..b /\ k - a + i \in (i + 1)..j  BY <1>0
<1>3. Joined(t, a, b, seps)  BY <1>1, <1>2 DEF Joined
<1>4. b - a + 1 = j - i + 1  BY <1>0
<1>5. [k \in 1..(b - a + 1) |-> t[a + k - 1].digits] = [k \in 1..(j - i + 1) |-> s[i + k - 1].digits]
  BY <1>0, <1>4
<1>6. QED  BY <1>3, <1>5 DEF Digits

\* Phrases are replaced where they stand.
IsRephrased(t, s, kind, new) ==
  /\ t \in Seq(WorkPiece) /\ Len(t) = Len(s)
  /\ \A x \in 1..Len(s) :
       /\ t[x].at = s[x].at /\ t[x].digits = s[x].digits /\ t[x].sep = s[x].sep
       /\ t[x].kind = IF s[x].kind = kind THEN new ELSE s[x].kind
       /\ s[x].kind # kind => t[x] = s[x]

\* SubPhrase does that.
LEMMA Rephrased ==
  ASSUME NEW s, s \in Seq(WorkPiece), NEW kind, NEW new \in Kinds
  PROVE  IsRephrased(SubPhrase(s, kind, new), s, kind, new)
<1> DEFINE t == SubPhrase(s, kind, new)
           L == Len(s)
<1>1. L \in Nat /\ DOMAIN s = 1..L  OBVIOUS
<1>2. t = [x \in 1..L |-> IF s[x].kind = kind THEN [s[x] EXCEPT !.kind = new] ELSE s[x]]
  BY <1>1 DEF SubPhrase
<1> HIDE DEF t, L
<1>3. ASSUME NEW x \in 1..L
      PROVE  /\ t[x] \in WorkPiece
             /\ t[x].at = s[x].at /\ t[x].digits = s[x].digits /\ t[x].sep = s[x].sep
             /\ t[x].kind = IF s[x].kind = kind THEN new ELSE s[x].kind
             /\ s[x].kind # kind => t[x] = s[x]
  <2> DEFINE p == s[x]
  <2>1. p \in WorkPiece  BY PieceType DEF L
  <2>2. t[x] = IF p.kind = kind THEN [p EXCEPT !.kind = new] ELSE p  BY <1>2
  <2> HIDE DEF p
  <2>3. LET q == [p EXCEPT !.kind = new] IN
        q \in WorkPiece /\ q.kind = new /\ q.sep = p.sep /\ q.digits = p.digits /\ q.at = p.at
    BY <2>1, Rekinded
  <2>4. QED  BY <2>1, <2>2, <2>3 DEF p
<1>4. \A x \in 1..L : t[x] \in WorkPiece  BY <1>3
<1>5. t = [x \in 1..L |-> t[x]]  BY <1>2
<1>6. t \in Seq(WorkPiece) /\ Len(t) = L  BY <1>1, <1>4, <1>5
<1>7. IsRephrased(t, s, kind, new)  BY <1>3, <1>6 DEF IsRephrased, L
<1>8. QED  BY <1>7 DEF t

\* It reorders nothing.
LEMMA RephrasedOrdered ==
  ASSUME NEW s, s \in Seq(WorkPiece), Ordered(s), NEW t, NEW kind, NEW new,
         IsRephrased(t, s, kind, new)
  PROVE  Ordered(t)
<1> SUFFICES ASSUME NEW n \in 1..Len(t), NEW m \in 1..(n - 1)  PROVE t[m].at < t[n].at
  BY DEF Ordered
<1>1. n \in 1..Len(s) /\ m \in 1..Len(s)  BY DEF IsRephrased
<1>2. s[m].at < s[n].at  BY <1>1 DEF Ordered
<1>3. t[m].at = s[m].at /\ t[n].at = s[n].at  BY <1>1 DEF IsRephrased
<1>4. QED  BY <1>2, <1>3

\* It makes no number, so nothing joins what was apart.
LEMMA RephrasedApart ==
  ASSUME NEW s, s \in Seq(WorkPiece), NEW t, NEW kind, NEW new, new # "number",
         IsRephrased(t, s, kind, new),
         NEW a \in 1..Len(s), NEW b \in a..Len(s), NEW seps, Apart(s, a, b, seps)
  PROVE  Apart(t, a, b, seps)
<1>1. Len(t) = Len(s) /\ t[a].sep = s[a].sep  BY DEF IsRephrased
<1>2. \A x \in 1..Len(s) : t[x].sep = s[x].sep /\ (s[x].kind # "number" => t[x].kind # "number")
  BY DEF IsRephrased
<1>3. a > 1 => a - 1 \in 1..Len(s)  OBVIOUS
<1>4. b < Len(s) => b + 1 \in 1..Len(s)  OBVIOUS
<1>5. QED  BY <1>1, <1>2, <1>3, <1>4 DEF Apart

\* Where something stands that is not of the kind, it still stands.
LEMMA RephrasedStands ==
  ASSUME NEW s, s \in Seq(WorkPiece), NEW t, NEW kind, NEW new, IsRephrased(t, s, kind, new),
         NEW mid, mid \in Seq(WorkPiece), \A x \in 1..Len(mid) : mid[x].kind # kind,
         NEW a, NEW lo, NEW hi, Stands(s, mid, a, lo, hi)
  PROVE  Stands(t, mid, a, lo, hi)
<1>1. t \in Seq(WorkPiece) /\ Len(t) = Len(s)  BY DEF IsRephrased
<1>2. a \in Nat \ {0} /\ a + Len(mid) - 1 <= Len(s) /\ Len(mid) \in Nat  BY DEF Stands
<1>3. ASSUME NEW x \in 1..Len(mid)  PROVE t[a + x - 1] = mid[x]
  <2>1. a + x - 1 \in 1..Len(s)  BY <1>2
  <2>2. s[a + x - 1] = mid[x] /\ mid[x].kind # kind  BY DEF Stands
  <2>3. s[a + x - 1].kind # kind => t[a + x - 1] = s[a + x - 1]  BY <2>1 DEF IsRephrased
  <2>4. QED  BY <2>2, <2>3
<1>4. ASSUME NEW x \in 1..Len(s)
      PROVE  IF x < a THEN t[x].at < lo ELSE x >= a + Len(mid) => t[x].at > hi
  <2>1. t[x].at = s[x].at  BY DEF IsRephrased
  <2>2. IF x < a THEN s[x].at < lo ELSE x >= a + Len(mid) => s[x].at > hi  BY DEF Stands
  <2>3. QED  BY <2>1, <2>2
<1>5. QED  BY <1>1, <1>2, <1>3, <1>4 DEF Stands

-----------------------------------------------------------------------------
(* What is left after the passes                                           *)

\* Like Stands, with no word about the separators, and a number for what was
\* walled off.
Shows(s, mid, a, lo, hi) ==
  /\ s \in Seq(WorkPiece) /\ a \in Nat \ {0} /\ a + Len(mid) - 1 <= Len(s)
  /\ \A x \in 1..Len(mid) :
       /\ s[a + x - 1].at = mid[x].at /\ s[a + x - 1].digits = mid[x].digits
       /\ mid[x].kind \in {"number", "kept"} => s[a + x - 1].kind \in {"number", "kept"}
  /\ \A x \in 1..Len(s) : IF x < a THEN s[x].at < lo ELSE x >= a + Len(mid) => s[x].at > hi

\* A text of which nothing but separators and kinds has changed.
Alike(t, s) ==
  /\ t \in Seq(WorkPiece) /\ Len(t) = Len(s)
  /\ \A x \in 1..Len(s) :
       /\ t[x].at = s[x].at /\ t[x].digits = s[x].digits
       /\ s[x].kind \in {"number", "kept"} => t[x].kind \in {"number", "kept"}

\* What stands in a text shows in it.
LEMMA StandsShows ==
  ASSUME NEW s, NEW mid, NEW a, NEW lo, NEW hi, Stands(s, mid, a, lo, hi)
  PROVE  Shows(s, mid, a, lo, hi)
<1>1. \A x \in 1..Len(mid) : s[a + x - 1] = mid[x]  BY DEF Stands
<1>2. QED  BY <1>1 DEF Stands, Shows

\* What shows in a text shows in one alike.
LEMMA AlikeShows ==
  ASSUME NEW s, NEW t, Alike(t, s), NEW mid, mid \in Seq(WorkPiece),
         NEW a, NEW lo, NEW hi, Shows(s, mid, a, lo, hi)
  PROVE  Shows(t, mid, a, lo, hi)
<1>1. t \in Seq(WorkPiece) /\ Len(t) = Len(s)  BY DEF Alike
<1>2. a \in Nat \ {0} /\ a + Len(mid) - 1 <= Len(s) /\ Len(mid) \in Nat /\ Len(s) \in Nat
  BY <1>1 DEF Shows
<1>3. ASSUME NEW x \in 1..Len(mid)
      PROVE  /\ t[a + x - 1].at = mid[x].at /\ t[a + x - 1].digits = mid[x].digits
             /\ mid[x].kind \in {"number", "kept"} => t[a + x - 1].kind \in {"number", "kept"}
  <2> DEFINE k == a + x - 1
  <2>1. k \in 1..Len(s)  BY <1>2
  <2>2. /\ s[k].at = mid[x].at /\ s[k].digits = mid[x].digits
        /\ mid[x].kind \in {"number", "kept"} => s[k].kind \in {"number", "kept"}
    BY DEF Shows
  <2> HIDE DEF k
  <2>3. /\ t[k].at = s[k].at /\ t[k].digits = s[k].digits
        /\ s[k].kind \in {"number", "kept"} => t[k].kind \in {"number", "kept"}
    BY <2>1 DEF Alike
  <2>4. QED  BY <2>2, <2>3 DEF k
<1>4. ASSUME NEW x \in 1..Len(s)
      PROVE  IF x < a THEN t[x].at < lo ELSE x >= a + Len(mid) => t[x].at > hi
  <2>1. t[x].at = s[x].at  BY DEF Alike
  <2>2. IF x < a THEN s[x].at < lo ELSE x >= a + Len(mid) => s[x].at > hi  BY DEF Shows
  <2>3. QED  BY <2>1, <2>2
<1>5. QED  BY <1>1, <1>2, <1>3, <1>4 DEF Shows

\* To be alike is transitive.
LEMMA AlikeTwice ==
  ASSUME NEW r, NEW s, NEW t, Alike(t, s), Alike(s, r)  PROVE  Alike(t, r)
<1>1. Len(s) = Len(r)  BY DEF Alike
<1>2. QED  BY <1>1 DEF Alike

\* A text that is alike is in the same order.
LEMMA AlikeOrdered ==
  ASSUME NEW s, Ordered(s), NEW t, Alike(t, s)  PROVE  Ordered(t)
<1>0. Len(t) \in Nat /\ Len(t) = Len(s)  BY DEF Alike
<1> SUFFICES ASSUME NEW n \in 1..Len(t), NEW m \in 1..(n - 1)  PROVE t[m].at < t[n].at
  BY DEF Ordered
<1>1. n \in 1..Len(s) /\ m \in 1..Len(s)  BY <1>0
<1>2. s[m].at < s[n].at  BY <1>1 DEF Ordered
<1>3. t[m].at = s[m].at /\ t[n].at = s[n].at  BY <1>1 DEF Alike
<1>4. QED  BY <1>2, <1>3

\* To replace phrases makes a text alike.
LEMMA RephrasedAlike ==
  ASSUME NEW s, NEW t, NEW kind, NEW new, IsRephrased(t, s, kind, new),
         kind \notin {"number", "kept"} \/ new \in {"number", "kept"}
  PROVE  Alike(t, s)
BY DEF IsRephrased, Alike

\* So does to drop separators behind cards.
LEMMA GluedAlike ==
  ASSUME NEW s, s \in Seq(WorkPiece)
  PROVE  Alike(Glued(s), s)
<1> DEFINE t == Glued(s)
           L == Len(s)
<1>1. L \in Nat /\ DOMAIN s = 1..L  OBVIOUS
<1>2. t = [n \in 1..L |->
             IF n > 1 /\ s[n - 1].kind = "card*" /\ s[n].sep \in CardSeparators
               THEN [s[n] EXCEPT !.sep = ""] ELSE s[n]]
  BY <1>1 DEF Glued
<1> HIDE DEF t, L
<1>3. ASSUME NEW x \in 1..L
      PROVE  /\ t[x] \in WorkPiece
             /\ t[x].at = s[x].at /\ t[x].digits = s[x].digits /\ t[x].kind = s[x].kind
  <2> DEFINE p == s[x]
             q == [p EXCEPT !.sep = ""]
  <2>1. p \in WorkPiece  BY PieceType DEF L
  <2>2. t[x] = q \/ t[x] = p  BY <1>2
  <2>3. q \in WorkPiece /\ q.at = p.at /\ q.digits = p.digits /\ q.kind = p.kind
    BY <2>1 DEF WorkPiece, Separators
  <2> HIDE DEF q
  <2>4. QED  BY <2>1, <2>2, <2>3
<1>4. \A x \in 1..L : t[x] \in WorkPiece  BY <1>3
<1>5. t = [x \in 1..L |-> t[x]]  BY <1>2
<1>6. t \in Seq(WorkPiece) /\ Len(t) = L  BY <1>1, <1>4, <1>5
<1>7. Alike(t, s)  BY <1>3, <1>6 DEF Alike, L
<1>8. QED  BY <1>7 DEF t

\* The last steps of scan_output, and the last of mask_input.
Shown(noPhone) ==
  SubPhrase(SubPhrase(Glued(noPhone), "kept", "number"), "secret", "[SECRET]")
Stored(noAddress) == SubPhrase(noAddress, "name", "[NAME]")

\* The last steps of scan_output leave a text alike, of which nothing is marked.
LEMMA ShownAlike ==
  ASSUME NEW s, s \in Seq(WorkPiece)
  PROVE  Alike(Shown(s), s) /\ \A x \in 1..Len(Shown(s)) : Shown(s)[x] \in Piece
<1> DEFINE g == Glued(s)
           u == SubPhrase(g, "kept", "number")
           t == SubPhrase(u, "secret", "[SECRET]")
<1>0. "number" \in Kinds /\ "[SECRET]" \in Kinds  BY DEF Kinds, Hidden
<1>1. Alike(g, s)  BY GluedAlike
<1> HIDE DEF g
<1>2. g \in Seq(WorkPiece)  BY <1>1 DEF Alike
<1>3. IsRephrased(u, g, "kept", "number")  BY <1>0, <1>2, Rephrased
<1> HIDE DEF u
<1>4. u \in Seq(WorkPiece)  BY <1>3 DEF IsRephrased
<1>5. IsRephrased(t, u, "secret", "[SECRET]")  BY <1>0, <1>4, Rephrased
<1> HIDE DEF t
<1>6. Alike(t, u) /\ Alike(u, g)  BY <1>3, <1>5, RephrasedAlike
<1>7. Alike(t, s)  BY <1>1, <1>6, AlikeTwice
<1>8. ASSUME NEW x \in 1..Len(t)  PROVE t[x] \in Piece
  <2>1. x \in 1..Len(u) /\ x \in 1..Len(g)  BY <1>3, <1>5 DEF IsRephrased
  <2>2. u[x].kind # "kept"  BY <1>3, <2>1 DEF IsRephrased
  <2>3. t[x].kind # "kept"  BY <1>5, <2>1, <2>2 DEF IsRephrased
  <2>4. t \in Seq(WorkPiece)  BY <1>5 DEF IsRephrased
  <2>5. t[x] \in WorkPiece  BY <2>4, PieceType
  <2>6. QED  BY <2>3, <2>5 DEF WorkPiece, Piece
<1>9. QED  BY <1>7, <1>8 DEF Shown, t, u, g

\* So does that of mask_input, which marked nothing.
LEMMA StoredAlike ==
  ASSUME NEW s, s \in Seq(WorkPiece), \A x \in 1..Len(s) : s[x].kind # "kept"
  PROVE  /\ Alike(Stored(s), s) /\ \A x \in 1..Len(Stored(s)) : Stored(s)[x] \in Piece
         /\ \A x \in 1..Len(s) : s[x].kind = "[ADDRESS]" => Stored(s)[x].kind = "[ADDRESS]"
<1> DEFINE t == SubPhrase(s, "name", "[NAME]")
<1>0. "[NAME]" \in Kinds  BY DEF Kinds, Hidden
<1>1. IsRephrased(t, s, "name", "[NAME]")  BY <1>0, Rephrased
<1> HIDE DEF t
<1>2. Alike(t, s)  BY <1>1, RephrasedAlike
<1>3. ASSUME NEW x \in 1..Len(t)  PROVE t[x] \in Piece
  <2>1. x \in 1..Len(s)  BY <1>1 DEF IsRephrased
  <2>2. t[x].kind # "kept"  BY <1>1, <2>1 DEF IsRephrased
  <2>3. t \in Seq(WorkPiece)  BY <1>1 DEF IsRephrased
  <2>4. t[x] \in WorkPiece  BY <2>3, PieceType
  <2>5. QED  BY <2>2, <2>4 DEF WorkPiece, Piece
<1>4. \A x \in 1..Len(s) : s[x].kind = "[ADDRESS]" => t[x].kind = "[ADDRESS]"
  BY <1>1 DEF IsRephrased
<1>5. QED  BY <1>2, <1>3, <1>4 DEF Stored, t

\* All pieces of p were at i to j.
Within(p, i, j) == p \in Seq(WorkPiece) /\ \A x \in 1..Len(p) : p[x].at \in i..j

\* What was made of the pieces i to j is what stands in their place.
LEMMA MadeIs ==
  ASSUME NEW mid, NEW a, NEW i \in Nat, NEW j \in Nat,
         Shows(seen, mid, a, i, j), Within(mid, i, j)
  PROVE  Made(<<i, j>>) = a..(a + Len(mid) - 1) /\ Cardinality(Made(<<i, j>>)) = Len(mid)
<1>0. mid \in Seq(WorkPiece) /\ \A x \in 1..Len(mid) : mid[x].at \in i..j  BY DEF Within
<1> DEFINE b == a + Len(mid) - 1
<1>1. seen \in Seq(WorkPiece) /\ a \in Nat \ {0} /\ b <= Len(seen)  BY DEF Shows
<1>2. DOMAIN seen = 1..Len(seen) /\ Len(seen) \in Nat /\ Len(mid) \in Nat  BY <1>0, <1>1
<1>3. ASSUME NEW n \in 1..Len(seen)  PROVE seen[n].at \in i..j <=> n \in a..b
  <2>0. seen[n].at \in Nat  BY <1>1, PieceType
  <2>1. CASE n < a
    <3>1. seen[n].at < i  BY <2>1 DEF Shows
    <3>2. ~(seen[n].at \in i..j)
      <4> DEFINE y == seen[n].at
      <4>1. y \in Nat /\ y < i  BY <2>0, <3>1
      <4> HIDE DEF y
      <4>2. ~(y \in i..j)  BY <4>1
      <4>3. QED  BY <4>2 DEF y
    <3>3. QED  BY <1>1, <2>1, <3>2
  <2>2. CASE n >= a + Len(mid)
    <3>1. ~(n < a)  BY <1>1, <1>2, <2>2
    <3>2. seen[n].at > j  BY <2>2, <3>1 DEF Shows
    <3>3. ~(seen[n].at \in i..j)
      <4> DEFINE y == seen[n].at
      <4>1. y \in Nat /\ y > j  BY <2>0, <3>2
      <4> HIDE DEF y
      <4>2. ~(y \in i..j)  BY <4>1
      <4>3. QED  BY <4>2 DEF y
    <3>4. QED  BY <1>1, <1>2, <2>2, <3>3
  <2>3. CASE ~(n < a) /\ ~(n >= a + Len(mid))
    <3>1. n - a + 1 \in 1..Len(mid) /\ a + (n - a + 1) - 1 = n /\ n \in a..b
      BY <1>1, <1>2, <2>3
    <3>2. seen[a + (n - a + 1) - 1].at = mid[n - a + 1].at  BY <3>1 DEF Shows
    <3>3. seen[n].at \in i..j  BY <1>0, <3>1, <3>2
    <3>4. QED  BY <3>1, <3>3
  <2>4. QED  BY <2>1, <2>2, <2>3
<1>4. a..b \subseteq 1..Len(seen)  BY <1>1, <1>2
<1>5. Made(<<i, j>>) = a..b
  <2>1. Made(<<i, j>>) = {n \in 1..Len(seen) : seen[n].at \in i..j}  BY <1>2 DEF Made
  <2>2. QED  BY <1>3, <1>4, <2>1
<1>6. Cardinality(a..b) = Len(mid)
  <2>1. a \in Int /\ b \in Int  BY <1>1, <1>2
  <2>2. Cardinality(a..b) = IF a > b THEN 0 ELSE b - a + 1
    <3> HIDE DEF b
    <3>1. QED  BY <2>1, FS_Interval
  <2>3. QED  BY <1>1, <1>2, <2>2
<1>7. QED  BY <1>5, <1>6

\* A pass makes nothing but what the text and the replacements are made of, but
\* for a piece e of the text at which it never begins.
LEMMA SubIn ==
  ASSUME NEW text, text \in Seq(WorkPiece), NEW end, NEW new, Replaces(text, end, new),
         NEW Q, NEW e \in Nat, e # 1,
         \A n \in 1..Len(text) : n # e /\ end[n] = 0 => text[n] \in Q /\ n + 1 # e,
         \A n \in 1..Len(text) : n # e /\ end[n] # 0 =>
           end[n] + 1 # e /\ \A x \in 1..Len(new[n]) : new[n][x] \in Q
  PROVE  \A x \in 1..Len(Sub(text, end, new)) : Sub(text, end, new)[x] \in Q
<1>1. PICK from : Sub(text, end, new) = from[1] /\ Computes(from, text, end, new)  BY SubComputed
<1> DEFINE L == Len(text)
           In(s) == \A x \in 1..Len(s) : s[x] \in Q
           T == {n \in 1..(L + 1) : n # e => In(from[n])}
<1>0. L \in Nat /\ L = Len(text)  OBVIOUS
<1> HIDE DEF L
<1>2. ASSUME NEW p, p \in Seq(WorkPiece), In(p), NEW q, q \in Seq(WorkPiece), In(q)
      PROVE  In(p \o q)
  <2> DEFINE s == p \o q
  <2>1. Joins(s, p, q)  BY <1>2, JoinIs
  <2>2. Len(p) \in Nat /\ Len(q) \in Nat  BY <1>2
  <2> HIDE DEF s
  <2>3. ASSUME NEW x \in 1..Len(s)  PROVE s[x] \in Q
    <3>1. IF x <= Len(p) THEN x \in 1..Len(p) /\ s[x] = p[x]
          ELSE x - Len(p) \in 1..Len(q) /\ s[x] = q[x - Len(p)]
      BY <2>1, <2>2 DEF Joins
    <3>2. QED  BY <1>2, <3>1
  <2>4. QED  BY <2>3 DEF s
<1>3. ASSUME NEW n \in 1..(L + 1), \A k \in (n + 1)..(L + 1) : k \in T  PROVE n \in T
  <2> SUFFICES ASSUME n # e  PROVE In(from[n])  OBVIOUS
  <2>1. from[n] = Rest(from, text, end, new, n)  BY <1>0, <1>1 DEF Computes
  <2>2. CASE n > L
    <3>1. from[n] = <<>>  BY <1>0, <2>1, <2>2 DEF Rest
    <3>2. In(<<>>)  OBVIOUS
    <3>3. QED  BY <3>1, <3>2
  <2>3. CASE ~(n > L) /\ end[n] = 0
    <3>0. n \in 1..L /\ n + 1 \in (n + 1)..(L + 1) /\ n + 1 \in 1..(L + 1)  BY <1>0, <2>3
    <3>1. n \in 1..L /\ n + 1 \in (n + 1)..(L + 1) /\ n + 1 \in 1..(L + 1) /\ n + 1 # e
      BY <1>0, <2>3, <3>0
    <3>2. from[n + 1] \in Seq(WorkPiece) /\ In(from[n + 1])
      BY <1>0, <1>1, <1>3, <3>1 DEF Computes
    <3>3. text[n] \in WorkPiece /\ text[n] \in Q  BY <1>0, <2>3, <3>1, PieceType
    <3>4. <<text[n]>> \in Seq(WorkPiece) /\ In(<<text[n]>>)
      <4>1. Len(<<text[n]>>) = 1 /\ <<text[n]>>[1] = text[n]  OBVIOUS
      <4>2. \A x \in 1..Len(<<text[n]>>) : x = 1  BY <4>1
      <4>3. QED  BY <3>3, <4>1, <4>2
    <3>5. from[n] = <<text[n]>> \o from[n + 1]  BY <1>0, <2>1, <2>3 DEF Rest
    <3> DEFINE p == <<text[n]>>
               q == from[n + 1]
    <3> HIDE DEF p, q, In
    <3>6. In(p \o q)  BY <1>2, <3>2, <3>4 DEF p, q
    <3>7. QED  BY <3>5, <3>6 DEF p, q
  <2>4. CASE ~(n > L) /\ end[n] # 0
    <3>1. n \in 1..L  BY <1>0, <2>4
    <3> DEFINE m == end[n]
               p == new[n]
               q == from[m + 1]
    <3>2. m \in n..L /\ p \in Seq(WorkPiece)  BY <1>0, <2>4, <3>1 DEF Replaces, Covers
    <3>3. from[n] = p \o q  BY <1>0, <2>1, <2>4 DEF Rest
    <3>4. In(p) /\ m + 1 # e  BY <1>0, <2>4, <3>1
    <3> HIDE DEF m, p
    <3>5. m + 1 \in (n + 1)..(L + 1) /\ m + 1 \in 1..(L + 1)  BY <1>0, <3>1, <3>2
    <3>6. q \in Seq(WorkPiece) /\ In(q)  BY <1>0, <1>1, <1>3, <3>4, <3>5 DEF Computes
    <3> HIDE DEF q, In
    <3>7. In(p \o q)  BY <1>2, <3>2, <3>4, <3>6
    <3>8. QED  BY <3>3, <3>7
  <2>5. QED  BY <2>2, <2>3, <2>4
<1>4. 1..(L + 1) \subseteq T
  <2> HIDE DEF T
  <2>1. L + 1 \in Nat  BY <1>0
  <2>2. QED  BY <1>3, <2>1, Downward
<1>5. 1 \in 1..(L + 1)  BY <1>0
<1>6. In(from[1])  BY <1>4, <1>5
<1>7. QED  BY <1>1, <1>6

\* What stands in a text is part of it.
LEMMA StandsPart ==
  ASSUME NEW s, NEW mid, mid \in Seq(WorkPiece), mid # <<>>, NEW a, NEW lo, NEW hi,
         Stands(s, mid, a, lo, hi)
  PROVE  LET b == a + Len(mid) - 1 IN
         /\ a \in 1..Len(s) /\ b \in a..Len(s) /\ mid = SubSeq(s, a, b) /\ b - a + 1 = Len(mid)
         /\ \A k \in a..b : k - a + 1 \in 1..Len(mid) /\ s[k] = mid[k - a + 1]
         /\ Before(s, a, lo) /\ After(s, b + 1, hi)
<1> DEFINE b == a + Len(mid) - 1
           m == Len(mid)
<1>1. m \in Nat \ {0} /\ s \in Seq(WorkPiece) /\ Len(s) \in Nat  BY DEF Stands
<1>2. a \in Nat \ {0} /\ a + m - 1 <= Len(s)  BY DEF Stands
<1>3. a \in 1..Len(s) /\ b \in a..Len(s) /\ b - a + 1 = m  BY <1>1, <1>2
<1>4. \A x \in 1..m : s[a + x - 1] = mid[x]  BY DEF Stands
<1>5. \A x \in 1..Len(s) : IF x < a THEN s[x].at < lo ELSE x >= a + m => s[x].at > hi
  BY DEF Stands
<1> HIDE DEF m
<1>6. ASSUME NEW k \in a..b  PROVE k - a + 1 \in 1..m /\ s[k] = mid[k - a + 1]
  <2>1. k - a + 1 \in 1..m /\ a + (k - a + 1) - 1 = k  BY <1>1, <1>2 DEF m
  <2>2. s[a + (k - a + 1) - 1] = mid[k - a + 1]  BY <1>4, <2>1
  <2>3. QED  BY <2>1, <2>2
<1>7. mid = SubSeq(s, a, b)
  <2> DEFINE u == SubSeq(s, a, b)
  <2>1. b \in Nat  BY <1>3
  <2>2. u = [x \in 1..(b - a + 1) |-> s[a + x - 1]]  BY <1>2, <2>1
  <2>3. u = [x \in 1..m |-> s[a + x - 1]]  BY <1>3, <2>2
  <2> HIDE DEF u
  <2>4. mid = [x \in 1..m |-> mid[x]]  BY DEF m
  <2>5. [x \in 1..m |-> mid[x]] = [x \in 1..m |-> s[a + x - 1]]  BY <1>4
  <2>6. QED  BY <2>3, <2>4, <2>5 DEF u
<1>8. Before(s, a, lo)
  <2>1. \A x \in 1..(a - 1) : x \in 1..Len(s) /\ x < a  BY <1>1, <1>2, <1>3
  <2>2. QED  BY <1>5, <2>1 DEF Before
<1>9. After(s, b + 1, hi)
  <2>1. \A x \in (b + 1)..Len(s) : x \in 1..Len(s) /\ ~(x < a) /\ x >= a + m
    BY <1>1, <1>2, <1>3 DEF m
  <2>2. QED  BY <1>5, <2>1 DEF After
<1>10. QED  BY <1>3, <1>6, <1>7, <1>8, <1>9 DEF m

\* The pass for phones leaves what is no number or secret, and what is too short.
LEMMA PhonePassLeaves ==
  ASSUME NEW text, text \in Seq(WorkPiece), Ordered(text), NEW new, HidesPhones(text, new),
         NEW mid, mid \in Seq(WorkPiece), mid # <<>>, NEW a, NEW lo \in Nat, NEW hi \in Nat,
         Stands(text, mid, a, lo, hi), NEW b, b = a + Len(mid) - 1,
         \/ \A x \in 1..Len(mid) : mid[x].kind \notin {"number", "secret"}
         \/ /\ Joined(text, a, b, PhoneSeparators) /\ Apart(text, a, b, PhoneSeparators)
            /\ Len(Digits(text, a, b)) < 10
  PROVE  LET s == Sub(text, PhoneEnds(text), new) IN
         /\ s \in Seq(WorkPiece) /\ Ordered(s)
         /\ \E c : Stands(s, mid, c, lo, hi) /\ Beside(s, c, c + Len(mid) - 1, text, a, b)
<1> DEFINE end == PhoneEnds(text)
<1>1. /\ a \in 1..Len(text) /\ b \in a..Len(text) /\ mid = SubSeq(text, a, b)
      /\ \A k \in a..b : k - a + 1 \in 1..Len(mid) /\ text[k] = mid[k - a + 1]
      /\ Before(text, a, lo) /\ After(text, b + 1, hi)
  BY StandsPart
<1>2. Ends(text, end, PhoneSeparators, 10, 12) /\ Replaces(text, end, new)
  BY PhoneEndsEnd, PhoneReplaces
<1> HIDE DEF end
<1>3. Clear(end, a) /\ Unmatched(end, a, b)
  <2>1. CASE \A x \in 1..Len(mid) : mid[x].kind \notin {"number", "secret"}
    <3>1. NoNumbers(text, a, b)  BY <1>1, <2>1 DEF NoNumbers
    <3>2. QED  BY <1>1, <1>2, <3>1, HiddenClear
  <2>2. CASE /\ Joined(text, a, b, PhoneSeparators) /\ Apart(text, a, b, PhoneSeparators)
             /\ Len(Digits(text, a, b)) < 10
    <3>1. Clear(end, a)  BY <1>1, <1>2, <2>2, RunClear
    <3>2. 10 \in Nat /\ 12 \in Nat  OBVIOUS
    <3>3. Unmatched(end, a, b)  BY <1>1, <1>2, <2>2, <3>2, RunShort
    <3>4. QED  BY <3>1, <3>3
  <2>3. QED  BY <2>1, <2>2
<1>4. Becomes(mid, text, end, new, a, b)  BY <1>1, <1>3 DEF Becomes, Unmatched
<1>5. LET s == Sub(text, end, new) IN
      /\ s \in Seq(WorkPiece) /\ Ordered(s)
      /\ \E c : Stands(s, mid, c, lo, hi) /\ Beside(s, c, c + Len(mid) - 1, text, a, b)
  BY <1>1, <1>2, <1>3, <1>4, SubBlock
<1>6. QED  BY <1>5 DEF end

\* It hides a phone that stands by itself.
LEMMA PhonePassHides ==
  ASSUME NEW text, text \in Seq(WorkPiece), Ordered(text), NEW new, HidesPhones(text, new),
         NEW mid, mid \in Seq(WorkPiece), mid # <<>>, NEW a, NEW lo \in Nat, NEW hi \in Nat,
         Stands(text, mid, a, lo, hi), NEW b, b = a + Len(mid) - 1, mid[1].sep # "-",
         Joined(text, a, b, PhoneSeparators), Apart(text, a, b, PhoneSeparators),
         Len(Digits(text, a, b)) \in 10..12
  PROVE  LET s == Sub(text, PhoneEnds(text), new) IN
         /\ s \in Seq(WorkPiece) /\ Ordered(s)
         /\ \E q \in WorkPiece : /\ q.at = mid[1].at /\ q.kind \in Hidden /\ Len(q.digits) <= 4
                                 /\ \E c : Stands(s, <<q>>, c, lo, hi)
<1> DEFINE end == PhoneEnds(text)
<1>1. /\ a \in 1..Len(text) /\ b \in a..Len(text)
      /\ \A k \in a..b : k - a + 1 \in 1..Len(mid) /\ text[k] = mid[k - a + 1]
      /\ Before(text, a, lo) /\ After(text, b + 1, hi)
  BY StandsPart
<1>2. Ends(text, end, PhoneSeparators, 10, 12) /\ Replaces(text, end, new)
  BY PhoneEndsEnd, PhoneReplaces
<1>3. a \in a..b /\ a - a + 1 = 1 /\ b # 0  BY <1>1
<1>4. text[a] = mid[1]  BY <1>1, <1>3
<1>5. end[a] = b  BY <1>1, <1>4, PhoneHit
<1>6. PICK q \in WorkPiece : /\ new[a] = <<q>> /\ q.at = text[a].at /\ q.kind \in Hidden
                             /\ text[a].kind # "secret" => Len(q.digits) <= 4
  BY <1>1, <1>3, <1>5 DEF HidesPhones, HidesPhone
<1>7. Len(q.digits) <= 4
  <2>1. text[a].kind = "number"  BY <1>3 DEF Joined
  <2>2. QED  BY <1>6, <2>1
<1> HIDE DEF end
<1>8. Clear(end, a)  BY <1>1, <1>2, RunClear
<1> DEFINE p == <<q>>
<1>9. Becomes(p, text, end, new, a, b)  BY <1>5, <1>6 DEF Becomes
<1> HIDE DEF p
<1>10. LET s == Sub(text, end, new) IN
       /\ s \in Seq(WorkPiece) /\ Ordered(s)
       /\ \E c : Stands(s, p, c, lo, hi) /\ Beside(s, c, c + Len(p) - 1, text, a, b)
  BY <1>1, <1>2, <1>8, <1>9, SubBlock
<1>11. QED  BY <1>4, <1>6, <1>7, <1>10 DEF end, p

-----------------------------------------------------------------------------
(* The pass for addresses                                                  *)

AddressesOf(text) ==
  [n \in Matched(AddressEnds(text)) |-> <<Redo(text[n], "[ADDRESS]", <<>>)>>]
AddressesHidden(text) == Sub(text, AddressEnds(text), AddressesOf(text))

\* An address ends in one of its streets, and every house number has an address
\* that is followed by a street within reach.
LEMMA AddressEndIs ==
  ASSUME NEW text, text \in Seq(WorkPiece), NEW n \in 1..Len(text)
  PROVE  /\ AddressEnds(text)[n] = 0 \/
              (HouseNumber(text, n) /\ AddressEnds(text)[n] \in StreetsOf(text, n))
         /\ HouseNumber(text, n) /\ StreetsOf(text, n) # {} => AddressEnds(text)[n] # 0
<1> DEFINE S == StreetsOf(text, n)
           l == AddressEnds(text)[n]
<1>1. n \in DOMAIN text /\ Len(text) \in Nat  OBVIOUS
<1>2. l = IF HouseNumber(text, n) /\ S # {} THEN Max(S) ELSE 0
  BY <1>1 DEF AddressEnds, AddressEnd
<1>3. S \in SUBSET (1..Len(text))
  <2>1. \A m \in (n + 1)..Len(text) : m \in 1..Len(text)  BY <1>1
  <2>2. QED  BY <2>1 DEF StreetsOf
<1> HIDE DEF S, l
<1>4. S # {} => Max(S) \in S  BY <1>1, <1>3, MaxOfSome
<1>5. S # {} => Max(S) # 0
  <2>1. \A m \in S : m # 0  BY <1>3
  <2>2. QED  BY <1>4, <2>1
<1>6. QED  BY <1>2, <1>4, <1>5 DEF S, l

\* What a match from n to m needs.
LEMMA AddressMatch ==
  ASSUME NEW text, text \in Seq(WorkPiece), NEW n \in 1..Len(text), AddressEnds(text)[n] # 0
  PROVE  LET m == AddressEnds(text)[n] IN
         /\ m \in (n + 1)..Len(text) /\ m \in n..Len(text) /\ text[m].kind = "street"
         /\ text[n].kind = "number"
         /\ \A k \in n..m : text[k].kind \in {"number", "street"}
<1> DEFINE m == AddressEnds(text)[n]
<1>1. HouseNumber(text, n) /\ m \in StreetsOf(text, n)  BY AddressEndIs
<1>2. text[n].kind = "number"  BY <1>1 DEF HouseNumber
<1> HIDE DEF m
<1>3. /\ m \in (n + 1)..Len(text) /\ text[m].kind = "street"
      /\ \A k \in (n + 1)..m : text[k].kind \in {"number", "street"}
  BY <1>1 DEF StreetsOf
<1>4. m \in n..Len(text) /\ \A k \in n..m : k = n \/ k \in (n + 1)..m  BY <1>3
<1>5. QED  BY <1>2, <1>3, <1>4 DEF m

\* What replaces an address.
LEMMA AddressPiece ==
  ASSUME NEW text, text \in Seq(WorkPiece), NEW n \in 1..Len(text), AddressEnds(text)[n] # 0
  PROVE  \E q \in WorkPiece : /\ AddressesOf(text)[n] = <<q>> /\ q.kind = "[ADDRESS]"
                              /\ q.at = text[n].at
<1>1. n \in Matched(AddressEnds(text))
  <2>1. DOMAIN AddressEnds(text) = 1..Len(text)  BY DEF AddressEnds
  <2>2. QED  BY <2>1 DEF Matched
<1> DEFINE q == Redo(text[n], "[ADDRESS]", <<>>)
<1>2. AddressesOf(text)[n] = <<q>>  BY <1>1 DEF AddressesOf
<1>3. text[n] \in WorkPiece /\ "[ADDRESS]" \in Kinds /\ <<>> \in Seq(0..9)
  BY PieceType DEF Kinds, Hidden
<1>4. IsRedone(q, text[n], "[ADDRESS]", <<>>)  BY <1>3, Redone
<1> HIDE DEF q
<1>5. QED  BY <1>2, <1>4 DEF IsRedone

\* So the pass replaces addresses by what can stand for them.
LEMMA AddressReplaces ==
  ASSUME NEW text, text \in Seq(WorkPiece), Ordered(text)
  PROVE  Replaces(text, AddressEnds(text), AddressesOf(text))
<1> DEFINE end == AddressEnds(text)
           new == AddressesOf(text)
<1>1. ASSUME NEW n \in 1..Len(text), end[n] # 0
      PROVE  end[n] \in n..Len(text) /\ Covers(new[n], text, n, end[n])
  <2> DEFINE m == end[n]
  <2>1. m \in n..Len(text)  BY <1>1, AddressMatch
  <2>2. PICK q \in WorkPiece : new[n] = <<q>> /\ q.kind = "[ADDRESS]" /\ q.at = text[n].at
    BY <1>1, AddressPiece
  <2> HIDE DEF m, end, new
  <2>3. q.kind \notin {"number", "street"}  BY <2>2
  <2>4. Covers(<<q>>, text, n, m)  BY <2>1, <2>2, <2>3, OneCovers
  <2>5. QED  BY <2>1, <2>2, <2>4 DEF m
<1> HIDE DEF end, new
<1>2. QED  BY <1>1 DEF Replaces, end, new

\* No address goes on behind the piece d.
Stops(t, d) == d < Len(t) => t[d + 1].kind \notin {"number", "street"}

\* A block without a street is left alone, if no address goes on behind it.
LEMMA AddressClear ==
  ASSUME NEW text, text \in Seq(WorkPiece), NEW i \in 1..Len(text), NEW j \in i..Len(text),
         \A k \in i..j : text[k].kind # "street",
         text[j].kind # "number" \/ Stops(text, j)
  PROVE  Clear(AddressEnds(text), i) /\ Unmatched(AddressEnds(text), i, j)
<1> DEFINE end == AddressEnds(text)
           L == Len(text)
<1>0. L \in Nat /\ i \in 1..L /\ j \in i..L  OBVIOUS
<1>1. ASSUME NEW n \in 1..L, n <= j, end[n] # 0  PROVE end[n] < i
  <2> DEFINE m == end[n]
  <2>1. /\ m \in (n + 1)..L /\ text[m].kind = "street"
        /\ \A k \in n..m : text[k].kind \in {"number", "street"}
    BY <1>1, AddressMatch
  <2> HIDE DEF end, L
  <2> SUFFICES ASSUME ~(m < i)  PROVE FALSE  OBVIOUS
  <2> HIDE DEF m
  <2>2. ~(m \in i..j)  BY <2>1
  <2>3. j \in n..m /\ j + 1 \in n..m /\ j < L /\ j \in i..j  BY <1>0, <1>1, <2>1, <2>2
  <2>4. text[j].kind = "number"  BY <2>1, <2>3
  <2>5. Stops(text, j)  BY <2>4
  <2>6. text[j + 1].kind \notin {"number", "street"}  BY <2>3, <2>5 DEF Stops, L
  <2>7. QED  BY <2>1, <2>3, <2>6
<1>2. Clear(end, i)
  <2> SUFFICES ASSUME NEW k \in 1..(i - 1)  PROVE end[k] < i  BY DEF Clear
  <2>1. k \in 1..L /\ k <= j /\ 0 < i  BY <1>0
  <2> HIDE DEF end, L
  <2>2. QED  BY <1>1, <2>1
<1>3. Unmatched(end, i, j)
  <2> SUFFICES ASSUME NEW k \in i..j, end[k] # 0  PROVE FALSE  BY DEF Unmatched
  <2>1. k \in 1..L /\ k <= j  BY <1>0
  <2>2. end[k] \in (k + 1)..L  BY <2>1, AddressMatch
  <2> HIDE DEF end, L
  <2>3. end[k] < i  BY <1>1, <2>1
  <2>4. QED  BY <1>0, <2>1, <2>2, <2>3
<1>4. QED  BY <1>2, <1>3

\* So it still stands behind the pass.
LEMMA AddressPassLeaves ==
  ASSUME NEW text, text \in Seq(WorkPiece), Ordered(text),
         NEW mid, mid \in Seq(WorkPiece), mid # <<>>, NEW a, NEW lo \in Nat, NEW hi \in Nat,
         Stands(text, mid, a, lo, hi), \A x \in 1..Len(mid) : mid[x].kind # "street",
         mid[Len(mid)].kind # "number" \/ Stops(text, a + Len(mid) - 1)
  PROVE  \E c : Stands(AddressesHidden(text), mid, c, lo, hi)
<1> DEFINE b == a + Len(mid) - 1
           end == AddressEnds(text)
           new == AddressesOf(text)
<1>1. /\ a \in 1..Len(text) /\ b \in a..Len(text) /\ mid = SubSeq(text, a, b)
      /\ b - a + 1 = Len(mid)
      /\ \A k \in a..b : k - a + 1 \in 1..Len(mid) /\ text[k] = mid[k - a + 1]
      /\ Before(text, a, lo) /\ After(text, b + 1, hi)
  BY StandsPart
<1> HIDE DEF b
<1>2. \A k \in a..b : text[k].kind # "street"  BY <1>1
<1>3. text[b].kind # "number" \/ Stops(text, b)
  <2>1. b \in a..b  BY <1>1
  <2>2. text[b] = mid[Len(mid)]  BY <1>1, <2>1
  <2>3. QED  BY <2>2 DEF b
<1>4. Clear(end, a) /\ Unmatched(end, a, b)  BY <1>1, <1>2, <1>3, AddressClear
<1>5. Replaces(text, end, new)  BY AddressReplaces
<1> HIDE DEF end, new
<1>6. Becomes(mid, text, end, new, a, b)  BY <1>1, <1>4 DEF Becomes, Unmatched
<1>7. LET s == Sub(text, end, new) IN
      /\ s \in Seq(WorkPiece) /\ Ordered(s)
      /\ \E c : Stands(s, mid, c, lo, hi) /\ Beside(s, c, c + Len(mid) - 1, text, a, b)
  BY <1>1, <1>4, <1>5, <1>6, SubBlock
<1>8. QED  BY <1>7 DEF AddressesHidden, end, new

\* A space is before the piece p.
Spaced(p) == p.sep = " "

\* d is a house number directly before a street.
Houses(text, d) ==
  /\ text[d].kind = "number" /\ Len(text[d].digits) <= 6
  /\ d < Len(text) /\ text[d + 1].kind = "street" /\ text[d + 1].sep = " "

\* Such a number has an address.
LEMMA HouseMatched ==
  ASSUME NEW text, text \in Seq(WorkPiece), NEW d \in 1..Len(text), Houses(text, d)
  PROVE  AddressEnds(text)[d] # 0
<1>1. d < Len(text) /\ text[d].kind = "number" /\ text[d + 1].kind = "street"
  BY Zenon DEF Houses
<1>2. HouseNumber(text, d)  BY Zenon DEF HouseNumber, Houses
<1>3. Words(text, d + 1, d + 1) = 2
  <2> DEFINE m == d + 1
             A == {k \in m..m : text[k].kind = "number" /\ text[k].sep = " "}
             B == {k \in m..m : text[k].kind = "street"}
  <2>1. Words(text, m, m) = Cardinality(A) + 2 * Cardinality(B)  BY Zenon DEF Words
  <2> HIDE DEF A
  <2>2. \A k \in m..m : k = m  OBVIOUS
  <2>3. m \in m..m  OBVIOUS
  <2>4. text[m].kind = "street"  BY <1>1
  <2> HIDE DEF m
  <2>5. A = {}
    <3>1. ASSUME NEW k \in A  PROVE FALSE
      <4>1. k \in m..m /\ text[k].kind = "number"  BY Zenon, <3>1 DEF A
      <4>2. QED  BY <2>2, <2>4, <4>1
    <3>2. QED  BY <3>1
  <2>6. B = {m}  BY <2>2, <2>3, <2>4
  <2> HIDE DEF B
  <2>7. Cardinality(A) = 0 /\ Cardinality(B) = 1  BY <2>5, <2>6, FS_EmptySet, FS_Singleton
  <2>8. Words(text, m, m) = 2  BY <2>1, <2>7
  <2>9. QED  BY <2>8 DEF m
<1>4. d + 1 \in StreetsOf(text, d)
  <2>1. d + 1 \in (d + 1)..Len(text)  BY <1>1
  <2>2. \A k \in (d + 1)..(d + 1) : k = d + 1  OBVIOUS
  <2>3. Words(text, d + 1, d + 1) <= 5  BY <1>3
  <2>4. QED  BY <1>1, <2>1, <2>2, <2>3 DEF StreetsOf
<1>5. QED  BY <1>2, <1>4, AddressEndIs

\* Two pieces of a text were at different places.
LEMMA OtherPlace ==
  ASSUME NEW text, text \in Seq(WorkPiece), Ordered(text),
         NEW n \in 1..Len(text), NEW m \in 1..Len(text), n # m
  PROVE  text[n].at # text[m].at
<1>1. ASSUME NEW x \in 1..Len(text), NEW y \in 1..Len(text), x < y  PROVE text[x].at # text[y].at
  <2>1. x \in 1..(y - 1)  BY <1>1
  <2>2. text[x].at < text[y].at  BY <2>1 DEF Ordered
  <2>3. text[x].at \in Nat /\ text[y].at \in Nat  BY PieceType
  <2> DEFINE u == text[x].at
             v == text[y].at
  <2>4. u \in Nat /\ v \in Nat /\ u < v  BY <2>2, <2>3
  <2> HIDE DEF u, v
  <2>5. u # v  BY <2>4
  <2>6. QED  BY <2>5 DEF u, v
<1>2. n < m \/ m < n  OBVIOUS
<1>3. QED  BY <1>1, <1>2

\* A house number and its street become part of an address, whichever takes them.
LEMMA HouseHidden ==
  ASSUME NEW text, text \in Seq(WorkPiece), Ordered(text), NEW d \in 1..Len(text),
         Houses(text, d)
  PROVE  LET s == AddressesHidden(text) IN
         \A x \in 1..Len(s) :
           s[x].at \in {text[d].at, text[d + 1].at} => s[x].kind = "[ADDRESS]"
<1> DEFINE end == AddressEnds(text)
           new == AddressesOf(text)
           e == d + 1
           u == text[d].at
           v == text[e].at
           Q == {q \in WorkPiece : q.at \in {u, v} => q.kind = "[ADDRESS]"}
<1>0. d < Len(text) /\ text[d].kind = "number"  BY Zenon DEF Houses
<1>a. e \in 1..Len(text) /\ e \in Nat /\ e # 1  BY <1>0
<1>1. end[d] # 0  BY HouseMatched
<1>2. Replaces(text, end, new)  BY AddressReplaces
<1>3. ASSUME NEW n \in 1..Len(text), n # e, end[n] = 0  PROVE text[n] \in Q /\ n + 1 # e
  <2>1. n # d  BY <1>1, <1>3
  <2>2. text[n].at # u  BY <2>1, OtherPlace
  <2>3. text[n].at # v  BY <1>3, <1>a, OtherPlace
  <2>4. text[n] \in WorkPiece  BY PieceType
  <2>5. n + 1 # e  BY <2>1
  <2> HIDE DEF u, v, e
  <2>6. QED  BY <2>2, <2>3, <2>4, <2>5
<1>4. ASSUME NEW n \in 1..Len(text), n # e, end[n] # 0
      PROVE  end[n] + 1 # e /\ \A x \in 1..Len(new[n]) : new[n][x] \in Q
  <2>1. end[n] \in (n + 1)..Len(text) /\ text[end[n]].kind = "street"
    BY <1>4, AddressMatch
  <2>2. PICK q \in WorkPiece : new[n] = <<q>> /\ q.kind = "[ADDRESS]"
    BY <1>4, AddressPiece
  <2>3. end[n] # d  BY <1>0, <2>1
  <2> HIDE DEF end, new, u, v
  <2>4. end[n] + 1 # e  BY <2>1, <2>3
  <2>5. q \in Q  BY <2>2
  <2> HIDE DEF Q, e
  <2>6. Len(new[n]) = 1 /\ new[n][1] = q  BY <2>2
  <2>7. \A x \in 1..Len(new[n]) : x = 1  BY <2>6
  <2>8. QED  BY <2>4, <2>5, <2>6, <2>7
<1> HIDE DEF end, new, Q, e
<1>5. \A n \in 1..Len(text) : n # e /\ end[n] = 0 => text[n] \in Q /\ n + 1 # e  BY <1>3
<1>6. \A n \in 1..Len(text) : n # e /\ end[n] # 0 =>
        end[n] + 1 # e /\ \A x \in 1..Len(new[n]) : new[n][x] \in Q
  BY <1>4
<1>7. \A x \in 1..Len(Sub(text, end, new)) : Sub(text, end, new)[x] \in Q
  BY <1>2, <1>5, <1>6, <1>a, SubIn
<1>8. QED  BY <1>7 DEF AddressesHidden, Q, end, new, e

-----------------------------------------------------------------------------
(* The text that was heard                                                 *)

\* The text that was heard is typed, in order, and nothing in it is marked.
LEMMA HeardType ==
  ASSUME heard \in Texts
  PROVE  /\ heard \in Seq(WorkPiece) /\ heard \in Seq(Piece) /\ Ordered(heard)
         /\ \A k \in 1..Len(heard) :
              heard[k].at = k /\ heard[k].kind # "kept" /\ heard[k] \in Piece
<1>1. heard \in Seq(Piece)  BY RedactionAssumption
<1>2. Len(heard) \in Nat /\ DOMAIN heard = 1..Len(heard)  BY <1>1
<1>3. \A k \in 1..Len(heard) : heard[k] \in Piece  BY <1>1
<1>4. \A k \in 1..Len(heard) : heard[k].at = k  BY <1>2, RedactionAssumption
<1>5. \A k \in 1..Len(heard) : heard[k] \in WorkPiece /\ heard[k].kind # "kept"
  BY <1>3 DEF Piece, WorkPiece, Phrases, Hidden
<1>6. heard \in Seq(WorkPiece)
  <2>1. heard = [k \in 1..Len(heard) |-> heard[k]]  BY <1>1
  <2>2. QED  BY <1>2, <1>5, <2>1
<1>7. Ordered(heard)
  <2> SUFFICES ASSUME NEW n \in 1..Len(heard), NEW m \in 1..(n - 1)
               PROVE  heard[m].at < heard[n].at
    BY DEF Ordered
  <2>1. m \in 1..Len(heard) /\ m < n  BY <1>2
  <2>2. heard[m].at = m /\ heard[n].at = n  BY <1>4, <2>1
  <2>3. QED  BY <2>1, <2>2
<1>8. QED  BY <1>1, <1>3, <1>4, <1>5, <1>6, <1>7

Part(i, j) == SubSeq(heard, i, j)

\* A part of the text stands in the text.
LEMMA HeardPart ==
  ASSUME heard \in Texts, NEW i \in 1..Len(heard), NEW j \in i..Len(heard)
  PROVE  /\ Part(i, j) \in Seq(WorkPiece) /\ Part(i, j) # <<>> /\ Len(Part(i, j)) = j - i + 1
         /\ \A x \in 1..(j - i + 1) :
              /\ i + x - 1 \in i..j /\ Part(i, j)[x] = heard[i + x - 1]
              /\ Part(i, j)[x].at = i + x - 1
         /\ Before(heard, i, i) /\ After(heard, j + 1, j) /\ Stands(heard, Part(i, j), i, i, j)
<1> DEFINE p == Part(i, j)
           m == j - i + 1
<1>1. heard \in Seq(WorkPiece) /\ \A k \in 1..Len(heard) : heard[k].at = k
  BY HeardType
<1>2. Len(heard) \in Nat /\ m \in Nat \ {0} /\ i + m - 1 <= Len(heard)  BY <1>1
<1>3. p = [x \in 1..m |-> heard[i + x - 1]]
  <2>1. i \in Nat /\ j \in Nat  OBVIOUS
  <2>2. QED  BY <2>1 DEF Part
<1> HIDE DEF p
<1>4. \A x \in 1..m : i + x - 1 \in i..j /\ i + x - 1 \in 1..Len(heard)  BY <1>2
<1>5. \A x \in 1..m : p[x] = heard[i + x - 1] /\ p[x].at = i + x - 1
  BY <1>1, <1>3, <1>4
<1>6. p \in Seq(WorkPiece) /\ Len(p) = m /\ p # <<>>
  <2>1. \A x \in 1..m : p[x] \in WorkPiece  BY <1>1, <1>4, <1>5, PieceType
  <2>2. p = [x \in 1..m |-> p[x]]  BY <1>3
  <2>3. m \in Nat \ {0}  BY <1>2
  <2> HIDE DEF m
  <2>4. p \in Seq(WorkPiece) /\ Len(p) = m  BY <2>1, <2>2, <2>3
  <2>5. QED  BY <2>3, <2>4
<1>7. Before(heard, i, i)
  <2>1. \A k \in 1..(i - 1) : k \in 1..Len(heard) /\ k < i  BY <1>2
  <2>2. QED  BY <1>1, <2>1 DEF Before
<1>8. After(heard, j + 1, j)
  <2>1. \A k \in (j + 1)..Len(heard) : k \in 1..Len(heard) /\ k > j  BY <1>2
  <2>2. QED  BY <1>1, <2>1 DEF After
<1>9. Stands(heard, p, i, i, j)
  <2>1. \A x \in 1..Len(p) : heard[i + x - 1] = p[x]  BY <1>5, <1>6
  <2>2. ASSUME NEW x \in 1..Len(heard)
        PROVE  IF x < i THEN heard[x].at < i ELSE x >= i + Len(p) => heard[x].at > j
    <3>1. heard[x].at = x  BY <1>1
    <3>2. x >= i + Len(p) => x > j  BY <1>2, <1>6
    <3>3. QED  BY <3>1, <3>2
  <2>3. i \in Nat \ {0} /\ i + Len(p) - 1 <= Len(heard)  BY <1>2, <1>6
  <2>4. QED  BY <1>1, <2>1, <2>2, <2>3 DEF Stands
<1>10. QED  BY <1>4, <1>5, <1>6, <1>7, <1>8, <1>9 DEF p

\* A whole stretch is a run that nothing joins to its neighbours.
LEMMA WholeApart ==
  ASSUME NEW i \in 1..Len(heard), NEW j \in i..Len(heard), NEW seps, Whole(i, j, seps)
  PROVE  Joined(heard, i, j, seps) /\ Apart(heard, i, j, seps)
<1>1. Joined(heard, i, j, seps)  BY DEF Whole
<1>2. i \in i..j /\ j \in i..j  OBVIOUS
<1>3. heard[i].kind = "number" /\ heard[j].kind = "number"  BY <1>1, <1>2 DEF Joined
<1>4. ASSUME i > 1  PROVE heard[i - 1].kind # "number" \/ heard[i].sep \notin seps
  <2>1. ~Joined(heard, i - 1, i, seps)  BY <1>4 DEF Whole
  <2>2. /\ \A k \in (i - 1)..i : k = i - 1 \/ k = i
        /\ \A k \in ((i - 1) + 1)..i : k = i
    OBVIOUS
  <2>3. QED  BY <1>3, <2>1, <2>2 DEF Joined
<1>5. ASSUME j < Len(heard)  PROVE heard[j + 1].kind # "number" \/ heard[j + 1].sep \notin seps
  <2>1. ~Joined(heard, j, j + 1, seps)  BY <1>5 DEF Whole
  <2>2. /\ \A k \in j..(j + 1) : k = j \/ k = j + 1
        /\ \A k \in (j + 1)..(j + 1) : k = j + 1
    OBVIOUS
  <2>3. QED  BY <1>3, <2>1, <2>2 DEF Joined
<1>6. QED  BY <1>1, <1>4, <1>5 DEF Apart

\* The pass for cards, over the text as it was heard.
LEMMA CardPass ==
  ASSUME heard \in Texts, NEW i \in 1..Len(heard), NEW j \in i..Len(heard), NEW mid,
         Clear(CardEndsOf(heard), i), Becomes(mid, heard, CardEndsOf(heard), CardsOf(heard), i, j)
  PROVE  LET s == WithoutCards(heard) IN
         /\ s \in Seq(WorkPiece) /\ Ordered(s)
         /\ \E a : Stands(s, mid, a, i, j) /\ Beside(s, a, a + Len(mid) - 1, heard, i, j)
<1> DEFINE end == CardEndsOf(heard)
           new == CardsOf(heard)
<1>1. heard \in Seq(WorkPiece) /\ Ordered(heard)  BY HeardType
<1>2. Replaces(heard, end, new)  BY <1>1, CardReplaces
<1>3. Before(heard, i, i) /\ After(heard, j + 1, j) /\ i \in Nat /\ j \in Nat  BY HeardPart
<1>4. WithoutCards(heard) = Sub(heard, end, new)  BY DEF WithoutCards, CardEndsOf, CardsOf
<1> HIDE DEF end, new
<1>5. Clear(end, i) /\ Becomes(mid, heard, end, new, i, j)  BY DEF end, new
<1>6. LET s == Sub(heard, end, new) IN
      /\ s \in Seq(WorkPiece) /\ Ordered(s)
      /\ \E a : Stands(s, mid, a, i, j) /\ Beside(s, a, a + Len(mid) - 1, heard, i, j)
  BY <1>1, <1>2, <1>3, <1>5, SubBlock
<1>7. QED  BY <1>4, <1>6

\* The pass for cards types, and reorders nothing.
LEMMA CardPassType ==
  ASSUME heard \in Texts
  PROVE  WithoutCards(heard) \in Seq(WorkPiece) /\ Ordered(WithoutCards(heard))
<1> DEFINE end == CardEndsOf(heard)
           new == CardsOf(heard)
<1>1. heard \in Seq(WorkPiece) /\ Ordered(heard)  BY HeardType
<1>2. Replaces(heard, end, new)  BY <1>1, CardReplaces
<1>3. WithoutCards(heard) = Sub(heard, end, new)  BY DEF WithoutCards, CardEndsOf, CardsOf
<1> HIDE DEF end, new
<1>4. QED  BY <1>1, <1>2, <1>3, SubType

\* The text as the pass for phones finds it.
ShownText == SubPhrase(WithoutCards(heard), "email", "em***il")
StoredText == SubPhrase(heard, "email", "[EMAIL]")

\* scan_output, step by step.
LEMMA OutputSteps ==
  ScanOutput(heard) = Shown(Sub(ShownText, PhoneEnds(ShownText), PartialPhonesOf(ShownText)))
BY DEF ScanOutput, Shown, ShownText, WithPartialPhones, PartialPhonesOf

\* mask_input, step by step.
LEMMA InputSteps ==
  MaskInput(heard) =
    Stored(AddressesHidden(Sub(StoredText, PhoneEnds(StoredText), PhonesOf(StoredText))))
<1>1. \A text : WithoutAddresses(text) = AddressesHidden(text)
  BY DEF WithoutAddresses, AddressesHidden, AddressesOf, Redo
<1>2. QED  BY <1>1 DEF MaskInput, Stored, StoredText, WithoutPhones, PhonesOf

\* The pass for phones of scan_output begins with a text of pieces in order.
LEMMA ShownTextType ==
  ASSUME heard \in Texts
  PROVE  /\ ShownText \in Seq(WorkPiece) /\ Ordered(ShownText)
         /\ IsRephrased(ShownText, WithoutCards(heard), "email", "em***il")
<1>1. WithoutCards(heard) \in Seq(WorkPiece) /\ Ordered(WithoutCards(heard))  BY CardPassType
<1>2. "em***il" \in Kinds  BY DEF Kinds, Hidden
<1>3. IsRephrased(ShownText, WithoutCards(heard), "email", "em***il")
  BY <1>1, <1>2, Rephrased DEF ShownText
<1>4. ShownText \in Seq(WorkPiece)  BY <1>3 DEF IsRephrased
<1>5. QED  BY <1>1, <1>3, <1>4, RephrasedOrdered

\* So does the one of mask_input.
LEMMA StoredTextType ==
  ASSUME heard \in Texts
  PROVE  /\ StoredText \in Seq(WorkPiece) /\ Ordered(StoredText)
         /\ IsRephrased(StoredText, heard, "email", "[EMAIL]")
<1>1. heard \in Seq(WorkPiece) /\ Ordered(heard)  BY HeardType
<1>2. "[EMAIL]" \in Kinds  BY DEF Kinds, Hidden
<1>3. IsRephrased(StoredText, heard, "email", "[EMAIL]")
  BY <1>1, <1>2, Rephrased DEF StoredText
<1>4. StoredText \in Seq(WorkPiece)  BY <1>3 DEF IsRephrased
<1>5. QED  BY <1>1, <1>3, <1>4, RephrasedOrdered

\* The pieces i to j stand in a text, and nothing joins them to another number.
Alone(t, i, j) ==
  /\ t \in Seq(WorkPiece) /\ Ordered(t)
  /\ \E a : Stands(t, Part(i, j), a, i, j) /\ Apart(t, a, a + Len(Part(i, j)) - 1, PhoneSeparators)

\* Replacing emails leaves a run alone.
LEMMA StoredAlone ==
  ASSUME heard \in Texts, NEW i \in 1..Len(heard), NEW j \in i..Len(heard),
         Joined(heard, i, j, PhoneSeparators), Apart(heard, i, j, PhoneSeparators)
  PROVE  Alone(StoredText, i, j)
<1>1. /\ Part(i, j) \in Seq(WorkPiece) /\ Len(Part(i, j)) = j - i + 1
      /\ Stands(heard, Part(i, j), i, i, j)
      /\ \A x \in 1..(j - i + 1) : i + x - 1 \in i..j /\ Part(i, j)[x] = heard[i + x - 1]
  BY HeardPart
<1>2. \A x \in 1..Len(Part(i, j)) : Part(i, j)[x].kind # "email"  BY <1>1 DEF Joined
<1>3. /\ StoredText \in Seq(WorkPiece) /\ Ordered(StoredText) /\ heard \in Seq(WorkPiece)
      /\ IsRephrased(StoredText, heard, "email", "[EMAIL]")
  BY StoredTextType, HeardType
<1>4. Stands(StoredText, Part(i, j), i, i, j)  BY <1>1, <1>2, <1>3, RephrasedStands
<1>5. Apart(StoredText, i, j, PhoneSeparators)  BY <1>3, RephrasedApart
<1>6. i + Len(Part(i, j)) - 1 = j  BY <1>1
<1>7. QED  BY <1>3, <1>4, <1>5, <1>6 DEF Alone

\* The pass for cards leaves what is too short for one, and what is beside it.
LEMMA ShownAlone ==
  ASSUME heard \in Texts, NEW i \in 1..Len(heard), NEW j \in i..Len(heard),
         Joined(heard, i, j, PhoneSeparators), Apart(heard, i, j, PhoneSeparators),
         Len(Digits(heard, i, j)) < 13
  PROVE  Alone(ShownText, i, j)
<1> DEFINE p == Part(i, j)
           s == WithoutCards(heard)
<1>1. /\ p \in Seq(WorkPiece) /\ Len(p) = j - i + 1 /\ p # <<>>
      /\ \A x \in 1..(j - i + 1) : i + x - 1 \in i..j /\ p[x] = heard[i + x - 1]
  BY HeardPart
<1>2. /\ heard \in Seq(WorkPiece) /\ Ends(heard, CardEndsOf(heard), CardSeparators, 13, 16)
      /\ CardSeparators \subseteq PhoneSeparators
  BY HeardType, CardEnds DEF CardEndsOf, CardSeparators, PhoneSeparators
<1>3. Clear(CardEndsOf(heard), i)  BY <1>2, RunClear
<1>4. Unmatched(CardEndsOf(heard), i, j)
  <2>1. 13 \in Nat /\ 16 \in Nat  OBVIOUS
  <2>2. QED  BY <1>2, <2>1, RunShort
<1>5. Becomes(p, heard, CardEndsOf(heard), CardsOf(heard), i, j)
  BY <1>4 DEF Becomes, Unmatched, Part
<1> HIDE DEF p
<1>6. PICK a : Stands(s, p, a, i, j) /\ Beside(s, a, a + Len(p) - 1, heard, i, j)
  BY <1>3, <1>5, CardPass
<1>7. /\ s \in Seq(WorkPiece) /\ ShownText \in Seq(WorkPiece) /\ Ordered(ShownText)
      /\ IsRephrased(ShownText, s, "email", "em***il")
  BY ShownTextType, CardPassType
<1> HIDE DEF s
<1> DEFINE b == a + Len(p) - 1
<1>8. a \in 1..Len(s) /\ b \in a..Len(s)  BY <1>1, <1>6, StandsPart
<1>9. \A x \in 1..Len(p) : p[x].kind # "email"  BY <1>1 DEF Joined
<1>10. Stands(ShownText, p, a, i, j)  BY <1>1, <1>6, <1>7, <1>9, RephrasedStands
<1>11. s[a] = heard[i]
  <2>1. 1 \in 1..Len(p) /\ a + 1 - 1 = a /\ i + 1 - 1 = i /\ 1 \in 1..(j - i + 1)
    BY <1>1, <1>8
  <2>2. s[a + 1 - 1] = p[1]  BY <1>6, <2>1 DEF Stands
  <2>3. p[1] = heard[i + 1 - 1]  BY <1>1, <2>1
  <2>4. QED  BY <2>1, <2>2, <2>3
<1> HIDE DEF b
<1>12. Beside(s, a, b, heard, i, j)  BY <1>6 DEF b
<1>13. Apart(s, a, b, PhoneSeparators)
  <2>1. a > 1 => s[a - 1].kind # "number" \/ s[a].sep \notin PhoneSeparators
    BY <1>11, <1>12 DEF Apart, Beside
  <2>2. b < Len(s) => s[b + 1].kind # "number" \/ s[b + 1].sep \notin PhoneSeparators
    BY <1>12 DEF Apart, Beside
  <2>3. QED  BY <2>1, <2>2 DEF Apart
<1>14. Apart(ShownText, a, b, PhoneSeparators)  BY <1>7, <1>8, <1>13, RephrasedApart
<1>15. QED  BY <1>7, <1>10, <1>14 DEF Alone, b, p

-----------------------------------------------------------------------------
(* The checksum of a card                                                  *)

\* Sum, which the checksum of the code uses, adds up a sequence.
LEMMA SumIs ==
  ASSUME NEW n \in Nat, NEW v, v \in [1..n -> Nat]
  PROVE  Sum(v) = SumOf(v, 1..n)
<1> DEFINE F == [p \in Nat \X (1..n) |-> p[1] + v[p[2]]]
           Body(g) == [k \in 0..n |-> IF k = 0 THEN 0 ELSE g[k - 1] + v[k]]
<1>1. PICK h \in [0..n -> Nat] : Iterates(h, n, 0, F)
  <2>1. F \in [Nat \X (1..n) -> Nat]  OBVIOUS
  <2> HIDE DEF F
  <2>2. QED  BY <2>1, IterationExists
<1>2. h = Body(h)
  <2>1. ASSUME NEW k \in 0..n  PROVE h[k] = Body(h)[k]
    <3>1. CASE k = 0  BY <1>1, <3>1 DEF Iterates
    <3>2. CASE k # 0
      <4>1. k \in 1..n /\ k - 1 \in 0..n  BY <3>2
      <4>2. h[k - 1] \in Nat /\ h[k] = F[<<h[k - 1], k>>]  BY <1>1, <4>1 DEF Iterates
      <4>3. QED  BY <3>2, <4>1, <4>2
    <3>3. QED  BY <3>1, <3>2
  <2>2. QED  BY <2>1
<1> DEFINE g == CHOOSE g : g = Body(g)
<1>3. g = Body(g)  BY <1>2
<1>4. Sum(v) = g[n]
  <2>1. Len(v) = n  OBVIOUS
  <2>2. QED  BY <2>1 DEF Sum
<1> HIDE DEF g
<1> DEFINE U == {k \in Nat : k <= n => g[k] = SumOf(v, 1..k)}
<1>5. 0 \in U
  <2>1. g[0] = 0 /\ 1..0 = {}  BY <1>3
  <2>2. SumOf(v, {}) = 0
    <3>1. IsFiniteSet({}) /\ \A x \in {} : v[x] \in Nat  BY FS_EmptySet
    <3>2. QED  BY <3>1, SumType
  <2>3. QED  BY <2>1, <2>2
<1>6. ASSUME NEW k \in Nat, k \in U  PROVE k + 1 \in U
  <2> SUFFICES ASSUME k + 1 <= n  PROVE g[k + 1] = SumOf(v, 1..(k + 1))  OBVIOUS
  <2>1. k + 1 \in 1..n /\ k + 1 \in 0..n /\ k + 1 # 0 /\ (k + 1) - 1 = k /\ k <= n  OBVIOUS
  <2>2. g[k + 1] = g[k] + v[k + 1]  BY <1>3, <2>1
  <2>3. g[k] = SumOf(v, 1..k)  BY <1>6, <2>1
  <2> DEFINE l == k + 1
  <2>4. l \in 1..n /\ l - 1 = k /\ \A x \in 1..n : v[x] \in Nat  BY <2>1
  <2> HIDE DEF l
  <2>5. SumOf(v, 1..l) = SumOf(v, 1..(l - 1)) + v[l]  BY <2>4, SumUpper
  <2>6. QED  BY <2>2, <2>3, <2>4, <2>5 DEF l
<1>7. Nat \subseteq U
  <2> HIDE DEF U
  <2>1. QED  BY <1>5, <1>6, Induction
<1>8. QED  BY <1>4, <1>7

\* A sum of digits is at most nine times their number.
LEMMA SumBound ==
  ASSUME NEW n \in Nat, NEW v, v \in [1..n -> 0..9]
  PROVE  SumOf(v, 1..n) \in 0..(9 * n)
<1> DEFINE U == {k \in Nat : k <= n => SumOf(v, 1..k) \in 0..(9 * k)}
<1>0. \A x \in 1..n : v[x] \in 0..9 /\ v[x] \in Nat
  <2>1. \A x \in 1..n : v[x] \in 0..9  OBVIOUS
  <2>2. QED  BY <2>1
<1>1. 0 \in U
  <2>1. 1..0 = {}  OBVIOUS
  <2>2. SumOf(v, {}) = 0
    <3>1. IsFiniteSet({}) /\ \A x \in {} : v[x] \in Nat  BY FS_EmptySet
    <3>2. QED  BY <3>1, SumType
  <2>3. QED  BY <2>1, <2>2
<1>2. ASSUME NEW k \in Nat, k \in U  PROVE k + 1 \in U
  <2> SUFFICES ASSUME k + 1 <= n  PROVE SumOf(v, 1..(k + 1)) \in 0..(9 * (k + 1))  OBVIOUS
  <2> DEFINE l == k + 1
             a == SumOf(v, 1..k)
             b == v[l]
  <2>1. l \in 1..n /\ l - 1 = k /\ k <= n  OBVIOUS
  <2>2. a \in 0..(9 * k) /\ b \in 0..9  BY <1>0, <1>2, <2>1
  <2> HIDE DEF l
  <2>3. SumOf(v, 1..l) = SumOf(v, 1..(l - 1)) + v[l]  BY <1>0, <2>1, SumUpper
  <2>4. SumOf(v, 1..l) = a + b  BY <2>1, <2>3
  <2> HIDE DEF a, b
  <2>5. a + b \in 0..(9 * (k + 1))  BY <2>2
  <2>6. QED  BY <2>4, <2>5 DEF l
<1>3. Nat \subseteq U
  <2> HIDE DEF U
  <2>1. QED  BY <1>1, <1>2, Induction
<1>4. QED  BY <1>3

\* The digits that the checksum of the code adds up, and those of the table.
Coded(ds) ==
  [n \in DOMAIN ds |->
    IF (Len(ds) - n) % 2 = 0 THEN ds[n]
    ELSE IF 2 * ds[n] > 9 THEN 2 * ds[n] - 9 ELSE 2 * ds[n]]
Tabled(ds) ==
  [k \in DOMAIN ds |->
     LET d == ds[Len(ds) + 1 - k] IN IF k % 2 = 0 THEN Doubled[d + 1] ELSE d]

\* The table holds the sum of the digits of twice a digit.
LEMMA DoubledIs ==
  ASSUME NEW d \in 0..9
  PROVE  /\ Doubled[d + 1] = IF 2 * d > 9 THEN 2 * d - 9 ELSE 2 * d
         /\ (IF 2 * d > 9 THEN 2 * d - 9 ELSE 2 * d) \in 0..9
<1>1. /\ Doubled[1] = 0 /\ Doubled[2] = 2 /\ Doubled[3] = 4 /\ Doubled[4] = 6 /\ Doubled[5] = 8
      /\ Doubled[6] = 1 /\ Doubled[7] = 3 /\ Doubled[8] = 5 /\ Doubled[9] = 7 /\ Doubled[10] = 9
  BY DEF Doubled
<1>2. d = 0 \/ d = 1 \/ d = 2 \/ d = 3 \/ d = 4 \/ d = 5 \/ d = 6 \/ d = 7 \/ d = 8 \/ d = 9
  OBVIOUS
<1>3. Doubled[d + 1] = IF 2 * d > 9 THEN 2 * d - 9 ELSE 2 * d  BY <1>1, <1>2
<1>4. (IF 2 * d > 9 THEN 2 * d - 9 ELSE 2 * d) \in 0..9  BY <1>2
<1>5. QED  BY <1>3, <1>4

\* For up to 16 digits the checksum of the code is the one by the table.
LEMMA LuhnIsCard ==
  ASSUME NEW ds, ds \in Seq(0..9), Len(ds) <= 16
  PROVE  LuhnValid(ds) <=> IsCard(ds)
<1> DEFINE n == Len(ds)
           v == Coded(ds)
           r == Tabled(ds)
<1>1. n \in Nat /\ n <= 16 /\ DOMAIN ds = 1..n  OBVIOUS
<1>2. \A x \in 1..n : ds[x] \in 0..9  BY ElementType
<1> HIDE DEF n
<1>3. ASSUME NEW x \in 1..n
      PROVE  /\ v[x] \in 0..9
             /\ v[x] = IF (n - x) % 2 = 0 THEN ds[x] ELSE Doubled[ds[x] + 1]
  <2>1. v[x] = IF (n - x) % 2 = 0 THEN ds[x]
               ELSE IF 2 * ds[x] > 9 THEN 2 * ds[x] - 9 ELSE 2 * ds[x]
    BY <1>1 DEF Coded, n
  <2> DEFINE d == ds[x]
  <2>2. d \in 0..9  BY <1>2
  <2> HIDE DEF d
  <2>3. /\ Doubled[d + 1] = IF 2 * d > 9 THEN 2 * d - 9 ELSE 2 * d
        /\ (IF 2 * d > 9 THEN 2 * d - 9 ELSE 2 * d) \in 0..9
    BY <2>2, DoubledIs
  <2>4. v[x] = IF (n - x) % 2 = 0 THEN d
               ELSE IF 2 * d > 9 THEN 2 * d - 9 ELSE 2 * d
    BY <2>1 DEF d
  <2>5. v[x] = IF (n - x) % 2 = 0 THEN d ELSE Doubled[d + 1]  BY <2>3, <2>4
  <2>6. v[x] \in 0..9  BY <2>2, <2>3, <2>4
  <2>7. QED  BY <2>5, <2>6 DEF d
<1>4. ASSUME NEW x \in 1..n  PROVE r[x] = v[n + 1 - x]
  <2> DEFINE k == n + 1 - x
  <2>1. k \in 1..n /\ n - k = x - 1  BY <1>1
  <2>2. (x - 1) % 2 = 0 <=> x % 2 # 0
    <3>1. x \in Nat \ {0}  BY <1>1
    <3>2. QED  BY <3>1
  <2>3. r[x] = IF x % 2 = 0 THEN Doubled[ds[k] + 1] ELSE ds[k]  BY <1>1 DEF Tabled, n
  <2> HIDE DEF k
  <2>4. v[k] = IF (n - k) % 2 = 0 THEN ds[k] ELSE Doubled[ds[k] + 1]  BY <1>3, <2>1
  <2>5. r[x] = v[k]  BY <2>1, <2>2, <2>3, <2>4
  <2>6. QED  BY <2>5 DEF k
<1>5. DOMAIN v = 1..n /\ v = [x \in 1..n |-> v[x]]  BY <1>1 DEF Coded
<1>6. LuhnValid(ds) <=> Sum(v) % 10 = 0  BY DEF LuhnValid, Coded
<1>7. IsCard(ds) <=> \E q \in 0..15 : SumOf(r, 1..n) = 10 * q
  BY <1>1 DEF IsCard, Tabled, SumOf
<1> HIDE DEF v, r
<1>8. v \in [1..n -> 0..9] /\ v \in [1..n -> Nat] /\ \A x \in 1..n : v[x] \in Nat
  <2>1. \A x \in 1..n : v[x] \in 0..9 /\ v[x] \in Nat
    <3>1. \A x \in 1..n : v[x] \in 0..9  BY <1>3
    <3>2. QED  BY <3>1
  <2>2. QED  BY <1>5, <2>1
<1>9. Sum(v) = SumOf(v, 1..n)  BY <1>1, <1>8, SumIs
<1>10. SumOf(r, 1..n) = SumOf(v, 1..n)  BY <1>1, <1>4, <1>8, SumReversed
<1>11. SumOf(v, 1..n) \in 0..(9 * n)  BY <1>1, <1>8, SumBound
<1> DEFINE t == SumOf(v, 1..n)
<1>12. t \in 0..144
  <2>1. t \in 0..(9 * n)  BY <1>11
  <2> HIDE DEF t
  <2>2. 9 * n \in Nat /\ 9 * n <= 144  BY <1>1
  <2> DEFINE m == 9 * n
  <2>3. m \in Nat /\ m <= 144 /\ t \in 0..m  BY <2>1, <2>2
  <2> HIDE DEF m
  <2>4. QED  BY <2>3
<1> HIDE DEF t
<1>13. t % 10 = 0 <=> \E q \in 0..15 : t = 10 * q
  <2>1. ASSUME t % 10 = 0  PROVE \E q \in 0..15 : t = 10 * q
    <3>1. t = 10 * (t \div 10) /\ t \div 10 \in 0..15  BY <1>12, <2>1
    <3>2. QED  BY <3>1
  <2>2. ASSUME NEW q \in 0..15, t = 10 * q  PROVE t % 10 = 0  BY <1>12, <2>2
  <2>3. QED  BY <2>1, <2>2
<1>14. QED  BY <1>6, <1>7, <1>9, <1>10, <1>13 DEF t

-----------------------------------------------------------------------------
(* What becomes of a run that nothing joins to its neighbours              *)

\* Where a part of the text stands alone, it is the run that was heard.
LEMMA AloneRun ==
  ASSUME heard \in Texts, NEW i \in 1..Len(heard), NEW j \in i..Len(heard),
         Joined(heard, i, j, PhoneSeparators), NEW t, NEW a,
         Stands(t, Part(i, j), a, i, j)
  PROVE  LET b == a + Len(Part(i, j)) - 1 IN
         Joined(t, a, b, PhoneSeparators) /\ Digits(t, a, b) = Digits(heard, i, j)
<1> DEFINE p == Part(i, j)
           b == a + Len(p) - 1
<1>1. /\ p \in Seq(WorkPiece) /\ Len(p) = j - i + 1 /\ p # <<>>
      /\ \A x \in 1..(j - i + 1) : p[x] = heard[i + x - 1]
      /\ i \in Nat /\ j \in Nat
  BY HeardPart
<1> HIDE DEF p
<1>2. a \in Nat \ {0} /\ \A x \in 1..Len(p) : t[a + x - 1] = p[x]  BY DEF Stands, p
<1>3. j - i = b - a /\ a \in Nat /\ b \in Nat  BY <1>1, <1>2
<1>4. \A x \in 1..(j - i + 1) : t[a + x - 1] = heard[i + x - 1]  BY <1>1, <1>2
<1> HIDE DEF b
<1>5. Copied(t, a, b, heard, i, j)  BY <1>1, <1>3, <1>4 DEF Copied
<1>6. Joined(t, a, b, PhoneSeparators) /\ Digits(t, a, b) = Digits(heard, i, j)
  BY <1>5, CopiedRun
<1>7. QED  BY <1>6 DEF b, p

\* What is too short for a phone stays as it was.
LEMMA AloneShort ==
  ASSUME heard \in Texts, NEW i \in 1..Len(heard), NEW j \in i..Len(heard),
         Joined(heard, i, j, PhoneSeparators), Len(Digits(heard, i, j)) < 10,
         NEW t, Alone(t, i, j), NEW new, HidesPhones(t, new)
  PROVE  LET s == Sub(t, PhoneEnds(t), new) IN
         s \in Seq(WorkPiece) /\ \E c : Stands(s, Part(i, j), c, i, j)
<1> DEFINE p == Part(i, j)
<1>1. p \in Seq(WorkPiece) /\ p # <<>> /\ i \in Nat /\ j \in Nat  BY HeardPart
<1>2. PICK a : Stands(t, p, a, i, j) /\ Apart(t, a, a + Len(p) - 1, PhoneSeparators)
  BY DEF Alone
<1> DEFINE b == a + Len(p) - 1
<1>3. Joined(t, a, b, PhoneSeparators) /\ Len(Digits(t, a, b)) < 10  BY <1>2, AloneRun
<1>4. t \in Seq(WorkPiece) /\ Ordered(t) /\ Apart(t, a, b, PhoneSeparators)  BY <1>2 DEF Alone
<1> HIDE DEF p
<1>5. b = a + Len(p) - 1  OBVIOUS
<1> HIDE DEF b
<1>6. LET s == Sub(t, PhoneEnds(t), new) IN
      /\ s \in Seq(WorkPiece) /\ Ordered(s)
      /\ \E c : Stands(s, p, c, i, j) /\ Beside(s, c, c + Len(p) - 1, t, a, b)
  BY <1>1, <1>2, <1>3, <1>4, <1>5, PhonePassLeaves
<1>7. QED  BY <1>6 DEF p

\* A phone becomes one piece with four digits at most.
LEMMA AloneHidden ==
  ASSUME heard \in Texts, NEW i \in 1..Len(heard), NEW j \in i..Len(heard),
         Joined(heard, i, j, PhoneSeparators), Len(Digits(heard, i, j)) \in 10..12,
         heard[i].sep # "-", NEW t, Alone(t, i, j), NEW new, HidesPhones(t, new)
  PROVE  LET s == Sub(t, PhoneEnds(t), new) IN
         /\ s \in Seq(WorkPiece)
         /\ \E q \in WorkPiece : /\ q.at = i /\ q.kind \in Hidden /\ Len(q.digits) <= 4
                                 /\ \E c : Stands(s, <<q>>, c, i, j)
<1> DEFINE p == Part(i, j)
<1>1. p \in Seq(WorkPiece) /\ p # <<>> /\ i \in Nat /\ j \in Nat /\ p[1] = heard[i] /\ p[1].at = i
  <2>1. 1 \in 1..(j - i + 1) /\ i + 1 - 1 = i  OBVIOUS
  <2>2. /\ p \in Seq(WorkPiece) /\ p # <<>>
        /\ \A x \in 1..(j - i + 1) : p[x] = heard[i + x - 1] /\ p[x].at = i + x - 1
    BY HeardPart
  <2> HIDE DEF p
  <2>3. p[1] = heard[i + 1 - 1] /\ p[1].at = i + 1 - 1  BY <2>1, <2>2
  <2>4. QED  BY <2>1, <2>2, <2>3
<1>2. PICK a : Stands(t, p, a, i, j) /\ Apart(t, a, a + Len(p) - 1, PhoneSeparators)
  BY DEF Alone
<1> DEFINE b == a + Len(p) - 1
<1>3. Joined(t, a, b, PhoneSeparators) /\ Len(Digits(t, a, b)) \in 10..12  BY <1>2, AloneRun
<1>4. t \in Seq(WorkPiece) /\ Ordered(t) /\ Apart(t, a, b, PhoneSeparators)  BY <1>2 DEF Alone
<1> HIDE DEF p
<1>5. b = a + Len(p) - 1 /\ p[1].sep # "-"  BY <1>1
<1> HIDE DEF b
<1>6. LET s == Sub(t, PhoneEnds(t), new) IN
      /\ s \in Seq(WorkPiece) /\ Ordered(s)
      /\ \E q \in WorkPiece : /\ q.at = p[1].at /\ q.kind \in Hidden /\ Len(q.digits) <= 4
                              /\ \E c : Stands(s, <<q>>, c, i, j)
  BY <1>1, <1>2, <1>3, <1>4, <1>5, PhonePassHides
<1>7. QED  BY <1>1, <1>6

\* What the pass for phones leaves, and in a message the one for addresses, before
\* the last phrases are replaced.
ShownLeft == Sub(ShownText, PhoneEnds(ShownText), PartialPhonesOf(ShownText))
StoredLeft == Sub(StoredText, PhoneEnds(StoredText), PhonesOf(StoredText))
StoredRest == AddressesHidden(StoredLeft)

\* What scan_output leaves of phones and cards is in order.
LEMMA ShownLeftType ==
  ASSUME heard \in Texts  PROVE  ShownLeft \in Seq(WorkPiece) /\ Ordered(ShownLeft)
<1> DEFINE t == ShownText
           end == PhoneEnds(t)
           new == PartialPhonesOf(t)
<1>1. t \in Seq(WorkPiece) /\ Ordered(t)  BY ShownTextType
<1>2. ShownLeft = Sub(t, end, new)  BY DEF ShownLeft
<1> HIDE DEF t
<1>3. HidesPhones(t, new)  BY <1>1, BothHidePhones
<1>4. Replaces(t, end, new)
  <2> HIDE DEF new
  <2>1. QED  BY <1>1, <1>3, PhoneReplaces
<1> HIDE DEF end, new
<1>5. QED  BY <1>1, <1>2, <1>4, SubType

\* So is what mask_input leaves of phones, and nothing of it is marked.
LEMMA StoredLeftType ==
  ASSUME heard \in Texts
  PROVE  /\ StoredLeft \in Seq(WorkPiece) /\ Ordered(StoredLeft)
         /\ \A x \in 1..Len(StoredLeft) : StoredLeft[x].kind # "kept"
<1> DEFINE t == StoredText
           end == PhoneEnds(t)
           new == PhonesOf(t)
           Q == {q \in WorkPiece : q.kind # "kept"}
<1>1. t \in Seq(WorkPiece) /\ Ordered(t) /\ IsRephrased(t, heard, "email", "[EMAIL]")
  BY StoredTextType
<1>2. StoredLeft = Sub(t, end, new)  BY DEF StoredLeft
<1>3. \A n \in 1..Len(t) : t[n] \in Q
  <2>1. \A k \in 1..Len(heard) : heard[k].kind # "kept"  BY HeardType
  <2> HIDE DEF t
  <2>2. \A n \in 1..Len(t) : t[n].kind # "kept"  BY <1>1, <2>1 DEF IsRephrased
  <2>3. \A n \in 1..Len(t) : t[n] \in WorkPiece  BY <1>1, PieceType
  <2>4. QED  BY <2>2, <2>3
<1> HIDE DEF t
<1>4. HidesPhones(t, new)  BY <1>1, BothHidePhones
<1>5. \A n \in 1..Len(t) : end[n] # 0 => \A x \in 1..Len(new[n]) : new[n][x] \in Q
  <2> HIDE DEF new
  <2> SUFFICES ASSUME NEW n \in 1..Len(t), end[n] # 0, NEW x \in 1..Len(new[n])
               PROVE  new[n][x] \in Q
    OBVIOUS
  <2>1. PICK q \in WorkPiece : new[n] = <<q>> /\ q.kind \notin {"number", "kept"}
    BY <1>4 DEF HidesPhones, HidesPhone, Hidden
  <2>2. x = 1 /\ new[n][1] = q  BY <2>1
  <2>3. QED  BY <2>1, <2>2
<1>6. Replaces(t, end, new)
  <2> HIDE DEF new
  <2>1. QED  BY <1>1, <1>4, PhoneReplaces
<1> HIDE DEF end, new, Q
<1>7. StoredLeft \in Seq(WorkPiece) /\ Ordered(StoredLeft)  BY <1>1, <1>2, <1>6, SubType
<1>8. \A x \in 1..Len(Sub(t, end, new)) : Sub(t, end, new)[x] \in Q
  <2>1. \A n \in 1..Len(t) : n # 0 /\ end[n] = 0 => t[n] \in Q /\ n + 1 # 0  BY <1>3
  <2>2. \A n \in 1..Len(t) : n # 0 /\ end[n] # 0 =>
          end[n] + 1 # 0 /\ \A x \in 1..Len(new[n]) : new[n][x] \in Q
    BY <1>5, <1>6 DEF Replaces
  <2>3. 0 \in Nat /\ 0 # 1  OBVIOUS
  <2>4. QED  BY <1>1, <1>6, <2>1, <2>2, <2>3, SubIn
<1>9. QED  BY <1>2, <1>7, <1>8 DEF Q

\* The pass for addresses marks nothing either.
LEMMA StoredRestType ==
  ASSUME heard \in Texts
  PROVE  /\ StoredRest \in Seq(WorkPiece) /\ Ordered(StoredRest)
         /\ \A x \in 1..Len(StoredRest) : StoredRest[x].kind # "kept"
<1> DEFINE t == StoredLeft
           end == AddressEnds(t)
           new == AddressesOf(t)
           Q == {q \in WorkPiece : q.kind # "kept"}
<1>1. t \in Seq(WorkPiece) /\ Ordered(t) /\ \A x \in 1..Len(t) : t[x].kind # "kept"
  BY StoredLeftType
<1>2. StoredRest = Sub(t, end, new)  BY DEF StoredRest, AddressesHidden
<1> HIDE DEF t
<1>3. Replaces(t, end, new)  BY <1>1, AddressReplaces
<1>4. \A n \in 1..Len(t) : n # 0 /\ end[n] = 0 => t[n] \in Q /\ n + 1 # 0  BY <1>1, PieceType
<1>5. \A n \in 1..Len(t) : n # 0 /\ end[n] # 0 =>
        end[n] + 1 # 0 /\ \A x \in 1..Len(new[n]) : new[n][x] \in Q
  <2> SUFFICES ASSUME NEW n \in 1..Len(t), end[n] # 0
               PROVE  end[n] + 1 # 0 /\ \A x \in 1..Len(new[n]) : new[n][x] \in Q
    OBVIOUS
  <2>1. PICK q \in WorkPiece : new[n] = <<q>> /\ q.kind = "[ADDRESS]"  BY <1>1, AddressPiece
  <2> HIDE DEF end, new
  <2>2. end[n] \in n..Len(t)  BY <1>3 DEF Replaces
  <2>3. Len(new[n]) = 1 /\ new[n][1] = q /\ q \in Q  BY <2>1
  <2>4. \A x \in 1..Len(new[n]) : x = 1  BY <2>3
  <2>5. QED  BY <2>2, <2>3, <2>4
<1> HIDE DEF end, new, Q
<1>6. StoredRest \in Seq(WorkPiece) /\ Ordered(StoredRest)  BY <1>1, <1>2, <1>3, SubType
<1>7. \A x \in 1..Len(Sub(t, end, new)) : Sub(t, end, new)[x] \in Q
  <2>1. 0 \in Nat /\ 0 # 1  OBVIOUS
  <2>2. QED  BY <1>1, <1>3, <1>4, <1>5, <2>1, SubIn
<1>8. QED  BY <1>2, <1>6, <1>7 DEF Q

\* What stands in the text then shows in the end.
LEMMA ScanShows ==
  ASSUME heard \in Texts, NEW mid, mid \in Seq(WorkPiece), NEW c, NEW i, NEW j,
         Stands(ShownLeft, mid, c, i, j)
  PROVE  Shows(ScanOutput(heard), mid, c, i, j)
<1>1. ShownLeft \in Seq(WorkPiece)  BY ShownLeftType
<1>2. ScanOutput(heard) = Shown(ShownLeft)  BY OutputSteps DEF ShownLeft
<1>3. Alike(Shown(ShownLeft), ShownLeft)  BY <1>1, ShownAlike
<1>4. Shows(ShownLeft, mid, c, i, j)  BY StandsShows
<1>5. Shows(Shown(ShownLeft), mid, c, i, j)  BY <1>3, <1>4, AlikeShows
<1>6. QED  BY <1>2, <1>5

\* The same of mask_input.
LEMMA MaskShows ==
  ASSUME heard \in Texts, NEW mid, mid \in Seq(WorkPiece), NEW c, NEW i, NEW j,
         Stands(StoredRest, mid, c, i, j)
  PROVE  Shows(MaskInput(heard), mid, c, i, j)
<1>1. StoredRest \in Seq(WorkPiece) /\ \A x \in 1..Len(StoredRest) : StoredRest[x].kind # "kept"
  BY StoredRestType
<1>2. MaskInput(heard) = Stored(StoredRest)  BY InputSteps DEF StoredLeft, StoredRest
<1>3. Alike(Stored(StoredRest), StoredRest)  BY <1>1, StoredAlike
<1>4. Shows(StoredRest, mid, c, i, j)  BY StandsShows
<1>5. Shows(Stored(StoredRest), mid, c, i, j)  BY <1>3, <1>4, AlikeShows
<1>6. QED  BY <1>2, <1>5

\* What no address takes shows as the pass for phones left it.
LEMMA MaskLeaves ==
  ASSUME heard \in Texts, NEW mid, mid \in Seq(WorkPiece), mid # <<>>,
         NEW a, NEW i \in Nat, NEW j \in Nat, Stands(StoredLeft, mid, a, i, j),
         \A x \in 1..Len(mid) : mid[x].kind # "street",
         mid[Len(mid)].kind # "number" \/ Stops(StoredLeft, a + Len(mid) - 1)
  PROVE  \E c : Shows(MaskInput(heard), mid, c, i, j)
<1> DEFINE t == StoredLeft
<1>1. t \in Seq(WorkPiece) /\ Ordered(t)  BY StoredLeftType
<1>2. Stands(t, mid, a, i, j) /\ (mid[Len(mid)].kind # "number" \/ Stops(t, a + Len(mid) - 1))
  OBVIOUS
<1> HIDE DEF t
<1>3. \E c : Stands(AddressesHidden(t), mid, c, i, j)  BY <1>1, <1>2, AddressPassLeaves
<1>4. PICK c : Stands(StoredRest, mid, c, i, j)  BY <1>3 DEF StoredRest, t
<1>5. QED  BY <1>4, MaskShows

\* A run as long as a card shows as the pass for cards left it.
LEMMA CardShows ==
  ASSUME heard \in Texts, NEW i \in 1..Len(heard), NEW j \in i..Len(heard),
         Joined(heard, i, j, CardSeparators), Apart(heard, i, j, CardSeparators),
         Len(Digits(heard, i, j)) \in 13..16
  PROVE  \E c : Shows(ScanOutput(heard), AsCard(heard, i, j), c, i, j)
<1> DEFINE mid == AsCard(heard, i, j)
           s == WithoutCards(heard)
           end == CardEndsOf(heard)
           new == CardsOf(heard)
<1>1. /\ heard \in Seq(WorkPiece) /\ Ends(heard, end, CardSeparators, 13, 16)
      /\ CardSeparators \subseteq CardSeparators /\ i \in Nat /\ j \in Nat \ {0}
  BY HeardType, CardEnds DEF CardEndsOf
<1>2. end[i] = j  BY <1>1, CardHit
<1>3. new[i] = mid
  <2>1. DOMAIN heard = 1..Len(heard) /\ j # 0  BY <1>1
  <2>2. i \in Matched(CardEndsOf(heard))  BY <1>2, <2>1 DEF Matched, CardEndsOf
  <2>3. QED  BY <1>2, <2>2 DEF CardsOf
<1>4. mid \in Seq(WorkPiece) /\ mid # <<>> /\ \A x \in 1..Len(mid) : mid[x].kind \in {"card*", "kept"}
  <2>1. CASE LuhnValid(Digits(heard, i, j))
    <3> DEFINE q == CardPiece(heard, i, j)
    <3>1. mid = <<q>>  BY <2>1, AsCardIs
    <3>2. q \in WorkPiece /\ q.kind = "card*"  BY <1>1, CardPieceType
    <3> HIDE DEF q, mid
    <3>3. QED  BY <3>1, <3>2
  <2>2. CASE ~LuhnValid(Digits(heard, i, j))
    <3> DEFINE p == Kept(heard, i, j)
    <3>1. mid = p  BY <2>2, AsCardIs
    <3>2. p \in Seq(WorkPiece) /\ Len(p) = j - i + 1 /\ \A x \in 1..(j - i + 1) : p[x].kind = "kept"
      BY <1>1, KeptType
    <3> HIDE DEF p, mid
    <3>3. Len(p) # 0  BY <3>2
    <3>4. QED  BY <3>1, <3>2, <3>3
  <2>3. QED  BY <2>1, <2>2
<1> HIDE DEF mid
<1>5. Clear(end, i)
  <2> HIDE DEF end
  <2>1. QED  BY <1>1, RunClear
<1>6. Becomes(mid, heard, end, new, i, j)  BY <1>2, <1>3 DEF Becomes
<1>7. PICK a : Stands(s, mid, a, i, j)  BY <1>5, <1>6, CardPass
<1>8. /\ s \in Seq(WorkPiece) /\ ShownText \in Seq(WorkPiece) /\ Ordered(ShownText)
      /\ IsRephrased(ShownText, s, "email", "em***il")
  BY ShownTextType, CardPassType
<1> HIDE DEF s
<1>9. \A x \in 1..Len(mid) : mid[x].kind # "email" /\ mid[x].kind \notin {"number", "secret"}
  BY <1>4
<1>10. Stands(ShownText, mid, a, i, j)  BY <1>4, <1>7, <1>8, <1>9, RephrasedStands
<1>11. HidesPhones(ShownText, PartialPhonesOf(ShownText))  BY <1>8, BothHidePhones
<1> DEFINE t == ShownText
           ps == PartialPhonesOf(ShownText)
           b == a + Len(mid) - 1
<1>12. \E c : Stands(Sub(t, PhoneEnds(t), ps), mid, c, i, j)
  <2>1. t \in Seq(WorkPiece) /\ Ordered(t) /\ HidesPhones(t, ps) /\ Stands(t, mid, a, i, j)
    BY <1>8, <1>10, <1>11
  <2> HIDE DEF t, ps
  <2>2. b = a + Len(mid) - 1  OBVIOUS
  <2> HIDE DEF b
  <2>3. \A x \in 1..Len(mid) : mid[x].kind \notin {"number", "secret"}  BY <1>9
  <2>4. LET r == Sub(t, PhoneEnds(t), ps) IN
        /\ r \in Seq(WorkPiece) /\ Ordered(r)
        /\ \E c : Stands(r, mid, c, i, j) /\ Beside(r, c, c + Len(mid) - 1, t, a, b)
    BY <1>1, <1>4, <2>1, <2>2, <2>3, PhonePassLeaves
  <2>5. QED  BY <2>4
<1>13. PICK c : Stands(ShownLeft, mid, c, i, j)  BY <1>12 DEF ShownLeft
<1>14. Shows(ScanOutput(heard), mid, c, i, j)  BY <1>4, <1>13, ScanShows
<1>15. QED  BY <1>14 DEF mid

-----------------------------------------------------------------------------
(* The invariant, and what it implies                                      *)

\* What is seen is computed from what was heard, by the pass for its stage.
Computed ==
  /\ heard \in Texts /\ asker \in Asker /\ stage \in {"raw", "stored", "shown"}
  /\ stage = "raw" => seen = heard
  /\ stage = "shown" => seen = ScanOutput(heard)
  /\ stage = "stored" => seen = IF ShouldRedact(asker) THEN MaskInput(heard) ELSE heard

\* It holds before anything is computed.
LEMMA InitComputed == Init => Computed
BY DEF Init, Computed, Asker

\* It is kept by each of the two steps, which compute from the raw text.
LEMMA StepComputed == Computed /\ [Next]_vars => Computed'
<1> SUFFICES ASSUME Computed, [Next]_vars  PROVE Computed'  OBVIOUS
<1>1. CASE UNCHANGED vars
  BY <1>1 DEF Computed, vars, ScanOutput, MaskInput
<1>2. CASE Show
  <2>1. heard' = heard /\ asker' = asker /\ seen' = ScanOutput(heard) /\ stage' = "shown"
    BY <1>2 DEF Show
  <2>2. heard \in Texts /\ asker \in Asker  BY DEF Computed
  <2>3. QED  BY <2>1, <2>2 DEF Computed
<1>3. ASSUME NEW a \in Asker, Store(a)  PROVE Computed'
  <2>1. /\ heard' = heard /\ asker' = a /\ stage' = "stored"
        /\ seen' = IF ShouldRedact(a) THEN MaskInput(heard) ELSE heard
    BY <1>3 DEF Store
  <2>2. heard \in Texts  BY DEF Computed
  <2>3. QED  BY <2>1, <2>2 DEF Computed
<1>4. QED  BY <1>1, <1>2, <1>3 DEF Next

\* What is seen is the text, what is shown of it, or what is stored of it.
LEMMA RedactionComputed == Spec => []Computed
<1>1. QED  BY InitComputed, StepComputed, PTL DEF Spec

\* There are three ways in which a text can be seen.
LEMMA Outcomes ==
  ASSUME Computed
  PROVE  /\ heard \in Texts
         /\ seen = heard \/ seen = MaskInput(heard) \/ seen = ScanOutput(heard)
BY DEF Computed

\* It is a text of pieces in the order of the original.
LEMMA SeenType ==
  ASSUME Computed
  PROVE  /\ seen \in Seq(WorkPiece) /\ Ordered(seen) /\ DOMAIN seen = 1..Len(seen)
         /\ \A n \in 1..Len(seen) : seen[n] \in Piece
<1>1. heard \in Texts  BY Outcomes
<1>2. CASE seen = heard
  <2>1. seen \in Seq(WorkPiece) /\ Ordered(seen) /\ \A n \in 1..Len(seen) : seen[n] \in Piece
    BY <1>1, <1>2, HeardType
  <2>2. QED  BY <2>1
<1>3. CASE seen = MaskInput(heard)
  <2> DEFINE s == StoredRest
  <2>1. s \in Seq(WorkPiece) /\ Ordered(s) /\ \A x \in 1..Len(s) : s[x].kind # "kept"
    BY <1>1, StoredRestType
  <2>2. seen = Stored(s)  BY <1>3, InputSteps DEF StoredLeft, StoredRest
  <2> HIDE DEF s
  <2>3. Alike(seen, s) /\ \A n \in 1..Len(seen) : seen[n] \in Piece  BY <2>1, <2>2, StoredAlike
  <2>4. seen \in Seq(WorkPiece) /\ Ordered(seen)
    <3>1. seen \in Seq(WorkPiece)  BY <2>3 DEF Alike
    <3>2. QED  BY <2>1, <2>3, <3>1, AlikeOrdered
  <2>5. QED  BY <2>3, <2>4
<1>4. CASE seen = ScanOutput(heard)
  <2> DEFINE s == ShownLeft
  <2>1. s \in Seq(WorkPiece) /\ Ordered(s)  BY <1>1, ShownLeftType
  <2>2. seen = Shown(s)  BY <1>4, OutputSteps DEF ShownLeft
  <2> HIDE DEF s
  <2>3. Alike(seen, s) /\ \A n \in 1..Len(seen) : seen[n] \in Piece  BY <2>1, <2>2, ShownAlike
  <2>4. seen \in Seq(WorkPiece) /\ Ordered(seen)
    <3>1. seen \in Seq(WorkPiece)  BY <2>3 DEF Alike
    <3>2. QED  BY <2>1, <2>3, <3>1, AlikeOrdered
  <2>5. QED  BY <2>3, <2>4
<1>5. QED  BY <1>2, <1>3, <1>4, Outcomes

\* Whatever is stored or shown is a text of pieces, in the order in which they
\* stood in the original (mask_input and scan_output reorder nothing).
THEOREM RedactionTypeOK == Spec => []TypeOK
<1>1. ASSUME Computed  PROVE TypeOK
  <2>1. heard \in Seq(WorkPiece) /\ \A k \in 1..Len(heard) : heard[k] \in Piece
    BY <1>1, Outcomes, HeardType
  <2>2. DOMAIN heard = 1..Len(heard)  BY <2>1
  <2>3. /\ seen \in Seq(WorkPiece) /\ Ordered(seen) /\ DOMAIN seen = 1..Len(seen)
        /\ \A n \in 1..Len(seen) : seen[n] \in Piece
    BY <1>1, SeenType
  <2>4. ASSUME NEW n \in 1..(Len(seen) - 1)  PROVE seen[n].at < seen[n + 1].at
    <3>1. n + 1 \in 1..Len(seen) /\ n \in 1..((n + 1) - 1)  BY <2>3
    <3>2. QED  BY <2>3, <3>1 DEF Ordered
  <2>5. asker \in Asker /\ stage \in {"raw", "stored", "shown"}  BY <1>1 DEF Computed
  <2>6. QED  BY <2>1, <2>2, <2>3, <2>4, <2>5 DEF TypeOK
<1>2. QED  BY <1>1, RedactionComputed, PTL

\* A stretch is a run that nothing joins to its neighbours.
LEMMA StretchIs ==
  ASSUME heard \in Texts, NEW seps, NEW least, NEW most, NEW s \in Stretches(seps, least, most)
  PROVE  /\ s = <<s[1], s[2]>> /\ s[1] \in 1..Len(heard) /\ s[2] \in s[1]..Len(heard)
         /\ Joined(heard, s[1], s[2], seps) /\ Apart(heard, s[1], s[2], seps)
         /\ Len(Digits(heard, s[1], s[2])) \in least..most
<1>1. heard \in Seq(WorkPiece)  BY HeardType
<1>2. DOMAIN heard = 1..Len(heard) /\ Len(heard) \in Nat  BY <1>1
<1>3. /\ s \in (DOMAIN heard) \X (DOMAIN heard) /\ s[1] <= s[2] /\ Whole(s[1], s[2], seps)
      /\ Len(Digits(heard, s[1], s[2])) \in least..most
  BY DEF Stretches
<1>4. s = <<s[1], s[2]>> /\ s[1] \in 1..Len(heard) /\ s[2] \in 1..Len(heard)  BY <1>2, <1>3
<1> DEFINE i == s[1]
           j == s[2]
<1>5. i \in 1..Len(heard) /\ j \in i..Len(heard)
  <2>1. i \in 1..Len(heard) /\ j \in 1..Len(heard) /\ i <= j  BY <1>3, <1>4
  <2> HIDE DEF i, j
  <2>2. QED  BY <1>2, <2>1
<1>6. Joined(heard, i, j, seps) /\ Apart(heard, i, j, seps)
  <2>1. Whole(i, j, seps)  BY <1>3
  <2> HIDE DEF i, j
  <2>2. QED  BY <1>5, <2>1, WholeApart
<1>7. QED  BY <1>3, <1>4, <1>5, <1>6

\* Where one piece shows, one piece was made of the pieces it stands for.
LEMMA OneMade ==
  ASSUME NEW q \in WorkPiece, NEW i \in Nat, NEW j \in Nat, q.at \in i..j, NEW c,
         Shows(seen, <<q>>, c, i, j)
  PROVE  /\ Cardinality(Made(<<i, j>>)) = 1
         /\ \A n \in Made(<<i, j>>) : seen[n].digits = q.digits
<1> DEFINE mid == <<q>>
<1>1. mid \in Seq(WorkPiece) /\ Len(mid) = 1 /\ mid[1] = q  OBVIOUS
<1>2. Shows(seen, mid, c, i, j)  OBVIOUS
<1> HIDE DEF mid
<1>3. Within(mid, i, j)  BY <1>1 DEF Within
<1>4. Made(<<i, j>>) = c..(c + Len(mid) - 1) /\ Cardinality(Made(<<i, j>>)) = Len(mid)
  BY <1>2, <1>3, MadeIs
<1>5. c \in Nat \ {0} /\ \A x \in 1..Len(mid) : seen[c + x - 1].digits = mid[x].digits
  BY <1>2 DEF Shows
<1>6. c + Len(mid) - 1 = c /\ c + 1 - 1 = c /\ 1 \in 1..Len(mid)  BY <1>1, <1>5
<1>7. seen[c].digits = q.digits  BY <1>1, <1>5, <1>6
<1>8. \A n \in c..c : n = c  BY <1>5
<1>9. QED  BY <1>1, <1>4, <1>6, <1>7, <1>8

\* p is the numbers i to j, perhaps walled off.
Same(p, i, j) ==
  /\ p \in Seq(WorkPiece) /\ Len(p) = j - i + 1
  /\ \A x \in 1..(j - i + 1) :
       /\ p[x].kind \in {"number", "kept"} /\ p[x].at = i + x - 1
       /\ p[x].digits = heard[i + x - 1].digits

\* Where that shows, the stretch is untouched.
LEMMA ShowsUntouched ==
  ASSUME Computed, NEW i \in 1..Len(heard), NEW j \in i..Len(heard),
         NEW mid, Same(mid, i, j), NEW c, Shows(seen, mid, c, i, j)
  PROVE  Untouched(<<i, j>>)
<1>0. /\ mid \in Seq(WorkPiece) /\ Len(mid) = j - i + 1
      /\ \A x \in 1..(j - i + 1) :
           /\ mid[x].kind \in {"number", "kept"} /\ mid[x].at = i + x - 1
           /\ mid[x].digits = heard[i + x - 1].digits
  BY DEF Same
<1>1. /\ heard \in Seq(WorkPiece) /\ seen \in Seq(WorkPiece)
      /\ \A n \in 1..Len(seen) : seen[n] \in Piece
  BY Outcomes, HeardType, SeenType
<1>2. i \in Nat /\ j \in Nat /\ j - i + 1 \in Nat /\ i <= j  BY <1>1
<1>3. Within(mid, i, j)
  <2>1. \A x \in 1..(j - i + 1) : i + x - 1 \in i..j  BY <1>2
  <2>2. QED  BY <1>0, <2>1 DEF Within
<1>4. Made(<<i, j>>) = c..(c + Len(mid) - 1) /\ Cardinality(Made(<<i, j>>)) = Len(mid)
  BY <1>2, <1>3, MadeIs
<1>5. /\ c \in Nat \ {0} /\ c + Len(mid) - 1 <= Len(seen)
      /\ \A x \in 1..Len(mid) :
           /\ seen[c + x - 1].at = mid[x].at /\ seen[c + x - 1].digits = mid[x].digits
           /\ mid[x].kind \in {"number", "kept"} => seen[c + x - 1].kind \in {"number", "kept"}
  BY DEF Shows
<1>6. ASSUME NEW n \in Made(<<i, j>>)
      PROVE  \E k \in i..j : seen[n].kind = "number" /\ seen[n].at = k /\ seen[n].digits = heard[k].digits
  <2> DEFINE x == n - c + 1
             k == i + x - 1
  <2>1. n \in c..(c + Len(mid) - 1)  BY <1>4
  <2>2. x \in 1..(j - i + 1) /\ c + x - 1 = n /\ n \in 1..Len(seen) /\ k \in i..j
    BY <1>0, <1>1, <1>2, <1>5, <2>1
  <2> HIDE DEF x
  <2>3. seen[c + x - 1].at = mid[x].at /\ seen[c + x - 1].digits = mid[x].digits
    BY <1>0, <1>5, <2>2
  <2>4. mid[x].at = k /\ mid[x].digits = heard[k].digits /\ mid[x].kind \in {"number", "kept"}
    BY <1>0, <2>2
  <2>5. seen[c + x - 1].kind \in {"number", "kept"}  BY <1>0, <1>5, <2>2, <2>4
  <2>6. seen[n].kind \in {"number", "kept"} /\ seen[n] \in Piece  BY <1>1, <2>2, <2>5
  <2>7. seen[n].kind = "number"  BY <2>6 DEF Piece, Phrases, Hidden
  <2> HIDE DEF k
  <2>8. QED  BY <2>2, <2>3, <2>4, <2>7
<1>7. Cardinality(Made(<<i, j>>)) = j - i + 1  BY <1>0, <1>4
<1>8. QED  BY <1>6, <1>7 DEF Untouched

\* The digits of a stretch as long as a card are checked alike.
LEMMA StretchDigits ==
  ASSUME heard \in Texts, NEW i \in 1..Len(heard), NEW j \in i..Len(heard),
         Len(Digits(heard, i, j)) \in 13..16
  PROVE  LuhnValid(Digits(heard, i, j)) <=> IsCard(Digits(heard, i, j))
<1> DEFINE ds == Digits(heard, i, j)
<1>1. heard \in Seq(WorkPiece)  BY HeardType
<1>2. PICK c : Counts(c, heard)  BY <1>1, CountsExist
<1>3. ds \in Seq(0..9) /\ Len(ds) \in 13..16  BY <1>1, <1>2, DigitsLength
<1> HIDE DEF ds
<1>4. Len(ds) <= 16
  <2> DEFINE n == Len(ds)
  <2>1. n \in 13..16  BY <1>3
  <2> HIDE DEF n
  <2>2. n <= 16  BY <2>1
  <2>3. QED  BY <2>2 DEF n
<1>5. LuhnValid(ds) <=> IsCard(ds)  BY <1>3, <1>4, LuhnIsCard
<1>6. QED  BY <1>5 DEF ds

\* A card number that nothing joins to another number shows only its last four
\* digits in an answer, whatever phones, phrases or numbers are around it: no
\* later pattern finds it again (_mask_credit_card, scan_output).
THEOREM RedactionCardHidden == Spec => []CardHidden
<1>1. ASSUME Computed  PROVE CardHidden
  <2> SUFFICES ASSUME stage = "shown", NEW s \in Stretches(CardSeparators, 13, 16),
                      IsCard(Digits(heard, s[1], s[2]))
               PROVE  LET ds == Digits(heard, s[1], s[2]) IN
                      \A n \in Made(s) : /\ Cardinality(Made(s)) = 1
                                         /\ seen[n].digits = SubSeq(ds, Len(ds) - 3, Len(ds))
    BY DEF CardHidden
  <2> DEFINE i == s[1]
             j == s[2]
             q == CardPiece(heard, i, j)
  <2>1. heard \in Texts /\ seen = ScanOutput(heard) /\ heard \in Seq(WorkPiece)
    BY <1>1, HeardType DEF Computed
  <2>2. /\ s = <<i, j>> /\ i \in 1..Len(heard) /\ j \in i..Len(heard)
        /\ Joined(heard, i, j, CardSeparators) /\ Apart(heard, i, j, CardSeparators)
        /\ Len(Digits(heard, i, j)) \in 13..16
    BY <2>1, StretchIs
  <2>3. IsCard(Digits(heard, i, j))  OBVIOUS
  <2> HIDE DEF i, j
  <2>4. LuhnValid(Digits(heard, i, j))  BY <2>1, <2>2, <2>3, StretchDigits
  <2>5. AsCard(heard, i, j) = <<q>>  BY <2>4, AsCardIs
  <2>6. /\ q \in WorkPiece /\ q.at = heard[i].at
        /\ LET ds == Digits(heard, i, j) IN q.digits = SubSeq(ds, Len(ds) - 3, Len(ds))
    BY <2>1, <2>2, CardPieceType
  <2>7. i \in Nat /\ j \in Nat /\ heard[i].at = i /\ i \in i..j
    BY <2>1, <2>2, HeardType
  <2>8. PICK c : Shows(ScanOutput(heard), AsCard(heard, i, j), c, i, j)
    BY <2>1, <2>2, CardShows
  <2> HIDE DEF q
  <2>9. Shows(seen, <<q>>, c, i, j) /\ q.at \in i..j  BY <2>1, <2>5, <2>6, <2>7, <2>8
  <2>10. /\ Cardinality(Made(<<i, j>>)) = 1
         /\ \A n \in Made(<<i, j>>) : seen[n].digits = q.digits
    BY <2>6, <2>7, <2>9, OneMade
  <2>11. QED  BY <2>2, <2>6, <2>10 DEF i, j
<1>2. QED  BY <1>1, RedactionComputed, PTL

\* A phone number that nothing joins to another number, nor to a house number, is
\* never stored, and shows at most four digits, unless a business caller turned
\* masking off (_should_redact).
THEOREM RedactionPhoneHidden == Spec => []PhoneHidden
<1>1. ASSUME Computed  PROVE PhoneHidden
  <2> SUFFICES ASSUME stage = "shown" \/ (stage = "stored" /\ Masked),
                      NEW s \in Stretches(PhoneSeparators, 10, 12), heard[s[1]].sep # "-"
               PROVE  /\ Cardinality(Made(s)) = 1
                      /\ \A n \in Made(s) : Len(seen[n].digits) <= 4
    BY DEF PhoneHidden
  <2> DEFINE i == s[1]
             j == s[2]
  <2>1. heard \in Texts /\ heard \in Seq(WorkPiece)  BY <1>1, HeardType DEF Computed
  <2>2. /\ s = <<i, j>> /\ i \in 1..Len(heard) /\ j \in i..Len(heard)
        /\ Joined(heard, i, j, PhoneSeparators) /\ Apart(heard, i, j, PhoneSeparators)
        /\ Len(Digits(heard, i, j)) \in 10..12
    BY <2>1, StretchIs
  <2>a. heard[i].sep # "-"  OBVIOUS
  <2> HIDE DEF i, j
  <2>3. i \in Nat /\ j \in Nat /\ i \in i..j  BY <2>1, <2>2
  <2>4. PICK q \in WorkPiece : q.at = i /\ Len(q.digits) <= 4 /\ \E c : Shows(seen, <<q>>, c, i, j)
    <3>1. CASE stage = "shown"
      <4> DEFINE t == ShownText
                 new == PartialPhonesOf(t)
      <4>1. Len(Digits(heard, i, j)) < 13
        <5> DEFINE n == Len(Digits(heard, i, j))
        <5>1. n \in 10..12  BY <2>2
        <5> HIDE DEF n
        <5>2. n < 13  BY <5>1
        <5>3. QED  BY <5>2 DEF n
      <4>2. Alone(t, i, j)  BY <2>1, <2>2, <4>1, ShownAlone
      <4>3. HidesPhones(t, new)  BY <2>1, ShownTextType, BothHidePhones
      <4> HIDE DEF t, new
      <4>4. LET r == Sub(t, PhoneEnds(t), new) IN
            \E q \in WorkPiece : /\ q.at = i /\ q.kind \in Hidden /\ Len(q.digits) <= 4
                                 /\ \E c : Stands(r, <<q>>, c, i, j)
        BY <2>1, <2>2, <2>a, <4>2, <4>3, AloneHidden
      <4>5. ShownLeft = Sub(t, PhoneEnds(t), new)  BY DEF ShownLeft, t, new
      <4>6. PICK q \in WorkPiece : /\ q.at = i /\ Len(q.digits) <= 4
                                   /\ \E c : Stands(ShownLeft, <<q>>, c, i, j)
        BY <4>4, <4>5
      <4>7. PICK c : Stands(ShownLeft, <<q>>, c, i, j)  BY <4>6
      <4>8. <<q>> \in Seq(WorkPiece)  OBVIOUS
      <4>9. Shows(ScanOutput(heard), <<q>>, c, i, j)  BY <2>1, <4>7, <4>8, ScanShows
      <4>10. seen = ScanOutput(heard)  BY <1>1, <3>1 DEF Computed
      <4>11. QED  BY <4>6, <4>9, <4>10
    <3>2. CASE stage = "stored" /\ Masked
      <4> DEFINE t == StoredText
                 new == PhonesOf(t)
      <4>1. Alone(t, i, j)  BY <2>1, <2>2, StoredAlone
      <4>2. HidesPhones(t, new)  BY <2>1, StoredTextType, BothHidePhones
      <4> HIDE DEF t, new
      <4>3. LET r == Sub(t, PhoneEnds(t), new) IN
            \E q \in WorkPiece : /\ q.at = i /\ q.kind \in Hidden /\ Len(q.digits) <= 4
                                 /\ \E c : Stands(r, <<q>>, c, i, j)
        BY <2>1, <2>2, <2>a, <4>1, <4>2, AloneHidden
      <4>4. StoredLeft = Sub(t, PhoneEnds(t), new)  BY DEF StoredLeft, t, new
      <4>5. PICK q \in WorkPiece : /\ q.at = i /\ q.kind \in Hidden /\ Len(q.digits) <= 4
                                   /\ \E c : Stands(StoredLeft, <<q>>, c, i, j)
        BY <4>3, <4>4
      <4>6. PICK c : Stands(StoredLeft, <<q>>, c, i, j)  BY <4>5
      <4> DEFINE mid == <<q>>
      <4>7. mid \in Seq(WorkPiece) /\ mid # <<>> /\ Len(mid) = 1 /\ mid[1] = q  OBVIOUS
      <4> HIDE DEF mid
      <4>8. q.kind \notin {"number", "street"}  BY <4>5 DEF Hidden
      <4>9. mid[Len(mid)].kind # "number" /\ \A x \in 1..Len(mid) : mid[x].kind # "street"
        <5>1. \A x \in 1..Len(mid) : x = 1  BY <4>7
        <5>2. QED  BY <4>7, <4>8, <5>1
      <4>10. Stands(StoredLeft, mid, c, i, j)  BY <4>6 DEF mid
      <4>11. \E d : Shows(MaskInput(heard), mid, d, i, j)
        BY <2>1, <2>3, <4>7, <4>9, <4>10, MaskLeaves
      <4>12. ShouldRedact(asker)  BY <3>2, RedactionAssumption DEF ShouldRedact, Masked
      <4>13. seen = MaskInput(heard)  BY <1>1, <3>2, <4>12 DEF Computed
      <4>14. QED  BY <4>5, <4>11, <4>13 DEF mid
    <3>3. QED  BY <3>1, <3>2
  <2>5. PICK c : Shows(seen, <<q>>, c, i, j)  BY <2>4
  <2>6. q.at \in i..j  BY <2>3, <2>4
  <2>7. /\ Cardinality(Made(<<i, j>>)) = 1
        /\ \A n \in Made(<<i, j>>) : seen[n].digits = q.digits
    BY <2>3, <2>5, <2>6, OneMade
  <2>8. QED  BY <2>2, <2>4, <2>7
<1>2. QED  BY <1>1, RedactionComputed, PTL

\* The numbers themselves are that, and so they are walled off.
LEMMA PartSame ==
  ASSUME heard \in Texts, NEW i \in 1..Len(heard), NEW j \in i..Len(heard),
         NEW seps, Joined(heard, i, j, seps)
  PROVE  Same(Part(i, j), i, j) /\ Same(Kept(heard, i, j), i, j)
<1>1. /\ heard \in Seq(WorkPiece) /\ \A k \in 1..Len(heard) : heard[k].at = k
  BY HeardType
<1>2. \A x \in 1..(j - i + 1) : i + x - 1 \in i..j /\ i + x - 1 \in 1..Len(heard)  BY <1>1
<1>3. \A x \in 1..(j - i + 1) : heard[i + x - 1].kind = "number" /\ heard[i + x - 1].at = i + x - 1
  BY <1>1, <1>2 DEF Joined
<1>4. Same(Part(i, j), i, j)
  <2> DEFINE p == Part(i, j)
  <2>1. /\ p \in Seq(WorkPiece) /\ Len(p) = j - i + 1
        /\ \A x \in 1..(j - i + 1) : p[x] = heard[i + x - 1]
    BY HeardPart
  <2> HIDE DEF p
  <2>2. QED  BY <1>3, <2>1 DEF Same, p
<1>5. Same(Kept(heard, i, j), i, j)
  <2> DEFINE p == Kept(heard, i, j)
  <2>1. /\ p \in Seq(WorkPiece) /\ Len(p) = j - i + 1
        /\ \A x \in 1..(j - i + 1) :
             /\ i + x - 1 \in i..j /\ p[x].kind = "kept" /\ p[x].at = heard[i + x - 1].at
             /\ p[x].sep = heard[i + x - 1].sep /\ p[x].digits = heard[i + x - 1].digits
    BY <1>1, KeptType
  <2> HIDE DEF p
  <2>2. QED  BY <1>3, <2>1 DEF Same, p
<1>6. QED  BY <1>4, <1>5

\* Every number that is not the first piece is joined to what is before it, if
\* that is a number, and a street stands behind a space.
LEMMA HeardNext ==
  ASSUME heard \in Texts, NEW n \in 1..Len(heard), n # 1
  PROVE  heard[n].sep \in PhoneSeparators /\ (heard[n].kind = "street" => heard[n].sep = " ")
<1>1. n \in DOMAIN heard /\ heard[n] \in Piece
  <2>1. heard \in Seq(WorkPiece) /\ heard[n] \in Piece  BY HeardType
  <2>2. DOMAIN heard = 1..Len(heard)  BY <2>1
  <2>3. QED  BY <2>1, <2>2
<1>2. heard[n].sep \in Separators  BY <1>1 DEF Piece
<1>3. heard[n].sep # ""  BY Zenon, <1>1, RedactionAssumption
<1>4. heard[n].kind = "street" => heard[n].sep \in {"", " "}
  BY Zenon, <1>1, RedactionAssumption DEF Phrases
<1>5. heard[n].sep \in PhoneSeparators  BY Zenon, <1>2, <1>3 DEF Separators, PhoneSeparators
<1>6. QED  BY Zenon, <1>3, <1>4, <1>5

\* So what is behind a run that stands by itself is no number.
LEMMA BehindRun ==
  ASSUME heard \in Texts, NEW i \in 1..Len(heard), NEW j \in i..Len(heard),
         Apart(heard, i, j, PhoneSeparators)
  PROVE  j < Len(heard) => heard[j + 1].kind # "number"
<1> SUFFICES ASSUME j < Len(heard)  PROVE heard[j + 1].kind # "number"  OBVIOUS
<1> DEFINE n == j + 1
<1>0. heard \in Seq(WorkPiece)  BY HeardType
<1>1. n \in 1..Len(heard) /\ n # 1  BY <1>0
<1>2. heard[n].kind # "number" \/ heard[n].sep \notin PhoneSeparators  BY DEF Apart
<1> HIDE DEF n
<1>3. heard[n].sep \in PhoneSeparators  BY Zenon, <1>1, HeardNext
<1>4. QED  BY <1>2, <1>3 DEF n

\* Two pieces that stand in a text.
LEMMA StandsPair ==
  ASSUME NEW s, NEW mid, mid \in Seq(WorkPiece), mid # <<>>, Len(mid) = 2,
         NEW a, NEW lo, NEW hi, Stands(s, mid, a, lo, hi)
  PROVE  /\ a \in 1..Len(s) /\ a + 1 \in a..Len(s) /\ mid = SubSeq(s, a, a + 1)
         /\ Before(s, a, lo) /\ After(s, (a + 1) + 1, hi)
<1> DEFINE b == a + Len(mid) - 1
<1>1. /\ a \in 1..Len(s) /\ b \in a..Len(s) /\ mid = SubSeq(s, a, b) /\ b - a + 1 = Len(mid)
      /\ \A k \in a..b : k - a + 1 \in 1..Len(mid) /\ s[k] = mid[k - a + 1]
      /\ Before(s, a, lo) /\ After(s, b + 1, hi)
  BY StandsPart
<1>2. b = a + 1  BY <1>1
<1> HIDE DEF b
<1>3. QED  BY <1>1, <1>2

\* A street with a house number before it is still there when the addresses are
\* looked for, if the house number makes no phone with what is before it.
LEMMA HouseStored ==
  ASSUME heard \in Texts, NEW i \in 1..Len(heard), NEW j \in i..Len(heard),
         Joined(heard, i, j, PhoneSeparators), Apart(heard, i, j, PhoneSeparators),
         Len(Digits(heard, i, j)) < 10, Len(heard[j].digits) <= 6,
         j < Len(heard), heard[j + 1].kind = "street"
  PROVE  \E c \in 1..Len(StoredLeft) :
           Houses(StoredLeft, c) /\ StoredLeft[c].at = j /\ StoredLeft[c + 1].at = j + 1
<1> DEFINE e == j + 1
           p == Part(j, e)
           run == Part(i, j)
           t == StoredText
           new == PhonesOf(t)
           end == PhoneEnds(t)
<1>1. /\ heard \in Seq(WorkPiece) /\ t \in Seq(WorkPiece) /\ Ordered(t)
      /\ IsRephrased(t, heard, "email", "[EMAIL]")
  BY HeardType, StoredTextType
<1>2. /\ Len(heard) \in Nat /\ i \in Nat /\ j \in 1..Len(heard) /\ e \in j..Len(heard) /\ e \in Nat
      /\ j \in Nat /\ e # 1 /\ e \in 1..Len(heard) /\ e - j + 1 = 2 /\ j \in i..j
  BY <1>1
<1>3. Len(t) = Len(heard)  BY <1>1 DEF IsRephrased
<1>4. heard[j].kind = "number" /\ heard[e].kind = "street"  BY <1>2 DEF Joined
<1>5. heard[e].kind = "street" => Spaced(heard[e])
  BY Zenon, <1>2, HeardNext DEF Spaced
<1>6. Spaced(heard[e])  BY <1>4, <1>5
<1> HIDE DEF e, p, run, t, new, end
<1>7. /\ p \in Seq(WorkPiece) /\ p # <<>> /\ Len(p) = 2 /\ Stands(heard, p, j, j, e)
      /\ p[1] = heard[j] /\ p[2] = heard[e] /\ p[1].at = j /\ p[2].at = e
  <2>1. /\ p \in Seq(WorkPiece) /\ p # <<>> /\ Len(p) = e - j + 1 /\ Stands(heard, p, j, j, e)
        /\ \A x \in 1..(e - j + 1) : p[x] = heard[j + x - 1] /\ p[x].at = j + x - 1
    BY <1>2, HeardPart DEF p
  <2>2. \A x \in 1..2 : p[x] = heard[j + x - 1] /\ p[x].at = j + x - 1  BY <1>2, <2>1
  <2>3. j + 1 - 1 = j /\ j + 2 - 1 = e  BY <1>2 DEF e
  <2>4. p[1] = heard[j + 1 - 1] /\ p[1].at = j + 1 - 1 /\ p[2] = heard[j + 2 - 1] /\ p[2].at = j + 2 - 1
    BY <2>2
  <2>5. QED  BY <1>2, <2>1, <2>3, <2>4
<1>8. Stands(t, p, j, j, e)
  <2>1. \A x \in 1..Len(p) : x = 1 \/ x = 2  BY <1>7
  <2>2. \A x \in 1..Len(p) : p[x].kind # "email"  BY <1>4, <1>7, <2>1
  <2>3. QED  BY <1>1, <1>7, <2>2, RephrasedStands
<1>9. /\ Before(t, j, j) /\ After(t, e + 1, e) /\ p = SubSeq(t, j, e)
      /\ j \in 1..Len(t) /\ e \in j..Len(t)
  <2>1. /\ j \in 1..Len(t) /\ j + 1 \in j..Len(t) /\ p = SubSeq(t, j, j + 1)
        /\ Before(t, j, j) /\ After(t, (j + 1) + 1, e)
    BY <1>7, <1>8, StandsPair
  <2>2. QED  BY <2>1 DEF e
<1>10. Clear(end, j) /\ end[j] = 0
  <2>1. /\ run \in Seq(WorkPiece) /\ Len(run) = j - i + 1 /\ Stands(heard, run, i, i, j)
        /\ \A x \in 1..(j - i + 1) : i + x - 1 \in i..j /\ run[x] = heard[i + x - 1]
    BY HeardPart DEF run
  <2>2. \A x \in 1..Len(run) : run[x].kind # "email"  BY <2>1 DEF Joined
  <2>3. Stands(t, run, i, i, j)  BY <1>1, <2>1, <2>2, RephrasedStands
  <2>4. i + Len(run) - 1 = j  BY <1>2, <2>1
  <2>5. Joined(t, i, j, PhoneSeparators) /\ Digits(t, i, j) = Digits(heard, i, j)
    BY <2>3, <2>4, AloneRun DEF run
  <2>6. Apart(t, i, j, PhoneSeparators)  BY <1>1, RephrasedApart
  <2>7. Ends(t, end, PhoneSeparators, 10, 12)  BY <1>1, PhoneEndsEnd DEF end
  <2>8. i \in 1..Len(t) /\ j \in i..Len(t)  BY <1>2, <1>3
  <2>9. Clear(end, i)  BY <1>1, <2>5, <2>6, <2>7, <2>8, RunClear
  <2>10. Len(Digits(t, i, j)) < 10  BY <2>5
  <2>11. Unmatched(end, i, j)  BY <1>1, <2>5, <2>6, <2>7, <2>8, <2>10, RunShort
  <2>12. ASSUME NEW k \in 1..(j - 1)  PROVE end[k] < j
    <3>1. CASE k \in 1..(i - 1)
      <4>1. end[k] < i /\ i <= j  BY <1>2, <2>9, <3>1 DEF Clear
      <4>2. end[k] \in Int
        <5>1. k \in 1..Len(t)  BY <1>2, <1>3
        <5>2. \/ end[k] = 0 \/ Matches(t, k, end[k], PhoneSeparators, 10, 12)
              \/ end[k] = k
          BY <2>7, <5>1 DEF Ends
        <5>3. QED  BY <5>2 DEF Matches
      <4>3. QED  BY <1>2, <4>1, <4>2
    <3>2. CASE k \in i..j
      <4>1. end[k] = 0  BY <2>11, <3>2 DEF Unmatched
      <4>2. QED  BY <1>2, <4>1
    <3>3. QED  BY <1>2, <3>1, <3>2
  <2>13. Clear(end, j)  BY <2>12 DEF Clear
  <2>14. QED  BY <1>2, <2>11, <2>13 DEF Unmatched
<1>11. end[e] = 0
  <2>1. t[e].kind = "street"  BY <1>1, <1>2, <1>4 DEF IsRephrased
  <2>2. \A k \in e..e : k = e  BY <1>2
  <2>3. NoNumbers(t, e, e)  BY <2>1, <2>2 DEF NoNumbers
  <2>4. Ends(t, end, PhoneSeparators, 10, 12)  BY <1>1, PhoneEndsEnd DEF end
  <2>5. e \in 1..Len(t) /\ e \in e..Len(t) /\ e \in e..e  BY <1>2, <1>3
  <2>6. Unmatched(end, e, e)  BY <1>1, <2>3, <2>4, <2>5, HiddenClear
  <2>7. QED  BY <2>5, <2>6 DEF Unmatched
<1>12. \A k \in j..e : end[k] = 0
  <2>1. \A k \in j..e : k = j \/ k = e  BY <1>2 DEF e
  <2>2. QED  BY <1>10, <1>11, <2>1
<1>13. Becomes(p, t, end, new, j, e)  BY <1>9, <1>12 DEF Becomes
<1>14. Replaces(t, end, new)
  <2>1. HidesPhones(t, new)  BY <1>1, BothHidePhones DEF new
  <2>2. QED  BY <1>1, <2>1, PhoneReplaces DEF end
<1>15. LET s == Sub(t, end, new) IN
       /\ s \in Seq(WorkPiece) /\ Ordered(s)
       /\ \E c : Stands(s, p, c, j, e) /\ Beside(s, c, c + Len(p) - 1, t, j, e)
  BY <1>1, <1>2, <1>9, <1>10, <1>13, <1>14, SubBlock
<1>16. StoredLeft = Sub(t, end, new)  BY DEF StoredLeft, t, end, new
<1> DEFINE r == StoredLeft
<1>17. PICK c : Stands(r, p, c, j, e)  BY <1>15, <1>16
<1> HIDE DEF r
<1>18. /\ r \in Seq(WorkPiece) /\ c \in Nat \ {0} /\ c + 2 - 1 <= Len(r)
       /\ \A x \in 1..2 : r[c + x - 1] = p[x]
  BY <1>7, <1>17 DEF Stands
<1>19. c + 1 - 1 = c /\ c + 2 - 1 = c + 1  BY <1>18
<1>20. r[c + 1 - 1] = p[1] /\ r[c + 2 - 1] = p[2]  BY <1>18
<1>21. r[c] = heard[j] /\ r[c + 1] = heard[e] /\ r[c].at = j /\ r[c + 1].at = e
  BY <1>7, <1>19, <1>20
<1>22. c \in 1..Len(r) /\ c < Len(r)  BY <1>18
<1>23. Len(r[c].digits) <= 6 /\ r[c].kind = "number" /\ r[c + 1].kind = "street" /\ Spaced(r[c + 1])
  BY <1>4, <1>6, <1>21
<1>24. Houses(r, c)  BY Zenon, <1>22, <1>23 DEF Houses, Spaced
<1>25. QED  BY <1>21, <1>22, <1>24 DEF r, e

\* A street and its house number are never stored, but hidden in an address,
\* unless the house number makes a phone with the numbers before it, or a
\* business caller turned masking off (_ADDRESS_PATTERN, _should_redact).
THEOREM RedactionAddressHidden == Spec => []AddressHidden
<1>1. ASSUME Computed  PROVE AddressHidden
  <2> SUFFICES ASSUME stage = "stored", Masked, NEW s \in Stretches(PhoneSeparators, 1, 9),
                      BeforeStreet(s), Len(heard[s[2]].digits) <= 6,
                      NEW n \in DOMAIN seen, seen[n].at \in {s[2], s[2] + 1}
               PROVE  seen[n].kind = "[ADDRESS]"
    BY DEF AddressHidden
  <2> DEFINE i == s[1]
             j == s[2]
             t == StoredLeft
             u == StoredRest
  <2>1. heard \in Texts /\ heard \in Seq(WorkPiece)  BY <1>1, HeardType DEF Computed
  <2>2. /\ i \in 1..Len(heard) /\ j \in i..Len(heard)
        /\ Joined(heard, i, j, PhoneSeparators) /\ Apart(heard, i, j, PhoneSeparators)
        /\ Len(Digits(heard, i, j)) \in 1..9
    BY <2>1, StretchIs
  <2>3. j < Len(heard) /\ heard[j + 1].kind = "street"  BY DEF BeforeStreet
  <2>4. Len(heard[j].digits) <= 6 /\ seen[n].at \in {j, j + 1}  OBVIOUS
  <2> HIDE DEF i, j
  <2>5. Len(Digits(heard, i, j)) < 10
    <3> DEFINE m == Len(Digits(heard, i, j))
    <3>1. m \in 1..9  BY <2>2
    <3> HIDE DEF m
    <3>2. m < 10  BY <3>1
    <3>3. QED  BY <3>2 DEF m
  <2>6. PICK c \in 1..Len(t) : Houses(t, c) /\ t[c].at = j /\ t[c + 1].at = j + 1
    BY <2>1, <2>2, <2>3, <2>4, <2>5, HouseStored
  <2>7. t \in Seq(WorkPiece) /\ Ordered(t)  BY <2>1, StoredLeftType
  <2>8. u = AddressesHidden(t)  BY DEF StoredRest
  <2>9. u \in Seq(WorkPiece) /\ \A x \in 1..Len(u) : u[x].kind # "kept"
    BY <2>1, StoredRestType
  <2>10. ShouldRedact(asker)  BY RedactionAssumption DEF ShouldRedact, Masked
  <2>11. seen = MaskInput(heard)  BY <1>1, <2>10 DEF Computed
  <2>12. MaskInput(heard) = Stored(u)  BY InputSteps DEF StoredLeft, StoredRest
  <2> HIDE DEF t, u
  <2>13. \A x \in 1..Len(u) : u[x].at \in {j, j + 1} => u[x].kind = "[ADDRESS]"
    BY <2>6, <2>7, <2>8, HouseHidden
  <2>14. Alike(seen, u) /\ \A x \in 1..Len(u) : u[x].kind = "[ADDRESS]" => seen[x].kind = "[ADDRESS]"
    BY <2>9, <2>11, <2>12, StoredAlike
  <2>15. n \in 1..Len(u) /\ seen[n].at = u[n].at
    <3>1. seen \in Seq(WorkPiece) /\ Len(seen) = Len(u)  BY <2>14 DEF Alike
    <3>2. n \in 1..Len(u)  BY <3>1
    <3>3. QED  BY <2>14, <3>2 DEF Alike
  <2>16. QED  BY <2>4, <2>13, <2>14, <2>15
<1>2. QED  BY <1>1, RedactionComputed, PTL

\* A number too short for a phone shows whole in what is stored, if no street is
\* behind it.
LEMMA ShortStored ==
  ASSUME heard \in Texts, NEW i \in 1..Len(heard), NEW j \in i..Len(heard),
         Joined(heard, i, j, PhoneSeparators), Apart(heard, i, j, PhoneSeparators),
         Len(Digits(heard, i, j)) < 10,
         j < Len(heard) => heard[j + 1].kind # "street"
  PROVE  \E c : Shows(MaskInput(heard), Part(i, j), c, i, j)
<1> DEFINE p == Part(i, j)
           t == StoredText
           new == PhonesOf(t)
           r == Sub(t, PhoneEnds(t), new)
<1>1. /\ p \in Seq(WorkPiece) /\ p # <<>> /\ Len(p) = j - i + 1 /\ i \in Nat /\ j \in Nat
      /\ \A x \in 1..(j - i + 1) : i + x - 1 \in i..j /\ p[x] = heard[i + x - 1]
      /\ Stands(heard, p, i, i, j)
  BY HeardPart
<1>2. /\ heard \in Seq(WorkPiece) /\ t \in Seq(WorkPiece) /\ Ordered(t)
      /\ IsRephrased(t, heard, "email", "[EMAIL]")
  BY HeardType, StoredTextType
<1>3. \A x \in 1..Len(p) : p[x].kind = "number"
  <2> HIDE DEF p
  <2>1. QED  BY <1>1 DEF Joined
<1>4. HidesPhones(t, new)  BY <1>2, BothHidePhones
<1>5. r = StoredLeft  BY DEF StoredLeft
<1> HIDE DEF p, t, new
<1>6. Stands(t, p, i, i, j)
  <2>1. \A x \in 1..Len(p) : p[x].kind # "email"  BY <1>3
  <2>2. QED  BY <1>1, <1>2, <2>1, RephrasedStands
<1>7. Apart(t, i, j, PhoneSeparators)  BY <1>2, RephrasedApart
<1>8. Joined(t, i, j, PhoneSeparators) /\ Len(Digits(t, i, j)) < 10
  <2>1. i + Len(p) - 1 = j  BY <1>1
  <2>2. Joined(t, i, j, PhoneSeparators) /\ Digits(t, i, j) = Digits(heard, i, j)
    BY <1>6, <2>1, AloneRun DEF p
  <2>3. QED  BY <2>2
<1>9. Stops(t, j)
  <2> SUFFICES ASSUME j < Len(t)  PROVE t[j + 1].kind \notin {"number", "street"}  BY DEF Stops
  <2>1. j < Len(heard) /\ j + 1 \in 1..Len(heard)  BY <1>1, <1>2 DEF IsRephrased
  <2>2. heard[j + 1].kind \notin {"number", "street"}  BY <2>1, BehindRun
  <2>3. t[j + 1].kind = IF heard[j + 1].kind = "email" THEN "[EMAIL]" ELSE heard[j + 1].kind
    BY <1>2, <2>1 DEF IsRephrased
  <2>4. QED  BY <2>2, <2>3
<1>10. LET s == Sub(t, PhoneEnds(t), new) IN
       /\ s \in Seq(WorkPiece) /\ Ordered(s)
       /\ \E c : Stands(s, p, c, i, j) /\ Beside(s, c, c + Len(p) - 1, t, i, j)
  <2>1. j = i + Len(p) - 1  BY <1>1
  <2>2. QED  BY <1>1, <1>2, <1>4, <1>6, <1>7, <1>8, <2>1, PhonePassLeaves
<1>11. PICK c : Stands(StoredLeft, p, c, i, j) /\ Beside(StoredLeft, c, c + Len(p) - 1, t, i, j)
  BY <1>5, <1>10
<1>12. Stops(StoredLeft, c + Len(p) - 1)
  <2> DEFINE b == c + Len(p) - 1
  <2> SUFFICES ASSUME b < Len(StoredLeft)
               PROVE  StoredLeft[b + 1].kind \notin {"number", "street"}
    BY DEF Stops
  <2>1. /\ j < Len(t)
        /\ StoredLeft[b + 1] = t[j + 1] \/ StoredLeft[b + 1].kind \notin {"number", "street"}
    BY <1>11 DEF Beside
  <2>2. t[j + 1].kind \notin {"number", "street"}  BY <1>9, <2>1 DEF Stops
  <2> HIDE DEF b
  <2>3. QED  BY <2>1, <2>2
<1>13. \A x \in 1..Len(p) : p[x].kind # "street"  BY <1>3
<1>14. \E d : Shows(MaskInput(heard), p, d, i, j)
  BY <1>1, <1>11, <1>12, <1>13, MaskLeaves
<1>15. QED  BY <1>14 DEF p

\* A number too short for a phone shows whole, whatever was done to the text, but
\* for one that is stored with a street behind it.
LEMMA ShortShows ==
  ASSUME Computed, NEW i \in 1..Len(heard), NEW j \in i..Len(heard),
         Joined(heard, i, j, PhoneSeparators), Apart(heard, i, j, PhoneSeparators),
         Len(Digits(heard, i, j)) < 10, Len(Digits(heard, i, j)) < 13,
         stage = "stored" /\ j < Len(heard) => heard[j + 1].kind # "street"
  PROVE  \E c : Shows(seen, Part(i, j), c, i, j)
<1> DEFINE p == Part(i, j)
<1>1. heard \in Texts /\ heard \in Seq(WorkPiece)  BY Outcomes, HeardType
<1>2. p \in Seq(WorkPiece) /\ Stands(heard, p, i, i, j)  BY <1>1, HeardPart
<1> HIDE DEF p
<1>3. CASE seen = heard
  <2>1. Shows(heard, p, i, i, j)  BY <1>2, StandsShows
  <2>2. QED  BY <1>3, <2>1 DEF p
<1>4. CASE stage = "stored" /\ seen = MaskInput(heard)
  <2>1. \E c : Shows(MaskInput(heard), Part(i, j), c, i, j)  BY <1>1, <1>4, ShortStored
  <2>2. QED  BY <1>4, <2>1
<1>5. CASE seen = ScanOutput(heard)
  <2> DEFINE t == ShownText
             new == PartialPhonesOf(t)
  <2>1. Alone(t, i, j)  BY <1>1, ShownAlone
  <2>2. HidesPhones(t, new)  BY <1>1, ShownTextType, BothHidePhones
  <2> HIDE DEF t, new
  <2>3. \E c : Stands(Sub(t, PhoneEnds(t), new), Part(i, j), c, i, j)
    BY <1>1, <2>1, <2>2, AloneShort
  <2>4. ShownLeft = Sub(t, PhoneEnds(t), new)  BY DEF ShownLeft, t, new
  <2>5. PICK c : Stands(ShownLeft, p, c, i, j)  BY <2>3, <2>4 DEF p
  <2>6. Shows(ScanOutput(heard), p, c, i, j)  BY <1>1, <1>2, <2>5, ScanShows
  <2>7. QED  BY <1>5, <2>6 DEF p
<1>6. QED  BY <1>3, <1>4, <1>5 DEF Computed

\* What is neither a phone nor a card shows whole: an order id as long as a card,
\* no part of which is taken for a phone, and a number too short for a phone, if
\* it is not stored before a street; and a text stays as it was if a business
\* caller turned masking off.
THEOREM RedactionOthersUntouched == Spec => []OthersUntouched
<1>1. ASSUME Computed  PROVE OthersUntouched
  <2>0. heard \in Texts /\ heard \in Seq(WorkPiece)  BY <1>1, Outcomes, HeardType
  <2>1. ASSUME stage = "shown", NEW s \in Stretches(CardSeparators, 13, 16),
               ~IsCard(Digits(heard, s[1], s[2]))
        PROVE  Untouched(s)
    <3> DEFINE i == s[1]
               j == s[2]
               p == Kept(heard, i, j)
    <3>1. /\ s = <<i, j>> /\ i \in 1..Len(heard) /\ j \in i..Len(heard)
          /\ Joined(heard, i, j, CardSeparators) /\ Apart(heard, i, j, CardSeparators)
          /\ Len(Digits(heard, i, j)) \in 13..16
      BY <2>0, StretchIs
    <3>2. ~IsCard(Digits(heard, i, j))  BY <2>1
    <3> HIDE DEF i, j
    <3>3. ~LuhnValid(Digits(heard, i, j))  BY <2>0, <3>1, <3>2, StretchDigits
    <3>4. AsCard(heard, i, j) = p  BY <3>3, AsCardIs
    <3>5. PICK c : Shows(ScanOutput(heard), AsCard(heard, i, j), c, i, j)
      BY <2>0, <3>1, CardShows
    <3>6. Same(p, i, j)  BY <2>0, <3>1, PartSame
    <3> HIDE DEF p
    <3>7. seen = ScanOutput(heard)  BY <1>1, <2>1 DEF Computed
    <3>8. Shows(seen, p, c, i, j)  BY <3>4, <3>5, <3>7
    <3>9. Untouched(<<i, j>>)  BY <1>1, <3>1, <3>6, <3>8, ShowsUntouched
    <3>10. QED  BY <3>1, <3>9
  <2>2. ASSUME NEW s \in Stretches(PhoneSeparators, 1, 9), ~(stage = "stored" /\ BeforeStreet(s))
        PROVE  Untouched(s)
    <3> DEFINE i == s[1]
               j == s[2]
               p == Part(i, j)
    <3>1. /\ s = <<i, j>> /\ i \in 1..Len(heard) /\ j \in i..Len(heard)
          /\ Joined(heard, i, j, PhoneSeparators) /\ Apart(heard, i, j, PhoneSeparators)
          /\ Len(Digits(heard, i, j)) \in 1..9
      BY <2>0, StretchIs
    <3>a. stage = "stored" /\ j < Len(heard) => heard[j + 1].kind # "street"
      BY <2>2 DEF BeforeStreet
    <3> HIDE DEF i, j
    <3>2. Len(Digits(heard, i, j)) < 10 /\ Len(Digits(heard, i, j)) < 13
      <4> DEFINE n == Len(Digits(heard, i, j))
      <4>1. n \in 1..9  BY <3>1
      <4> HIDE DEF n
      <4>2. n < 10 /\ n < 13  BY <4>1
      <4>3. QED  BY <4>2 DEF n
    <3>3. PICK c : Shows(seen, p, c, i, j)  BY <1>1, <3>1, <3>2, <3>a, ShortShows
    <3>4. Same(p, i, j)  BY <2>0, <3>1, PartSame
    <3> HIDE DEF p
    <3>5. Untouched(<<i, j>>)  BY <1>1, <3>1, <3>3, <3>4, ShowsUntouched
    <3>6. QED  BY <3>1, <3>5
  <2>3. ASSUME stage = "stored", asker.channel = "business", asker.option = FALSE
        PROVE  seen = heard
    <3>1. ~ShouldRedact(asker)  BY <2>3, RedactionAssumption DEF ShouldRedact
    <3>2. QED  BY <1>1, <2>3, <3>1 DEF Computed
  <2>4. QED  BY <2>1, <2>2, <2>3 DEF OthersUntouched
<1>2. QED  BY <1>1, RedactionComputed, PTL

=============================================================================

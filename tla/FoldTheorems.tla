---------------------------- MODULE FoldTheorems ----------------------------
(***************************************************************************)
(* What the folds of the models compute: a sum over a finite set, and a    *)
(* fold over a sequence, for every set and every sequence.  The induction  *)
(* is on the least natural number that would be a counterexample.          *)
(***************************************************************************)
EXTENDS Integers, SequencesExt, FiniteSetTheorems, WellFoundedInduction, TLAPS

\* Every set of natural numbers that is not empty has a least element.
LEMMA LeastNat ==
  ASSUME NEW T \in SUBSET Nat, T # {}  PROVE  \E x \in T : \A y \in T : x <= y
<1> DEFINE R == {ss \in Nat \X Nat : ss[1] < ss[2]}
<1>1. OpToRel(<, Nat) = R  BY DEF OpToRel
<1>2. IsWellFoundedOn(R, Nat)  BY <1>1, NatLessThanWellFounded
<1> HIDE DEF R
<1>3. PICK x \in T : \A y \in T : ~ (<<y, x>> \in R)  BY <1>2, WFMin
<1>4. ASSUME NEW y \in T  PROVE  x <= y
  <2>1. <<y, x>> \notin R /\ x \in Nat /\ y \in Nat  BY <1>3
  <2>2. ~(y < x)  BY <2>1 DEF R
  <2>3. QED  BY <2>1, <2>2
<1>5. QED  BY <1>4

\* A set of natural numbers that holds 0, and n + 1 with n, holds them all.
LEMMA Induction ==
  ASSUME NEW T, 0 \in T, \A n \in Nat : n \in T => n + 1 \in T  PROVE  Nat \subseteq T
<1> SUFFICES ASSUME Nat \ T # {}  PROVE FALSE  OBVIOUS
<1> DEFINE U == Nat \ T
<1>1. PICK x \in U : \A y \in U : x <= y
  <2>1. U \in SUBSET Nat /\ U # {}  OBVIOUS
  <2> HIDE DEF U
  <2>2. QED  BY <2>1, LeastNat
<1>2. x \in Nat /\ x # 0  BY <1>1
<1>3. x - 1 \in Nat /\ x - 1 \in T  BY <1>1, <1>2
<1>4. (x - 1) + 1 \in T  BY <1>3
<1>5. QED  BY <1>1, <1>2, <1>4

-----------------------------------------------------------------------------
(* Recursion over the subsets of a finite set                              *)

\* h is computed by taking elements out of a set until it is empty.
Recursion(h, D, base, F, pick) ==
  \A s \in SUBSET D : h[s] = IF s = {} THEN base ELSE F[<<h[s \ {pick[s]}], pick[s]>>]

\* Such a function exists, whatever the order in which the elements are taken.
LEMMA RecursionExists ==
  ASSUME NEW D, IsFiniteSet(D), NEW A, NEW base \in A, NEW F \in [A \X D -> A],
         NEW pick, \A s \in SUBSET D : s # {} => pick[s] \in s
  PROVE  \E h \in [SUBSET D -> A] : Recursion(h, D, base, F, pick)
<1> DEFINE Step(h, s) == IF s = {} THEN base ELSE F[<<h[s \ {pick[s]}], pick[s]>>]
           UpToCard(h, n) == \A s \in SUBSET D : Cardinality(s) <= n => h[s] = Step(h, s)
           T == {n \in Nat : \E h \in [SUBSET D -> A] : UpToCard(h, n)}
<1>1. \A s \in SUBSET D : IsFiniteSet(s) /\ Cardinality(s) \in Nat
  BY FS_Subset, FS_CardinalityType
<1>2. 0 \in T
  <2> DEFINE h == [s \in SUBSET D |-> base]
  <2>1. \A s \in SUBSET D : Cardinality(s) <= 0 => s = {}  BY <1>1, FS_EmptySet
  <2>2. h \in [SUBSET D -> A] /\ UpToCard(h, 0)  BY <2>1
  <2>3. QED  BY <2>2
<1>3. ASSUME NEW n \in Nat, n \in T  PROVE  n + 1 \in T
  <2>1. PICK h \in [SUBSET D -> A] : UpToCard(h, n)  BY <1>3
  <2> DEFINE g == [s \in SUBSET D |-> IF Cardinality(s) <= n THEN h[s] ELSE Step(h, s)]
  <2>2. ASSUME NEW s \in SUBSET D, s # {}
        PROVE  /\ pick[s] \in D /\ s \ {pick[s]} \in SUBSET D
               /\ Cardinality(s \ {pick[s]}) = Cardinality(s) - 1
               /\ Step(h, s) \in A
    <3>1. pick[s] \in s /\ pick[s] \in D /\ s \ {pick[s]} \in SUBSET D  BY <2>2
    <3>2. Cardinality(s \ {pick[s]}) = Cardinality(s) - 1
      BY <1>1, <3>1, FS_RemoveElement
    <3>3. h[s \ {pick[s]}] \in A  BY <3>1
    <3>4. QED  BY <3>1, <3>2, <3>3
  <2>3. g \in [SUBSET D -> A]  BY <2>2
  <2>4. ASSUME NEW s \in SUBSET D, Cardinality(s) <= n + 1  PROVE  g[s] = Step(g, s)
    <3>1. CASE s = {}  BY <2>1, <3>1
    <3>2. CASE s # {}
      <4>1. Cardinality(s \ {pick[s]}) <= n /\ s \ {pick[s]} \in SUBSET D
        <5>1. Cardinality(s \ {pick[s]}) = Cardinality(s) - 1 /\ s \ {pick[s]} \in SUBSET D
          BY <2>2, <3>2
        <5>2. Cardinality(s) \in Nat /\ Cardinality(s) <= n + 1  BY <1>1, <2>4
        <5>3. QED  BY <5>1, <5>2
      <4>2. g[s \ {pick[s]}] = h[s \ {pick[s]}]  BY <4>1
      <4>3. g[s] = Step(h, s)  BY <2>1
      <4>4. QED  BY <3>2, <4>2, <4>3
    <3>3. QED  BY <3>1, <3>2
  <2>5. n + 1 \in Nat  OBVIOUS
  <2> HIDE DEF g
  <2>6. QED  BY <2>3, <2>4, <2>5
<1>4. Cardinality(D) \in T
  <2> HIDE DEF T
  <2>1. Nat \subseteq T  BY <1>2, <1>3, Induction
  <2>2. QED  BY <1>1, <2>1
<1>5. PICK h \in [SUBSET D -> A] : UpToCard(h, Cardinality(D))  BY <1>4
<1>6. \A s \in SUBSET D : Cardinality(s) <= Cardinality(D)  BY FS_Subset
<1>7. QED  BY <1>5, <1>6 DEF Recursion

-----------------------------------------------------------------------------
(* A fold over a sequence, one element at a time                           *)

\* What is left to fold after the last element: Max is the one of FoldLeft.
LEMMA MaxUpTo ==
  ASSUME NEW n \in Nat, n # 0
  PROVE  1..n # {} /\ Max(1..n) = n /\ (1..n) \ {Max(1..n)} = 1..(n - 1)
<1>1. n \in 1..n /\ \A y \in 1..n : n >= y  OBVIOUS
<1>2. \A x \in 1..n : (\A y \in 1..n : x >= y) => x = n  OBVIOUS
<1>3. Max(1..n) = n  BY <1>1, <1>2 DEF Max
<1>4. QED  BY <1>1, <1>3

LEMMA MaxOfSome ==
  ASSUME NEW n \in Nat, NEW s \in SUBSET (1..n), s # {}  PROVE  Max(s) \in s
<1> DEFINE T == {n - x : x \in s}
<1>0. \A x \in s : x \in Nat /\ n - x \in Nat
  <2> SUFFICES ASSUME NEW x \in s  PROVE x \in Nat /\ n - x \in Nat  OBVIOUS
  <2>1. x \in 1..n  OBVIOUS
  <2>2. QED  BY <2>1
<1>1. T \in SUBSET Nat /\ T # {}  BY <1>0
<1>2. PICK m \in T : \A y \in T : m <= y
  <2> HIDE DEF T
  <2>1. QED  BY <1>1, LeastNat
<1>3. PICK x \in s : m = n - x  BY <1>2
<1>4. \A y \in s : x >= y
  <2> SUFFICES ASSUME NEW y \in s  PROVE x >= y  OBVIOUS
  <2>1. n - y \in T /\ m <= n - y  BY <1>2
  <2>2. x \in Nat /\ y \in Nat  BY <1>0
  <2>3. QED  BY <1>3, <2>1, <2>2
<1>5. QED  BY <1>4 DEF Max

\* h folds the elements with the indexes in a set, the last of them last.
Folding(h, n, base, F) ==
  h = [s \in SUBSET (1..n) |-> IF s = {} THEN base ELSE F[<<h[s \ {Max(s)}], Max(s)>>]]

\* So the function that FoldLeft computes exists.
LEMMA FoldExists ==
  ASSUME NEW n \in Nat, NEW A, NEW base, base \in A, NEW F, F \in [A \X (1..n) -> A]
  PROVE  \E h \in [SUBSET (1..n) -> A] : Folding(h, n, base, F)
<1> DEFINE pick == [s \in SUBSET (1..n) |-> Max(s)]
           D == 1..n
<1>1. IsFiniteSet(D)  BY FS_Interval
<1>2. \A s \in SUBSET D : s # {} => pick[s] \in s  BY MaxOfSome
<1>3. PICK h \in [SUBSET D -> A] : Recursion(h, D, base, F, pick)
  <2> HIDE DEF D, pick
  <2>1. F \in [A \X D -> A]  BY DEF D
  <2>2. QED  BY <1>1, <1>2, <2>1, RecursionExists
<1>4. \A s \in SUBSET D : h[s] = IF s = {} THEN base ELSE F[<<h[s \ {Max(s)}], Max(s)>>]
  BY <1>3 DEF Recursion
<1>5. h = [s \in SUBSET D |-> IF s = {} THEN base ELSE F[<<h[s \ {Max(s)}], Max(s)>>]]
  BY <1>4
<1>6. QED  BY <1>5 DEF Folding

-----------------------------------------------------------------------------
(* The sum of a function over a finite set                                 *)

SumOf(f, T) == MapThenSumSet(LAMBDA x : f[x], T)

\* g is the function that SumOf computes, for the subsets of T.
Sums(g, f, T) ==
  \A s \in SUBSET T :
    g[s] = IF s = {} THEN 0 ELSE f[CHOOSE x \in s : TRUE] + g[s \ {CHOOSE x \in s : TRUE}]

\* The sum depends on nothing but the values of f on the set.
LEMMA SumsAgree ==
  ASSUME NEW T, IsFiniteSet(T), NEW f1, NEW f2, \A x \in T : f1[x] = f2[x],
         NEW g1, NEW g2, Sums(g1, f1, T), Sums(g2, f2, T)
  PROVE  \A s \in SUBSET T : g1[s] = g2[s]
<1> DEFINE N == {n \in Nat : \A s \in SUBSET T : Cardinality(s) = n => g1[s] = g2[s]}
<1>1. \A s \in SUBSET T : IsFiniteSet(s) /\ Cardinality(s) \in Nat
  BY FS_Subset, FS_CardinalityType
<1>2. 0 \in N
  <2>1. \A s \in SUBSET T : Cardinality(s) = 0 => s = {}  BY <1>1, FS_EmptySet
  <2>2. g1[{}] = 0 /\ g2[{}] = 0  BY DEF Sums
  <2>3. QED  BY <2>1, <2>2
<1>3. ASSUME NEW n \in Nat, n \in N  PROVE  n + 1 \in N
  <2> SUFFICES ASSUME NEW s \in SUBSET T, Cardinality(s) = n + 1  PROVE g1[s] = g2[s]
    OBVIOUS
  <2>1. s # {}  BY FS_EmptySet
  <2> DEFINE x == CHOOSE x \in s : TRUE
  <2>2. x \in s  BY <2>1
  <2>3. /\ g1[s] = f1[x] + g1[s \ {x}] /\ g2[s] = f2[x] + g2[s \ {x}]
    BY <2>1 DEF Sums
  <2> HIDE DEF x
  <2>4. s \ {x} \in SUBSET T /\ Cardinality(s \ {x}) = n
    <3>1. Cardinality(s \ {x}) = Cardinality(s) - 1  BY <1>1, <2>2, FS_RemoveElement
    <3>2. QED  BY <3>1
  <2>5. g1[s \ {x}] = g2[s \ {x}]  BY <1>3, <2>4
  <2>6. f1[x] = f2[x]  BY <2>2
  <2>7. QED  BY <2>3, <2>5, <2>6
<1>4. Nat \subseteq N
  <2> HIDE DEF N
  <2>1. QED  BY <1>2, <1>3, Induction
<1>5. QED  BY <1>1, <1>4

\* The order does not matter: any element may be taken out first.
LEMMA SumsTakeAny ==
  ASSUME NEW T, IsFiniteSet(T), NEW f, \A x \in T : f[x] \in Nat,
         NEW g, g \in [SUBSET T -> Nat], Sums(g, f, T), NEW y \in T
  PROVE  g[T] = f[y] + g[T \ {y}]
<1> DEFINE N == {n \in Nat : \A s \in SUBSET T :
                               Cardinality(s) = n => \A x \in s : g[s] = f[x] + g[s \ {x}]}
<1>1. \A s \in SUBSET T : IsFiniteSet(s) /\ Cardinality(s) \in Nat
  BY FS_Subset, FS_CardinalityType
<1>2. 0 \in N
  <2>1. \A s \in SUBSET T : Cardinality(s) = 0 => s = {}  BY <1>1, FS_EmptySet
  <2>2. QED  BY <2>1
<1>3. ASSUME NEW n \in Nat, n \in N  PROVE  n + 1 \in N
  <2> SUFFICES ASSUME NEW s \in SUBSET T, Cardinality(s) = n + 1, NEW x \in s
               PROVE g[s] = f[x] + g[s \ {x}]
    OBVIOUS
  <2> DEFINE z == CHOOSE z \in s : TRUE
  <2>1. z \in s /\ g[s] = f[z] + g[s \ {z}]  BY DEF Sums
  <2> HIDE DEF z
  <2>2. CASE x = z  BY <2>1, <2>2
  <2>3. CASE x # z
    <3>1. /\ s \ {x} \in SUBSET T /\ s \ {z} \in SUBSET T
          /\ x \in s \ {z} /\ z \in s \ {x} /\ (s \ {z}) \ {x} = (s \ {x}) \ {z}
      BY <2>1, <2>3
    <3>2. Cardinality(s \ {x}) = n /\ Cardinality(s \ {z}) = n
      <4>1. /\ Cardinality(s \ {x}) = Cardinality(s) - 1
            /\ Cardinality(s \ {z}) = Cardinality(s) - 1
        BY <1>1, <2>1, FS_RemoveElement
      <4>2. QED  BY <4>1
    <3>3. /\ g[s \ {z}] = f[x] + g[(s \ {z}) \ {x}]
          /\ g[s \ {x}] = f[z] + g[(s \ {x}) \ {z}]
      BY <1>3, <3>1, <3>2
    <3>4. g[(s \ {x}) \ {z}] \in Nat /\ f[x] \in Nat /\ f[z] \in Nat  BY <2>1
    <3>5. g[(s \ {z}) \ {x}] = g[(s \ {x}) \ {z}]  BY <3>1
    <3> DEFINE r == g[(s \ {x}) \ {z}]
    <3>6. g[s] = f[z] + (f[x] + r) /\ g[s \ {x}] = f[z] + r /\ r \in Nat
      BY <2>1, <3>3, <3>4, <3>5
    <3> HIDE DEF r
    <3>7. QED  BY <3>4, <3>6
  <2>4. QED  BY <2>2, <2>3
<1>4. Nat \subseteq N
  <2> HIDE DEF N
  <2>1. QED  BY <1>2, <1>3, Induction
<1>5. \A s \in SUBSET T : \A x \in s : g[s] = f[x] + g[s \ {x}]  BY <1>1, <1>4
<1>6. QED  BY <1>5

\* SumOf computes such a function.
LEMMA SumComputed ==
  ASSUME NEW T, IsFiniteSet(T), NEW f, \A x \in T : f[x] \in Nat
  PROVE  \E g \in [SUBSET T -> Nat] : Sums(g, f, T) /\ SumOf(f, T) = g[T]
<1> DEFINE pick == [s \in SUBSET T |-> CHOOSE x \in s : TRUE]
           F == [p \in Nat \X T |-> f[p[2]] + p[1]]
           Body(g) == [s \in SUBSET T |->
             IF s = {} THEN 0 ELSE f[CHOOSE x \in s : TRUE] + g[s \ {CHOOSE x \in s : TRUE}]]
<1>1. PICK h \in [SUBSET T -> Nat] : Recursion(h, T, 0, F, pick)
  <2>1. \A s \in SUBSET T : s # {} => pick[s] \in s  OBVIOUS
  <2>2. F \in [Nat \X T -> Nat] /\ 0 \in Nat  OBVIOUS
  <2> HIDE DEF pick, F
  <2>3. QED  BY <2>1, <2>2, RecursionExists
<1>2. ASSUME NEW s \in SUBSET T, s # {}
      PROVE  h[s] = f[CHOOSE x \in s : TRUE] + h[s \ {CHOOSE x \in s : TRUE}]
  <2>1. pick[s] = (CHOOSE x \in s : TRUE) /\ pick[s] \in s  BY <1>2
  <2>2. h[s \ {pick[s]}] \in Nat /\ pick[s] \in T  BY <2>1
  <2>3. h[s] = F[<<h[s \ {pick[s]}], pick[s]>>]  BY <1>1, <1>2 DEF Recursion
  <2> HIDE DEF pick
  <2>4. h[s] = f[pick[s]] + h[s \ {pick[s]}]  BY <2>2, <2>3
  <2>5. QED  BY <2>1, <2>4
<1>3. h[{}] = 0  BY <1>1 DEF Recursion
<1>4. h = Body(h)  BY <1>2, <1>3
<1> DEFINE g == CHOOSE g : g = Body(g)
<1>5. g = Body(g)  BY <1>4
<1>6. SumOf(f, T) = g[T]  BY DEF SumOf, MapThenSumSet, MapThenFoldSet
<1> HIDE DEF g
<1>7. Sums(g, f, T)  BY <1>5 DEF Sums
<1>8. g \in [SUBSET T -> Nat]
  <2>1. Sums(h, f, T)  BY <1>2, <1>3 DEF Sums
  <2>2. \A s \in SUBSET T : g[s] = h[s]  BY <1>7, <2>1, SumsAgree
  <2>3. \A s \in SUBSET T : g[s] \in Nat  BY <2>2
  <2>4. QED  BY <1>5, <2>3
<1>9. QED  BY <1>6, <1>7, <1>8

\* A sum over a finite set is a natural number, and that of none is 0.
LEMMA SumType ==
  ASSUME NEW T, IsFiniteSet(T), NEW f, \A x \in T : f[x] \in Nat
  PROVE  SumOf(f, T) \in Nat /\ (T = {} => SumOf(f, T) = 0)
<1>1. PICK g \in [SUBSET T -> Nat] : Sums(g, f, T) /\ SumOf(f, T) = g[T]  BY SumComputed
<1>2. QED  BY <1>1 DEF Sums

\* Two functions that agree on a set have the same sum over it.
LEMMA SumAgrees ==
  ASSUME NEW T, IsFiniteSet(T), NEW f1, NEW f2,
         \A x \in T : f1[x] = f2[x] /\ f1[x] \in Nat
  PROVE  SumOf(f1, T) = SumOf(f2, T)
<1>1. PICK g1 \in [SUBSET T -> Nat] : Sums(g1, f1, T) /\ SumOf(f1, T) = g1[T]  BY SumComputed
<1>2. PICK g2 \in [SUBSET T -> Nat] : Sums(g2, f2, T) /\ SumOf(f2, T) = g2[T]  BY SumComputed
<1>3. \A s \in SUBSET T : g1[s] = g2[s]  BY <1>1, <1>2, SumsAgree
<1>4. QED  BY <1>1, <1>2, <1>3

\* An element adds its value, whichever it is.
LEMMA SumTake ==
  ASSUME NEW T, IsFiniteSet(T), NEW y \in T, NEW f, \A x \in T : f[x] \in Nat
  PROVE  SumOf(f, T) = f[y] + SumOf(f, T \ {y})
<1> DEFINE Taken(g) == g[T] = f[y] + g[T \ {y}]
<1>0. ASSUME NEW g, g \in [SUBSET T -> Nat], Sums(g, f, T)  PROVE  Taken(g)
  BY <1>0, SumsTakeAny
<1>1. PICK g \in [SUBSET T -> Nat] : Sums(g, f, T) /\ SumOf(f, T) = g[T]  BY SumComputed
<1>2. PICK h \in [SUBSET (T \ {y}) -> Nat] :
        Sums(h, f, T \ {y}) /\ SumOf(f, T \ {y}) = h[T \ {y}]
  <2>1. IsFiniteSet(T \ {y})  BY FS_RemoveElement
  <2>2. QED  BY <2>1, SumComputed
<1>3. Taken(g)  BY <1>0, <1>1
<1>4. g[T \ {y}] = h[T \ {y}]
  <2>1. Sums(g, f, T \ {y}) /\ IsFiniteSet(T \ {y})  BY <1>1, FS_RemoveElement DEF Sums
  <2>2. \A s \in SUBSET (T \ {y}) : g[s] = h[s]  BY <1>2, <2>1, SumsAgree
  <2>3. QED  BY <2>2
<1>5. QED  BY <1>1, <1>2, <1>3, <1>4

LEMMA SumAdd ==
  ASSUME NEW T, IsFiniteSet(T), NEW y, y \notin T, NEW f, \A x \in T \cup {y} : f[x] \in Nat
  PROVE  SumOf(f, T \cup {y}) = f[y] + SumOf(f, T)
<1>1. IsFiniteSet(T \cup {y}) /\ (T \cup {y}) \ {y} = T /\ y \in T \cup {y}
  BY FS_AddElement
<1>2. SumOf(f, T \cup {y}) = f[y] + SumOf(f, (T \cup {y}) \ {y})  BY <1>1, SumTake
<1>3. QED  BY <1>1, <1>2

-----------------------------------------------------------------------------
(* Functions that are defined by recursion over an interval                *)

\* What holds of k if it holds of everything above holds of the whole interval.
LEMMA Downward ==
  ASSUME NEW n \in Nat, NEW T,
         \A k \in 1..n : (\A l \in (k + 1)..n : l \in T) => k \in T
  PROVE  1..n \subseteq T
<1> DEFINE U == {m \in Nat : m <= n => \A k \in 1..n : k > n - m => k \in T}
<1>1. 0 \in U  OBVIOUS
<1>2. ASSUME NEW m \in Nat, m \in U  PROVE  m + 1 \in U
  <2> SUFFICES ASSUME m + 1 <= n, NEW k \in 1..n, k > n - (m + 1)  PROVE k \in T
    OBVIOUS
  <2>1. \A l \in (k + 1)..n : l \in 1..n /\ l > n - m  OBVIOUS
  <2>2. m <= n  OBVIOUS
  <2>3. \A l \in (k + 1)..n : l \in T  BY <1>2, <2>1, <2>2
  <2>4. QED  BY <2>3
<1>3. n \in U
  <2> HIDE DEF U
  <2>1. Nat \subseteq U  BY <1>1, <1>2, Induction
  <2>2. QED  BY <2>1
<1>4. \A k \in 1..n : k > n - n  OBVIOUS
<1>5. QED  BY <1>3, <1>4

\* h starts from base and takes one element of an interval after the other.
Iterates(h, n, base, F) == h[0] = base /\ \A k \in 1..n : h[k] = F[<<h[k - 1], k>>]

LEMMA IterationExists ==
  ASSUME NEW n \in Nat, NEW A, NEW base, base \in A, NEW F, F \in [A \X (1..n) -> A]
  PROVE  \E h \in [0..n -> A] : Iterates(h, n, base, F)
<1>1. PICK f \in [SUBSET (1..n) -> A] : Folding(f, n, base, F)  BY FoldExists
<1> DEFINE h == [k \in 0..n |-> f[1..k]]
<1>2. \A k \in 0..n : 1..k \in SUBSET (1..n)  OBVIOUS
<1>3. h \in [0..n -> A]  BY <1>2
<1>4. h[0] = base
  <2>1. 1..0 = {}  OBVIOUS
  <2>2. f[{}] = base  BY <1>1 DEF Folding
  <2>3. QED  BY <2>1, <2>2
<1>5. ASSUME NEW k \in 1..n  PROVE h[k] = F[<<h[k - 1], k>>]
  <2>1. k \in Nat /\ k # 0 /\ k - 1 \in 0..n /\ k \in 0..n  OBVIOUS
  <2>2. 1..k # {} /\ Max(1..k) = k /\ (1..k) \ {Max(1..k)} = 1..(k - 1)  BY <2>1, MaxUpTo
  <2>3. f[1..k] = F[<<f[(1..k) \ {Max(1..k)}], Max(1..k)>>]
    BY <1>1, <1>2, <2>1, <2>2 DEF Folding
  <2>4. QED  BY <2>1, <2>2, <2>3
<1> HIDE DEF h
<1>6. QED  BY <1>3, <1>4, <1>5 DEF Iterates

\* The sum of an interval grows with its upper end, and with its lower end.
LEMMA SumUpper ==
  ASSUME NEW n \in Nat, NEW f, \A x \in 1..n : f[x] \in Nat, NEW k \in 1..n
  PROVE  SumOf(f, 1..k) = SumOf(f, 1..(k - 1)) + f[k]
<1> DEFINE S == 1..(k - 1)
<1>1. /\ 1..k = S \cup {k} /\ k \notin S
      /\ \A x \in S \cup {k} : f[x] \in Nat
  OBVIOUS
<1>2. IsFiniteSet(S)
  <2>1. 1 \in Int /\ k - 1 \in Int  OBVIOUS
  <2>2. QED  BY <2>1, FS_Interval
<1> HIDE DEF S
<1>3. SumOf(f, S \cup {k}) = f[k] + SumOf(f, S)  BY <1>1, <1>2, SumAdd
<1>4. SumOf(f, S) \in Nat /\ f[k] \in Nat  BY <1>1, <1>2, SumType
<1>5. f[k] + SumOf(f, S) = SumOf(f, S) + f[k]
  <2> DEFINE a == SumOf(f, S)
             b == f[k]
  <2>1. a \in Nat /\ b \in Nat  BY <1>4
  <2> HIDE DEF a, b
  <2>2. b + a = a + b  BY <2>1
  <2>3. QED  BY <2>2 DEF a, b
<1>6. SumOf(f, 1..k) = SumOf(f, S) + f[k]  BY <1>1, <1>3, <1>5
<1>7. QED  BY <1>6 DEF S

LEMMA SumLower ==
  ASSUME NEW n \in Nat, NEW f, \A x \in 1..n : f[x] \in Nat, NEW k \in 1..n
  PROVE  SumOf(f, k..n) = f[k] + SumOf(f, (k + 1)..n)
<1> DEFINE S == (k + 1)..n
<1>1. /\ k..n = S \cup {k} /\ k \notin S
      /\ \A x \in S \cup {k} : f[x] \in Nat
  OBVIOUS
<1>2. IsFiniteSet(S)
  <2>1. k + 1 \in Int /\ n \in Int  OBVIOUS
  <2>2. QED  BY <2>1, FS_Interval
<1> HIDE DEF S
<1>3. SumOf(f, S \cup {k}) = f[k] + SumOf(f, S)  BY <1>1, <1>2, SumAdd
<1>4. SumOf(f, k..n) = f[k] + SumOf(f, S)  BY <1>1, <1>3
<1>5. QED  BY <1>4 DEF S

\* A sum taken backwards is the same.
LEMMA SumReversed ==
  ASSUME NEW n \in Nat, NEW f, \A x \in 1..n : f[x] \in Nat,
         NEW r, \A x \in 1..n : r[x] = f[n + 1 - x]
  PROVE  SumOf(r, 1..n) = SumOf(f, 1..n)
<1> DEFINE U == {m \in Nat : m <= n => SumOf(r, 1..m) = SumOf(f, (n + 1 - m)..n)}
<1>0. \A x \in 1..n : n + 1 - x \in 1..n /\ r[x] \in Nat
  <2>1. \A x \in 1..n : n + 1 - x \in 1..n  OBVIOUS
  <2>2. QED  BY <2>1
<1>1. 0 \in U
  <2>1. 1..0 = {} /\ (n + 1 - 0)..n = {}  OBVIOUS
  <2>2. SumOf(r, {}) = 0 /\ SumOf(f, {}) = 0
    <3>1. IsFiniteSet({})  BY FS_EmptySet
    <3>2. /\ \A x \in {} : r[x] \in Nat
          /\ \A x \in {} : f[x] \in Nat
      OBVIOUS
    <3>3. QED  BY <3>1, <3>2, SumType
  <2>3. QED  BY <2>1, <2>2
<1>2. ASSUME NEW m \in Nat, m \in U  PROVE m + 1 \in U
  <2> SUFFICES ASSUME m + 1 <= n  PROVE SumOf(r, 1..(m + 1)) = SumOf(f, (n + 1 - (m + 1))..n)
    OBVIOUS
  <2>1. /\ 1 \in 1..n /\ m + 1 \in 1..n /\ n - m \in 1..n /\ n \in (n - m)..n
        /\ n + 1 - (m + 1) = n - m /\ (m + 1) - 1 = m /\ (n - m) + 1 = n + 1 - m /\ m <= n
    OBVIOUS
  <2>2. SumOf(r, 1..(m + 1)) = SumOf(r, 1..m) + r[m + 1]
    <3> DEFINE k == m + 1
    <3>1. k \in 1..n /\ k - 1 = m  BY <2>1
    <3> HIDE DEF k
    <3>2. SumOf(r, 1..k) = SumOf(r, 1..(k - 1)) + r[k]  BY <1>0, <3>1, SumUpper
    <3>3. QED  BY <3>1, <3>2 DEF k
  <2>3. SumOf(f, (n - m)..n) = f[n - m] + SumOf(f, (n + 1 - m)..n)
    <3> DEFINE k == n - m
    <3>1. k \in 1..n /\ k + 1 = n + 1 - m  BY <2>1
    <3> HIDE DEF k
    <3>2. SumOf(f, k..n) = f[k] + SumOf(f, (k + 1)..n)  BY <3>1, SumLower
    <3>3. QED  BY <3>1, <3>2 DEF k
  <2>4. r[m + 1] = f[n - m] /\ f[n - m] \in Nat  BY <2>1
  <2>5. SumOf(r, 1..m) = SumOf(f, (n + 1 - m)..n)  BY <1>2, <2>1
  <2>6. SumOf(r, 1..m) \in Nat
    <3>1. IsFiniteSet(1..m) /\ \A x \in 1..m : r[x] \in Nat  BY <1>0, <2>1, FS_Interval
    <3>2. QED  BY <3>1, SumType
  <2>7. QED  BY <2>1, <2>2, <2>3, <2>4, <2>5, <2>6
<1>3. n \in U
  <2> HIDE DEF U
  <2>1. Nat \subseteq U  BY <1>1, <1>2, Induction
  <2>2. QED  BY <2>1
<1>4. n + 1 - n = 1  OBVIOUS
<1>5. QED  BY <1>3, <1>4

=============================================================================

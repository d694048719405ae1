----------------------------- MODULE ListLemmas -----------------------------
(***************************************************************************)
(* What the proofs about lists need: least and greatest positions, and the *)
(* sequences that SubSeq, InsertAt, Front and Append make.                 *)
(***************************************************************************)
EXTENDS Integers, Sequences, FiniteSets, SequencesExt, FiniteSetsExt, SequenceTheorems,
        FiniteSetTheorems, WellFoundedInduction, TLAPS

(* Every set of numbers has a least one.                                   *)
LEMMA Least ==
  ASSUME NEW I \in SUBSET Nat, I # {}
  PROVE  \E x \in I : \A y \in I : x <= y
<1> DEFINE R == {ss \in Nat \X Nat : ss[1] < ss[2]}
<1>1. IsWellFoundedOn(R, Nat)
  BY NatLessThanWellFounded DEF OpToRel
<1>2. PICK x \in I : \A y \in I : ~(<<y, x>> \in R)
  <2> HIDE DEF R
  <2> QED BY <1>1, WFMin
<1>3. \A y \in I : x <= y
  <2> SUFFICES ASSUME NEW y \in I PROVE x <= y
    OBVIOUS
  <2>1. <<y, x>> \notin R /\ x \in Nat /\ y \in Nat
    BY <1>2
  <2>2. ~(y < x)
    BY <2>1
  <2> QED BY <2>1, <2>2
<1> QED BY <1>3

(* Every set of numbers up to n has a greatest one.                        *)
LEMMA Greatest ==
  ASSUME NEW n \in Nat, NEW I \in SUBSET (1 .. n), I # {}
  PROVE  \E x \in I : \A y \in I : y <= x
<1> DEFINE J == {n - y : y \in I}
<1>1. J \in SUBSET Nat /\ J # {}
  <2>1. ASSUME NEW y \in I PROVE n - y \in Nat
    <3>1. y \in 1 .. n
      OBVIOUS
    <3> QED BY <3>1
  <2> QED BY <2>1
<1>2. PICK z \in J : \A w \in J : z <= w
  <2> HIDE DEF J
  <2> QED BY <1>1, Least
<1>3. PICK x \in I : z = n - x
  BY <1>2
<1>4. ASSUME NEW y \in I PROVE y <= x
  <2>1. n - y \in J /\ x \in 1 .. n /\ y \in 1 .. n
    OBVIOUS
  <2>2. z <= n - y
    BY <1>2, <2>1
  <2> QED BY <1>3, <2>1, <2>2
<1> QED BY <1>4

(* The two pieces of a sequence cut after position m.                      *)
LEMMA Piece ==
  ASSUME NEW S, NEW s \in Seq(S), NEW m \in 0 .. Len(s)
  PROVE  /\ SubSeq(s, 1, m) \in Seq(S) /\ Len(SubSeq(s, 1, m)) = m
         /\ \A i \in 1 .. m : SubSeq(s, 1, m)[i] = s[i]
         /\ SubSeq(s, m + 1, Len(s)) \in Seq(S) /\ Len(SubSeq(s, m + 1, Len(s))) = Len(s) - m
         /\ \A i \in 1 .. Len(s) - m : SubSeq(s, m + 1, Len(s))[i] = s[m + i]
<1>1. Len(s) \in Nat /\ m \in Int /\ \A i \in 1 .. Len(s) : s[i] \in S
  OBVIOUS
<1>2. /\ SubSeq(s, 1, m) \in Seq(S) /\ Len(SubSeq(s, 1, m)) = m
      /\ \A i \in 1 .. m : SubSeq(s, 1, m)[i] = s[i]
  BY <1>1, SubSeqProperties
<1> DEFINE b == SubSeq(s, m + 1, Len(s))
<1>3. /\ b \in Seq(S)
      /\ Len(b) = IF m + 1 <= Len(s) THEN Len(s) - (m + 1) + 1 ELSE 0
      /\ \A i \in 1 .. Len(s) - (m + 1) + 1 : b[i] = s[m + 1 + i - 1]
  BY <1>1, SubSeqProperties
<1>4. Len(s) - (m + 1) + 1 = Len(s) - m /\ \A i \in 1 .. Len(s) - m : m + 1 + i - 1 = m + i
  BY <1>1
<1> HIDE DEF b
<1>5. Len(b) = Len(s) - m
  BY <1>1, <1>3
<1>6. \A i \in 1 .. Len(s) - m : b[i] = s[m + i]
  BY <1>3, <1>4
<1> QED BY <1>2, <1>3, <1>5, <1>6 DEF b

LEMMA MinRight ==
  ASSUME NEW I \in SUBSET Nat, I # {}
  PROVE  Min(I) \in I /\ \A y \in I : Min(I) <= y
<1>1. PICK x \in I : \A y \in I : x <= y
  BY Least
<1> QED BY <1>1 DEF Min

LEMMA MaxRight ==
  ASSUME NEW n \in Nat, NEW I \in SUBSET (1 .. n), I # {}
  PROVE  Max(I) \in I /\ \A y \in I : y <= Max(I)
<1>1. PICK x \in I : \A y \in I : y <= x
  BY Greatest
<1>2. \A y \in I : x >= y
  <2>1. ASSUME NEW y \in I PROVE x >= y
    <3>1. x \in 1 .. n /\ y \in 1 .. n /\ y <= x
      BY <1>1
    <3> QED BY <3>1
  <2> QED BY <2>1
<1>3. Max(I) \in I /\ \A y \in I : Max(I) >= y
  BY <1>2 DEF Max
<1>4. ASSUME NEW y \in I PROVE y <= Max(I)
  <2>1. Max(I) \in 1 .. n /\ y \in 1 .. n /\ Max(I) >= y
    BY <1>3
  <2> QED BY <2>1
<1> QED BY <1>3, <1>4

(* An element inserted at position n.                                      *)
LEMMA InsertAtRight ==
  ASSUME NEW S, NEW s \in Seq(S), NEW n \in 1 .. Len(s) + 1, NEW t \in S
  PROVE  /\ InsertAt(s, n, t) \in Seq(S)
         /\ Len(InsertAt(s, n, t)) = Len(s) + 1
         /\ \A i \in 1 .. Len(s) + 1 :
              InsertAt(s, n, t)[i] = IF i < n THEN s[i] ELSE IF i = n THEN t ELSE s[i - 1]
<1> DEFINE m == n - 1
           a == SubSeq(s, 1, m)
           b == SubSeq(s, m + 1, Len(s))
           e == <<t>>
           c == a \o e
           r == c \o b
<1>1. Len(s) \in Nat /\ m \in 0 .. Len(s) /\ n = m + 1
  OBVIOUS
<1>2. InsertAt(s, n, t) = r
  BY <1>1 DEF InsertAt
<1> HIDE DEF m
<1>3. /\ a \in Seq(S) /\ Len(a) = m /\ \A i \in 1 .. m : a[i] = s[i]
      /\ b \in Seq(S) /\ Len(b) = Len(s) - m /\ \A i \in 1 .. Len(s) - m : b[i] = s[m + i]
  BY <1>1, Piece
<1> HIDE DEF a, b
<1>4. c \in Seq(S) /\ Len(c) = m + 1 /\ \A i \in 1 .. m + 1 : c[i] = IF i <= m THEN s[i] ELSE t
  <2>1. e \in Seq(S) /\ Len(e) = 1 /\ e[1] = t
    OBVIOUS
  <2> HIDE DEF e
  <2>4. c \in Seq(S) /\ Len(c) = Len(a) + Len(e)
        /\ \A i \in 1 .. Len(a) + Len(e) : c[i] = IF i <= Len(a) THEN a[i] ELSE e[i - Len(a)]
    BY <1>3, <2>1, ConcatProperties
  <2> HIDE DEF c
  <2>2. c \in Seq(S) /\ Len(c) = Len(a) + 1
        /\ \A i \in 1 .. Len(a) + 1 : c[i] = IF i <= Len(a) THEN a[i] ELSE e[i - Len(a)]
    BY <2>1, <2>4
  <2>3. ASSUME NEW i \in 1 .. m + 1 PROVE c[i] = IF i <= m THEN s[i] ELSE t
    <3>1. CASE i <= m
      BY <1>1, <1>3, <2>2, <3>1
    <3>2. CASE ~(i <= m)
      <4>1. i - Len(a) = 1 /\ ~(i <= Len(a)) /\ i \in 1 .. Len(a) + 1
        BY <1>1, <1>3, <3>2
      <4> QED BY <2>1, <2>2, <3>2, <4>1
    <3> QED BY <3>1, <3>2
  <2> QED BY <1>1, <1>3, <2>2, <2>3
<1> HIDE DEF c
<1>5. r \in Seq(S) /\ Len(r) = Len(c) + Len(b)
      /\ \A i \in 1 .. Len(c) + Len(b) : r[i] = IF i <= Len(c) THEN c[i] ELSE b[i - Len(c)]
  BY <1>3, <1>4, ConcatProperties
<1> HIDE DEF r
<1>6. Len(c) + Len(b) = Len(s) + 1 /\ Len(c) = m + 1
  BY <1>1, <1>3, <1>4
<1>7. ASSUME NEW i \in 1 .. Len(s) + 1
      PROVE  r[i] = IF i <= m THEN s[i] ELSE IF i = m + 1 THEN t ELSE s[i - 1]
  <2>1. CASE i <= m + 1
    <3>1. i <= Len(c) /\ i \in 1 .. m + 1
      BY <1>1, <1>6, <2>1
    <3>2. r[i] = c[i]
      BY <1>5, <1>6, <3>1
    <3> QED BY <1>1, <1>4, <2>1, <3>1, <3>2
  <2>2. CASE ~(i <= m + 1)
    <3>1. i - (m + 1) \in 1 .. Len(s) - m /\ m + (i - (m + 1)) = i - 1 /\ ~(i <= m) /\ i # m + 1
      BY <1>1, <2>2
    <3>2. r[i] = b[i - (m + 1)] /\ b[i - (m + 1)] = s[i - 1]
      BY <1>3, <1>5, <1>6, <2>2, <3>1
    <3> QED BY <3>1, <3>2
  <2> QED BY <2>1, <2>2
<1>8. ASSUME NEW i \in 1 .. Len(s) + 1
      PROVE  r[i] = IF i < n THEN s[i] ELSE IF i = n THEN t ELSE s[i - 1]
  <2>1. (i <= m <=> i < n) /\ m + 1 = n
    BY <1>1
  <2> QED BY <1>7, <2>1
<1> QED BY <1>2, <1>5, <1>6, <1>8

LEMMA FrontRight ==
  ASSUME NEW S, NEW s \in Seq(S), s # <<>>
  PROVE  /\ Front(s) \in Seq(S) /\ Len(Front(s)) = Len(s) - 1 /\ Len(s) >= 1
         /\ \A i \in 1 .. Len(s) - 1 : Front(s)[i] = s[i]
         /\ Last(s) \in S /\ Last(s) = s[Len(s)]
<1>1. Len(s) \in Nat /\ Len(s) >= 1
  OBVIOUS
<1>2. Len(s) - 1 \in 0 .. Len(s)
  BY <1>1
<1>3. /\ Front(s) \in Seq(S) /\ Len(Front(s)) = Len(s) - 1
      /\ \A i \in 1 .. Len(s) - 1 : Front(s)[i] = s[i]
  BY <1>2, Piece DEF Front
<1>4. Last(s) \in S /\ Last(s) = s[Len(s)]
  BY <1>1 DEF Last
<1> QED BY <1>1, <1>3, <1>4

(* The last element replaced.                                              *)
LEMMA PutLast ==
  ASSUME NEW S, NEW s \in Seq(S), s # <<>>, NEW e \in S
  PROVE  /\ Append(Front(s), e) \in Seq(S) /\ Len(Append(Front(s), e)) = Len(s) /\ Len(s) >= 1
         /\ Append(Front(s), e)[Len(s)] = e
         /\ \A i \in 1 .. Len(s) - 1 : Append(Front(s), e)[i] = s[i]
<1>1. /\ Front(s) \in Seq(S) /\ Len(Front(s)) = Len(s) - 1 /\ Len(s) >= 1 /\ Len(s) \in Nat
      /\ \A i \in 1 .. Len(s) - 1 : Front(s)[i] = s[i]
  BY FrontRight
<1> DEFINE f == Front(s)
<1> HIDE DEF f
<1>2. f \in Seq(S) /\ Len(f) = Len(s) - 1 /\ Len(s) >= 1 /\ Len(s) \in Nat
  BY <1>1 DEF f
<1> DEFINE r == Append(f, e)
<1>3. r \in Seq(S) /\ Len(r) = Len(f) + 1 /\ r[Len(f) + 1] = e /\ \A i \in 1 .. Len(f) : r[i] = f[i]
  BY <1>2, AppendProperties
<1>4. Len(f) + 1 = Len(s)
  BY <1>2
<1> HIDE DEF r
<1>5. r \in Seq(S) /\ Len(r) = Len(s) /\ r[Len(s)] = e
  BY <1>3, <1>4
<1>6. ASSUME NEW i \in 1 .. Len(s) - 1 PROVE r[i] = s[i]
  <2>1. r[i] = f[i]
    BY <1>2, <1>3
  <2> QED BY <1>1, <2>1 DEF f
<1> QED BY <1>1, <1>5, <1>6 DEF f, r
=============================================================================

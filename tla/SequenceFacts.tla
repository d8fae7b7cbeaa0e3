--------------------------- MODULE SequenceFacts ----------------------------
(***************************************************************************)
(* Facts about numbers, sums and sequences that the proofs about several   *)
(* modules rest on: least elements, induction over the naturals and over   *)
(* the subsets of a finite set, functions defined by recursion, the sum    *)
(* MapThenSumSet computes, and what Append, RemoveAt and InsertAt do to    *)
(* the tips pool and to the queue of the timers.                           *)
(***************************************************************************)
EXTENDS Naturals, FiniteSets, SequencesExt, SequenceTheorems, FiniteSetTheorems,
        WellFoundedInduction, TLAPS

(* The least element of a nonempty set of naturals.                        *)
LEMMA MinOfNaturals ==
    ASSUME NEW S, S \subseteq Nat, S # {}
    PROVE  /\ Min(S) \in S
           /\ \A y \in S : Min(S) <= y
<1> DEFINE less == {p \in Nat \X Nat : p[1] < p[2]}
<1>1. OpToRel(<, Nat) = less
  BY DEF OpToRel
<1>2. PICK x \in S : \A y \in S : <<y, x>> \notin less
  <2> HIDE DEF less
  <2> QED
    BY <1>1, WFMin, NatLessThanWellFounded
<1>3. \A y \in S : x <= y
  <2> TAKE y \in S
  <2>1. x \in Nat /\ y \in Nat
    OBVIOUS
  <2>2. ~ y < x
    BY <1>2, <2>1
  <2> QED
    BY <2>1, <2>2
<1> QED
  BY <1>3 DEF Min

(* The greatest element of a nonempty set of numbers up to n.              *)
LEMMA MaxOfInterval ==
    ASSUME NEW n \in Nat, NEW S, S \subseteq 1 .. n, S # {}
    PROVE  \E m \in S : \A y \in S : y <= m
<1> DEFINE T == {n - x : x \in S}
<1>1. T \subseteq Nat /\ T # {}
  <2>1. PICK x \in S : TRUE
    OBVIOUS
  <2>2. n - x \in T
    BY <2>1
  <2>3. \A y \in S : y \in Nat /\ y <= n
    OBVIOUS
  <2>4. T \subseteq Nat
    BY <2>3
  <2> QED
    BY <2>2, <2>4
<1>2. Min(T) \in T /\ \A y \in T : Min(T) <= y
  <2> HIDE DEF T
  <2> QED
    BY <1>1, MinOfNaturals
<1>3. PICK m \in S : Min(T) = n - m
  BY <1>2
<1>4. ASSUME NEW y \in S PROVE y <= m
  <2>1. n - m <= n - y
    BY <1>2, <1>3
  <2>2. m \in Nat /\ y \in Nat
    OBVIOUS
  <2> QED
    BY <2>1, <2>2
<1> QED
  BY <1>4

(* Append: the new element joins the others.                               *)
LEMMA AppendRange ==
    ASSUME NEW S, NEW s \in Seq(S), NEW e \in S
    PROVE  /\ Append(s, e) \in Seq(S)
           /\ Range(Append(s, e)) = Range(s) \cup {e}
<1>1. Append(s, e) \in Seq(S)
  BY AppendProperties
<1>2. Range(Append(s, e)) = {Append(s, e)[i] : i \in 1 .. Len(s) + 1}
  <2>1. Len(Append(s, e)) = Len(s) + 1
    BY AppendProperties
  <2>2. Range(Append(s, e)) = {Append(s, e)[i] : i \in 1 .. Len(Append(s, e))}
    BY <1>1, RangeEquality
  <2> QED
    BY <2>1, <2>2
<1>3. Range(s) = {s[i] : i \in 1 .. Len(s)}
  BY RangeEquality
<1>4. /\ \A i \in 1 .. Len(s) : Append(s, e)[i] = s[i]
      /\ Append(s, e)[Len(s) + 1] = e
      /\ Len(s) \in Nat
  BY AppendProperties, LenProperties
<1> QED
  BY <1>1, <1>2, <1>3, <1>4

(* RemoveAt: one place is gone, every other element is still there.        *)
LEMMA RemoveAtRange ==
    ASSUME NEW S, NEW s \in Seq(S), NEW i \in 1 .. Len(s)
    PROVE  /\ RemoveAt(s, i) \in Seq(S)
           /\ Range(RemoveAt(s, i)) \subseteq Range(s)
           /\ Range(s) \subseteq Range(RemoveAt(s, i)) \cup {s[i]}
<1> DEFINE front == SubSeq(s, 1, i - 1)
           back  == SubSeq(s, i + 1, Len(s))
<1>1. Len(s) \in Nat /\ \A k \in 1 .. Len(s) : s[k] \in S
  BY LenProperties, ElementOfSeq
<1>2. /\ front \in Seq(S) /\ Len(front) = i - 1
      /\ \A k \in 1 .. i - 1 : front[k] = s[k]
  <2>1. 1 \in Int /\ i - 1 \in Int /\ \A k \in 1 .. i - 1 : s[k] \in S
    BY <1>1
  <2>2. /\ front \in Seq(S)
        /\ Len(front) = IF 1 <= i - 1 THEN (i - 1) - 1 + 1 ELSE 0
        /\ \A k \in 1 .. (i - 1) - 1 + 1 : front[k] = s[1 + k - 1]
    BY <2>1, SubSeqProperties
  <2> QED
    BY <2>2, <1>1
<1>3. /\ back \in Seq(S) /\ Len(back) = Len(s) - i
      /\ \A k \in 1 .. Len(s) - i : back[k] = s[k + i]
  <2>1. i + 1 \in Int /\ Len(s) \in Int /\ \A k \in i + 1 .. Len(s) : s[k] \in S
    BY <1>1
  <2>2. /\ back \in Seq(S)
        /\ Len(back) = IF i + 1 <= Len(s) THEN Len(s) - (i + 1) + 1 ELSE 0
        /\ \A k \in 1 .. Len(s) - (i + 1) + 1 : back[k] = s[(i + 1) + k - 1]
    BY <2>1, SubSeqProperties
  <2> QED
    BY <2>2, <1>1
<1>4. RemoveAt(s, i) = front \o back
  BY DEF RemoveAt
<1>5. Range(RemoveAt(s, i)) = Range(front) \cup Range(back)
  BY <1>2, <1>3, <1>4, RangeConcatenation
<1>6. /\ Range(front) = {s[k] : k \in 1 .. i - 1}
      /\ Range(back) = {s[k + i] : k \in 1 .. Len(s) - i}
      /\ Range(s) = {s[k] : k \in 1 .. Len(s)}
  <2> HIDE DEF front, back
  <2>1. /\ Range(front) = {front[k] : k \in 1 .. Len(front)}
        /\ Range(back) = {back[k] : k \in 1 .. Len(back)}
        /\ Range(s) = {s[k] : k \in 1 .. Len(s)}
    BY <1>2, <1>3, RangeEquality
  <2>2. Range(front) = {s[k] : k \in 1 .. i - 1}
    BY <2>1, <1>2
  <2>3. Range(back) = {s[k + i] : k \in 1 .. Len(s) - i}
    BY <2>1, <1>3
  <2> QED
    BY <2>1, <2>2, <2>3
<1>7. RemoveAt(s, i) \in Seq(S)
  BY <1>2, <1>3, <1>4, ConcatProperties
<1>8. {s[k] : k \in 1 .. i - 1} \cup {s[k + i] : k \in 1 .. Len(s) - i} \subseteq {s[k] : k \in 1 .. Len(s)}
  BY <1>1
<1>9. \A k \in 1 .. Len(s) : k # i => \/ k \in 1 .. i - 1
                                      \/ k - i \in 1 .. Len(s) - i /\ k = (k - i) + i
  BY <1>1
<1>10. \A k \in 1 .. Len(s) :
          s[k] \in {s[j] : j \in 1 .. i - 1} \cup {s[j + i] : j \in 1 .. Len(s) - i} \cup {s[i]}
  BY <1>9
<1> QED
  BY <1>5, <1>6, <1>7, <1>8, <1>10

(* RemoveAt and InsertAt, place by place.                                  *)
LEMMA RemoveAtPlaces ==
    ASSUME NEW S, NEW s \in Seq(S), NEW i \in 1 .. Len(s)
    PROVE  /\ RemoveAt(s, i) \in Seq(S)
           /\ Len(RemoveAt(s, i)) = Len(s) - 1
           /\ \A k \in 1 .. i - 1 : RemoveAt(s, i)[k] = s[k]
           /\ \A k \in i .. Len(s) - 1 : RemoveAt(s, i)[k] = s[k + 1]
<1> DEFINE front == SubSeq(s, 1, i - 1)
           back  == SubSeq(s, i + 1, Len(s))
<1>1. Len(s) \in Nat /\ \A k \in 1 .. Len(s) : s[k] \in S
  BY LenProperties, ElementOfSeq
<1>2. /\ front \in Seq(S) /\ Len(front) = i - 1
      /\ \A k \in 1 .. i - 1 : front[k] = s[k]
  <2>1. 1 \in Int /\ i - 1 \in Int /\ \A k \in 1 .. i - 1 : s[k] \in S
    BY <1>1
  <2>2. /\ front \in Seq(S)
        /\ Len(front) = IF 1 <= i - 1 THEN (i - 1) - 1 + 1 ELSE 0
        /\ \A k \in 1 .. (i - 1) - 1 + 1 : front[k] = s[1 + k - 1]
    BY <2>1, SubSeqProperties
  <2> QED
    BY <2>2, <1>1
<1>3. /\ back \in Seq(S) /\ Len(back) = Len(s) - i
      /\ \A k \in 1 .. Len(s) - i : back[k] = s[k + i]
  <2>1. i + 1 \in Int /\ Len(s) \in Int /\ \A k \in i + 1 .. Len(s) : s[k] \in S
    BY <1>1
  <2>2. /\ back \in Seq(S)
        /\ Len(back) = IF i + 1 <= Len(s) THEN Len(s) - (i + 1) + 1 ELSE 0
        /\ \A k \in 1 .. Len(s) - (i + 1) + 1 : back[k] = s[(i + 1) + k - 1]
    BY <2>1, SubSeqProperties
  <2> QED
    BY <2>2, <1>1
<1>4. RemoveAt(s, i) = front \o back
  BY DEF RemoveAt
<1> HIDE DEF front, back
<1>5. /\ front \o back \in Seq(S)
      /\ Len(front \o back) = Len(front) + Len(back)
      /\ \A k \in 1 .. Len(front) + Len(back) :
            (front \o back)[k] = IF k <= Len(front) THEN front[k] ELSE back[k - Len(front)]
  BY <1>2, <1>3, ConcatProperties
<1>6. ASSUME NEW k \in i .. Len(s) - 1
      PROVE  (front \o back)[k] = s[k + 1]
  <2>1. /\ k \in 1 .. Len(front) + Len(back) /\ ~(k <= Len(front))
        /\ k - (i - 1) \in 1 .. Len(s) - i /\ (k - (i - 1)) + i = k + 1
    BY <1>1, <1>2, <1>3
  <2> QED
    BY <1>2, <1>3, <1>5, <2>1
<1>7. ASSUME NEW k \in 1 .. i - 1
      PROVE  (front \o back)[k] = s[k]
  BY <1>1, <1>2, <1>3, <1>5
<1> QED
  BY <1>1, <1>2, <1>3, <1>4, <1>5, <1>6, <1>7

LEMMA InsertAtPlaces ==
    ASSUME NEW S, NEW s \in Seq(S), NEW i \in 1 .. Len(s) + 1, NEW e \in S
    PROVE  /\ InsertAt(s, i, e) \in Seq(S)
           /\ Len(InsertAt(s, i, e)) = Len(s) + 1
           /\ \A k \in 1 .. i - 1 : InsertAt(s, i, e)[k] = s[k]
           /\ InsertAt(s, i, e)[i] = e
           /\ \A k \in i + 1 .. Len(s) + 1 : InsertAt(s, i, e)[k] = s[k - 1]
<1> DEFINE front == SubSeq(s, 1, i - 1)
           back  == SubSeq(s, i, Len(s))
           most  == front \o <<e>>
<1>1. Len(s) \in Nat /\ \A k \in 1 .. Len(s) : s[k] \in S
  BY LenProperties, ElementOfSeq
<1>2. /\ front \in Seq(S) /\ Len(front) = i - 1
      /\ \A k \in 1 .. i - 1 : front[k] = s[k]
  <2>1. 1 \in Int /\ i - 1 \in Int /\ \A k \in 1 .. i - 1 : s[k] \in S
    BY <1>1
  <2>2. /\ front \in Seq(S)
        /\ Len(front) = IF 1 <= i - 1 THEN (i - 1) - 1 + 1 ELSE 0
        /\ \A k \in 1 .. (i - 1) - 1 + 1 : front[k] = s[1 + k - 1]
    BY <2>1, SubSeqProperties
  <2> QED
    BY <2>2, <1>1
<1>3. /\ back \in Seq(S) /\ Len(back) = Len(s) - i + 1
      /\ \A k \in 1 .. Len(s) - i + 1 : back[k] = s[i + k - 1]
  <2>1. i \in Int /\ Len(s) \in Int /\ \A k \in i .. Len(s) : s[k] \in S
    BY <1>1
  <2>2. /\ back \in Seq(S)
        /\ Len(back) = IF i <= Len(s) THEN Len(s) - i + 1 ELSE 0
        /\ \A k \in 1 .. Len(s) - i + 1 : back[k] = s[i + k - 1]
    BY <2>1, SubSeqProperties
  <2> QED
    BY <2>2, <1>1
<1>4. InsertAt(s, i, e) = most \o back
  BY DEF InsertAt
<1> HIDE DEF front, back
<1>5. /\ most \in Seq(S) /\ Len(most) = i
      /\ \A k \in 1 .. i - 1 : most[k] = front[k]
      /\ most[i] = e
  <2>1. <<e>> \in Seq(S) /\ Len(<<e>>) = 1 /\ <<e>>[1] = e
    OBVIOUS
  <2>2. /\ front \o <<e>> \in Seq(S)
        /\ Len(front \o <<e>>) = Len(front) + Len(<<e>>)
        /\ \A k \in 1 .. Len(front) + Len(<<e>>) :
              (front \o <<e>>)[k] = IF k <= Len(front) THEN front[k] ELSE <<e>>[k - Len(front)]
    BY <1>2, <2>1, ConcatProperties
  <2> QED
    BY <1>2, <2>1, <2>2
<1> HIDE DEF most
<1>6. /\ most \o back \in Seq(S)
      /\ Len(most \o back) = Len(most) + Len(back)
      /\ \A k \in 1 .. Len(most) + Len(back) :
            (most \o back)[k] = IF k <= Len(most) THEN most[k] ELSE back[k - Len(most)]
  BY <1>3, <1>5, ConcatProperties
<1>7. ASSUME NEW k \in i + 1 .. Len(s) + 1
      PROVE  (most \o back)[k] = s[k - 1]
  <2>1. /\ k \in 1 .. Len(most) + Len(back) /\ ~(k <= Len(most))
        /\ k - i \in 1 .. Len(s) - i + 1 /\ i + (k - i) - 1 = k - 1
    BY <1>1, <1>3, <1>5
  <2> QED
    BY <1>3, <1>5, <1>6, <2>1
<1>8. ASSUME NEW k \in 1 .. i
      PROVE  (most \o back)[k] = most[k]
  BY <1>1, <1>3, <1>5, <1>6
<1> QED
  BY <1>1, <1>2, <1>3, <1>4, <1>5, <1>6, <1>7, <1>8

----------------------------------------------------------------------------

(* What holds of 0 and passes from each number to the next holds of all.   *)
LEMMA AllNaturals ==
    ASSUME NEW S, 0 \in S, \A n \in Nat : n \in S => n + 1 \in S
    PROVE  \A n \in Nat : n \in S
<1> DEFINE Out == Nat \ S
<1> SUFFICES ASSUME Out # {} PROVE FALSE
  OBVIOUS
<1>1. PICK m \in Out : \A y \in Out : m <= y
  <2>1. Out \subseteq Nat
    OBVIOUS
  <2> HIDE DEF Out
  <2> QED
    BY <2>1, MinOfNaturals
<1>2. m \in Nat /\ m # 0
  BY <1>1
<1>3. m - 1 \in Nat /\ m - 1 \notin Out
  BY <1>1, <1>2
<1>4. (m - 1) + 1 \in S
  BY <1>3
<1> QED
  BY <1>1, <1>2, <1>4

(* A function on the naturals defined by its value at 0 and a step.        *)
StepMaps(T) == [Nat -> [T -> T]]

(* f begins with a, and G[n] leads from f[n] to f[n + 1].                  *)
Follows(f, T, a, G) ==
    /\ f \in [Nat -> T]
    /\ f[0] = a
    /\ \A n \in Nat : f[n + 1] = G[n][f[n]]

(* There is one.                                                           *)
LEMMA Recursion ==
    ASSUME NEW T, NEW a \in T, NEW G \in StepMaps(T)
    PROVE  \E f : Follows(f, T, a, G)
<1>0. G \in [Nat -> [T -> T]]
  BY DEF StepMaps
<1> DEFINE Upto(g, n) == /\ g \in [0 .. n -> T]
                         /\ g[0] = a
                         /\ \A k \in 0 .. n - 1 : g[k + 1] = G[k][g[k]]
           S == {n \in Nat : \E g : Upto(g, n)}
<1>1. \A n \in Nat : n \in S
  <2>1. 0 \in S
    <3>1. Upto([k \in 0 .. 0 |-> a], 0)
      OBVIOUS
    <3> QED
      BY <3>1
  <2>2. ASSUME NEW n \in Nat, n \in S PROVE n + 1 \in S
    <3>1. PICK g : Upto(g, n)
      BY <2>2
    <3> DEFINE h == [k \in 0 .. n + 1 |-> IF k = n + 1 THEN G[n][g[n]] ELSE g[k]]
    <3>2. \A k \in 0 .. n : h[k] = g[k]
      OBVIOUS
    <3>3. h[n + 1] = G[n][g[n]] /\ h[n + 1] \in T
      BY <1>0, <3>1
    <3>4. h \in [0 .. n + 1 -> T]
      <4>1. \A k \in 0 .. n + 1 : k = n + 1 \/ k \in 0 .. n
        OBVIOUS
      <4>2. \A k \in 0 .. n + 1 : h[k] \in T
        BY <3>1, <3>2, <3>3, <4>1
      <4> QED
        BY <4>2
    <3>5. \A k \in 0 .. (n + 1) - 1 : h[k + 1] = G[k][h[k]]
      BY <3>1, <3>2, <3>3
    <3>6. h[0] = a
      BY <3>1, <3>2
    <3> HIDE DEF h
    <3>7. Upto(h, n + 1)
      BY <3>4, <3>5, <3>6
    <3> QED
      BY <3>7
  <2> HIDE DEF S
  <2> QED
    BY <2>1, <2>2, AllNaturals
<1>2. ASSUME NEW m \in Nat, NEW n \in Nat, m <= n, NEW g, NEW h, Upto(g, m), Upto(h, n)
      PROVE  g[m] = h[m]
  <2> DEFINE E == {k \in Nat : k <= m => g[k] = h[k]}
  <2>1. 0 \in E
    BY <1>2
  <2>2. ASSUME NEW k \in Nat, k \in E PROVE k + 1 \in E
    BY <1>2, <2>2
  <2>3. m \in E
    <3> HIDE DEF E
    <3> QED
      BY <2>1, <2>2, AllNaturals
  <2> QED
    BY <2>3
<1> DEFINE s == [n \in Nat |-> CHOOSE g : Upto(g, n)]
           f == [n \in Nat |-> s[n][n]]
<1>3. \A n \in Nat : Upto(s[n], n)
  BY <1>1
<1> HIDE DEF s, S
<1>4. f \in [Nat -> T]
  BY <1>3
<1>5. f[0] = a
  BY <1>3
<1>6. ASSUME NEW n \in Nat PROVE f[n + 1] = G[n][f[n]]
  <2>1. Upto(s[n], n) /\ Upto(s[n + 1], n + 1)
    BY <1>3
  <2>2. s[n + 1][n + 1] = G[n][s[n + 1][n]]
    <3>1. n \in 0 .. (n + 1) - 1
      OBVIOUS
    <3> QED
      BY <2>1, <3>1
  <2>3. s[n][n] = s[n + 1][n]
    <3>1. n + 1 \in Nat /\ n <= n + 1
      OBVIOUS
    <3> HIDE DEF Upto
    <3> QED
      BY <1>2, <2>1, <3>1
  <2> QED
    BY <2>2, <2>3
<1> HIDE DEF f
<1> QED
  BY <1>4, <1>5, <1>6 DEF Follows

----------------------------------------------------------------------------

(***************************************************************************)
(* The sum of w over a finite set as MapThenSumSet computes it: it takes   *)
(* one element after the other.                                            *)
(***************************************************************************)
PickOne(s) == CHOOSE x \in s : TRUE

(* f sums w over every subset of S.                                        *)
Summing(f, S, w) ==
    f = [s \in SUBSET S |-> IF s = {} THEN 0
                            ELSE w[PickOne(s)] + f[s \ {PickOne(s)}]]

(* Sums of the subsets of S are naturals.                                  *)
Totals(S) == [SUBSET S -> Nat]

(* The sum of w over S.                                                    *)
SumOver(S, w) == (CHOOSE f : Summing(f, S, w))[S]

(* The element that is taken is one of the set.                            *)
LEMMA PickOneIn == ASSUME NEW s, s # {} PROVE PickOne(s) \in s
BY DEF PickOne

(* Induction over the subsets of a finite set by their number of elements. *)
LEMMA AllSubsets ==
    ASSUME NEW S, IsFiniteSet(S), NEW G,
           {} \in G,
           \A s \in SUBSET S : s # {} /\ (\A t \in SUBSET s : t # s => t \in G) => s \in G
    PROVE  \A s \in SUBSET S : s \in G
<1> DEFINE E == {n \in Nat : \A s \in SUBSET S : Cardinality(s) <= n => s \in G}
<1>1. \A s \in SUBSET S : IsFiniteSet(s) /\ Cardinality(s) \in Nat
  BY FS_Subset, FS_CardinalityType
<1>2. 0 \in E
  <2>1. ASSUME NEW s \in SUBSET S, Cardinality(s) <= 0 PROVE s \in G
    <3>1. Cardinality(s) = 0
      BY <1>1, <2>1
    <3>2. s = {}
      BY <1>1, <3>1, FS_EmptySet
    <3> QED
      BY <3>2
  <2> QED
    BY <2>1
<1>3. ASSUME NEW n \in Nat, n \in E PROVE n + 1 \in E
  <2>1. ASSUME NEW s \in SUBSET S, Cardinality(s) <= n + 1 PROVE s \in G
    <3>1. ASSUME NEW t \in SUBSET s, t # s PROVE t \in G
      <4>1. Cardinality(t) <= Cardinality(s) /\ Cardinality(t) # Cardinality(s)
        BY <1>1, <3>1, FS_Subset
      <4>2. t \in SUBSET S
        OBVIOUS
      <4>3. Cardinality(t) <= n
        BY <1>1, <2>1, <4>1, <4>2
      <4> QED
        BY <1>3, <4>2, <4>3
    <3> QED
      BY <3>1
  <2> QED
    BY <2>1
<1>4. \A n \in Nat : n \in E
  <2> HIDE DEF E
  <2> QED
    BY <1>2, <1>3, AllNaturals
<1>5. ASSUME NEW s \in SUBSET S PROVE s \in G
  <2>1. Cardinality(s) \in E
    BY <1>1, <1>4
  <2>2. Cardinality(s) <= Cardinality(s)
    BY <1>1
  <2> QED
    BY <2>1, <2>2
<1> QED
  BY <1>5

(* There is one function that sums.                                        *)
LEMMA SummingExists ==
    ASSUME NEW S, IsFiniteSet(S), NEW w, \A x \in S : w[x] \in Nat
    PROVE  \E f : Summing(f, S, w) /\ f \in Totals(S)
<1> DEFINE T == [SUBSET S -> Nat]
           step(g) == [s \in SUBSET S |-> IF s = {} THEN 0
                                          ELSE w[PickOne(s)] + g[s \ {PickOne(s)}]]
           G == [n \in Nat |-> [g \in T |-> step(g)]]
           zero == [s \in SUBSET S |-> 0]
           N == Cardinality(S)
<1>1. ASSUME NEW g \in T PROVE step(g) \in T
  <2>1. ASSUME NEW s \in SUBSET S, s # {}
        PROVE  w[PickOne(s)] + g[s \ {PickOne(s)}] \in Nat
    <3>1. PickOne(s) \in S
      BY <2>1, PickOneIn
    <3>2. s \ {PickOne(s)} \in SUBSET S
      OBVIOUS
    <3>3. w[PickOne(s)] \in Nat /\ g[s \ {PickOne(s)}] \in Nat
      BY <3>1, <3>2
    <3> QED
      BY <3>3
  <2> QED
    BY <2>1
<1>2. \E h : Follows(h, T, zero, G)
  <2>1. zero \in T /\ G \in StepMaps(T)
    <3> HIDE DEF step
    <3> QED
      BY <1>1 DEF StepMaps
  <2> HIDE DEF T, G, zero
  <2> QED
    BY <2>1, Recursion
<1>3. PICK h : Follows(h, T, zero, G)
  BY <1>2
<1>4. \A n \in Nat : h[n] \in T /\ h[n + 1] = step(h[n])
  <2> HIDE DEF T, step
  <2> QED
    BY <1>3 DEF Follows
<1>5. N \in Nat /\ \A s \in SUBSET S : /\ IsFiniteSet(s) /\ Cardinality(s) \in Nat
                                      /\ Cardinality(s) <= N
  BY FS_Subset, FS_CardinalityType
<1> DEFINE E == {n \in Nat : \A s \in SUBSET S : Cardinality(s) <= n => h[n][s] = h[n + 1][s]}
<1>6. 0 \in E
  <2>1. ASSUME NEW s \in SUBSET S, Cardinality(s) <= 0 PROVE h[0][s] = h[0 + 1][s]
    <3>1. s = {}
      BY <1>5, <2>1, FS_EmptySet
    <3>2. h[0][s] = 0
      BY <1>3 DEF Follows
    <3>3. h[0 + 1][s] = step(h[0])[s]
      BY <1>4
    <3> QED
      BY <3>1, <3>2, <3>3
  <2> QED
    BY <2>1
<1>7. ASSUME NEW n \in Nat, n \in E PROVE n + 1 \in E
  <2>1. ASSUME NEW s \in SUBSET S, Cardinality(s) <= n + 1
        PROVE  h[n + 1][s] = h[(n + 1) + 1][s]
    <3>1. n + 1 \in Nat
      OBVIOUS
    <3>2. h[n + 1] = step(h[n]) /\ h[(n + 1) + 1] = step(h[n + 1])
      BY <1>4, <3>1
    <3>3. CASE s = {}
      BY <3>2, <3>3
    <3>4. CASE s # {}
      <4> DEFINE r == s \ {PickOne(s)}
      <4>1. PickOne(s) \in s
        BY <3>4, PickOneIn
      <4>2. r \in SUBSET S /\ Cardinality(r) = Cardinality(s) - 1
        BY <1>5, <4>1, FS_RemoveElement
      <4>3. h[n][r] = h[n + 1][r]
        BY <1>5, <1>7, <2>1, <4>2
      <4> QED
        BY <3>2, <3>4, <4>3
    <3> QED
      BY <3>3, <3>4
  <2> QED
    BY <2>1
<1>8. N \in E
  <2> HIDE DEF E
  <2> QED
    BY <1>5, <1>6, <1>7, AllNaturals
<1>9. h[N] = h[N + 1]
  <2>1. h[N] \in T /\ h[N + 1] \in T
    <3>1. N \in Nat /\ N + 1 \in Nat
      BY <1>5
    <3> HIDE DEF N, T
    <3> QED
      BY <1>4, <3>1
  <2>2. \A s \in SUBSET S : h[N][s] = h[N + 1][s]
    BY <1>5, <1>8
  <2> QED
    BY <2>1, <2>2
<1>10. Summing(h[N], S, w)
  BY <1>4, <1>5, <1>9 DEF Summing
<1>11. h[N] \in T
  BY <1>4, <1>5
<1> QED
  BY <1>10, <1>11 DEF Totals

(* It is the only one.                                                     *)
LEMMA SummingUnique ==
    ASSUME NEW S, IsFiniteSet(S), NEW w, NEW f, NEW g, Summing(f, S, w), Summing(g, S, w)
    PROVE  f = g
<1> DEFINE G == {s \in SUBSET S : f[s] = g[s]}
<1>0. /\ \A s \in SUBSET S : f[s] = IF s = {} THEN 0 ELSE w[PickOne(s)] + f[s \ {PickOne(s)}]
      /\ \A s \in SUBSET S : g[s] = IF s = {} THEN 0 ELSE w[PickOne(s)] + g[s \ {PickOne(s)}]
      /\ f = [s \in SUBSET S |-> f[s]] /\ g = [s \in SUBSET S |-> g[s]]
  BY DEF Summing
<1>1. {} \in G
  BY <1>0
<1>2. ASSUME NEW s \in SUBSET S, s # {}, \A t \in SUBSET s : t # s => t \in G
      PROVE  s \in G
  <2>1. PickOne(s) \in s
    BY <1>2, PickOneIn
  <2>2. s \ {PickOne(s)} \in G
    BY <1>2, <2>1
  <2> QED
    BY <1>0, <1>2, <2>2
<1>3. \A s \in SUBSET S : s \in G
  <2> HIDE DEF G
  <2> QED
    BY <1>1, <1>2, AllSubsets
<1> QED
  BY <1>0, <1>3

(* Any element may be taken first.                                         *)
LEMMA SummingAny ==
    ASSUME NEW S, IsFiniteSet(S), NEW w, \A x \in S : w[x] \in Nat,
           NEW f \in Totals(S), Summing(f, S, w)
    PROVE  \A s \in SUBSET S : \A x \in s : f[s] = w[x] + f[s \ {x}]
<1> DEFINE G == {s \in SUBSET S : \A x \in s : f[s] = w[x] + f[s \ {x}]}
<1>0. /\ \A s \in SUBSET S : s # {} => f[s] = w[PickOne(s)] + f[s \ {PickOne(s)}]
      /\ \A s \in SUBSET S : f[s] \in Nat
  BY DEF Summing, Totals
<1>1. {} \in G
  OBVIOUS
<1>2. ASSUME NEW s \in SUBSET S, s # {}, \A t \in SUBSET s : t # s => t \in G
      PROVE  s \in G
  <2> DEFINE p == PickOne(s)
  <2>1. p \in s /\ f[s] = w[p] + f[s \ {p}]
    BY <1>0, <1>2, PickOneIn
  <2> HIDE DEF p
  <2>2. ASSUME NEW x \in s, x # p PROVE f[s] = w[x] + f[s \ {x}]
    <3>1. s \ {p} \in G /\ s \ {x} \in G
      BY <1>2, <2>1
    <3>2. f[s \ {p}] = w[x] + f[(s \ {p}) \ {x}]
      BY <2>1, <2>2, <3>1
    <3>3. f[s \ {x}] = w[p] + f[(s \ {x}) \ {p}]
      BY <2>1, <2>2, <3>1
    <3>4. (s \ {p}) \ {x} = (s \ {x}) \ {p}
      OBVIOUS
    <3> DEFINE r == (s \ {x}) \ {p}
    <3>5. w[x] \in Nat /\ w[p] \in Nat /\ f[r] \in Nat
      BY <1>0, <2>1
    <3> HIDE DEF r
    <3>6. f[s] = w[p] + (w[x] + f[r]) /\ f[s \ {x}] = w[p] + f[r]
      BY <2>1, <3>2, <3>3, <3>4 DEF r
    <3> QED
      BY <3>5, <3>6
  <2> QED
    BY <2>1, <2>2
<1>3. \A s \in SUBSET S : s \in G
  <2> HIDE DEF G
  <2> QED
    BY <1>1, <1>2, AllSubsets
<1> QED
  BY <1>3

(* A function that sums over a set sums over its subsets.                  *)
LEMMA SummingPart ==
    ASSUME NEW S, IsFiniteSet(S), NEW w, \A x \in S : w[x] \in Nat,
           NEW f, Summing(f, S, w), NEW R \in SUBSET S
    PROVE  f[R] = SumOver(R, w)
<1> DEFINE g == [s \in SUBSET R |-> f[s]]
           h == CHOOSE k : Summing(k, R, w)
<1>1. Summing(g, R, w)
  <2>1. \A s \in SUBSET R : s \in SUBSET S /\ s \ {PickOne(s)} \in SUBSET R
    OBVIOUS
  <2>2. \A s \in SUBSET S : f[s] = IF s = {} THEN 0 ELSE w[PickOne(s)] + f[s \ {PickOne(s)}]
    BY DEF Summing
  <2> QED
    BY <2>1, <2>2 DEF Summing
<1>2. Summing(h, R, w)
  <2> HIDE DEF g
  <2> QED
    BY <1>1
<1>3. IsFiniteSet(R)
  BY FS_Subset
<1>4. g = h
  <2> HIDE DEF g, h
  <2> QED
    BY <1>1, <1>2, <1>3, SummingUnique
<1>5. f[R] = g[R]
  OBVIOUS
<1> QED
  BY <1>4, <1>5 DEF SumOver

(* What there is to know of sums.                                          *)
LEMMA SumOfNone ==
    ASSUME NEW w
    PROVE  SumOver({}, w) = 0
<1> DEFINE f == [s \in SUBSET {} |-> 0]
           h == CHOOSE k : Summing(k, {}, w)
<1>1. Summing(f, {}, w)
  BY DEF Summing
<1>2. Summing(h, {}, w)
  <2> HIDE DEF f
  <2> QED
    BY <1>1
<1>3. h[{}] = 0
  <2> HIDE DEF h
  <2> QED
    BY <1>2 DEF Summing
<1> QED
  BY <1>3 DEF SumOver

(* An element more adds its weight.                                        *)
LEMMA SumOfMore ==
    ASSUME NEW S, IsFiniteSet(S), NEW w, NEW x, x \notin S,
           \A y \in S \cup {x} : w[y] \in Nat
    PROVE  /\ SumOver(S, w) \in Nat
           /\ SumOver(S \cup {x}, w) = SumOver(S, w) + w[x]
<1> DEFINE T == S \cup {x}
<1>1. IsFiniteSet(T)
  BY FS_AddElement
<1>2. \A y \in T : w[y] \in Nat
  OBVIOUS
<1>3. S \in SUBSET T /\ T \in SUBSET T /\ x \in T /\ T \ {x} = S
  OBVIOUS
<1> HIDE DEF T
<1>4. PICK f : Summing(f, T, w) /\ f \in Totals(T)
  BY <1>1, <1>2, SummingExists
<1>5. f[T] = SumOver(T, w) /\ f[S] = SumOver(S, w)
  BY <1>1, <1>2, <1>3, <1>4, SummingPart
<1>6. f[T] = w[x] + f[S]
  BY <1>1, <1>2, <1>3, <1>4, SummingAny
<1>7. f[S] \in Nat /\ w[x] \in Nat
  BY <1>2, <1>3, <1>4 DEF Totals
<1> QED
  BY <1>5, <1>6, <1>7 DEF T

(* T has the element x more than S.                                        *)
OneMore(T, S, x) == x \notin S /\ T = S \cup {x}

(* The same of two sets of which one has an element more.                  *)
LEMMA SumOfOneMore ==
    ASSUME NEW S, IsFiniteSet(S), NEW w, NEW x, NEW T, OneMore(T, S, x),
           \A y \in S : w[y] \in Nat, w[x] \in Nat
    PROVE  /\ SumOver(S, w) \in Nat
           /\ SumOver(T, w) = SumOver(S, w) + w[x]
<1>1. \A y \in S \cup {x} : w[y] \in Nat
  OBVIOUS
<1>2. SumOver(S, w) \in Nat /\ SumOver(S \cup {x}, w) = SumOver(S, w) + w[x]
  BY <1>1, SumOfMore DEF OneMore
<1> QED
  BY <1>2, Zenon DEF OneMore

(* The sum over a part is at most the sum over the whole.                  *)
LEMMA SumOfSome ==
    ASSUME NEW T, IsFiniteSet(T), NEW w, \A y \in T : w[y] \in Nat, NEW S \in SUBSET T
    PROVE  /\ SumOver(S, w) \in Nat
           /\ SumOver(T, w) \in Nat
           /\ SumOver(S, w) <= SumOver(T, w)
<1>1. PICK f : Summing(f, T, w) /\ f \in Totals(T)
  BY SummingExists
<1>0. \A s \in SUBSET T : f[s] \in Nat
  BY <1>1 DEF Totals
<1>2. f[S] = SumOver(S, w) /\ f[T] = SumOver(T, w)
  BY <1>1, SummingPart
<1>3. ASSUME NEW s \in SUBSET T, NEW x \in s PROVE f[s] = w[x] + f[s \ {x}]
  BY <1>1, SummingAny
<1> DEFINE G == {s \in SUBSET T : S \subseteq s => f[S] <= f[s]}
<1>4. {} \in G
  <2>1. f[{}] \in Nat
    BY <1>0
  <2>2. S \subseteq {} => f[S] = f[{}]
    BY Zenon
  <2> QED
    BY <2>1, <2>2
<1>5. ASSUME NEW s \in SUBSET T, s # {}, \A t \in SUBSET s : t # s => t \in G
      PROVE  s \in G
  <2> SUFFICES ASSUME S \subseteq s, S # s PROVE f[S] <= f[s]
    BY <1>0
  <2>1. PICK x \in s : x \notin S
    OBVIOUS
  <2>2. s \ {x} \in G
    BY <1>5, <2>1
  <2>3. f[S] <= f[s \ {x}] /\ f[s] = w[x] + f[s \ {x}]
    BY <1>3, <2>1, <2>2
  <2>4. w[x] \in Nat /\ f[s \ {x}] \in Nat /\ f[S] \in Nat
    BY <1>0, <2>1
  <2> QED
    BY <2>3, <2>4
<1>6. T \in G
  <2> HIDE DEF G
  <2> QED
    BY <1>4, <1>5, AllSubsets
<1> QED
  BY <1>0, <1>2, <1>6

(* Weights that agree on the set have one sum.                             *)
LEMMA SumOfSame ==
    ASSUME NEW S, NEW v, NEW w, \A x \in S : v[x] = w[x]
    PROVE  /\ \A f : Summing(f, S, v) <=> Summing(f, S, w)
           /\ IsFiniteSet(S) /\ (\A x \in S : v[x] \in Nat) => SumOver(S, v) = SumOver(S, w)
<1>1. ASSUME NEW f PROVE Summing(f, S, v) <=> Summing(f, S, w)
  <2> DEFINE A == [s \in SUBSET S |-> IF s = {} THEN 0 ELSE v[PickOne(s)] + f[s \ {PickOne(s)}]]
             B == [s \in SUBSET S |-> IF s = {} THEN 0 ELSE w[PickOne(s)] + f[s \ {PickOne(s)}]]
  <2>1. \A s \in SUBSET S : s # {} => v[PickOne(s)] = w[PickOne(s)]
    BY PickOneIn
  <2>2. A = B
    BY <2>1
  <2> QED
    BY <2>2 DEF Summing
<1>2. ASSUME IsFiniteSet(S), \A x \in S : v[x] \in Nat PROVE SumOver(S, v) = SumOver(S, w)
  <2>1. PICK f : Summing(f, S, v)
    BY <1>2, SummingExists
  <2>2. Summing(f, S, w)
    BY <1>1, <2>1
  <2>3. S \in SUBSET S /\ \A x \in S : w[x] \in Nat
    BY <1>2
  <2> QED
    BY <1>2, <2>1, <2>2, <2>3, SummingPart
<1> QED
  BY <1>1, <1>2

(* MapThenSumSet sums.                                                     *)
LEMMA SumIsSumOver ==
    ASSUME NEW S, NEW w
    PROVE  MapThenSumSet(LAMBDA x : w[x], S) = SumOver(S, w)
BY DEF MapThenSumSet, MapThenFoldSet, SumOver, Summing, PickOne
=============================================================================

-------------------------- MODULE UnitTableProofs ---------------------------
(***************************************************************************)
(* Facts about the operators of UnitTable, for every DAG, every table and  *)
(* both limits: what the proofs about UnitStore, WeightTriggers and Dag    *)
(* rest on. The walks are functions defined by recursion, so what they     *)
(* reach is proved by induction over their length.                         *)
(***************************************************************************)
EXTENDS UnitTable, SequenceFacts

(* The walks of Hops go on by one row from each row they reached.          *)
LEMMA HopsSteps ==
    ASSUME NEW approves, NEW stored, NEW u
    PROVE  /\ Hops(approves, stored, u) \in [Nat -> SUBSET (stored \cup {u})]
           /\ Hops(approves, stored, u)[0] = {u}
           /\ \A n \in Nat : Hops(approves, stored, u)[n + 1] =
                  stored \cap UNION {approves[v] : v \in Hops(approves, stored, u)[n]}
<1> DEFINE T == SUBSET (stored \cup {u})
           G == [n \in Nat |-> [X \in T |-> stored \cap UNION {approves[v] : v \in X}]]
           D(f) == f = [n \in Nat |-> IF n = 0 THEN {u}
                                     ELSE stored \cap UNION {approves[v] : v \in f[n-1]}]
           hop == CHOOSE f : D(f)
<1>1. \E f : Follows(f, T, {u}, G)
  <2>1. {u} \in T /\ G \in StepMaps(T)
    BY DEF StepMaps
  <2> HIDE DEF T, G
  <2> QED
    BY <2>1, Recursion
<1>2. PICK f : D(f)
  <2>0. PICK f : Follows(f, T, {u}, G)
    BY <1>1
  <2>1. ASSUME NEW n \in Nat, n # 0 PROVE f[n] = stored \cap UNION {approves[v] : v \in f[n-1]}
    <3>1. n - 1 \in Nat /\ (n - 1) + 1 = n
      BY <2>1
    <3>2. f[n] = G[n - 1][f[n - 1]]
      BY <2>0, <3>1 DEF Follows
    <3>3. f[n - 1] \in T
      BY <2>0, <3>1 DEF Follows
    <3> QED
      BY <3>1, <3>2, <3>3
  <2>2. f[0] = {u} /\ f \in [Nat -> T]
    BY <2>0 DEF Follows
  <2>3. D(f)
    BY <2>1, <2>2
  <2> QED
    BY <2>3
<1>3. D(hop)
  <2> HIDE DEF D
  <2> QED
    BY <1>2
<1>4. Hops(approves, stored, u) = hop
  BY DEF Hops
<1> HIDE DEF hop
<1>5. \A n \in Nat : hop[n + 1] = stored \cap UNION {approves[v] : v \in hop[n]}
  BY <1>3
<1>6. hop[0] = {u}
  BY <1>3
<1>7. hop \in [Nat -> T]
  BY <1>3
<1> QED
  BY <1>4, <1>5, <1>6, <1>7
(* Within, by one hop more.                                                *)
LEMMA WithinSteps ==
    ASSUME NEW approves, NEW stored, NEW u
    PROVE  /\ Within(approves, stored, u, 0) = {u}
           /\ \A n \in Nat :
                 /\ Within(approves, stored, u, n) \subseteq stored \cup {u}
                 /\ u \in Within(approves, stored, u, n)
                 /\ Within(approves, stored, u, n + 1) =
                        {u} \cup (stored \cap UNION {approves[v] : v \in Within(approves, stored, u, n)})
                 /\ Within(approves, stored, u, n) \subseteq Within(approves, stored, u, n + 1)
<1> DEFINE hop == Hops(approves, stored, u)
           W(n) == UNION {hop[k] : k \in 0 .. n}
<1>1. /\ \A n \in Nat : hop[n] \subseteq stored \cup {u}
      /\ hop[0] = {u}
      /\ \A n \in Nat : hop[n + 1] = stored \cap UNION {approves[v] : v \in hop[n]}
  BY HopsSteps
<1>2. \A n : Within(approves, stored, u, n) = W(n)
  BY DEF Within
<1> HIDE DEF hop
<1>3. W(0) = {u}
  <2>1. 0 .. 0 = {0}
    OBVIOUS
  <2> QED
    BY <1>1, <2>1
<1>4. ASSUME NEW n \in Nat
      PROVE  /\ W(n) \subseteq stored \cup {u} /\ u \in W(n)
             /\ W(n + 1) = {u} \cup (stored \cap UNION {approves[v] : v \in W(n)})
             /\ W(n) \subseteq W(n + 1)
  <2>1. /\ 0 \in 0 .. n /\ \A k \in 0 .. n : k \in Nat /\ k + 1 \in 0 .. n + 1 /\ k \in 0 .. n + 1
        /\ \A k \in 0 .. n + 1 : k = 0 \/ (k - 1 \in 0 .. n /\ (k - 1) + 1 = k)
    OBVIOUS
  <2>2. W(n) \subseteq stored \cup {u} /\ u \in W(n) /\ W(n) \subseteq W(n + 1)
    BY <1>1, <2>1
  <2>3. ASSUME NEW x \in W(n + 1) PROVE x = u \/ x \in stored \cap UNION {approves[v] : v \in W(n)}
    <3>1. PICK k \in 0 .. n + 1 : x \in hop[k]
      OBVIOUS
    <3>2. CASE k = 0
      BY <1>1, <3>1, <3>2
    <3>3. CASE k - 1 \in 0 .. n /\ (k - 1) + 1 = k
      <4> DEFINE j == k - 1
      <4>1. j \in 0 .. n /\ j \in Nat /\ x \in hop[j + 1]
        BY <2>1, <3>1, <3>3
      <4> HIDE DEF j
      <4>2. x \in stored \cap UNION {approves[v] : v \in hop[j]}
        BY <1>1, <4>1
      <4> QED
        BY <4>1, <4>2
    <3> QED
      BY <2>1, <3>2, <3>3
  <2>4. ASSUME NEW x \in stored, NEW v \in W(n), x \in approves[v] PROVE x \in W(n + 1)
    <3>1. PICK k \in 0 .. n : v \in hop[k]
      OBVIOUS
    <3>2. x \in hop[k + 1]
      BY <1>1, <2>1, <2>4, <3>1
    <3> QED
      BY <2>1, <3>2
  <2>5. u \in W(n + 1)
    BY <2>2
  <2> HIDE DEF W
  <2> QED
    BY <2>2, <2>3, <2>4, <2>5
<1> HIDE DEF W
<1> QED
  BY <1>2, <1>3, <1>4

(* A stored row approved by one within n hops is within n + 1.             *)
LEMMA WithinNext ==
    ASSUME NEW approves, NEW stored, NEW u, NEW n \in Nat,
           NEW v \in Within(approves, stored, u, n), NEW p \in approves[v], p \in stored
    PROVE  p \in Within(approves, stored, u, n + 1)
<1> DEFINE W(k) == Within(approves, stored, u, k)
<1>1. /\ W(0) = {u}
      /\ \A k \in Nat : W(k + 1) = {u} \cup (stored \cap UNION {approves[x] : x \in W(k)})
  BY WithinSteps
<1> HIDE DEF W
<1>2. v \in W(n)
  BY DEF W
<1>3. p \in W(n + 1)
  BY <1>1, <1>2
<1> QED
  BY <1>3 DEF W

(* More hops lead to more rows.                                            *)
LEMMA WithinGrows ==
    ASSUME NEW approves, NEW stored, NEW u, NEW m \in Nat, NEW n \in Nat, m <= n
    PROVE  Within(approves, stored, u, m) \subseteq Within(approves, stored, u, n)
<1>1. 0 .. m \subseteq 0 .. n
  OBVIOUS
<1> QED
  BY <1>1 DEF Within

(* A set of rows that leads nowhere else.                                  *)
ClosedIn(approves, stored, S) ==
    \A v \in S : approves[v] \cap stored \subseteq S

(* The ancestry is closed: no chain of stored rows is longer than there    *)
(* are rows.                                                               *)
LEMMA AncestryClosed ==
    ASSUME NEW approves, NEW stored, IsFiniteSet(stored), NEW u
    PROVE  /\ u \in Ancestry(approves, stored, u)
           /\ Ancestry(approves, stored, u) \subseteq stored \cup {u}
           /\ ClosedIn(approves, stored, Ancestry(approves, stored, u))
           /\ \A n \in Nat : Within(approves, stored, u, n) \subseteq Ancestry(approves, stored, u)
<1> DEFINE W(n) == Within(approves, stored, u, n)
           c == Cardinality(stored)
           all == stored \cup {u}
<1>1. c \in Nat /\ IsFiniteSet(all) /\ Cardinality(all) \in Nat /\ Cardinality(all) <= c + 1
  <2>1. c \in Nat
    BY FS_CardinalityType
  <2>2. IsFiniteSet(all) /\ Cardinality(all) = IF u \in stored THEN c ELSE c + 1
    BY FS_AddElement
  <2> QED
    BY <2>1, <2>2
<1>2. /\ W(0) = {u}
      /\ \A n \in Nat : /\ W(n) \subseteq all /\ u \in W(n) /\ W(n) \subseteq W(n + 1)
                        /\ W(n + 1) = {u} \cup (stored \cap UNION {approves[v] : v \in W(n)})
  BY WithinSteps
<1> HIDE DEF W
<1>3. ASSUME NEW n \in Nat PROVE IsFiniteSet(W(n)) /\ Cardinality(W(n)) \in Nat /\ Cardinality(W(n)) <= c + 1
  <2>1. W(n) \in SUBSET all
    BY <1>2
  <2> HIDE DEF all, c
  <2>2. IsFiniteSet(W(n)) /\ Cardinality(W(n)) <= Cardinality(all)
    BY <1>1, <2>1, FS_Subset
  <2>3. Cardinality(W(n)) \in Nat
    BY <2>2, FS_CardinalityType
  <2> QED
    BY <1>1, <2>2, <2>3
<1>4. ASSUME NEW n \in Nat, W(n + 1) = W(n) PROVE W((n + 1) + 1) = W(n + 1)
  <2>1. n + 1 \in Nat
    OBVIOUS
  <2> QED
    BY <1>2, <1>4, <2>1
<1> DEFINE E == {n \in Nat : W(n + 1) = W(n) \/ Cardinality(W(n)) >= n + 1}
<1>5. 0 \in E
  <2>1. Cardinality(W(0)) = 1
    BY <1>2, FS_Singleton
  <2> QED
    BY <2>1
<1>6. ASSUME NEW n \in Nat, n \in E PROVE n + 1 \in E
  <2>1. n + 1 \in Nat
    OBVIOUS
  <2>2. CASE W(n + 1) = W(n)
    BY <1>4, <2>1, <2>2
  <2>3. CASE W(n + 1) # W(n)
    <3>1. Cardinality(W(n)) >= n + 1
      BY <1>6, <2>3
    <3>2. W(n) \in SUBSET W(n + 1)
      BY <1>2
    <3>3. Cardinality(W(n)) <= Cardinality(W(n + 1)) /\ Cardinality(W(n)) # Cardinality(W(n + 1))
      BY <1>3, <2>1, <2>3, <3>2, FS_Subset
    <3>4. Cardinality(W(n)) \in Nat /\ Cardinality(W(n + 1)) \in Nat
      BY <1>3, <2>1
    <3>5. Cardinality(W(n + 1)) >= (n + 1) + 1
      BY <3>1, <3>3, <3>4
    <3> QED
      BY <2>1, <3>5
  <2> QED
    BY <2>2, <2>3
<1>7. c \in E
  <2> HIDE DEF E, c
  <2> QED
    BY <1>1, <1>5, <1>6, AllNaturals
<1>8. W(c + 1) = W(c)
  <2> SUFFICES ASSUME Cardinality(W(c)) >= c + 1 PROVE W(c + 1) = W(c)
    BY <1>7
  <2>1. W(c) \in SUBSET all /\ W(c + 1) \subseteq all /\ W(c) \subseteq W(c + 1)
    <3>1. c + 1 \in Nat
      BY <1>1
    <3> HIDE DEF c
    <3> QED
      BY <1>1, <1>2, <3>1
  <2>2. Cardinality(W(c)) \in Nat /\ Cardinality(W(c)) <= Cardinality(all)
    <3> HIDE DEF c, all
    <3> QED
      BY <1>1, <1>3, <2>1, FS_Subset
  <2>3. Cardinality(W(c)) = Cardinality(all)
    BY <1>1, <2>2
  <2>4. W(c) = all
    <3> HIDE DEF all, c
    <3> QED
      BY <1>1, <2>1, <2>3, FS_Subset
  <2> QED
    BY <2>1, <2>4
<1>9. Ancestry(approves, stored, u) = W(c)
  BY DEF Ancestry, W
<1> HIDE DEF c
<1>10. \A v \in W(c) : approves[v] \cap stored \subseteq W(c)
  <2>1. W(c) = {u} \cup (stored \cap UNION {approves[v] : v \in W(c)})
    BY <1>1, <1>2, <1>8
  <2> QED
    BY <2>1
<1>11. ASSUME NEW n \in Nat PROVE W(n) \subseteq W(c)
  <2> DEFINE F == {k \in Nat : W(c + k) = W(c)}
  <2>1. 0 \in F
    BY <1>1
  <2>2. ASSUME NEW k \in Nat, k \in F PROVE k + 1 \in F
    <3>1. c + k \in Nat /\ (c + k) + 1 = c + (k + 1)
      BY <1>1
    <3>2. W((c + k) + 1) = {u} \cup (stored \cap UNION {approves[v] : v \in W(c + k)})
      BY <1>2, <3>1
    <3>3. W(c + 1) = {u} \cup (stored \cap UNION {approves[v] : v \in W(c)})
      BY <1>1, <1>2
    <3>4. W(c + k) = W(c)
      BY <2>2
    <3>5. W(c + (k + 1)) = W(c)
      BY <1>8, <3>1, <3>2, <3>3, <3>4
    <3> QED
      BY <3>5
  <2>3. n \in F
    <3> HIDE DEF F
    <3> QED
      BY <2>1, <2>2, AllNaturals
  <2>4. c + n \in Nat /\ n <= c + n
    BY <1>1
  <2>5. W(n) \subseteq W(c + n)
    BY <2>4, WithinGrows DEF W
  <2> QED
    BY <2>3, <2>5
<1> QED
  BY <1>1, <1>2, <1>9, <1>10, <1>11 DEF W, ClosedIn

(* It is the least closed set around u.                                    *)
LEMMA AncestryLeast ==
    ASSUME NEW approves, NEW stored, IsFiniteSet(stored), NEW u,
           NEW S, u \in S, ClosedIn(approves, stored, S)
    PROVE  Ancestry(approves, stored, u) \subseteq S
<1> DEFINE W(n) == Within(approves, stored, u, n)
           E == {n \in Nat : W(n) \subseteq S}
<1>1. /\ W(0) = {u}
      /\ \A n \in Nat : W(n + 1) = {u} \cup (stored \cap UNION {approves[v] : v \in W(n)})
  BY WithinSteps
<1> HIDE DEF W
<1>2. 0 \in E
  BY <1>1
<1>3. ASSUME NEW n \in Nat, n \in E PROVE n + 1 \in E
  BY <1>1, <1>3 DEF ClosedIn
<1>4. \A n \in Nat : n \in E
  <2> HIDE DEF E
  <2> QED
    BY <1>2, <1>3, AllNaturals
<1>5. Cardinality(stored) \in Nat
  BY FS_CardinalityType
<1> QED
  BY <1>4, <1>5 DEF Ancestry, W

(* More rows, more ancestors; and the ancestry of an ancestor belongs to   *)
(* the ancestry.                                                           *)
LEMMA AncestryMore ==
    ASSUME NEW approves, NEW more, IsFiniteSet(more), NEW stored \in SUBSET more, NEW u,
           NEW v \in Ancestry(approves, more, u)
    PROVE  Ancestry(approves, stored, v) \subseteq Ancestry(approves, more, u)
<1>1. IsFiniteSet(stored)
  BY FS_Subset
<1>2. ClosedIn(approves, more, Ancestry(approves, more, u))
  BY AncestryClosed
<1>3. ClosedIn(approves, stored, Ancestry(approves, more, u))
  BY <1>2 DEF ClosedIn
<1> QED
  BY <1>1, <1>3, AncestryLeast

(* A row nobody in the ancestry approves makes no difference to it.        *)
LEMMA AncestrySame ==
    ASSUME NEW approves, NEW stored, IsFiniteSet(stored), NEW u, NEW x,
           \A v \in stored \cup {u} : x \notin approves[v]
    PROVE  Ancestry(approves, stored \cup {x}, u) = Ancestry(approves, stored, u)
<1> DEFINE more == stored \cup {x}
<1>1. IsFiniteSet(more) /\ stored \in SUBSET more
  BY FS_AddElement
<1>2. Ancestry(approves, stored, u) \subseteq Ancestry(approves, more, u)
  <2>1. u \in Ancestry(approves, more, u)
    BY <1>1, AncestryClosed
  <2> HIDE DEF more
  <2> QED
    BY <1>1, <2>1, AncestryMore
<1>3. /\ u \in Ancestry(approves, stored, u)
      /\ ClosedIn(approves, stored, Ancestry(approves, stored, u))
      /\ Ancestry(approves, stored, u) \subseteq stored \cup {u}
  BY AncestryClosed
<1>4. ClosedIn(approves, more, Ancestry(approves, stored, u))
  BY <1>3 DEF ClosedIn
<1>5. Ancestry(approves, more, u) \subseteq Ancestry(approves, stored, u)
  <2> HIDE DEF more
  <2> QED
    BY <1>1, <1>3, <1>4, AncestryLeast
<1> QED
  BY <1>2, <1>5

(* The rows of a table are finitely many.                                  *)
LEMMA StoredFinite ==
    ASSUME NEW U, NEW t \in Tables(U)
    PROVE  IsFiniteSet(Stored(t)) /\ Stored(t) \subseteq U
<1>1. t.rows \in Seq(U)
  BY DEF Tables
<1>2. Len(t.rows) \in Nat /\ DOMAIN t.rows = 1 .. Len(t.rows)
  BY <1>1, LenProperties
<1>3. IsFiniteSet(1 .. Len(t.rows))
  BY <1>2, FS_Interval
<1>4. IsFiniteSet({t.rows[i] : i \in 1 .. Len(t.rows)})
  <2> DEFINE I == 1 .. Len(t.rows)
             R == {t.rows[i] : i \in I}
             f == [i \in I |-> t.rows[i]]
  <2>1. f \in Surjection(I, R)
    BY DEF Surjection
  <2> HIDE DEF f, R, I
  <2>2. IsFiniteSet(I)
    BY <1>3 DEF I
  <2>3. IsFiniteSet(R)
    BY <2>1, <2>2, FS_Surjection
  <2> QED
    BY <2>3 DEF R, I
<1>5. Stored(t) = {t.rows[i] : i \in 1 .. Len(t.rows)}
  BY <1>1, RangeEquality DEF Stored
<1> QED
  BY <1>1, <1>4, <1>5, ElementOfSeq

(* A walk of Hops is a chain of rows.                                      *)
LEMMA HopsAreChains ==
    ASSUME NEW approves, NEW stored, NEW u, NEW n \in Nat,
           NEW x \in Hops(approves, stored, u)[n]
    PROVE  \E c \in [1 .. n + 1 -> stored \cup {u}] :
              c[1] = u /\ c[n + 1] = x /\ \A i \in 1 .. n : c[i + 1] \in approves[c[i]]
<1> DEFINE hop == Hops(approves, stored, u)
           all == stored \cup {u}
           Chain(c, k, y) == /\ c \in [1 .. k + 1 -> all] /\ c[1] = u /\ c[k + 1] = y
                             /\ \A i \in 1 .. k : c[i + 1] \in approves[c[i]]
           E == {k \in Nat : \A y \in hop[k] : \E c : Chain(c, k, y)}
<1>1. /\ hop[0] = {u}
      /\ \A k \in Nat : hop[k + 1] = stored \cap UNION {approves[v] : v \in hop[k]}
  BY HopsSteps
<1> HIDE DEF hop
<1>2. 0 \in E
  <2>1. Chain([i \in 1 .. 1 |-> u], 0, u)
    OBVIOUS
  <2>2. \E c : Chain(c, 0, u)
    BY <2>1
  <2> HIDE DEF Chain
  <2> QED
    BY <1>1, <2>2
<1>3. ASSUME NEW k \in Nat, k \in E PROVE k + 1 \in E
  <2>1. ASSUME NEW y \in hop[k + 1] PROVE \E c : Chain(c, k + 1, y)
    <3>1. PICK v \in hop[k] : y \in approves[v] /\ y \in stored
      BY <1>1, <2>1
    <3>2. PICK c : Chain(c, k, v)
      BY <1>3, <3>1
    <3> DEFINE d == [i \in 1 .. (k + 1) + 1 |-> IF i = (k + 1) + 1 THEN y ELSE c[i]]
    <3>3. /\ \A i \in 1 .. (k + 1) + 1 : i = (k + 1) + 1 \/ i \in 1 .. k + 1
          /\ \A i \in 1 .. k + 1 : i \in 1 .. (k + 1) + 1 /\ i # (k + 1) + 1
          /\ \A i \in 1 .. k + 1 : i = k + 1 \/ (i \in 1 .. k /\ i + 1 \in 1 .. k + 1)
          /\ 1 \in 1 .. k + 1 /\ k + 1 \in 1 .. k + 1 /\ (k + 1) + 1 \in 1 .. (k + 1) + 1
      OBVIOUS
    <3>4. d[(k + 1) + 1] = y /\ \A i \in 1 .. k + 1 : d[i] = c[i]
      BY <3>3
    <3>5. d \in [1 .. (k + 1) + 1 -> all]
      <4>1. \A i \in 1 .. k + 1 : c[i] \in all
        BY <3>2
      <4>2. \A i \in 1 .. (k + 1) + 1 : d[i] \in all
        BY <3>1, <3>3, <3>4, <4>1
      <4> QED
        BY <4>2
    <3> HIDE DEF d
    <3>6. ASSUME NEW i \in 1 .. k + 1 PROVE d[i + 1] \in approves[d[i]]
      <4>1. CASE i = k + 1
        BY <3>1, <3>2, <3>3, <3>4, <4>1
      <4>2. CASE i \in 1 .. k /\ i + 1 \in 1 .. k + 1
        BY <3>2, <3>3, <3>4, <4>2
      <4> QED
        BY <3>3, <4>1, <4>2
    <3>7. d[1] = u
      BY <3>2, <3>3, <3>4
    <3>8. Chain(d, k + 1, y)
      BY <3>4, <3>5, <3>6, <3>7
    <3> HIDE DEF Chain
    <3> QED
      BY <3>8
  <2> HIDE DEF Chain
  <2> QED
    BY <2>1
<1>4. n \in E
  <2> HIDE DEF E
  <2> QED
    BY <1>2, <1>3, AllNaturals
<1>5. PICK c : Chain(c, n, x)
  BY <1>4 DEF hop
<1> QED
  BY <1>5

(* The chains of n rows that start at u, each approving the next.          *)
Chain(approves, all, u, n) ==
    {c \in [1 .. n -> all] : c[1] = u /\ \A i \in 1 .. n - 1 : c[i + 1] \in approves[c[i]]}

(* The walk as a chain of stored rows.                                     *)
LEMMA HopsChain ==
    ASSUME NEW approves, NEW stored, NEW u \in stored, NEW n \in Nat,
           Hops(approves, stored, u)[n] # {}
    PROVE  Chain(approves, stored, u, n + 1) # {}
<1>1. PICK x : x \in Hops(approves, stored, u)[n]
  OBVIOUS
<1>2. PICK c \in [1 .. n + 1 -> stored \cup {u}] :
          c[1] = u /\ c[n + 1] = x /\ \A i \in 1 .. n : c[i + 1] \in approves[c[i]]
  BY <1>1, HopsAreChains
<1>3. c \in [1 .. n + 1 -> stored]
  BY <1>2
<1>4. \A i \in 1 .. (n + 1) - 1 : i \in 1 .. n
  OBVIOUS
<1> QED
  BY <1>2, <1>3, <1>4 DEF Chain

(* A walk that does not end has not ended before.                          *)
LEMMA HopsEarlier ==
    ASSUME NEW approves, NEW stored, NEW u, NEW n \in Nat,
           Hops(approves, stored, u)[n] # {}, NEW m \in Nat, m <= n
    PROVE  Hops(approves, stored, u)[m] # {}
<1> DEFINE hop == Hops(approves, stored, u)
           E == {k \in Nat : k <= n => hop[n - k] # {}}
<1>1. \A k \in Nat : hop[k + 1] = stored \cap UNION {approves[v] : v \in hop[k]}
  BY HopsSteps
<1>2. 0 \in E
  OBVIOUS
<1> HIDE DEF hop
<1>3. ASSUME NEW k \in Nat, k \in E PROVE k + 1 \in E
  <2> SUFFICES ASSUME k + 1 <= n PROVE hop[n - (k + 1)] # {}
    OBVIOUS
  <2> DEFINE j == n - (k + 1)
  <2>1. j \in Nat /\ j + 1 = n - k /\ k <= n
    OBVIOUS
  <2>2. hop[j + 1] # {}
    BY <1>3, <2>1
  <2> HIDE DEF j
  <2>3. hop[j] # {}
    BY <1>1, <2>1, <2>2
  <2> QED
    BY <2>3 DEF j
<1>4. n - m \in Nat /\ n - m <= n /\ n - (n - m) = m
  OBVIOUS
<1>5. n - m \in E
  <2> HIDE DEF E
  <2> QED
    BY <1>2, <1>3, <1>4, AllNaturals
<1>6. hop[m] # {}
  BY <1>4, <1>5
<1> QED
  BY <1>6 DEF hop
(* Adding to a column leaves a column of naturals.                         *)
LEMMA CreditType ==
    ASSUME NEW U, NEW count \in [U -> Nat], NEW S, NEW w \in Nat
    PROVE  Credit(count, S, w) \in [U -> Nat]
BY DEF Credit

(* DagDatabase::push, away from its limits: the table keeps its type, the  *)
(* unit is stored, and the rows grow by that unit or not at all.           *)
LEMMA PushedInFullRows ==
    ASSUME NEW U, NEW approves, NEW self \in [U -> Nat],
           NEW t \in Tables(U), NEW u \in U
    PROVE  /\ PushedInFull(approves, self, t, u) \in Tables(U)
           /\ PushedInFull(approves, self, t, u).rows =
                  IF u \in Stored(t) THEN t.rows ELSE Append(t.rows, u)
           /\ Stored(PushedInFull(approves, self, t, u)) = Stored(t) \cup {u}
<1> DEFINE i == Inserted(approves, self, t, u)
           s == IF u \in Stored(t) THEN t ELSE i
           f == PushedInFull(approves, self, t, u)
<1>1. self[u] \in Nat
  OBVIOUS
<1>2. /\ t = [rows |-> t.rows, weight |-> t.weight, repeated |-> t.repeated]
      /\ t.rows \in Seq(U) /\ t.weight \in [U -> Nat] /\ t.repeated \in [U -> Nat]
  BY DEF Tables
<1>3. i = [rows     |-> Append(t.rows, u),
           weight   |-> Credit(t.weight, Ancestry(approves, Stored(t) \cup {u}, u), self[u]),
           repeated |-> t.repeated]
  <2>1. i = [t EXCEPT !.rows = Append(t.rows, u),
                      !.weight = Credit(t.weight, Ancestry(approves, Stored(t) \cup {u}, u), self[u])]
    BY DEF Inserted
  <2> QED
    BY <1>2, <2>1
<1>4. i \in Tables(U)
  <2>1. Credit(t.weight, Ancestry(approves, Stored(t) \cup {u}, u), self[u]) \in [U -> Nat]
    BY <1>1, <1>2, CreditType
  <2>2. Append(t.rows, u) \in Seq(U)
    BY <1>2, AppendProperties
  <2> HIDE DEF i
  <2> QED
    BY <1>2, <1>3, <2>1, <2>2 DEF Tables
<1>5. s \in Tables(U)
  BY <1>4
<1>6. f = [rows     |-> s.rows, weight |-> s.weight,
           repeated |-> Credit(s.repeated, Ancestry(approves, Stored(s), u), self[u])]
  <2> HIDE DEF s
  <2>1. s = [rows |-> s.rows, weight |-> s.weight, repeated |-> s.repeated]
    BY <1>5 DEF Tables
  <2>2. f = [s EXCEPT !.repeated = Credit(@, Ancestry(approves, Stored(s), u), self[u])]
    BY DEF PushedInFull, s
  <2> QED
    BY <2>1, <2>2
<1>7. f \in Tables(U)
  <2> HIDE DEF s
  <2>1. s.rows \in Seq(U) /\ s.weight \in [U -> Nat] /\ s.repeated \in [U -> Nat]
    BY <1>5 DEF Tables
  <2>2. Credit(s.repeated, Ancestry(approves, Stored(s), u), self[u]) \in [U -> Nat]
    BY <1>1, <2>1, CreditType
  <2> HIDE DEF f
  <2> QED
    BY <1>6, <2>1, <2>2 DEF Tables
<1>8. f.rows = IF u \in Stored(t) THEN t.rows ELSE Append(t.rows, u)
  BY <1>3, <1>6
<1>9. Stored(f) = Stored(t) \cup {u}
  BY <1>2, <1>8, AppendRange DEF Stored
<1> QED
  BY <1>7, <1>8, <1>9

----------------------------------------------------------------------------
(* One push.                                                               *)

(* The columns weight and repeated_weight.                                 *)
Counts(U) == [U -> Nat]

(* Adding to a column of a table leaves a column.                          *)
LEMMA CreditCounts ==
    ASSUME NEW U, NEW count \in Counts(U), NEW S, NEW self \in Counts(U), NEW u \in U
    PROVE  /\ Credit(count, S, self[u]) \in Counts(U)
           /\ \A v \in U : Credit(count, S, self[u])[v] = IF v \in S THEN count[v] + self[u] ELSE count[v]
BY DEF Credit, Counts

(* A table is its three columns.                                           *)
LEMMA TableFields ==
    ASSUME NEW U, NEW t \in Tables(U)
    PROVE  /\ t = [rows |-> t.rows, weight |-> t.weight, repeated |-> t.repeated]
           /\ t.rows \in Seq(U) /\ t.weight \in Counts(U) /\ t.repeated \in Counts(U)
BY DEF Tables, Counts

(* Three columns are a table.                                              *)
LEMMA FieldsTable ==
    ASSUME NEW U, NEW s \in Seq(U), NEW w \in Counts(U), NEW r \in Counts(U)
    PROVE  [rows |-> s, weight |-> w, repeated |-> r] \in Tables(U)
BY DEF Tables, Counts

(* The rows of the query are ancestors, and all of them if the limit       *)
(* allows.                                                                 *)
LEMMA QueryRowsIn ==
    ASSUME NEW approves, NEW stored, NEW u, NEW limit,
           NEW S \in QueryRows(approves, stored, u, limit)
    PROVE  /\ S \subseteq Ancestry(approves, stored, u)
           /\ Cardinality(Ancestry(approves, stored, u)) <= limit => S = Ancestry(approves, stored, u)
<1> DEFINE all == Ancestry(approves, stored, u)
<1>1. CASE Cardinality(all) <= limit
  BY <1>1 DEF QueryRows
<1>2. CASE ~(Cardinality(all) <= limit)
  <2>1. S \in SUBSET all
    BY <1>2 DEF QueryRows
  <2> QED
    BY <1>2, <2>1
<1> QED
  BY <1>1, <1>2

(* updateWeright: nothing for a unit that is not stored, else the rows of  *)
(* the query are credited in repeated_weight.                              *)
Queried(S, approves, limit, r, u) ==
    /\ u \notin Stored(r) => S = {}
    /\ u \in Stored(r) =>
          /\ S \subseteq Ancestry(approves, Stored(r), u)
          /\ Cardinality(Ancestry(approves, Stored(r), u)) <= limit =>
                S = Ancestry(approves, Stored(r), u)

(* What updateWeright leaves of a table t.                                 *)
IsUpdated(r, U, approves, self, limit, t, u) ==
    /\ r \in Tables(U)
    /\ r.rows = t.rows /\ Stored(r) = Stored(t) /\ r.weight = t.weight
    /\ \E S \in SUBSET Stored(r) :
          /\ r.repeated = Credit(t.repeated, S, self[u])
          /\ Queried(S, approves, limit, r, u)

(* Each outcome of updateWeright is of that form.                          *)
LEMMA UpdateWerightShape ==
    ASSUME NEW U, NEW approves, NEW self \in Counts(U), NEW limit,
           NEW t \in Tables(U), NEW u \in U,
           NEW r \in UpdateWeright(approves, self, limit, t, u)
    PROVE  IsUpdated(r, U, approves, self, limit, t, u)
<1>1. /\ t = [rows |-> t.rows, weight |-> t.weight, repeated |-> t.repeated]
      /\ t.rows \in Seq(U) /\ t.weight \in Counts(U) /\ t.repeated \in Counts(U)
  BY TableFields
<1>2. CASE u \notin Stored(t)
  <2>1. r = t
    BY <1>2 DEF UpdateWeright
  <2>2. t.repeated = Credit(t.repeated, {}, self[u])
    BY <1>1 DEF Credit, Counts
  <2> QED
    BY <1>2, <2>1, <2>2 DEF IsUpdated, Queried
<1>3. CASE u \in Stored(t)
  <2>1. PICK S \in QueryRows(approves, Stored(t), u, limit) :
            r = [t EXCEPT !.repeated = Credit(@, S, self[u])]
    BY <1>3 DEF UpdateWeright
  <2>2. S \subseteq Ancestry(approves, Stored(t), u) /\ S \in SUBSET Stored(t)
    <3>1. Ancestry(approves, Stored(t), u) \subseteq Stored(t) \cup {u}
      BY StoredFinite, AncestryClosed
    <3>2. S \subseteq Ancestry(approves, Stored(t), u)
      BY <2>1, QueryRowsIn
    <3> QED
      BY <1>3, <3>1, <3>2
  <2>3. Cardinality(Ancestry(approves, Stored(t), u)) <= limit => S = Ancestry(approves, Stored(t), u)
    BY <2>1, QueryRowsIn
  <2>4. r = [rows |-> t.rows, weight |-> t.weight, repeated |-> Credit(t.repeated, S, self[u])]
    BY <1>1, <2>1
  <2>5. Credit(t.repeated, S, self[u]) \in Counts(U)
    BY <1>1, CreditCounts
  <2>6. r \in Tables(U)
    BY <1>1, <2>4, <2>5, FieldsTable
  <2>7. r.rows = t.rows /\ r.weight = t.weight /\ r.repeated = Credit(t.repeated, S, self[u])
    BY <2>4
  <2>8. Stored(r) = Stored(t)
    BY <2>7 DEF Stored
  <2> QED
    BY <1>3, <2>2, <2>3, <2>6, <2>7, <2>8 DEF IsUpdated, Queried
<1> QED
  BY <1>2, <1>3

(* The INSERT with its triggers: one row more.                             *)
IsInserted(r, U, approves, self, t, u) ==
    /\ r \in Tables(U)
    /\ r.rows = Append(t.rows, u)
    /\ r.weight = Credit(t.weight, Ancestry(approves, Stored(t) \cup {u}, u), self[u])
    /\ r.repeated = t.repeated
    /\ Stored(r) = Stored(t) \cup {u}

(* The INSERT leaves a table of that form.                                 *)
LEMMA InsertedShape ==
    ASSUME NEW U, NEW approves, NEW self \in Counts(U), NEW t \in Tables(U), NEW u \in U
    PROVE  IsInserted(Inserted(approves, self, t, u), U, approves, self, t, u)
<1> DEFINE i == Inserted(approves, self, t, u)
           A == Ancestry(approves, Stored(t) \cup {u}, u)
           w == Credit(t.weight, A, self[u])
<1>1. /\ t = [rows |-> t.rows, weight |-> t.weight, repeated |-> t.repeated]
      /\ t.rows \in Seq(U) /\ t.weight \in Counts(U) /\ t.repeated \in Counts(U)
  BY TableFields
<1>2. i = [rows |-> Append(t.rows, u), weight |-> w, repeated |-> t.repeated]
  <2>1. i = [t EXCEPT !.rows = Append(t.rows, u), !.weight = w]
    BY DEF Inserted
  <2> HIDE DEF i, w
  <2> QED
    BY <1>1, <2>1
<1>3. w \in Counts(U)
  <2> HIDE DEF A
  <2> QED
    BY <1>1, CreditCounts
<1>4. Append(t.rows, u) \in Seq(U)
  BY <1>1, AppendProperties
<1> HIDE DEF i, w, A
<1>5. i \in Tables(U) /\ i.rows = Append(t.rows, u) /\ i.weight = w /\ i.repeated = t.repeated
  BY <1>1, <1>2, <1>3, <1>4, FieldsTable
<1>6. Stored(i) = Stored(t) \cup {u}
  BY <1>1, <1>5, AppendRange DEF Stored
<1> QED
  BY <1>5, <1>6 DEF i, w, A, IsInserted

(* What a push leaves: the rows and weights as they were, because the unit *)
(* is there or was lost, or one row more, with its weight passed on to its *)
(* ancestry; and then some rows credited in repeated_weight.               *)
IsPushed(r, U, approves, self, limit, depth, t, u) ==
    /\ r \in Tables(U)
    /\ \/ /\ r.rows = t.rows /\ Stored(r) = Stored(t) /\ r.weight = t.weight
          /\ u \in Stored(t) \/ MaybeTooDeep(approves, Stored(t) \cup {u}, u, depth)
       \/ /\ u \notin Stored(t)
          /\ r.rows = Append(t.rows, u)
          /\ Stored(r) = Stored(t) \cup {u}
          /\ r.weight = Credit(t.weight, Ancestry(approves, Stored(t) \cup {u}, u), self[u])
    /\ \E S \in SUBSET Stored(r) :
          /\ r.repeated = Credit(t.repeated, S, self[u])
          /\ Queried(S, approves, limit, r, u)

(* Each outcome of a push is of that form.                                 *)
LEMMA PushedShape ==
    ASSUME NEW U, NEW approves, NEW self \in Counts(U), NEW limit, NEW depth,
           NEW t \in Tables(U), NEW u \in U,
           NEW r \in Pushed(approves, self, limit, depth, t, u)
    PROVE  IsPushed(r, U, approves, self, limit, depth, t, u)
<1> DEFINE i == Inserted(approves, self, t, u)
           Query(s) == UpdateWeright(approves, self, limit, s, u)
<1>1. \/ /\ r \in Query(t)
         /\ u \in Stored(t) \/ MaybeTooDeep(approves, Stored(t) \cup {u}, u, depth)
      \/ r \in Query(i) /\ u \notin Stored(t)
  BY DEF Pushed
<1>2. CASE r \in Query(t) /\ (u \in Stored(t) \/ MaybeTooDeep(approves, Stored(t) \cup {u}, u, depth))
  <2>1. IsUpdated(r, U, approves, self, limit, t, u)
    BY <1>2, UpdateWerightShape
  <2> QED
    BY <1>2, <2>1 DEF IsUpdated, IsPushed
<1>3. CASE r \in Query(i) /\ u \notin Stored(t)
  <2>1. IsInserted(i, U, approves, self, t, u)
    BY InsertedShape
  <2> HIDE DEF i
  <2>2. i \in Tables(U)
    BY <2>1 DEF IsInserted
  <2>3. IsUpdated(r, U, approves, self, limit, i, u)
    BY <1>3, <2>2, UpdateWerightShape
  <2> QED
    BY <1>3, <2>1, <2>3, Zenon DEF IsUpdated, IsInserted, IsPushed
<1> QED
  BY <1>1, <1>2, <1>3

(* Units pushed in turn into a table b.                                    *)
InTurn(f, U, approves, self, limit, depth, b, s) ==
    f = [n \in 0 .. Len(s) |->
            IF n = 0 THEN {b}
            ELSE UNION {Pushed(approves, self, limit, depth, t, s[n]) : t \in f[n-1]}]

(* The table a database begins with.                                       *)
LEMMA EmptyTableType == ASSUME NEW U PROVE EmptyTable(U) \in Tables(U)
BY EmptySeq DEF EmptyTable, Tables

(* The tables that pushes in turn leave are a function of their number.    *)
LEMMA InTurnExists ==
    ASSUME NEW U, NEW approves, NEW self \in Counts(U), NEW limit, NEW depth,
           NEW b \in Tables(U), NEW s \in Seq(U)
    PROVE  \E f : InTurn(f, U, approves, self, limit, depth, b, s)
<1> DEFINE T == SUBSET Tables(U)
           a == {b}
           Next1(n, X) == UNION {Pushed(approves, self, limit, depth, t, s[n]) : t \in X}
           G == [n \in Nat |-> [X \in T |-> IF n + 1 \in 1 .. Len(s) THEN Next1(n + 1, X) ELSE X]]
<1>1. Len(s) \in Nat /\ \A n \in 1 .. Len(s) : s[n] \in U
  BY LenProperties, ElementOfSeq
<1>2. ASSUME NEW n \in 1 .. Len(s), NEW X \in T PROVE Next1(n, X) \in T
  <2>1. s[n] \in U
    BY <1>1
  <2>2. ASSUME NEW t \in X, NEW r \in Pushed(approves, self, limit, depth, t, s[n]) PROVE r \in Tables(U)
    <3>1. t \in Tables(U)
      OBVIOUS
    <3> QED
      BY <2>1, <2>2, <3>1, PushedShape DEF IsPushed
  <2> QED
    BY <2>2
<1> HIDE DEF Next1
<1>3. a \in T /\ G \in StepMaps(T)
  <2>1. a \in T
    OBVIOUS
  <2> HIDE DEF T, a
  <2>2. \A n \in Nat : \A X \in T : (IF n + 1 \in 1 .. Len(s) THEN Next1(n + 1, X) ELSE X) \in T
    BY <1>2
  <2> QED
    BY <2>1, <2>2 DEF StepMaps
<1>4. PICK g : Follows(g, T, a, G)
  <2> HIDE DEF T, a, G
  <2> QED
    BY <1>3, Recursion
<1> DEFINE f == [n \in 0 .. Len(s) |-> g[n]]
<1>5. ASSUME NEW n \in 1 .. Len(s) PROVE f[n] = Next1(n, f[n - 1])
  <2>1. /\ n - 1 \in Nat /\ n - 1 \in 0 .. Len(s) /\ n \in 0 .. Len(s)
        /\ (n - 1) + 1 = n
    BY <1>1
  <2>2. g[n] = G[n - 1][g[n - 1]] /\ g[n - 1] \in T
    <3> HIDE DEF T, a, G
    <3> QED
      BY <1>4, <2>1 DEF Follows
  <2> HIDE DEF T
  <2>3. G[n - 1][g[n - 1]] = Next1(n, g[n - 1])
    BY <2>1, <2>2
  <2> QED
    BY <2>1, <2>2, <2>3
<1>6. 0 \in 0 .. Len(s) /\ \A n \in 0 .. Len(s) : n # 0 => n \in 1 .. Len(s)
  BY <1>1
<1>7. f[0] = a
  <2> HIDE DEF T, a, G
  <2> QED
    BY <1>4, <1>6 DEF Follows
<1>8. f = [n \in 0 .. Len(s) |-> IF n = 0 THEN a ELSE Next1(n, f[n - 1])]
  <2>1. \A n \in 0 .. Len(s) : f[n] = IF n = 0 THEN a ELSE Next1(n, f[n - 1])
    <3> HIDE DEF f, a
    <3> QED
      BY <1>5, <1>6, <1>7
  <2>2. f = [n \in 0 .. Len(s) |-> f[n]]
    OBVIOUS
  <2> HIDE DEF f, a
  <2> QED
    BY <2>1, <2>2
<1>9. InTurn(f, U, approves, self, limit, depth, b, s)
  BY <1>8 DEF InTurn, Next1
<1> QED
  BY <1>9

(* The unit is stored, with the columns as they are called from here on.   *)
LEMMA PushedInFullStores ==
    ASSUME NEW U, NEW approves, NEW self \in Counts(U), NEW t \in Tables(U), NEW u \in U
    PROVE  /\ PushedInFull(approves, self, t, u) \in Tables(U)
           /\ Stored(PushedInFull(approves, self, t, u)) = Stored(t) \cup {u}
<1> DEFINE r == PushedInFull(approves, self, t, u)
<1>1. self \in [U -> Nat]
  BY DEF Counts
<1>2. /\ r \in Tables(U)
      /\ r.rows = IF u \in Stored(t) THEN t.rows ELSE Append(t.rows, u)
      /\ Stored(r) = Stored(t) \cup {u}
  BY <1>1, PushedInFullRows
<1> QED
  BY <1>2

(* Units pushed in turn into an empty table, away from the limits.         *)
InTurnInFull(f, U, approves, self, s) ==
    f = [n \in 0 .. Len(s) |->
            IF n = 0 THEN EmptyTable(U) ELSE PushedInFull(approves, self, f[n-1], s[n])]

(* The table such pushes leave is a function of their number.              *)
LEMMA InTurnInFullExists ==
    ASSUME NEW U, NEW approves, NEW self \in Counts(U), NEW s \in Seq(U)
    PROVE  \E f : InTurnInFull(f, U, approves, self, s)
<1> DEFINE T == Tables(U)
           a == EmptyTable(U)
           Next1(n, t) == PushedInFull(approves, self, t, s[n])
           G == [n \in Nat |-> [t \in T |-> IF n + 1 \in 1 .. Len(s) THEN Next1(n + 1, t) ELSE t]]
<1>1. Len(s) \in Nat /\ \A n \in 1 .. Len(s) : s[n] \in U
  BY LenProperties, ElementOfSeq
<1>2. ASSUME NEW n \in 1 .. Len(s), NEW t \in T PROVE Next1(n, t) \in T
  BY <1>1, PushedInFullRows DEF Counts
<1> HIDE DEF Next1
<1>3. a \in T /\ G \in StepMaps(T)
  <2>1. a \in T
    BY EmptyTableType
  <2> HIDE DEF T, a
  <2>2. \A n \in Nat : \A t \in T : (IF n + 1 \in 1 .. Len(s) THEN Next1(n + 1, t) ELSE t) \in T
    BY <1>2
  <2> QED
    BY <2>1, <2>2 DEF StepMaps
<1>4. PICK g : Follows(g, T, a, G)
  <2> HIDE DEF T, a, G
  <2> QED
    BY <1>3, Recursion
<1> DEFINE f == [n \in 0 .. Len(s) |-> g[n]]
<1>5. ASSUME NEW n \in 1 .. Len(s) PROVE f[n] = Next1(n, f[n - 1])
  <2>1. /\ n - 1 \in Nat /\ n - 1 \in 0 .. Len(s) /\ n \in 0 .. Len(s)
        /\ (n - 1) + 1 = n
    BY <1>1
  <2>2. g[n] = G[n - 1][g[n - 1]] /\ g[n - 1] \in T
    <3> HIDE DEF T, a, G
    <3> QED
      BY <1>4, <2>1 DEF Follows
  <2> HIDE DEF T
  <2>3. G[n - 1][g[n - 1]] = Next1(n, g[n - 1])
    BY <2>1, <2>2
  <2> QED
    BY <2>1, <2>2, <2>3
<1>6. 0 \in 0 .. Len(s) /\ \A n \in 0 .. Len(s) : n # 0 => n \in 1 .. Len(s)
  BY <1>1
<1>7. f[0] = a
  <2> HIDE DEF T, a, G
  <2> QED
    BY <1>4, <1>6 DEF Follows
<1>8. f = [n \in 0 .. Len(s) |-> IF n = 0 THEN a ELSE Next1(n, f[n - 1])]
  <2>1. \A n \in 0 .. Len(s) : f[n] = IF n = 0 THEN a ELSE Next1(n, f[n - 1])
    <3> HIDE DEF f, a
    <3> QED
      BY <1>5, <1>6, <1>7
  <2>2. f = [n \in 0 .. Len(s) |-> f[n]]
    OBVIOUS
  <2> HIDE DEF f, a
  <2> QED
    BY <2>1, <2>2
<1>9. InTurnInFull(f, U, approves, self, s)
  BY <1>8 DEF InTurnInFull, Next1
<1> QED
  BY <1>9

(* DagDatabase::pushAllUnit, away from the limits: what is pushed, and     *)
(* nothing else, is stored.                                                *)
LEMMA LoadedInFullStores ==
    ASSUME NEW U, NEW approves, NEW self \in Counts(U), NEW s \in Seq(U)
    PROVE  /\ LoadedInFull(U, approves, self, s) \in Tables(U)
           /\ Stored(LoadedInFull(U, approves, self, s)) = Range(s)
<1> DEFINE InT(f) == InTurnInFull(f, U, approves, self, s)
           f == CHOOSE f : InT(f)
           First(n) == {s[k] : k \in 1 .. n}
           G == {n \in Nat : n <= Len(s) => f[n] \in Tables(U) /\ Stored(f[n]) = First(n)}
<1>1. Len(s) \in Nat /\ \A n \in 1 .. Len(s) : s[n] \in U
  BY LenProperties, ElementOfSeq
<1>0. \A t \in Tables(U), u \in U :
         LET r == PushedInFull(approves, self, t, u)
         IN  r \in Tables(U) /\ Stored(r) = Stored(t) \cup {u}
  BY PushedInFullStores
<1>2. InT(f)
  <2>1. \E g : InT(g)
    BY InTurnInFullExists
  <2> HIDE DEF InT
  <2> QED
    BY <2>1
<1>3. LoadedInFull(U, approves, self, s) = f[Len(s)]
  BY Zenon DEF LoadedInFull, InTurnInFull
<1> HIDE DEF f
<1>4. /\ f[0] = EmptyTable(U)
      /\ \A n \in 1 .. Len(s) : f[n] = PushedInFull(approves, self, f[n - 1], s[n])
  <2>1. 0 \in 0 .. Len(s) /\ \A n \in 1 .. Len(s) : n \in 0 .. Len(s) /\ n # 0
    BY <1>1
  <2>2. \A n \in 0 .. Len(s) : f[n] =
            IF n = 0 THEN EmptyTable(U) ELSE PushedInFull(approves, self, f[n - 1], s[n])
    BY <1>2 DEF InTurnInFull
  <2> QED
    BY <2>1, <2>2, Zenon
<1>5. 0 \in G
  <2>1. EmptyTable(U) \in Tables(U)
    BY EmptyTableType
  <2>2. Stored(EmptyTable(U)) = {}
    BY DEF EmptyTable, Stored, Range
  <2>3. First(0) = {}
    OBVIOUS
  <2> QED
    BY <1>4, <2>1, <2>2, <2>3
<1>6. ASSUME NEW n \in Nat, n \in G PROVE n + 1 \in G
  <2> SUFFICES ASSUME n + 1 <= Len(s)
               PROVE  f[n + 1] \in Tables(U) /\ Stored(f[n + 1]) = First(n + 1)
    OBVIOUS
  <2>1. n + 1 \in 1 .. Len(s) /\ n <= Len(s) /\ (n + 1) - 1 = n /\ s[n + 1] \in U
    BY <1>1
  <2>2. f[n] \in Tables(U) /\ Stored(f[n]) = First(n)
    BY <1>6, <2>1
  <2>3. f[n + 1] = PushedInFull(approves, self, f[n], s[n + 1])
    BY <1>4, <2>1
  <2>4. f[n + 1] \in Tables(U) /\ Stored(f[n + 1]) = Stored(f[n]) \cup {s[n + 1]}
    BY <1>0, <2>1, <2>2, <2>3, Zenon
  <2>5. First(n + 1) = First(n) \cup {s[n + 1]}
    <3>1. 1 .. n + 1 = (1 .. n) \cup {n + 1}
      OBVIOUS
    <3> QED
      BY <3>1
  <2> QED
    BY <2>2, <2>4, <2>5
<1>7. Len(s) \in G
  <2> HIDE DEF G
  <2> QED
    BY <1>1, <1>5, <1>6, AllNaturals
<1>8. First(Len(s)) = Range(s)
  BY RangeEquality
<1> QED
  BY <1>1, <1>3, <1>7, <1>8

(* When no walk is too long for the triggers, they reach all.              *)
LEMMA DeepEnough ==
    ASSUME NEW approves, NEW stored, IsFiniteSet(stored), NEW u, NEW depth \in Nat \ {0, 1},
           ~MaybeTooDeep(approves, stored, u, depth)
    PROVE  ~SurelyTooDeep(approves, stored, u, depth)
<1> DEFINE hop == Hops(approves, stored, u)
           c == Cardinality(stored)
           d == depth - 2
<1>1. c \in Nat /\ d \in Nat
  BY FS_CardinalityType
<1>2. \A n \in 0 .. c : n + 2 > depth => hop[n] = {}
  BY DEF MaybeTooDeep
<1>3. \A n \in 0 .. c : n \in 0 .. d \/ hop[n] = {}
  BY <1>1, <1>2
<1>4. Ancestry(approves, stored, u) \subseteq Within(approves, stored, u, d)
  <2> HIDE DEF hop, c, d
  <2>1. UNION {hop[k] : k \in 0 .. c} \subseteq UNION {hop[k] : k \in 0 .. d}
    BY <1>3
  <2> QED
    BY <2>1 DEF Ancestry, Within, hop, c
<1>5. Within(approves, stored, u, d) \subseteq Ancestry(approves, stored, u)
  <2> HIDE DEF d
  <2> QED
    BY <1>1, AncestryClosed
<1>6. Ancestry(approves, stored, u) = Within(approves, stored, u, d)
  BY <1>4, <1>5
<1> QED
  BY <1>6 DEF SurelyTooDeep

(* Where neither limit concerns a push, it has one outcome, and that is    *)
(* the table Dag goes on with: the LIMIT of the query and the depth of the *)
(* triggers are all that Dag's push leaves out (database.cpp:222-443).     *)
THEOREM PushedWithinLimits ==
    ASSUME NEW U, NEW approves, NEW self \in Counts(U), NEW limit, NEW depth \in Nat \ {0, 1},
           NEW t \in Tables(U), NEW u \in U,
           Cardinality(Ancestry(approves, Stored(t) \cup {u}, u)) <= limit,
           ~MaybeTooDeep(approves, Stored(t) \cup {u}, u, depth)
    PROVE  Pushed(approves, self, limit, depth, t, u) = {PushedInFull(approves, self, t, u)}
<1> DEFINE stored == Stored(t) \cup {u}
           A == Ancestry(approves, stored, u)
           i == Inserted(approves, self, t, u)
           s == IF u \in Stored(t) THEN t ELSE i
<1>1. Stored(i) = stored
  <2>1. IsInserted(i, U, approves, self, t, u)
    BY InsertedShape
  <2> QED
    BY <2>1 DEF IsInserted
<1>2. Stored(s) = stored
  BY <1>1
<1>3. IsFiniteSet(stored)
  <2> DEFINE S == Stored(t)
  <2>1. IsFiniteSet(S)
    BY StoredFinite
  <2> HIDE DEF S
  <2>2. IsFiniteSet(S \cup {u})
    BY <2>1, FS_AddElement
  <2> QED
    BY <2>2 DEF S
<1>4. ~SurelyTooDeep(approves, stored, u, depth)
  <2> HIDE DEF stored
  <2>1. ~MaybeTooDeep(approves, stored, u, depth)
    BY DEF stored
  <2> QED
    BY <1>3, <2>1, DeepEnough
<1>5. Pushed(approves, self, limit, depth, t, u) = UpdateWeright(approves, self, limit, s, u)
  BY <1>4 DEF Pushed
<1>6. QueryRows(approves, stored, u, limit) = {A}
  BY DEF QueryRows
<1>7. UpdateWeright(approves, self, limit, s, u) = {[s EXCEPT !.repeated = Credit(@, A, self[u])]}
  <2>1. u \in Stored(s)
    BY <1>2
  <2> HIDE DEF s, A, stored
  <2> QED
    BY <1>2, <1>6, <2>1 DEF UpdateWeright
<1>8. PushedInFull(approves, self, t, u) = [s EXCEPT !.repeated = Credit(@, A, self[u])]
  BY <1>2 DEF PushedInFull
<1> QED
  BY <1>5, <1>7, <1>8
=============================================================================

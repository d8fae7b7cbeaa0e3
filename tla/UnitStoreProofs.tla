--------------------------- MODULE UnitStoreProofs ---------------------------
(***************************************************************************)
(* Proofs about UnitStore.  The inductive invariant says of the table what *)
(* the invariants of UnitStore say of it, and what they rest on: a unit is *)
(* stored once, a unit that is not stored has no weight, and each row of   *)
(* the table cost a push.  It is stated of any table that pushes leave, so *)
(* that it also holds of the tables between the pushes of one pushAllUnit. *)
(***************************************************************************)
EXTENDS UnitStore, UnitTableProofs

----------------------------------------------------------------------------
(* The invariants of UnitStore, of any table and any shape of the DAG.     *)

(* The row at place j led to the one at place i when it was stored.        *)
LedIn(tips, rows, j, i) ==
    \A S \in SUBSET (1 .. j) :
        /\ j \in S
        /\ \A m \in S, k \in 1 .. j : rows[k] \in tips[rows[m]] => k \in S
        => i \in S

(* The places of the rows whose self weight the row at place i has.        *)
Behind(tips, rows, i) == {j \in i .. Len(rows) : j = i \/ LedIn(tips, rows, j, i)}

(* The self weight of the row at a place.                                  *)
SelfAt(rows) == [j \in DOMAIN rows |-> SelfWeight[rows[j]]]

(* WeightMeaning.                                                          *)
Means(tips, t) ==
    \A i \in DOMAIN t.rows :
        t.weight[t.rows[i]] = SumOver(Behind(tips, t.rows, i), SelfAt(t.rows))

(* InOrder.                                                                *)
Ordered(tips, rows) ==
    \A i, j \in DOMAIN rows : rows[i] \in tips[rows[j]] => i < j

(* WeightChecked.                                                          *)
Checked(tips, t) ==
    \A u \in Stored(t) :
        /\ t.weight[u] <= SumOver(Approvers(tips, Stored(t), u), SelfWeight)
        /\ Ordered(tips, t.rows) =>
              t.weight[u] = SumOver(Approvers(tips, Stored(t), u), SelfWeight)

(* No ancestry exceeds the LIMIT of the query.                             *)
Short(tips, t) ==
    \A u \in Stored(t) : Cardinality(Ancestry(tips, Stored(t), u)) <= QueryLimit

(* RepeatedAgrees and RepeatedFallsShort, for pushes that each added a     *)
(* row.                                                                    *)
Repeats(tips, t) ==
    /\ \A u \in Unit : t.repeated[u] <= t.weight[u]
    /\ Short(tips, t) => t.repeated = t.weight

(* A unit that is not stored has no weight.                                *)
Blank(t) == \A u \in Unit \ Stored(t) : t.weight[u] = 0 /\ t.repeated[u] = 0

(* A table that p pushes may have left.                                    *)
Sound(tips, t, p) ==
    /\ t \in Tables(Unit)
    /\ IsInjective(t.rows)
    /\ Blank(t)
    /\ Len(t.rows) <= p
    /\ Means(tips, t)
    /\ Checked(tips, t)
    /\ p = Len(t.rows) => Repeats(tips, t)

(* The inductive invariant.                                                *)
IInv == TypeOK /\ Sound(approves, table, pushes)

----------------------------------------------------------------------------
(* One row more.                                                           *)

(* A unit that was not there is stored once.                               *)
Adds(t, u, rows) ==
    /\ rows \in Seq(Unit)
    /\ Len(t.rows) \in Nat /\ DOMAIN t.rows = 1 .. Len(t.rows)
    /\ Len(rows) = Len(t.rows) + 1 /\ DOMAIN rows = 1 .. Len(t.rows) + 1
    /\ \A j \in 1 .. Len(t.rows) : rows[j] = t.rows[j] /\ rows[j] \in Unit
    /\ rows[Len(t.rows) + 1] = u
    /\ Stored(t) = {t.rows[j] : j \in 1 .. Len(t.rows)}
    /\ Stored(t) \cup {u} = {rows[j] : j \in 1 .. Len(t.rows) + 1}
    /\ IsInjective(rows)

(* The new row takes the place behind the others.                          *)
LEMMA AppendPlaces ==
    ASSUME NEW t \in Tables(Unit), IsInjective(t.rows), NEW u \in Unit, u \notin Stored(t),
           NEW rows, rows = Append(t.rows, u)
    PROVE  Adds(t, u, rows)
<1> DEFINE n == Len(t.rows)
<1>1. t.rows \in Seq(Unit)
  BY TableFields
<1>2. n \in Nat /\ DOMAIN t.rows = 1 .. n /\ \A j \in 1 .. n : t.rows[j] \in Unit
  BY <1>1, LenProperties, ElementOfSeq
<1>3. rows \in Seq(Unit) /\ Len(rows) = n + 1 /\ rows[n + 1] = u
      /\ \A j \in 1 .. n : rows[j] = t.rows[j]
  BY <1>1, AppendProperties
<1>4. DOMAIN rows = 1 .. n + 1
  BY <1>3, LenProperties
<1>5. Stored(t) = {t.rows[j] : j \in 1 .. n}
  BY <1>1, RangeEquality DEF Stored
<1> HIDE DEF n
<1>6. \A j \in 1 .. n + 1 : j \in 1 .. n \/ j = n + 1
  BY <1>2
<1>7. n + 1 \in 1 .. n + 1 /\ 1 .. n \subseteq 1 .. n + 1
  BY <1>2
<1>8. Stored(t) \cup {u} = {rows[j] : j \in 1 .. n + 1}
  <2>1. ASSUME NEW x \in Stored(t) \cup {u} PROVE x \in {rows[j] : j \in 1 .. n + 1}
    BY <1>3, <1>5, <1>7
  <2>2. ASSUME NEW j \in 1 .. n + 1 PROVE rows[j] \in Stored(t) \cup {u}
    BY <1>3, <1>5, <1>6
  <2> QED
    BY <2>1, <2>2
<1>9. IsInjective(rows)
  <2> SUFFICES ASSUME NEW a \in 1 .. n + 1, NEW b \in 1 .. n + 1, rows[a] = rows[b]
               PROVE  a = b
    BY <1>4 DEF IsInjective
  <2>1. CASE a \in 1 .. n /\ b \in 1 .. n
    BY <1>2, <1>3, <2>1 DEF IsInjective
  <2>2. \A j \in 1 .. n : rows[j] \in Stored(t)
    BY <1>3, <1>5
  <2> QED
    BY <1>3, <1>6, <2>1, <2>2
<1> QED
  BY <1>1, <1>2, <1>3, <1>4, <1>5, <1>8, <1>9 DEF n, Adds

(* Earlier rows still lead where they led; the new one leads to its        *)
(* ancestry.                                                               *)
LEMMA LedByLast ==
    ASSUME NEW tips, NEW t \in Tables(Unit), IsInjective(t.rows),
           NEW u \in Unit, u \notin Stored(t), NEW rows, rows = Append(t.rows, u)
    PROVE  /\ \A j \in 1 .. Len(t.rows), i \in 1 .. Len(t.rows) :
                 LedIn(tips, rows, j, i) <=> LedIn(tips, t.rows, j, i)
           /\ \A i \in 1 .. Len(t.rows) + 1 :
                 LedIn(tips, rows, Len(t.rows) + 1, i)
                     <=> rows[i] \in Ancestry(tips, Stored(t) \cup {u}, u)
<1> DEFINE n == Len(t.rows)
           all == Stored(t) \cup {u}
           A == Ancestry(tips, all, u)
<1>1. /\ n \in Nat
      /\ \A j \in 1 .. n : rows[j] = t.rows[j]
      /\ rows[n + 1] = u
      /\ all = {rows[j] : j \in 1 .. n + 1}
      /\ DOMAIN rows = 1 .. n + 1
      /\ IsInjective(rows)
  <2> HIDE DEF n, all
  <2>1. Adds(t, u, rows)
    BY AppendPlaces
  <2> QED
    BY <2>1, Zenon DEF Adds, n, all
<1>2. n + 1 \in 1 .. n + 1
  BY <1>1
<1>3. IsFiniteSet(all)
  BY StoredFinite, FS_AddElement
<1> HIDE DEF n, all
<1>4. u \in A /\ ClosedIn(tips, all, A)
  BY <1>3, AncestryClosed
<1>5. ASSUME NEW j \in 1 .. n, NEW i \in 1 .. n
      PROVE  LedIn(tips, rows, j, i) <=> LedIn(tips, t.rows, j, i)
  <2>1. \A k \in 1 .. j : rows[k] = t.rows[k]
    BY <1>1
  <2>2. ASSUME NEW S \in SUBSET (1 .. j)
        PROVE  (\A m \in S, k \in 1 .. j : rows[k] \in tips[rows[m]] => k \in S)
               <=> (\A m \in S, k \in 1 .. j : t.rows[k] \in tips[t.rows[m]] => k \in S)
    BY <2>1
  <2> QED
    BY <2>2 DEF LedIn
<1>6. ASSUME NEW i \in 1 .. n + 1, LedIn(tips, rows, n + 1, i) PROVE rows[i] \in A
  <2> DEFINE S == {k \in 1 .. n + 1 : rows[k] \in A}
  <2>1. S \in SUBSET (1 .. n + 1) /\ n + 1 \in S
    BY <1>1, <1>2, <1>4
  <2>2. \A m \in S, k \in 1 .. n + 1 : rows[k] \in tips[rows[m]] => k \in S
    BY <1>1, <1>4 DEF ClosedIn
  <2>3. i \in S
    <3> HIDE DEF S
    <3> QED
      BY <1>6, <2>1, <2>2 DEF LedIn
  <2> QED
    BY <2>3
<1>7. ASSUME NEW i \in 1 .. n + 1, rows[i] \in A PROVE LedIn(tips, rows, n + 1, i)
  <2> SUFFICES ASSUME NEW S \in SUBSET (1 .. n + 1), n + 1 \in S,
                      \A m \in S, k \in 1 .. n + 1 : rows[k] \in tips[rows[m]] => k \in S
               PROVE  i \in S
    BY DEF LedIn
  <2> DEFINE R == {rows[k] : k \in S}
  <2>1. u \in R
    BY <1>1
  <2>2. ClosedIn(tips, all, R)
    BY <1>1 DEF ClosedIn
  <2>3. A \subseteq R
    <3> HIDE DEF R
    <3> QED
      BY <1>3, <2>1, <2>2, AncestryLeast
  <2>4. PICK k \in S : rows[i] = rows[k]
    BY <1>7, <2>3
  <2> QED
    BY <1>1, <2>4 DEF IsInjective
<1> QED
  BY <1>5, <1>6, <1>7 DEF n, all

(* r is t after the INSERT of u and its triggers.                          *)
Inserts(tips, t, r, u) ==
    /\ u \notin Stored(t)
    /\ r.rows = Append(t.rows, u)
    /\ Stored(r) = Stored(t) \cup {u}
    /\ r.weight = Credit(t.weight, Ancestry(tips, Stored(t) \cup {u}, u), SelfWeight[u])

(* A column after the counts of the units in S got w more.                 *)
Credited(more, count, S, w) ==
    \A v \in Unit : more[v] = IF v \in S THEN count[v] + w ELSE count[v]

(* A column to which the weight is added is such a column.                 *)
LEMMA StoreCredit ==
    ASSUME NEW count \in Counts(Unit), NEW S, NEW u \in Unit
    PROVE  Credited(Credit(count, S, SelfWeight[u]), count, S, SelfWeight[u])
<1>1. count \in [Unit -> Nat] /\ SelfWeight \in [Unit -> Nat]
  BY StoreAssumption DEF Counts
<1> QED
  BY <1>1 DEF Credit, Credited

(* The weights keep their meaning.                                         *)
LEMMA AppendMeans ==
    ASSUME NEW tips, NEW t \in Tables(Unit), IsInjective(t.rows), Blank(t), Means(tips, t),
           NEW u \in Unit, NEW r, Inserts(tips, t, r, u)
    PROVE  Means(tips, r)
<1>0. /\ u \notin Stored(t) /\ r.rows = Append(t.rows, u)
      /\ r.weight = Credit(t.weight, Ancestry(tips, Stored(t) \cup {u}, u), SelfWeight[u])
  BY DEF Inserts
<1> DEFINE rows == r.rows
           n == Len(t.rows)
           A == Ancestry(tips, Stored(t) \cup {u}, u)
           w == SelfAt(t.rows)
           w2 == SelfAt(rows)
<1>1. /\ n \in Nat /\ DOMAIN t.rows = 1 .. n
      /\ Len(rows) = n + 1 /\ DOMAIN rows = 1 .. n + 1
      /\ \A j \in 1 .. n : rows[j] = t.rows[j] /\ rows[j] \in Unit
      /\ rows[n + 1] = u
  <2>1. Adds(t, u, rows)
    BY <1>0, AppendPlaces
  <2> QED
    BY <2>1, Zenon DEF Adds
<1>2. /\ \A j \in 1 .. n, i \in 1 .. n : LedIn(tips, rows, j, i) <=> LedIn(tips, t.rows, j, i)
      /\ \A i \in 1 .. n + 1 : LedIn(tips, rows, n + 1, i) <=> rows[i] \in A
  BY <1>0, LedByLast
<1>3. u \in A
  <2>1. IsFiniteSet(Stored(t) \cup {u})
    BY StoredFinite, FS_AddElement
  <2> QED
    BY <2>1, AncestryClosed
<1>4. \A v \in Unit : r.weight[v] = IF v \in A THEN t.weight[v] + SelfWeight[u] ELSE t.weight[v]
  <2>1. t.weight \in Counts(Unit) /\ r.weight = Credit(t.weight, A, SelfWeight[u])
    BY <1>0, TableFields
  <2> HIDE DEF A
  <2>2. Credited(r.weight, t.weight, A, SelfWeight[u])
    BY <2>1, StoreCredit
  <2> QED
    BY <2>2 DEF Credited
<1>5. t.weight[u] = 0 /\ SelfWeight[u] \in Nat
  BY <1>0, StoreAssumption DEF Blank
<1> HIDE DEF rows, n, A
<1>6. \A j \in 1 .. n : w2[j] = w[j] /\ w[j] \in Nat
  <2> SUFFICES ASSUME NEW j \in 1 .. n PROVE w2[j] = w[j] /\ w[j] \in Nat
    OBVIOUS
  <2>1. j \in DOMAIN t.rows /\ j \in DOMAIN rows /\ rows[j] = t.rows[j] /\ rows[j] \in Unit
    BY <1>1
  <2>2. w[j] = SelfWeight[t.rows[j]] /\ w2[j] = SelfWeight[rows[j]]
    BY <2>1 DEF SelfAt
  <2> QED
    BY <2>1, <2>2, StoreAssumption
<1>7. w2[n + 1] = SelfWeight[u]
  <2>1. n + 1 \in DOMAIN rows
    BY <1>1
  <2> QED
    BY <1>1, <2>1 DEF SelfAt
<1>8. \A i \in 1 .. n : Behind(tips, t.rows, i) \subseteq 1 .. n
  BY <1>1 DEF Behind, n
<1> SUFFICES ASSUME NEW i \in 1 .. n + 1
             PROVE  r.weight[rows[i]] = SumOver(Behind(tips, rows, i), w2)
  BY <1>1 DEF Means, rows
<1> HIDE DEF w, w2
<1>9. CASE i = n + 1
  <2>1. OneMore(Behind(tips, rows, i), {}, n + 1)
    BY <1>1, <1>9 DEF Behind, OneMore
  <2>2. SumOver(Behind(tips, rows, i), w2) = SumOver({}, w2) + w2[n + 1]
    <3> DEFINE last == n + 1
    <3>1. OneMore(Behind(tips, rows, i), {}, last) /\ w2[last] \in Nat
      BY <1>5, <1>7, <2>1
    <3> HIDE DEF last
    <3>2. IsFiniteSet({}) /\ \A j \in {} : w2[j] \in Nat
      BY FS_EmptySet
    <3>3. SumOver(Behind(tips, rows, i), w2) = SumOver({}, w2) + w2[last]
      BY <3>1, <3>2, SumOfOneMore
    <3> QED
      BY <3>3 DEF last
  <2>3. SumOver({}, w2) = 0
    BY SumOfNone
  <2> QED
    BY <1>1, <1>3, <1>4, <1>5, <1>7, <1>9, <2>1, <2>2, <2>3
<1>10. CASE i \in 1 .. n
  <2> DEFINE B == Behind(tips, t.rows, i)
  <2>1. IsFiniteSet(B) /\ n + 1 \notin B /\ B \subseteq 1 .. n
    <3>1. IsFiniteSet(1 .. n)
      BY <1>1, FS_Interval
    <3>2. B \subseteq 1 .. n
      BY <1>8, <1>10
    <3>3. n + 1 \notin 1 .. n
      BY <1>1
    <3> HIDE DEF B
    <3> QED
      BY <3>1, <3>2, <3>3, FS_Subset
  <2>2. Behind(tips, rows, i) = IF rows[i] \in A THEN B \cup {n + 1} ELSE B
    <3>1. \A j : j \in i .. n + 1 <=> j \in i .. n \/ j = n + 1
      BY <1>1, <1>10
    <3>2. \A j \in i .. n : j \in 1 .. n
      BY <1>1, <1>10
    <3>3. n + 1 # i /\ i \in 1 .. n + 1
      BY <1>1, <1>10
    <3>4. \A j : j \in B <=> j \in i .. n /\ (j = i \/ LedIn(tips, t.rows, j, i))
      BY DEF Behind, n
    <3>5. \A j : j \in Behind(tips, rows, i) <=> j \in i .. n + 1 /\ (j = i \/ LedIn(tips, rows, j, i))
      BY <1>1 DEF Behind
    <3> HIDE DEF B
    <3>6. \A j : j \in Behind(tips, rows, i) <=> j \in B \/ (j = n + 1 /\ rows[i] \in A)
      BY <1>2, <1>10, <3>1, <3>2, <3>3, <3>4, <3>5
    <3> QED
      BY <3>6
  <2>3. t.weight[t.rows[i]] = SumOver(B, w)
    BY <1>1, <1>10 DEF Means, w
  <2> HIDE DEF B
  <2>4. SumOver(B, w) = SumOver(B, w2)
    <3>1. \A j \in B : w[j] = w2[j] /\ w[j] \in Nat
      BY <1>6, <2>1
    <3> QED
      BY <2>1, <3>1, SumOfSame
  <2>5. ASSUME rows[i] \in A
        PROVE  SumOver(Behind(tips, rows, i), w2) = SumOver(B, w2) + w2[n + 1]
    <3>1. OneMore(Behind(tips, rows, i), B, n + 1)
      BY <2>1, <2>2, <2>5 DEF OneMore
    <3>2. \A j \in B : w2[j] \in Nat
      BY <1>6, <2>1
    <3>3. w2[n + 1] \in Nat
      BY <1>5, <1>7
    <3> DEFINE last == n + 1
    <3>4. OneMore(Behind(tips, rows, i), B, last) /\ w2[last] \in Nat
      BY <3>1, <3>3
    <3> HIDE DEF last
    <3>5. SumOver(Behind(tips, rows, i), w2) = SumOver(B, w2) + w2[last]
      BY <2>1, <3>2, <3>4, SumOfOneMore
    <3> QED
      BY <3>5 DEF last
  <2>6. ASSUME rows[i] \notin A PROVE SumOver(Behind(tips, rows, i), w2) = SumOver(B, w2)
    BY <2>2, <2>6
  <2>7. rows[i] \in Unit /\ t.weight[rows[i]] = SumOver(B, w2)
    BY <1>1, <1>10, <2>3, <2>4
  <2>8. r.weight[rows[i]] = IF rows[i] \in A THEN SumOver(B, w2) + w2[n + 1] ELSE SumOver(B, w2)
    BY <1>4, <1>7, <2>7
  <2> QED
    BY <2>5, <2>6, <2>8
<1> QED
  BY <1>1, <1>9, <1>10

(* check_weight still finds what it should.                                *)
LEMMA AppendChecked ==
    ASSUME NEW tips, NEW t \in Tables(Unit), IsInjective(t.rows), Blank(t), Checked(tips, t),
           NEW u \in Unit, NEW r, Inserts(tips, t, r, u)
    PROVE  Checked(tips, r)
<1>0. /\ u \notin Stored(t) /\ r.rows = Append(t.rows, u) /\ Stored(r) = Stored(t) \cup {u}
      /\ r.weight = Credit(t.weight, Ancestry(tips, Stored(t) \cup {u}, u), SelfWeight[u])
  BY DEF Inserts
<1> DEFINE st == Stored(t)
           st2 == Stored(r)
           A == Ancestry(tips, st2, u)
           App(v) == Approvers(tips, st, v)
           App2(v) == Approvers(tips, st2, v)
<1>1. IsFiniteSet(st) /\ st \subseteq Unit
  BY StoredFinite
<1>2. st2 = st \cup {u} /\ IsFiniteSet(st2) /\ st2 \subseteq Unit /\ st \in SUBSET st2 /\ u \notin st
  <2>1. IsFiniteSet(st \cup {u})
    BY <1>1, FS_AddElement
  <2> QED
    BY <1>0, <1>1, <2>1
<1>3. \A v \in Unit : r.weight[v] = IF v \in A THEN t.weight[v] + SelfWeight[u] ELSE t.weight[v]
  <2>1. t.weight \in Counts(Unit) /\ r.weight = Credit(t.weight, A, SelfWeight[u])
    BY <1>0, TableFields
  <2> HIDE DEF A
  <2>2. Credited(r.weight, t.weight, A, SelfWeight[u])
    BY <2>1, StoreCredit
  <2> QED
    BY <2>2 DEF Credited
<1>4. \A v \in Unit : SelfWeight[v] \in Nat /\ t.weight[v] \in Nat
  BY StoreAssumption, TableFields DEF Counts
<1>5. /\ Ordered(tips, r.rows) => Ordered(tips, t.rows)
      /\ Ordered(tips, r.rows) => \A d \in st : u \notin tips[d]
  <2> DEFINE n == Len(t.rows)
             rows == r.rows
  <2>1. /\ n \in Nat /\ DOMAIN t.rows = 1 .. n /\ DOMAIN rows = 1 .. n + 1
        /\ \A j \in 1 .. n : rows[j] = t.rows[j]
        /\ rows[n + 1] = u
        /\ st = {t.rows[j] : j \in 1 .. n}
    <3>1. Adds(t, u, r.rows)
      BY <1>0, AppendPlaces
    <3> QED
      BY <3>1, Zenon DEF Adds
  <2> HIDE DEF n, rows, st
  <2> SUFFICES ASSUME Ordered(tips, rows)
               PROVE  Ordered(tips, t.rows) /\ \A d \in st : u \notin tips[d]
    BY DEF rows
  <2>2. 1 .. n \subseteq 1 .. n + 1 /\ n + 1 \in 1 .. n + 1 /\ \A j \in 1 .. n : ~(n + 1 < j)
    BY <2>1
  <2>3. Ordered(tips, t.rows)
    BY <2>1, <2>2 DEF Ordered
  <2>4. \A d \in st : u \notin tips[d]
    BY <2>1, <2>2 DEF Ordered
  <2> QED
    BY <2>3, <2>4
<1> HIDE DEF st, st2
<1>6. \A d \in st : Ancestry(tips, st, d) \subseteq Ancestry(tips, st2, d)
  <2> SUFFICES ASSUME NEW d \in st PROVE Ancestry(tips, st, d) \subseteq Ancestry(tips, st2, d)
    OBVIOUS
  <2>1. d \in Ancestry(tips, st2, d)
    BY <1>2, AncestryClosed
  <2> QED
    BY <1>2, <2>1, AncestryMore
<1>7. ASSUME Ordered(tips, r.rows), NEW d \in st
      PROVE  Ancestry(tips, st2, d) = Ancestry(tips, st, d)
  <2>1. \A v \in st \cup {d} : u \notin tips[v]
    BY <1>5, <1>7
  <2> QED
    BY <1>1, <1>2, <2>1, AncestrySame
<1>8. u \in A
  BY <1>2, AncestryClosed
<1>9. \A v : App(v) \subseteq st /\ App2(v) \subseteq st2 /\ App(v) \subseteq App2(v)
  BY <1>2, <1>6 DEF Approvers
<1>10. \A v : u \in App2(v) <=> v \in A
  BY <1>2 DEF Approvers
<1>11. ASSUME NEW v \in st2
       PROVE  /\ IsFiniteSet(App(v)) /\ IsFiniteSet(App2(v))
              /\ u \notin App(v)
              /\ \A d \in App2(v) : SelfWeight[d] \in Nat
              /\ \A d \in App(v) : SelfWeight[d] \in Nat
              /\ SelfWeight[u] \in Nat
  <2>1. IsFiniteSet(App(v)) /\ IsFiniteSet(App2(v))
    BY <1>1, <1>2, <1>9, FS_Subset
  <2> QED
    BY <1>2, <1>4, <1>9, <2>1
<1> SUFFICES ASSUME NEW v \in st2
             PROVE  /\ r.weight[v] <= SumOver(App2(v), SelfWeight)
                    /\ Ordered(tips, r.rows) => r.weight[v] = SumOver(App2(v), SelfWeight)
  BY DEF Checked, st2
<1> HIDE DEF A
<1>12. CASE v = u
  <2>1. r.weight[v] = SelfWeight[u]
    <3>1. t.weight[u] = 0
      BY <1>0 DEF Blank
    <3>2. r.weight[u] = t.weight[u] + SelfWeight[u]
      BY <1>3, <1>8
    <3> QED
      BY <1>4, <1>12, <3>1, <3>2
  <2> DEFINE one == {u}
  <2>2. SumOver(one, SelfWeight) = SelfWeight[u]
    <3>1. OneMore(one, {}, u)
      BY DEF OneMore
    <3> HIDE DEF one
    <3>2. SumOver(one, SelfWeight) = SumOver({}, SelfWeight) + SelfWeight[u]
      BY <1>11, <3>1, SumOfOneMore, FS_EmptySet
    <3> QED
      BY <1>11, <3>2, SumOfNone
  <2>3. one \in SUBSET App2(v)
    BY <1>8, <1>10, <1>12
  <2>4. ASSUME Ordered(tips, r.rows) PROVE App2(v) = one
    <3>1. ASSUME NEW d \in st, u \in Ancestry(tips, st2, d) PROVE FALSE
      <4>1. Ancestry(tips, st, d) \subseteq st \cup {d}
        BY <1>1, AncestryClosed
      <4> QED
        BY <1>2, <1>7, <2>4, <3>1, <4>1
    <3> QED
      BY <1>2, <1>12, <2>3, <3>1 DEF Approvers
  <2> HIDE DEF one, App2
  <2>5. SumOver(one, SelfWeight) <= SumOver(App2(v), SelfWeight)
    BY <1>11, <2>3, SumOfSome
  <2> QED
    BY <2>1, <2>2, <2>4, <2>5
<1>13. CASE v \in st /\ v \in A
  <2> DEFINE more == App(v) \cup {u}
  <2>1. SumOver(App(v), SelfWeight) \in Nat
        /\ SumOver(more, SelfWeight) = SumOver(App(v), SelfWeight) + SelfWeight[u]
    <3>1. OneMore(more, App(v), u)
      BY <1>11, <1>13 DEF OneMore
    <3> HIDE DEF more, App
    <3> QED
      BY <1>11, <3>1, SumOfOneMore
  <2>2. more \in SUBSET App2(v)
    BY <1>9, <1>10, <1>13
  <2>3. ASSUME Ordered(tips, r.rows) PROVE App2(v) = more
    BY <1>2, <1>7, <1>10, <1>13, <2>2, <2>3 DEF Approvers
  <2>4. /\ t.weight[v] <= SumOver(App(v), SelfWeight)
        /\ Ordered(tips, t.rows) => t.weight[v] = SumOver(App(v), SelfWeight)
    BY <1>13 DEF Checked, st
  <2> HIDE DEF more, App2, App
  <2>5. SumOver(more, SelfWeight) <= SumOver(App2(v), SelfWeight)
        /\ SumOver(App2(v), SelfWeight) \in Nat
    BY <1>11, <2>2, SumOfSome
  <2>6. r.weight[v] = t.weight[v] + SelfWeight[u] /\ t.weight[v] \in Nat
    BY <1>2, <1>3, <1>4, <1>13
  <2> QED
    BY <1>5, <1>11, <2>1, <2>3, <2>4, <2>5, <2>6
<1>14. CASE v \in st /\ v \notin A
  <2>1. App(v) \in SUBSET App2(v)
    BY <1>9
  <2>2. ASSUME Ordered(tips, r.rows) PROVE App2(v) = App(v)
    BY <1>2, <1>7, <1>10, <1>14, <2>1, <2>2 DEF Approvers
  <2>3. /\ t.weight[v] <= SumOver(App(v), SelfWeight)
        /\ Ordered(tips, t.rows) => t.weight[v] = SumOver(App(v), SelfWeight)
    BY <1>14 DEF Checked, st
  <2> HIDE DEF App2, App
  <2>4. SumOver(App(v), SelfWeight) <= SumOver(App2(v), SelfWeight)
        /\ SumOver(App2(v), SelfWeight) \in Nat /\ SumOver(App(v), SelfWeight) \in Nat
    BY <1>11, <2>1, SumOfSome
  <2>5. r.weight[v] = t.weight[v] /\ t.weight[v] \in Nat
    BY <1>2, <1>3, <1>4, <1>14
  <2> QED
    BY <1>5, <2>2, <2>3, <2>4, <2>5
<1> QED
  BY <1>2, <1>12, <1>13, <1>14

(* While every push stored a unit, the two counts agree.                   *)
LEMMA AppendRepeats ==
    ASSUME NEW tips, NEW t \in Tables(Unit), Repeats(tips, t),
           NEW u \in Unit, u \notin Stored(t),
           NEW r \in Tables(Unit), Stored(r) = Stored(t) \cup {u},
           r.weight = Credit(t.weight, Ancestry(tips, Stored(r), u), SelfWeight[u]),
           NEW S, r.repeated = Credit(t.repeated, S, SelfWeight[u]),
           S \subseteq Ancestry(tips, Stored(r), u),
           Cardinality(Ancestry(tips, Stored(r), u)) <= QueryLimit =>
               S = Ancestry(tips, Stored(r), u)
    PROVE  Repeats(tips, r)
<1> DEFINE A == Ancestry(tips, Stored(r), u)
           st == Stored(t)
           st2 == Stored(r)
<1>1. /\ t.weight \in [Unit -> Nat] /\ t.repeated \in [Unit -> Nat]
      /\ r.weight \in [Unit -> Nat] /\ r.repeated \in [Unit -> Nat]
      /\ SelfWeight[u] \in Nat
  BY TableFields, StoreAssumption DEF Counts
<1>2. /\ \A v \in Unit : r.weight[v] = IF v \in A THEN t.weight[v] + SelfWeight[u] ELSE t.weight[v]
      /\ \A v \in Unit : r.repeated[v] = IF v \in S THEN t.repeated[v] + SelfWeight[u] ELSE t.repeated[v]
  <2>1. t.weight \in Counts(Unit) /\ t.repeated \in Counts(Unit) /\ r.weight = Credit(t.weight, A, SelfWeight[u])
    BY TableFields
  <2> HIDE DEF A
  <2>2. /\ Credited(r.weight, t.weight, A, SelfWeight[u])
        /\ Credited(r.repeated, t.repeated, S, SelfWeight[u])
    BY <2>1, StoreCredit
  <2> QED
    BY <2>2 DEF Credited
<1>3. \A v \in Unit : r.repeated[v] <= r.weight[v]
  <2> SUFFICES ASSUME NEW v \in Unit PROVE r.repeated[v] <= r.weight[v]
    OBVIOUS
  <2>1. t.repeated[v] <= t.weight[v] /\ t.repeated[v] \in Nat /\ t.weight[v] \in Nat
    BY <1>1 DEF Repeats
  <2>2. v \in S => v \in A
    OBVIOUS
  <2>3. SelfWeight[u] \in Nat
    BY <1>1
  <2> HIDE DEF A
  <2>4. /\ r.weight[v] = IF v \in A THEN t.weight[v] + SelfWeight[u] ELSE t.weight[v]
        /\ r.repeated[v] = IF v \in S THEN t.repeated[v] + SelfWeight[u] ELSE t.repeated[v]
    BY <1>2
  <2> QED
    BY <2>1, <2>2, <2>3, <2>4
<1>4. ASSUME Short(tips, r) PROVE r.repeated = r.weight
  <2>1. IsFiniteSet(st2) /\ st \in SUBSET st2 /\ u \in st2
    BY StoredFinite
  <2>2. Short(tips, t)
    <3> SUFFICES ASSUME NEW d \in st
                 PROVE  Cardinality(Ancestry(tips, st, d)) <= QueryLimit
      BY DEF Short
    <3> DEFINE B == Ancestry(tips, st, d)
               C == Ancestry(tips, st2, d)
    <3>1. d \in C /\ C \subseteq st2 \cup {d} /\ d \in st2
      BY <2>1, AncestryClosed
    <3>2. B \subseteq C
      BY <2>1, <3>1, AncestryMore
    <3>3. Cardinality(C) <= QueryLimit
      BY <1>4, <3>1 DEF Short
    <3> HIDE DEF B, C
    <3>4. IsFiniteSet(C)
      BY <2>1, <3>1, FS_Subset
    <3>5. IsFiniteSet(B) /\ Cardinality(B) <= Cardinality(C)
      BY <3>2, <3>4, FS_Subset
    <3>6. Cardinality(B) \in Nat /\ Cardinality(C) \in Nat /\ QueryLimit \in Nat
      BY <3>4, <3>5, FS_CardinalityType, StoreAssumption
    <3>7. Cardinality(B) <= QueryLimit
      BY <3>3, <3>5, <3>6
    <3> QED
      BY <3>7 DEF B
  <2>3. t.repeated = t.weight
    BY <2>2 DEF Repeats
  <2>4. S = A
    BY <1>4, <2>1 DEF Short
  <2> HIDE DEF A
  <2>5. \A v \in Unit : r.repeated[v] = r.weight[v]
    BY <1>2, <2>3, <2>4
  <2> QED
    BY <1>1, <2>5
<1> QED
  BY <1>3, <1>4 DEF Repeats

----------------------------------------------------------------------------
(* One push, whatever its outcome.                                         *)

(* No row is removed or moved and no count falls.                          *)
Grows(t, r) ==
    /\ IsPrefix(t.rows, r.rows)
    /\ \A u \in Unit : t.weight[u] <= r.weight[u] /\ t.repeated[u] <= r.repeated[u]

(* A table is no less than itself.                                         *)
LEMMA GrowsNot ==
    ASSUME NEW t \in Tables(Unit) PROVE Grows(t, t)
<1>1. t.weight \in [Unit -> Nat] /\ t.repeated \in [Unit -> Nat]
  BY TableFields DEF Counts
<1>2. \A u \in Unit : t.weight[u] <= t.weight[u] /\ t.repeated[u] <= t.repeated[u]
  BY <1>1
<1>3. Len(t.rows) \in Nat
  BY TableFields, LenProperties
<1> QED
  BY <1>2, <1>3 DEF Grows, IsPrefix

(* Adding weight lets no weight fall.                                      *)
LEMMA CreditGrows ==
    ASSUME NEW count \in Counts(Unit), NEW S, NEW u \in Unit
    PROVE  \A v \in Unit : count[v] <= Credit(count, S, SelfWeight[u])[v]
<1>1. Credited(Credit(count, S, SelfWeight[u]), count, S, SelfWeight[u])
  BY StoreCredit
<1>2. SelfWeight[u] \in Nat /\ \A v \in Unit : count[v] \in Nat
  BY StoreAssumption DEF Counts
<1> QED
  BY <1>1, <1>2 DEF Credited

(* Every outcome of a push keeps what the invariants say, and only adds.   *)
LEMMA PushSound ==
    ASSUME NEW tips, NEW p \in Nat, NEW t, Sound(tips, t, p), NEW u \in Unit,
           NEW r \in Pushed(tips, SelfWeight, QueryLimit, TriggerDepth, t, u)
    PROVE  Sound(tips, r, p + 1) /\ Grows(t, r)
<1>1. /\ t \in Tables(Unit) /\ IsInjective(t.rows) /\ Blank(t) /\ Len(t.rows) <= p
      /\ Means(tips, t) /\ Checked(tips, t)
      /\ p = Len(t.rows) => Repeats(tips, t)
  BY DEF Sound
<1>2. SelfWeight \in Counts(Unit)
  BY StoreAssumption DEF Counts
<1>3. IsPushed(r, Unit, tips, SelfWeight, QueryLimit, TriggerDepth, t, u)
  BY <1>1, <1>2, PushedShape
<1>4. r \in Tables(Unit)
  BY <1>3 DEF IsPushed
<1>5. PICK S \in SUBSET Stored(r) :
          /\ r.repeated = Credit(t.repeated, S, SelfWeight[u])
          /\ Queried(S, tips, QueryLimit, r, u)
  BY <1>3 DEF IsPushed
<1>6. t.rows \in Seq(Unit) /\ t.weight \in Counts(Unit) /\ t.repeated \in Counts(Unit)
  BY <1>1, TableFields
<1>7. Len(t.rows) \in Nat
  BY <1>6, LenProperties
<1>8. \A v \in Unit : t.repeated[v] <= r.repeated[v]
  BY <1>5, <1>6, CreditGrows
<1>9. ASSUME NEW v \in Unit, v \notin Stored(r) PROVE r.repeated[v] = t.repeated[v]
  <2>1. v \notin S
    BY <1>9
  <2>2. Credited(r.repeated, t.repeated, S, SelfWeight[u])
    BY <1>5, <1>6, StoreCredit
  <2> QED
    BY <2>1, <2>2 DEF Credited
<1>10. CASE /\ r.rows = t.rows /\ Stored(r) = Stored(t) /\ r.weight = t.weight
  <2>1. IsInjective(r.rows) /\ Len(r.rows) <= p + 1 /\ p + 1 # Len(r.rows)
    BY <1>1, <1>7, <1>10
  <2>2. Means(tips, r)
    BY <1>1, <1>10, SMT DEF Means
  <2>12. Checked(tips, r)
    BY <1>1, <1>10, SMT DEF Checked
  <2>3. Blank(r)
    BY <1>1, <1>9, <1>10 DEF Blank
  <2>4. Grows(t, r)
    <3>1. Grows(t, t)
      BY <1>1, GrowsNot
    <3> QED
      BY <1>8, <1>10, <3>1 DEF Grows
  <2> QED
    BY <1>4, <2>1, <2>2, <2>3, <2>4, <2>12 DEF Sound
<1>11. CASE /\ u \notin Stored(t)
            /\ r.rows = Append(t.rows, u)
            /\ Stored(r) = Stored(t) \cup {u}
            /\ r.weight = Credit(t.weight, Ancestry(tips, Stored(t) \cup {u}, u), SelfWeight[u])
  <2> DEFINE A == Ancestry(tips, Stored(t) \cup {u}, u)
  <2>1. Adds(t, u, r.rows)
    BY <1>1, <1>11, AppendPlaces
  <2>2. IsInjective(r.rows) /\ Len(r.rows) = Len(t.rows) + 1
    BY <2>1 DEF Adds
  <2>12. Inserts(tips, t, r, u)
    BY <1>11, Zenon DEF Inserts
  <2>3. Means(tips, r)
    BY <1>1, <2>12, AppendMeans
  <2>4. Checked(tips, r)
    BY <1>1, <2>12, AppendChecked
  <2>5. A \subseteq Stored(t) \cup {u}
    <3>1. IsFiniteSet(Stored(t) \cup {u})
      BY <1>1, StoredFinite, FS_AddElement
    <3> QED
      BY <3>1, AncestryClosed
  <2>6. r.weight = Credit(t.weight, A, SelfWeight[u])
    BY <1>11
  <2> HIDE DEF A
  <2>7. \A v \in Unit : r.weight[v] = IF v \in A THEN t.weight[v] + SelfWeight[u] ELSE t.weight[v]
    <3>1. Credited(r.weight, t.weight, A, SelfWeight[u])
      BY <1>6, <2>6, StoreCredit
    <3> QED
      BY <3>1 DEF Credited
  <2>8. Blank(r)
    <3> SUFFICES ASSUME NEW v \in Unit, v \notin Stored(r)
                 PROVE  r.weight[v] = 0 /\ r.repeated[v] = 0
      BY DEF Blank
    <3>1. v \notin Stored(t) /\ v \notin A
      BY <1>11, <2>5
    <3> QED
      BY <1>1, <1>9, <2>7, <3>1 DEF Blank
  <2>9. ASSUME p + 1 = Len(r.rows) PROVE Repeats(tips, r)
    <3>0. p = Len(t.rows)
      BY <1>7, <2>2, <2>9
    <3>1. Repeats(tips, t)
      BY <1>1, <3>0
    <3>2. u \in Stored(r)
      BY <1>11
    <3>3. r.weight = Credit(t.weight, Ancestry(tips, Stored(r), u), SelfWeight[u])
      BY <1>11
    <3>4. /\ S \subseteq Ancestry(tips, Stored(r), u)
          /\ Cardinality(Ancestry(tips, Stored(r), u)) <= QueryLimit =>
                 S = Ancestry(tips, Stored(r), u)
      BY <1>5, <3>2 DEF Queried
    <3> QED
      BY <1>1, <1>4, <1>5, <1>11, <3>1, <3>3, <3>4, AppendRepeats
  <2>10. Grows(t, r)
    <3>1. IsPrefix(t.rows, r.rows)
      <4>1. SubSeq(t.rows, 1, Len(t.rows)) = SubSeq(r.rows, 1, Len(t.rows))
        BY <1>7, <2>1 DEF Adds
      <4> QED
        BY <1>7, <2>2, <4>1 DEF IsPrefix
    <3>2. \A v \in Unit : t.weight[v] <= r.weight[v]
      BY <1>6, <2>6, CreditGrows
    <3> QED
      BY <1>8, <3>1, <3>2 DEF Grows
  <2>11. Len(r.rows) <= p + 1
    BY <1>1, <1>7, <2>2
  <2> QED
    BY <1>4, <2>2, <2>3, <2>4, <2>8, <2>9, <2>10, <2>11 DEF Sound
<1> QED
  BY <1>3, <1>10, <1>11, Zenon DEF IsPushed

----------------------------------------------------------------------------
(* Many pushes: pushAllUnit.                                               *)

(* Pushes that add no row change nothing but their number.                 *)
LEMMA SoundMore ==
    ASSUME NEW tips, NEW p \in Nat, NEW q \in Nat, p <= q, NEW t, Sound(tips, t, p)
    PROVE  Sound(tips, t, q)
<1>1. Len(t.rows) <= p /\ t.rows \in Seq(Unit) /\ (p = Len(t.rows) => Repeats(tips, t))
  BY TableFields DEF Sound
<1>2. Len(t.rows) \in Nat
  BY <1>1, LenProperties
<1>3. Len(t.rows) <= q
  BY <1>1, <1>2
<1>4. q = Len(t.rows) => p = Len(t.rows)
  BY <1>1, <1>2
<1> QED
  BY <1>1, <1>3, <1>4 DEF Sound

(* It holds of the table a database begins with.                           *)
LEMMA EmptySound == ASSUME NEW tips PROVE Sound(tips, EmptyTable(Unit), 0)
<1> DEFINE t == EmptyTable(Unit)
<1>1. t \in Tables(Unit)
  BY EmptyTableType
<1>2. /\ t.rows = << >>
      /\ t.weight = [u \in Unit |-> 0]
      /\ t.repeated = [u \in Unit |-> 0]
  BY DEF EmptyTable
<1> HIDE DEF t
<1>3. DOMAIN t.rows = {} /\ Len(t.rows) = 0
  BY <1>2
<1>4. Stored(t) = {}
  BY <1>3 DEF Stored, Range
<1>5. IsInjective(t.rows) /\ Means(tips, t)
  BY <1>3 DEF IsInjective, Means
<1>6. Checked(tips, t)
  BY <1>4 DEF Checked
<1>7. Blank(t) /\ Repeats(tips, t)
  BY <1>2 DEF Blank, Repeats
<1> QED
  BY <1>1, <1>3, <1>5, <1>6, <1>7 DEF Sound, t

(* The tables pushAllUnit may leave.                                       *)
LEMMA LoadedSound ==
    ASSUME NEW s \in Seq(Unit), NEW r \in Loaded(s)
    PROVE  Sound(approves, r, Len(s))
<1> DEFINE InT(f) == InTurn(f, Unit, approves, SelfWeight, QueryLimit, TriggerDepth, EmptyTable(Unit), s)
           f == CHOOSE f : InT(f)
           G == {n \in Nat : n <= Len(s) => \A t \in f[n] : Sound(approves, t, n)}
<1>1. Len(s) \in Nat /\ \A n \in 1 .. Len(s) : s[n] \in Unit
  BY LenProperties, ElementOfSeq
<1>2. InT(f)
  <2>1. SelfWeight \in Counts(Unit)
    BY StoreAssumption DEF Counts
  <2>2. \E g : InT(g)
    BY <2>1, InTurnExists, EmptyTableType
  <2> HIDE DEF InT
  <2> QED
    BY <2>2
<1>3. r \in f[Len(s)]
  BY Zenon DEF Loaded, PushOutcomes, InTurn
<1> HIDE DEF f
<1>4. /\ f[0] = {EmptyTable(Unit)}
      /\ \A n \in 1 .. Len(s) : f[n] =
            UNION {Pushed(approves, SelfWeight, QueryLimit, TriggerDepth, t, s[n]) : t \in f[n - 1]}
  <2>1. 0 \in 0 .. Len(s) /\ \A n \in 1 .. Len(s) : n \in 0 .. Len(s) /\ n # 0
    BY <1>1
  <2>2. \A n \in 0 .. Len(s) : f[n] =
            IF n = 0 THEN {EmptyTable(Unit)}
            ELSE UNION {Pushed(approves, SelfWeight, QueryLimit, TriggerDepth, t, s[n]) : t \in f[n - 1]}
    BY <1>2 DEF InTurn
  <2> QED
    BY <2>1, <2>2, Zenon
<1>5. 0 \in G
  <2>1. Sound(approves, EmptyTable(Unit), 0)
    BY EmptySound
  <2> QED
    BY <1>4, <2>1
<1>6. ASSUME NEW n \in Nat, n \in G PROVE n + 1 \in G
  <2> SUFFICES ASSUME n + 1 <= Len(s), NEW t \in f[n + 1] PROVE Sound(approves, t, n + 1)
    OBVIOUS
  <2>1. n + 1 \in 1 .. Len(s) /\ n <= Len(s) /\ (n + 1) - 1 = n /\ s[n + 1] \in Unit
    BY <1>1
  <2>2. PICK b \in f[n] : t \in Pushed(approves, SelfWeight, QueryLimit, TriggerDepth, b, s[n + 1])
    BY <1>4, <2>1
  <2>3. Sound(approves, b, n)
    BY <1>6, <2>1
  <2> QED
    BY <2>1, <2>2, <2>3, PushSound
<1>7. Len(s) \in G
  <2> HIDE DEF G
  <2> QED
    BY <1>1, <1>5, <1>6, AllNaturals
<1> QED
  BY <1>1, <1>3, <1>7

----------------------------------------------------------------------------
(* The inductive invariant.                                                *)

(* The invariant holds initially.                                          *)
LEMMA Initially == Init => IInv
<1> SUFFICES ASSUME Init PROVE IInv
  OBVIOUS
<1>1. Sound(approves, EmptyTable(Unit), 0)
  BY EmptySound
<1>2. EmptyTable(Unit) \in Tables(Unit)
  BY EmptyTableType
<1>3. approves \in [Unit -> SUBSET Unit]
  BY DEF Init, Shapes
<1> QED
  BY <1>1, <1>2, <1>3, StoreAssumption DEF Init, IInv, TypeOK

(* A push.                                                                 *)
LEMMA PushKeeps ==
    ASSUME IInv, NEW u \in Unit, Push(u)
    PROVE  IInv' /\ Grows(table, table')
<1>1. /\ pushes \in 0 .. MaxPushes /\ pushes \in Nat /\ pushes < MaxPushes /\ pushes' = pushes + 1
      /\ approves' = approves /\ up' = up
      /\ table' \in Pushed(approves, SelfWeight, QueryLimit, TriggerDepth, table, u)
  BY StoreAssumption DEF IInv, TypeOK, Push, PushOutcomes
<1>2. Sound(approves, table, pushes)
  BY DEF IInv
<1>3. Sound(approves, table', pushes + 1) /\ Grows(table, table')
  BY <1>1, <1>2, PushSound
<1>4. table' \in Tables(Unit)
  BY <1>3 DEF Sound
<1>5. pushes' \in 0 .. MaxPushes
  BY <1>1, StoreAssumption
<1> QED
  BY <1>1, <1>3, <1>4, <1>5 DEF IInv, TypeOK

(* pushAllUnit, which starts from a table that never had a row.            *)
LEMMA PushAllKeeps ==
    ASSUME IInv, PushAllUnit
    PROVE  IInv' /\ Grows(table, table')
<1>1. PICK s \in PeerRows : /\ pushes + Len(s) <= MaxPushes
                            /\ pushes' = pushes + Len(s)
                            /\ table' \in Loaded(s)
  BY DEF PushAllUnit
<1>2. s \in Seq(Unit) /\ Len(s) \in Nat
  <2>1. PICK n \in 1 .. Cardinality(Unit) : s \in [1 .. n -> Unit]
    BY <1>1 DEF PeerRows
  <2>2. n \in Nat
    BY <2>1
  <2>3. s \in Seq(Unit)
    BY <2>1, <2>2, SeqDef
  <2> QED
    BY <2>3, LenProperties
<1>3. /\ pushes \in Nat /\ approves' = approves /\ up' = up /\ table.rows = << >>
      /\ approves \in [Unit -> SUBSET Unit] /\ up \in BOOLEAN
      /\ table \in Tables(Unit) /\ Sound(approves, table, pushes)
  BY DEF PushAllUnit, IInv, TypeOK
<1>4. Sound(approves, table', Len(s))
  BY <1>1, <1>2, LoadedSound
<1>5. pushes + Len(s) \in Nat /\ Len(s) <= pushes + Len(s)
  BY <1>2, <1>3
<1>6. Sound(approves, table', pushes')
  BY <1>1, <1>2, <1>4, <1>5, SoundMore
<1>7. table' \in Tables(Unit)
  BY <1>6 DEF Sound
<1>8. pushes' \in 0 .. MaxPushes
  BY <1>1, <1>5, StoreAssumption
<1>9. IInv'
  BY <1>3, <1>6, <1>7, <1>8 DEF IInv, TypeOK
<1>10. Grows(table, table')
  <2>1. Stored(table) = {}
    BY <1>3 DEF Stored, Range
  <2>2. \A u \in Unit : table.weight[u] = 0 /\ table.repeated[u] = 0
    BY <1>3, <2>1 DEF Sound, Blank
  <2>3. table'.weight \in [Unit -> Nat] /\ table'.repeated \in [Unit -> Nat] /\ table'.rows \in Seq(Unit)
    BY <1>7 DEF Tables
  <2>4. IsPrefix(table.rows, table'.rows)
    <3>1. Len(table.rows) = 0 /\ Len(table'.rows) \in Nat
      BY <1>3, <2>3, LenProperties
    <3>2. SubSeq(table.rows, 1, 0) = << >> /\ SubSeq(table'.rows, 1, 0) = << >>
      BY <1>3, <2>3, <3>1
    <3> QED
      BY <3>1, <3>2 DEF IsPrefix
  <2> QED
    BY <2>2, <2>3, <2>4 DEF Grows
<1> QED
  BY <1>9, <1>10

(* Every step keeps the invariant.                                         *)
LEMMA Consecution == IInv /\ [Next]_vars => IInv'
<1> SUFFICES ASSUME IInv, [Next]_vars PROVE IInv'
  OBVIOUS
<1>1. ASSUME NEW u \in Unit, Push(u) PROVE IInv'
  BY <1>1, PushKeeps
<1>2. CASE PushAllUnit
  BY <1>2, PushAllKeeps
<1>3. CASE PushAllUnitThrows
  BY <1>3 DEF PushAllUnitThrows, IInv, TypeOK
<1>4. CASE Restart
  BY <1>4 DEF Restart, IInv, TypeOK
<1>5. CASE UNCHANGED vars
  BY <1>5 DEF vars, IInv, TypeOK
<1> QED
  BY <1>1, <1>2, <1>3, <1>4, <1>5 DEF Next

(* So it always holds.                                                     *)
LEMMA Invariance == Spec => []IInv
<1> QED
  BY Initially, Consecution, PTL DEF Spec

----------------------------------------------------------------------------
(* The invariants of UnitStore, of the table.                              *)

(* The sum in WeightMeaning, over places.                                  *)
LEMMA SumByPlaces ==
    ASSUME NEW rows \in Seq(Unit), NEW J, J \subseteq 1 .. Len(rows)
    PROVE  MapThenSumSet(LAMBDA j : SelfWeight[rows[j]], J) = SumOver(J, SelfAt(rows))
<1> DEFINE w == SelfAt(rows)
           B(f) == [s \in SUBSET J |-> IF s = {} THEN 0
                                       ELSE SelfWeight[rows[PickOne(s)]] + f[s \ {PickOne(s)}]]
           Q(f) == f = B(f)
           c == CHOOSE f : Q(f)
<1>1. MapThenSumSet(LAMBDA j : SelfWeight[rows[j]], J) = c[J]
  BY DEF MapThenSumSet, MapThenFoldSet, PickOne
<1>2. Len(rows) \in Nat /\ DOMAIN rows = 1 .. Len(rows) /\ \A j \in 1 .. Len(rows) : rows[j] \in Unit
  BY LenProperties, ElementOfSeq
<1>3. IsFiniteSet(J)
  <2>1. IsFiniteSet(1 .. Len(rows))
    BY <1>2, FS_Interval
  <2> QED
    BY <2>1, FS_Subset
<1>4. \A j \in J : w[j] = SelfWeight[rows[j]] /\ w[j] \in Nat
  BY <1>2, StoreAssumption DEF SelfAt
<1> HIDE DEF w
<1>5. ASSUME NEW f PROVE Q(f) <=> Summing(f, J, w)
  <2> DEFINE A == [s \in SUBSET J |-> IF s = {} THEN 0 ELSE w[PickOne(s)] + f[s \ {PickOne(s)}]]
  <2>1. \A s \in SUBSET J : s # {} => w[PickOne(s)] = SelfWeight[rows[PickOne(s)]]
    BY <1>4, PickOneIn
  <2>2. A = B(f)
    BY <2>1
  <2> HIDE DEF B
  <2> QED
    BY <2>2 DEF Summing
<1>6. PICK f : Summing(f, J, w)
  BY <1>3, <1>4, SummingExists
<1> HIDE DEF Q
<1>7. Summing(c, J, w)
  BY <1>5, <1>6
<1>8. J \in SUBSET J
  OBVIOUS
<1>9. c[J] = SumOver(J, w)
  <2>1. \A j \in J : w[j] \in Nat
    BY <1>4
  <2> HIDE DEF c
  <2> QED
    BY <1>3, <1>7, <1>8, <2>1, SummingPart
<1> QED
  BY <1>1, <1>9 DEF w

(* The places and the smallest closed set of WeightMeaning are those of    *)
(* Means.                                                                  *)
LEMMA SoundMeans == IInv => WeightMeaning
<1> SUFFICES ASSUME IInv, NEW i \in DOMAIN table.rows
             PROVE  table.weight[table.rows[i]] =
                        MapThenSumSet(LAMBDA j : SelfWeight[table.rows[j]],
                                      {j \in i .. Len(table.rows) : j = i \/ LedTo(j, i)})
  BY DEF WeightMeaning
<1> DEFINE J == {j \in i .. Len(table.rows) : j = i \/ LedTo(j, i)}
<1>1. table \in Tables(Unit) /\ Means(approves, table)
  BY DEF IInv, Sound
<1>2. table.rows \in Seq(Unit)
  BY <1>1, TableFields
<1>3. Len(table.rows) \in Nat /\ DOMAIN table.rows = 1 .. Len(table.rows)
  BY <1>2, LenProperties
<1>4. J = Behind(approves, table.rows, i)
  BY DEF Behind, LedTo, LedIn
<1>5. J \subseteq 1 .. Len(table.rows)
  BY <1>3
<1>6. table.weight[table.rows[i]] = SumOver(J, SelfAt(table.rows))
  BY <1>1, <1>4 DEF Means
<1> HIDE DEF J
<1>7. MapThenSumSet(LAMBDA j : SelfWeight[table.rows[j]], J) = SumOver(J, SelfAt(table.rows))
  BY <1>2, <1>5, SumByPlaces
<1> QED
  BY <1>6, <1>7 DEF J

(* The sum of CheckWeight is that of Checked.                              *)
LEMMA SoundChecked == IInv => WeightChecked
<1> SUFFICES ASSUME IInv PROVE WeightChecked
  OBVIOUS
<1>1. Checked(approves, table)
  BY DEF IInv, Sound
<1>2. \A u : CheckWeight(u) = SumOver(Approvers(approves, Stored(table), u), SelfWeight)
  BY SumIsSumOver DEF CheckWeight
<1>3. InOrder <=> Ordered(approves, table.rows)
  BY DEF InOrder, Ordered
<1> QED
  BY <1>1, <1>2, <1>3 DEF Checked, WeightChecked

(* DagDatabase: the table and the counters keep their types.               *)
THEOREM StoreTypes == Spec => []TypeOK
<1>1. IInv => TypeOK
  BY DEF IInv
<1> QED
  BY <1>1, Invariance, PTL

(* The weight of a row is its own self weight and that of each unit stored *)
(* later that led to it when it was stored: the triggers, which walk the   *)
(* tips row by row, give every ancestor its share once                     *)
(* (database.cpp:325-386).                                                 *)
THEOREM WeightsMean == Spec => []WeightMeaning
<1> QED
  BY SoundMeans, Invariance, PTL

(* A row never has more weight than check_weight finds, and exactly that   *)
(* much when units were stored after the units they approve                *)
(* (database.cpp:401-413).                                                 *)
THEOREM WeightsChecked == Spec => []WeightChecked
<1> QED
  BY SoundChecked, Invariance, PTL

(* The triggers and the recursive query compute one number as long as      *)
(* every push added a row and no ancestry exceeds the query's LIMIT        *)
(* (database.cpp:325-401).                                                 *)
THEOREM CountsAgree == Spec => []RepeatedAgrees
<1>1. IInv => RepeatedAgrees
  <2> SUFFICES ASSUME IInv, pushes = Len(table.rows), Short(approves, table)
               PROVE  table.repeated = table.weight
    BY DEF RepeatedAgrees, Short
  <2> QED
    BY DEF IInv, Sound, Repeats
<1> QED
  BY <1>1, Invariance, PTL

(* Where the LIMIT cuts, the query counts less than the triggers, never    *)
(* more (database.cpp:395).                                                *)
THEOREM QueryFallsShort == Spec => []RepeatedFallsShort
<1>1. IInv => RepeatedFallsShort
  BY DEF IInv, Sound, Repeats, RepeatedFallsShort
<1> QED
  BY <1>1, Invariance, PTL

(* No step of the process removes or moves a row or lowers a count: not a  *)
(* failed INSERT, not pushAllUnit, not a restart.                          *)
THEOREM StoreOnlyGrows == Spec => OnlyGrows
<1> DEFINE A == /\ IsPrefix(table.rows, table'.rows)
                /\ \A u \in Unit : /\ table.weight[u] <= table'.weight[u]
                                    /\ table.repeated[u] <= table'.repeated[u]
<1>1. IInv /\ [Next]_vars => [A]_vars
  <2> SUFFICES ASSUME IInv, Next PROVE A
    OBVIOUS
  <2>1. ASSUME Grows(table, table') PROVE A
    BY <2>1 DEF Grows
  <2>2. ASSUME NEW u \in Unit, Push(u) PROVE A
    BY <2>1, <2>2, PushKeeps
  <2>3. CASE PushAllUnit
    BY <2>1, <2>3, PushAllKeeps
  <2>4. ASSUME table' = table PROVE A
    <3>1. table \in Tables(Unit)
      BY DEF IInv, TypeOK
    <3>2. Grows(table, table)
      BY <3>1, GrowsNot
    <3> QED
      BY <2>1, <2>4, <3>2
  <2>5. CASE PushAllUnitThrows \/ Restart
    BY <2>4, <2>5 DEF PushAllUnitThrows, Restart
  <2> HIDE DEF A
  <2> QED
    BY <2>2, <2>3, <2>5 DEF Next
<1> QED
  BY <1>1, Invariance, PTL DEF Spec, OnlyGrows

(* A push that loses its unit had a chain of TriggerDepth rows below it:   *)
(* SQLite's limit on trigger frames is the only way (database.cpp:324).    *)
THEOREM LostIfDeep == Spec => LostOnlyIfDeep
<1> DEFINE A == \A u \in Unit : Push(u) /\ u \notin Stored(table') => Chains(u, TriggerDepth) # {}
<1>1. IInv /\ [Next]_vars => [A]_vars
  <2> SUFFICES ASSUME IInv, NEW u \in Unit, Push(u), u \notin Stored(table')
               PROVE  Chains(u, TriggerDepth) # {}
    OBVIOUS
  <2> DEFINE all == Stored(table) \cup {u}
             hop == Hops(approves, all, u)
  <2>1. table \in Tables(Unit) /\ table' \in Pushed(approves, SelfWeight, QueryLimit, TriggerDepth, table, u)
    BY DEF IInv, TypeOK, Push, PushOutcomes
  <2>2. IsPushed(table', Unit, approves, SelfWeight, QueryLimit, TriggerDepth, table, u)
    <3>1. SelfWeight \in Counts(Unit)
      BY StoreAssumption DEF Counts
    <3> QED
      BY <2>1, <3>1, PushedShape
  <2>3. MaybeTooDeep(approves, all, u, TriggerDepth)
    BY <2>2 DEF IsPushed
  <2>4. PICK n \in 0 .. Cardinality(all) : n + 2 > TriggerDepth /\ hop[n] # {}
    BY <2>3 DEF MaybeTooDeep
  <2>5. TriggerDepth \in Nat /\ TriggerDepth - 1 \in Nat /\ n \in Nat /\ TriggerDepth - 1 <= n
    <3>1. TriggerDepth \in Nat /\ TriggerDepth # 0
      BY StoreAssumption
    <3>2. Cardinality(all) \in Nat
      BY <2>1, StoredFinite, FS_AddElement, FS_CardinalityType
    <3> QED
      BY <2>4, <3>1, <3>2
  <2>6. Chain(approves, all, u, TriggerDepth) # {}
    <3> DEFINE m == TriggerDepth - 1
    <3>1. m \in Nat /\ m <= n /\ m + 1 = TriggerDepth /\ u \in all
      BY <2>5
    <3> HIDE DEF m, all
    <3>2. Hops(approves, all, u)[m] # {}
      BY <2>4, <2>5, <3>1, HopsEarlier
    <3>3. Chain(approves, all, u, m + 1) # {}
      BY <3>1, <3>2, HopsChain
    <3> QED
      BY <3>1, <3>3
  <2> QED
    BY <2>6, Zenon DEF Chains, Chain
<1> QED
  BY <1>1, Invariance, PTL DEF Spec, LostOnlyIfDeep
=============================================================================

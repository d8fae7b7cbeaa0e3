------------------------ MODULE WeightTriggersProofs ------------------------
(***************************************************************************)
(* Proofs about WeightTriggers. The inductive invariant says where the     *)
(* transaction is: the table is one that the pushes of the units before    *)
(* this one may leave; while the triggers run, their frames are a walk     *)
(* from the new unit, the rows that hash_bk marks are those that got its   *)
(* weight, and what they approve is marked or still to come in some frame; *)
(* while the query runs, what it yielded and what waits are a breadth-     *)
(* first prefix of the ancestry.  So the end of the triggers is an outcome *)
(* of the INSERT, the end of the query one of updateWeright, and the       *)
(* commit one of push: WeightTriggers implements UnitStore.                *)
(***************************************************************************)
EXTENDS WeightTriggers, UnitTableProofs

----------------------------------------------------------------------------
(***************************************************************************)
(* The inductive invariant, in parts.  The parts are stated with           *)
(* parameters: tips is approves, t and hb are table and hash_bk, st the    *)
(* stack of trigger frames, b a table a unit u is pushed into.             *)
(***************************************************************************)

(* Tips are older than the unit that names them.                           *)
Older(tips) == \A v \in Unit : \A p \in tips[v] : p \in Unit /\ p < v

(* A row is only marked with a unit that is stored.                        *)
Settled(t, hb) == \A v \in Unit : hb[v] # Zero => hb[v] \in Stored(t)

(* A table without rows is as it was created.                              *)
NeverFilled(t) == t.rows = << >> => t = EmptyTable(Unit)

(* The tables that n pushes of units of s in turn may leave.               *)
Turn(tips, b, s) ==
    LET turn[n \in 0 .. Len(s)] ==
            IF n = 0 THEN {b}
            ELSE UNION {Pushed(tips, SelfWeight, QueryLimit, TriggerDepth, t, s[n]) : t \in turn[n-1]}
    IN  turn

(* The frames stand for a walk: each for a row one hop further from u.     *)
Frames(tips, all, st, u) ==
    \A k \in 1 .. Len(st) :
        /\ st[k].hash = u /\ st[k].weight = SelfWeight[u]
        /\ \E r \in Hops(tips, all, u)[k - 1] : Range(st[k].tips) \subseteq tips[r] \cup {Zero}

(* The marked rows are near enough for their frames, and each of their     *)
(* stored tips is marked or still to come in some frame.                   *)
Pending(st, p) == \E k \in 1 .. Len(st) : p \in Range(st[k].tips)

(* What hash_bk marks.                                                     *)
Marks(tips, all, hb, st, u) ==
    /\ hb[u] = u
    /\ \A v \in Unit : hb[v] = u =>
          /\ v \in Within(tips, all, u, TriggerDepth - 2)
          /\ \A p \in tips[v] \cap all : hb[p] = u \/ Pending(st, p)

(* What the marked rows have got.                                          *)
Counted(t, hb, b, u) ==
    /\ u \notin Stored(b)
    /\ t.rows = Append(b.rows, u)
    /\ t.repeated = b.repeated
    /\ \A v \in Unit : t.weight[v] = b.weight[v] + IF hb[v] = u THEN SelfWeight[u] ELSE 0

(* The triggers are on their walk from u.                                  *)
Walk(tips, t, hb, b, st, u) ==
    /\ Counted(t, hb, b, u)
    /\ Frames(tips, Stored(t), st, u)
    /\ Marks(tips, Stored(t), hb, st, u)

(* How the INSERT of u into b may end.                                     *)
Ended(tips, b, t, u) ==
    \/ u \in Stored(b) /\ t = b
    \/ /\ u \notin Stored(b)
       /\ ~SurelyTooDeep(tips, Stored(b) \cup {u}, u, TriggerDepth)
       /\ t = Inserted(tips, SelfWeight, b, u)
    \/ /\ u \notin Stored(b)
       /\ MaybeTooDeep(tips, Stored(b) \cup {u}, u, TriggerDepth)
       /\ t = b

(* The recursive query: the first m rows of its queue are n hops away, the *)
(* others one hop further, and it has yielded every row nearer than those. *)
Level(tips, all, u, o, q, n, m) ==
    /\ n > 0 => Within(tips, all, u, n - 1) \subseteq o
    /\ o \subseteq Within(tips, all, u, n)
    /\ Within(tips, all, u, n) \subseteq o \cup {q[i] : i \in 1 .. m}
    /\ \A i \in 1 .. m : q[i] \in Within(tips, all, u, n)
    /\ \A i \in m + 1 .. Len(q) : q[i] \in Within(tips, all, u, n + 1)

(* The query is on its way through the ancestry.                           *)
Breadth(tips, all, u, o, q) ==
    /\ \A r \in o : tips[r] \cap all \subseteq o \cup Range(q)
    /\ \E n \in Nat, m \in 0 .. Len(q) : Level(tips, all, u, o, q, n, m)

(* The query of updateWeright(u).                                          *)
Asking(tips, t, u, o, q) ==
    /\ u \notin Stored(t) => o = {} /\ q = << >>
    /\ u \in Stored(t) => Breadth(tips, Stored(t), u, o, q) /\ Cardinality(o) <= QueryLimit

(* The job of a transaction.                                               *)
JobOK(b, s, p) ==
    /\ s # << >>
    /\ p + Len(s) <= MaxPushes
    /\ Len(s) > 1 => IsInjective(s) /\ Len(s) <= Cardinality(Unit) /\ b.rows = << >>

(* What holds at any time: of the DAG, and of what a rollback of the       *)
(* transaction restores.                                                   *)
Lasting ==
    /\ Older(approves)
    /\ Settled(begun[1], begun[3]) /\ NeverFilled(begun[1])
    /\ phase = "idle" => columns = begun
    /\ phase # "idle" => JobOK(begun[1], job, pushes)

(* What holds of the unit the transaction is at.                           *)
Doing ==
    /\ phase \in {"insert", "triggers", "query"} => at \in 1 .. Len(job)
    /\ phase = "insert" => table \in Turn(approves, begun[1], job)[at - 1]
    /\ phase = "triggers" =>
          /\ saved[1] \in Turn(approves, begun[1], job)[at - 1]
          /\ Walk(approves, table, hash_bk, saved[1], stack, job[at])
    /\ phase = "query" =>
          /\ \E b \in Turn(approves, begun[1], job)[at - 1] : Ended(approves, b, table, job[at])
          /\ Asking(approves, table, job[at], out, queue)
    /\ phase = "commit" => table \in Turn(approves, begun[1], job)[Len(job)]

(* The inductive invariant.                                                *)
WInv ==
    /\ TypeOK
    /\ Lasting
    /\ Settled(table, hash_bk) /\ Settled(saved[1], saved[3])
    /\ Doing

----------------------------------------------------------------------------
(* The tables a transaction goes through.                                  *)

(* The self weights are naturals.                                          *)
LEMMA SelfCounts == SelfWeight \in Counts(Unit)
BY TriggerAssumption DEF Counts

(* turn[n] holds what n pushes leave.                                      *)
Turns(turn, tips, b, s) ==
    /\ turn[0] = {b}
    /\ \A n \in 1 .. Len(s) : \A r :
          r \in turn[n] <=> \E t \in turn[n - 1] :
                r \in Pushed(tips, SelfWeight, QueryLimit, TriggerDepth, t, s[n])

(* Turn does.                                                              *)
LEMMA TurnSteps ==
    ASSUME NEW tips, NEW b \in Tables(Unit), NEW s \in Seq(Unit)
    PROVE  Turns(Turn(tips, b, s), tips, b, s)
<1> DEFINE InT(f) == InTurn(f, Unit, tips, SelfWeight, QueryLimit, TriggerDepth, b, s)
           f == CHOOSE f : InT(f)
<1>1. Len(s) \in Nat
  BY LenProperties
<1>2. InT(f)
  <2>1. \E g : InT(g)
    BY SelfCounts, InTurnExists
  <2> HIDE DEF InT
  <2> QED
    BY <2>1
<1>3. f = Turn(tips, b, s)
  BY Zenon DEF Turn, InTurn
<1> HIDE DEF f
<1>4. \A n \in 0 .. Len(s) : f[n] =
          IF n = 0 THEN {b}
          ELSE UNION {Pushed(tips, SelfWeight, QueryLimit, TriggerDepth, t, s[n]) : t \in f[n - 1]}
  BY <1>2 DEF InTurn
<1>5. 0 \in 0 .. Len(s) /\ \A n \in 1 .. Len(s) : n \in 0 .. Len(s) /\ n # 0
  BY <1>1
<1>6. /\ f[0] = {b}
      /\ \A n \in 1 .. Len(s) : f[n] =
            UNION {Pushed(tips, SelfWeight, QueryLimit, TriggerDepth, t, s[n]) : t \in f[n - 1]}
  BY <1>4, <1>5, Zenon
<1>7. Turns(f, tips, b, s)
  BY <1>6 DEF Turns
<1> QED
  BY <1>3, <1>7

(* One push more.                                                          *)
LEMMA TurnNext ==
    ASSUME NEW tips, NEW b \in Tables(Unit), NEW s \in Seq(Unit), NEW n \in 1 .. Len(s),
           NEW t \in Turn(tips, b, s)[n - 1],
           NEW r \in Pushed(tips, SelfWeight, QueryLimit, TriggerDepth, t, s[n])
    PROVE  r \in Turn(tips, b, s)[n]
BY TurnSteps DEF Turns

(* A push into a table that never had a row either adds one or changes     *)
(* nothing.                                                                *)
LEMMA PushedTables ==
    ASSUME NEW tips, NEW t \in Tables(Unit), NEW u \in Unit,
           NEW r \in Pushed(tips, SelfWeight, QueryLimit, TriggerDepth, t, u)
    PROVE  r \in Tables(Unit) /\ (NeverFilled(t) => NeverFilled(r))
<1>1. IsPushed(r, Unit, tips, SelfWeight, QueryLimit, TriggerDepth, t, u)
  BY SelfCounts, PushedShape
<1>2. r \in Tables(Unit)
  BY <1>1 DEF IsPushed
<1>3. ASSUME NeverFilled(t), r.rows = << >> PROVE r = EmptyTable(Unit)
  <2>1. Stored(r) = {}
    BY <1>3 DEF Stored, Range
  <2>2. t.rows \in Seq(Unit)
    BY TableFields
  <2>3. r.rows = t.rows /\ r.weight = t.weight
    <3>1. Append(t.rows, u) # << >>
      BY <2>2, AppendProperties
    <3> QED
      BY <1>1, <1>3, <3>1 DEF IsPushed
  <2>4. r.repeated = Credit(t.repeated, {}, SelfWeight[u])
    BY <1>1, <2>1 DEF IsPushed
  <2>5. t = EmptyTable(Unit)
    BY <1>3, <2>3 DEF NeverFilled
  <2>6. t.repeated \in [Unit -> Nat]
    BY TableFields DEF Counts
  <2>7. r.repeated = t.repeated
    BY <2>4, <2>6 DEF Credit
  <2>8. /\ t = [rows |-> t.rows, weight |-> t.weight, repeated |-> t.repeated]
        /\ r = [rows |-> r.rows, weight |-> r.weight, repeated |-> r.repeated]
    BY <1>2, TableFields
  <2> QED
    BY <2>3, <2>5, <2>7, <2>8
<1> QED
  BY <1>2, <1>3 DEF NeverFilled

(* The tables in between are tables.                                       *)
LEMMA TurnTables ==
    ASSUME NEW tips, NEW b \in Tables(Unit), NeverFilled(b), NEW s \in Seq(Unit),
           NEW n \in 0 .. Len(s), NEW t \in Turn(tips, b, s)[n]
    PROVE  t \in Tables(Unit) /\ NeverFilled(t)
<1> DEFINE turn == Turn(tips, b, s)
           G == {k \in Nat : k <= Len(s) => \A x \in turn[k] : x \in Tables(Unit) /\ NeverFilled(x)}
<1>1. Len(s) \in Nat /\ \A k \in 1 .. Len(s) : s[k] \in Unit
  BY LenProperties, ElementOfSeq
<1>2. /\ turn[0] = {b}
      /\ \A k \in 1 .. Len(s) : \A r :
            r \in turn[k] <=> \E x \in turn[k - 1] :
                  r \in Pushed(tips, SelfWeight, QueryLimit, TriggerDepth, x, s[k])
  BY TurnSteps DEF Turns
<1> HIDE DEF turn
<1>3. 0 \in G
  BY <1>2
<1>4. ASSUME NEW k \in Nat, k \in G PROVE k + 1 \in G
  <2> SUFFICES ASSUME k + 1 <= Len(s), NEW x \in turn[k + 1]
               PROVE  x \in Tables(Unit) /\ NeverFilled(x)
    OBVIOUS
  <2>1. k + 1 \in 1 .. Len(s) /\ k <= Len(s) /\ (k + 1) - 1 = k /\ s[k + 1] \in Unit
    BY <1>1
  <2>2. PICK y \in turn[k] : x \in Pushed(tips, SelfWeight, QueryLimit, TriggerDepth, y, s[k + 1])
    BY <1>2, <2>1
  <2>3. y \in Tables(Unit) /\ NeverFilled(y)
    BY <1>4, <2>1, <2>2
  <2> QED
    BY <2>1, <2>2, <2>3, PushedTables
<1>5. n \in Nat /\ n <= Len(s)
  BY <1>1
<1>6. n \in G
  <2> HIDE DEF G
  <2> QED
    BY <1>3, <1>4, <1>5, AllNaturals
<1> QED
  BY <1>5, <1>6 DEF turn

----------------------------------------------------------------------------
(* The recursive query.                                                    *)

(* The query begins with the unit itself.                                  *)
LEMMA AskingStarts ==
    ASSUME NEW tips, NEW t \in Tables(Unit), NEW u \in Unit, u \in Stored(t)
    PROVE  Asking(tips, t, u, {}, <<u>>)
<1> DEFINE all == Stored(t)
           q == <<u>>
<1>1. Within(tips, all, u, 0) = {u}
  BY WithinSteps
<1>2. Len(q) = 1 /\ q[1] = u
  OBVIOUS
<1>3. \A i \in 2 .. 1 : FALSE
  OBVIOUS
<1>4. Level(tips, all, u, {}, q, 0, 1)
  <2>1. {q[i] : i \in 1 .. 1} = {u} /\ \A i \in 1 .. 1 : q[i] = u
    BY <1>2
  <2>2. \A i \in 1 + 1 .. Len(q) : FALSE
    BY <1>2
  <2> HIDE DEF q
  <2> QED
    BY <1>1, <2>1, <2>2 DEF Level
<1>5. 0 \in Nat /\ 1 \in 0 .. Len(q)
  BY <1>2
<1>6. Breadth(tips, all, u, {}, q)
  BY <1>4, <1>5, Zenon DEF Breadth
<1>7. Cardinality({}) <= QueryLimit
  BY FS_EmptySet, TriggerAssumption
<1> QED
  BY <1>6, <1>7 DEF Asking

(* One row leaves the queue.                                               *)
LEMMA LevelHead ==
    ASSUME NEW tips, NEW all, IsFiniteSet(all), NEW u, NEW o, NEW q \in Seq(Unit), q # << >>,
           NEW n \in Nat, NEW m \in 1 .. Len(q), Level(tips, all, u, o, q, n, m),
           NEW s \in Seq(Unit), Range(s) \subseteq tips[Head(q)] \cap all
    PROVE  Level(tips, all, u, o \cup {Head(q)}, Tail(q) \o s, n, m - 1)
<1> DEFINE r == Head(q)
           q2 == Tail(q) \o s
           W(k) == Within(tips, all, u, k)
<1>1. /\ Len(q) \in Nat /\ Len(s) \in Nat /\ Len(q) > 0 /\ r = q[1]
      /\ Tail(q) \in Seq(Unit) /\ Len(Tail(q)) = Len(q) - 1
      /\ \A i \in 1 .. Len(q) - 1 : Tail(q)[i] = q[i + 1]
  BY LenProperties, HeadTailProperties, EmptySeq
<1>2. /\ Len(q2) = Len(q) - 1 + Len(s)
      /\ \A i \in 1 .. Len(q) - 1 : q2[i] = q[i + 1]
      /\ \A i \in Len(q) .. Len(q2) : q2[i] \in Range(s)
  <2>1. /\ Len(q2) = Len(q) - 1 + Len(s)
        /\ \A i \in 1 .. Len(q) - 1 + Len(s) :
              q2[i] = IF i <= Len(q) - 1 THEN Tail(q)[i] ELSE s[i - (Len(q) - 1)]
    BY <1>1, ConcatProperties
  <2>2. \A i \in 1 .. Len(s) : s[i] \in Range(s)
    BY RangeEquality
  <2> HIDE DEF q2
  <2>3. \A i \in Len(q) .. Len(q2) : i \in 1 .. Len(q) - 1 + Len(s) /\ ~(i <= Len(q) - 1)
                                     /\ i - (Len(q) - 1) \in 1 .. Len(s)
    BY <1>1, <2>1
  <2>4. \A i \in Len(q) .. Len(q2) : q2[i] \in Range(s)
    BY <2>1, <2>2, <2>3
  <2>5. \A i \in 1 .. Len(q) - 1 : i \in 1 .. Len(q) - 1 + Len(s) /\ i <= Len(q) - 1
    BY <1>1
  <2>6. \A i \in 1 .. Len(q) - 1 : q2[i] = q[i + 1]
    BY <1>1, <2>1, <2>5
  <2> QED
    BY <2>1, <2>4, <2>6
<1>3. m \in Nat /\ 1 <= m /\ m <= Len(q) /\ 1 \in 1 .. m
  BY <1>1
<1>4. /\ n > 0 => W(n - 1) \subseteq o
      /\ o \subseteq W(n)
      /\ W(n) \subseteq o \cup {q[i] : i \in 1 .. m}
      /\ \A i \in 1 .. m : q[i] \in W(n)
      /\ \A i \in m + 1 .. Len(q) : q[i] \in W(n + 1)
  BY DEF Level
<1>5. \A v \in W(n) : \A p \in tips[v] : p \in all => p \in W(n + 1)
  BY WithinNext
<1> HIDE DEF W, q2, r
<1>6. r \in W(n)
  BY <1>1, <1>3, <1>4
<1>7. Range(s) \subseteq W(n + 1)
  BY <1>5, <1>6 DEF r
<1>8. \A i \in 1 .. m - 1 : q2[i] \in W(n)
  <2> SUFFICES ASSUME NEW i \in 1 .. m - 1 PROVE q2[i] \in W(n)
    OBVIOUS
  <2>1. i \in 1 .. Len(q) - 1 /\ i + 1 \in 1 .. m
    BY <1>1, <1>3
  <2> QED
    BY <1>2, <1>4, <2>1
<1>9. \A i \in (m - 1) + 1 .. Len(q2) : q2[i] \in W(n + 1)
  <2> SUFFICES ASSUME NEW i \in (m - 1) + 1 .. Len(q2) PROVE q2[i] \in W(n + 1)
    OBVIOUS
  <2>1. CASE i <= Len(q) - 1
    <3>1. i \in 1 .. Len(q) - 1 /\ i + 1 \in m + 1 .. Len(q)
      BY <1>1, <1>3, <2>1
    <3> QED
      BY <1>2, <1>4, <3>1
  <2>2. CASE ~(i <= Len(q) - 1)
    <3>1. i \in Len(q) .. Len(q2)
      BY <1>1, <1>3, <2>2
    <3> QED
      BY <1>2, <1>7, <3>1
  <2> QED
    BY <2>1, <2>2
<1>10. W(n) \subseteq (o \cup {r}) \cup {q2[i] : i \in 1 .. m - 1}
  <2> SUFFICES ASSUME NEW x \in W(n), x \notin o, x # r
               PROVE  x \in {q2[i] : i \in 1 .. m - 1}
    OBVIOUS
  <2>1. PICK i \in 1 .. m : x = q[i]
    BY <1>4
  <2>2. i # 1
    BY <1>1, <2>1
  <2>3. i - 1 \in 1 .. m - 1 /\ i - 1 \in 1 .. Len(q) - 1 /\ (i - 1) + 1 = i
    BY <1>1, <1>3, <2>2
  <2>4. q2[i - 1] = x
    BY <1>2, <2>1, <2>3
  <2> QED
    BY <2>3, <2>4
<1>11. (n > 0 => W(n - 1) \subseteq o \cup {r}) /\ o \cup {r} \subseteq W(n)
  BY <1>4, <1>6
<1>12. Level(tips, all, u, o \cup {r}, q2, n, m - 1)
  BY <1>8, <1>9, <1>10, <1>11 DEF Level, W
<1> QED
  BY <1>12 DEF r, q2

(* When the rows of one distance are out, those of the next are in the     *)
(* queue.                                                                  *)
LEMMA LevelNext ==
    ASSUME NEW tips, NEW all, IsFiniteSet(all), NEW u, NEW o, NEW q \in Seq(Unit),
           \A r \in o : tips[r] \cap all \subseteq o \cup Range(q),
           NEW n \in Nat, Level(tips, all, u, o, q, n, 0)
    PROVE  Level(tips, all, u, o, q, n + 1, Len(q))
<1> DEFINE W(k) == Within(tips, all, u, k)
<1>1. Len(q) \in Nat /\ Range(q) = {q[i] : i \in 1 .. Len(q)}
  BY LenProperties, RangeEquality
<1>2. \A i \in 1 .. 0 : FALSE
  OBVIOUS
<1>3. /\ o \subseteq W(n)
      /\ W(n) \subseteq o \cup {q[i] : i \in 1 .. 0}
      /\ \A i \in 0 + 1 .. Len(q) : q[i] \in W(n + 1)
  BY DEF Level
<1>4. o = W(n)
  BY <1>2, <1>3
<1>5. /\ W(n + 1) = {u} \cup (all \cap UNION {tips[v] : v \in W(n)})
      /\ W(n) \subseteq W(n + 1)
      /\ u \in W(n)
  <2>1. n \in Nat /\ n + 1 \in Nat /\ n <= n + 1 /\ 0 \in Nat /\ 0 <= n
    OBVIOUS
  <2>2. W(n) \subseteq W(n + 1) /\ W(0) \subseteq W(n)
    BY <2>1, WithinGrows
  <2>3. W(0) = {u} /\ W(n + 1) = {u} \cup (all \cap UNION {tips[v] : v \in W(n)})
    BY WithinSteps
  <2> HIDE DEF W
  <2> QED
    BY <2>2, <2>3
<1> HIDE DEF W
<1>6. W(n + 1) \subseteq o \cup {q[i] : i \in 1 .. Len(q)}
  BY <1>1, <1>4, <1>5
<1>7. \A i \in 1 .. Len(q) : q[i] \in W(n + 1)
  BY <1>1, <1>3
<1>8. \A i \in Len(q) + 1 .. Len(q) : FALSE
  BY <1>1
<1>9. (n + 1) - 1 = n
  OBVIOUS
<1> QED
  BY <1>4, <1>5, <1>6, <1>7, <1>8, <1>9 DEF Level, W

(* The query goes on: what it says of queue and output stays true.         *)
LEMMA AskingGoesOn ==
    ASSUME NEW tips, NEW t \in Tables(Unit), NEW u \in Unit,
           NEW o, NEW q \in Seq(Unit), q # << >>, Asking(tips, t, u, o, q),
           Cardinality(o) < QueryLimit,
           NEW s \in Seq(Unit),
           Range(s) = (tips[Head(q)] \cap Stored(t)) \ (o \cup Range(q))
    PROVE  Asking(tips, t, u, o \cup {Head(q)}, Tail(q) \o s)
<1> DEFINE all == Stored(t)
           r == Head(q)
           o2 == o \cup {r}
           q2 == Tail(q) \o s
<1>1. u \in all /\ Breadth(tips, all, u, o, q) /\ IsFiniteSet(all)
  BY StoredFinite DEF Asking
<1>2. /\ Len(q) \in Nat /\ Len(q) > 0 /\ Range(q) = {r} \cup Range(Tail(q))
      /\ Tail(q) \in Seq(Unit)
  <2>1. /\ Len(q) \in Nat /\ Len(q) > 0 /\ r = q[1]
        /\ Tail(q) \in Seq(Unit) /\ Len(Tail(q)) = Len(q) - 1
        /\ \A i \in 1 .. Len(q) - 1 : Tail(q)[i] = q[i + 1]
    BY LenProperties, HeadTailProperties, EmptySeq
  <2>2. Range(q) = {q[i] : i \in 1 .. Len(q)} /\ Range(Tail(q)) = {Tail(q)[i] : i \in 1 .. Len(q) - 1}
    BY <2>1, RangeEquality
  <2>3. \A i \in 1 .. Len(q) : i = 1 \/ (i - 1 \in 1 .. Len(q) - 1 /\ (i - 1) + 1 = i)
    BY <2>1
  <2>4. 1 \in 1 .. Len(q) /\ \A i \in 1 .. Len(q) - 1 : i + 1 \in 1 .. Len(q)
    BY <2>1
  <2> HIDE DEF r
  <2>5. ASSUME NEW x \in Range(q) PROVE x \in {r} \cup Range(Tail(q))
    <3>1. PICK i \in 1 .. Len(q) : x = q[i]
      BY <2>2
    <3>2. CASE i = 1
      BY <2>1, <3>1, <3>2
    <3>3. CASE i - 1 \in 1 .. Len(q) - 1 /\ (i - 1) + 1 = i
      BY <2>1, <2>2, <3>1, <3>3
    <3> QED
      BY <2>3, <3>2, <3>3
  <2>6. ASSUME NEW x \in {r} \cup Range(Tail(q)) PROVE x \in Range(q)
    <3>1. CASE x = r
      BY <2>1, <2>2, <2>4, <3>1
    <3>2. CASE x \in Range(Tail(q))
      BY <2>1, <2>2, <2>4, <3>2
    <3> QED
      BY <3>1, <3>2
  <2> QED
    BY <2>1, <2>5, <2>6
<1>3. Range(q2) = Range(Tail(q)) \cup Range(s)
  <2> DEFINE rest == Tail(q)
  <2>1. rest \in Seq(Unit) /\ s \in Seq(Unit)
    BY <1>2
  <2> HIDE DEF rest
  <2>2. Range(rest \o s) = Range(rest) \cup Range(s)
    BY <2>1, RangeConcatenation
  <2> QED
    BY <2>2 DEF rest
<1>4. \A x \in o2 : tips[x] \cap all \subseteq o2 \cup Range(q2)
  <2>1. \A x \in o : tips[x] \cap all \subseteq o \cup Range(q)
    BY <1>1 DEF Breadth
  <2> HIDE DEF q2, r, all
  <2>2. o \cup Range(q) \subseteq o2 \cup Range(q2)
    BY <1>2, <1>3
  <2>3. tips[r] \cap all \subseteq o2 \cup Range(q2)
    BY <1>2, <1>3 DEF r, all
  <2> QED
    BY <2>1, <2>2, <2>3
<1>5. Range(s) \subseteq tips[r] \cap all
  OBVIOUS
<1>6. \E n \in Nat, m \in 0 .. Len(q2) : Level(tips, all, u, o2, q2, n, m)
  <2>1. PICK n \in Nat, m \in 0 .. Len(q) : Level(tips, all, u, o, q, n, m)
    BY <1>1 DEF Breadth
  <2>2. PICK n2 \in Nat, m2 \in 1 .. Len(q) : Level(tips, all, u, o, q, n2, m2)
    <3>1. CASE m = 0
      <4>1. \A x \in o : tips[x] \cap all \subseteq o \cup Range(q)
        BY <1>1 DEF Breadth
      <4>2. Level(tips, all, u, o, q, n + 1, Len(q))
        <5> HIDE DEF all
        <5> QED
          BY <1>1, <2>1, <3>1, <4>1, LevelNext
      <4>3. n + 1 \in Nat /\ Len(q) \in 1 .. Len(q)
        BY <1>2
      <4> QED
        BY <4>2, <4>3
    <3>2. CASE m # 0
      <4>1. m \in 1 .. Len(q)
        BY <1>2, <3>2
      <4> QED
        BY <2>1, <4>1
    <3> QED
      BY <3>1, <3>2
  <2>3. Level(tips, all, u, o2, q2, n2, m2 - 1)
    <3> HIDE DEF all
    <3> QED
      BY <1>1, <1>5, <2>2, LevelHead
  <2>4. m2 - 1 \in 0 .. Len(q2)
    <3>1. Len(q2) = Len(q) - 1 + Len(s) /\ Len(s) \in Nat
      BY LenProperties, HeadTailProperties, ConcatProperties
    <3> QED
      BY <1>2, <3>1
  <2> QED
    BY <2>3, <2>4
<1>7. Cardinality(o2) <= QueryLimit
  <2>1. IsFiniteSet(o)
    <3>1. PICK n \in Nat, m \in 0 .. Len(q) : Level(tips, all, u, o, q, n, m)
      BY <1>1 DEF Breadth
    <3>2. o \subseteq Within(tips, all, u, n)
      BY <3>1 DEF Level
    <3>3. Within(tips, all, u, n) \subseteq Ancestry(tips, all, u) /\ Ancestry(tips, all, u) \subseteq all \cup {u}
      BY <1>1, AncestryClosed
    <3>4. o \subseteq all
      BY <1>1, <3>2, <3>3
    <3> HIDE DEF all
    <3> QED
      BY <1>1, <3>4, FS_Subset
  <2>2. Cardinality(o) \in Nat
    BY <2>1, FS_CardinalityType
  <2>3. QueryLimit \in Nat
    BY TriggerAssumption
  <2> QED
    <3> DEFINE k == Cardinality(o)
               l == Cardinality(o2)
    <3>1. k \in Nat /\ k < QueryLimit /\ QueryLimit \in Nat
      BY <2>2, <2>3
    <3>2. l = k \/ l = k + 1
      <4> HIDE DEF r
      <4> QED
        BY <2>1, FS_AddElement
    <3> HIDE DEF k, l
    <3>3. l <= QueryLimit
      BY <3>1, <3>2
    <3> QED
      BY <3>3 DEF l
<1>8. Breadth(tips, all, u, o2, q2)
  BY <1>4, <1>6 DEF Breadth
<1> QED
  BY <1>1, <1>7, <1>8 DEF Asking

(* The rows it has yielded in the end are an answer of QueryRows.          *)
LEMMA AskingEnds ==
    ASSUME NEW tips, NEW t \in Tables(Unit), NEW u \in Unit, u \in Stored(t),
           NEW o, NEW q \in Seq(Unit), Asking(tips, t, u, o, q),
           q = << >> \/ Cardinality(o) = QueryLimit
    PROVE  o \in QueryRows(tips, Stored(t), u, QueryLimit)
<1> DEFINE all == Stored(t)
           A == Ancestry(tips, all, u)
           W(k) == Within(tips, all, u, k)
<1>1. Breadth(tips, all, u, o, q) /\ Cardinality(o) <= QueryLimit /\ IsFiniteSet(all)
  BY StoredFinite DEF Asking
<1>2. PICK n \in Nat, m \in 0 .. Len(q) : Level(tips, all, u, o, q, n, m)
  BY <1>1 DEF Breadth
<1>3. QueryLimit \in Nat /\ QueryLimit # 0 /\ Cardinality(all) \in Nat
  BY <1>1, TriggerAssumption, FS_CardinalityType
<1> HIDE DEF all
<1>4. /\ u \in A /\ A \subseteq all \cup {u}
      /\ \A k \in Nat : W(k) \subseteq A
      /\ W(Cardinality(all)) = A
      /\ \A k, l \in Nat : k <= l => W(k) \subseteq W(l)
      /\ W(0) = {u}
  <2>1. u \in A /\ A \subseteq all \cup {u} /\ \A k \in Nat : W(k) \subseteq A
    BY <1>1, AncestryClosed
  <2>2. W(0) = {u}
    BY WithinSteps
  <2>3. \A k, l \in Nat : k <= l => W(k) \subseteq W(l)
    BY WithinGrows
  <2> QED
    BY <2>1, <2>2, <2>3 DEF Ancestry
<1>5. /\ n > 0 => W(n - 1) \subseteq o
      /\ o \subseteq W(n)
      /\ W(n) \subseteq o \cup {q[i] : i \in 1 .. m}
      /\ \A i \in 1 .. m : q[i] \in W(n)
      /\ \A i \in m + 1 .. Len(q) : q[i] \in W(n + 1)
  BY <1>2 DEF Level
<1> HIDE DEF A, W
<1>6. o \subseteq A
  BY <1>4, <1>5
<1>7. IsFiniteSet(A) /\ IsFiniteSet(o)
  <2>1. A \subseteq all
    BY <1>4 DEF all
  <2> QED
    BY <1>1, <1>6, <2>1, FS_Subset
<1>8. CASE q = << >>
  <2>1. \A r \in o : tips[r] \cap all \subseteq o
    BY <1>1, <1>8 DEF Breadth, Range
  <2>2. u \in o
    <3>1. \A i \in 1 .. m : FALSE
      BY <1>2, <1>8
    <3>2. W(n) \subseteq o
      BY <1>5, <3>1
    <3>3. 0 \in Nat /\ 0 <= n
      OBVIOUS
    <3>4. W(0) \subseteq W(n)
      BY <1>4, <3>3
    <3> QED
      BY <1>4, <3>2, <3>4
  <2>3. A \subseteq o
    BY <1>1, <2>1, <2>2, AncestryLeast DEF ClosedIn, A
  <2>4. o = A
    BY <1>6, <2>3
  <2>5. Cardinality(A) <= QueryLimit
    BY <1>1, <2>4
  <2> QED
    BY <2>4, <2>5 DEF QueryRows, A, all
<1>9. CASE Cardinality(o) = QueryLimit
  <2>1. CASE Cardinality(A) <= QueryLimit
    <3>1. Cardinality(o) \in Nat /\ Cardinality(A) \in Nat
      BY <1>7, FS_CardinalityType
    <3>2. Cardinality(o) <= Cardinality(A) /\ (Cardinality(o) = Cardinality(A) => o = A)
      BY <1>6, <1>7, FS_Subset
    <3>3. o = A
      BY <1>3, <1>9, <2>1, <3>1, <3>2
    <3> QED
      BY <2>1, <3>3 DEF QueryRows, A, all
  <2>2. CASE ~(Cardinality(A) <= QueryLimit)
    <3>1. o # {}
      BY <1>3, <1>9, FS_EmptySet
    <3>2. PICK k \in 0 .. Cardinality(all) : W(k) \subseteq o /\ o \subseteq W(k + 1)
      <4>1. CASE n = 0
        <5>1. o = {u}
          BY <1>4, <1>5, <3>1, <4>1
        <5>2. 0 \in 0 .. Cardinality(all) /\ 0 \in Nat /\ 1 \in Nat /\ 0 <= 1 /\ 0 + 1 = 1
          BY <1>3
        <5>3. W(0) \subseteq o /\ o \subseteq W(0 + 1)
          BY <1>4, <5>1, <5>2
        <5> QED
          BY <5>2, <5>3
      <4>2. CASE n > 0
        <5>1. n - 1 \in Nat /\ (n - 1) + 1 = n
          BY <4>2
        <5>2. W(n - 1) \subseteq o /\ o \subseteq W((n - 1) + 1)
          BY <1>5, <4>2, <5>1
        <5>3. n - 1 <= Cardinality(all)
          <6> SUFFICES ASSUME Cardinality(all) <= n - 1 PROVE FALSE
            BY <1>3, <5>1
          <6>1. A \subseteq W(n - 1)
            BY <1>3, <1>4, <5>1
          <6>2. o = A
            BY <1>6, <5>2, <6>1
          <6> QED
            BY <1>1, <2>2, <6>2
        <5> QED
          BY <1>3, <5>1, <5>2, <5>3
      <4> QED
        BY <4>1, <4>2
    <3>3. o \in SUBSET A
      BY <1>6
    <3> QED
      BY <1>9, <2>2, <3>2, <3>3 DEF QueryRows, A, W, all
  <2> QED
    BY <2>1, <2>2
<1> QED
  BY <1>8, <1>9

(* updateWeright credits what the query yielded, and the push is one of    *)
(* the outcomes of Pushed.                                                 *)
LEMMA EndedPushed ==
    ASSUME NEW tips, NEW b \in Tables(Unit), NEW t \in Tables(Unit), NEW u \in Unit,
           Ended(tips, b, t, u), NEW o, NEW q \in Seq(Unit), Asking(tips, t, u, o, q),
           q = << >> \/ Cardinality(o) = QueryLimit,
           NEW r, r = [t EXCEPT !.repeated = Credit(@, o, SelfWeight[u])]
    PROVE  r \in Pushed(tips, SelfWeight, QueryLimit, TriggerDepth, b, u)
<1>1. r \in UpdateWeright(tips, SelfWeight, QueryLimit, t, u)
  <2>1. CASE u \in Stored(t)
    <3>1. o \in QueryRows(tips, Stored(t), u, QueryLimit)
      BY <2>1, AskingEnds
    <3> QED
      BY <2>1, <3>1 DEF UpdateWeright
  <2>2. CASE u \notin Stored(t)
    <3>1. o = {}
      BY <2>2 DEF Asking
    <3>2. t.repeated \in [Unit -> Nat]
      BY TableFields DEF Counts
    <3>3. Credit(t.repeated, {}, SelfWeight[u]) = t.repeated
      BY <3>2 DEF Credit
    <3>4. r = [t EXCEPT !.repeated = t.repeated]
      BY <3>1, <3>3
    <3>5. t = [rows |-> t.rows, weight |-> t.weight, repeated |-> t.repeated]
      BY TableFields
    <3>6. r = t
      BY <3>4, <3>5
    <3> QED
      BY <2>2, <3>6 DEF UpdateWeright
  <2> QED
    BY <2>1, <2>2
<1>2. CASE u \in Stored(b) /\ t = b
  BY <1>1, <1>2 DEF Pushed
<1>3. CASE /\ u \notin Stored(b)
           /\ ~SurelyTooDeep(tips, Stored(b) \cup {u}, u, TriggerDepth)
           /\ t = Inserted(tips, SelfWeight, b, u)
  BY <1>1, <1>3, Zenon DEF Pushed
<1>4. CASE /\ u \notin Stored(b)
           /\ MaybeTooDeep(tips, Stored(b) \cup {u}, u, TriggerDepth)
           /\ t = b
  BY <1>1, <1>4, Zenon DEF Pushed
<1> QED
  BY <1>2, <1>3, <1>4 DEF Ended

----------------------------------------------------------------------------
(* The triggers.                                                           *)

(* The frames of the triggers.                                             *)
FrameSet == [tips : Seq(Unit \cup {Zero}), weight : Nat, hash : Unit]

(* A frame of the trigger on row r.                                        *)
IsFrame(f, tips, r, w, h) ==
    /\ f \in FrameSet
    /\ f.weight = w /\ f.hash = h
    /\ Range(f.tips) \subseteq tips[r] \cup {Zero}
    /\ tips[r] \subseteq Range(f.tips)

(* The innermost frame goes on to its next tip.                            *)
Popped(st2, st, p) ==
    /\ st2 \in Seq(FrameSet) /\ Len(st2) = Len(st) /\ Len(st) \in Nat /\ Len(st) > 0
    /\ \A k \in 1 .. Len(st) :
          /\ st2[k].hash = st[k].hash /\ st2[k].weight = st[k].weight
          /\ Range(st2[k].tips) \subseteq Range(st[k].tips)
          /\ Range(st[k].tips) \subseteq Range(st2[k].tips) \cup {p}
    /\ p \in Range(st[Len(st)].tips)

(* Taking the tip from its frame does that.                                *)
LEMMA PopTip ==
    ASSUME NEW st \in Seq(FrameSet), st # << >>, st[Len(st)].tips # << >>,
           NEW p, p = Head(st[Len(st)].tips),
           NEW st2, st2 = [st EXCEPT ![Len(st)].tips = Tail(@)]
    PROVE  Popped(st2, st, p)
<1> DEFINE L == Len(st)
           f == st[L]
           g == [f EXCEPT !.tips = Tail(f.tips)]
<1>1. /\ L \in Nat /\ L > 0 /\ L \in 1 .. L /\ DOMAIN st = 1 .. L
      /\ \A k \in 1 .. L : st[k] \in FrameSet
  BY LenProperties, ElementOfSeq, EmptySeq
<1>2. /\ f.tips \in Seq(Unit \cup {Zero}) /\ f.weight \in Nat /\ f.hash \in Unit
      /\ f = [tips |-> f.tips, weight |-> f.weight, hash |-> f.hash]
  BY <1>1 DEF FrameSet
<1>3. st2 = [st EXCEPT ![L] = g]
  BY <1>1
<1> HIDE DEF g, L
<1>4. Len(st2) = L /\ st2[L] = g /\ \A k \in 1 .. L : k # L => st2[k] = st[k]
  BY <1>1, <1>3, ExceptSeq
<1> DEFINE s == f.tips
<1>5. /\ Tail(s) \in Seq(Unit \cup {Zero})
      /\ Range(s) = {Head(s)} \cup Range(Tail(s))
  <2>1. s # << >>
    BY DEF L
  <2> HIDE DEF s
  <2>2. s \in Seq(Unit \cup {Zero})
    BY <1>2 DEF s
  <2>3. /\ Len(s) \in Nat /\ Len(s) > 0 /\ Head(s) = s[1]
        /\ Tail(s) \in Seq(Unit \cup {Zero}) /\ Len(Tail(s)) = Len(s) - 1
        /\ \A i \in 1 .. Len(s) - 1 : Tail(s)[i] = s[i + 1]
    BY <2>1, <2>2, LenProperties, HeadTailProperties, EmptySeq
  <2>4. Range(s) = {s[i] : i \in 1 .. Len(s)} /\ Range(Tail(s)) = {Tail(s)[i] : i \in 1 .. Len(s) - 1}
    BY <2>2, <2>3, RangeEquality
  <2>5. \A i \in 1 .. Len(s) : i = 1 \/ (i - 1 \in 1 .. Len(s) - 1 /\ (i - 1) + 1 = i)
    BY <2>3
  <2>6. 1 \in 1 .. Len(s) /\ \A i \in 1 .. Len(s) - 1 : i + 1 \in 1 .. Len(s)
    BY <2>3
  <2>7. ASSUME NEW x \in Range(s) PROVE x \in {Head(s)} \cup Range(Tail(s))
    <3>1. PICK i \in 1 .. Len(s) : x = s[i]
      BY <2>4
    <3>2. CASE i = 1
      BY <2>3, <3>1, <3>2
    <3>3. CASE i - 1 \in 1 .. Len(s) - 1 /\ (i - 1) + 1 = i
      BY <2>3, <2>4, <3>1, <3>3
    <3> QED
      BY <2>5, <3>2, <3>3
  <2>8. ASSUME NEW x \in {Head(s)} \cup Range(Tail(s)) PROVE x \in Range(s)
    <3>1. CASE x = Head(s)
      BY <2>3, <2>4, <2>6, <3>1
    <3>2. CASE x \in Range(Tail(s))
      BY <2>3, <2>4, <2>6, <3>2
    <3> QED
      BY <3>1, <3>2
  <2> QED
    BY <2>3, <2>7, <2>8
<1>6. g = [tips |-> Tail(s), weight |-> f.weight, hash |-> f.hash] /\ p = Head(s)
  <2>1. g = [f EXCEPT !.tips = Tail(f.tips)]
    BY DEF g
  <2>2. p = Head(f.tips)
    BY DEF L
  <2> HIDE DEF f, g
  <2> QED
    BY <1>2, <2>1, <2>2
<1>7. /\ g \in FrameSet /\ g.hash = f.hash /\ g.weight = f.weight /\ g.tips = Tail(s)
  BY <1>2, <1>5, <1>6 DEF FrameSet
<1>8. st2 \in Seq(FrameSet)
  <2>1. \A i \in 1 .. Len(st) : \A e \in FrameSet : [st EXCEPT ![i] = e] \in Seq(FrameSet)
    BY ExceptSeq
  <2>2. L \in 1 .. Len(st) /\ g \in FrameSet
    BY <1>1, <1>7 DEF L
  <2>3. [st EXCEPT ![L] = g] \in Seq(FrameSet)
    BY <2>1, <2>2
  <2> QED
    BY <1>3, <2>3
<1>9. p \in Range(s) /\ Range(g.tips) \subseteq Range(s) /\ Range(s) \subseteq Range(g.tips) \cup {p}
  BY <1>5, <1>6, <1>7
<1> HIDE DEF f
<1>10. ASSUME NEW k \in 1 .. L
       PROVE  /\ st2[k].hash = st[k].hash /\ st2[k].weight = st[k].weight
              /\ Range(st2[k].tips) \subseteq Range(st[k].tips)
              /\ Range(st[k].tips) \subseteq Range(st2[k].tips) \cup {p}
  <2>1. CASE k = L
    <3>1. st2[k] = g /\ st[k] = f
      BY <1>4, <2>1 DEF f
    <3> QED
      BY <1>7, <1>9, <3>1
  <2>2. CASE k # L
    BY <1>4, <2>2
  <2> QED
    BY <2>1, <2>2
<1> QED
  BY <1>1, <1>4, <1>8, <1>9, <1>10 DEF Popped, L, f

(* A walk is no longer than there are rows: each row is older than the one *)
(* it is reached from.                                                     *)
LEMMA HopsBounded ==
    ASSUME NEW tips, Older(tips), NEW all \in SUBSET Unit, IsFiniteSet(all), NEW u \in all,
           NEW n \in Nat, Hops(tips, all, u)[n] # {}
    PROVE  n <= Cardinality(all)
<1> DEFINE hop == Hops(tips, all, u)
           Newer(x) == {y \in all : x < y}
           G == {k \in Nat : \A x \in hop[k] : k <= Cardinality(Newer(x))}
<1>1. /\ \A k \in Nat : hop[k] \subseteq all
      /\ \A k \in Nat : hop[k + 1] = all \cap UNION {tips[v] : v \in hop[k]}
  <2>1. hop \in [Nat -> SUBSET (all \cup {u})] /\ all \cup {u} = all
        /\ \A k \in Nat : hop[k + 1] = all \cap UNION {tips[v] : v \in hop[k]}
    BY HopsSteps
  <2> QED
    BY <2>1
<1>2. \A x : IsFiniteSet(Newer(x)) /\ Cardinality(Newer(x)) \in Nat /\ Cardinality(Newer(x)) <= Cardinality(all)
  BY FS_Subset, FS_CardinalityType
<1> HIDE DEF hop
<1>3. 0 \in G
  <2>1. \A x : 0 <= Cardinality(Newer(x))
    BY <1>2
  <2> QED
    BY <2>1
<1>4. ASSUME NEW k \in Nat, k \in G PROVE k + 1 \in G
  <2> SUFFICES ASSUME NEW x \in hop[k + 1] PROVE k + 1 <= Cardinality(Newer(x))
    OBVIOUS
  <2>1. PICK v \in hop[k] : x \in tips[v] /\ x \in all
    BY <1>1
  <2>2. v \in all /\ x < v /\ x \in Nat /\ v \in Nat /\ all \subseteq Nat
    BY <1>1, <2>1, TriggerAssumption DEF Older
  <2>3. k <= Cardinality(Newer(v))
    BY <1>4
  <2> DEFINE B == Newer(v)
             C == Newer(x)
  <2>4. v \notin B /\ B \cup {v} \subseteq C
    <3>1. ~(v < v)
      BY <2>2
    <3>2. \A y \in all : v < y => x < y
      BY <2>2
    <3> QED
      BY <2>2, <3>1, <3>2
  <2>5. IsFiniteSet(B) /\ IsFiniteSet(C) /\ Cardinality(B) \in Nat /\ Cardinality(C) \in Nat
    BY <1>2
  <2> HIDE DEF B, C, Newer
  <2>6. IsFiniteSet(B \cup {v}) /\ Cardinality(B \cup {v}) = Cardinality(B) + 1
    BY <2>4, <2>5, FS_AddElement
  <2>7. Cardinality(B \cup {v}) <= Cardinality(C)
    BY <2>4, <2>5, FS_Subset
  <2>8. k <= Cardinality(B)
    BY <2>3 DEF B
  <2>9. k + 1 <= Cardinality(C)
    BY <2>5, <2>6, <2>7, <2>8
  <2> QED
    BY <2>9 DEF C
<1>5. n \in G
  <2> HIDE DEF G
  <2> QED
    BY <1>3, <1>4, AllNaturals
<1>6. PICK x : x \in hop[n]
  BY DEF hop
<1>7. n <= Cardinality(Newer(x)) /\ Cardinality(all) \in Nat
  BY <1>5, <1>6, FS_CardinalityType
<1> HIDE DEF Newer
<1> QED
  BY <1>2, <1>7

(* What the SQL of the INSERT and of a trigger frame does to the columns.  *)
RowAdded(t, b, u) ==
    t = [b EXCEPT !.rows = Append(@, u), !.weight[u] = @ + SelfWeight[u]]

(* The row p gets the weight of u.                                         *)
RowRaised(t2, t, p, u) == t2 = [t EXCEPT !.weight[p] = @ + SelfWeight[u]]

(* The row p is marked with u.                                             *)
Touched(hb2, hb, p, u) == hb2 = [hb EXCEPT ![p] = u]

(* The INSERT opens the first frame.                                       *)
LEMMA WalkStarts ==
    ASSUME NEW tips, NEW b \in Tables(Unit), NEW u \in Unit, u \notin Stored(b),
           NEW old \in [Unit -> Unit \cup {Zero}], Settled(b, old),
           NEW t \in Tables(Unit), RowAdded(t, b, u), NEW hb, Touched(hb, old, u, u),
           NEW f, IsFrame(f, tips, u, SelfWeight[u], u)
    PROVE  Walk(tips, t, hb, b, <<f>>, u)
<1> DEFINE st == <<f>>
           all == Stored(t)
<1>1. /\ b.rows \in Seq(Unit) /\ b.weight \in [Unit -> Nat]
      /\ b = [rows |-> b.rows, weight |-> b.weight, repeated |-> b.repeated]
  BY TableFields DEF Counts
<1>2. /\ t.rows = Append(b.rows, u) /\ t.repeated = b.repeated
      /\ t.weight = [b.weight EXCEPT ![u] = b.weight[u] + SelfWeight[u]]
  BY <1>1 DEF RowAdded
<1>3. \A v \in Unit : hb[v] = u <=> v = u
  <2>1. u # Zero
    BY TriggerAssumption
  <2>2. \A v \in Unit : v # u => hb[v] = old[v] /\ hb[u] = u
    BY DEF Touched
  <2> QED
    BY <2>1, <2>2 DEF Settled, Touched
<1>4. Counted(t, hb, b, u)
  <2>1. SelfWeight[u] \in Nat /\ \A v \in Unit : b.weight[v] \in Nat
    BY <1>1, TriggerAssumption
  <2>2. \A v \in Unit : t.weight[v] = IF v = u THEN b.weight[u] + SelfWeight[u] ELSE b.weight[v]
    BY <1>1, <1>2
  <2>3. \A v \in Unit : t.weight[v] = b.weight[v] + IF hb[v] = u THEN SelfWeight[u] ELSE 0
    BY <1>3, <2>1, <2>2
  <2> QED
    BY <1>2, <2>3 DEF Counted
<1>5. Len(st) = 1 /\ st[1] = f /\ 1 \in 1 .. Len(st)
  OBVIOUS
<1> HIDE DEF st, all
<1>6. Frames(tips, all, st, u)
  <2>1. Hops(tips, all, u)[0] = {u}
    BY HopsSteps
  <2> SUFFICES ASSUME NEW k \in 1 .. Len(st)
               PROVE  /\ st[k].hash = u /\ st[k].weight = SelfWeight[u]
                      /\ \E r \in Hops(tips, all, u)[k - 1] : Range(st[k].tips) \subseteq tips[r] \cup {Zero}
    BY DEF Frames
  <2>2. k = 1 /\ k - 1 = 0
    BY <1>5
  <2> QED
    BY <1>5, <2>1, <2>2 DEF IsFrame
<1>7. Marks(tips, all, hb, st, u)
  <2>1. u \in Within(tips, all, u, TriggerDepth - 2)
    <3> DEFINE d == TriggerDepth - 2
    <3>1. d \in Nat
      BY TriggerAssumption
    <3> HIDE DEF d
    <3>2. u \in Within(tips, all, u, d)
      BY <3>1, WithinSteps
    <3> QED
      BY <3>2 DEF d
  <2>2. \A p \in tips[u] : Pending(st, p)
    BY <1>5 DEF Pending, IsFrame
  <2> QED
    BY <1>3, <2>1, <2>2 DEF Marks
<1> QED
  BY <1>4, <1>6, <1>7 DEF Walk, all, st

(* A tip that is not stored or was marked before: the frame goes on.       *)
LEMMA WalkSkips ==
    ASSUME NEW tips, NEW t, NEW hb, NEW b, NEW st, NEW u,
           Walk(tips, t, hb, b, st, u), NEW st2, NEW p, Popped(st2, st, p),
           p \notin Stored(t) \/ hb[p] = u
    PROVE  Walk(tips, t, hb, b, st2, u)
<1> DEFINE all == Stored(t)
<1>1. Counted(t, hb, b, u) /\ Frames(tips, all, st, u) /\ Marks(tips, all, hb, st, u)
  BY DEF Walk
<1> HIDE DEF all
<1>2. Frames(tips, all, st2, u)
  <2> SUFFICES ASSUME NEW k \in 1 .. Len(st)
               PROVE  /\ st2[k].hash = u /\ st2[k].weight = SelfWeight[u]
                      /\ \E r \in Hops(tips, all, u)[k - 1] : Range(st2[k].tips) \subseteq tips[r] \cup {Zero}
    BY DEF Frames, Popped
  <2>1. /\ st2[k].hash = st[k].hash /\ st2[k].weight = st[k].weight
        /\ Range(st2[k].tips) \subseteq Range(st[k].tips)
    BY DEF Popped
  <2>2. /\ st[k].hash = u /\ st[k].weight = SelfWeight[u]
        /\ \E r \in Hops(tips, all, u)[k - 1] : Range(st[k].tips) \subseteq tips[r] \cup {Zero}
    BY <1>1 DEF Frames
  <2> QED
    BY <2>1, <2>2
<1>3. \A x : Pending(st, x) => x = p \/ Pending(st2, x)
  BY DEF Pending, Popped
<1>4. Marks(tips, all, hb, st2, u)
  BY <1>1, <1>3 DEF Marks, all
<1> QED
  BY <1>1, <1>2, <1>4 DEF Walk, all

(* The row the innermost frame comes to is one hop further.                *)
LEMMA FrameHops ==
    ASSUME NEW tips, NEW t \in Tables(Unit), NEW u, NEW st, Frames(tips, Stored(t), st, u),
           NEW st2, NEW p, Popped(st2, st, p), p \in Stored(t)
    PROVE  p \in Hops(tips, Stored(t), u)[Len(st)]
<1> DEFINE all == Stored(t)
           L == Len(st)
<1>1. L \in Nat /\ L \in 1 .. L /\ L - 1 \in Nat /\ (L - 1) + 1 = L /\ p \in Range(st[L].tips)
  BY DEF Popped
<1>2. p \in Unit /\ p # Zero
  BY StoredFinite, TriggerAssumption
<1>3. \A n \in Nat : Hops(tips, all, u)[n + 1] = all \cap UNION {tips[v] : v \in Hops(tips, all, u)[n]}
  BY HopsSteps
<1> DEFINE hop == Hops(tips, all, u)
<1>4. PICK r \in hop[L - 1] : Range(st[L].tips) \subseteq tips[r] \cup {Zero}
  BY <1>1 DEF Frames
<1>5. p \in tips[r]
  BY <1>1, <1>2, <1>4
<1>6. hop[(L - 1) + 1] = all \cap UNION {tips[v] : v \in hop[L - 1]}
  BY <1>1, <1>3
<1> HIDE DEF hop, L
<1>7. p \in hop[(L - 1) + 1]
  BY <1>5, <1>6
<1> QED
  BY <1>1, <1>7 DEF hop, L

(* A row is marked and opens a frame of its own.                           *)
LEMMA WalkReaches ==
    ASSUME NEW tips, NEW t \in Tables(Unit), NEW hb \in [Unit -> Unit \cup {Zero}],
           NEW b \in Tables(Unit), NEW st, NEW u \in Unit,
           Walk(tips, t, hb, b, st, u), NEW st2, NEW p, Popped(st2, st, p),
           p \in Stored(t), hb[p] # u, Len(st) + 2 <= TriggerDepth,
           NEW t2, RowRaised(t2, t, p, u), NEW hb2, Touched(hb2, hb, p, u),
           NEW f, IsFrame(f, tips, p, SelfWeight[u], u)
    PROVE  Walk(tips, t2, hb2, b, Append(st2, f), u)
<1> DEFINE all == Stored(t)
           L == Len(st)
           st3 == Append(st2, f)
<1>1. Counted(t, hb, b, u) /\ Frames(tips, all, st, u) /\ Marks(tips, all, hb, st, u)
  BY DEF Walk
<1>2. p \in Hops(tips, all, u)[L] /\ p \in Unit
  BY <1>1, FrameHops, StoredFinite
<1>3. /\ L \in Nat /\ L > 0 /\ st2 \in Seq(FrameSet) /\ Len(st2) = L /\ f \in FrameSet
  BY DEF Popped, IsFrame
<1>4. /\ Len(st3) = L + 1 /\ st3[L + 1] = f
      /\ \A k \in 1 .. L : st3[k] = st2[k]
  BY <1>3, AppendProperties
<1>5. /\ t2.rows = t.rows /\ t2.repeated = t.repeated
      /\ t2.weight = [t.weight EXCEPT ![p] = t.weight[p] + SelfWeight[u]]
      /\ Stored(t2) = all
  <2>1. t = [rows |-> t.rows, weight |-> t.weight, repeated |-> t.repeated]
    BY TableFields
  <2>2. /\ t2.rows = t.rows /\ t2.repeated = t.repeated
        /\ t2.weight = [t.weight EXCEPT ![p] = t.weight[p] + SelfWeight[u]]
    BY <2>1 DEF RowRaised
  <2> QED
    BY <2>2 DEF Stored
<1> HIDE DEF st3, L, all
<1>6. Counted(t2, hb2, b, u)
  <2>1. /\ t.weight \in [Unit -> Nat] /\ b.weight \in [Unit -> Nat] /\ SelfWeight[u] \in Nat
    BY TableFields, TriggerAssumption DEF Counts
  <2>2. ASSUME NEW v \in Unit
        PROVE  t2.weight[v] = b.weight[v] + IF hb2[v] = u THEN SelfWeight[u] ELSE 0
    <3>1. t.weight[v] = b.weight[v] + IF hb[v] = u THEN SelfWeight[u] ELSE 0
      BY <1>1 DEF Counted
    <3>2. CASE v = p
      <4>1. t2.weight[v] = t.weight[p] + SelfWeight[u] /\ hb2[v] = u /\ b.weight[v] \in Nat
        BY <1>2, <1>5, <2>1, <3>2 DEF Touched
      <4>2. t.weight[p] = b.weight[p]
        BY <2>1, <3>1, <3>2
      <4> QED
        BY <3>2, <4>1, <4>2
    <3>3. CASE v # p
      <4>1. t2.weight[v] = t.weight[v] /\ hb2[v] = hb[v]
        BY <1>2, <1>5, <2>1, <3>3 DEF Touched
      <4> QED
        BY <3>1, <4>1
    <3> QED
      BY <3>2, <3>3
  <2> QED
    BY <1>1, <1>5, <2>2 DEF Counted
<1>7. Frames(tips, all, st3, u)
  <2> SUFFICES ASSUME NEW k \in 1 .. Len(st3)
               PROVE  /\ st3[k].hash = u /\ st3[k].weight = SelfWeight[u]
                      /\ \E r \in Hops(tips, all, u)[k - 1] : Range(st3[k].tips) \subseteq tips[r] \cup {Zero}
    BY DEF Frames
  <2>1. CASE k = L + 1
    <3>1. k - 1 = L /\ st3[k] = f
      BY <1>3, <1>4, <2>1
    <3> QED
      BY <1>2, <3>1 DEF IsFrame
  <2>2. CASE k # L + 1
    <3>1. k \in 1 .. L
      BY <1>3, <1>4, <2>2
    <3>2. /\ st3[k].hash = st[k].hash /\ st3[k].weight = st[k].weight
          /\ Range(st3[k].tips) \subseteq Range(st[k].tips)
      BY <1>4, <3>1 DEF Popped, L
    <3>3. /\ st[k].hash = u /\ st[k].weight = SelfWeight[u]
          /\ \E r \in Hops(tips, all, u)[k - 1] : Range(st[k].tips) \subseteq tips[r] \cup {Zero}
      BY <1>1, <3>1 DEF Frames, L
    <3> QED
      BY <3>2, <3>3
  <2> QED
    BY <2>1, <2>2
<1>8. \A x : Pending(st, x) => x = p \/ Pending(st3, x)
  <2> SUFFICES ASSUME NEW x, Pending(st, x), x # p PROVE Pending(st3, x)
    OBVIOUS
  <2>1. PICK k \in 1 .. L : x \in Range(st[k].tips)
    BY DEF Pending, L
  <2>2. x \in Range(st3[k].tips)
    BY <1>4, <2>1 DEF Popped, L
  <2>3. k \in 1 .. Len(st3)
    BY <1>3, <1>4
  <2> QED
    BY <2>2, <2>3 DEF Pending
<1>9. \A x \in tips[p] : Pending(st3, x)
  <2>1. L + 1 \in 1 .. Len(st3)
    BY <1>3, <1>4
  <2> QED
    BY <1>4, <2>1 DEF Pending, IsFrame
<1>10. p \in Within(tips, all, u, TriggerDepth - 2)
  <2>1. TriggerDepth \in Nat /\ TriggerDepth - 2 \in Nat /\ L <= TriggerDepth - 2
    BY <1>3, TriggerAssumption DEF L
  <2>2. L \in 0 .. TriggerDepth - 2
    BY <1>3, <2>1
  <2> QED
    BY <1>2, <2>2 DEF Within
<1>11. Marks(tips, all, hb2, st3, u)
  <2>1. hb[u] = u /\ hb2[u] = u
    BY <1>1, <1>2 DEF Marks, Touched
  <2>2. ASSUME NEW v \in Unit, hb2[v] = u
        PROVE  /\ v \in Within(tips, all, u, TriggerDepth - 2)
               /\ \A x \in tips[v] \cap all : hb2[x] = u \/ Pending(st3, x)
    <3>1. CASE v = p
      BY <1>9, <1>10, <3>1
    <3>2. CASE v # p
      <4>1. hb[v] = u
        BY <2>2, <3>2 DEF Touched
      <4>2. /\ v \in Within(tips, all, u, TriggerDepth - 2)
            /\ \A x \in tips[v] \cap all : hb[x] = u \/ Pending(st, x)
        BY <1>1, <4>1 DEF Marks
      <4>3. \A x \in all : hb[x] = u \/ x = p => hb2[x] = u
        <5>1. all \subseteq Unit
          BY StoredFinite DEF all
        <5> QED
          BY <5>1 DEF Touched
      <4> QED
        BY <1>8, <4>2, <4>3
    <3> QED
      BY <3>1, <3>2
  <2> QED
    BY <2>1, <2>2 DEF Marks
<1> QED
  BY <1>5, <1>6, <1>7, <1>11 DEF Walk, all, st3

(* A frame that has come to its end.                                       *)
LEMMA WalkReturns ==
    ASSUME NEW tips, NEW t, NEW hb, NEW b, NEW st \in Seq(FrameSet), NEW u,
           Walk(tips, t, hb, b, st, u), st # << >>, st[Len(st)].tips = << >>
    PROVE  Walk(tips, t, hb, b, Front(st), u) /\ Front(st) \in Seq(FrameSet) /\ Len(Front(st)) < Len(st)
<1> DEFINE all == Stored(t)
           L == Len(st)
           st2 == Front(st)
<1>1. Counted(t, hb, b, u) /\ Frames(tips, all, st, u) /\ Marks(tips, all, hb, st, u)
  BY DEF Walk
<1>2. /\ L \in Nat /\ L > 0 /\ st2 \in Seq(FrameSet) /\ Len(st2) = L - 1
      /\ \A k \in 1 .. L - 1 : st2[k] = st[k]
  <2>1. L \in Nat /\ L > 0
    BY LenProperties, EmptySeq
  <2>2. st2 = SubSeq(st, 1, L - 1)
    BY DEF Front
  <2>3. /\ 1 \in Int /\ L - 1 \in Int
        /\ \A i \in 1 .. L - 1 : st[i] \in FrameSet
    <3>1. \A i \in 1 .. L : st[i] \in FrameSet
      BY <2>1, ElementOfSeq
    <3> QED
      BY <2>1, <3>1
  <2> DEFINE m == L - 1
             F == FrameSet
             sub == SubSeq(st, 1, m)
  <2>4. /\ sub \in Seq(F)
        /\ Len(sub) = IF 1 <= m THEN m - 1 + 1 ELSE 0
        /\ \A k \in 1 .. m - 1 + 1 : sub[k] = st[1 + k - 1]
    <3> HIDE DEF L, F
    <3>1. st \in Seq(F) /\ 1 \in Int /\ m \in Int /\ \A i \in 1 .. m : st[i] \in F
      BY <2>3 DEF F
    <3> HIDE DEF m
    <3> QED
      BY ONLY <3>1, SubSeqProperties
  <2>5. m \in Nat
    BY <2>1
  <2> HIDE DEF L, F, sub
  <2>6. Len(sub) = m
    BY <2>4, <2>5
  <2>7. \A k \in 1 .. m : sub[k] = st[k]
    <3> HIDE DEF m
    <3> SUFFICES ASSUME NEW k \in 1 .. m PROVE sub[k] = st[k]
      OBVIOUS
    <3>1. k \in 1 .. m - 1 + 1 /\ 1 + k - 1 = k
      BY <2>5
    <3> QED
      BY <2>4, <3>1
  <2> QED
    BY <2>1, <2>2, <2>4, <2>6, <2>7 DEF sub, F
<1>3. \A k \in 1 .. L - 1 : k \in 1 .. L
  BY <1>2
<1>4. \A x : x \notin Range(st[L].tips)
  BY DEF Range
<1> HIDE DEF st2, L, all
<1>5. Frames(tips, all, st2, u)
  BY <1>1, <1>2, <1>3 DEF Frames, L
<1>6. \A x : Pending(st, x) => Pending(st2, x)
  <2> SUFFICES ASSUME NEW x, Pending(st, x) PROVE Pending(st2, x)
    OBVIOUS
  <2>1. PICK k \in 1 .. L : x \in Range(st[k].tips)
    BY DEF Pending, L
  <2>2. k # L
    BY <1>4, <2>1
  <2>3. k \in 1 .. L - 1
    BY <1>2, <2>2
  <2> QED
    BY <1>2, <2>1, <2>3 DEF Pending
<1>7. Marks(tips, all, hb, st2, u)
  BY <1>1, <1>6 DEF Marks
<1>8. Len(st2) < L
  BY <1>2
<1> QED
  BY <1>1, <1>2, <1>5, <1>7, <1>8 DEF Walk, all, st2, L

(* The row that is being inserted is there already.                        *)
LEMMA CountedStored ==
    ASSUME NEW t, NEW hb, NEW b \in Tables(Unit), NEW u \in Unit, Counted(t, hb, b, u)
    PROVE  /\ Stored(t) = Stored(b) \cup {u} /\ u \notin Stored(b) /\ u \in Stored(t)
           /\ IsFiniteSet(Stored(t)) /\ Stored(t) \subseteq Unit
<1>1. t.rows = Append(b.rows, u) /\ b.rows \in Seq(Unit) /\ u \notin Stored(b)
  BY TableFields DEF Counted
<1> DEFINE r == b.rows
<1>2. Range(Append(r, u)) = Range(r) \cup {u}
  <2>1. r \in Seq(Unit)
    BY <1>1
  <2> HIDE DEF r
  <2> QED
    BY <2>1, AppendRange
<1>3. Stored(t) = Stored(b) \cup {u}
  BY <1>1, <1>2 DEF Stored
<1>4. IsFiniteSet(Stored(b)) /\ Stored(b) \subseteq Unit
  BY StoredFinite
<1>5. IsFiniteSet(Stored(b) \cup {u})
  <2> DEFINE S == Stored(b)
  <2>1. IsFiniteSet(S)
    BY <1>4
  <2> HIDE DEF S
  <2>2. IsFiniteSet(S \cup {u})
    BY <2>1, FS_AddElement
  <2> QED
    BY <2>2 DEF S
<1> QED
  BY <1>1, <1>3, <1>4, <1>5

(* w is c with x more for the rows of S.                                   *)
Credited(w, c, S, x) == w = Credit(c, S, x)

(* Credit adds the weight to the rows of S.                                *)
LEMMA CreditedEach ==
    ASSUME NEW c \in Counts(Unit), NEW w \in Counts(Unit), NEW S, NEW x \in Nat,
           \A v \in Unit : w[v] = c[v] + IF v \in S THEN x ELSE 0
    PROVE  Credited(w, c, S, x)
<1>1. /\ c \in [Unit -> Nat] /\ w \in [Unit -> Nat]
  BY DEF Counts
<1>2. w = [v \in Unit |-> w[v]]
  BY <1>1
<1>3. \A v \in Unit : w[v] = IF v \in S THEN c[v] + x ELSE c[v]
  BY <1>1
<1>4. w = [v \in Unit |-> IF v \in S THEN c[v] + x ELSE c[v]]
  BY <1>2, <1>3, Zenon
<1>5. DOMAIN c = Unit
  BY <1>1
<1> QED
  BY <1>4, <1>5 DEF Credited, Credit

(* The triggers have run to their end: every row of the ancestry, and no   *)
(* other, has got the weight once.                                         *)
LEMMA WalkEnds ==
    ASSUME NEW tips, NEW t \in Tables(Unit), NEW hb, NEW b \in Tables(Unit), NEW u \in Unit,
           Walk(tips, t, hb, b, << >>, u)
    PROVE  Ended(tips, b, t, u)
<1> DEFINE all == Stored(t)
           A == Ancestry(tips, all, u)
           near == Within(tips, all, u, TriggerDepth - 2)
           marked == {v \in Unit : hb[v] = u}
<1>1. Counted(t, hb, b, u) /\ Marks(tips, all, hb, << >>, u)
  BY DEF Walk
<1>2. all = Stored(b) \cup {u} /\ IsFiniteSet(all) /\ all \subseteq Unit /\ u \notin Stored(b)
  BY <1>1, CountedStored
<1>3. u \in A /\ A \subseteq all \cup {u} /\ near \subseteq A
  <2> DEFINE d == TriggerDepth - 2
  <2>1. d \in Nat
    BY TriggerAssumption
  <2> HIDE DEF d, all
  <2>2. u \in A /\ A \subseteq all \cup {u} /\ Within(tips, all, u, d) \subseteq A
    BY <1>2, <2>1, AncestryClosed
  <2> QED
    BY <2>2 DEF d
<1> HIDE DEF all
<1>4. marked \subseteq near /\ u \in marked
  BY <1>1 DEF Marks
<1>5. \A v \in marked : tips[v] \cap all \subseteq marked
  <2>1. \A x : ~Pending(<< >>, x)
    BY DEF Pending
  <2> QED
    BY <1>1, <1>2, <2>1 DEF Marks
<1> HIDE DEF marked, near
<1>6. A \subseteq marked
  BY <1>2, <1>4, <1>5, AncestryLeast DEF ClosedIn
<1>7. A = marked /\ A = near
  BY <1>3, <1>4, <1>6
<1>8. ~SurelyTooDeep(tips, all, u, TriggerDepth)
  BY <1>7 DEF SurelyTooDeep, near
<1>9. t.weight = Credit(b.weight, A, SelfWeight[u])
  <2>1. t.weight \in Counts(Unit) /\ b.weight \in Counts(Unit) /\ SelfWeight[u] \in Nat
    BY TableFields, SelfCounts DEF Counts
  <2>2. \A v \in Unit : t.weight[v] = b.weight[v] + IF v \in A THEN SelfWeight[u] ELSE 0
    BY <1>1, <1>7 DEF Counted, marked
  <2> HIDE DEF A
  <2>3. Credited(t.weight, b.weight, A, SelfWeight[u])
    BY <2>1, <2>2, CreditedEach
  <2> QED
    BY <2>3 DEF Credited
<1>10. t = Inserted(tips, SelfWeight, b, u)
  <2>1. IsInserted(Inserted(tips, SelfWeight, b, u), Unit, tips, SelfWeight, b, u)
    BY SelfCounts, InsertedShape
  <2> DEFINE i == Inserted(tips, SelfWeight, b, u)
  <2>2. /\ i \in Tables(Unit) /\ i.rows = Append(b.rows, u) /\ i.repeated = b.repeated
        /\ i.weight = Credit(b.weight, A, SelfWeight[u])
    BY <1>2, <2>1 DEF IsInserted
  <2> HIDE DEF i
  <2>3. /\ t = [rows |-> t.rows, weight |-> t.weight, repeated |-> t.repeated]
        /\ i = [rows |-> i.rows, weight |-> i.weight, repeated |-> i.repeated]
    BY <2>2, TableFields
  <2>4. t.rows = i.rows /\ t.weight = i.weight /\ t.repeated = i.repeated
    BY <1>1, <1>9, <2>2 DEF Counted
  <2>5. t = i
    BY <2>3, <2>4
  <2> QED
    BY <2>5 DEF i
<1> QED
  BY <1>2, <1>8, <1>10 DEF Ended

(* The next frame would be one too many: there is a walk as long as that.  *)
LEMMA WalkTooDeep ==
    ASSUME NEW tips, Older(tips), NEW t \in Tables(Unit), NEW hb, NEW b \in Tables(Unit),
           NEW u \in Unit, NEW st, Walk(tips, t, hb, b, st, u),
           NEW st2, NEW p, Popped(st2, st, p), p \in Stored(t), ~(Len(st) + 2 <= TriggerDepth)
    PROVE  Ended(tips, b, b, u)
<1> DEFINE all == Stored(t)
           L == Len(st)
<1>1. Counted(t, hb, b, u) /\ Frames(tips, all, st, u)
  BY DEF Walk
<1>2. all = Stored(b) \cup {u} /\ IsFiniteSet(all) /\ all \subseteq Unit /\ u \notin Stored(b)
  BY <1>1, CountedStored
<1>3. p \in Hops(tips, all, u)[L]
  BY <1>1, FrameHops
<1>4. L \in Nat /\ TriggerDepth \in Nat
  BY TriggerAssumption DEF Popped
<1>5. u \in all /\ Hops(tips, all, u)[L] # {}
  BY <1>2, <1>3
<1> HIDE DEF L
<1>6. L <= Cardinality(all) /\ Cardinality(all) \in Nat
  <2> HIDE DEF all
  <2> QED
    BY <1>2, <1>4, <1>5, HopsBounded, FS_CardinalityType
<1>7. L \in 0 .. Cardinality(all) /\ L + 2 > TriggerDepth
  BY <1>4, <1>6 DEF L
<1> HIDE DEF all
<1>8. MaybeTooDeep(tips, all, u, TriggerDepth)
  BY <1>5, <1>7 DEF MaybeTooDeep
<1> QED
  BY <1>2, <1>8 DEF Ended

----------------------------------------------------------------------------
(* The invariant holds initially and is kept by each action.               *)

(* What TypeOK says of the columns and their copies.                       *)
LEMMA ColumnTypes ==
    ASSUME TypeOK
    PROVE  /\ columns \in Columns /\ saved \in Columns /\ begun \in Columns
           /\ table \in Tables(Unit) /\ weight_bk \in [Unit -> Nat]
           /\ hash_bk \in [Unit -> Unit \cup {Zero}]
           /\ saved[1] \in Tables(Unit) /\ saved[2] \in [Unit -> Nat]
           /\ saved[3] \in [Unit -> Unit \cup {Zero}]
           /\ saved = <<saved[1], saved[2], saved[3]>>
           /\ begun[1] \in Tables(Unit) /\ begun[2] \in [Unit -> Nat]
           /\ begun[3] \in [Unit -> Unit \cup {Zero}]
           /\ begun = <<begun[1], begun[2], begun[3]>>
<1>1. columns \in Columns /\ saved \in Columns /\ begun \in Columns
  BY DEF TypeOK
<1> DEFINE T == Tables(Unit)
           W == [Unit -> Nat]
           H == [Unit -> Unit \cup {Zero}]
<1>2. Columns = T \X W \X H /\ columns = <<table, weight_bk, hash_bk>>
  BY DEF Columns, columns
<1> HIDE DEF T, W, H
<1>3. \A c \in T \X W \X H : c[1] \in T /\ c[2] \in W /\ c[3] \in H /\ c = <<c[1], c[2], c[3]>>
  OBVIOUS
<1>4. <<table, weight_bk, hash_bk>> \in T \X W \X H => table \in T /\ weight_bk \in W /\ hash_bk \in H
  OBVIOUS
<1> QED
  BY <1>1, <1>2, <1>3, <1>4 DEF T, W, H

(* Three columns are columns.                                              *)
LEMMA ColumnsTyped ==
    ASSUME NEW t \in Tables(Unit), NEW w \in [Unit -> Nat], NEW h \in [Unit -> Unit \cup {Zero}]
    PROVE  <<t, w, h>> \in Columns
BY DEF Columns

(* A row with more weight.                                                 *)
LEMMA RowAddedType ==
    ASSUME NEW b \in Tables(Unit), NEW u \in Unit, NEW t, RowAdded(t, b, u)
    PROVE  t \in Tables(Unit)
<1>1. /\ b = [rows |-> b.rows, weight |-> b.weight, repeated |-> b.repeated]
      /\ b.rows \in Seq(Unit) /\ b.weight \in Counts(Unit) /\ b.repeated \in Counts(Unit)
  BY TableFields
<1> DEFINE r == b.rows
           w == b.weight
           p == b.repeated
           x == SelfWeight[u]
           w2 == [w EXCEPT ![u] = w[u] + x]
<1>2. t = [b EXCEPT !.rows = Append(r, u), !.weight = w2]
  BY <1>1 DEF RowAdded
<1>3. w2 \in Counts(Unit)
  <2>1. w \in [Unit -> Nat]
    BY <1>1 DEF Counts, w
  <2>2. w[u] \in Nat /\ x \in Nat
    BY <2>1, TriggerAssumption DEF x
  <2> DEFINE s == w[u] + x
  <2>3. s \in Nat
    BY <2>2
  <2> HIDE DEF s
  <2>4. [w EXCEPT ![u] = s] \in [Unit -> Nat]
    BY <2>1, <2>3
  <2> QED
    BY <2>4 DEF Counts, s
<1>4. b = [rows |-> r, weight |-> w, repeated |-> p]
  BY <1>1
<1>5. Append(r, u) \in Seq(Unit)
  BY <1>1, AppendProperties
<1> HIDE DEF r, w, p, w2
<1>6. t = [rows |-> Append(r, u), weight |-> w2, repeated |-> p]
  BY <1>2, <1>4
<1> QED
  BY <1>1, <1>3, <1>5, <1>6, FieldsTable DEF p

(* A table with more weight in one row is a table.                         *)
LEMMA RowRaisedType ==
    ASSUME NEW b \in Tables(Unit), NEW p \in Unit, NEW u \in Unit, NEW t, RowRaised(t, b, p, u)
    PROVE  t \in Tables(Unit)
<1>1. /\ b = [rows |-> b.rows, weight |-> b.weight, repeated |-> b.repeated]
      /\ b.rows \in Seq(Unit) /\ b.weight \in Counts(Unit) /\ b.repeated \in Counts(Unit)
  BY TableFields
<1> DEFINE w2 == [b.weight EXCEPT ![p] = b.weight[p] + SelfWeight[u]]
<1>2. t = [b EXCEPT !.weight = w2]
  BY <1>1 DEF RowRaised
<1>3. w2 \in Counts(Unit)
  <2>1. b.weight \in [Unit -> Nat]
    BY <1>1 DEF Counts
  <2>2. b.weight[p] \in Nat /\ SelfWeight[u] \in Nat
    BY <2>1, TriggerAssumption
  <2> DEFINE s == b.weight[p] + SelfWeight[u]
  <2>3. s \in Nat
    BY <2>2
  <2> HIDE DEF s
  <2>4. [b.weight EXCEPT ![p] = s] \in [Unit -> Nat]
    BY <2>1, <2>3
  <2> QED
    BY <2>4 DEF Counts, s
<1> HIDE DEF w2
<1>4. t = [rows |-> b.rows, weight |-> w2, repeated |-> b.repeated]
  BY <1>1, <1>2
<1> QED
  BY <1>1, <1>3, <1>4, FieldsTable

(* The frame of a row holds the tips of that row.                          *)
LEMMA FrameTips ==
    ASSUME TypeOK, NEW r \in Unit, NEW w \in Nat, NEW h \in Unit
    PROVE  IsFrame(Frame(r, w, h), approves, r, w, h)
<1> DEFINE f == Frame(r, w, h)
           Z == Unit \cup {Zero}
<1>1. tiphash[r] \in Z \X Z
  BY DEF TypeOK
<1> DEFINE a == tiphash[r][1]
           b == tiphash[r][2]
<1>2. tiphash[r] = <<a, b>> /\ a \in Z /\ b \in Z
  <2> HIDE DEF Z
  <2> QED
    BY <1>1
<1>3. approves[r] = {a, b} \ {Zero}
  BY DEF approves, Tips
<1>4. f = [tips |-> IF a = b THEN <<a>> ELSE <<a, b>>, weight |-> w, hash |-> h]
  BY <1>2 DEF Frame
<1> HIDE DEF a, b, f
<1>5. f.tips = (IF a = b THEN <<a>> ELSE <<a, b>>) /\ f.weight = w /\ f.hash = h
  BY <1>4
<1>6. <<a>> \in Seq(Z) /\ <<a, b>> \in Seq(Z)
  <2> HIDE DEF Z
  <2> QED
    BY <1>2
<1>7. Range(<<a>>) = {a} /\ Range(<<a, b>>) = {a, b}
  <2>1. DOMAIN <<a>> = {1} /\ <<a>>[1] = a
    OBVIOUS
  <2>2. DOMAIN <<a, b>> = {1, 2} /\ <<a, b>>[1] = a /\ <<a, b>>[2] = b
    OBVIOUS
  <2> QED
    BY <2>1, <2>2 DEF Range
<1>8. f \in FrameSet
  BY <1>4, <1>6 DEF FrameSet
<1>9. Range(f.tips) = {a, b}
  BY <1>5, <1>7
<1> QED
  BY <1>3, <1>5, <1>8, <1>9 DEF IsFrame, f

(* The DAG does not change.                                                *)
LEMMA SameTips ==
    ASSUME tiphash' = tiphash
    PROVE  approves' = approves
BY DEF approves, Tips

(* A database without rows, between transactions.                          *)
LEMMA Initially == Init => WInv
<1> SUFFICES ASSUME Init PROVE WInv
  OBVIOUS
<1>1. EmptyTable(Unit) \in Tables(Unit) /\ EmptyTable(Unit).rows = << >>
  BY EmptyTableType DEF EmptyTable
<1>2. [u \in Unit |-> 0] \in [Unit -> Nat] /\ [u \in Unit |-> Zero] \in [Unit -> Unit \cup {Zero}]
  OBVIOUS
<1>3. columns \in Columns
  BY <1>1, <1>2, ColumnsTyped DEF Init, columns
<1>4. TypeOK
  <2>1. /\ << >> \in Seq(Unit) /\ Len(<< >>) = 0
        /\ << >> \in Seq([tips : Seq(Unit \cup {Zero}), weight : Nat, hash : Unit])
    BY EmptySeq
  <2>2. 0 < TriggerDepth /\ 0 \in 0 .. MaxPushes
    BY TriggerAssumption
  <2>3. {columns, saved, begun} \subseteq Columns
    BY <1>3 DEF Init
  <2> QED
    BY <2>1, <2>2, <2>3 DEF Init, TypeOK
<1>5. Older(approves)
  <2> SUFFICES ASSUME NEW v \in Unit, NEW p \in approves[v] PROVE p \in Unit /\ p < v
    BY DEF Older
  <2>1. p \in Tips(v) /\ p # Zero
    BY DEF approves
  <2>2. CASE v = Genesis
    BY <2>1, <2>2 DEF Init, Tips
  <2> QED
    BY <2>1, <2>2 DEF Init
<1>6. /\ columns[1] = table /\ columns[3] = hash_bk /\ saved = columns /\ begun = columns
      /\ table = EmptyTable(Unit) /\ \A v \in Unit : hash_bk[v] = Zero
  BY DEF Init, columns
<1>7. Settled(table, hash_bk) /\ NeverFilled(table)
  BY <1>6 DEF Settled, NeverFilled
<1>8. phase = "idle"
  BY DEF Init
<1> QED
  BY <1>4, <1>5, <1>6, <1>7, <1>8 DEF WInv, Lasting, Doing

(* Most steps leave alone what a transaction starts from.                  *)
LEMMA LastingKept ==
    ASSUME Lasting, phase # "idle", phase' # "idle", UNCHANGED <<tiphash, begun, job, pushes>>
    PROVE  Lasting' /\ approves' = approves
<1>1. approves' = approves
  BY SameTips
<1> QED
  BY <1>1 DEF Lasting

(* A transaction begins.                                                   *)
LEMMA BeginKeeps ==
    ASSUME WInv, NEW s \in Seq(Unit), s # << >>, Begin(s),
           Len(s) > 1 => IsInjective(s) /\ Len(s) <= Cardinality(Unit) /\ table.rows = << >>
    PROVE  WInv'
<1>1. /\ phase = "idle" /\ phase' = "insert" /\ pushes + Len(s) <= MaxPushes
      /\ job' = s /\ at' = 1
      /\ UNCHANGED <<tiphash, table, weight_bk, hash_bk, columns, saved, begun, stack, queue, out, pushes>>
  BY DEF Begin, columns
<1>2. TypeOK /\ Lasting /\ Settled(table, hash_bk) /\ Settled(saved[1], saved[3])
  BY DEF WInv
<1>3. table = begun[1] /\ begun[1] \in Tables(Unit)
  BY <1>1, <1>2, ColumnTypes DEF Lasting, columns
<1>4. approves' = approves
  BY <1>1, SameTips
<1>5. Len(s) \in Nat /\ Len(s) > 0
  BY LenProperties, EmptySeq
<1>6. TypeOK'
  BY <1>1, <1>2, <1>5 DEF TypeOK
<1>7. JobOK(begun[1], s, pushes)
  BY <1>1, <1>3 DEF JobOK
<1>8. Lasting'
  BY <1>1, <1>2, <1>4, <1>7 DEF Lasting
<1>9. table \in Turn(approves, begun[1], s)[0]
  <2>1. Turns(Turn(approves, begun[1], s), approves, begun[1], s)
    BY <1>3, TurnSteps
  <2> QED
    BY <1>3, <2>1 DEF Turns
<1>10. at' \in 1 .. Len(job') /\ at' - 1 = 0
  BY <1>1, <1>5
<1>11. Doing'
  BY <1>1, <1>4, <1>9, <1>10 DEF Doing
<1> QED
  BY <1>1, <1>2, <1>6, <1>8, <1>11 DEF WInv

(* push begins.                                                            *)
LEMMA BeginPushKeeps == ASSUME WInv, BeginPush PROVE WInv'
<1>1. PICK u \in Unit : Begin(<<u>>)
  BY DEF BeginPush
<1>2. <<u>> \in Seq(Unit) /\ <<u>> # << >> /\ Len(<<u>>) = 1
  OBVIOUS
<1> DEFINE s == <<u>>
<1>3. s \in Seq(Unit) /\ s # << >> /\ Begin(s) /\ ~(Len(s) > 1)
  BY <1>1, <1>2
<1> HIDE DEF s
<1> QED
  BY <1>3, BeginKeeps

(* pushAllUnit begins.                                                     *)
LEMMA BeginPushAllKeeps == ASSUME WInv, BeginPushAll PROVE WInv'
<1>1. table.rows = << >>
  BY DEF BeginPushAll
<1>2. PICK s \in UNION {[1 .. n -> Unit] : n \in 2 .. Cardinality(Unit)} : IsInjective(s) /\ Begin(s)
  BY DEF BeginPushAll
<1>3. PICK n \in 2 .. Cardinality(Unit) : s \in [1 .. n -> Unit]
  BY <1>2
<1>4. n \in Nat /\ n > 1 /\ n <= Cardinality(Unit)
  BY <1>3
<1>5. s \in Seq(Unit) /\ Len(s) = n
  BY <1>3, <1>4, SeqDef, LenProperties
<1>6. s # << >>
  BY <1>4, <1>5
<1> QED
  BY <1>1, <1>2, <1>4, <1>5, <1>6, BeginKeeps

(* The INSERT of a unit that is not there.                                 *)
LEMMA InsertKeeps == ASSUME WInv, Insert PROVE WInv'
<1> DEFINE u == job[at]
           f == Frame(u, SelfWeight[u], u)
<1>1. /\ phase = "insert" /\ phase' = "triggers"
      /\ u \notin Stored(table)
      /\ saved' = columns
      /\ table' = [table EXCEPT !.rows = Append(@, u), !.weight[u] = @ + SelfWeight[u]]
      /\ weight_bk' = [weight_bk EXCEPT ![u] = SelfWeight[u]]
      /\ hash_bk' = [hash_bk EXCEPT ![u] = u]
      /\ stack' = <<f>>
      /\ UNCHANGED <<tiphash, begun, job, at, queue, out, pushes>>
  BY DEF Insert
<1>2. TypeOK /\ Lasting /\ Settled(table, hash_bk) /\ Doing
  BY DEF WInv
<1>3. u \in Unit /\ SelfWeight[u] \in Nat /\ at \in 1 .. Len(job)
  <2>1. at \in 1 .. Len(job) /\ job \in Seq(Unit)
    BY <1>1, <1>2 DEF Doing, TypeOK
  <2>2. job[at] \in Unit
    BY <2>1, ElementOfSeq
  <2> QED
    BY <2>1, <2>2, TriggerAssumption
<1>4. Lasting' /\ approves' = approves
  BY <1>1, <1>2, LastingKept
<1>5. IsFrame(f, approves, u, SelfWeight[u], u)
  BY <1>2, <1>3, FrameTips
<1> HIDE DEF f, u
<1>6. table \in Tables(Unit) /\ weight_bk \in [Unit -> Nat] /\ hash_bk \in [Unit -> Unit \cup {Zero}]
  BY <1>2, ColumnTypes
<1>8a. RowAdded(table', table, u) /\ Touched(hash_bk', hash_bk, u, u)
  BY <1>1 DEF RowAdded, Touched
<1>7. table' \in Tables(Unit) /\ weight_bk' \in [Unit -> Nat] /\ hash_bk' \in [Unit -> Unit \cup {Zero}]
  <2>1. table' \in Tables(Unit)
    BY <1>3, <1>6, <1>8a, RowAddedType
  <2> QED
    BY <1>1, <1>3, <1>6, <2>1
<1>8. Walk(approves, table', hash_bk', table, stack', u)
  <2> DEFINE fs == <<f>>
  <2>1. Walk(approves, table', hash_bk', table, fs, u)
    BY <1>1, <1>2, <1>3, <1>5, <1>6, <1>7, <1>8a, WalkStarts
  <2> QED
    BY <1>1, <2>1
<1>9. Stored(table') = Stored(table) \cup {u}
  BY <1>3, <1>6, <1>8, CountedStored DEF Walk
<1>10. Settled(table', hash_bk')
  BY <1>1, <1>2, <1>3, <1>6, <1>9 DEF Settled
<1>11. saved'[1] = table /\ saved'[3] = hash_bk
  BY <1>1 DEF columns
<1>12. TypeOK'
  <2>1. columns' \in Columns
    BY <1>7, ColumnsTyped DEF columns
  <2>2. {columns, saved, begun}' \subseteq Columns
    BY <1>1, <1>2, <2>1 DEF TypeOK
  <2>3. stack' \in Seq(FrameSet) /\ Len(stack') = 1
    BY <1>1, <1>5 DEF IsFrame
  <2>4. Len(stack') < TriggerDepth
    BY <2>3, TriggerAssumption
  <2> QED
    BY <1>1, <1>2, <2>2, <2>3, <2>4 DEF TypeOK, FrameSet
<1>13. Doing'
  BY <1>1, <1>2, <1>3, <1>4, <1>8, <1>11 DEF Doing, u
<1> QED
  BY <1>2, <1>4, <1>10, <1>11, <1>12, <1>13 DEF WInv

(* The INSERT of a unit that is there.                                     *)
LEMMA InsertFailsKeeps == ASSUME WInv, InsertFails PROVE WInv'
<1> DEFINE u == job[at]
<1>1. /\ phase = "insert" /\ phase' = "query"
      /\ u \in Stored(table)
      /\ stack' = << >> /\ out' = {} /\ queue' = <<u>>
      /\ UNCHANGED <<tiphash, table, weight_bk, hash_bk, columns, saved, begun, job, at, pushes>>
  BY DEF InsertFails, ToQuery, columns
<1>2. TypeOK /\ Lasting /\ Settled(table, hash_bk) /\ Settled(saved[1], saved[3]) /\ Doing
  BY DEF WInv
<1>3. u \in Unit /\ at \in 1 .. Len(job)
  <2>1. at \in 1 .. Len(job) /\ job \in Seq(Unit)
    BY <1>1, <1>2 DEF Doing, TypeOK
  <2> QED
    BY <2>1, ElementOfSeq
<1>4. Lasting' /\ approves' = approves
  BY <1>1, <1>2, LastingKept
<1>5. table \in Tables(Unit)
  BY <1>2, ColumnTypes
<1>6. TypeOK'
  <2>1. << >> \in Seq([tips : Seq(Unit \cup {Zero}), weight : Nat, hash : Unit]) /\ Len(<< >>) = 0
    BY EmptySeq
  <2>2. <<u>> \in Seq(Unit) /\ {} \subseteq Unit /\ 0 < TriggerDepth
    BY <1>3, TriggerAssumption
  <2> QED
    BY <1>1, <1>2, <2>1, <2>2 DEF TypeOK
<1> HIDE DEF u
<1>7. Ended(approves, table, table, u) /\ Asking(approves, table, u, {}, <<u>>)
  BY <1>1, <1>3, <1>5, AskingStarts DEF Ended
<1>8. Doing'
  BY <1>1, <1>2, <1>3, <1>4, <1>7 DEF Doing, u
<1> QED
  BY <1>1, <1>2, <1>4, <1>6, <1>8 DEF WInv

(* What is known of the trigger that runs.                                 *)
LEMMA AtTrigger ==
    ASSUME WInv, phase = "triggers"
    PROVE  /\ TypeOK /\ Lasting /\ at \in 1 .. Len(job) /\ job[at] \in Unit
           /\ saved[1] \in Turn(approves, begun[1], job)[at - 1]
           /\ Walk(approves, table, hash_bk, saved[1], stack, job[at])
           /\ Settled(table, hash_bk) /\ Settled(saved[1], saved[3]) /\ Older(approves)
           /\ stack \in Seq(FrameSet) /\ Len(stack) \in Nat /\ Len(stack) < TriggerDepth
           /\ Stored(table) = Stored(saved[1]) \cup {job[at]} /\ job[at] \in Stored(table)
<1>1. TypeOK /\ Lasting /\ Settled(table, hash_bk) /\ Settled(saved[1], saved[3]) /\ Doing
  BY DEF WInv
<1>2. /\ at \in 1 .. Len(job) /\ job \in Seq(Unit)
      /\ saved[1] \in Turn(approves, begun[1], job)[at - 1]
      /\ Walk(approves, table, hash_bk, saved[1], stack, job[at])
  BY <1>1 DEF Doing, TypeOK
<1>3. job[at] \in Unit
  BY <1>2, ElementOfSeq
<1>4. stack \in Seq(FrameSet) /\ Len(stack) < TriggerDepth
  BY <1>1 DEF TypeOK, FrameSet
<1>5. Len(stack) \in Nat
  BY <1>4, LenProperties
<1>6. Stored(table) = Stored(saved[1]) \cup {job[at]} /\ job[at] \in Stored(table)
  BY <1>1, <1>2, <1>3, ColumnTypes, CountedStored DEF Walk
<1> QED
  BY <1>1, <1>2, <1>3, <1>4, <1>5, <1>6 DEF Lasting

(* The invariant after a step of the triggers.                             *)
LEMMA TriggersKept ==
    ASSUME WInv, phase = "triggers", phase' = "triggers",
           UNCHANGED <<tiphash, saved, begun, job, at, queue, out, pushes>>,
           table' \in Tables(Unit), weight_bk' \in [Unit -> Nat],
           hash_bk' \in [Unit -> Unit \cup {Zero}], Settled(table', hash_bk'),
           stack' \in Seq(FrameSet), Len(stack') < TriggerDepth,
           Walk(approves, table', hash_bk', saved[1], stack', job[at])
    PROVE  WInv'
<1>1. /\ TypeOK /\ Lasting /\ at \in 1 .. Len(job)
      /\ saved[1] \in Turn(approves, begun[1], job)[at - 1] /\ Settled(saved[1], saved[3])
  BY AtTrigger
<1>2. Lasting' /\ approves' = approves
  BY <1>1, LastingKept
<1>3. TypeOK'
  <2>1. columns' \in Columns
    BY ColumnsTyped DEF columns
  <2>2. {columns, saved, begun}' \subseteq Columns
    BY <1>1, <2>1 DEF TypeOK
  <2> QED
    BY <1>1, <2>2 DEF TypeOK, FrameSet
<1>4. Doing'
  BY <1>1, <1>2 DEF Doing
<1> QED
  BY <1>1, <1>2, <1>3, <1>4 DEF WInv

(* The invariant when the triggers have ended, one way or the other.       *)
LEMMA QueryBegins ==
    ASSUME WInv, phase = "triggers", phase' = "query", stack' = << >>, out' = {},
           UNCHANGED <<tiphash, saved, begun, job, at, pushes>>,
           table' \in Tables(Unit), weight_bk' \in [Unit -> Nat],
           hash_bk' \in [Unit -> Unit \cup {Zero}], Settled(table', hash_bk'),
           queue' \in Seq(Unit),
           Ended(approves, saved[1], table', job[at]),
           Asking(approves, table', job[at], {}, queue')
    PROVE  WInv'
<1>1. /\ TypeOK /\ Lasting /\ at \in 1 .. Len(job)
      /\ saved[1] \in Turn(approves, begun[1], job)[at - 1] /\ Settled(saved[1], saved[3])
  BY AtTrigger
<1>2. Lasting' /\ approves' = approves
  BY <1>1, LastingKept
<1>3. TypeOK'
  <2>1. columns' \in Columns
    BY ColumnsTyped DEF columns
  <2>2. {columns, saved, begun}' \subseteq Columns
    BY <1>1, <2>1 DEF TypeOK
  <2>3. /\ << >> \in Seq([tips : Seq(Unit \cup {Zero}), weight : Nat, hash : Unit])
        /\ Len(<< >>) = 0 /\ 0 < TriggerDepth
    BY EmptySeq, TriggerAssumption
  <2> QED
    BY <1>1, <2>2, <2>3 DEF TypeOK
<1>4. Doing'
  BY <1>1, <1>2 DEF Doing
<1> QED
  BY <1>1, <1>2, <1>3, <1>4 DEF WInv

(* The innermost frame comes to its next tip.                              *)
LEMMA AtTip ==
    ASSUME WInv, NEW p, NextTip(p),
           NEW st2, st2 = [stack EXCEPT ![Len(stack)].tips = Tail(@)]
    PROVE  /\ phase = "triggers" /\ Popped(st2, stack, p)
           /\ Top.weight = SelfWeight[job[at]] /\ Top.hash = job[at] /\ SelfWeight[job[at]] \in Nat
           /\ st2 \in Seq(FrameSet) /\ Len(st2) = Len(stack) /\ Len(stack) \in Nat
<1>1. phase = "triggers" /\ stack # << >> /\ Top.tips # << >> /\ p = Head(Top.tips)
  BY DEF NextTip
<1>2. /\ stack \in Seq(FrameSet) /\ job[at] \in Unit
      /\ Frames(approves, Stored(table), stack, job[at])
  BY <1>1, AtTrigger DEF Walk
<1>3. stack[Len(stack)].tips # << >> /\ p = Head(stack[Len(stack)].tips)
  BY <1>1 DEF Top
<1>4. Popped(st2, stack, p)
  BY <1>1, <1>2, <1>3, PopTip
<1>5. Len(stack) \in 1 .. Len(stack) /\ st2 \in Seq(FrameSet) /\ Len(st2) = Len(stack) /\ Len(stack) \in Nat
  BY <1>4 DEF Popped
<1>6. Top.weight = SelfWeight[job[at]] /\ Top.hash = job[at]
  BY <1>2, <1>5 DEF Frames, Top
<1> QED
  BY <1>1, <1>2, <1>4, <1>5, <1>6, TriggerAssumption

(* The tip is not stored.                                                  *)
LEMMA TipMissingKeeps == ASSUME WInv, TipMissing PROVE WInv'
<1>1. PICK p \in Unit \cup {Zero} :
        /\ NextTip(p)
        /\ p \notin Stored(table)
        /\ stack' = [stack EXCEPT ![Len(stack)].tips = Tail(@)]
        /\ UNCHANGED <<tiphash, columns, saved, begun, job, at, phase, queue, out, pushes>>
  BY DEF TipMissing
<1>2. phase = "triggers" /\ Popped(stack', stack, p) /\ stack' \in Seq(FrameSet) /\ Len(stack') = Len(stack)
  BY <1>1, AtTip
<1>3. /\ TypeOK /\ Walk(approves, table, hash_bk, saved[1], stack, job[at])
      /\ Len(stack) < TriggerDepth /\ Settled(table, hash_bk)
  BY <1>2, AtTrigger
<1>4. Walk(approves, table, hash_bk, saved[1], stack', job[at])
  BY <1>1, <1>2, <1>3, WalkSkips
<1>5. table' = table /\ weight_bk' = weight_bk /\ hash_bk' = hash_bk /\ phase' = phase
  BY <1>1 DEF columns
<1> QED
  BY <1>1, <1>2, <1>3, <1>4, <1>5, ColumnTypes, TriggersKept

(* Adding the weight and taking it back changes nothing.                   *)
LEMMA TipRepeatedKeeps == ASSUME WInv, TipRepeated PROVE WInv'
<1>1. PICK p \in Stored(table) :
        /\ NextTip(p)
        /\ hash_bk[p] = Top.hash
        /\ weight_bk' = [weight_bk EXCEPT ![p] = Top.weight]
        /\ table' = [table EXCEPT !.weight[p] = Again(@)]
        /\ stack' = [stack EXCEPT ![Len(stack)].tips = Tail(@)]
        /\ UNCHANGED <<tiphash, hash_bk, saved, begun, job, at, phase, queue, out, pushes>>
  BY DEF TipRepeated
<1>2. /\ phase = "triggers" /\ Popped(stack', stack, p) /\ stack' \in Seq(FrameSet) /\ Len(stack') = Len(stack)
      /\ Top.weight = SelfWeight[job[at]] /\ Top.hash = job[at] /\ SelfWeight[job[at]] \in Nat
  BY <1>1, AtTip
<1>3. /\ TypeOK /\ Walk(approves, table, hash_bk, saved[1], stack, job[at])
      /\ Len(stack) < TriggerDepth /\ Settled(table, hash_bk)
  BY <1>2, AtTrigger
<1>4. Walk(approves, table, hash_bk, saved[1], stack', job[at])
  BY <1>1, <1>2, <1>3, WalkSkips
<1>5. /\ table \in Tables(Unit) /\ weight_bk \in [Unit -> Nat] /\ hash_bk \in [Unit -> Unit \cup {Zero}]
      /\ p \in Unit
  BY <1>1, <1>3, ColumnTypes, StoredFinite
<1>6. table' = table
  <2>1. /\ table = [rows |-> table.rows, weight |-> table.weight, repeated |-> table.repeated]
        /\ table.weight \in Counts(Unit)
    BY <1>5, TableFields
  <2>2. table.weight[p] \in Nat
    BY <1>5, <2>1 DEF Counts
  <2>3. Again(table.weight[p]) = table.weight[p]
    BY <1>2, <2>2 DEF Again
  <2>4. [table.weight EXCEPT ![p] = table.weight[p]] = table.weight
    BY <1>5, <2>1 DEF Counts
  <2>5. table' = [table EXCEPT !.weight = [table.weight EXCEPT ![p] = table.weight[p]]]
    BY <1>1, <2>1, <2>3
  <2>6. table' = [table EXCEPT !.weight = table.weight]
    BY <2>4, <2>5
  <2> QED
    BY <2>1, <2>6
<1>7. weight_bk' \in [Unit -> Nat]
  BY <1>1, <1>2, <1>5
<1> QED
  BY <1>1, <1>2, <1>3, <1>4, <1>5, <1>6, <1>7, TriggersKept

(* The tip is reached for the first time.                                  *)
LEMMA TipReachedKeeps == ASSUME WInv, TipReached PROVE WInv'
<1> DEFINE u == job[at]
           st2 == [stack EXCEPT ![Len(stack)].tips = Tail(@)]
<1>1. PICK p \in Stored(table) :
        /\ NextTip(p)
        /\ hash_bk[p] # Top.hash
        /\ Fits
        /\ table' = [table EXCEPT !.weight[p] = @ + Top.weight]
        /\ weight_bk' = [weight_bk EXCEPT ![p] = Top.weight]
        /\ hash_bk' = [hash_bk EXCEPT ![p] = Top.hash]
        /\ stack' = Append(st2, Frame(p, Passed(p), Top.hash))
        /\ UNCHANGED <<tiphash, saved, begun, job, at, phase, queue, out, pushes>>
  BY DEF TipReached
<1>2. /\ phase = "triggers" /\ Popped(st2, stack, p) /\ st2 \in Seq(FrameSet) /\ Len(st2) = Len(stack)
      /\ Top.weight = SelfWeight[u] /\ Top.hash = u /\ SelfWeight[u] \in Nat /\ Len(stack) \in Nat
  <2>1. st2 = [stack EXCEPT ![Len(stack)].tips = Tail(@)]
    OBVIOUS
  <2>2. NextTip(p)
    BY <1>1
  <2> HIDE DEF st2
  <2> QED
    BY <2>1, <2>2, AtTip
<1> DEFINE f == Frame(p, SelfWeight[u], u)
<1>3. /\ TypeOK /\ Walk(approves, table, hash_bk, saved[1], stack, u) /\ u \in Unit
      /\ Settled(table, hash_bk) /\ u \in Stored(table) /\ Stored(table) = Stored(saved[1]) \cup {u}
  BY <1>2, AtTrigger
<1>4. /\ table \in Tables(Unit) /\ weight_bk \in [Unit -> Nat] /\ hash_bk \in [Unit -> Unit \cup {Zero}]
      /\ saved[1] \in Tables(Unit) /\ p \in Unit
  BY <1>1, <1>3, ColumnTypes, StoredFinite
<1>5. IsFrame(f, approves, p, SelfWeight[u], u)
  BY <1>2, <1>3, <1>4, FrameTips
<1>6. stack' = Append(st2, f)
  BY <1>1, <1>2 DEF Passed
<1> HIDE DEF f, u, st2
<1>7. RowRaised(table', table, p, u) /\ Touched(hash_bk', hash_bk, p, u)
  BY <1>1, <1>2 DEF RowRaised, Touched
<1>8. Len(stack) + 2 <= TriggerDepth
  BY <1>1 DEF Fits
<1>9. table' \in Tables(Unit) /\ weight_bk' \in [Unit -> Nat] /\ hash_bk' \in [Unit -> Unit \cup {Zero}]
  <2>1. table' \in Tables(Unit)
    BY <1>3, <1>4, <1>7, RowRaisedType
  <2> QED
    BY <1>1, <1>2, <1>3, <1>4, <2>1
<1>10. hash_bk[p] # u
  BY <1>1, <1>2
<1>11. Walk(approves, table', hash_bk', saved[1], stack', u)
  <2>1. Walk(approves, table', hash_bk', saved[1], Append(st2, f), u)
    BY <1>1, <1>2, <1>3, <1>4, <1>5, <1>7, <1>8, <1>10, WalkReaches
  <2> QED
    BY <1>6, <2>1
<1>12. Stored(table') = Stored(table)
  BY <1>3, <1>4, <1>11, CountedStored DEF Walk
<1>13. Settled(table', hash_bk')
  BY <1>1, <1>2, <1>3, <1>4, <1>12 DEF Settled
<1>14. stack' \in Seq(FrameSet) /\ Len(stack') < TriggerDepth
  <2>1. f \in FrameSet /\ TriggerDepth \in Nat
    BY <1>5, TriggerAssumption DEF IsFrame
  <2>2. stack' \in Seq(FrameSet) /\ Len(stack') = Len(st2) + 1
    BY <1>2, <1>6, <2>1, AppendProperties
  <2> QED
    BY <1>2, <1>8, <2>1, <2>2
<1> QED
  BY <1>1, <1>2, <1>9, <1>11, <1>13, <1>14, TriggersKept DEF u

(* The frame has come to its end.                                          *)
LEMMA ReturnKeeps == ASSUME WInv, Return PROVE WInv'
<1>1. /\ phase = "triggers" /\ stack # << >> /\ Top.tips = << >>
      /\ stack' = Front(stack)
      /\ UNCHANGED <<tiphash, columns, saved, begun, job, at, phase, queue, out, pushes>>
  BY DEF Return
<1>2. /\ TypeOK /\ Walk(approves, table, hash_bk, saved[1], stack, job[at])
      /\ stack \in Seq(FrameSet) /\ Len(stack) < TriggerDepth /\ Settled(table, hash_bk) /\ Len(stack) \in Nat
  BY <1>1, AtTrigger
<1>3. stack[Len(stack)].tips = << >>
  BY <1>1 DEF Top
<1>4. /\ Walk(approves, table, hash_bk, saved[1], stack', job[at])
      /\ stack' \in Seq(FrameSet) /\ Len(stack') < Len(stack)
  BY <1>1, <1>2, <1>3, WalkReturns
<1>5. Len(stack') < TriggerDepth
  <2>1. Len(stack') \in Nat /\ TriggerDepth \in Nat
    BY <1>4, LenProperties, TriggerAssumption
  <2> QED
    BY <1>2, <1>4, <2>1
<1>6. table' = table /\ weight_bk' = weight_bk /\ hash_bk' = hash_bk /\ phase' = phase
  BY <1>1 DEF columns
<1> QED
  BY <1>1, <1>2, <1>4, <1>5, <1>6, ColumnTypes, TriggersKept

(* The stack is full.                                                      *)
LEMMA TooDeepKeeps == ASSUME WInv, TooDeep PROVE WInv'
<1> DEFINE u == job[at]
           st2 == [stack EXCEPT ![Len(stack)].tips = Tail(@)]
<1>1. PICK p \in Stored(table) :
        /\ NextTip(p)
        /\ ~Fits
        /\ table' = saved[1] /\ weight_bk' = saved[2] /\ hash_bk' = saved[3]
        /\ phase' = "query" /\ stack' = << >> /\ out' = {} /\ queue' = << >>
        /\ UNCHANGED <<tiphash, saved, begun, job, at, pushes>>
  BY DEF TooDeep, RollBack, ToQuery
<1>2. phase = "triggers" /\ Popped(st2, stack, p)
  BY <1>1, AtTip
<1>3. /\ TypeOK /\ Walk(approves, table, hash_bk, saved[1], stack, u) /\ u \in Unit
      /\ Settled(saved[1], saved[3]) /\ Older(approves)
  BY <1>2, AtTrigger
<1>4. /\ table \in Tables(Unit) /\ saved[1] \in Tables(Unit) /\ saved[2] \in [Unit -> Nat]
      /\ saved[3] \in [Unit -> Unit \cup {Zero}]
  BY <1>3, ColumnTypes
<1> HIDE DEF st2, u
<1>5. ~(Len(stack) + 2 <= TriggerDepth)
  BY <1>1 DEF Fits
<1>6. Ended(approves, saved[1], saved[1], u)
  BY <1>1, <1>2, <1>3, <1>4, <1>5, WalkTooDeep
<1>7. u \notin Stored(saved[1])
  BY <1>3 DEF Walk, Counted
<1>8. Asking(approves, saved[1], u, {}, << >>)
  BY <1>7 DEF Asking
<1>9. << >> \in Seq(Unit)
  BY EmptySeq
<1> QED
  BY <1>1, <1>2, <1>3, <1>4, <1>6, <1>8, <1>9, QueryBegins DEF u

(* The last frame has come to its end.                                     *)
LEMMA InsertDoneKeeps == ASSUME WInv, InsertDone PROVE WInv'
<1> DEFINE u == job[at]
<1>1. /\ phase = "triggers" /\ stack = << >>
      /\ phase' = "query" /\ stack' = << >> /\ out' = {} /\ queue' = <<u>>
      /\ table' = table /\ weight_bk' = weight_bk /\ hash_bk' = hash_bk
      /\ UNCHANGED <<tiphash, saved, begun, job, at, pushes>>
  BY DEF InsertDone, ToQuery, columns
<1>2. /\ TypeOK /\ Walk(approves, table, hash_bk, saved[1], << >>, u) /\ u \in Unit
      /\ Settled(table, hash_bk) /\ u \in Stored(table)
  BY <1>1, AtTrigger
<1>3. /\ table \in Tables(Unit) /\ saved[1] \in Tables(Unit) /\ weight_bk \in [Unit -> Nat]
      /\ hash_bk \in [Unit -> Unit \cup {Zero}]
  BY <1>2, ColumnTypes
<1> HIDE DEF u
<1>4. Ended(approves, saved[1], table, u)
  BY <1>2, <1>3, WalkEnds
<1>5. Asking(approves, table, u, {}, <<u>>) /\ <<u>> \in Seq(Unit)
  BY <1>2, <1>3, AskingStarts
<1> QED
  BY <1>1, <1>2, <1>3, <1>4, <1>5, QueryBegins DEF u

(* What is known of the query that runs.                                   *)
LEMMA AtQuery ==
    ASSUME WInv, phase = "query"
    PROVE  /\ TypeOK /\ Lasting /\ at \in 1 .. Len(job) /\ job[at] \in Unit /\ job \in Seq(Unit)
           /\ Settled(table, hash_bk) /\ Settled(saved[1], saved[3])
           /\ NeverFilled(begun[1])
           /\ \E b \in Turn(approves, begun[1], job)[at - 1] : Ended(approves, b, table, job[at])
           /\ Asking(approves, table, job[at], out, queue)
<1>1. TypeOK /\ Lasting /\ Settled(table, hash_bk) /\ Settled(saved[1], saved[3]) /\ Doing
  BY DEF WInv
<1>2. at \in 1 .. Len(job) /\ job \in Seq(Unit)
  BY <1>1 DEF Doing, TypeOK
<1>3. job[at] \in Unit
  BY <1>2, ElementOfSeq
<1> QED
  BY <1>1, <1>2, <1>3 DEF Doing, Lasting

(* The rows that enter the queue are those of the set, in some order.       *)
LEMMA SetToSeqsRange ==
    ASSUME NEW S, IsFiniteSet(S), NEW s \in SetToSeqs(S)
    PROVE  s \in [1 .. Cardinality(S) -> S] /\ Range(s) = S
<1> DEFINE D == 1 .. Cardinality(S)
<1>1. s \in [D -> S] /\ \A i, j \in D : i # j => s[i] # s[j]
  BY DEF SetToSeqs
<1>2. IsFiniteSet(D) /\ Cardinality(D) = Cardinality(S) /\ Cardinality(S) \in Nat
  <2>1. Cardinality(S) \in Nat
    BY FS_CardinalityType
  <2> DEFINE c == Cardinality(S)
  <2>2. c \in Int /\ c \in Nat
    BY <2>1
  <2> HIDE DEF c
  <2>3. IsFiniteSet(1 .. c) /\ Cardinality(1 .. c) = IF 1 > c THEN 0 ELSE c - 1 + 1
    BY <2>2, FS_Interval
  <2>4. IsFiniteSet(1 .. c) /\ Cardinality(1 .. c) = c
    BY <2>2, <2>3
  <2> QED
    BY <2>1, <2>4 DEF c
<1> HIDE DEF D
<1>3. ASSUME NEW x \in S, \A i \in D : s[i] # x PROVE FALSE
  <2> DEFINE R == S \ {x}
  <2>1. IsFiniteSet(R) /\ Cardinality(R) = Cardinality(S) - 1
    BY FS_RemoveElement
  <2>2. s \in [D -> R]
    BY <1>1, <1>3
  <2>3. Cardinality(R) < Cardinality(D)
    BY <1>2, <2>1
  <2> HIDE DEF R
  <2>4. \E i, j \in D : i # j /\ s[i] = s[j]
    BY <1>2, <2>1, <2>2, <2>3, FS_PigeonHole
  <2> QED
    BY <1>1, <2>4
<1>4. Range(s) = {s[i] : i \in D}
  BY <1>1 DEF Range
<1> QED
  BY <1>1, <1>3, <1>4 DEF D

(* The query yields a row.                                                 *)
LEMMA QueryRowKeeps == ASSUME WInv, QueryRow PROVE WInv'
<1> DEFINE u   == job[at]
           r   == Head(queue)
           new == (approves[r] \cap Stored(table)) \ (out \cup Range(queue))
<1>1. /\ phase = "query" /\ phase' = "query" /\ queue # << >>
      /\ Cardinality(out) < QueryLimit
      /\ out' = out \cup {r}
      /\ UNCHANGED <<tiphash, columns, saved, begun, job, at, stack, pushes>>
  BY DEF QueryRow
<1>2. PICK s \in SetToSeqs(new) : queue' = Tail(queue) \o s
  BY DEF QueryRow
<1>3. /\ TypeOK /\ Lasting /\ u \in Unit
      /\ \E b \in Turn(approves, begun[1], job)[at - 1] : Ended(approves, b, table, u)
      /\ Asking(approves, table, u, out, queue)
      /\ Settled(table, hash_bk) /\ Settled(saved[1], saved[3])
  BY <1>1, AtQuery
<1>4. table \in Tables(Unit) /\ Stored(table) \subseteq Unit /\ IsFiniteSet(Stored(table))
  BY <1>3, ColumnTypes, StoredFinite
<1>5. Lasting' /\ approves' = approves
  BY <1>1, <1>3, LastingKept
<1>6. table' = table /\ hash_bk' = hash_bk
  BY <1>1 DEF columns
<1>7. new \subseteq Unit /\ IsFiniteSet(new)
  BY <1>4, FS_Subset
<1>8. s \in Seq(Unit) /\ Range(s) = new
  <2> HIDE DEF new
  <2>1. s \in [1 .. Cardinality(new) -> new] /\ Range(s) = new
    BY <1>2, <1>7, SetToSeqsRange
  <2>2. Cardinality(new) \in Nat
    BY <1>7, FS_CardinalityType
  <2>3. s \in [1 .. Cardinality(new) -> Unit]
    BY <1>7, <2>1
  <2> QED
    BY <2>1, <2>2, <2>3, SeqDef
<1>9. queue \in Seq(Unit) /\ out \subseteq Unit
  BY <1>3 DEF TypeOK
<1>10. r \in Unit /\ Tail(queue) \in Seq(Unit)
  BY <1>1, <1>9, HeadTailProperties
<1>11. Asking(approves, table, u, out', queue')
  <2>1. Range(s) = (approves[Head(queue)] \cap Stored(table)) \ (out \cup Range(queue))
    BY <1>8
  <2> DEFINE o2 == out \cup {Head(queue)}
             q2 == Tail(queue) \o s
  <2>2. Asking(approves, table, u, o2, q2)
    <3> HIDE DEF u, r, new
    <3> QED
      BY <1>1, <1>3, <1>4, <1>8, <1>9, <2>1, AskingGoesOn
  <2>3. out' = o2 /\ queue' = q2
    BY <1>1, <1>2
  <2> HIDE DEF o2, q2
  <2> QED
    BY <2>2, <2>3
<1>12. TypeOK'
  <2>1. queue' \in Seq(Unit)
    BY <1>2, <1>8, <1>10, ConcatProperties
  <2>2. out' \subseteq Unit
    BY <1>1, <1>9, <1>10
  <2> QED
    BY <1>1, <1>3, <2>1, <2>2 DEF TypeOK
<1>13. Doing'
  BY <1>1, <1>3, <1>5, <1>6, <1>11, AtQuery DEF Doing
<1> QED
  BY <1>1, <1>3, <1>5, <1>6, <1>12, <1>13 DEF WInv

(* updateWeright adds the weight to what the query yielded.                *)
LEMMA QueryDoneKeeps == ASSUME WInv, QueryDone PROVE WInv'
<1> DEFINE u == job[at]
<1>1. /\ phase = "query"
      /\ table' = [table EXCEPT !.repeated = Credit(@, out, SelfWeight[u])]
      /\ at' = at + 1
      /\ phase' = IF at = Len(job) THEN "commit" ELSE "insert"
      /\ queue' = << >> /\ out' = {}
      /\ UNCHANGED <<tiphash, weight_bk, hash_bk, saved, begun, job, stack, pushes>>
  BY DEF QueryDone
<1>2. phase = "query" /\ (queue = << >> \/ Cardinality(out) = QueryLimit)
  BY DEF QueryDone
<1>3. /\ TypeOK /\ Lasting /\ u \in Unit /\ at \in 1 .. Len(job) /\ job \in Seq(Unit)
      /\ Settled(table, hash_bk) /\ Settled(saved[1], saved[3]) /\ NeverFilled(begun[1])
      /\ Asking(approves, table, u, out, queue)
  BY <1>2, AtQuery
<1>4. PICK b \in Turn(approves, begun[1], job)[at - 1] : Ended(approves, b, table, u)
  BY <1>2, AtQuery
<1>5. /\ table \in Tables(Unit) /\ begun[1] \in Tables(Unit) /\ weight_bk \in [Unit -> Nat]
      /\ hash_bk \in [Unit -> Unit \cup {Zero}] /\ queue \in Seq(Unit)
  BY <1>3, ColumnTypes DEF TypeOK
<1>6. Len(job) \in Nat /\ at \in Nat /\ at - 1 \in 0 .. Len(job)
  BY <1>3, LenProperties
<1>7. b \in Tables(Unit)
  <2> DEFINE n == at - 1
  <2>1. b \in Turn(approves, begun[1], job)[n] /\ n \in 0 .. Len(job)
    BY <1>4, <1>6
  <2> HIDE DEF n
  <2> QED
    BY <1>3, <1>5, <2>1, TurnTables
<1> DEFINE r == [table EXCEPT !.repeated = Credit(@, out, SelfWeight[u])]
<1>8. r \in Pushed(approves, SelfWeight, QueryLimit, TriggerDepth, b, u)
  <2>1. r = [table EXCEPT !.repeated = Credit(@, out, SelfWeight[u])]
    OBVIOUS
  <2> HIDE DEF r, u
  <2> QED
    BY <1>2, <1>3, <1>4, <1>5, <1>7, <2>1, EndedPushed
<1>9. table' = r
  BY <1>1
<1> HIDE DEF r
<1>10. table' \in Turn(approves, begun[1], job)[at]
  BY <1>3, <1>4, <1>5, <1>8, <1>9, TurnNext
<1>11. table' \in Tables(Unit)
  BY <1>3, <1>5, <1>6, <1>10, TurnTables
<1>12. Stored(table') = Stored(table)
  <2>1. table = [rows |-> table.rows, weight |-> table.weight, repeated |-> table.repeated]
    BY <1>5, TableFields
  <2>2. table'.rows = table.rows
    BY <1>1, <2>1
  <2> QED
    BY <2>2 DEF Stored
<1>13. Settled(table', hash_bk')
  BY <1>1, <1>3, <1>12 DEF Settled
<1>14. phase' # "idle" /\ phase' \in {"insert", "commit"}
  BY <1>1
<1>15. Lasting' /\ approves' = approves
  BY <1>1, <1>2, <1>3, <1>14, LastingKept
<1>16. TypeOK'
  <2>1. columns' \in Columns
    BY <1>1, <1>5, <1>11, ColumnsTyped DEF columns
  <2>2. {columns, saved, begun}' \subseteq Columns
    BY <1>1, <1>3, <2>1 DEF TypeOK
  <2>3. at' \in 1 .. Len(job') + 1
    BY <1>1, <1>3, <1>6
  <2>4. << >> \in Seq(Unit)
    BY EmptySeq
  <2> QED
    BY <1>1, <1>3, <1>14, <2>2, <2>3, <2>4 DEF TypeOK
<1>17. Doing'
  <2>1. CASE at = Len(job)
    BY <1>1, <1>10, <1>15, <2>1 DEF Doing
  <2>2. CASE at # Len(job)
    <3>1. at' \in 1 .. Len(job) /\ at' - 1 = at /\ phase' = "insert"
      BY <1>1, <1>3, <1>6, <2>2
    <3> QED
      BY <1>1, <1>10, <1>15, <3>1 DEF Doing
  <2> QED
    BY <2>1, <2>2
<1> QED
  BY <1>1, <1>3, <1>13, <1>15, <1>16, <1>17 DEF WInv

(* The transaction ends.                                                   *)
LEMMA CommitKeeps == ASSUME WInv, Commit PROVE WInv'
<1>1. /\ phase = "commit" /\ phase' = "idle"
      /\ begun' = columns /\ saved' = columns
      /\ pushes' = pushes + Len(job)
      /\ job' = << >> /\ at' = 1
      /\ UNCHANGED <<tiphash, columns, table, weight_bk, hash_bk, stack, queue, out>>
  BY DEF Commit, columns
<1>2. TypeOK /\ Lasting /\ Settled(table, hash_bk) /\ Doing
  BY DEF WInv
<1>3. /\ table \in Turn(approves, begun[1], job)[Len(job)] /\ NeverFilled(begun[1])
      /\ JobOK(begun[1], job, pushes) /\ job \in Seq(Unit)
  BY <1>1, <1>2 DEF Doing, Lasting, TypeOK
<1>4. begun[1] \in Tables(Unit) /\ Len(job) \in Nat /\ columns \in Columns
  BY <1>2, <1>3, ColumnTypes, LenProperties
<1>5. NeverFilled(table)
  <2> DEFINE n == Len(job)
  <2>1. table \in Turn(approves, begun[1], job)[n] /\ n \in 0 .. Len(job)
    BY <1>3, <1>4
  <2> HIDE DEF n
  <2> QED
    BY <1>3, <1>4, <2>1, TurnTables
<1>6. begun'[1] = table /\ begun'[3] = hash_bk /\ saved'[1] = table /\ saved'[3] = hash_bk
  BY <1>1 DEF columns
<1>7. approves' = approves
  BY <1>1, SameTips
<1>8. pushes' \in 0 .. MaxPushes
  <2>1. pushes \in 0 .. MaxPushes /\ pushes + Len(job) <= MaxPushes
    BY <1>2, <1>3 DEF TypeOK, JobOK
  <2> QED
    BY <1>1, <1>4, <2>1, TriggerAssumption
<1>9. TypeOK'
  <2>1. {columns, saved, begun}' \subseteq Columns
    BY <1>1, <1>4
  <2>2. << >> \in Seq(Unit)
    BY EmptySeq
  <2> QED
    BY <1>1, <1>2, <1>8, <2>1, <2>2 DEF TypeOK
<1>10. Lasting'
  BY <1>1, <1>2, <1>5, <1>6, <1>7 DEF Lasting
<1>11. Doing'
  BY <1>1 DEF Doing
<1> QED
  BY <1>1, <1>2, <1>6, <1>9, <1>10, <1>11 DEF WInv

(* The process dies inside a transaction.                                  *)
LEMMA CrashKeeps == ASSUME WInv, Crash PROVE WInv'
<1>1. /\ phase # "idle" /\ phase' = "idle"
      /\ table' = begun[1] /\ weight_bk' = begun[2] /\ hash_bk' = begun[3]
      /\ saved' = begun
      /\ job' = << >> /\ at' = 1
      /\ stack' = << >> /\ queue' = << >> /\ out' = {}
      /\ UNCHANGED <<tiphash, begun, pushes>>
  BY DEF Crash, RollBack
<1>2. TypeOK /\ Lasting
  BY DEF WInv
<1>3. begun \in Columns /\ begun = <<begun[1], begun[2], begun[3]>>
  BY <1>2, ColumnTypes
<1>4. columns' = begun
  BY <1>1, <1>3 DEF columns
<1>5. approves' = approves
  BY <1>1, SameTips
<1>6. TypeOK'
  <2>1. {columns, saved, begun}' \subseteq Columns
    BY <1>1, <1>3, <1>4
  <2>2. /\ << >> \in Seq([tips : Seq(Unit \cup {Zero}), weight : Nat, hash : Unit])
        /\ << >> \in Seq(Unit) /\ Len(<< >>) = 0 /\ 0 < TriggerDepth
    BY EmptySeq, TriggerAssumption
  <2> QED
    BY <1>1, <1>2, <2>1, <2>2 DEF TypeOK
<1>7. Lasting'
  BY <1>1, <1>2, <1>4, <1>5 DEF Lasting
<1>8. Doing'
  BY <1>1 DEF Doing
<1> QED
  BY <1>1, <1>2, <1>6, <1>7, <1>8 DEF WInv, Lasting

(* Every step keeps the invariant.                                         *)
LEMMA Consecution == WInv /\ [Next]_vars => WInv'
<1> SUFFICES ASSUME WInv, [Next]_vars PROVE WInv'
  OBVIOUS
<1>1. CASE BeginPush
  BY <1>1, BeginPushKeeps
<1>2. CASE BeginPushAll
  BY <1>2, BeginPushAllKeeps
<1>3. CASE Insert
  BY <1>3, InsertKeeps
<1>4. CASE InsertFails
  BY <1>4, InsertFailsKeeps
<1>5. CASE TipMissing
  BY <1>5, TipMissingKeeps
<1>6. CASE TipReached
  BY <1>6, TipReachedKeeps
<1>7. CASE TipRepeated
  BY <1>7, TipRepeatedKeeps
<1>8. CASE Return
  BY <1>8, ReturnKeeps
<1>9. CASE TooDeep
  BY <1>9, TooDeepKeeps
<1>10. CASE InsertDone
  BY <1>10, InsertDoneKeeps
<1>11. CASE QueryRow
  BY <1>11, QueryRowKeeps
<1>12. CASE QueryDone
  BY <1>12, QueryDoneKeeps
<1>13. CASE Commit
  BY <1>13, CommitKeeps
<1>14. CASE Crash
  BY <1>14, CrashKeeps
<1>15. CASE UNCHANGED vars
  <2>1. /\ UNCHANGED <<tiphash, columns, saved, begun, job, at, phase, stack, queue, out, pushes>>
        /\ table' = table /\ hash_bk' = hash_bk
    BY <1>15 DEF vars, columns
  <2>2. approves' = approves
    BY <2>1, SameTips
  <2>3. TypeOK'
    BY <2>1 DEF WInv, TypeOK
  <2>4. Lasting' /\ Doing'
    BY <2>1, <2>2 DEF WInv, Lasting, Doing
  <2> QED
    BY <2>1, <2>3, <2>4 DEF WInv
<1> QED
  BY <1>1, <1>2, <1>3, <1>4, <1>5, <1>6, <1>7, <1>8, <1>9, <1>10, <1>11, <1>12, <1>13,
     <1>14, <1>15 DEF Next

(* So it always holds.                                                     *)
LEMMA Invariance == Spec => []WInv
BY Initially, Consecution, PTL DEF Spec

----------------------------------------------------------------------------
(* The columns, the job, the stack and the queue always have their types:  *)
(* the triggers never open a frame more than SQLite allows, and a crash or *)
(* a full stack restores columns that are whole (database.cpp:222-443).    *)
THEOREM TriggersTypes == Spec => []TypeOK
<1>1. WInv => TypeOK
  BY DEF WInv
<1> QED
  BY <1>1, Invariance, PTL

(* However the walks of the frames overlap, a row is credited once when    *)
(* hash_bk marks it and not at all when it does not, and only ancestors of *)
(* the new unit are marked (database.cpp:325-354).                         *)
THEOREM OnceCredited == Spec => []CreditedOnce
<1>1. ASSUME WInv PROVE CreditedOnce
  <2> SUFFICES ASSUME phase = "triggers", NEW v \in Unit
               PROVE  /\ table.weight[v] = saved[1].weight[v]
                                           + IF hash_bk[v] = job[at] THEN SelfWeight[job[at]] ELSE 0
                      /\ hash_bk[v] = job[at] => v \in Ancestry(approves, Stored(table), job[at])
    BY DEF CreditedOnce
  <2>1. TypeOK /\ Walk(approves, table, hash_bk, saved[1], stack, job[at])
    BY <1>1, AtTrigger
  <2>2. /\ Counted(table, hash_bk, saved[1], job[at])
        /\ Marks(approves, Stored(table), hash_bk, stack, job[at])
    BY <2>1 DEF Walk
  <2>3. \A n \in Nat : Within(approves, Stored(table), job[at], n)
                           \subseteq Ancestry(approves, Stored(table), job[at])
    BY <2>1, ColumnTypes, StoredFinite, AncestryClosed
  <2>4. TriggerDepth - 2 \in Nat
    BY TriggerAssumption
  <2> QED
    BY <2>2, <2>3, <2>4 DEF Counted, Marks
<1> QED
  BY <1>1, Invariance, PTL

----------------------------------------------------------------------------
(* The refinement.  UnitStore's operators are those of UnitTable.          *)

(* The same walks.                                                         *)
LEMMA SameHops ==
    ASSUME NEW a, NEW s, NEW u
    PROVE  Store!Hops(a, s, u) = Hops(a, s, u)
BY Zenon DEF Store!Hops, Hops

(* The same neighbourhoods.                                                *)
LEMMA SameWithin ==
    ASSUME NEW a, NEW s, NEW u, NEW n
    PROVE  Store!Within(a, s, u, n) = Within(a, s, u, n)
BY SameHops DEF Store!Within, Within

(* FiniteSets and Functions are instantiated with UnitStore.               *)
LEMMA SameCardinality == ASSUME NEW S PROVE Store!Cardinality(S) = Cardinality(S)
BY DEF Store!Cardinality, Cardinality

(* The range of a sequence.                                                *)
LEMMA SameRange == ASSUME NEW f PROVE Store!Range(f) = Range(f)
BY DEF Store!Range, Range

(* The same rows.                                                          *)
LEMMA SameStored == ASSUME NEW t PROVE Store!Stored(t) = Stored(t)
BY SameRange DEF Store!Stored, Stored

(* The same ancestries.                                                    *)
LEMMA SameAncestry ==
    ASSUME NEW a, NEW s, NEW u
    PROVE  Store!Ancestry(a, s, u) = Ancestry(a, s, u)
BY SameCardinality, SameWithin DEF Store!Ancestry, Ancestry

(* The same credit.                                                        *)
LEMMA SameCredit ==
    ASSUME NEW c, NEW S, NEW w
    PROVE  Store!Credit(c, S, w) = Credit(c, S, w)
BY DEF Store!Credit, Credit

(* The same INSERT.                                                        *)
LEMMA SameInserted ==
    ASSUME NEW a, NEW f, NEW t, NEW u
    PROVE  Store!Inserted(a, f, t, u) = Inserted(a, f, t, u)
BY SameAncestry, SameCredit, SameStored DEF Store!Inserted, Inserted

(* The same answers of the query.                                          *)
LEMMA SameQueryRows ==
    ASSUME NEW a, NEW s, NEW u, NEW l
    PROVE  Store!QueryRows(a, s, u, l) = QueryRows(a, s, u, l)
BY SameCardinality, SameAncestry, SameWithin DEF Store!QueryRows, QueryRows

(* The same updateWeright.                                                 *)
LEMMA SameUpdateWeright ==
    ASSUME NEW a, NEW f, NEW l, NEW t, NEW u
    PROVE  Store!UpdateWeright(a, f, l, t, u) = UpdateWeright(a, f, l, t, u)
BY SameQueryRows, SameCredit, SameStored DEF Store!UpdateWeright, UpdateWeright

(* The same depths.                                                        *)
LEMMA SameTooDeep ==
    ASSUME NEW a, NEW s, NEW u, NEW d
    PROVE  /\ Store!SurelyTooDeep(a, s, u, d) = SurelyTooDeep(a, s, u, d)
           /\ Store!MaybeTooDeep(a, s, u, d) = MaybeTooDeep(a, s, u, d)
BY SameAncestry, SameWithin, SameHops, SameCardinality
   DEF Store!SurelyTooDeep, SurelyTooDeep, Store!MaybeTooDeep, MaybeTooDeep

(* The same outcomes of a push.                                            *)
LEMMA SamePushed ==
    ASSUME NEW t, NEW u
    PROVE  Store!PushOutcomes(t, u) = Pushed(approves, SelfWeight, QueryLimit, TriggerDepth, t, u)
<1>1. ASSUME NEW a, NEW f, NEW l, NEW d
      PROVE  Store!Pushed(a, f, l, d, t, u) = Pushed(a, f, l, d, t, u)
  BY SameUpdateWeright, SameInserted, SameTooDeep, SameStored DEF Store!Pushed, Pushed
<1> QED
  BY <1>1 DEF Store!PushOutcomes

(* The same first table.                                                   *)
LEMMA SameEmptyTable == Store!EmptyTable(Unit) = EmptyTable(Unit)
BY DEF Store!EmptyTable, EmptyTable

(* The same outcomes of a pushAllUnit.                                     *)
LEMMA SameLoaded ==
    ASSUME NEW s
    PROVE  Store!Loaded(s) = Turn(approves, EmptyTable(Unit), s)[Len(s)]
BY Zenon DEF Store!Loaded, Turn, Store!EmptyTable, Store!PushOutcomes, Store!Pushed, Store!UpdateWeright, Store!Inserted, Store!QueryRows, Store!SurelyTooDeep, Store!MaybeTooDeep, Store!Ancestry, Store!Within, Store!Hops, Store!Cardinality, Store!Credit, Store!Stored, Store!Range, EmptyTable, Pushed, UpdateWeright, Inserted, QueryRows, SurelyTooDeep, MaybeTooDeep, Ancestry, Within, Hops, Cardinality, Credit, Stored, Range

(* The table UnitStore knows: inside a transaction the one it began with.  *)
Known == IF phase = "idle" THEN table ELSE begun[1]

(* A step UnitStore does not see.                                          *)
Unseen == approves' = approves /\ pushes' = pushes /\ Known' = Known

(* Such a step is a stutter of UnitStore.                                  *)
LEMMA UnseenStutters == ASSUME Unseen PROVE UNCHANGED Store!vars
BY DEF Unseen, Known, Store!vars

(* The tips of the initial states are a shape UnitStore begins with.       *)
LEMMA InitShapes == Init => Store!Init
<1> SUFFICES ASSUME Init PROVE Store!Init
  OBVIOUS
<1>1. approves \in [Unit -> SUBSET Unit]
  <2>1. \A v \in Unit : Tips(v) \ {Zero} \subseteq Unit
    BY DEF Init, Tips
  <2> QED
    BY <2>1 DEF approves
<1>2. approves[Genesis] = {}
  BY TriggerAssumption DEF Init, Tips, approves
<1>3. ASSUME NEW v \in Unit \ {Genesis}
      PROVE  Cardinality(approves[v]) \in 1 .. 2 /\ \A p \in approves[v] : p < v
  <2>1. \A p \in Tips(v) : p \in Unit /\ p < v /\ p # Zero
    BY TriggerAssumption DEF Init
  <2> DEFINE a == tiphash[v][1]
             b == tiphash[v][2]
  <2>2. approves[v] = {a, b} /\ \A p \in approves[v] : p < v
    BY <2>1 DEF approves, Tips
  <2> HIDE DEF a, b
  <2>3. Cardinality({a, b}) \in 1 .. 2
    <3>1. IsFiniteSet({a}) /\ Cardinality({a}) = 1
      BY FS_Singleton
    <3>2. Cardinality({a} \cup {b}) = IF b \in {a} THEN Cardinality({a}) ELSE Cardinality({a}) + 1
      BY <3>1, FS_AddElement
    <3>3. {a, b} = {a} \cup {b}
      OBVIOUS
    <3> QED
      BY <3>1, <3>2, <3>3
  <2> QED
    BY <2>2, <2>3
<1>4. approves \in Store!Shapes
  BY <1>1, <1>2, <1>3, SameCardinality DEF Store!Shapes
<1>5. Known = EmptyTable(Unit) /\ pushes = 0
  BY DEF Init, Known
<1> QED
  BY <1>4, <1>5, SameEmptyTable DEF Store!Init, Known

(* A commit is a push, or a pushAllUnit of a table without rows.           *)
LEMMA CommitPushes == ASSUME WInv, Commit PROVE Store!Next
<1> DEFINE b == begun[1]
           L == Len(job)
<1>1. /\ phase = "commit" /\ phase' = "idle" /\ pushes' = pushes + L
      /\ table' = table /\ approves' = approves
  BY SameTips DEF Commit, columns
<1>2. TypeOK /\ Lasting /\ Doing
  BY DEF WInv
<1>3. /\ table \in Turn(approves, b, job)[L] /\ NeverFilled(b)
      /\ job \in Seq(Unit) /\ job # << >> /\ pushes + L <= MaxPushes
      /\ L > 1 => IsInjective(job) /\ L <= Cardinality(Unit) /\ b.rows = << >>
  BY <1>1, <1>2 DEF Doing, Lasting, TypeOK, JobOK
<1>4. b \in Tables(Unit) /\ L \in Nat /\ L > 0 /\ pushes \in Nat /\ MaxPushes \in Nat
  <2>1. b \in Tables(Unit)
    BY <1>2, ColumnTypes
  <2>2. L \in Nat /\ L > 0
    BY <1>3, LenProperties, EmptySeq
  <2>3. pushes \in Nat /\ MaxPushes \in Nat
    BY <1>2, TriggerAssumption DEF TypeOK
  <2> QED
    BY <2>1, <2>2, <2>3
<1>5. Known = b /\ Known' = table
  BY <1>1 DEF Known
<1>6. CASE L = 1
  <2>1. job[1] \in Unit /\ 1 \in 1 .. L
    BY <1>3, <1>6, ElementOfSeq
  <2>2. Turns(Turn(approves, b, job), approves, b, job)
    BY <1>3, <1>4, TurnSteps
  <2>3. table \in Pushed(approves, SelfWeight, QueryLimit, TriggerDepth, b, job[1])
    <3>1. /\ Turn(approves, b, job)[0] = {b}
          /\ \E t \in Turn(approves, b, job)[1 - 1] :
                table \in Pushed(approves, SelfWeight, QueryLimit, TriggerDepth, t, job[1])
      BY <1>3, <1>6, <2>1, <2>2 DEF Turns
    <3> QED
      BY <3>1
  <2>4. table \in Store!PushOutcomes(b, job[1])
    BY <2>3, SamePushed
  <2>5. pushes < MaxPushes /\ pushes' = pushes + 1
    BY <1>1, <1>3, <1>4, <1>6
  <2>6. Store!Push(job[1])
    BY <1>1, <1>5, <2>4, <2>5 DEF Store!Push, Known
  <2> QED
    BY <2>1, <2>6 DEF Store!Next
<1>7. CASE L > 1
  <2>1. b = EmptyTable(Unit) /\ b.rows = << >>
    BY <1>3, <1>7 DEF NeverFilled
  <2>2. table \in Store!Loaded(job)
    BY <1>3, <2>1, SameLoaded
  <2>3. job \in Store!PeerRows
    <3>1. job \in [1 .. L -> Unit] /\ L \in 1 .. Cardinality(Unit) /\ IsInjective(job)
      BY <1>3, <1>4, <1>7, LenProperties
    <3> QED
      BY <3>1, SameCardinality DEF Store!PeerRows, Store!IsInjective, IsInjective
  <2>4. Store!PushAllUnit
    BY <1>1, <1>3, <1>5, <2>1, <2>2, <2>3 DEF Store!PushAllUnit, Known
  <2> QED
    BY <2>4 DEF Store!Next
<1>8. L = 1 \/ L > 1
  <2> HIDE DEF L
  <2> QED
    BY <1>4
<1> QED
  BY <1>6, <1>7, <1>8

(* Every step is a step of UnitStore or a stutter.                         *)
LEMMA StepPushes == WInv /\ [Next]_vars => [Store!Next]_(Store!vars)
<1> SUFFICES ASSUME WInv, [Next]_vars PROVE Store!Next \/ UNCHANGED Store!vars
  OBVIOUS
<1>1. CASE Commit
  BY <1>1, CommitPushes
<1>2. CASE BeginPush \/ BeginPushAll
  <2>1. /\ phase = "idle" /\ phase' = "insert"
        /\ UNCHANGED <<tiphash, columns, begun, pushes>>
    BY <1>2 DEF BeginPush, BeginPushAll, Begin
  <2>2. columns = begun
    BY <2>1 DEF WInv, Lasting
  <2>3. begun[1] = table
    BY <2>2 DEF columns
  <2> QED
    BY <2>1, <2>3, SameTips, UnseenStutters DEF Unseen, Known
<1>3. CASE Crash
  <2>1. /\ phase # "idle" /\ phase' = "idle" /\ table' = begun[1]
        /\ UNCHANGED <<tiphash, begun, pushes>>
    BY <1>3 DEF Crash, RollBack
  <2> QED
    BY <2>1, SameTips, UnseenStutters DEF Unseen, Known
<1>4. CASE \/ Insert \/ InsertFails \/ TipMissing \/ TipReached \/ TipRepeated \/ Return
           \/ TooDeep \/ InsertDone \/ QueryRow \/ QueryDone
  <2>1. /\ phase # "idle" /\ phase' # "idle"
        /\ UNCHANGED <<tiphash, begun, pushes>>
    BY <1>4 DEF Insert, InsertFails, TipMissing, TipReached, TipRepeated, Return, TooDeep,
                InsertDone, QueryRow, QueryDone, NextTip, ToQuery
  <2> QED
    BY <2>1, SameTips, UnseenStutters DEF Unseen, Known
<1>5. CASE UNCHANGED vars
  <2>1. UNCHANGED <<tiphash, table, begun, phase, pushes>>
    BY <1>5 DEF vars, columns
  <2> QED
    BY <2>1, SameTips, UnseenStutters DEF Unseen, Known
<1> QED
  BY <1>1, <1>2, <1>3, <1>4, <1>5 DEF Next

(* The frames of the triggers and the rows of the recursive query add up,  *)
(* at the commit, to the push UnitStore allows (database.cpp:222-443).     *)
THEOREM TriggersPush == Spec => ImplementsStore
BY InitShapes, StepPushes, Invariance, PTL DEF Spec, ImplementsStore, Store!Spec
=============================================================================

----------------------------- MODULE UnitTable -----------------------------
(***************************************************************************)
(* The Unit table of tinytangle.db and what one DagDatabase::push does to  *)
(* it, as pure operators: no state here.                                   *)
(*                                                                         *)
(* A table t is a record                                                   *)
(*     rows      the stored units in rowid order (hash is the primary key) *)
(*     weight    the column the SQL triggers maintain                      *)
(*     repeated  the column repeated_weight the recursive query maintains  *)
(* and approves[u] is the set of units that u names in tiphash1, tiphash2: *)
(* one or two units, none for the genesis unit, whose tip hashes are zero. *)
(* self[u] is the column self_weight.                                      *)
(***************************************************************************)
EXTENDS Naturals, FiniteSets, Sequences, Functions

Tables(U) == [rows : Seq(U), weight : [U -> Nat], repeated : [U -> Nat]]

EmptyTable(U) == [rows     |-> << >>,
                  weight   |-> [u \in U |-> 0],
                  repeated |-> [u \in U |-> 0]]

Stored(t) == Range(t.rows)

(***************************************************************************)
(* Hops(approves, stored, u)[n]: the stored rows at the end of a walk of   *)
(* exactly n steps from u towards older units that only visits stored rows *)
(* (an UPDATE ... WHERE hash = tiphash of a missing row changes nothing,   *)
(* and a join with a missing row yields nothing).                          *)
(***************************************************************************)
Hops(approves, stored, u) ==
    LET hop[n \in Nat] == IF n = 0 THEN {u}
                          ELSE stored \cap UNION {approves[v] : v \in hop[n-1]}
    IN  hop

Within(approves, stored, u, n) ==
    UNION {Hops(approves, stored, u)[k] : k \in 0 .. n}

(* u itself and every stored row that a chain of stored rows leads to.     *)
Ancestry(approves, stored, u) ==
    Within(approves, stored, u, Cardinality(stored))

Debit(count, S, w) ==
    [v \in DOMAIN count |-> IF v \in S THEN count[v] - w ELSE count[v]]

Credit(count, S, w) ==
    [v \in DOMAIN count |-> IF v \in S THEN count[v] + w ELSE count[v]]

(***************************************************************************)
(* The INSERT with its triggers, when the triggers run to their end: the   *)
(* new row starts at weight 0 and every row of its ancestry, itself        *)
(* included, gets its self weight once.                                    *)
(***************************************************************************)
InsertedNotRecursive(approves, self, t, u) ==
    [t EXCEPT !.rows   = Append(@, u),
              !.weight = Credit(@, Within(approves, Stored(t) \cup {u}, u, 1), self[u])]

InsertedUncounted(approves, self, t, u) ==
    [t EXCEPT !.rows   = Append(@, u),
              !.weight = Credit(@, Ancestry(approves, Stored(t), u) \ {u}, self[u])]

InsertedAgain(approves, self, t, u) ==
    [t EXCEPT !.rows   = Append(@, u),
              !.weight = [v \in DOMAIN @ |->
                            @[v] + self[u] * (Cardinality({p \in approves[u] \cap Stored(t) :
                                                  v \in Ancestry(approves, Stored(t), p)})
                                              + IF v = u THEN 1 ELSE 0)]]

Inserted(approves, self, t, u) ==
    [t EXCEPT !.rows   = Append(@, u),
              !.weight = Credit(@, Ancestry(approves, Stored(t) \cup {u}, u), self[u])]

(***************************************************************************)
(* The rows the recursive query of updateWeright yields: u and its         *)
(* ancestry in breadth-first order, cut after limit rows.  The order in    *)
(* which SQLite joins rows of one distance is not fixed by the query, so   *)
(* where the cut falls inside a distance any choice of rows is possible.   *)
(***************************************************************************)
QueryRows(approves, stored, u, limit) ==
    LET all  == Ancestry(approves, stored, u)
        Near(n) == Within(approves, stored, u, n)
    IN  IF Cardinality(all) <= limit THEN {all}
        ELSE {S \in SUBSET all :
                 /\ Cardinality(S) = limit
                 /\ \E n \in 0 .. Cardinality(stored) :
                       Near(n) \subseteq S /\ S \subseteq Near(n + 1)}

(***************************************************************************)
(* The tables updateWeright(u) may leave.  It runs whether or not the      *)
(* INSERT before it succeeded; for a unit that is not stored the query is  *)
(* empty.                                                                  *)
(***************************************************************************)
UpdateWerightAbove(approves, self, limit, t, u) ==
    {[t EXCEPT !.repeated = Credit(@, S \ {u}, self[u])] :
        S \in QueryRows(approves, Stored(t), u, limit)}

UpdateWeright(approves, self, limit, t, u) ==
    IF u \notin Stored(t) THEN {t}
    ELSE {[t EXCEPT !.repeated = Credit(@, S, self[u])] :
             S \in QueryRows(approves, Stored(t), u, limit)}

(***************************************************************************)
(* The trigger of a row n hops below the inserted row runs in trigger      *)
(* frame n + 2.  The triggers walk depth first, so they surely exceed a    *)
(* frame limit when some row is only reached by more hops than fit, and    *)
(* they may exceed it only when some walk is longer than fits.             *)
(***************************************************************************)
SurelyTooDeep(approves, stored, u, depth) ==
    Ancestry(approves, stored, u) # Within(approves, stored, u, depth - 2)

MaybeTooDeepSooner(approves, stored, u, depth) ==
    \E n \in 0 .. Cardinality(stored) :
        n + 2 >= depth /\ Hops(approves, stored, u)[n] # {}

MaybeTooDeep(approves, stored, u, depth) ==
    \E n \in 0 .. Cardinality(stored) :
        n + 2 > depth /\ Hops(approves, stored, u)[n] # {}

(***************************************************************************)
(* The tables push(u) may leave.  push ignores the error code of its       *)
(* INSERT and goes on to updateWeright and the commit, so each of the ways *)
(* the INSERT can end is an outcome: the row is already there (primary     *)
(* key), the triggers run to their end, or SQLite rolls the INSERT back    *)
(* because they exceed the frame limit.                                    *)
(***************************************************************************)
Pushed(approves, self, limit, depth, t, u) ==
    LET stored  == Stored(t) \cup {u}
        Query(s) == UpdateWeright(approves, self, limit, s, u)
    IN  IF u \in Stored(t) THEN Query(t)
        ELSE (IF SurelyTooDeep(approves, stored, u, depth) THEN {}
              ELSE Query(Inserted(approves, self, t, u)))
             \cup (IF MaybeTooDeep(approves, stored, u, depth) THEN Query(t) ELSE {})

(* The table after a push that neither limit concerns.                     *)
PushedInFull(approves, self, t, u) ==
    LET s == IF u \in Stored(t) THEN t ELSE Inserted(approves, self, t, u)
    IN  [s EXCEPT !.repeated = Credit(@, Ancestry(approves, Stored(s), u), self[u])]

(* The table after such pushes of the units of s in turn, from the first. *)
LoadedInFull(U, approves, self, s) ==
    LET load[n \in 0 .. Len(s)] ==
            IF n = 0 THEN EmptyTable(U)
            ELSE PushedInFull(approves, self, load[n-1], s[n])
    IN  load[Len(s)]

(***************************************************************************)
(* check_weight(u) looks the other way: the self weights of u and of every *)
(* stored row from which a chain of stored rows leads to u.                *)
(***************************************************************************)
Approvers(approves, stored, u) ==
    {d \in stored : u \in Ancestry(approves, stored, d)}
=============================================================================

----------------------------- MODULE UnitStore -----------------------------
(***************************************************************************)
(* DagDatabase: what the Unit table promises to the Dag.  Units are pushed *)
(* one at a time, in any order and possibly more than once (push), or all  *)
(* at once when a node synchronises (pushAllUnit).  The shape of the DAG   *)
(* is fixed in the initial state and arbitrary.                            *)
(***************************************************************************)
EXTENDS UnitTable, SequencesExt

CONSTANTS Unit,         \* the units a node may see, as naturals by age
          Genesis,      \* the unit without tips
          SelfWeight,   \* the self_weight header field of each unit
          QueryLimit,   \* LIMIT of the recursive query (1000 in the code)
          TriggerDepth, \* SQLITE_MAX_TRIGGER_DEPTH (1000 in the code)
          MaxPushes     \* bound: units handed to push and pushAllUnit

ASSUME StoreAssumption ==
    /\ Unit \subseteq Nat
    /\ Genesis \in Unit
    /\ SelfWeight \in [Unit -> Nat]
    /\ QueryLimit \in Nat \ {0}
    /\ TriggerDepth \in Nat \ {0, 1}
    /\ MaxPushes \in Nat

VARIABLES approves,  \* [Unit -> SUBSET Unit], constant in a behaviour
          table,     \* the Unit table
          up,        \* FALSE once an exception has ended the process
          pushes     \* units handed to push and pushAllUnit so far

vars == <<approves, table, up, pushes>>

(* Tips are older than the unit that approves them: a unit contains their  *)
(* hashes.                                                                 *)
Shapes == {f \in [Unit -> SUBSET Unit] :
              /\ f[Genesis] = {}
              /\ \A u \in Unit \ {Genesis} :
                    /\ Cardinality(f[u]) \in 1 .. 2
                    /\ \A p \in f[u] : p < u}

TypeOK ==
    /\ approves \in [Unit -> SUBSET Unit]
    /\ table \in Tables(Unit)
    /\ up \in BOOLEAN
    /\ pushes \in 0 .. MaxPushes

Init ==
    /\ approves \in Shapes
    /\ table = EmptyTable(Unit)
    /\ up = TRUE
    /\ pushes = 0

PushOutcomes(t, u) ==
    Pushed(approves, SelfWeight, QueryLimit, TriggerDepth, t, u)

(* DagDatabase::push: INSERT, updateWeright, commit.                       *)
Push(u) ==
    /\ up
    /\ pushes < MaxPushes
    /\ pushes' = pushes + 1
    /\ table' \in PushOutcomes(table, u)
    /\ UNCHANGED <<approves, up>>

(* The tables that pushing the units of s in turn may leave.               *)
Loaded(s) ==
    LET load[n \in 0 .. Len(s)] ==
            IF n = 0 THEN {EmptyTable(Unit)}
            ELSE UNION {PushOutcomes(t, s[n]) : t \in load[n-1]}
    IN  load[Len(s)]

(* The rows a peer may send: the units some peer stored, in its order.     *)
PeerRows == {s \in UNION {[1 .. n -> Unit] : n \in 1 .. Cardinality(Unit)} : IsInjective(s)}

(* DagDatabase::pushAllUnit on an empty table: the peer's rows in the      *)
(* peer's order, in one transaction.                                       *)
PushAllUnit ==
    /\ up
    /\ table.rows = << >>
    /\ \E s \in PeerRows :
          /\ pushes + Len(s) <= MaxPushes
          /\ pushes' = pushes + Len(s)
          /\ table' \in Loaded(s)
    /\ UNCHANGED <<approves, up>>

(* DagDatabase::pushAllUnit on a table with rows: "DELETE * FROM Unit" is  *)
(* no SQL, sqlite3pp throws while preparing it, the transaction rolls back *)
(* and nobody catches the exception.                                       *)
PushAllUnitReplaces ==
    /\ up
    /\ table.rows # << >>
    /\ table' = EmptyTable(Unit)
    /\ UNCHANGED <<approves, up, pushes>>

PushAllUnitThrows ==
    /\ up
    /\ table.rows # << >>
    /\ up' = FALSE
    /\ UNCHANGED <<approves, table, pushes>>

(* The process is started again: the table is a file.                      *)
Restart ==
    /\ ~up
    /\ up' = TRUE
    /\ UNCHANGED <<approves, table, pushes>>

Next ==
    \/ \E u \in Unit : Push(u)
    \/ PushAllUnit
    \/ PushAllUnitThrows
    \/ Restart

Spec == Init /\ [][Next]_vars

----------------------------------------------------------------------------
(* The sum check_weight selects for one unit.                              *)
CheckWeight(u) ==
    MapThenSumSet(LAMBDA d : SelfWeight[d], Approvers(approves, Stored(table), u))

(* No row stands before a row it approves.                                 *)
InOrder ==
    \A i, j \in DOMAIN table.rows :
        table.rows[i] \in approves[table.rows[j]] => i < j

(***************************************************************************)
(* What the weight of a row means: its own self weight and that of each    *)
(* unit stored later that led to it through the rows present when it was   *)
(* stored.  Stated with positions and the smallest set closed under        *)
(* approval, not with the walk of the triggers (database.cpp:325-386).     *)
(***************************************************************************)
LedTo(j, i) ==
    \A S \in SUBSET (1 .. j) :
        /\ j \in S
        /\ \A m \in S, k \in 1 .. j :
              table.rows[k] \in approves[table.rows[m]] => k \in S
        => i \in S

WeightMeaning ==
    \A i \in DOMAIN table.rows :
        table.weight[table.rows[i]] =
            MapThenSumSet(LAMBDA j : SelfWeight[table.rows[j]],
                          {j \in i .. Len(table.rows) : j = i \/ LedTo(j, i)})

(* A row never has more weight than check_weight finds for it, and exactly *)
(* that much when units were stored after the units they approve           *)
(* (database.cpp:401-413).                                                 *)
WeightChecked ==
    \A u \in Stored(table) :
        /\ table.weight[u] <= CheckWeight(u)
        /\ InOrder => table.weight[u] = CheckWeight(u)

(* The triggers' weight and the query's repeated_weight agree as long as   *)
(* every push added a row and no ancestry exceeds the query's LIMIT: the   *)
(* two ways of database.cpp:325-386 and 387-401 compute one number.        *)
RepeatedAgrees ==
    /\ pushes = Len(table.rows)
    /\ \A u \in Stored(table) :
          Cardinality(Ancestry(approves, Stored(table), u)) <= QueryLimit
    => table.repeated = table.weight

(* Where the LIMIT cuts, the query only ever counts less than the triggers *)
(* (database.cpp:395).                                                     *)
RepeatedFallsShort ==
    pushes = Len(table.rows) =>
        \A u \in Unit : table.repeated[u] <= table.weight[u]

(* Rows are never removed or reordered and no weight falls, whatever is    *)
(* pushed, whatever fails and however often the process restarts.          *)
OnlyGrows ==
    [][/\ IsPrefix(table.rows, table'.rows)
       /\ \A u \in Unit : /\ table.weight[u] <= table'.weight[u]
                           /\ table.repeated[u] <= table'.repeated[u]]_vars

(* A unit that is pushed may be lost: SQLite rolls the INSERT back when    *)
(* the triggers go too deep, and push ignores the error.  That only        *)
(* happens to a unit that has a chain of TriggerDepth rows, each approving *)
(* the next, itself being the first (database.cpp:324, 440).               *)
Chains(u, n) ==
    {c \in [1 .. n -> Stored(table) \cup {u}] :
        c[1] = u /\ \A i \in 1 .. n - 1 : c[i + 1] \in approves[c[i]]}

LostOnlyIfDeep ==
    [][\A u \in Unit :
          Push(u) /\ u \notin Stored(table') => Chains(u, TriggerDepth) # {}]_vars
=============================================================================

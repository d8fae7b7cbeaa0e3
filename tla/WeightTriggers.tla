--------------------------- MODULE WeightTriggers ---------------------------
(***************************************************************************)
(* One transaction of DagDatabase in detail: the frames of the SQL         *)
(* triggers that carry a new unit's weight to its ancestors, depth first,  *)
(* and the recursive query of updateWeright, breadth first.  Both run      *)
(* inside one transaction under update_weight_mtx_, so transactions do not *)
(* interleave; a crash or a full trigger stack undoes them.                *)
(***************************************************************************)
EXTENDS UnitTable, SequencesExt

CONSTANTS Unit, Genesis, SelfWeight, QueryLimit, TriggerDepth, MaxPushes

Zero == 0   \* the hash "0...0" of the genesis tips and the default of hash_bk

ASSUME TriggerAssumption ==
    /\ Unit \subseteq Nat \ {Zero}
    /\ Genesis \in Unit
    /\ SelfWeight \in [Unit -> Nat]
    /\ QueryLimit \in Nat \ {0}
    /\ TriggerDepth \in Nat \ {0, 1}
    /\ MaxPushes \in Nat

VARIABLES tiphash,   \* <<tiphash1, tiphash2>> of each unit, constant
          table,     \* rows, weight and repeated_weight as they stand
          weight_bk, \* the weight a row is to pass on
          hash_bk,   \* the unit whose weight last reached a row
          saved,     \* what a rollback of the running statement restores
          begun,     \* what a rollback of the transaction restores
          job, at,   \* units of the running transaction, the one it is at
          phase,     \* what the transaction is doing with job[at]
          stack,     \* frames of the update triggers, the innermost last
          queue, out,\* rows waiting in the recursive query, rows it yielded
          pushes     \* units in committed transactions

columns == <<table, weight_bk, hash_bk>>
vars == <<tiphash, columns, saved, begun, job, at, phase, stack, queue, out, pushes>>

RollBackNothing(c) == UNCHANGED columns
RollBack(c) == table' = c[1] /\ weight_bk' = c[2] /\ hash_bk' = c[3]

Tips(u) == {tiphash[u][1], tiphash[u][2]}
approves == [u \in Unit |-> Tips(u) \ {Zero}]

Init ==
    /\ tiphash \in [Unit -> (Unit \cup {Zero}) \X (Unit \cup {Zero})]
    /\ tiphash[Genesis] = <<Zero, Zero>>
    /\ \A u \in Unit \ {Genesis} : \A p \in Tips(u) : p \in Unit /\ p < u
    /\ table = EmptyTable(Unit)
    /\ weight_bk = [u \in Unit |-> 0]
    /\ hash_bk = [u \in Unit |-> Zero]
    /\ saved = columns /\ begun = columns
    /\ job = << >> /\ at = 1 /\ phase = "idle"
    /\ stack = << >> /\ queue = << >> /\ out = {}
    /\ pushes = 0

(* push(u), or pushAllUnit(s) on an empty table: BEGIN.                    *)
Begin(s) ==
    /\ phase = "idle"
    /\ pushes + Len(s) <= MaxPushes
    /\ job' = s /\ at' = 1
    /\ phase' = "insert"
    /\ UNCHANGED <<tiphash, columns, saved, begun, stack, queue, out, pushes>>

BeginPush == \E u \in Unit : Begin(<<u>>)

BeginPushAll ==
    /\ table.rows = << >>
    /\ \E s \in UNION {[1 .. n -> Unit] : n \in 2 .. Cardinality(Unit)} :
          IsInjective(s) /\ Begin(s)

(* A frame of the trigger on row r: it passes the values r has now to the  *)
(* rows of its tips, both (weight_update_double_tips) or one               *)
(* (weight_update_single_tip).                                             *)
Frame(r, weight, hash) ==
    [tips   |-> IF tiphash[r][1] = tiphash[r][2] THEN <<tiphash[r][1]>> ELSE tiphash[r],
     weight |-> weight,
     hash   |-> hash]

(* INSERT INTO Unit, and the four updates of the trigger after the insert, *)
(* the last of which opens the first frame.                                *)
Insert ==
    LET u == job[at] IN
    /\ phase = "insert"
    /\ u \notin Stored(table)
    /\ saved' = columns
    /\ table' = [table EXCEPT !.rows = Append(@, u), !.weight[u] = @ + SelfWeight[u]]
    /\ weight_bk' = [weight_bk EXCEPT ![u] = SelfWeight[u]]
    /\ hash_bk' = [hash_bk EXCEPT ![u] = u]
    /\ stack' = <<Frame(u, SelfWeight[u], u)>>
    /\ phase' = "triggers"
    /\ UNCHANGED <<tiphash, begun, job, at, queue, out, pushes>>

ToQuery ==
    /\ phase' = "query"
    /\ stack' = << >>
    /\ out' = {}

(* The INSERT fails on the primary key; updateWeright runs all the same.   *)
InsertFails ==
    /\ phase = "insert"
    /\ job[at] \in Stored(table)
    /\ ToQuery
    /\ queue' = <<job[at]>>
    /\ UNCHANGED <<tiphash, columns, saved, begun, job, at, pushes>>

Top == stack[Len(stack)]

(* What the row of p hands to its own trigger: the weight it has just been *)
(* handed (weight_bk is updated before hash_bk).                           *)
PassedStale(p) == weight_bk[p]
Passed(p) == Top.weight

(* The weight after the second credit has been taken back.                 *)
AgainKept(w) == w + Top.weight
Again(w) == (w + Top.weight) - Top.weight

(* The trigger program of the tip the innermost frame comes to next would  *)
(* be frame Len(stack) + 2: one frame is the insert trigger's.             *)
FitsOneMore == Len(stack) + 1 <= TriggerDepth
Fits == Len(stack) + 2 <= TriggerDepth

NextTip(p) ==
    /\ phase = "triggers"
    /\ stack # << >>
    /\ Top.tips # << >>
    /\ p = Head(Top.tips)

(* The tip is not stored: the updates match no row.                        *)
TipMissing ==
    \E p \in Unit \cup {Zero} :
        /\ NextTip(p)
        /\ p \notin Stored(table)
        /\ stack' = [stack EXCEPT ![Len(stack)].tips = Tail(@)]
        /\ UNCHANGED <<tiphash, columns, saved, begun, job, at, phase, queue, out, pushes>>

(* weight, weight_bk and hash_bk of the tip's row are updated; hash_bk     *)
(* changes, so the row's own trigger passes them on.                       *)
TipReached ==
    \E p \in Stored(table) :
        /\ NextTip(p)
        /\ hash_bk[p] # Top.hash
        /\ Fits
        /\ table' = [table EXCEPT !.weight[p] = @ + Top.weight]
        /\ weight_bk' = [weight_bk EXCEPT ![p] = Top.weight]
        /\ hash_bk' = [hash_bk EXCEPT ![p] = Top.hash]
        /\ stack' = Append([stack EXCEPT ![Len(stack)].tips = Tail(@)],
                           Frame(p, Passed(p), Top.hash))
        /\ UNCHANGED <<tiphash, saved, begun, job, at, phase, queue, out, pushes>>

(* The row was reached before: hash_bk keeps its value and                 *)
(* weight_update_delete_repeat takes the second credit back.               *)
TipRepeated ==
    \E p \in Stored(table) :
        /\ NextTip(p)
        /\ hash_bk[p] = Top.hash
        /\ Fits
        /\ weight_bk' = [weight_bk EXCEPT ![p] = Top.weight]
        /\ table' = [table EXCEPT !.weight[p] = Again(@)]
        /\ stack' = [stack EXCEPT ![Len(stack)].tips = Tail(@)]
        /\ UNCHANGED <<tiphash, hash_bk, saved, begun, job, at, phase, queue, out, pushes>>

Return ==
    /\ phase = "triggers"
    /\ stack # << >>
    /\ Top.tips = << >>
    /\ stack' = Front(stack)
    /\ UNCHANGED <<tiphash, columns, saved, begun, job, at, phase, queue, out, pushes>>

InsertDone ==
    /\ phase = "triggers"
    /\ stack = << >>
    /\ ToQuery
    /\ queue' = <<job[at]>>
    /\ UNCHANGED <<tiphash, columns, saved, begun, job, at, pushes>>

(* "too many levels of trigger recursion": SQLite rolls the INSERT back;   *)
(* push goes on with a unit that is not there.                             *)
TooDeep ==
    \E p \in Stored(table) :
        /\ NextTip(p)
        /\ ~Fits
        /\ RollBack(saved)
        /\ ToQuery
        /\ queue' = << >>
        /\ UNCHANGED <<tiphash, saved, begun, job, at, pushes>>

(* One row leaves the queue of the recursive query; the rows it names that *)
(* the query has not seen (UNION, not UNION ALL) enter it in some order.   *)
QueryRow ==
    /\ phase = "query"
    /\ queue # << >>
    /\ Cardinality(out) < QueryLimit
    /\ LET r   == Head(queue)
           new == (approves[r] \cap Stored(table)) \ (out \cup Range(queue))
       IN  /\ out' = out \cup {r}
           /\ \E s \in SetToSeqs(new) : queue' = Tail(queue) \o s
    /\ UNCHANGED <<tiphash, columns, saved, begun, job, at, phase, stack, pushes>>

(* The update of repeated_weight, and the next unit of the transaction.    *)
QueryDone ==
    LET u == job[at] IN
    /\ phase = "query"
    /\ queue = << >> \/ Cardinality(out) = QueryLimit
    /\ table' = [table EXCEPT !.repeated = Credit(@, out, SelfWeight[u])]
    /\ at' = at + 1
    /\ phase' = IF at = Len(job) THEN "commit" ELSE "insert"
    /\ queue' = << >> /\ out' = {}
    /\ UNCHANGED <<tiphash, weight_bk, hash_bk, saved, begun, job, stack, pushes>>

Commit ==
    /\ phase = "commit"
    /\ phase' = "idle"
    /\ begun' = columns /\ saved' = columns
    /\ pushes' = pushes + Len(job)
    /\ job' = << >> /\ at' = 1
    /\ UNCHANGED <<tiphash, columns, stack, queue, out>>

(* The process dies inside a transaction and is started again: the         *)
(* journal restores the columns, hash_bk and weight_bk with them.          *)
Crash ==
    /\ phase # "idle"
    /\ RollBack(begun)
    /\ saved' = begun
    /\ job' = << >> /\ at' = 1 /\ phase' = "idle"
    /\ stack' = << >> /\ queue' = << >> /\ out' = {}
    /\ UNCHANGED <<tiphash, begun, pushes>>

Next ==
    \/ BeginPush \/ BeginPushAll
    \/ Insert \/ InsertFails
    \/ TipMissing \/ TipReached \/ TipRepeated \/ Return \/ TooDeep
    \/ InsertDone \/ QueryRow \/ QueryDone
    \/ Commit \/ Crash

Spec == Init /\ [][Next]_vars

----------------------------------------------------------------------------
Columns == Tables(Unit) \X [Unit -> Nat] \X [Unit -> Unit \cup {Zero}]

TypeOK ==
    /\ tiphash \in [Unit -> (Unit \cup {Zero}) \X (Unit \cup {Zero})]
    /\ {columns, saved, begun} \subseteq Columns
    /\ job \in Seq(Unit)
    /\ phase \in {"idle", "insert", "triggers", "query", "commit"}
    /\ phase # "idle" => at \in 1 .. Len(job) + 1
    /\ stack \in Seq([tips : Seq(Unit \cup {Zero}), weight : Nat, hash : Unit])
    /\ Len(stack) < TriggerDepth
    /\ queue \in Seq(Unit) /\ out \subseteq Unit
    /\ pushes \in 0 .. MaxPushes

(***************************************************************************)
(* Through the whole depth-first walk a row has been credited with the new *)
(* unit's weight exactly once if hash_bk marks it and not at all if it     *)
(* does not, and only the new unit's ancestry is marked: the second visit  *)
(* of a diamond never counts twice (database.cpp:325-354).                 *)
(***************************************************************************)
CreditedOnce ==
    phase = "triggers" =>
        LET u == job[at] IN
        \A v \in Unit :
            /\ table.weight[v] = saved[1].weight[v]
                                 + IF hash_bk[v] = u THEN SelfWeight[u] ELSE 0
            /\ hash_bk[v] = u => v \in Ancestry(approves, Stored(table), u)

(***************************************************************************)
(* Seen from outside a transaction, the trigger frames and the recursive   *)
(* query are one push of UnitStore (database.cpp:222-443, 492-520).        *)
(***************************************************************************)
Store == INSTANCE UnitStore
            WITH table <- IF phase = "idle" THEN table ELSE begun[1],
                 up <- TRUE

ImplementsStore == Store!Spec
=============================================================================

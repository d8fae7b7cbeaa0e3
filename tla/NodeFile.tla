------------------------------ MODULE NodeFile ------------------------------
(***************************************************************************)
(* A node and its file from one start to the next: main up to dag.init,    *)
(* database::init, the constructor of DagDatabase, the synchronisation as  *)
(* far as it writes, the key pair; then units made, received and stored.   *)
(*                                                                         *)
(* Each statement that makes a part of the schema is a transaction of its  *)
(* own and a step here.  The process may end between any two steps, and a  *)
(* statement may fail (a full disk): execute returns a code that nobody    *)
(* looks at.  A statement about a table that is not there is another       *)
(* matter: sqlite3pp throws when it is prepared.                           *)
(***************************************************************************)
EXTENDS UnitFormat, Naturals, FiniteSets

CONSTANTS Own,      \* names for the units this node makes
          Peer,     \* units of other nodes
          Genesis,  \* its genesis unit
          KeyName,  \* names for key pairs
          NoKey,
          MaxFailed \* bound: statements that fail in one start

ASSUME NodeFileAssumption ==
    /\ Genesis \notin Own \cup Peer
    /\ NoKey \notin KeyName
    /\ MaxFailed \in Nat

VARIABLES file,       \* what there is of the file and its schema
          rows,       \* the rows of table Unit
          key_pairs,  \* the rows of table key_pairs
          at,         \* the step of the start the process is at
          failed,     \* ghost: what could not be made during this start
          tipsPool_, myKey_,
          sent        \* ghost: the document last broadcast, if any

fileVars == <<file, rows, key_pairs>>
memVars == <<at, failed, tipsPool_, myKey_, sent>>
nodeVars == <<fileVars, memVars>>

(* The order of the statements: three of database::init, four of the       *)
(* constructor of DagDatabase.                                             *)
Part == <<"Unit", "key_pairs", "hash_index", "weight_update_double_tips",
          "weight_update_single_tip", "weight_update_delete_repeat",
          "weight_update_after_insert_single_tip">>
Tables == {"Unit", "key_pairs"}
Triggers == {Part[i] : i \in 4 .. 7}

Down == 0        \* there is no process
Index == 3       \* create index
FirstTrigger == 4
Sync == 8        \* Network::sync_dag
DagInit == 9     \* Dag::init
Up == 10

Units == Own \cup Peer \cup {Genesis}
Original(u) == IF u = Genesis THEN genesis(u) ELSE Sealed(u)

(* The copy a node has of a unit it read from a document.                  *)
Copy(u) == Unit(to_json(Original(u)), u)

Copies == {Original(u) : u \in Units} \cup {Copy(u) : u \in Units}

NodeTypeOK ==
    /\ file \subseteq {"file"} \cup Range(Part)
    /\ rows \subseteq {Row(c) : c \in Copies}
    /\ key_pairs \in Seq(KeyName)
    /\ at \in Down .. Up
    /\ failed \subseteq Range(Part)
    /\ tipsPool_ \subseteq Copies
    /\ myKey_ \in KeyName \cup {NoKey}
    /\ Len(sent) <= 1

NodeInit ==
    /\ file = {} /\ rows = {} /\ key_pairs = << >>
    /\ at = Down /\ failed = {} /\ tipsPool_ = {} /\ myKey_ = NoKey /\ sent = << >>

(* The pool, the key in use and the threads go with the process.           *)
EndProcess ==
    /\ at' = Down
    /\ failed' = {} /\ tipsPool_' = {} /\ myKey_' = NoKey /\ sent' = << >>

Crash ==
    /\ at # Down
    /\ EndProcess
    /\ UNCHANGED fileVars

----------------------------------------------------------------------------
(* The start.                                                              *)

(* database::init does nothing when there is a file; otherwise it opens    *)
(* the database, which makes an empty one.                                 *)
Start ==
    /\ at = Down
    /\ at' = IF "file" \in file THEN FirstTrigger ELSE 1
    /\ file' = file \cup {"file"}
    /\ UNCHANGED <<rows, key_pairs, failed, tipsPool_, myKey_, sent>>

(* What the index and the triggers are on has to be there.                 *)
AlwaysPrepared(i) == TRUE
Prepared(i) == i < Index \/ "Unit" \in file

Make ==
    /\ at \in DOMAIN Part
    /\ Prepared(at)
    /\ file' = file \cup {Part[at]}
    /\ at' = at + 1
    /\ UNCHANGED <<rows, key_pairs, failed, tipsPool_, myKey_, sent>>

MakeFails ==
    /\ at \in DOMAIN Part
    /\ Prepared(at)
    /\ Part[at] \notin file
    /\ Cardinality(failed) < MaxFailed
    /\ failed' = failed \cup {Part[at]}
    /\ at' = at + 1
    /\ UNCHANGED <<fileVars, tipsPool_, myKey_, sent>>

(* database::init catches what is thrown and returns; the constructor of   *)
(* Dag does not, and the process ends.                                     *)
MakeThrows ==
    /\ at \in DOMAIN Part
    /\ ~Prepared(at)
    /\ IF at = Index THEN at' = at + 1 /\ UNCHANGED <<failed, tipsPool_, myKey_, sent>>
                     ELSE EndProcess
    /\ UNCHANGED fileVars

(* push, pushAllUnit: a unit that is there already stays as it is.         *)
Stored(set) ==
    rows \cup {r \in set : \A old \in rows : old["hash"] # r["hash"]}

Alone ==
    /\ at = Sync
    /\ at' = DagInit
    /\ UNCHANGED <<fileVars, failed, tipsPool_, myKey_, sent>>

(* The answer of a peer: the documents of its rows and of its tips.        *)
(* "DELETE * FROM Unit" is no SQL: pushAllUnit throws when there are rows  *)
(* to be replaced.                                                         *)
pushAllUnit(database, tips) ==
    IF Cardinality(database) > Cardinality(rows) /\ rows # {}
    THEN EndProcess /\ UNCHANGED fileVars
    ELSE /\ rows' = IF Cardinality(database) > Cardinality(rows)
                    THEN Stored({json_to_row(json) : json \in database})
                    ELSE rows
         /\ tipsPool_' = tips
         /\ at' = DagInit
         /\ UNCHANGED <<file, key_pairs, failed, myKey_, sent>>

Synchronised ==
    /\ at = Sync
    /\ \E held \in SUBSET Units, tips \in SUBSET Units :
          /\ held \cap tips = {}
          /\ pushAllUnit({row_to_json(Row(Copy(u))) : u \in held}, {Copy(u) : u \in tips})

(* getNewKeyPair makes a random pair; its INSERT may fail as well.         *)
KeyTableUnread == TRUE
KeyTableThere == "key_pairs" \in file

AlwaysNewPair == TRUE
NoKeyPair == key_pairs = << >>

Dag_init ==
    /\ at = DagInit
    /\ KeyTableThere
    /\ tipsPool_' = IF rows = {} /\ tipsPool_ = {} THEN {genesis(Genesis)} ELSE tipsPool_
    /\ IF NoKeyPair
       THEN /\ myKey_' \in KeyName \ Range(key_pairs)
            /\ key_pairs' \in {Append(key_pairs, myKey_'), key_pairs}
       ELSE myKey_' = Head(key_pairs) /\ UNCHANGED key_pairs
    /\ at' = Up
    /\ UNCHANGED <<file, rows, failed, sent>>

Dag_initThrows ==
    /\ at = DagInit
    /\ ~KeyTableThere
    /\ EndProcess
    /\ UNCHANGED fileVars

----------------------------------------------------------------------------
(* The node is up.  Dag models how tips are selected, and Network how      *)
(* datagrams travel; what counts here is what is stored and sent.          *)

Known(hash) == \E c \in rows \cup tipsPool_ : c["hash"] = hash

(* The tips that a unit approves go to the table, the unit into the pool.  *)
Approve(named, unit) ==
    /\ rows' = Stored({Row(c) : c \in named})
    /\ tipsPool_' = (tipsPool_ \ named) \cup {unit}

creatUnit(u) ==
    /\ at = Up
    /\ ~Known(Sealed(u)["hash"])
    /\ \E named \in SUBSET tipsPool_ :
          Cardinality(named) \in 1 .. 2 /\ Approve(named, Sealed(u))
    /\ sent' = <<to_json(Sealed(u))>>
    /\ UNCHANGED <<file, key_pairs, at, failed, myKey_>>

(* A unit that is new and verifies is passed on as it came.                *)
RelayedCopy(json, u) == to_json(Unit(json, u))
Relayed(json, u) == json

pushUnit(u) ==
    LET json == to_json(Sealed(u)) IN
    /\ at = Up
    /\ ~Known(json["hash"])
    /\ Verifies(json)
    /\ \E named \in SUBSET tipsPool_ :
          Cardinality(named) <= 2 /\ Approve(named, Unit(json, u))
    /\ sent' = <<Relayed(json, u)>>
    /\ UNCHANGED <<file, key_pairs, at, failed, myKey_>>

NodeNext ==
    \/ Crash \/ Start
    \/ Make \/ MakeFails \/ MakeThrows
    \/ Alone \/ Synchronised
    \/ Dag_init \/ Dag_initThrows
    \/ \E u \in Own : creatUnit(u)
    \/ \E u \in Own \cup Peer : pushUnit(u)

NodeSpec == NodeInit /\ [][NodeNext]_nodeVars

----------------------------------------------------------------------------
(* A node that serves has both tables, the triggers, unless making one     *)
(* failed during this very start, and a key: a crash between two           *)
(* statements of database::init leaves a file that a later start takes for *)
(* whole, and nothing but the exceptions of missing tables keeps that node *)
(* from storing units without a weight (database.cpp:37-75, 325-387,       *)
(* dag.cpp:37).                                                            *)
ServesWhole ==
    at = Up => /\ Tables \subseteq file
               /\ Triggers \ failed \subseteq file
               /\ myKey_ # NoKey

(* Once a key pair is stored the node never uses another, however often it *)
(* starts and wherever it is stopped; if the INSERT failed, the next start *)
(* makes another one (dag.cpp:37-42, database.cpp:568-583, database.h:7).  *)
KeyForGood ==
    [][/\ key_pairs # << >> => key_pairs' = key_pairs
       /\ key_pairs' # << >> => myKey_' \in {NoKey, Head(key_pairs')}]_nodeVars

(* Whatever way a unit has come, by broadcast, in a synchronisation,       *)
(* through the table of one node and the document of its rows to the table *)
(* of another, the copy here agrees with what its maker made, but for the  *)
(* time of the transaction (unit.cpp:13, transaction.cpp:38,               *)
(* database.cpp:425, 449, 503).                                            *)
Agrees(copy) ==
    \E u \in Units : \A f \in Column : copy[f] = Original(u)[f]

CopiesSound == \A c \in rows \cup tipsPool_ : Agrees(c)

(* What a node broadcasts, its own units and those of others, passes the   *)
(* verification of every other node, though its own copy of a received     *)
(* unit would not (Network.h:364, dag.cpp:71-88, consensus.cpp:36-39).     *)
BroadcastVerifies == \A i \in DOMAIN sent : Verifies(sent[i])
=============================================================================

------------------------------ MODULE Network ------------------------------
(***************************************************************************)
(* Several nodes on one local network: the start of a node (main, with     *)
(* cliBcast::sync_dag and request_dag, Dag::pushAllUnit and Dag::init),    *)
(* its listener (servBcast::listen and the tasks it hands to its pool),    *)
(* the spreading of units by rebroadcast, and the end of a process, after  *)
(* which only its database is left.                                        *)
(*                                                                         *)
(* Dag models what happens inside one node; here selectTips and pushUnit   *)
(* are one step each, the pool and the table are sets, and peers are real. *)
(* Datagrams are unordered and may be lost.                                *)
(***************************************************************************)
EXTENDS Naturals, FiniteSets

CONSTANTS Node,
          NoOne,     \* "no node"
          User,      \* the host from which a user sends commands
          Commands,  \* TRUE: there is such a user
          MaxBoots,  \* bound: starts of a process, all nodes together
          MaxInfos   \* bound: infos turned into units, all nodes together

ASSUME NetworkAssumption ==
    /\ MaxBoots \in Nat /\ MaxInfos \in Nat /\ Commands \in BOOLEAN
    /\ NoOne \notin Node /\ User \notin Node /\ User # NoOne

(* Start k of a process may make genesis unit k (its hash depends on the   *)
(* time); the units of infos come after.                                   *)
Unit   == 1 .. MaxBoots + MaxInfos
NoUnit == 0

VARIABLES approves,   \* the units whose hashes a unit holds in tipsHash
          boots,      \* number of starts so far
          infos,      \* number of infos taken up so far
          pc,         \* where the main thread of a node is
          life,       \* the number of the node's latest start
          db, tips,   \* dag_db_ and tipsPool_
          heard,      \* maxcount and serv_addr of sync_dag; nobody is -1
          self,       \* self_addr_ of the listener
          wpc, wunit, \* the worker, and the unit it makes
          answering,  \* answers to reqdag of which the rows are read
          wire,       \* datagrams to the bound port
          answers,    \* datagrams to the sockets that ask
          source,     \* history: the peer a node has its first units from
          missed      \* history: units on which a node had bad luck

nodeVars == <<pc, life, db, tips, heard, self>>
workVars == <<wpc, wunit, answering>>
netVars  == <<wire, answers>>
history  == <<source, missed>>
vars == <<approves, boots, infos, nodeVars, workVars, netVars, history>>

Nobody == [server |-> NoOne, count |-> 0]
Alone  == [peer |-> NoOne, life |-> 0]

Init ==
    /\ approves = [u \in Unit |-> {}]
    /\ boots = 0 /\ infos = 0
    /\ pc = [n \in Node |-> "off"]
    /\ life = [n \in Node |-> 0]
    /\ db = [n \in Node |-> {}] /\ tips = [n \in Node |-> {}]
    /\ heard = [n \in Node |-> Nobody]
    /\ self = [n \in Node |-> NoOne]
    /\ wpc = [n \in Node |-> "idle"] /\ wunit = [n \in Node |-> NoUnit]
    /\ answering = [n \in Node |-> {}]
    /\ wire = {} /\ answers = {}
    /\ source = [n \in Node |-> Alone]
    /\ missed = [n \in Node |-> {}]

----------------------------------------------------------------------------
(* Datagrams.  The port of the listener is bound by the constructor of     *)
(* Network, long before start_listen: from then on the kernel keeps what   *)
(* arrives.  The socket of cliBcast is new in every process, and only      *)
(* sync_dag and request_dag ever read it.                                  *)

BoundListening(n) == pc[n] = "up"
Bound(n) == pc[n] # "off"

ReadsAnyTime(n, k) == life[n] = k
Reads(n, k) == pc[n] \in {"sync", "request"} /\ life[n] = k

(* A broadcast reaches the sender too.                                     *)
UnitTo(n, u, m) == [head |-> "bcastunit", from |-> n, to |-> m, unit |-> u]
BroadcastOf(n, u) == {UnitTo(n, u, m) : m \in {k \in Node : Bound(k)}}

Ask(n, k, head, m) == [head |-> head, from |-> n, to |-> m, life |-> k]

To(n, datagrams)    == {m \in datagrams : m.to = n}
NotTo(n, datagrams) == {m \in datagrams : m.to # n}

(* An answer to the ask m, if its socket is still read.                    *)
Answer(m, a) == answers' = IF Reads(m.from, m.life) THEN answers \cup {a} ELSE answers

Lose ==
    \/ \E m \in wire :
          /\ wire' = wire \ {m}
          /\ missed' = IF m.head = "bcastunit"
                       THEN [missed EXCEPT ![m.to] = @ \cup {m.unit}] ELSE missed
          /\ UNCHANGED answers
    \/ \E a \in answers :
          /\ answers' = answers \ {a}
          /\ UNCHANGED <<wire, missed>>

Lost == Lose /\ UNCHANGED <<approves, boots, infos, nodeVars, workVars, source>>

----------------------------------------------------------------------------
(* The end of a process, whatever the cause: exit, an uncaught exception,  *)
(* power.  The database stays, its sockets' contents do not.               *)
Stop(n) ==
    /\ pc' = [pc EXCEPT ![n] = "off"]
    /\ tips' = [tips EXCEPT ![n] = {}]
    /\ heard' = [heard EXCEPT ![n] = Nobody]
    /\ self' = [self EXCEPT ![n] = NoOne]
    /\ wpc' = [wpc EXCEPT ![n] = "idle"] /\ wunit' = [wunit EXCEPT ![n] = NoUnit]
    /\ answering' = [answering EXCEPT ![n] = {}]
    /\ wire' = NotTo(n, wire) /\ answers' = NotTo(n, answers)
    /\ source' = [source EXCEPT ![n] = Alone]
    /\ missed' = [missed EXCEPT ![n] = {}]
    /\ UNCHANGED <<approves, boots, infos, life, db>>

Crash(n) == pc[n] # "off" /\ Stop(n)

----------------------------------------------------------------------------
(* The main thread up to start_listen.                                     *)

Boot(n) ==
    /\ pc[n] = "off"
    /\ boots < MaxBoots
    /\ boots' = boots + 1
    /\ life' = [life EXCEPT ![n] = boots + 1]
    /\ pc' = [pc EXCEPT ![n] = "sync"]
    /\ wire' = wire \cup {Ask(n, boots + 1, "syncDag", m) : m \in {k \in Node : Bound(k)} \cup {n}}
    /\ UNCHANGED <<approves, infos, db, tips, heard, self, workVars, answers, history>>

(* sync_dag: the largest count wins, the first of equals.                  *)
SyncReply(n) ==
    /\ pc[n] = "sync"
    /\ \E a \in To(n, answers) :
          /\ a.head = "syncDag"
          /\ answers' = answers \ {a}
          /\ heard' = IF heard[n] = Nobody \/ a.count > heard[n].count
                      THEN [heard EXCEPT ![n] = [server |-> a.from, count |-> a.count]]
                      ELSE heard
    /\ UNCHANGED <<approves, boots, infos, pc, life, db, tips, self, workVars, wire, history>>

(* Five seconds without an answer.                                         *)
SyncTimeout(n) ==
    /\ pc[n] = "sync"
    /\ LET server == heard[n].server IN
          IF server = NoOne
          THEN /\ pc' = [pc EXCEPT ![n] = "init"]
               /\ answers' = NotTo(n, answers)
               /\ UNCHANGED wire
          ELSE /\ pc' = [pc EXCEPT ![n] = "request"]
               /\ UNCHANGED answers
               /\ wire' = IF Bound(server)
                          THEN wire \cup {Ask(n, life[n], "reqdag", server)} ELSE wire
    /\ UNCHANGED <<approves, boots, infos, life, db, tips, heard, self, workVars, history>>

(* Ten seconds without an answer: exit(-1).                                *)
RequestNoTimeout(n) == FALSE /\ Stop(n)
RequestTimeout(n) == pc[n] = "request" /\ Stop(n)

(* request_dag takes the first datagram in the socket.  A count that comes *)
(* late is a "head error", and the node goes on without having             *)
(* synchronised.                                                           *)
HeadError(n) ==
    /\ pc[n] = "request"
    /\ \E a \in To(n, answers) : a.head = "syncDag"
    /\ pc' = [pc EXCEPT ![n] = "init"]
    /\ answers' = NotTo(n, answers)
    /\ UNCHANGED <<approves, boots, infos, life, db, tips, heard, self, workVars, wire, history>>

GetCount(n) == Cardinality(db[n]) + Cardinality(tips[n])

PushAllUnitReplaces(n, a) ==
    /\ db' = IF Cardinality(a.db) > GetCount(n) THEN [db EXCEPT ![n] = a.db] ELSE db
    /\ tips' = [tips EXCEPT ![n] = @ \cup a.tips]
    /\ UNCHANGED <<life, heard, self>>

(* Dag::pushAllUnit where DagDatabase::pushAllUnit has no row to delete.   *)
PushAllUnit(n, a) ==
    /\ Cardinality(a.db) > GetCount(n) => db[n] = {}
    /\ db' = IF Cardinality(a.db) > GetCount(n) THEN [db EXCEPT ![n] = a.db] ELSE db
    /\ tips' = IF Cardinality(a.tips) > Cardinality(tips[n])
               THEN [tips EXCEPT ![n] = @ \cup a.tips] ELSE tips
    /\ UNCHANGED <<life, heard, self>>

RequestReply(n) ==
    /\ pc[n] = "request"
    /\ \E a \in To(n, answers) :
          /\ a.head = "reqdag"
          /\ PushAllUnit(n, a)
          /\ source' = IF db[n] = {}
                       THEN [source EXCEPT ![n] = [peer |-> a.from, life |-> a.server]]
                       ELSE source
    /\ pc' = [pc EXCEPT ![n] = "init"]
    /\ answers' = NotTo(n, answers)
    /\ UNCHANGED <<approves, boots, infos, workVars, wire, missed>>

(* "DELETE *" cannot be prepared: the exception ends the process.          *)
RequestThrows(n) ==
    /\ pc[n] = "request"
    /\ db[n] # {}
    /\ \E a \in To(n, answers) : a.head = "reqdag" /\ Cardinality(a.db) > GetCount(n)
    /\ Stop(n)

(* Dag::init, and start_listen.                                            *)
InitDag(n) ==
    /\ pc[n] = "init"
    /\ tips' = IF db[n] = {} /\ tips[n] = {}
               THEN [tips EXCEPT ![n] = {life[n]}] ELSE tips
    /\ pc' = [pc EXCEPT ![n] = "up"]
    /\ UNCHANGED <<approves, boots, infos, life, db, heard, self, workVars, netVars, history>>

----------------------------------------------------------------------------
(* The listener.  A datagram and the task it becomes are one step: how     *)
(* long the task waits for a thread is how long the datagram travels.      *)

Received(n, m) ==
    /\ pc[n] = "up"
    /\ m.to = n
    /\ self[n] \notin {NoOne, m.from}
    /\ wire' = wire \ {m}

(* The first datagram tells the node its own address; what comes from      *)
(* there is thrown away.                                                   *)
Filter(n, m) ==
    /\ pc[n] = "up"
    /\ m.to = n
    /\ self[n] \in {NoOne, m.from}
    /\ self' = [self EXCEPT ![n] = m.from]
    /\ missed' = IF m.head = "bcastunit"
                 THEN [missed EXCEPT ![n] = @ \cup {m.unit}] ELSE missed
    /\ wire' = wire \ {m}
    /\ UNCHANGED <<approves, boots, infos, pc, life, db, tips, heard, workVars, answers, source>>

(* So does the first command; a later one is not a datagram of a node, and *)
(* what it asks for is an info.                                            *)
Command(n) ==
    /\ Commands
    /\ pc[n] = "up"
    /\ self[n] = NoOne
    /\ self' = [self EXCEPT ![n] = User]
    /\ UNCHANGED <<approves, boots, infos, pc, life, db, tips, heard, workVars, netVars, history>>

ReplyCount(n, m) ==
    /\ m.head = "syncDag"
    /\ Received(n, m)
    /\ Answer(m, [head |-> "syncDag", from |-> n, to |-> m.from, count |-> GetCount(n)])
    /\ UNCHANGED <<approves, boots, infos, nodeVars, workVars, history>>

(* getAllUnit reads the rows first; two threads answer.                    *)
ReadRows(n, m) ==
    /\ m.head = "reqdag"
    /\ Received(n, m)
    /\ Cardinality(answering[n]) < 2
    /\ answering' = [answering EXCEPT ![n] =
                        @ \cup {[from |-> m.from, life |-> m.life, db |-> db[n]]}]
    /\ UNCHANGED <<approves, boots, infos, nodeVars, wpc, wunit, answers, history>>

(* Then it reads the tips, and the answer is sent.                         *)
ReplyDag(n) ==
    /\ pc[n] = "up"
    /\ \E r \in answering[n] :
          /\ answering' = [answering EXCEPT ![n] = @ \ {r}]
          /\ Answer(r, [head |-> "reqdag", from |-> n, to |-> r.from, server |-> life[n],
                        db |-> r.db, tips |-> tips[n]])
    /\ UNCHANGED <<approves, boots, infos, nodeVars, wpc, wunit, wire, history>>

(* Units that move from the pool to the table between the two reads may be *)
(* in neither half of the answer.                                          *)
Moved(n, S) ==
    missed' = [m \in Node |->
                 IF \E r \in answering[n] : r.from = m /\ r.life = life[m]
                 THEN missed[m] \cup S ELSE missed[m]]

KnownStored(n, u) == u \in db[n]
Known(n, u) == u \in db[n] \cup tips[n]

(* pushUnit of a unit that is here: it returns false.                      *)
PushKnown(n, m) ==
    /\ m.head = "bcastunit"
    /\ Received(n, m)
    /\ Known(n, m.unit)
    /\ UNCHANGED <<approves, boots, infos, nodeVars, workVars, answers, history>>

(* pushUnit of a new unit: the tips it approves go to the table, though    *)
(* the scan may step over one of two; the unit becomes a tip and is        *)
(* broadcast again.                                                        *)
PushUnit(n, m) ==
    /\ m.head = "bcastunit"
    /\ pc[n] = "up" /\ m.to = n
    /\ self[n] \notin {NoOne, m.from}
    /\ ~Known(n, m.unit)
    /\ LET hits == tips[n] \cap approves[m.unit] IN
       \E S \in SUBSET hits :
          /\ S = {} => hits = {}
          /\ db' = [db EXCEPT ![n] = @ \cup S]
          /\ tips' = [tips EXCEPT ![n] = (@ \ S) \cup {m.unit}]
          /\ Moved(n, S)
    /\ wire' = (wire \ {m}) \cup BroadcastOf(n, m.unit)
    /\ UNCHANGED <<approves, boots, infos, pc, life, heard, self, workVars, answers, source>>

Listen(n) ==
    \E m \in wire : \/ Filter(n, m) \/ ReplyCount(n, m) \/ ReadRows(n, m)
                    \/ PushKnown(n, m) \/ PushUnit(n, m)

----------------------------------------------------------------------------
(* The worker: creatUnit.                                                  *)

VerifyTip(n, u) == approves[u] = {} \/ u \notin db[n]

(* What the loop of selectTips may select (S) and what it throws away (G): *)
(* it ends with two tips or with an empty pool.                            *)
Selection(n, S, G) ==
    LET valid == {u \in tips[n] : VerifyTip(n, u)} IN
    /\ S \subseteq valid
    /\ G \subseteq tips[n] \ valid
    /\ \/ Cardinality(S) = 2
       \/ Cardinality(S) < 2 /\ S = valid /\ G = tips[n] \ valid

SelectTips(n) ==
    /\ pc[n] = "up" /\ wpc[n] = "idle"
    /\ infos < MaxInfos
    /\ tips[n] # {}
    /\ infos' = infos + 1
    /\ \E S, G \in SUBSET tips[n] :
          /\ Selection(n, S, G)
          /\ tips' = [tips EXCEPT ![n] = (@ \ S) \ G]
          /\ db' = [db EXCEPT ![n] = @ \cup S]
          /\ Moved(n, S)
          /\ IF S = {}
             THEN UNCHANGED <<approves, wpc, wunit>>
             ELSE /\ approves' = [approves EXCEPT ![MaxBoots + infos + 1] = S]
                  /\ wpc' = [wpc EXCEPT ![n] = "pow"]
                  /\ wunit' = [wunit EXCEPT ![n] = MaxBoots + infos + 1]
    /\ UNCHANGED <<boots, pc, life, heard, self, answering, netVars, source>>

PushTip(n) ==
    /\ wpc[n] = "pow"
    /\ tips' = [tips EXCEPT ![n] = @ \cup {wunit[n]}]
    /\ wpc' = [wpc EXCEPT ![n] = "sleep"]
    /\ UNCHANGED <<approves, boots, infos, pc, life, db, heard, self, wunit, answering,
                   netVars, history>>

(* Five seconds later.                                                     *)
BroadcastUnit(n) ==
    /\ wpc[n] = "sleep"
    /\ wire' = wire \cup BroadcastOf(n, wunit[n])
    /\ wpc' = [wpc EXCEPT ![n] = "idle"] /\ wunit' = [wunit EXCEPT ![n] = NoUnit]
    /\ UNCHANGED <<approves, boots, infos, nodeVars, answering, answers, history>>

----------------------------------------------------------------------------
Join(n) ==
    \/ SyncReply(n) \/ SyncTimeout(n) \/ RequestTimeout(n) \/ HeadError(n)
    \/ RequestReply(n) \/ RequestThrows(n) \/ InitDag(n)

Work(n) == PushTip(n) \/ BroadcastUnit(n)

Next ==
    \/ Lost
    \/ \E n \in Node : \/ Boot(n) \/ Crash(n) \/ Join(n) \/ Listen(n) \/ ReplyDag(n)
                       \/ Command(n) \/ SelectTips(n) \/ Work(n)

Spec == Init /\ [][Next]_vars

(* The threads of a process run, and both waits for answers end by         *)
(* themselves.  Nobody has to start a process, to submit an info, to       *)
(* crash or to lose a datagram.                                            *)
Fairness ==
    \A n \in Node : /\ WF_vars(Join(n)) /\ WF_vars(Listen(n))
                    /\ WF_vars(ReplyDag(n)) /\ WF_vars(Work(n))

FairSpec == Spec /\ Fairness
----------------------------------------------------------------------------
Held(n) == db[n] \cup tips[n]

Asks == [head : {"syncDag", "reqdag"}, from : Node, to : Node, life : 1 .. MaxBoots]
News == [head : {"bcastunit"}, from : Node, to : Node, unit : Unit]
Counts == [head : {"syncDag"}, from : Node, to : Node, count : Nat]
Dags == [head : {"reqdag"}, from : Node, to : Node, server : 1 .. MaxBoots,
         db : SUBSET Unit, tips : SUBSET Unit]

(* The values of the variables of a node.                                  *)
NodesTyped ==
    /\ approves \in [Unit -> SUBSET Unit]
    /\ boots \in 0 .. MaxBoots /\ infos \in 0 .. MaxInfos
    /\ pc \in [Node -> {"off", "sync", "request", "init", "up"}]
    /\ life \in [Node -> 0 .. MaxBoots]
    /\ db \in [Node -> SUBSET Unit] /\ tips \in [Node -> SUBSET Unit]
    /\ heard \in [Node -> [server : Node \cup {NoOne}, count : Nat]]
    /\ self \in [Node -> Node \cup {NoOne, User}]
    /\ wpc \in [Node -> {"idle", "pow", "sleep"}]
    /\ wunit \in [Node -> Unit \cup {NoUnit}]
    /\ answering \in [Node -> SUBSET [from : Node, life : 1 .. MaxBoots, db : SUBSET Unit]]
    /\ source \in [Node -> [peer : Node \cup {NoOne}, life : 0 .. MaxBoots]]
    /\ missed \in [Node -> SUBSET Unit]

(* What is only set while a process runs is at its first value otherwise.  *)
Started ==
    /\ \A n \in Node : pc[n] # "off" => life[n] # 0
    /\ \A n \in Node : pc[n] = "off" => tips[n] = {} /\ wpc[n] = "idle"
    /\ \A n \in Node : wpc[n] = "idle" <=> wunit[n] = NoUnit

(* A datagram in flight has a socket to go to.                             *)
Datagrams ==
    /\ wire \subseteq Asks \cup News
    /\ answers \subseteq Counts \cup Dags
    /\ \A m \in wire : pc[m.to] # "off"
    /\ \A a \in answers : pc[a.to] \in {"sync", "request"}

(* The types.                                                              *)
TypeOK == NodesTyped /\ Started /\ Datagrams

(***************************************************************************)
(* What a node took from its peer when it joined, it can build on: as long *)
(* as the peer's process lives, each unit the peer holds is held by the    *)
(* joiner too, or is on its way to it, or the peer is about to broadcast   *)
(* it, or bad luck took it: a lost datagram, the filter of the own         *)
(* address, or a move from the pool to the table between the two halves of *)
(* the answer.  In particular there is no gap between the answer to reqdag *)
(* and the broadcasts the joiner hears once it listens (Network.h:97-121,  *)
(* 286-370, main.cpp:107-161).                                             *)
(***************************************************************************)
OnTheWay(n) == {m.unit : m \in {k \in wire : k.to = n /\ k.head = "bcastunit"}}
Unsent(n)   == IF wpc[n] = "sleep" THEN {wunit[n]} ELSE {}

Joined(b) ==
    LET s == source[b] IN
    /\ s.peer # NoOne
    /\ pc[s.peer] # "off" /\ life[s.peer] = s.life

JoinerHolds ==
    \A b \in Node : Joined(b) =>
       LET a == source[b].peer IN
       Held(a) \subseteq Held(b) \cup OnTheWay(b) \cup Unsent(a) \cup missed[b]

(* Rows stay, through every crash and every synchronisation with a peer    *)
(* that holds other units (dag.cpp:228, database.cpp:492-519).             *)
StoredForGood == [][\A n \in Node : db[n] \subseteq db'[n]]_db

(* Rebroadcasting dies out: however many nodes send a unit on, at some     *)
(* time no datagram with a unit is left (Network.h:348-356).               *)
GossipEnds == <>[](\A m \in wire : m.head # "bcastunit")

(* A process that was started ends up listening, or it ends, whatever is   *)
(* lost and whoever crashes (Network.h:97-184).                            *)
BootEnds ==
    \A n \in Node :
       pc[n] \in {"sync", "request", "init"} ~> pc[n] \in {"up", "off"}

(* "no other nodes. start to initialize dag..." (Network.h:179): a genesis *)
(* unit is made by a node that heard of no other.                          *)
GenesisIfAlone ==
    [][\A n \in Node :
         pc[n] = "init" /\ Held(n) = {} /\ Held(n)' # {} => heard[n] = Nobody]_vars
=============================================================================

--------------------------- MODULE NetworkProofs ---------------------------
(***************************************************************************)
(* Theorems about Network, for every set of nodes and every bound.         *)
(***************************************************************************)
EXTENDS Network, FiniteSetTheorems, TLAPS

Alive(n, k) == pc[n] # "off" /\ life[n] = k

(* Starts are numbered: what carries a number was said in a start that was. *)
Numbered ==
    /\ \A n \in Node : life[n] <= boots /\ source[n].life <= boots
    /\ \A n \in Node : \A r \in answering[n] : r.life <= boots
    /\ \A m \in wire : m.head # "bcastunit" => m.life <= boots
    /\ \A a \in answers : a.head = "reqdag" => a.server <= boots

(* A node joins with an empty pool, and only a node that is up makes units *)
(* or answers.                                                             *)
Phases ==
    /\ \A n \in Node : pc[n] \in {"sync", "request"} => tips[n] = {}
    /\ \A n \in Node : wpc[n] # "idle" \/ answering[n] # {} => pc[n] = "up"
    /\ \A n \in Node : source[n].peer # NoOne => pc[n] \in {"init", "up"}
    /\ \A n \in Node : Joined(n) => pc[source[n].peer] = "up"
    /\ \A a \in answers : a.head = "reqdag" /\ Alive(a.from, a.server) => pc[a.from] = "up"

(* What a peer has read of its table, what it has answered, and what the   *)
(* joiner has made of it, is at each of the three stages all the joiner    *)
(* needs, up to what is on the way and bad luck.                           *)
ReadingHolds ==
    \A n \in Node : \A r \in answering[n] :
       Alive(r.from, r.life) => db[n] \subseteq r.db \cup missed[r.from]

AnswerHolds ==
    \A a \in answers :
       a.head = "reqdag" /\ Alive(a.from, a.server) =>
          Held(a.from) \subseteq a.db \cup a.tips \cup OnTheWay(a.to)
                                 \cup Unsent(a.from) \cup missed[a.to]

(* What a step does at most to any of this: it takes nothing from a node   *)
(* that runs on, and what a peer gains it is about to broadcast, or has    *)
(* just broadcast to everyone else.                                        *)
Unbroken ==
    /\ \A n \in Node : \A k \in 0 .. boots : Alive(n, k)' => Alive(n, k)
    /\ \A n \in Node : pc'[n] # "off" =>
          /\ missed[n] \subseteq missed'[n]
          /\ Held(n) \subseteq Held(n)'
          /\ OnTheWay(n) \subseteq OnTheWay(n)' \cup missed'[n]
                                     \cup (IF pc[n] = "up" THEN Held(n)' ELSE {})
    /\ \A n \in Node : pc[n] = "up" /\ pc'[n] = "up" =>
          \A b \in Node \ {n} : pc[b] # "off" /\ pc'[b] # "off" =>
             /\ Held(n)' \subseteq Held(n) \cup Unsent(n)' \cup OnTheWay(b)'
             /\ Unsent(n) \subseteq Unsent(n)' \cup OnTheWay(b)'

IInv == TypeOK /\ Numbered /\ Phases /\ ReadingHolds /\ AnswerHolds /\ JoinerHolds
----------------------------------------------------------------------------
(* Sets of units are finite, so GetCount is a number.                      *)
LEMMA FiniteUnits ==
    ASSUME NEW S \in SUBSET Unit
    PROVE  IsFiniteSet(S) /\ Cardinality(S) \in Nat
<1>1. MaxBoots + MaxInfos \in Int
  BY NetworkAssumption
<1>2. IsFiniteSet(Unit)
  BY <1>1, FS_Interval DEF Unit
<1>3. IsFiniteSet(S)
  BY <1>2, FS_Subset
<1> QED
  BY <1>3, FS_CardinalityType

LEMMA CountType ==
    ASSUME TypeOK, NEW n \in Node
    PROVE  GetCount(n) \in Nat
<1>1. db[n] \in SUBSET Unit /\ tips[n] \in SUBSET Unit
  BY DEF TypeOK, NodesTyped
<1>2. Cardinality(db[n]) \in Nat /\ Cardinality(tips[n]) \in Nat
  BY <1>1, FiniteUnits
<1> QED
  BY <1>2 DEF GetCount

(* The kinds of datagrams are told apart by their heads.                   *)
LEMMA Heads ==
    ASSUME TypeOK
    PROVE  /\ \A m \in wire : /\ m.from \in Node /\ m.to \in Node
                              /\ m.head \in {"syncDag", "reqdag", "bcastunit"}
                              /\ m.head = "bcastunit" => m.unit \in Unit
                              /\ m.head # "bcastunit" => m.life \in 1 .. MaxBoots
           /\ \A a \in answers : /\ a.from \in Node /\ a.to \in Node
                                 /\ a.head = "syncDag" => a.count \in Nat
                                 /\ a.head = "reqdag" =>
                                       /\ a.server \in 1 .. MaxBoots
                                       /\ a.db \in SUBSET Unit /\ a.tips \in SUBSET Unit
<1>1. /\ \A m \in wire : m \in Asks \/ m \in News
      /\ \A a \in answers : a \in Counts \/ a \in Dags
  BY DEF TypeOK, Datagrams
<1>2. \A m \in Asks : /\ m.from \in Node /\ m.to \in Node /\ m.life \in 1 .. MaxBoots
                      /\ m.head \in {"syncDag", "reqdag"}
  BY DEF Asks
<1>3. \A m \in News : /\ m.from \in Node /\ m.to \in Node /\ m.unit \in Unit
                      /\ m.head = "bcastunit"
  BY DEF News
<1>4. \A a \in Counts : /\ a.from \in Node /\ a.to \in Node /\ a.count \in Nat
                        /\ a.head = "syncDag"
  BY DEF Counts
<1>5. \A a \in Dags : /\ a.from \in Node /\ a.to \in Node /\ a.head = "reqdag"
                      /\ a.server \in 1 .. MaxBoots
                      /\ a.db \in SUBSET Unit /\ a.tips \in SUBSET Unit
  BY DEF Dags
<1> QED
  BY <1>1, <1>2, <1>3, <1>4, <1>5

(* What a broadcast puts on the wire.                                      *)
LEMMA BroadcastType ==
    ASSUME NEW n \in Node, NEW u \in Unit
    PROVE  /\ BroadcastOf(n, u) \subseteq News
           /\ \A m \in BroadcastOf(n, u) : pc[m.to] # "off"
BY DEF BroadcastOf, UnitTo, News, Bound

LEMMA AskType ==
    ASSUME NEW n \in Node, NEW k \in 1 .. MaxBoots, NEW m \in Node,
           NEW h \in {"syncDag", "reqdag"}
    PROVE  /\ Ask(n, k, h, m) \in Asks
           /\ Ask(n, k, h, m).to = m /\ Ask(n, k, h, m).life = k
           /\ Ask(n, k, h, m).head = h
BY DEF Ask, Asks

(* A new answer joins the others only if its socket is read.               *)
LEMMA AnswerFacts ==
    ASSUME NEW m, NEW a, Answer(m, a)
    PROVE  \/ answers' = answers
           \/ answers' = answers \cup {a} /\ Reads(m.from, m.life)
BY DEF Answer
----------------------------------------------------------------------------
(* Steps keep the types: the end of a process.                             *)
LEMMA StopType ==
    ASSUME TypeOK, NEW n \in Node, Stop(n)
    PROVE  TypeOK'
<1>1. NodesTyped'
  BY NetworkAssumption DEF TypeOK, NodesTyped, Stop, Nobody, Alone
<1>2. Started'
  BY DEF TypeOK, NodesTyped, Started, Stop
<1>3. Datagrams'
  <2>1. /\ wire' \subseteq wire /\ \A m \in wire' : m.to # n
        /\ answers' \subseteq answers /\ \A a \in answers' : a.to # n
    BY DEF Stop, NotTo
  <2>2. \A m \in Node \ {n} : pc'[m] = pc[m]
    BY DEF Stop, TypeOK, NodesTyped
  <2>3. /\ \A m \in wire' : m.to \in Node \ {n}
        /\ \A a \in answers' : a.to \in Node \ {n}
    BY <2>1, Heads
  <2>4. (\A m \in wire : pc[m.to] # "off")'
    BY <2>1, <2>2, <2>3 DEF TypeOK, Datagrams
  <2>5. (\A a \in answers : pc[a.to] \in {"sync", "request"})'
    BY <2>1, <2>2, <2>3 DEF TypeOK, Datagrams
  <2>6. (wire \subseteq Asks \cup News /\ answers \subseteq Counts \cup Dags)'
    BY <2>1 DEF TypeOK, Datagrams
  <2> QED
    BY <2>4, <2>5, <2>6 DEF Datagrams
<1> QED
  BY <1>1, <1>2, <1>3 DEF TypeOK

(* The main thread.                                                        *)
LEMMA JoinType ==
    ASSUME TypeOK, NEW n \in Node, Boot(n) \/ Join(n)
    PROVE  TypeOK'
<1> USE NetworkAssumption
<1>1. CASE Boot(n)
  <2>1. boots + 1 \in 1 .. MaxBoots
    BY <1>1 DEF Boot, TypeOK, NodesTyped
  <2>2. NodesTyped'
    BY <1>1, <2>1 DEF Boot, TypeOK, NodesTyped, workVars, history
  <2>3. Started'
    BY <1>1, <2>1 DEF Boot, TypeOK, NodesTyped, Started, workVars
  <2>4. \A m \in wire' : m \in wire \/ (m \in Asks /\ (Bound(m.to) \/ m.to = n))
    <3>1. \A m \in wire' : \/ m \in wire
                           \/ \E k \in Node : /\ Bound(k) \/ k = n
                                              /\ m = Ask(n, boots + 1, "syncDag", k)
      BY <1>1 DEF Boot
    <3> QED
      BY <2>1, <3>1, AskType
  <2>5. Datagrams'
    BY <1>1, <2>4, Heads DEF Boot, TypeOK, NodesTyped, Datagrams, Bound
  <2> QED
    BY <2>2, <2>3, <2>5 DEF TypeOK
<1>2. CASE SyncReply(n)
  <2>1. NodesTyped'
    BY <1>2, Heads DEF SyncReply, To, TypeOK, NodesTyped, workVars, history
  <2>2. Started'
    BY <1>2 DEF SyncReply, TypeOK, Started, workVars
  <2>3. Datagrams'
    BY <1>2 DEF SyncReply, TypeOK, Datagrams
  <2> QED
    BY <2>1, <2>2, <2>3 DEF TypeOK
<1>3. CASE SyncTimeout(n)
  <2>1. NodesTyped'
    BY <1>3 DEF SyncTimeout, TypeOK, NodesTyped, workVars, history
  <2>2. Started'
    BY <1>3 DEF SyncTimeout, TypeOK, NodesTyped, Started, workVars
  <2>3. /\ \A m \in wire' : m \in wire \/ (m \in Asks /\ Bound(m.to))
        /\ answers' \subseteq answers
        /\ pc'[n] = "request" \/ \A a \in answers' : a.to # n
    <3>1. life[n] \in 1 .. MaxBoots
      BY <1>3 DEF SyncTimeout, TypeOK, NodesTyped, Started
    <3>2. heard[n].server # NoOne => heard[n].server \in Node
      BY <1>3 DEF TypeOK, NodesTyped
    <3>3. CASE heard[n].server = NoOne
      BY <1>3, <3>3 DEF SyncTimeout, NotTo
    <3>4. CASE heard[n].server # NoOne
      <4>1. /\ \A m \in wire' : \/ m \in wire
                                \/ /\ m = Ask(n, life[n], "reqdag", heard[n].server)
                                   /\ Bound(heard[n].server)
            /\ answers' = answers /\ pc'[n] = "request"
        BY <1>3, <3>4 DEF SyncTimeout, TypeOK, NodesTyped
      <4> QED
        BY <3>1, <3>2, <3>4, <4>1, AskType
    <3> QED
      BY <3>3, <3>4
  <2>4. Datagrams'
    <3>1. /\ \A k \in Node \ {n} : pc'[k] = pc[k]
          /\ pc[n] = "sync" /\ pc'[n] \in {"request", "init"}
      BY <1>3 DEF SyncTimeout, TypeOK, NodesTyped
    <3>2. \A m \in Asks : m.to \in Node
      BY DEF Asks
    <3>3. (\A m \in wire : pc[m.to] # "off")'
      BY <2>3, <3>1, <3>2, Heads DEF TypeOK, Datagrams, Bound
    <3>4. (\A a \in answers : pc[a.to] \in {"sync", "request"})'
      BY <2>3, <3>1, Heads DEF TypeOK, Datagrams
    <3> QED
      BY <2>3, <3>3, <3>4 DEF TypeOK, Datagrams
  <2> QED
    BY <2>1, <2>2, <2>4 DEF TypeOK
<1>4. CASE RequestTimeout(n) \/ RequestThrows(n)
  BY <1>4, StopType DEF RequestTimeout, RequestThrows
<1>5. CASE HeadError(n)
  <2>1. NodesTyped'
    BY <1>5 DEF HeadError, TypeOK, NodesTyped, workVars, history
  <2>2. Started'
    BY <1>5 DEF HeadError, TypeOK, NodesTyped, Started, workVars
  <2>3. Datagrams'
    BY <1>5, Heads DEF HeadError, NotTo, TypeOK, NodesTyped, Datagrams
  <2> QED
    BY <2>1, <2>2, <2>3 DEF TypeOK
<1>6. CASE RequestReply(n)
  <2>1. NodesTyped'
    BY <1>6, Heads DEF RequestReply, PushAllUnit, To, TypeOK, NodesTyped, workVars
  <2>2. Started'
    BY <1>6 DEF RequestReply, PushAllUnit, TypeOK, NodesTyped, Started, workVars
  <2>3. Datagrams'
    BY <1>6, Heads DEF RequestReply, NotTo, TypeOK, NodesTyped, Datagrams
  <2> QED
    BY <2>1, <2>2, <2>3 DEF TypeOK
<1>7. CASE InitDag(n)
  <2>1. life[n] \in Unit
    BY <1>7 DEF InitDag, TypeOK, NodesTyped, Started, Unit
  <2>2. NodesTyped'
    BY <1>7, <2>1 DEF InitDag, TypeOK, NodesTyped, workVars, history
  <2>3. Started'
    BY <1>7 DEF InitDag, TypeOK, NodesTyped, Started, workVars
  <2>4. Datagrams'
    BY <1>7, Heads DEF InitDag, TypeOK, NodesTyped, Datagrams, netVars
  <2> QED
    BY <2>2, <2>3, <2>4 DEF TypeOK
<1> QED
  BY <1>1, <1>2, <1>3, <1>4, <1>5, <1>6, <1>7 DEF Join

(* The listener.                                                           *)
LEMMA ListenType ==
    ASSUME TypeOK, NEW n \in Node, Listen(n) \/ ReplyDag(n) \/ Command(n)
    PROVE  TypeOK'
<1>1. ASSUME NEW m \in wire, Filter(n, m)
      PROVE  TypeOK'
  <2>1. NodesTyped'
    BY <1>1, Heads DEF Filter, TypeOK, NodesTyped, workVars
  <2>2. Started' /\ Datagrams'
    BY <1>1 DEF Filter, TypeOK, Started, Datagrams, workVars
  <2> QED
    BY <2>1, <2>2 DEF TypeOK
<1>2. ASSUME NEW m \in wire, ReplyCount(n, m)
      PROVE  TypeOK'
  <2>1. NodesTyped' /\ Started'
    BY <1>2 DEF ReplyCount, TypeOK, NodesTyped, Started, nodeVars, workVars, history
  <2> DEFINE a == [head |-> "syncDag", from |-> n, to |-> m.from, count |-> GetCount(n)]
  <2>2. a \in Counts /\ a.to = m.from
    BY CountType, Heads DEF Counts
  <2>3. \/ answers' = answers
        \/ answers' = answers \cup {a} /\ pc[m.from] \in {"sync", "request"}
    BY <1>2 DEF ReplyCount, Answer, Reads
  <2>4. Datagrams'
    BY <1>2, <2>2, <2>3 DEF ReplyCount, Received, TypeOK, Datagrams, nodeVars
  <2> QED
    BY <2>1, <2>4 DEF TypeOK
<1>3. ASSUME NEW m \in wire, ReadRows(n, m)
      PROVE  TypeOK'
  <2>1. NodesTyped'
    BY <1>3, Heads DEF ReadRows, TypeOK, NodesTyped, nodeVars, history
  <2>2. Started' /\ Datagrams'
    BY <1>3 DEF ReadRows, Received, TypeOK, Started, Datagrams, nodeVars
  <2> QED
    BY <2>1, <2>2 DEF TypeOK
<1>4. ASSUME NEW m \in wire, PushKnown(n, m)
      PROVE  TypeOK'
  BY <1>4 DEF PushKnown, Received, TypeOK, NodesTyped, Started, Datagrams,
     nodeVars, workVars, history
<1>5. ASSUME NEW m \in wire, PushUnit(n, m)
      PROVE  TypeOK'
  <2>1. m.unit \in Unit
    BY <1>5, Heads DEF PushUnit
  <2>2. NodesTyped'
    BY <1>5, <2>1 DEF PushUnit, Moved, TypeOK, NodesTyped, workVars
  <2>3. Started'
    BY <1>5 DEF PushUnit, TypeOK, NodesTyped, Started, workVars
  <2>4. Datagrams'
    BY <1>5, <2>1, BroadcastType DEF PushUnit, TypeOK, Datagrams
  <2> QED
    BY <2>2, <2>3, <2>4 DEF TypeOK
<1>6. CASE ReplyDag(n)
  <2>1. PICK r \in answering[n] :
           /\ answering' = [answering EXCEPT ![n] = @ \ {r}]
           /\ Answer(r, [head |-> "reqdag", from |-> n, to |-> r.from, server |-> life[n],
                         db |-> r.db, tips |-> tips[n]])
    BY <1>6 DEF ReplyDag
  <2> DEFINE a == [head |-> "reqdag", from |-> n, to |-> r.from, server |-> life[n],
                   db |-> r.db, tips |-> tips[n]]
  <2>2. NodesTyped' /\ Started'
    BY <1>6, <2>1 DEF ReplyDag, TypeOK, NodesTyped, Started, nodeVars, history
  <2>3. pc[n] = "up"
    BY <1>6 DEF ReplyDag
  <2>4. a \in Dags /\ a.to = r.from
    BY <2>3 DEF Dags, TypeOK, NodesTyped, Started
  <2>5. \/ answers' = answers
        \/ answers' = answers \cup {a} /\ pc[r.from] \in {"sync", "request"}
    BY <2>1 DEF Answer, Reads
  <2>6. Datagrams'
    BY <1>6, <2>4, <2>5 DEF ReplyDag, TypeOK, Datagrams, nodeVars
  <2> QED
    BY <2>2, <2>6 DEF TypeOK
<1>7. CASE Command(n)
  BY <1>7 DEF Command, TypeOK, NodesTyped, Started, Datagrams, workVars, netVars, history
<1> QED
  BY <1>1, <1>2, <1>3, <1>4, <1>5, <1>6, <1>7 DEF Listen

(* The worker.                                                             *)
LEMMA WorkType ==
    ASSUME TypeOK, NEW n \in Node, SelectTips(n) \/ Work(n)
    PROVE  TypeOK'
<1>1. CASE SelectTips(n)
  <2>1. /\ infos + 1 \in 0 .. MaxInfos
        /\ MaxBoots + infos + 1 \in Unit /\ MaxBoots + infos + 1 # NoUnit
    BY <1>1, NetworkAssumption DEF SelectTips, TypeOK, NodesTyped, Unit, NoUnit
  <2>2. NodesTyped'
    <3>1. PICK S \in SUBSET tips[n], G \in SUBSET tips[n] :
             /\ tips' = [tips EXCEPT ![n] = (@ \ S) \ G]
             /\ db' = [db EXCEPT ![n] = @ \cup S]
             /\ Moved(n, S)
             /\ \/ UNCHANGED <<approves, wpc, wunit>>
                \/ /\ approves' = [approves EXCEPT ![MaxBoots + infos + 1] = S]
                   /\ wpc' = [wpc EXCEPT ![n] = "pow"]
                   /\ wunit' = [wunit EXCEPT ![n] = MaxBoots + infos + 1]
      BY <1>1 DEF SelectTips
    <3>2. S \subseteq Unit
      BY <3>1 DEF TypeOK, NodesTyped
    <3>3. missed' \in [Node -> SUBSET Unit]
      BY <3>1, <3>2 DEF Moved, TypeOK, NodesTyped
    <3>4. /\ approves' \in [Unit -> SUBSET Unit]
          /\ wpc' \in [Node -> {"idle", "pow", "sleep"}]
          /\ wunit' \in [Node -> Unit \cup {NoUnit}]
      <4>1. CASE UNCHANGED <<approves, wpc, wunit>>
        BY <4>1 DEF TypeOK, NodesTyped
      <4>2. CASE /\ approves' = [approves EXCEPT ![MaxBoots + infos + 1] = S]
                 /\ wpc' = [wpc EXCEPT ![n] = "pow"]
                 /\ wunit' = [wunit EXCEPT ![n] = MaxBoots + infos + 1]
        BY <2>1, <3>2, <4>2 DEF TypeOK, NodesTyped
      <4> QED
        BY <3>1, <4>1, <4>2
    <3>5. db' \in [Node -> SUBSET Unit] /\ tips' \in [Node -> SUBSET Unit]
      BY <3>1, <3>2 DEF TypeOK, NodesTyped
    <3> QED
      BY <1>1, <2>1, <3>3, <3>4, <3>5 DEF SelectTips, TypeOK, NodesTyped
  <2>3. Started'
    BY <1>1, <2>1 DEF SelectTips, TypeOK, NodesTyped, Started
  <2>4. Datagrams'
    BY <1>1 DEF SelectTips, TypeOK, Datagrams, netVars
  <2> QED
    BY <2>2, <2>3, <2>4 DEF TypeOK
<1>2. CASE PushTip(n)
  <2>1. wunit[n] \in Unit
    BY <1>2 DEF PushTip, TypeOK, NodesTyped, Started
  <2>2. NodesTyped'
    BY <1>2, <2>1 DEF PushTip, TypeOK, NodesTyped, history
  <2>3. Started'
    BY <1>2 DEF PushTip, TypeOK, NodesTyped, Started
  <2>4. Datagrams'
    BY <1>2 DEF PushTip, TypeOK, Datagrams, netVars
  <2> QED
    BY <2>2, <2>3, <2>4 DEF TypeOK
<1>3. CASE BroadcastUnit(n)
  <2>1. wunit[n] \in Unit
    BY <1>3 DEF BroadcastUnit, TypeOK, NodesTyped, Started
  <2>2. NodesTyped' /\ Started'
    BY <1>3 DEF BroadcastUnit, TypeOK, NodesTyped, Started, nodeVars, history
  <2>3. Datagrams'
    BY <1>3, <2>1, BroadcastType DEF BroadcastUnit, TypeOK, Datagrams, nodeVars
  <2> QED
    BY <2>2, <2>3 DEF TypeOK
<1> QED
  BY <1>1, <1>2, <1>3 DEF Work

(* The network.                                                            *)
LEMMA LostType ==
    ASSUME TypeOK, Lost
    PROVE  TypeOK'
<1>1. NodesTyped'
  BY Heads DEF Lost, Lose, TypeOK, NodesTyped, nodeVars, workVars
<1>2. Started' /\ Datagrams'
  BY DEF Lost, Lose, TypeOK, Started, Datagrams, nodeVars, workVars
<1> QED
  BY <1>1, <1>2 DEF TypeOK

(* Every step.                                                             *)
LEMMA TypeStep ==
    ASSUME TypeOK, Next
    PROVE  TypeOK'
BY StopType, JoinType, ListenType, WorkType, LostType DEF Next, Crash

(* The types hold (Network.h, main.cpp).                                   *)
THEOREM TypeCorrect == Spec => []TypeOK
<1>1. Init => TypeOK
  BY NetworkAssumption DEF Init, TypeOK, NodesTyped, Started, Datagrams, Nobody, Alone, NoUnit
<1>2. TypeOK /\ UNCHANGED vars => TypeOK'
  BY DEF TypeOK, NodesTyped, Started, Datagrams, vars, nodeVars, workVars, netVars, history
<1> QED
  BY <1>1, <1>2, TypeStep, PTL DEF Spec
----------------------------------------------------------------------------
(* No start is said to be later than the last.                             *)
LEMMA NumberedStep ==
    ASSUME TypeOK, Numbered, Next
    PROVE  Numbered'
<1> USE NetworkAssumption DEF TypeOK, NodesTyped
<1>1. CASE Lost
  BY <1>1 DEF Lost, Lose, Numbered, nodeVars, workVars
<1>2. ASSUME NEW n \in Node, Stop(n)
      PROVE  Numbered'
  BY <1>2 DEF Stop, Numbered, NotTo, Alone
<1>3. ASSUME NEW n \in Node, Boot(n)
      PROVE  Numbered'
  BY <1>3, Heads DEF Boot, Ask, Numbered, workVars, history
<1>4. ASSUME NEW n \in Node, SyncReply(n)
      PROVE  Numbered'
  BY <1>4 DEF SyncReply, Numbered, workVars, history
<1>5. ASSUME NEW n \in Node, SyncTimeout(n)
      PROVE  Numbered'
  BY <1>5 DEF SyncTimeout, Ask, NotTo, Numbered, workVars, history
<1>6. ASSUME NEW n \in Node, HeadError(n)
      PROVE  Numbered'
  BY <1>6 DEF HeadError, NotTo, Numbered, workVars, history
<1>7. ASSUME NEW n \in Node, RequestReply(n)
      PROVE  Numbered'
  BY <1>7, Heads DEF RequestReply, PushAllUnit, To, NotTo, Numbered, workVars
<1>8. ASSUME NEW n \in Node, InitDag(n)
      PROVE  Numbered'
  BY <1>8 DEF InitDag, Numbered, workVars, netVars, history
<1>9. ASSUME NEW n \in Node, NEW m \in wire, Filter(n, m)
      PROVE  Numbered'
  BY <1>9 DEF Filter, Numbered, workVars
<1>10. ASSUME NEW n \in Node, NEW m \in wire, ReplyCount(n, m)
       PROVE  Numbered'
  BY <1>10 DEF ReplyCount, Received, Answer, Numbered, nodeVars, workVars, history
<1>11. ASSUME NEW n \in Node, NEW m \in wire, ReadRows(n, m)
       PROVE  Numbered'
  BY <1>11 DEF ReadRows, Received, Numbered, nodeVars, history
<1>12. ASSUME NEW n \in Node, NEW m \in wire, PushKnown(n, m)
       PROVE  Numbered'
  BY <1>12 DEF PushKnown, Received, Numbered, nodeVars, workVars, history
<1>13. ASSUME NEW n \in Node, NEW m \in wire, PushUnit(n, m)
       PROVE  Numbered'
  BY <1>13 DEF PushUnit, BroadcastOf, UnitTo, Numbered, workVars
<1>14. ASSUME NEW n \in Node, ReplyDag(n)
       PROVE  Numbered'
  BY <1>14 DEF ReplyDag, Answer, Numbered, nodeVars, history
<1>15. ASSUME NEW n \in Node, Command(n)
       PROVE  Numbered'
  BY <1>15 DEF Command, Numbered, workVars, netVars, history
<1>16. ASSUME NEW n \in Node, SelectTips(n)
       PROVE  Numbered'
  BY <1>16 DEF SelectTips, Numbered, netVars
<1>17. ASSUME NEW n \in Node, Work(n)
       PROVE  Numbered'
  BY <1>17 DEF Work, PushTip, BroadcastUnit, BroadcastOf, UnitTo, Numbered,
     nodeVars, netVars, history
<1> QED
  BY <1>1, <1>2, <1>3, <1>4, <1>5, <1>6, <1>7, <1>8, <1>9, <1>10, <1>11, <1>12, <1>13,
     <1>14, <1>15, <1>16, <1>17
  DEF Next, Crash, Join, RequestTimeout, RequestThrows, Listen

(* The phases of a start follow each other.                                *)
LEMMA PhasesStep ==
    ASSUME TypeOK, Numbered, Phases, Next
    PROVE  Phases'
<1> USE NetworkAssumption DEF TypeOK, NodesTyped
<1>1. CASE Lost
  BY <1>1 DEF Lost, Lose, Phases, Joined, Alive, nodeVars, workVars
<1>2. ASSUME NEW n \in Node, Stop(n)
      PROVE  Phases'
  BY <1>2, Heads DEF Stop, Phases, Joined, Alive, NotTo, Alone
<1>3. ASSUME NEW n \in Node, Boot(n)
      PROVE  Phases'
  BY <1>3, Heads DEF Boot, Phases, Joined, Alive, Numbered, Started, workVars, history
<1>4. ASSUME NEW n \in Node, SyncReply(n)
      PROVE  Phases'
  BY <1>4 DEF SyncReply, Phases, Joined, Alive, workVars, history
<1>5. ASSUME NEW n \in Node, SyncTimeout(n)
      PROVE  Phases'
  <2>1. /\ pc[n] = "sync" /\ pc' = [pc EXCEPT ![n] = pc'[n]]
        /\ pc'[n] \in {"request", "init"}
        /\ answers' \subseteq answers
        /\ UNCHANGED <<life, tips, wpc, answering, source>>
    BY <1>5 DEF SyncTimeout, NotTo, workVars, history
  <2>2. source[n].peer = NoOne
    BY <2>1 DEF Phases
  <2>3. \A k \in Node : source[k].peer # NoOne => k # n
    BY <2>2
  <2>4. (\A k \in Node : pc[k] \in {"sync", "request"} => tips[k] = {})'
    BY <2>1 DEF Phases
  <2>5. (\A k \in Node : wpc[k] # "idle" \/ answering[k] # {} => pc[k] = "up")'
    BY <2>1 DEF Phases
  <2>6. (\A k \in Node : source[k].peer # NoOne => pc[k] \in {"init", "up"})'
    BY <2>1, <2>3 DEF Phases
  <2>7. (\A k \in Node : Joined(k) => pc[source[k].peer] = "up")'
    BY <2>1 DEF Phases, Joined
  <2>8. (\A a \in answers : a.head = "reqdag" /\ Alive(a.from, a.server) => pc[a.from] = "up")'
    BY <2>1, Heads DEF Phases, Alive
  <2> QED
    BY <2>4, <2>5, <2>6, <2>7, <2>8 DEF Phases
<1>6. ASSUME NEW n \in Node, HeadError(n)
      PROVE  Phases'
  BY <1>6, Heads DEF HeadError, NotTo, Phases, Joined, Alive, workVars, history
<1>7. ASSUME NEW n \in Node, RequestReply(n)
      PROVE  Phases'
  BY <1>7, Heads DEF RequestReply, PushAllUnit, To, NotTo, Phases, Joined, Alive, workVars
<1>8. ASSUME NEW n \in Node, InitDag(n)
      PROVE  Phases'
  BY <1>8, Heads DEF InitDag, Phases, Joined, Alive, workVars, netVars, history
<1>9. ASSUME NEW n \in Node, NEW m \in wire, Filter(n, m)
      PROVE  Phases'
  BY <1>9 DEF Filter, Phases, Joined, Alive, workVars
<1>10. ASSUME NEW n \in Node, NEW m \in wire, ReplyCount(n, m)
       PROVE  Phases'
  BY <1>10 DEF ReplyCount, Received, Answer, Phases, Joined, Alive, nodeVars, workVars, history
<1>11. ASSUME NEW n \in Node, NEW m \in wire, ReadRows(n, m)
       PROVE  Phases'
  BY <1>11 DEF ReadRows, Received, Phases, Joined, Alive, nodeVars, history
<1>12. ASSUME NEW n \in Node, NEW m \in wire, PushKnown(n, m)
       PROVE  Phases'
  BY <1>12 DEF PushKnown, Received, Phases, Joined, Alive, nodeVars, workVars, history
<1>13. ASSUME NEW n \in Node, NEW m \in wire, PushUnit(n, m)
       PROVE  Phases'
  BY <1>13 DEF PushUnit, Phases, Joined, Alive, workVars
<1>14. ASSUME NEW n \in Node, ReplyDag(n)
       PROVE  Phases'
  BY <1>14 DEF ReplyDag, Answer, Phases, Joined, Alive, nodeVars, history
<1>15. ASSUME NEW n \in Node, Command(n)
       PROVE  Phases'
  BY <1>15 DEF Command, Phases, Joined, Alive, workVars, netVars, history
<1>16. ASSUME NEW n \in Node, SelectTips(n)
       PROVE  Phases'
  BY <1>16 DEF SelectTips, Phases, Joined, Alive, netVars
<1>17. ASSUME NEW n \in Node, Work(n)
       PROVE  Phases'
  BY <1>17 DEF Work, PushTip, BroadcastUnit, Phases, Joined, Alive, nodeVars, netVars, history
<1> QED
  BY <1>1, <1>2, <1>3, <1>4, <1>5, <1>6, <1>7, <1>8, <1>9, <1>10, <1>11, <1>12, <1>13,
     <1>14, <1>15, <1>16, <1>17
  DEF Next, Crash, Join, RequestTimeout, RequestThrows, Listen
----------------------------------------------------------------------------
(* An answer that is there before and after such a step stays good.        *)
LEMMA AnswerKept ==
    ASSUME IInv, TypeOK', Phases', Unbroken,
           NEW a \in answers, a \in answers', a.head = "reqdag", Alive(a.from, a.server)'
    PROVE  Held(a.from)' \subseteq a.db \cup a.tips \cup OnTheWay(a.to)'
                                   \cup Unsent(a.from)' \cup missed'[a.to]
<1>1. a.from \in Node /\ a.to \in Node /\ a.server \in 0 .. boots
  BY Heads, NetworkAssumption DEF IInv, Numbered, TypeOK, NodesTyped
<1>2. Alive(a.from, a.server)
  BY <1>1 DEF Unbroken
<1>3. pc[a.from] = "up" /\ pc'[a.from] = "up"
  BY <1>2 DEF IInv, Phases
<1>4. pc[a.to] \in {"sync", "request"} /\ pc'[a.to] \in {"sync", "request"}
  BY DEF IInv, TypeOK, Datagrams
<1>5. Held(a.from) \subseteq a.db \cup a.tips \cup OnTheWay(a.to)
                             \cup Unsent(a.from) \cup missed[a.to]
  BY <1>2 DEF IInv, AnswerHolds
<1>6. /\ missed[a.to] \subseteq missed'[a.to]
      /\ OnTheWay(a.to) \subseteq OnTheWay(a.to)' \cup missed'[a.to]
  BY <1>1, <1>4 DEF Unbroken
<1>7. /\ Held(a.from)' \subseteq Held(a.from) \cup Unsent(a.from)' \cup OnTheWay(a.to)'
      /\ Unsent(a.from) \subseteq Unsent(a.from)' \cup OnTheWay(a.to)'
  BY <1>1, <1>3, <1>4 DEF Unbroken
<1> QED
  BY <1>5, <1>6, <1>7

(* So does what a node joined with.                                        *)
LEMMA JoinerKept ==
    ASSUME IInv, Phases', Unbroken, NEW b \in Node, NEW a \in Node,
           source[b] = source'[b], source[b].peer = a, Joined(b)'
    PROVE  Held(a)' \subseteq Held(b)' \cup OnTheWay(b)' \cup Unsent(a)' \cup missed'[b]
<1>1. CASE a = b
  BY <1>1
<1>2. CASE a # b
  <2>1. source[b].peer # NoOne /\ Alive(a, source[b].life)'
    BY DEF Joined, Alive
  <2>2. source[b].life \in 0 .. boots
    BY NetworkAssumption DEF IInv, Numbered, TypeOK, NodesTyped
  <2>3. Joined(b)
    BY <2>1, <2>2 DEF Unbroken, Joined, Alive
  <2>4. pc[a] = "up" /\ pc'[a] = "up"
    BY <2>3 DEF IInv, Phases
  <2>5. pc[b] # "off" /\ pc'[b] # "off"
    BY <2>1 DEF IInv, Phases
  <2>6. Held(a) \subseteq Held(b) \cup OnTheWay(b) \cup Unsent(a) \cup missed[b]
    BY <2>3 DEF IInv, JoinerHolds
  <2>7. /\ missed[b] \subseteq missed'[b]
        /\ Held(b) \subseteq Held(b)'
        /\ OnTheWay(b) \subseteq OnTheWay(b)' \cup missed'[b] \cup Held(b)'
    BY <2>5 DEF Unbroken
  <2>8. /\ Held(a)' \subseteq Held(a) \cup Unsent(a)' \cup OnTheWay(b)'
        /\ Unsent(a) \subseteq Unsent(a)' \cup OnTheWay(b)'
    BY <1>2, <2>4, <2>5 DEF Unbroken
  <2> QED
    BY <2>6, <2>7, <2>8
<1> QED
  BY <1>1, <1>2

(* A set of rows that was read stays good.                                 *)
LEMMA ReadingKept ==
    ASSUME IInv, Unbroken, NEW n \in Node, NEW r \in answering[n],
           Alive(r.from, r.life)', db'[n] \subseteq db[n] \cup missed'[r.from]
    PROVE  db'[n] \subseteq r.db \cup missed'[r.from]
<1>1. r.from \in Node /\ r.life \in 0 .. boots
  BY NetworkAssumption DEF IInv, Numbered, TypeOK, NodesTyped
<1>2. Alive(r.from, r.life) /\ pc'[r.from] # "off"
  BY <1>1 DEF Unbroken, Alive
<1>3. db[n] \subseteq r.db \cup missed[r.from]
  BY <1>2 DEF IInv, ReadingHolds
<1>4. missed[r.from] \subseteq missed'[r.from]
  BY <1>1, <1>2 DEF Unbroken
<1> QED
  BY <1>3, <1>4

(* Datagrams with units are what matters on the wire.                      *)
LEMMA SameNews ==
    ASSUME \A m \in wire : m.head = "bcastunit" => m \in wire'
    PROVE  \A n : OnTheWay(n) \subseteq OnTheWay(n)'
BY DEF OnTheWay

(* A broadcast is on its way to everyone who has bound the port.           *)
LEMMA Broadcasts ==
    ASSUME NEW n \in Node, NEW u, BroadcastOf(n, u) \subseteq wire'
    PROVE  \A b \in Node : pc[b] # "off" => u \in OnTheWay(b)'
<1>1. ASSUME NEW b \in Node, pc[b] # "off"
      PROVE  UnitTo(n, u, b) \in wire'
  BY <1>1 DEF BroadcastOf, Bound
<1>2. \A b \in Node : LET m == UnitTo(n, u, b)
                     IN  m.to = b /\ m.head = "bcastunit" /\ m.unit = u
  BY DEF UnitTo
<1> QED
  BY <1>1, <1>2 DEF OnTheWay

(* A step that changes no phase, no unit and no news breaks nothing.       *)
LEMMA Quiet ==
    ASSUME IInv, UNCHANGED <<life, db, tips, wpc, wunit>>,
           \A n \in Node : pc'[n] # "off" => pc[n] # "off",
           \A n \in Node : pc'[n] # "off" => missed[n] \subseteq missed'[n],
           \A n \in Node : pc'[n] # "off" => OnTheWay(n) \subseteq OnTheWay(n)' \cup missed'[n]
    PROVE  Unbroken
<1>1. \A n \in Node : Held(n)' = Held(n) /\ Unsent(n)' = Unsent(n)
  BY DEF Held, Unsent
<1> QED
  BY <1>1 DEF Unbroken, Alive

LEMMA UnbrokenStep ==
    ASSUME IInv, Next
    PROVE  Unbroken
<1> USE NetworkAssumption DEF IInv, TypeOK, NodesTyped
<1>1. CASE Lost
  <2>1. \A n \in Node : OnTheWay(n) \subseteq OnTheWay(n)' \cup missed'[n]
    BY <1>1, Heads DEF Lost, Lose, OnTheWay
  <2>2. \A n \in Node : missed[n] \subseteq missed'[n]
    BY <1>1 DEF Lost, Lose
  <2>3. UNCHANGED <<pc, life, db, tips, wpc, wunit>>
    BY <1>1 DEF Lost, nodeVars, workVars
  <2> QED
    BY <2>1, <2>2, <2>3, Quiet
<1>2. ASSUME NEW n \in Node, Stop(n)
      PROVE  Unbroken
  <2>1. \A k \in Node : pc'[k] # "off" => /\ k # n /\ pc[k] = pc'[k]
                                          /\ Held(k)' = Held(k) /\ Unsent(k)' = Unsent(k)
                                          /\ missed'[k] = missed[k]
    BY <1>2 DEF Stop, Held, Unsent
  <2>2. \A k \in Node : k # n => OnTheWay(k)' = OnTheWay(k)
    BY <1>2 DEF Stop, NotTo, OnTheWay
  <2>3. life' = life
    BY <1>2 DEF Stop
  <2> QED
    BY <2>1, <2>2, <2>3 DEF Unbroken, Alive
<1>3. ASSUME NEW n \in Node, Boot(n)
      PROVE  Unbroken
  <2>1. \A k \in Node : \A l \in 0 .. boots : Alive(k, l)' => Alive(k, l)
    BY <1>3 DEF Boot, Alive
  <2>2. \A k \in Node : Held(k)' = Held(k) /\ Unsent(k)' = Unsent(k)
    BY <1>3 DEF Boot, workVars, Held, Unsent
  <2>3. \A k \in Node : OnTheWay(k) \subseteq OnTheWay(k)'
    BY <1>3, SameNews DEF Boot
  <2>4. missed' = missed
    BY <1>3 DEF Boot, history
  <2> QED
    BY <2>1, <2>2, <2>3, <2>4 DEF Unbroken
<1>4. ASSUME NEW n \in Node, SyncReply(n) \/ SyncTimeout(n) \/ HeadError(n)
      PROVE  Unbroken
  <2>1. UNCHANGED <<life, db, tips, wpc, wunit, missed>>
    BY <1>4 DEF SyncReply, SyncTimeout, HeadError, workVars, history
  <2>2. \A k \in Node : pc'[k] # "off" => pc[k] # "off"
    BY <1>4 DEF SyncReply, SyncTimeout, HeadError
  <2>3. wire \subseteq wire'
    BY <1>4 DEF SyncReply, SyncTimeout, HeadError
  <2> QED
    BY <2>1, <2>2, <2>3, SameNews, Quiet
<1>5. ASSUME NEW n \in Node, RequestReply(n)
      PROVE  Unbroken
  <2>1. /\ pc[n] = "request" /\ pc' = [pc EXCEPT ![n] = "init"]
        /\ UNCHANGED <<life, wpc, wunit, wire, missed>>
    BY <1>5 DEF RequestReply, PushAllUnit, workVars
  <2>2. /\ Held(n) \subseteq Held(n)'
        /\ \A k \in Node \ {n} : Held(k)' = Held(k)
    BY <1>5 DEF RequestReply, PushAllUnit, Held
  <2>3. \A k \in Node : OnTheWay(k)' = OnTheWay(k) /\ Unsent(k)' = Unsent(k)
    BY <2>1 DEF OnTheWay, Unsent
  <2> QED
    BY <2>1, <2>2, <2>3 DEF Unbroken, Alive
<1>6. ASSUME NEW n \in Node, InitDag(n)
      PROVE  Unbroken
  <2>1. /\ pc[n] = "init" /\ pc' = [pc EXCEPT ![n] = "up"]
        /\ UNCHANGED <<life, wpc, wunit, wire, missed>>
    BY <1>6 DEF InitDag, workVars, netVars, history
  <2>2. /\ Held(n) \subseteq Held(n)'
        /\ \A k \in Node \ {n} : Held(k)' = Held(k)
    BY <1>6 DEF InitDag, Held
  <2>3. \A k \in Node : OnTheWay(k)' = OnTheWay(k) /\ Unsent(k)' = Unsent(k)
    BY <2>1 DEF OnTheWay, Unsent
  <2> QED
    BY <2>1, <2>2, <2>3 DEF Unbroken, Alive
<1>7. ASSUME NEW n \in Node, NEW m \in wire, Filter(n, m)
      PROVE  Unbroken
  <2>1. \A k \in Node : OnTheWay(k) \subseteq OnTheWay(k)' \cup missed'[k]
    BY <1>7, Heads DEF Filter, OnTheWay
  <2>2. \A k \in Node : missed[k] \subseteq missed'[k]
    BY <1>7 DEF Filter
  <2>3. UNCHANGED <<pc, life, db, tips, wpc, wunit>>
    BY <1>7 DEF Filter, workVars
  <2> QED
    BY <2>1, <2>2, <2>3, Quiet
<1>8. ASSUME NEW n \in Node, NEW m \in wire, ReplyCount(n, m) \/ ReadRows(n, m)
      PROVE  Unbroken
  <2>1. \A k \in Node : OnTheWay(k) \subseteq OnTheWay(k)'
    BY <1>8, SameNews DEF ReplyCount, ReadRows, Received
  <2>2. UNCHANGED <<pc, life, db, tips, wpc, wunit, missed>>
    BY <1>8 DEF ReplyCount, ReadRows, nodeVars, workVars, history
  <2> QED
    BY <2>1, <2>2, Quiet
<1>9. ASSUME NEW n \in Node, NEW m \in wire, PushKnown(n, m)
      PROVE  Unbroken
  <2>1. UNCHANGED <<pc, life, db, tips, wpc, wunit, missed>>
    BY <1>9 DEF PushKnown, nodeVars, workVars, history
  <2>2. \A k \in Node : Held(k)' = Held(k) /\ Unsent(k)' = Unsent(k)
    BY <2>1 DEF Held, Unsent
  <2>3. /\ m.unit \in Held(n) /\ pc[n] = "up" /\ m.to = n
        /\ wire' = wire \ {m}
    BY <1>9 DEF PushKnown, Received, Known, Held
  <2>4. \A k \in Node : OnTheWay(k) \subseteq
                           OnTheWay(k)' \cup (IF pc[k] = "up" THEN Held(k)' ELSE {})
    BY <2>2, <2>3 DEF OnTheWay
  <2> QED
    BY <2>1, <2>2, <2>4 DEF Unbroken, Alive
<1>10. ASSUME NEW n \in Node, NEW m \in wire, PushUnit(n, m)
       PROVE  Unbroken
  <2>1. UNCHANGED <<pc, life, wpc, wunit>> /\ pc[n] = "up" /\ m.to = n
    BY <1>10 DEF PushUnit, workVars
  <2>2. PICK S \in SUBSET (tips[n] \cap approves[m.unit]) :
           /\ db' = [db EXCEPT ![n] = @ \cup S]
           /\ tips' = [tips EXCEPT ![n] = (@ \ S) \cup {m.unit}]
           /\ Moved(n, S)
    BY <1>10 DEF PushUnit
  <2>3. /\ Held(n)' = Held(n) \cup {m.unit}
        /\ \A k \in Node \ {n} : Held(k)' = Held(k)
        /\ \A k \in Node : Unsent(k)' = Unsent(k)
    BY <2>1, <2>2 DEF Held, Unsent
  <2>4. \A k \in Node : missed[k] \subseteq missed'[k]
    BY <2>2 DEF Moved
  <2>5. \A b \in Node : pc[b] # "off" => m.unit \in OnTheWay(b)'
    BY <1>10, Broadcasts DEF PushUnit
  <2>6. \A k \in Node : OnTheWay(k) \subseteq
                           OnTheWay(k)' \cup (IF pc[k] = "up" THEN Held(k)' ELSE {})
    <3>1. wire \ {m} \subseteq wire'
      BY <1>10 DEF PushUnit
    <3> QED
      BY <2>1, <2>3, <3>1 DEF OnTheWay
  <2>7. \A k \in Node : \A b \in Node \ {k} : pc[b] # "off" =>
           /\ Held(k)' \subseteq Held(k) \cup OnTheWay(b)'
           /\ Unsent(k)' = Unsent(k)
    BY <2>3, <2>5
  <2>8. \A k \in Node : Held(k) \subseteq Held(k)'
    BY <2>3
  <2>9. \A k \in Node : \A l \in 0 .. boots : Alive(k, l)' => Alive(k, l)
    BY <2>1 DEF Alive
  <2>10. \A k \in Node : pc'[k] = "up" =>
            \A b \in Node \ {k} : pc[b] # "off" /\ pc'[b] # "off" =>
               /\ Held(k)' \subseteq Held(k) \cup Unsent(k)' \cup OnTheWay(b)'
               /\ Unsent(k) \subseteq Unsent(k)' \cup OnTheWay(b)'
    BY <2>7
  <2> QED
    BY <2>4, <2>6, <2>8, <2>9, <2>10 DEF Unbroken
<1>11. ASSUME NEW n \in Node, ReplyDag(n) \/ Command(n)
       PROVE  Unbroken
  <2>1. UNCHANGED <<pc, life, db, tips, wpc, wunit, missed, wire>>
    BY <1>11 DEF ReplyDag, Command, nodeVars, workVars, netVars, history
  <2> QED
    BY <2>1, SameNews, Quiet
<1>12. ASSUME NEW n \in Node, SelectTips(n)
       PROVE  Unbroken
  <2>1. UNCHANGED <<pc, life, wire>> /\ wpc[n] = "idle" /\ wpc'[n] # "sleep"
        /\ \A k \in Node \ {n} : wpc'[k] = wpc[k] /\ wunit'[k] = wunit[k]
    BY <1>12 DEF SelectTips, netVars
  <2>2. PICK S, G \in SUBSET tips[n] :
           /\ Selection(n, S, G)
           /\ tips' = [tips EXCEPT ![n] = (@ \ S) \ G]
           /\ db' = [db EXCEPT ![n] = @ \cup S]
           /\ Moved(n, S)
    BY <1>12 DEF SelectTips
  <2>3. G \subseteq db[n]
    BY <2>2 DEF Selection, VerifyTip
  <2>4. \A k \in Node : Held(k)' = Held(k)
    BY <2>2, <2>3 DEF Held
  <2>5. \A k \in Node : Unsent(k)' = Unsent(k) /\ OnTheWay(k)' = OnTheWay(k)
    BY <2>1 DEF Unsent, OnTheWay
  <2>6. \A k \in Node : missed[k] \subseteq missed'[k]
    BY <2>2 DEF Moved
  <2> QED
    BY <2>1, <2>4, <2>5, <2>6 DEF Unbroken, Alive
<1>13. ASSUME NEW n \in Node, PushTip(n)
       PROVE  Unbroken
  <2>1. UNCHANGED <<pc, life, wire, missed>>
    BY <1>13 DEF PushTip, netVars, history
  <2>2. /\ Unsent(n) = {} /\ Unsent(n)' = {wunit[n]}
        /\ Held(n)' = Held(n) \cup {wunit[n]}
        /\ \A k \in Node \ {n} : Held(k)' = Held(k) /\ Unsent(k)' = Unsent(k)
    BY <1>13 DEF PushTip, Held, Unsent
  <2>3. \A k \in Node : OnTheWay(k)' = OnTheWay(k)
    BY <2>1 DEF OnTheWay
  <2> QED
    BY <2>1, <2>2, <2>3 DEF Unbroken, Alive
<1>14. ASSUME NEW n \in Node, BroadcastUnit(n)
       PROVE  Unbroken
  <2>1. UNCHANGED <<pc, life, missed>> /\ wire \subseteq wire'
    BY <1>14 DEF BroadcastUnit, nodeVars, history
  <2>2. /\ Unsent(n) = {wunit[n]} /\ Unsent(n)' = {}
        /\ \A k \in Node : Held(k)' = Held(k)
        /\ \A k \in Node \ {n} : Unsent(k)' = Unsent(k)
    BY <1>14 DEF BroadcastUnit, nodeVars, Held, Unsent
  <2>3. \A b \in Node : pc[b] # "off" => wunit[n] \in OnTheWay(b)'
    BY <1>14, Broadcasts DEF BroadcastUnit
  <2>4. \A k \in Node : OnTheWay(k) \subseteq OnTheWay(k)'
    BY <2>1, SameNews
  <2> QED
    BY <2>1, <2>2, <2>3, <2>4 DEF Unbroken, Alive
<1> QED
  BY <1>1, <1>2, <1>3, <1>4, <1>5, <1>6, <1>7, <1>8, <1>9, <1>10, <1>11, <1>12, <1>13, <1>14
  DEF Next, Crash, Join, RequestTimeout, RequestThrows, Listen, Work
----------------------------------------------------------------------------
(* Rows of a table only come in, and what comes in is noted for those      *)
(* whose answer is being made.                                             *)
LEMMA RowsStep ==
    ASSUME IInv, Next, NEW n \in Node, NEW r \in answering[n], r \in answering'[n],
           Alive(r.from, r.life)'
    PROVE  db'[n] \subseteq db[n] \cup missed'[r.from]
<1> USE NetworkAssumption DEF IInv, TypeOK, NodesTyped
<1>1. pc[n] = "up" /\ r.from \in Node
  BY DEF Phases
<1>2. CASE db' = db
  BY <1>2
<1>3. ASSUME NEW k \in Node, RequestReply(k)
      PROVE  db'[n] \subseteq db[n] \cup missed'[r.from]
  BY <1>1, <1>3 DEF RequestReply, PushAllUnit
<1>4. ASSUME NEW k \in Node, NEW S \in SUBSET Unit, Moved(k, S), life' = life,
             db' = [db EXCEPT ![k] = @ \cup S]
      PROVE  db'[n] \subseteq db[n] \cup missed'[r.from]
  <2>1. CASE k # n
    BY <1>4, <2>1
  <2>2. CASE k = n
    <3>1. r.life = life[r.from]
      BY <1>4 DEF Alive
    <3>2. S \subseteq missed'[r.from]
      BY <1>1, <1>4, <2>2, <3>1 DEF Moved
    <3> QED
      BY <1>4, <2>2, <3>2
  <2> QED
    BY <2>1, <2>2
<1>5. ASSUME NEW k \in Node, NEW m \in wire, PushUnit(k, m)
      PROVE  db'[n] \subseteq db[n] \cup missed'[r.from]
  <2>1. \E S \in SUBSET tips[k] : Moved(k, S) /\ db' = [db EXCEPT ![k] = @ \cup S]
    BY <1>5 DEF PushUnit
  <2>2. tips[k] \subseteq Unit /\ life' = life
    BY <1>5 DEF PushUnit
  <2> QED
    BY <1>4, <2>1, <2>2
<1>6. ASSUME NEW k \in Node, SelectTips(k)
      PROVE  db'[n] \subseteq db[n] \cup missed'[r.from]
  <2>1. \E S \in SUBSET tips[k] : Moved(k, S) /\ db' = [db EXCEPT ![k] = @ \cup S]
    BY <1>6 DEF SelectTips
  <2>2. tips[k] \subseteq Unit /\ life' = life
    BY <1>6 DEF SelectTips
  <2> QED
    BY <1>4, <2>1, <2>2
<1>7. CASE Lost
  BY <1>2, <1>7 DEF Lost, nodeVars
<1>8. ASSUME NEW k \in Node,
             \/ Boot(k) \/ Stop(k) \/ SyncReply(k) \/ SyncTimeout(k) \/ HeadError(k) \/ InitDag(k)
             \/ ReplyDag(k) \/ Command(k) \/ PushTip(k) \/ BroadcastUnit(k)
      PROVE  db' = db
  BY <1>8 DEF Boot, Stop, SyncReply, SyncTimeout, HeadError, InitDag, ReplyDag, Command,
     PushTip, BroadcastUnit, nodeVars
<1>9. ASSUME NEW k \in Node, NEW m \in wire,
             Filter(k, m) \/ ReplyCount(k, m) \/ ReadRows(k, m) \/ PushKnown(k, m)
      PROVE  db' = db
  BY <1>9 DEF Filter, ReplyCount, ReadRows, PushKnown, nodeVars
<1> QED
  BY <1>2, <1>3, <1>5, <1>6, <1>7, <1>8, <1>9
  DEF Next, Crash, Join, RequestTimeout, RequestThrows, Listen, Work

(* Readings start in ReadRows only.                                        *)
LEMMA NewReadings ==
    ASSUME IInv, Next, NEW n \in Node, NEW r \in answering'[n]
    PROVE  r \in answering[n] \/ (r.db = db[n] /\ db'[n] = db[n])
<1> USE DEF IInv, TypeOK, NodesTyped
<1>1. ASSUME NEW k \in Node, NEW m \in wire, ReadRows(k, m)
      PROVE  r \in answering[n] \/ (r.db = db[n] /\ db'[n] = db[n])
  BY <1>1 DEF ReadRows, nodeVars
<1>2. ASSUME NEW k \in Node,
             \/ Boot(k) \/ Stop(k) \/ SyncReply(k) \/ SyncTimeout(k) \/ HeadError(k) \/ InitDag(k)
             \/ RequestReply(k) \/ ReplyDag(k) \/ Command(k) \/ SelectTips(k) \/ Work(k)
      PROVE  answering'[n] \subseteq answering[n]
  BY <1>2 DEF Boot, Stop, SyncReply, SyncTimeout, HeadError, InitDag, RequestReply, ReplyDag,
     Command, SelectTips, Work, PushTip, BroadcastUnit, workVars
<1>3. ASSUME NEW k \in Node, NEW m \in wire,
             Filter(k, m) \/ ReplyCount(k, m) \/ PushKnown(k, m) \/ PushUnit(k, m)
      PROVE  answering'[n] \subseteq answering[n]
  BY <1>3 DEF Filter, ReplyCount, PushKnown, PushUnit, workVars
<1>4. CASE Lost
  BY <1>4 DEF Lost, workVars
<1> QED
  BY <1>1, <1>2, <1>3, <1>4
  DEF Next, Crash, Join, RequestTimeout, RequestThrows, Listen

(* What is being answered stays complete.                                  *)
LEMMA ReadingStep ==
    ASSUME IInv, Next
    PROVE  ReadingHolds'
<1>1. SUFFICES ASSUME NEW n \in Node, NEW r \in answering'[n], Alive(r.from, r.life)'
               PROVE  db'[n] \subseteq r.db \cup missed'[r.from]
  BY DEF ReadingHolds
<1>2. CASE r \in answering[n]
  BY <1>1, <1>2, UnbrokenStep, RowsStep, ReadingKept
<1>3. CASE r \notin answering[n]
  BY <1>3, NewReadings
<1> QED
  BY <1>2, <1>3

(* Answers with units come from ReplyDag only.                             *)
LEMMA NewAnswers ==
    ASSUME IInv, Next, NEW a \in answers', a \notin answers, a.head = "reqdag"
    PROVE  \E n \in Node : ReplyDag(n)
<1>1. ASSUME NEW k \in Node, NEW m \in wire, ReplyCount(k, m)
      PROVE  FALSE
  BY <1>1 DEF ReplyCount, Answer
<1>2. ASSUME NEW k \in Node,
             \/ Boot(k) \/ Stop(k) \/ SyncReply(k) \/ SyncTimeout(k) \/ HeadError(k) \/ InitDag(k)
             \/ RequestReply(k) \/ Command(k) \/ SelectTips(k) \/ Work(k)
      PROVE  FALSE
  BY <1>2 DEF Boot, Stop, SyncReply, SyncTimeout, HeadError, InitDag, RequestReply, NotTo,
     Command, SelectTips, Work, PushTip, BroadcastUnit, netVars
<1>3. ASSUME NEW k \in Node, NEW m \in wire,
             Filter(k, m) \/ ReadRows(k, m) \/ PushKnown(k, m) \/ PushUnit(k, m)
      PROVE  FALSE
  BY <1>3 DEF Filter, ReadRows, PushKnown, PushUnit
<1>4. ~Lost
  BY DEF Lost, Lose
<1> QED
  BY <1>1, <1>2, <1>3, <1>4
  DEF Next, Crash, Join, RequestTimeout, RequestThrows, Listen

(* An answer is complete when it is sent, and stays complete.              *)
LEMMA AnswerStep ==
    ASSUME IInv, TypeOK', Phases', Next
    PROVE  AnswerHolds'
<1>1. SUFFICES ASSUME NEW a \in answers', a.head = "reqdag", Alive(a.from, a.server)'
               PROVE  Held(a.from)' \subseteq a.db \cup a.tips \cup OnTheWay(a.to)'
                                              \cup Unsent(a.from)' \cup missed'[a.to]
  BY DEF AnswerHolds
<1>2. CASE a \in answers
  BY <1>1, <1>2, UnbrokenStep, AnswerKept
<1>3. CASE a \notin answers
  <2>1. PICK n \in Node : ReplyDag(n)
    BY <1>1, <1>3, NewAnswers
  <2>2. PICK r \in answering[n] :
           Answer(r, [head |-> "reqdag", from |-> n, to |-> r.from, server |-> life[n],
                      db |-> r.db, tips |-> tips[n]])
    BY <2>1 DEF ReplyDag
  <2>3. /\ a.from = n /\ a.to = r.from /\ a.db = r.db /\ a.tips = tips[n]
        /\ Reads(r.from, r.life)
    BY <1>3, <2>2 DEF Answer
  <2>4. db[n] \subseteq r.db \cup missed[r.from]
    BY <2>3 DEF IInv, ReadingHolds, Alive, Reads
  <2>5. Held(n)' = db[n] \cup tips[n] /\ missed' = missed
    BY <2>1 DEF ReplyDag, nodeVars, history, Held
  <2> QED
    BY <2>3, <2>4, <2>5
<1> QED
  BY <1>2, <1>3

(* A node gets its peer from RequestReply only.                            *)
LEMMA NewSource ==
    ASSUME IInv, Next, NEW b \in Node, source'[b] # source[b], source'[b].peer # NoOne
    PROVE  RequestReply(b)
<1> USE DEF IInv, TypeOK, NodesTyped
<1>1. ASSUME NEW k \in Node, RequestReply(k)
      PROVE  k = b
  BY <1>1 DEF RequestReply
<1>2. ASSUME NEW k \in Node, Stop(k)
      PROVE  FALSE
  BY <1>2 DEF Stop, Alone
<1>3. ASSUME NEW k \in Node,
             \/ Boot(k) \/ SyncReply(k) \/ SyncTimeout(k) \/ HeadError(k) \/ InitDag(k)
             \/ ReplyDag(k) \/ Command(k) \/ SelectTips(k) \/ Work(k)
      PROVE  FALSE
  BY <1>3 DEF Boot, SyncReply, SyncTimeout, HeadError, InitDag, ReplyDag, Command, SelectTips,
     Work, PushTip, BroadcastUnit, history
<1>4. ASSUME NEW k \in Node, NEW m \in wire,
             Filter(k, m) \/ ReplyCount(k, m) \/ ReadRows(k, m) \/ PushKnown(k, m)
             \/ PushUnit(k, m)
      PROVE  FALSE
  BY <1>4 DEF Filter, ReplyCount, ReadRows, PushKnown, PushUnit, history
<1>5. ~Lost
  BY DEF Lost
<1> QED
  BY <1>1, <1>2, <1>3, <1>4, <1>5
  DEF Next, Crash, Join, RequestTimeout, RequestThrows, Listen

(* A node that joins has all its peer has, and keeps up with it.           *)
LEMMA JoinerStep ==
    ASSUME IInv, Phases', Next
    PROVE  JoinerHolds'
<1>1. SUFFICES ASSUME NEW b \in Node, NEW a \in Node, source'[b].peer = a, Joined(b)'
               PROVE  Held(a)' \subseteq Held(b)' \cup OnTheWay(b)' \cup Unsent(a)'
                                           \cup missed'[b]
  <2>1. \A b \in Node : source'[b].peer # NoOne => source'[b].peer \in Node
    BY TypeStep DEF IInv, TypeOK, NodesTyped
  <2> QED
    BY <2>1 DEF JoinerHolds, Joined
<1>2. CASE source'[b] = source[b]
  BY <1>1, <1>2, UnbrokenStep, JoinerKept
<1>3. CASE source'[b] # source[b]
  <2>1. RequestReply(b)
    BY <1>1, <1>3, NewSource, NetworkAssumption
  <2>2. PICK m \in answers : /\ m.to = b /\ m.head = "reqdag" /\ PushAllUnit(b, m)
                             /\ db[b] = {} /\ source'[b] = [peer |-> m.from, life |-> m.server]
    BY <1>3, <2>1 DEF RequestReply, To, IInv, TypeOK, NodesTyped
  <2>3. /\ pc[b] = "request" /\ pc' = [pc EXCEPT ![b] = "init"] /\ tips[b] = {}
        /\ UNCHANGED <<life, wpc, wunit, wire, missed>>
    BY <2>1 DEF RequestReply, PushAllUnit, workVars, IInv, Phases
  <2>4. m.from = a /\ Alive(a, m.server)
    BY <1>1, <2>2, <2>3 DEF Joined, Alive, IInv, TypeOK, NodesTyped
  <2>5. Held(a) \subseteq m.db \cup m.tips \cup OnTheWay(b) \cup Unsent(a) \cup missed[b]
    BY <2>2, <2>4 DEF IInv, AnswerHolds
  <2>6. OnTheWay(b)' = OnTheWay(b) /\ Unsent(a)' = Unsent(a)
    BY <2>3 DEF OnTheWay, Unsent
  <2>7. m.db \cup m.tips \subseteq Held(b)'
    <3>1. m.db \in SUBSET Unit /\ m.tips \in SUBSET Unit
      BY <2>2, Heads DEF IInv
    <3>2. Cardinality(tips[b]) = 0 /\ GetCount(b) = 0
      BY <2>2, <2>3, FS_EmptySet DEF GetCount
    <3>3. \A S \in SUBSET Unit : Cardinality(S) \in Nat /\ (Cardinality(S) = 0 => S = {})
      BY FiniteUnits, FS_EmptySet
    <3>4. m.db \subseteq db'[b]
      BY <2>2, <3>1, <3>2, <3>3 DEF PushAllUnit, IInv, TypeOK, NodesTyped
    <3>5. m.tips \subseteq tips'[b]
      BY <2>2, <3>1, <3>2, <3>3 DEF PushAllUnit, IInv, TypeOK, NodesTyped
    <3> QED
      BY <3>4, <3>5 DEF Held
  <2>8. CASE a = b
    BY <2>8
  <2>9. CASE a # b
    <3>1. Held(a)' = Held(a)
      BY <2>2, <2>9 DEF PushAllUnit, Held, IInv, TypeOK, NodesTyped
    <3> QED
      BY <2>3, <2>5, <2>6, <2>7, <3>1
  <2> QED
    BY <2>8, <2>9
<1> QED
  BY <1>2, <1>3

(* As long as a peer's process lives, whoever joined it holds what it      *)
(* holds, up to broadcasts and bad luck: nothing falls between the answer  *)
(* to reqdag and the first unit heard (Network.h:97-121, 286-370).         *)
THEOREM JoinerKeepsUp == Spec => []JoinerHolds
<1>1. Init => IInv
  <2>1. Init => TypeOK
    BY NetworkAssumption
    DEF Init, TypeOK, NodesTyped, Started, Datagrams, Nobody, Alone, NoUnit
  <2>2. Init => Numbered /\ Phases /\ ReadingHolds /\ AnswerHolds /\ JoinerHolds
    BY NetworkAssumption
    DEF Init, Numbered, Phases, ReadingHolds, AnswerHolds, JoinerHolds, Joined, Alone
  <2> QED
    BY <2>1, <2>2 DEF IInv
<1>2. IInv /\ Next => IInv'
  <2> SUFFICES ASSUME IInv, Next PROVE IInv'
    OBVIOUS
  <2>1. TypeOK' /\ Numbered' /\ Phases'
    BY TypeStep, NumberedStep, PhasesStep DEF IInv
  <2> QED
    BY <2>1, ReadingStep, AnswerStep, JoinerStep DEF IInv
<1>3. IInv /\ UNCHANGED vars => IInv'
  BY DEF IInv, TypeOK, NodesTyped, Started, Datagrams, Numbered, Phases, ReadingHolds, AnswerHolds,
     JoinerHolds, Joined, Alive, Held, OnTheWay, Unsent,
     vars, nodeVars, workVars, netVars, history
<1>4. IInv => JoinerHolds
  BY DEF IInv
<1> QED
  BY <1>1, <1>2, <1>3, <1>4, PTL DEF Spec
----------------------------------------------------------------------------
(* No step of any node takes a row from a table, not even a                *)
(* synchronisation with a peer that holds other units (dag.cpp:228,        *)
(* database.cpp:492-519).                                                  *)
THEOREM RowsStay == Spec => StoredForGood
<1> USE DEF TypeOK, NodesTyped
<1>1. TypeOK /\ Next => \A n \in Node : db[n] \subseteq db'[n]
  <2> SUFFICES ASSUME TypeOK, Next, NEW n \in Node
               PROVE  db[n] \subseteq db'[n]
    OBVIOUS
  <2>1. ASSUME NEW k \in Node, RequestReply(k)
        PROVE  db[n] \subseteq db'[n]
    BY <2>1 DEF RequestReply, PushAllUnit
  <2>2. ASSUME NEW k \in Node, NEW m \in wire, PushUnit(k, m)
        PROVE  db[n] \subseteq db'[n]
    BY <2>2 DEF PushUnit
  <2>3. ASSUME NEW k \in Node, SelectTips(k)
        PROVE  db[n] \subseteq db'[n]
    BY <2>3 DEF SelectTips
  <2>4. ASSUME NEW k \in Node,
               \/ Boot(k) \/ Stop(k) \/ SyncReply(k) \/ SyncTimeout(k) \/ HeadError(k)
               \/ InitDag(k) \/ ReplyDag(k) \/ Command(k) \/ Work(k)
        PROVE  db' = db
    BY <2>4 DEF Boot, Stop, SyncReply, SyncTimeout, HeadError, InitDag, ReplyDag, Command,
       Work, PushTip, BroadcastUnit, nodeVars
  <2>5. ASSUME NEW k \in Node, NEW m \in wire,
               Filter(k, m) \/ ReplyCount(k, m) \/ ReadRows(k, m) \/ PushKnown(k, m)
        PROVE  db' = db
    BY <2>5 DEF Filter, ReplyCount, ReadRows, PushKnown, nodeVars
  <2>6. CASE Lost
    BY <2>6 DEF Lost, nodeVars
  <2> QED
    BY <2>1, <2>2, <2>3, <2>4, <2>5, <2>6
    DEF Next, Crash, Join, RequestTimeout, RequestThrows, Listen
<1>2. TypeOK /\ [Next]_vars => [\A n \in Node : db[n] \subseteq db'[n]]_db
  BY <1>1 DEF vars, nodeVars
<1> QED
  BY <1>2, TypeCorrect, PTL DEF Spec, StoredForGood
=============================================================================

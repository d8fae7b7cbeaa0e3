-------------------------------- MODULE Dag --------------------------------
(***************************************************************************)
(* class Dag of one node, after dag.init(): the tips pool in memory, the   *)
(* Unit table in the database, the one worker thread of thread_pool_ that  *)
(* turns submitted infos into units (creatUnit), and the network threads   *)
(* of servBcast that hand over units of peers (pushUnit) and answer        *)
(* synchronisation requests (getAllUnit).  The peers are the environment:  *)
(* their broadcasts reach this node any number of times, in any order, or  *)
(* never.                                                                  *)
(*                                                                         *)
(* A unit is a number, given in the order in which units come into being;  *)
(* its hash identifies it.  The limits of the SQL statements are out of    *)
(* reach here (see WeightTriggers).                                        *)
(***************************************************************************)
EXTENDS UnitTable, SequencesExt

CONSTANTS Handlers,   \* the threads of servBcast's thread pool (2 in the code)
          Worker,     \* the thread of Dag's thread pool
          NoOne,      \* "the lock is free"
          MaxInfos,   \* bound: infos submitted to this node
          MaxRemote,  \* bound: units made by peers
          MaxSyncs,   \* bound: synchronisation requests answered
          MaxEarlier, \* bound: units made before the start, without the genesis unit
          MaxFound,   \* bound: tips handed over by a synchronisation
          Spurious    \* TRUE: a wait on the condition variable may return
                      \* without a notification, as C++ allows

Genesis == 1
Forged  == 0   \* a message whose signature or proof of work is wrong
Unit    == 1 .. 1 + MaxEarlier + MaxInfos + MaxRemote

ASSUME DagAssumption ==
    /\ MaxInfos \in Nat /\ MaxRemote \in Nat /\ MaxSyncs \in Nat
    /\ MaxEarlier \in Nat /\ MaxFound \in Nat
    /\ Spurious \in BOOLEAN
    /\ Worker # NoOne
    /\ Worker \notin Handlers /\ NoOne \notin Handlers
    /\ IsFiniteSet(Handlers)

VARIABLES approves,  \* the units whose hashes a unit holds in tipsHash
          loaded,    \* history: the units stored before the start
          made,      \* number of units made so far, anywhere
          remote,    \* number of them made by peers since the start
          mine,      \* the units made here since the start
          wire,      \* units broadcast so far, by anyone
          known,     \* units some peer knows
          table,     \* dag_db_
          tips,      \* tipsPool_
          lock,      \* holder of m_tips_pool_lock
          submitted, \* number of infos submitted so far
          infos,     \* infos waiting in thread_pool_
          dropped,   \* infos for which creatUnit returned false
          wpc, wtips, wunit,        \* the worker: where it is, the tips it
                                    \* selected, the unit it made
          hpc, hunit, hpos, hseen,  \* the handlers: where they are, the unit
                                    \* at hand, the scan index, the rows read
                                    \* (locals, at their first value when out
                                    \* of scope)
          syncs      \* synchronisation requests answered so far

envVars == <<approves, loaded, made, remote, mine, wire, known>>
poolVars == <<table, tips, lock>>
infoVars == <<submitted, infos, dropped>>
wVars == <<wpc, wtips, wunit>>
hVars == <<hpc, hunit, hpos, hseen, syncs>>
vars == <<envVars, poolVars, infoVars, wVars, hVars>>

(* calcSelfWeight of the one difficulty the code uses, and the genesis     *)
(* unit's header.                                                          *)
selfWeight == [u \in Unit |-> IF u = Genesis THEN 0 ELSE 1]

PushNothing(u) == UNCHANGED table
Push(u) == table' = PushedInFull(approves, selfWeight, table, u)

EraseNext(i) == tips' = RemoveAt(tips, IF i < Len(tips) THEN i + 1 ELSE i)
Erase(i) == tips' = RemoveAt(tips, i)

(* m_tips_pool_lock: a section that ends within the step that begins it    *)
(* only needs the lock to be free; a section of several steps holds it.    *)
Unlocked == lock = NoOne

AcquireNot(t) == Unlocked /\ UNCHANGED lock
Acquire(t) == Unlocked /\ lock' = t

(* notify_one of m_tips_pool_cond, on which only the worker ever waits.    *)
NotNotified(pc) == pc
Notified(pc) == IF pc = "wait" THEN "woken" ELSE pc

Held == Stored(table) \cup Range(tips)

(* How often a unit is in the pool.                                        *)
Copies(pool, u) == Cardinality({i \in DOMAIN pool : pool[i] = u})

(***************************************************************************)
(* What the first n units, made by anybody before the start, may be: each  *)
(* but the genesis unit approves one or two older ones.                    *)
(***************************************************************************)
EarlierUnits(n) ==
    {f \in [1 .. n -> SUBSET (1 .. n)] :
        /\ f[Genesis] = {}
        /\ \A u \in 2 .. n : Cardinality(f[u]) \in 1 .. 2 /\ f[u] \subseteq 1 .. u - 1}

(* The rows the node starts with, those of the file or, if it has none, of *)
(* the peer it synchronised with: any units, in any order, without their   *)
(* ancestors or with them.                                                 *)
EarlierRows(n) == {s \in SeqOf(1 .. n, n) : IsInjective(s)}

(* The tips of that peer; a node that did not synchronise has none.  They  *)
(* may be older than the rows or younger, be among them (a ghost, or the   *)
(* rows are the node's own) or approve units that are nowhere here; the    *)
(* peer's pool holds a unit no more often than CopiesBounded allows.       *)
FoundTips(n) ==
    {s \in SeqOf(1 .. n, MaxFound) :
        \A u \in 1 .. n : Copies(s, u) <= 1 \/ Copies(s, u) <= Cardinality(Handlers)}

(* dag.cpp:30: a node that has nothing makes the genesis unit.  One that   *)
(* has rows starts even if its pool is empty.                              *)
NothingHere(rows, found) == rows = << >> /\ found = << >>

(***************************************************************************)
(* After Dag::init: the node has a genesis unit of its own and no other    *)
(* unit exists, or it has what was in its file and what a peer gave it.    *)
(* Peers may know every earlier unit, and each but the genesis unit may    *)
(* still arrive; where peers know less, less happens.                      *)
(***************************************************************************)
Init ==
    /\ made \in 1 .. 1 + MaxEarlier
    /\ \E f \in EarlierUnits(made) :
          approves = [u \in Unit \cup {Forged} |-> IF u \in 1 .. made THEN f[u] ELSE {}]
    /\ \E rows \in EarlierRows(made), found \in FoundTips(made) :
          /\ NothingHere(rows, found) => made = 1
          /\ table = LoadedInFull(Unit, approves, selfWeight, rows)
          /\ loaded = Range(rows)
          /\ tips = IF NothingHere(rows, found) THEN <<Genesis>> ELSE found
    /\ remote = 0 /\ mine = {}
    /\ known = 1 .. made /\ wire = known \ {Genesis}
    /\ lock = NoOne
    /\ submitted = 0 /\ infos = 0 /\ dropped = 0
    /\ wpc = "idle" /\ wtips = << >> /\ wunit = Genesis
    /\ hpc = [h \in Handlers |-> "idle"]
    /\ hunit = [h \in Handlers |-> Forged]
    /\ hpos = [h \in Handlers |-> 1]
    /\ hseen = [h \in Handlers |-> {}]
    /\ syncs = 0

----------------------------------------------------------------------------
(* The peers and the user.                                                 *)

(* A peer makes a unit that approves one or two units it knows and         *)
(* broadcasts it.                                                          *)
RemoteUnit ==
    /\ remote < MaxRemote
    /\ \E S \in SUBSET known :
          /\ Cardinality(S) \in 1 .. 2
          /\ approves' = [approves EXCEPT ![made + 1] = S]
    /\ made' = made + 1
    /\ remote' = remote + 1
    /\ wire' = wire \cup {made + 1}
    /\ known' = known \cup {made + 1}
    /\ UNCHANGED <<loaded, mine, poolVars, infoVars, wVars, hVars>>

(* Dag::pushInfo, called by mineOnce, by the producer thread and by the    *)
(* serial port.                                                            *)
PushInfo ==
    /\ submitted < MaxInfos
    /\ submitted' = submitted + 1
    /\ infos' = infos + 1
    /\ UNCHANGED <<dropped, envVars, poolVars, wVars, hVars>>

----------------------------------------------------------------------------
(* The worker: Dag::creatUnit and, inside it, Dag::selectTips.             *)

TakeInfoTwice ==
    /\ wpc = "idle"
    /\ infos > 0
    /\ wpc' = "select"
    /\ UNCHANGED <<infoVars, wtips, wunit, envVars, poolVars, hVars>>

TakeInfo ==
    /\ wpc = "idle"
    /\ infos > 0
    /\ infos' = infos - 1
    /\ wpc' = "select"
    /\ UNCHANGED <<submitted, dropped, wtips, wunit, envVars, poolVars, hVars>>

(* unique_lock; an empty pool makes the worker wait, which frees the lock. *)
SelectTips ==
    /\ wpc = "select"
    /\ IF tips = << >>
       THEN wpc' = "wait" /\ Unlocked /\ UNCHANGED lock
       ELSE wpc' = "pick" /\ Acquire(Worker)
    /\ UNCHANGED <<wtips, wunit, table, tips, envVars, infoVars, hVars>>

SpuriousWakeup ==
    /\ Spurious
    /\ wpc = "wait"
    /\ wpc' = "woken"
    /\ UNCHANGED <<wtips, wunit, envVars, poolVars, infoVars, hVars>>

(* wait() returns with the lock; nobody looks at the pool again.           *)
Wake ==
    /\ wpc = "woken"
    /\ Acquire(Worker)
    /\ wpc' = "pick"
    /\ UNCHANGED <<wtips, wunit, table, tips, envVars, infoVars, hVars>>

VerifyTip(u) == u = Genesis \/ u \notin Stored(table)

(* One round of the selection loop: a random tip leaves the pool, and if   *)
(* it is not in the database yet it goes there and is selected.            *)
Pick ==
    /\ wpc = "pick"
    /\ Len(wtips) < 2
    /\ \E i \in DOMAIN tips :
          /\ IF VerifyTip(tips[i])
             THEN Push(tips[i]) /\ wtips' = Append(wtips, tips[i])
             ELSE UNCHANGED <<table, wtips>>
          /\ Erase(i)
    /\ UNCHANGED <<lock, wpc, wunit, envVars, infoVars, hVars>>

OneIsNotEnough == Len(wtips) < 2
NothingSelected == wtips = << >>

(* The loop ends; without a selected tip creatUnit returns false and the   *)
(* info is gone.                                                           *)
SelectDone ==
    /\ wpc = "pick"
    /\ Len(wtips) = 2 \/ tips = << >>
    /\ lock' = NoOne
    /\ IF NothingSelected
       THEN wpc' = "idle" /\ dropped' = dropped + 1
       ELSE wpc' = "pow" /\ UNCHANGED dropped
    /\ UNCHANGED <<wtips, wunit, table, tips, submitted, infos, envVars, hVars>>

(* Consensus::PoW and the signature: the unit has a hash now.              *)
PoW ==
    /\ wpc = "pow"
    /\ made' = made + 1
    /\ approves' = [approves EXCEPT ![made + 1] = Range(wtips)]
    /\ mine' = mine \cup {made + 1}
    /\ wunit' = made + 1 /\ wtips' = << >>
    /\ wpc' = "push"
    /\ UNCHANGED <<loaded, remote, wire, known, poolVars, infoVars, hVars>>

PushTip ==
    /\ wpc = "push"
    /\ Unlocked
    /\ tips' = Append(tips, wunit)
    /\ wpc' = "broadcast"
    /\ UNCHANGED <<wtips, wunit, table, lock, envVars, infoVars, hVars>>

(* Five seconds later.                                                     *)
BroadcastUnit ==
    /\ wpc = "broadcast"
    /\ wire' = wire \cup {wunit}
    /\ known' = known \cup {wunit}
    /\ wpc' = "idle" /\ wunit' = Genesis
    /\ UNCHANGED <<approves, loaded, made, remote, mine, wtips, poolVars, infoVars, hVars>>

----------------------------------------------------------------------------
(* A handler: Dag::pushUnit, and the rebroadcast of the unit if it returns *)
(* true (the unit is on the wire already).                                 *)

IsStored(u) == u \in Stored(table)

(* The unit is looked up in the database, without a lock; if it is there,  *)
(* pushUnit returns and nothing has changed.                               *)
Receive(h) ==
    /\ hpc[h] = "idle"
    /\ \E u \in wire \cup {Forged} : ~IsStored(u) /\ hunit' = [hunit EXCEPT ![h] = u]
    /\ hpc' = [hpc EXCEPT ![h] = "check"]
    /\ UNCHANGED <<hpos, hseen, syncs, envVars, poolVars, infoVars, wVars>>

RejectedUnverified(u) == u \in Range(tips)
RejectedUnsearched(u) == u = Forged
RejectedOrphan(u) == u = Forged \/ approves[u] \cap Range(tips) = {}
Rejected(u) == u \in Range(tips) \/ u = Forged

(* The unit is looked up in the pool, under the lock; after that, without  *)
(* it, its signature and its proof of work are verified.                   *)
Check(h) ==
    /\ hpc[h] = "check"
    /\ Unlocked
    /\ IF Rejected(hunit[h])
       THEN /\ hpc' = [hpc EXCEPT ![h] = "idle"]
            /\ hunit' = [hunit EXCEPT ![h] = Forged]
       ELSE /\ hpc' = [hpc EXCEPT ![h] = "verified"]
            /\ UNCHANGED hunit
    /\ UNCHANGED <<hpos, hseen, syncs, envVars, poolVars, infoVars, wVars>>

Scan(h) ==
    /\ hpc[h] = "verified"
    /\ Acquire(h)
    /\ hpc' = [hpc EXCEPT ![h] = "scan"]
    /\ UNCHANGED <<hunit, hpos, hseen, syncs, table, tips, envVars, infoVars, wVars>>

(* The tips from the scan index on that the unit at hand approves.         *)
Hits(h) == {i \in hpos[h] .. Len(tips) : tips[i] \in approves[hunit[h]]}

(* The loop of pushUnit up to its next hit: the approved tip goes to the   *)
(* database and is erased, which moves the tips behind it one place        *)
(* forward; then the loop ends if the unit names only one tip, or i++      *)
(* steps over the tip that moved to i.                                     *)
ScanHit(h) ==
    /\ hpc[h] = "scan"
    /\ Hits(h) # {}
    /\ LET i == Min(Hits(h)) IN
          /\ Push(tips[i])
          /\ Erase(i)
          /\ hpos' = [hpos EXCEPT ![h] = IF Cardinality(approves[hunit[h]]) = 1
                                         THEN Len(tips) ELSE i + 1]
    /\ UNCHANGED <<hpc, hunit, hseen, syncs, lock, envVars, infoVars, wVars>>

ScanEnd(h) ==
    /\ hpc[h] = "scan"
    /\ Hits(h) = {}
    /\ lock' = NoOne
    /\ hpc' = [hpc EXCEPT ![h] = "push"]
    /\ hpos' = [hpos EXCEPT ![h] = 1]
    /\ UNCHANGED <<hunit, hseen, syncs, table, tips, envVars, infoVars, wVars>>

PushRemoteTip(h) ==
    /\ hpc[h] = "push"
    /\ Unlocked
    /\ tips' = Append(tips, hunit[h])
    /\ wpc' = Notified(wpc)
    /\ hpc' = [hpc EXCEPT ![h] = "idle"]
    /\ hunit' = [hunit EXCEPT ![h] = Forged]
    /\ UNCHANGED <<wtips, wunit, hpos, hseen, syncs, table, lock, envVars, infoVars>>

(* Dag::getAllUnit: the rows are read without a lock, then the tips under  *)
(* the lock; the peer that asked knows them afterwards.                    *)
GetAllRows(h) ==
    /\ hpc[h] = "idle"
    /\ syncs < MaxSyncs
    /\ syncs' = syncs + 1
    /\ hseen' = [hseen EXCEPT ![h] = Stored(table)]
    /\ hpc' = [hpc EXCEPT ![h] = "tips"]
    /\ UNCHANGED <<hunit, hpos, envVars, poolVars, infoVars, wVars>>

GetAllTips(h) ==
    /\ hpc[h] = "tips"
    /\ Unlocked
    /\ known' = known \cup hseen[h] \cup Range(tips)
    /\ hseen' = [hseen EXCEPT ![h] = {}]
    /\ hpc' = [hpc EXCEPT ![h] = "idle"]
    /\ UNCHANGED <<approves, loaded, made, remote, mine, wire, hunit, hpos, syncs, poolVars, infoVars,
                   wVars>>

----------------------------------------------------------------------------
WorkerStep ==
    \/ TakeInfo \/ SelectTips \/ Wake \/ Pick \/ SelectDone
    \/ PoW \/ PushTip \/ BroadcastUnit

HandlerStep(h) ==
    \/ Check(h) \/ Scan(h) \/ ScanHit(h) \/ ScanEnd(h) \/ PushRemoteTip(h)
    \/ GetAllTips(h)

Next ==
    \/ RemoteUnit \/ PushInfo
    \/ WorkerStep \/ SpuriousWakeup
    \/ \E h \in Handlers : Receive(h) \/ GetAllRows(h) \/ HandlerStep(h)

Spec == Init /\ [][Next]_vars

(* The threads run: a thread that can take its next step and is not kept   *)
(* from it does.  Nobody has to submit, to broadcast or to ask.            *)
Fairness ==
    /\ WF_vars(WorkerStep)
    /\ \A h \in Handlers : WF_vars(HandlerStep(h))

FairSpec == Spec /\ Fairness
----------------------------------------------------------------------------
TypeOK ==
    /\ approves \in [Unit \cup {Forged} -> SUBSET Unit]
    /\ made \in Unit /\ remote \in 0 .. MaxRemote /\ loaded \subseteq Unit
    /\ mine \subseteq Unit /\ wire \subseteq Unit /\ known \subseteq Unit
    /\ table \in Tables(Unit)
    /\ tips \in Seq(Unit)
    /\ lock \in {NoOne, Worker} \cup Handlers
    /\ submitted \in 0 .. MaxInfos /\ infos \in Nat /\ dropped \in Nat
    /\ wpc \in {"idle", "select", "wait", "woken", "pick", "pow", "push", "broadcast"}
    /\ wtips \in Seq(Unit) /\ wunit \in Unit
    /\ hpc \in [Handlers -> {"idle", "check", "verified", "scan", "push", "tips"}]
    /\ hunit \in [Handlers -> Unit \cup {Forged}]
    /\ \A h \in Handlers : hpc[h] \in {"verified", "scan", "push"} => hunit[h] # Forged
    /\ hpos \in [Handlers -> Nat \ {0}]
    /\ hseen \in [Handlers -> SUBSET Unit]
    /\ syncs \in 0 .. MaxSyncs

(* The pool is touched by whoever holds m_tips_pool_lock, and only while   *)
(* it does: the worker in the selection loop, a handler in its scan        *)
(* (dag.cpp:185-206, 132-145).                                             *)
LockOwner ==
    /\ lock = Worker <=> wpc = "pick"
    /\ \A h \in Handlers : lock = h <=> hpc[h] = "scan"

(* Every info submitted is still queued, being worked on, a unit of this   *)
(* node, or was dropped: none is handled twice, none evaporates elsewhere  *)
(* (dag.cpp:61-93, 228-233).                                               *)
Working == IF wpc \in {"select", "wait", "woken", "pick", "pow"} THEN 1 ELSE 0

InfosAccounted ==
    submitted = infos + Working + dropped + Cardinality(mine)

(* Once a unit is held - in the pool or in the database - it stays held:   *)
(* no interleaving of selections, scans and duplicates takes a tip from    *)
(* the pool that did not reach the database (dag.cpp:132-145, 190-205).    *)
NothingForgotten == [][Held \subseteq Held']_vars

(* Units on their way into the pool.                                       *)
Carried == (IF wpc = "push" THEN {wunit} ELSE {})
           \cup {hunit[h] : h \in {g \in Handlers : hpc[g] \in {"scan", "push"}}}

(* What the node holds, or is about to hold, and did not have in its table *)
(* when it started.                                                        *)
Fresh == (Held \cup Carried) \ loaded

(* A unit is put into the database only because this node holds, or is     *)
(* about to hold, a unit that approves it and is not from before the       *)
(* start: approval by a unit that is then thrown away never moves a tip    *)
(* (dag.cpp:61-81, 98-149).  Of the rows a node starts with nothing of     *)
(* that kind is known: their approvers were in a pool that is gone, or in  *)
(* the half of an answer that did not have them.                           *)
ApprovedHere ==
    \A r \in Stored(table) \ loaded :
        \/ wpc \in {"pick", "pow"} /\ r \in Range(wtips)
        \/ \E u \in Fresh : r \in approves[u]

(* A unit made here never reaches the database before the units it         *)
(* approves, whatever the handlers do meanwhile (dag.cpp:66-81).           *)
OwnInOrder ==
    /\ \A u \in mine : approves[u] \subseteq Stored(table)
    /\ \A i, j \in DOMAIN table.rows :
          table.rows[j] \in mine /\ table.rows[i] \in approves[table.rows[j]] => i < j

(* The worker waits for tips in two situations only: a handler is about to *)
(* push one, so that the wait ends; or the node has not had a single unit  *)
(* but the rows it started with, and waits for its peers (dag.cpp:30,      *)
(* 152-154, 185-189).  No notification is lost, and no selection or scan   *)
(* ever leaves a node without tips.                                        *)
WaitJustified ==
    wpc = "wait" =>
        /\ tips = << >>
        /\ (\E h \in Handlers : hpc[h] = "push") \/ Stored(table) = loaded

(* From the first unit on that the node did not start with in its table,   *)
(* it always has something for the next unit to approve: a unit outside    *)
(* the database is in the pool or on its way into it, unless the worker is *)
(* just making one (dag.cpp:98-149, 180-212).                              *)
SomethingToApprove ==
    \/ Fresh = {}
    \/ wpc \in {"pick", "pow"} /\ wtips # << >>
    \/ \E u \in Range(tips) \cup Carried : u \notin Stored(table)

(* pushUnit looks for a unit in the pool in one critical section and adds  *)
(* it in another.  Threads that race may add it several times, but never   *)
(* more often than there are threads: once it is there no look-up passes,  *)
(* and copies that are on their way count (dag.cpp:108-115, 148).          *)
Carriers(u) == Cardinality({h \in Handlers : /\ hpc[h] \in {"verified", "scan", "push"}
                                             /\ hunit[h] = u})

CopiesBounded ==
    \A u \in Unit :
        Copies(tips, u) > 1 => Copies(tips, u) + Carriers(u) <= Cardinality(Handlers)

(* Once the node has a unit it did not start with in its table, the worker *)
(* works its queue off and comes to rest; an info that it waits with since *)
(* before is no exception (dag.cpp:61-93, 180-212).                        *)
Busy == infos > 0 \/ wpc # "idle"

InfosWorkedOff == Busy /\ Fresh # {} ~> ~Busy

(* A genuine unit that a handler starts to check ends up held, by this     *)
(* handler or another (dag.cpp:98-150).                                    *)
ReceivedIsHeld ==
    \A h \in Handlers, u \in Unit :
        hpc[h] = "check" /\ hunit[h] = u ~> u \in Held

----------------------------------------------------------------------------
(* What comments and the README say of the code, and the code does not do. *)

(* dag.cpp:128: "put the corresponding tips into the database" - a unit    *)
(* leaves none of the tips it approves in the pool.                        *)
ApprovedLeavePool ==
    [][\A h \in Handlers :
         ScanEnd(h) => approves[hunit[h]] \cap Range(tips) = {}]_vars

(* README.md:6: the node "packages these data into a unit".                *)
EveryInfoPacked == dropped = 0
=============================================================================

# tinytangle: a verification project

TLA+ models of tinytangle, a node of a tangle (a DAG of transactions) for a
local network, the TLC runs that check them, and TLAPS proofs about them.
The models are translated from the C++ sources; paths below are relative to the
repository, and line numbers are those of `cat -n` (many lines of `dag.cpp`,
`dag.h` and `database.cpp` hold several statements separated by a lone carriage
return, so a whole method may sit on one numbered line). Comments in the code are
Chinese, in GBK; they are quoted here in translation.

## 1. The system

A node is one process. It turns strings (*infos*) into *units*. A unit names one
or two *tips*, older units it thereby approves; it is hashed with a small proof of
work, signed, put into the node's own pool of tips and broadcast. Units of peers
arrive by UDP and, if genuine, enter the pool too. When a tip is approved it moves
from the pool, which is in memory, to the `Unit` table of an SQLite file, where
triggers add the new unit's weight to all of its ancestors.

```
   serial thread      command thread     producer threads
        \  pushInfo       | once, start, pause   / pushInfo after wait_empty
         v                v                     v
      +--------------------------------------------------+
      | Dag::thread_pool_   FIFO queue, ONE worker        |
      +--------------------------------------------------+
                       | creatUnit = selectTips, PoW, sign, pushTip, broadcast
                       v
      tipsPool_ (vector, m_tips_pool_lock, m_tips_pool_cond)
            |  ^                         ^
  selected, |  | new units               | units of peers: pushUnit
  approved  v  |                         |
      dag_db_: table Unit, triggers   +------------------------------------+
            ^                         | servBcast::thread_pool_, TWO workers|
            +---- getAllUnit ---------+------------------------------------+
                                          ^ bcastunit, reqdag, syncDag
                                   servBcast::listen (one thread)
```

### Inventory

| Component | State it keeps | Operations | What makes it correct |
|---|---|---|---|
| `Dag` (`dag.cpp`, `dag.h`) | tips pool, its lock and condition, difficulty, own key | `init`, `creatUnit`, `selectTips`, `pushUnit`, `pushTip`, `getAllUnit`, `pushAllUnit`, `pushInfo`, `getCount` | a unit once held stays held; an info becomes one unit; once it has had a unit that it did not start with in its table, the worker never waits for good; units of this node reach the table after what they approve |
| `DagDatabase` (`database.cpp`) | rows, `weight`, `weight_bk`, `hash_bk`, `repeated_weight` | `push`, `updateWeright`, `pushAllUnit`, `getAllUnit`, `getUnit`, `getCount`, `check_weight` | `weight` counts each later unit that leads to a row once; a failed statement leaves no trace; rows never go |
| `fixed_thread_pool` (`threadpool.hpp`) | queue, start and shutdown flags, three conditions; timers | `start`, `execute`, `wait_empty`, destructor | FIFO, each task once, no lost wake-up, the destructor drains the queue |
| Production control (`dag.h:28`) | `is_producing_`, detached threads | `startProdUnits`, `stopProdUnits`, `mineOnce` | a pause ends every producer thread |
| `cliBcast`, `servBcast` (`Network.h`) | sockets, own address, a pool of two threads | `sync_dag`, `request_dag`, `broadcast_unit`, `listen` | a joining node gets what its peer holds; messages may be lost, repeated, reordered |
| Start-up (`main.cpp`, `database::init`) | the file `tinytangle.db` | create schema, synchronise, genesis unit, key pair | exactly one genesis unit per network; restart keeps what was stored; a node serves with a whole schema or not at all |
| `Consensus` | none | `PoW`, `verifyPoW` | what one makes the other accepts |
| `KeyPairDatabase` | key pairs; balances (unused) | `getNewKeyPair`, `getKeyPair`; `updAccount`, ... | a node keeps its key |
| `serial` | line buffer | `start_read`, `read_thread` | one info per frame, made of the bytes of that frame |
| `Unit`, `Transaction` | the fields of a unit | to and from JSON, rows to and from JSON | copies agree with the original; what is sent on verifies |
| `KeyPair`, `sha256`, `logging`, SQLite, sqlite3pp, jsoncpp | | | cryptography, output, third-party code |

### What is hard about it

* `m_tips_pool_lock` protects each access of the pool, but `pushUnit`,
  `creatUnit` and `getAllUnit` are sequences of several critical sections; the
  table is read outside the lock altogether.
* `selectTips` waits on a condition with an `if`.
* A scan erases from the vector it iterates over.
* Units arrive in any order; ancestors may come after descendants or never.
* The triggers are recursive, reach a row as many times as there are paths to it,
  and are bounded by SQLite's trigger depth; errors of `INSERT` are ignored.
* The pool of tips is lost in a crash while the table is not, and a tip leaves the pool before the unit that approves it is
  made: a node may start with rows and nothing to approve, from its file or from a peer's answer.
* The schema is made in seven statements, each a transaction of its own whose result nobody reads, and a start that
  finds the file makes none of the first three.
* A unit has four forms (object, wire document, row, document of a row) with other keys and other gaps each, and its seals
  are over one of them.
* The reader of the sensors writes into a fixed buffer that it never clears and ignores the result of `read`.
* A node synchronises over UDP with a peer that goes on working: the answer is read in two
  halves, broadcasts go on meanwhile, any datagram may be lost or late, and either process may end.
* The thread pool notifies outside its mutex, and one condition is notified one
  waiter at a time.

`PROJECT.json` lists every such hazard at its line with the properties aimed at it.

## 2. The modules

| Module | Models | State and actions |
|---|---|---|
| `UnitTable` | one `DagDatabase::push` on the table, as pure operators | a table is `[rows, weight, repeated]`; `Ancestry` is what the triggers walk, `QueryRows` what the recursive query of `updateWeright` yields, `Pushed` every outcome of `push`, `Approvers` what `check_weight` looks at |
| `UnitStore` | `DagDatabase` seen from `Dag` | `Push`, `PushAllUnit`, `PushAllUnitThrows` (`DELETE *` cannot be prepared, the exception ends the process), `Restart` |
| `WeightTriggers` | one transaction in detail | `stack` holds the frames of the update triggers, `queue` and `out` the recursive query; `TipReached`, `TipRepeated`, `TipMissing`, `Return`, `TooDeep`, `QueryRow`, ..., `Commit`, `Crash` |
| `Dag` | `Dag` with its worker and the network threads | `wpc` and `hpc[h]` are the places of the worker in `creatUnit` and of a handler in `pushUnit` or `getAllUnit`; one action per critical section or lock-free step, one per turn of a loop that holds the lock |
| `Timers` | the timer threads of `fixed_thread_pool` | `timers_` is the multimap in its order, `tpc[w]` the place of a thread, `nap[w]` what its sleep has left, `apc` the caller of `execute`; one action per critical section, `Tick` for the clock |
| `ThreadPool` | `fixed_thread_pool`, producer threads, the command thread; extends `Timers` | one action per critical section of `mtx_`; notifications outside the mutex are steps of their own |
| `TaskQueue` | what `execute` promises | `Submit`, `Take`, `Finish` |
| `Network` | several nodes: `main` up to `start_listen`, `sync_dag`, `request_dag`, `Dag::pushAllUnit`, `Dag::init`, the listener and its tasks, rebroadcast, the end of a process | `pc[n]` is the place of the main thread, `life[n]` numbers its starts, `wire` holds the datagrams to the listening port, `answers` those to the socket of `cliBcast`; one action per datagram, time-out or step of `main` |
| `UnitFormat` | the forms of a unit and its seals, as pure operators | `to_json`, `Unit`, `Row`, `row_to_json`, `json_to_row`; `Sealed` is what `creatUnit` makes, `genesis` the genesis unit, `Verifies` the two checks of `pushUnit` |
| `NodeFile` | one node and its file through any number of starts; extends `UnitFormat` | `at` is the step of the start, `file` what exists of the file and its schema, `rows`, `key_pairs`; `Make`, `MakeFails`, `MakeThrows` for each of the seven statements, `Crash` between any two steps, `Synchronised`, `Dag_init`, then `creatUnit` and `pushUnit` |
| `Serial` | the reader of sensor frames | one action per byte (`ReadByte`) or failed read (`ReadFails`): `Round` is a turn of the loop |
| `Host` | the process that has both | see below |
| `SequenceFacts` | no code: lemmas about numbers, sums, sequences, and functions defined by recursion | see section 5 |
| `UnitTableProofs`, `UnitStoreProofs`, `WeightTriggersProofs`, `DagProofs`, `NetworkProofs`, `ThreadPoolProofs`, `HostProofs` | the theorems | see section 5 |
| `*MC` | the TLC instances | constants, symmetry; `ThreadPool` and `Host` need none |

How they compose: `WeightTriggers` implements `UnitStore` (refinement
`ImplementsStore`, checked, and proved as `TriggersPush`); `UnitStore` and `Dag` use the same operators of `UnitTable`, so
the table `Dag` pushes to is the one the triggers were shown to implement;
`ThreadPool` implements `TaskQueue`, which is the queue in front of `Dag`'s worker
and of its handlers (in `Dag`, `infos` counts the queued tasks, which differ in
nothing that matters, and the messages that wait for a handler are the units on the wire).
`Network` takes the inside of a node from `Dag` in coarser steps and adds what `Dag` has as
environment: the peers, the start, the end. `NodeFile` looks at one node over its whole life on disk, and at what its units
contain; there the peers are any answer they may give. `Host` puts the reader beside it.

### Correspondences and abstractions

* **Units** are numbers in the order in which they come into being; a hash
  identifies its unit. `approves[u]` is the set of the one or two `tipsHash`
  values. A message whose signature or proof of work is wrong is `Forged`.
* **How a node starts** (`Init` of `Dag`). `Dag::init` makes a genesis unit if there are neither rows nor tips
  (`NothingHere`, `dag.cpp:30`) and starts the worker in any case. Otherwise the node has the rows of its file or those that
  `pushAllUnit` took from a peer, and the tips of a peer or none. The two need not fit: the answer is read in two halves, the peer goes on
  meanwhile, its worker may have every tip selected, and a restarted node has kept rows without tips. So `Init` takes any
  sequence of distinct earlier units for the rows and any sequence of them for the tips, over every DAG of earlier units, with
  the copies a peer's pool may have (`CopiesBounded`). `loaded`, a history variable, remembers the rows of the start.
  The peers may know, and the network may still deliver, every earlier unit; where they know less there are fewer steps. A node
  that has nothing makes a genesis unit of its own, and units over the genesis unit of another node are to it like units whose
  parents never arrive. A table kept over a restart may have larger counts in `repeated_weight`
  than one filled in one go; no step of `Dag` reads that column.
* **The table** keeps rowid order (`rows`), because synchronisation sends rows in
  it. `SELECT * FROM Unit` scans by rowid over the connection the writers use; rows
  are only appended, so what it returns is the table as it stands when the scan
  ends, and reading it is one step.
* **A read of the table** (`getUnit`) goes over the writers' connection and is one
  statement, so it is one step. `pushUnit` for a unit that is stored returns and
  changes nothing; the model leaves that reception out.
* **Rebroadcast.** A handler whose `pushUnit` returned true broadcasts the unit
  again. It is on the wire already, and the wire never forgets: any handler may
  receive any unit broadcast so far, any number of times, in any order, or never.
* **Peers** are the environment: `RemoteUnit` makes a unit that approves one or
  two units peers know. They need not know what this node holds.
* **`random_shuffle`** is a choice of any index of the pool.
* **The loop of the scan** advances to its next hit in one step; it holds the lock
  and the turns in between change nothing.
* **A push inside `Dag`** is the push that neither limit concerns (`PushedInFull`).
  The limits (1000 frames, 1000 rows) are out of reach of a few units; they are
  the subject of `UnitStore` and `WeightTriggers`, whose constants `TriggerDepth` and
  `QueryLimit` make them small. The theorem `PushedWithinLimits` connects the two: where no ancestry
  exceeds either limit, `PushedInFull` is the one outcome of `Pushed`. So `NothingForgotten` of `Dag`
  speaks of nodes whose ancestries stay below the limits;
  `LostOnlyIfDeep` of `UnitStore` says what may be lost beyond.
* **Spurious wake-ups** are allowed by C++ and are switched by `Spurious`.
* **The weight a rollback restores** is all columns at once: SQLite's journal.
* **A node in `Network`.** `pushUnit` and `selectTips` are one step each, the pool and the table are
  sets: `Dag` has the threads, the order and the copies. Kept are the scan that may step over one
  of two tips (`PushUnit` may move a part of the hits), what `selectTips` throws away (`Selection`), and
  `getAllUnit` in two steps (`ReadRows`, `ReplyDag`). `getCount` is one step.
* **Datagrams** in `Network` are sets: unordered, lost at any time (`Lose`), equal ones merge. What
  arrives at a port that is bound is kept by the kernel until it is read, which is what makes the
  synchronisation work: `servBcast` binds in its constructor, long before `start_listen`. An answer
  to a socket that is never read again vanishes. A task and the datagram it was made from are one step.
* **Commands** are datagrams of a user's host. Only the first matters to `Network`, because it may be what the
  listener takes for its own address; the constant `Commands` switches it. "start" and "once" are
  infos (`SelectTips` takes one up whenever it likes), "quit" is an end of the process (`Crash`).
* **A genesis unit** is unit `k` if the `k`-th start makes it: two nodes that begin alone make different ones.
* **History variables** of `Network`: `source[n]` is the peer, and its start, that a node with an empty
  table got its units from; `missed[n]` collects the units on which the network or the code's known
  weak spots cost a node: a lost datagram, one the address filter dropped, a unit that moved between the
  halves of an answer. No action looks at them.
* **Timers.** A clock is kept as the time left; `Tick` lets it run down, and a clock that has passed is zero. `Tick` may happen
  at any time, so a thread may be late by any time, as a scheduler may let it be. A sleep begins when its length is computed. Tasks that are due at one and
  the same millisecond keep the order in which their clocks were read; the multimap keeps that in which they were inserted, which
  differs only by callers that race. `execute` reads the clock before it takes the mutex: the task is in `timers_` with `in = FALSE`
  meanwhile, and `Queued` are those that are in. `name` is never read.
* **One kind of thread in a pool.** Workers and timers have separate queues, mutexes and conditions, and share the
  thread that constructs and destroys the pool. `Init` gives a pool the one or the other; the states of a pool with both are the pairs. The program
  itself makes pools of workers; timers are the pool's second service, which `execute` with an interval offers.
* **Content of a unit.** A field holds the name of the unit whose maker put something there, or `Null` (empty, zero), or `Unset` (never initialised).
  A digest is the document it was made of: two documents have the same digest if and only if they are equal, and a signature
  verifies if and only if it covers the document it comes with. The key that signs is not distinguished. `PoW` chooses a nonce that meets the target: the
  model has one such nonce per unit.
* **The file.** `sqlite3pp` throws when a statement cannot be prepared (a table that is missing) and returns a code when it cannot be executed
  (a full disk); the code reads no code. `MakeFails` is the second, for up to `MaxFailed` statements in a start. A crash inside a statement is one before or
  after it: each is a transaction.
* **The reader.** The header `rf_rx_data` and a `=` are one byte each, the buffer has `N` cells instead of 1024. The buffer is uninitialised: it may hold any
  one byte in all cells. A failed read leaves the cell as it was; `unread` records it, since the code cannot tell.
* **Node and reader in `Host`.** The reader hands infos to `pushInfo`, which queues a task; `creatUnit` in `NodeFile` may happen at any time. Neither reads the
  other's variables, so `Host` explores the reader on a node that has just come up, instead of every pair of states.
* **What "push" may do to repeated_weight** where the `LIMIT` cuts inside a
  distance depends on the join order of SQLite, so any choice of rows is allowed.

## 3. The runs

Passing runs:

| Run | Instance | Shows |
|---|---|---|
| `unit_store` | every DAG of 4 units, 5 pushes, a LIMIT that the diamond exceeds and a depth that the longest chain exceeds | `WeightMeaning`: the weight of a row is its own self weight and that of every unit stored later that led to it when it was stored. `WeightChecked`: never more than `check_weight` finds, and the same if parents came first. `RepeatedAgrees`: where no limit cuts, triggers and query compute one number. `RepeatedFallsShort`: otherwise the query only undercounts. `OnlyGrows`: no failure or restart removes or reorders a row or lowers a weight. `LostOnlyIfDeep`: a push after which its unit is not stored is one of a unit that begins a chain of `TriggerDepth` units, each approving the next |
| `weight_triggers` | the same DAGs and limits, tips in either order, crashes | `CreditedOnce` in the middle of every walk, and `ImplementsStore` |
| `dag_safety` | 2 handlers, 2 infos, the genesis unit and up to 1 more made before the start (any of them in the table in any order, any up to 2 tips), 1 unit made by a peer after it, spurious wake-ups; 39 initial states, about 3.5 million states | the properties of `Dag` below, from whatever a first start, a restart or an answer may leave |
| `dag_live` | 2 handlers, 2 infos, the same starts, the earlier unit as the one peers may broadcast, 1 synchronisation, fair threads; about 100 thousand states | `InfosWorkedOff`: once the node has a unit that it did not start with in its table, the queue is worked off, also an info the worker has waited with before. `ReceivedIsHeld`: a genuine unit a handler starts to check ends up held |
| `network` | 2 nodes, 3 starts, 2 infos, losses and crashes; about 700 thousand states | `JoinerHolds`: as long as the peer a node joined from lives, the node holds what the peer holds, or it is on its way, or about to be broadcast, or in `missed`. `StoredForGood`: no synchronisation takes a row away |
| `network_live` | the same with 1 info, a first command, fair threads | `GossipEnds`: rebroadcasting dies out. `BootEnds`: a start ends in a listening node or an ended process |
| `network_three` | 3 nodes, 3 starts, no infos, fair threads | `BootEnds` where a joiner hears two peers and the count of one comes too late (`HeadError`) |
| `pool` | 1 or 2 workers, 2 producers, 3 task names, or 1 or 2 timer threads and 2 timed tasks with intervals of 1 or 2; spurious wake-ups, the destructor; about 40 thousand states | `QueuedTasksCovered`: no lost wake-up. `EmptyWaitJustified`: no producer sleeps with nobody left to wake it. `ImplementsFairQueue`: a FIFO queue, each task taken once and by one worker, none waits for ever. `ProducersEnd`: after a pause that stays, every producer thread ends. `SleepsForATask`: no timer thread sleeps past the clock of a task that is still queued. `EveryTaskFires`: every timed task is run. `DrainsOnShutdown`: of both queues, but for cycles |
| `host` | 1 own unit, 2 of peers and the genesis unit, 2 key names, 1 failing statement per start, any number of starts and crashes; a buffer of 4 cells, lines up to 5 bytes; about 215 thousand states; deadlock is checked | `ServesWhole`: a node that serves has both tables, the triggers that did not fail in this very start, and a key. `KeyForGood`: a stored key pair is the node's for ever. `CopiesSound`: every copy agrees with the original in every stored field. `BroadcastVerifies`: what is sent verifies at every other node. `FramesAreLines`: an info is made of the bytes of its own line |

The safety properties of `Dag`:

* `NothingForgotten` - a unit in the pool or in the table stays in one of them.
* `InfosAccounted` - each info is queued, in work, a unit, or dropped; none twice.
* `ApprovedHere` - a row that was not there when the node started is in the table only because the
  node holds, or is about to hold, a unit that approves it and was not among those rows either, or because the worker has just selected it
  (a selection that leads to nothing stores nothing). Rows the node started with are left out: their approvers may have been in a
  pool that is gone, or in the half of an answer that did not have them.
* `OwnInOrder` - a unit made here is stored after everything it approves.
* `WaitJustified` - if the worker waits, the pool is empty, and a handler is about to
  push a tip and notify, or the table is still exactly what the node started with.
* `SomethingToApprove` - from the first unit on that the node holds or carries and did not start with in its table (`Fresh`),
  there is always a unit outside the table in the pool or on its way into it, or the worker is approving one.
* `CopiesBounded` - a tip that is in the pool more than once is there at most once per
  network thread, those still on their way included.
* `TypeOK`. (`LockOwner`, that only the holder of the lock is inside a selection or a scan, is proved and not in a run.)

`ApprovedHere`, `WaitJustified`, `SomethingToApprove` and `InfosWorkedOff` have the condition they have because of `dag.cpp:30`: a node that starts with rows and no tips has nothing to
approve, and its worker waits with the first info until a peer broadcasts a unit, for good if none does (although `dag.cpp:228` says "start the
thread pool, allow new units to be produced"). A restart leads there, as the pool is only in memory, and so does an answer a peer gives
while its worker has every tip selected. What the properties say is that this is the only way to run dry, and that the first new unit ends it.

Violation runs. Each checks one statement the repository makes about itself and
finds a behaviour of the code that contradicts it:

| Run | Statement | What happens |
|---|---|---|
| `dag_approved_stay` | `dag.cpp:128` "put the corresponding tips into the database" | `erase` and `i++` step over the neighbour |
| `network_genesis` | `Network.h:179` "no other nodes. start to initialize dag...", `main.cpp:114` "get all units" | the peer's only unit moves to the table between the two halves of its answer, both are empty, and the node that joins makes a second genesis unit |
| `dag_dropped` | `README.md:6` "packages these data into a unit" | the `if` around `wait`: the worker returns to an empty pool, the info is lost |

More differences between comments and code are consequences of the modelled steps and
have no run of their own. A child stored before its parent never adds its weight to it, so
`weight` is less than the sum `check_weight` selects to "check that weight is correct"
(`database.cpp:401`): `WeightChecked` says when they agree. Two handlers that check (`dag.cpp:108`) and then add one unit
put it into the pool twice: `CopiesBounded` says how far that goes. A unit that moves from the pool to the
table between the two look-ups of `pushUnit` (`dag.cpp:104`, `dag.cpp:109`) comes back as a *ghost*, a tip that
is stored; `verifyTip` keeps the worker from approving ghosts, the scan of `pushUnit` has no such
test and pushes a ghost again, which is why `RepeatedAgrees` speaks of tables where each push added a
row. And a producer that waits in `wait_empty` while the user pauses pushes one more info
(`dag.h:28` reads the flag before the wait only): `ProducersEnd` says that it stops after that. A unit whose ancestry is
deeper than the triggers may go is lost: `dag.h:56` says "put the selected tips into the database", the INSERT is undone, `push` ignores it
(`database.cpp:440`) and the caller erases the tip. `LostOnlyIfDeep` says that no other unit is.

Three more are weaknesses that no comment speaks of. A crash between two statements of `database::init` leaves a file in which the missing table or index is never made
again (`database.cpp:37`): without a table every later start ends in an exception, without the index the node works slowly; `ServesWhole` says that it never
serves with less than what it needs. A received unit has no transaction time (`transaction.cpp:38` declares a local `timestamp_` that hides the member), so that a node's
own copy of it would not verify; what it sends on is the document that came (`Network.h:364`), which `BroadcastVerifies` is about. And when the port of the sensors is
hung up, `select` returns at once and `read` returns nothing: each stale cell of the buffer counts as a byte read, down to the newline of the last frame, which is
pushed over and over. `FramesAreLines` therefore speaks of lines whose reads succeeded.

### Bounds and why they are enough

* Four units (`UnitStore`, `WeightTriggers`): the first size with a diamond, a
  triangle with a tail, and an orphan with two missing parents; self weights 0, 1
  and 2 so that sums tell units apart. `QueryLimit` 3 and `TriggerDepth` 4 stand for 1000: the
  limits are hit by the largest shapes and by no other. Five pushes let a unit be pushed again. The
  proofs hold for every DAG, limit, depth and number of pushes.
* Two handlers (`Dag`): the number of threads in `servBcast`, not a bound. One
  worker: likewise.
* `MaxInfos`, `MaxRemote` up to 2 or 3: two infos let the worker find what its first
  unit left behind; two units of peers, in `dag_safety` one made before the start and one after it, give a child before its parent, and with
  the genesis unit two neighbours in the pool. `MaxEarlier` 1 and `MaxFound` 2: rows without tips, tips without rows, a child in the table without its parent
  or the parent without the child, tips that are rows, and the same tip twice. In `dag_live` no unit is made by a peer after the start; the earlier one, which may arrive at any
  time and more than once, takes its place. The violation runs start from the genesis unit only. What the bounds leave open is
  covered by the proofs, which hold for every number of handlers, infos, units and
  synchronisations, and for every table and pool of the start.
* Two nodes (`Network`): one that joins and one it joins from, in both roles by turns; three starts
  let either of them restart with rows in its table while the other runs, and with the table of one longer than
  that of the other (`RequestThrows`). Two infos put a unit into the table and another into the pool. Three nodes are the
  first network in which a joiner gets two counts. The proofs hold for any
  number of nodes, starts and infos.
* `Timers`: two threads and two tasks let a task arrive with an earlier clock than the one slept for, a cycle be put back while the other
  thread looks, and a notification find one thread waiting and one asleep. Intervals of 1 and 2 order clocks in every way, equal ones among them.
* `Host`: one own and two foreign units give a synchronisation rows and tips, the genesis unit as well. `MaxFailed` 1: one failure is enough to be noticed by a later statement.
  Four cells are the smallest buffer that holds header, `=`, a byte of data and the terminator; five bytes in a line overrun it. The proofs hold for every size.
* `Tasks` (`ThreadPool`) are names of tasks in flight, reused after a task ends, so
  behaviours are unbounded; three names keep a worker and the queue busy. `execute`
  leaves a name for each producer, so that the bound blocks no thread. The program has pools of one worker
  (`Dag`) and of two (`servBcast`); both are initial states.

Deadlock is not checked where the system may rest: a node with no infos and no
messages, a pool whose workers wait, a network with no starts left.

### Fairness

`Dag`: weak fairness of the worker and of each handler inside an operation. A step
that needs the lock is enabled whenever the lock is free; a section that is
entered always ends, as the loops of `Pick` and `ScanHit` shorten the pool or advance. Nobody
has to submit, to broadcast, or to ask; receiving is not fair, so messages may be
lost. Weak fairness is enough in the checked instance since every competitor for the
lock runs out of work. `SpuriousWakeup` is never fair and is off in `dag_live`. Receiving not being fair is why `InfosWorkedOff` needs a unit that
has come: a node that starts with rows only may wait for one for ever.
`Network`: weak fairness of the main thread of each node up to `start_listen` (both waits for answers are
`select` calls with a time-out, so there is always a step), of its listener, of an answer in the making and
of the worker inside `creatUnit`. Nobody has to start or end a process, to lose a datagram, or to submit an info.
`ThreadPool`: weak fairness of every thread that is not blocked, including the ones
that have a notification left to send; calls of `execute`, commands and `Shutdown` are
not fair. `ImplementsFairQueue` derives the fairness of `TaskQueue` from that. `Timers`: weak fairness of each thread, of the
clock, and of the caller that is inside `execute` or the destructor; nobody has to add a task. A task that runs ends (`TimerFinish` is part of `TimerStep`): the code
runs it on the timer thread, and one that never ends takes the thread with it.

## 4. Mutants

Each property is accompanied in `PROJECT.json` by a small change of a modelled
definition that breaks it - the bug the property is there to catch: `OneIsNotEnough` (a unit with
one tip is not made although its tip is stored already), `EraseNext` (an off-by-one in the erased
index), `NotNotified` (no notification), `PassedStale` (`weight_bk` read before it
is written, the order the comment at `database.cpp:386` warns of), `BoundListening` (the socket bound only
when the node starts to listen), `KnownStored` (a received unit searched in the table only), `EraseByClock` (a timed task erased by its
clock, with whatever else has that clock), `RelayedCopy` (the own copy of a unit sent on instead of the document that came), `KeyOfUnit` (the
keys of the wire read from the document of a row), `Unterminated` (no zero behind a frame), and so on. They are written next to
the definition they change and are used nowhere else.

## 5. The proofs

`DagProofs` proves, for all values of the constants that satisfy `DagAssumption`
(any finite set of handlers; any number of infos, units and synchronisations; any number of earlier units, and of
them any rows and any tips to start with; spurious wake-ups or not):

| Theorem | Property |
|---|---|
| `TypeCorrect` | `Spec => []TypeOK` |
| `PoolExclusive` | `Spec => []LockOwner` |
| `InfosNeverLost` | `Spec => []InfosAccounted` |
| `NeverForgets` | `Spec => NothingForgotten` |
| `OnlyApprovedStored` | `Spec => []ApprovedHere` |
| `OwnUnitsInOrder` | `Spec => []OwnInOrder` |
| `NeverOutOfTips` | `Spec => []SomethingToApprove` |
| `NoLostWakeup` | `Spec => []WaitJustified` |
| `CopiesPerThread` | `Spec => []CopiesBounded` |

The argument has two layers.

1. `Basic` is `TypeOK`, `LockOwner`, `InfosAccounted` and `NumbersAccounted` (each number is that of an earlier unit, of a peer's or of one made
   here, so that the account of the infos leaves one for the next unit); it is inductive as it stands
   (`TypeStep`, `LockStep`, `AccountStep`, `NumberStep`, `BasicNext`). `InitFacts` collects what `Init` gives, whatever the past was, with
   `LoadedInFullStores` for the table (an induction over the rows). `TypeOK` includes that a handler
   past its checks never has a forged message at hand.
2. `IInv` adds `Causal` - a unit is younger than what it approves, and nothing is stored,
   in the pool, on the wire or at hand that has not been made -, `NewAtHand` - the rows of the start are still there, and what a thread
   is about to put into the pool is none of them, because `pushUnit` looked - and
   `ApprovedHere` and `OwnInOrder`. `Causal` is why `SomethingToApprove` holds: among the
   units that are new to the node (`Fresh`) the youngest is approved by none of them, so by
   `ApprovedHere` it is not stored, so it is in the pool or on its way
   (`YoungestIsOpen`). `WaitJustified` is then the case of an empty pool; if nothing is new, the table is what it was at the start.

`NeverForgets` needs no more than `Basic`: a tip leaves the pool only in `Pick` and
`ScanHit`, and both push it in the same critical section unless `verifyTip` found it stored.

`CopiesPerThread` needs two more invariants on top of `IInv`. `Private` says that the unit the worker is about to push is nowhere else yet: nobody
has received it. `CopiesAccounted` says that a unit either is in the pool at most once with no copy on its way, or has no more copies, in the
pool and on their way together, than there are handlers. The step from the first to the second is a handler that
passes its look-up: it does so only while the pool has no copy, so each copy is a handler of its own, and the bound is a count of handlers (`CopiesFinite`).
A copy that is pushed moves from one side of the sum to the other, and the sum never grows while the pool has the unit.
`UnitTableProofs` has the facts about sequences, sums and the table
(`RemoveAtRange`, `PushedInFullRows`, ...) the steps rest on.

`NetworkProofs` proves, for any set of nodes and any number of starts and infos (`NetworkAssumption`):

| Theorem | Property |
|---|---|
| `TypeCorrect` | `Spec => []TypeOK` |
| `JoinerKeepsUp` | `Spec => []JoinerHolds` |
| `RowsStay` | `Spec => StoredForGood` |

`JoinerHolds` is not inductive: before a node has joined it says nothing. `IInv` adds the two stages
before. `ReadingHolds`: while a peer makes its answer, its table is in the rows it read, up to `missed`.
`AnswerHolds`: while the answer travels, what the peer holds is in the answer, or on its way to the
joiner's bound port, or about to be broadcast, or missed. `Numbered` (whatever carries the number of a start comes from a start
that was) keeps answers of an earlier start of a peer apart from its present one, and `Phases` (only a
node that is up answers; one that asks has an empty pool) keeps a peer from changing in any way but
by making or receiving units. Most actions keep all three for one reason, which is stated once: `Unbroken` says that a step takes
nothing from a node that runs on, and that what a peer gains is about to be broadcast or on
its way to everyone bound (`UnbrokenStep`); `ReadingKept`, `AnswerKept`, `JoinerKept` draw the conclusions. What is left are
the three steps that pass from one stage to the next (`ReadingStep`, `AnswerStep`, `JoinerStep`).
`RowsStay` rests on `pushAllUnit`: where it would delete rows it throws instead, and elsewhere it replaces an empty table.

`ThreadPoolProofs` proves, for any sets of workers, producers, timers and tasks and any longest interval
(`PoolAssumption`, `TimersAssumption`; workers and producers are finite, since `QueuedTasksCovered` counts them):

| Theorem | Property |
|---|---|
| `PoolTypes` | `Spec => []TypeOK` |
| `NoLostWakeup` | `Spec => []QueuedTasksCovered` |
| `ProducersAreWoken` | `Spec => []EmptyWaitJustified` |
| `NapsEndInTime` | `Spec => []SleepsForATask` |
| `TasksInOrder` | `Spec => ImplementsQueue` |

`WorkersInv` and `TimersInv` are inductive separately, because a step changes the variables of one half only. `WorkersInv` is
`WorkersTypeOK`, `WorkersCovered`, `EmptyWaitJustified` and `WorkersOrder`, which ties the places of the threads to the flags and to each other (a worker has a task exactly while it runs
one, waits for tasks only after the start and leaves only after the shutdown; the destructor finds no producers; whoever has queued a task has workers). `WorkersCovered` is a count, and its proof goes step by step over how a step changes the number of
threads that are going to look. In `TimersInv` the point of `SleepsForATask` is that the task a thread sleeps for stays queued until it is due: a task is erased only at time zero,
and `Tick` takes the same from the nap and from the clock. `TasksInOrder` is a refinement under which every step is a step of
`TaskQueue` or a stutter.

`HostProofs` proves, for any units, keys and number of failing statements, and any size of the buffer and length of lines:

| Theorem | Property |
|---|---|
| `HostTypes` | `Spec => []TypeOK` |
| `ServesOnlyWhole` | `Spec => []ServesWhole` |
| `CopiesAgree` | `Spec => []CopiesSound` |
| `SendsVerify` | `Spec => []BroadcastVerifies` |
| `IdentityKept` | `Spec => KeyForGood` |
| `FramesWhole` | `Spec => []FramesAreLines` |

For the node, `NodeInv` adds `Schema` (past the first trigger there is table `Unit`; a trigger whose step is past is in the file or failed in this start; a node that is up has table
`key_pairs`) and `KeyInUse` (only a node that is up has a key, and it is the first that is stored if any is). `CopiesSound` follows from the type of
`rows` and `tipsPool_`: both hold only copies that the conversions make, and a row made of the document of a row is the row itself. For the reader, `SerialInv`
says what the buffer holds of the line so far: its first bytes in the cells before `nRead`, as long as none of its reads failed (`LineKept`). The rest is the string in a buffer
with a zero at a known cell (`EndsAt`, `StringForm`, `StringAgrees`): it does not depend on the cells behind it.

`UnitStoreProofs` proves, for any set of units, self weights, limit of the query, depth of the triggers and number of pushes (`StoreAssumption`), and every DAG of units with one or two older tips:

| Theorem | Property |
|---|---|
| `StoreTypes` | `Spec => []TypeOK` |
| `WeightsMean` | `Spec => []WeightMeaning` |
| `WeightsChecked` | `Spec => []WeightChecked` |
| `CountsAgree` | `Spec => []RepeatedAgrees` |
| `QueryFallsShort` | `Spec => []RepeatedFallsShort` |
| `StoreOnlyGrows` | `Spec => OnlyGrows` |
| `LostIfDeep` | `Spec => LostOnlyIfDeep` |

None of the invariants is inductive alone. `IInv` is `TypeOK` and `Sound(approves, table, pushes)`: no unit is stored twice, a unit that is not stored has no weight (`Blank`; without it a
unit would come with what it got before), the table has at most as many rows as there were pushes, and `Means`, `Checked`, `Repeats`, which are the properties with
the table as a parameter. The parameter is needed because `PushAllUnit` makes many pushes in one step: `LoadedSound` goes through the tables in between, `PushSound` through one push.
The step of `WeightMeaning` is where two descriptions of one walk meet: the code goes from tip to tip, the property speaks of the least set of places closed under approval.
`LedByLast` says that the row just appended leads to a row exactly if that row is in its `Ancestry`, and that what older rows lead to stays as it was; then each sum either gains one term or none (`AppendMeans`).
`WeightChecked` compares that with the sum over all that approve a row in the table as it is now: parents that came late make the latter larger, and only they (`AppendChecked`).
`Repeats` compares the two counts; a push that adds no row makes the query count again, so `Sound` says it only where every push added a row.
`LostIfDeep` turns a walk of the triggers that is too long into a chain of units (`HopsChain`).

`WeightTriggersProofs` proves, with the same generality (`TriggerAssumption`):

| Theorem | Property |
|---|---|
| `TriggersTypes` | `Spec => []TypeOK` |
| `OnceCredited` | `Spec => []CreditedOnce` |
| `TriggersPush` | `Spec => ImplementsStore` |

`WInv`, which TLC also found invariant on the instance of `weight_triggers`, says where in the code's work the transaction is:

* At the INSERT of the n-th unit the table is one that the abstract pushes of the n - 1 units before may leave (`Turn`).
* While the triggers run (`Walk`), the frames are a walk from the new unit, frame k at a row k - 1 hops away (`Frames`); a row has got the weight exactly if `hash_bk` marks it (`Counted`);
  and each stored tip of a marked row is marked or still to come in some frame (`Marks`). The last is the invariant of a depth-first search. `WalkStarts`, `WalkReaches`, `WalkSkips` and `WalkReturns` keep it; when
  the stack is empty, the marked rows are closed under approval, so they are the ancestry (`WalkEnds`). When a frame too many is wanted, the walk itself is the long one
  that `MaybeTooDeep` asks for (`WalkTooDeep`). A walk that ends stayed within the depth, so it was not certain to exceed it, which is `~SurelyTooDeep`.
* While the query runs (`Asking`), what it yielded and what waits in its queue are a breadth-first prefix of the ancestry: the head of the queue is n hops away, its tail n or n + 1, and everything nearer has been yielded
  (`Breadth`, `Level`; `AskingStarts`, `AskingGoesOn`). Where the LIMIT ends it, it ends inside one distance, which is what `QueryRows` allows (`AskingEnds`).
* At the commit the table is an outcome of all the pushes.

`CreditedOnce` is `Walk` read for one row. For the refinement (`StepPushes`), the commit of one unit is `Push` and that of several is `PushAllUnit` on an empty table (`CommitPushes`); every other step,
a crash in the middle included, leaves `begun`, which is the table `UnitStore` sees, as it is. What `UnitStoreProofs` proves thus holds of what the transactions commit, whatever interrupts them.

`UnitTableProofs` has what these rest on: the walks of n hops and their ends (`HopsSteps`, `WithinSteps`, `HopsAreChains`), the ancestry as the least set that is closed (`AncestryClosed`, `AncestryLeast`), what `Pushed`
may yield, by cases (`PushedShape`), and `PushedWithinLimits`, the theorem that lets `Dag` go on with one outcome of a push.

`SequenceFacts` has the facts about the least of a set of numbers, the greatest of an interval, what `Append`, `RemoveAt` and `InsertAt` do to the places of a sequence, and sums. The prover cannot use
the library's induction theorems, whose hypothesis is an operator; the inductions here are over sets instead. `AllNaturals` takes the least number outside a set, `AllSubsets` goes by the number of elements of a subset of a finite
set, and `Recursion` gives a function on the naturals by its first value and a function for the step. From them follow that a sum does not depend on the order in which
`MapThenSumSet` folds (`SumIsSumOver`, `SumOfOneMore`, `SumOfSome`), that walks are what their recursive definition says, and that the
tables of the pushes in turn exist (`InTurnExists`, `InTurnInFullExists`).

Every safety invariant and every action property of the passing runs is the statement of a theorem, and so is the safety of both refinements. Only model-checked are the temporal properties under fairness, which are out of the prover's
reach: `InfosWorkedOff`, `ReceivedIsHeld`, `GossipEnds`, `BootEnds`, `ProducersEnd`, `DrainsOnShutdown`, `EveryTaskFires`, and the fairness part of `ImplementsFairQueue`.

## 6. What is not modelled, and what is left

Not modelled, with the reason:

* `updAccount`, `expenses`, `income` (`database.cpp:584-659`): nothing calls them, and `isGenesis`, which they ask first, ends without a return value for any ordinary
  address, so that the behaviour of what follows is undefined.
* `createGenesisUnit`, `getLastUnit`, `getBalance`, `test` code and what is commented out: never executed.
* Cryptography: hashes and signatures are ideal. The encoding of keys and addresses is not modelled, and neither is the width of the fields of a
  unit (`getAllUnit` and `pushAllUnit` take nonces for signed 32-bit numbers).
* `serial_init` and `write_data`, which set up the device and write to it; logging; the text of messages.
* SQLite, sqlite3pp and jsoncpp, which are vendored and make up nine tenths of the lines of the repository. The models
  contain what the program gets from them and nothing of their insides.

What could be added: a finer synchronisation (`getCount` in two steps, the address filter that hits another node as a property of its own), and a theorem that
joins `Dag` and `UnitStore`: that `NothingForgotten` holds with `Pushed` in place of `PushedInFull`, but for the units that `LostOnlyIfDeep` names.

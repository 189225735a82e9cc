# padis: models, checks and proofs

padis is a sharded Redis service for Java. An *instance* is spread over 1024
slots, every slot belongs to a *group* (a Redis master and its slave), and
ZooKeeper holds who owns what. Clients route each command by their own cache of
the slots. The administration server moves slots between groups while the
clients go on reading and writing. This directory holds TLA+ modules of the
parts where the order of events matters, TLC configurations that check them on
small instances, and theorems that TLAPS proves for all of them.

    tlc -workers 2 -config protocol.cfg MCSlotMigration    # a run
    tlapm SlotMigrationProofs.tla                          # the proofs of a module

Line numbers below are those of the source files; `PROJECT.json` maps every
definition to the lines it stands for.

## 1. Inventory

### padis-admin

**Migration task** (`migrate/MigrateTask.java`,
`migrate/DistributeCountDown.java`). One task per instance, which takes its
slots one after the other through PRE_MIGRATE, MIGRATE and ONLINE. State: the
range, the slot and the record in hand, and a barrier: a set of client nodes it
waits for and a `CountDownLatch`. Two threads share the barrier without a lock,
the task (`fresh`, `await`) and the TreeCache listener (`dataChanged`).
It calls ZooKeeper (slots, records, clients) and Redis (KEYS, MIGRATE, PING).
*Hard:* late and lost acknowledgements, clients that come, go or expire during
a barrier, time-outs whose result is ignored, failures half way, the race on
the unsynchronised `HashSet`.
*Correct when:* no client still thinks the slot online when its keys move, every
client knows the new owner when the task is done with the slot, a slot changes
hands only out of MIGRATE, a half migrated slot keeps its record, tasks end.

**Migration records** (`service/MigrateService.java`). One record
`/migrate/X/s` for each slot to be moved, written in parallel chunks of ten,
updated and deleted by the task, deleted by the administrator. The source group
that a record names is read from the slot's node before the record is written,
in two calls. *Hard:* a call that stalls between the two, writes and deletes that
`RegExceptionHandler` lets go lost. *Correct when:* a task works on its own
records and a refused call leaves none behind.

**Acceptance of migrations** (`controller/MigrateController.java`,
`migrate/MigrateTaskManager.java`). `addTask` looks at the task map, answers,
and leaves the rest to the Spring `ThreadPoolTaskExecutor` (5 threads, at most
50, queue of 1000: `applicationContext.xml:64`). The never ending
ManageThread and every task run on the same executor. State: the task map, the
flags `run` and `isFinished`, threads and queue of the executor. *Hard:*
check-then-act between two calls, rejection after a flag is set, a restart that
forgets everything but the records. *Correct when:* an instance has at most one
task, and is free again afterwards, and no job waits for ever.

**Distribution of slots** (`controller/SlotController.java`,
`service/InstanceService.java`). The first owners of an instance's slots:
`distSlots` looks whether the instance exists, cuts the rows of the request into
chunks of 200 slots and hands each to the same executor. State: the nodes of the
slots, the jobs. *Hard:* check-then-act between two calls, a rejected, lost or
dying chunk behind others that have gone, rows out of range found half way,
chunks beside a migration of a slot that is there already. *Correct when:* a call
that is alone gives each slot a group it asks for, a slot that has migrated is
not taken back, and a call ends.

**Groups** (`controller/GroupController.java`), **throttle edits**
(`controller/CustomController.java`), **log-in** (`LoginController`,
`WwwAuthFilter`, `UMService`). Web handlers over ZooKeeper nodes.

**Web console** (`webapp/app.js`, `webapp/js/**`, on vendored AngularJS). Pages
that list groups, slots, clients and migrations, all in the table of
`js/services/baseTableSrv.js`, and dialogs that ask the server. State of the
table: query, page, rows per page, indexes, which watchers keep together; of the
distribution page: its alert. *Hard:* watchers that make each other dirty and
outlive the table they were made for; an alert shown before the answer; answers
in another order than the clicks. *Correct when:* after each digest the rows are
those of the page the user is on, and a failure is not shown as success.

### padis-client

**Slot cache** (`core/ClusterInfoCacheManager.java`,
`slot/SlotListenerManager.java`, `slot/SlotService.java`). `init()` starts the
listeners, reads all slots and stores them; from then on a TreeCache listener
stores what changes and acknowledges PRE_MIGRATE and ONLINE by rewriting the
client's own node. *Hard:* the load and the listener write the same map;
NODE_ADDED is ignored; an event may come after the state has changed twice.
*Correct when:* the cache converges to ZooKeeper and is never ahead of its
acknowledgement.

**Registration and throttle** (`custom/*`). An ephemeral sequential node per
client, which carries its limit; the administrator edits it, the
acknowledgements rewrite it, and it dies with the session. *Hard:* two listeners
set the copy that commands look at (`atomicCustom`), from contents of different
age. *Correct when:* commands are limited as the node says once nothing is on
its way.

**Commands** (`core/JedisClientCommand.java`, `JedisDirectClient.java`). A
command looks its slot up once, is refused when it writes in PRE_MIGRATE, moves
its key first in MIGRATE, and then runs on a leased connection. *Correct when:*
no write is lost, no old value is read, a key lives on one group.

**Pools and groups** (`core/JedisClientPoolManager.java`, `group/*`). One bounded
pool per master, filled on demand; the groups are read once, at the start. A
command in MIGRATE leases of two pools, one after the other. *Hard:* exceptions
between lease and release, threads that wait for each other's pools. *Correct
when:* each connection returns to its pool, and a full pool is not full for ever.

**Construction** (`JedisxFactory.java`): one client per instance, on which
`init()` is called a second time. **Monitor** (`monitor/*`, interceptors
of JDBC for CAT).

### padis-metrics

**Ring buffer, consumer, workers** (`RingBuffer`, `ProducerAgent`,
`ConsumerAgent`, `SendAgentGroup`). Any thread logs into a ring without a lock;
one consumer takes batches and spreads them over bounded queues of workers.
*Hard:* check-then-increment, positions handed out before they are written, an
index moved before there is data, full queues. *Correct when:* the lag is
bounded, positions are taken in order and in the end, what is found is what was
logged, and loss is told.

**Storages and pool** (`RandomStorage`, `RoundRobinStorage`, `AbstractStorage`,
`InfluxdbPool`). Each worker tries a batch up to three times, on a server that
a random number or a counter chooses, with a client of that server's pool: a
lock, a condition, a free list and a set of leased clients. *Hard:* a signal to
a thread whose deadline has just passed, a server that does not answer while
the lock is held, an index computed with `&`. *Correct when:* every client is
free or lent to one thread, who waits gets an answer, and a batch is lost only
for a reason.

### padis-common, padis-cluster, others

ZooKeeper access (`ZookeeperRegistryCenter`, `NodeStorage`,
`AbstractNodeListener`, `RegExceptionHandler`: connection loss, no node and node
exists are ignored), `CRC16Utils`; a thin wrapper of the Redis Cluster client; a
demo.

## 2. Modules

| module | models | state and actions |
|---|---|---|
| `SlotMigration` | task, barrier, ZooKeeper, slot caches | `pc` is the place of the task's thread; `second` an addTask in flight beside the task; `latch`, `nodeSet`, `toAdd` the barrier; `adminWatch`, `upd`, `gone` the TreeCache behind it; `loadStep`, `watch`, `queued`, `acking`, `slotMap` a client |
| `TwoListeners` | clients that a `JedisxFactory` has initialised twice | extends the above: `inits`; `watch2`, `queued2`, `acking2` of the second listener, which shares `slotMap` and the client's node with the first |
| `MigrationData` | Redis groups, key loop, commands | extends the above: `db`, `todo`, `cmd`; `ListKeys`, `MoveKey`, `MoveEnds`, `MoveBreaks` replace the one step "move" |
| `MigrateAdmin` | addTask, delTask, ManageThread, executor, life of a task | `call` is how far a call of addTask has come, `left` the slots it has still to write or delete, `lost` those for which that was lost; `threads`, `running`, `queue` the executor |
| `ClientAccess` | throttle, leases and pools of one client | `step`, `src`, `to` are the command of a thread; `leased`, `lost` the pools; `custom`, `event`, `answer`, `atomicCustom` the copies of the limit |
| `MetricPipeline` | ring, consumer, workers | `putIndex`, `takeIndex`, `entries` the ring; `seen`, `passed`, `writing` the threads inside `put`; `consumer` the place of the consumer |
| `MetricStore` | `store()`, `sendData`, `InfluxdbPool` | `step`, `tries`, `server`, `client` are the locals of a worker; `opened`, `leaseSet`, `freeList`, `waiting`, `lock` the pool of a server |
| `LeasePool` | what a pool promises, whatever it is made of | `asking`, `held`, `free` |
| `SlotDistribution` | `distSlots`, its jobs, the page that calls it | `call`, `rows`, `sent` a call; `threads`, `running`, `queue` the executor; `records` the slots; `alert`, `last`, `heard` the page |
| `GroupTable` | the table of the groups and Angular's digest | `table`, `watchers`; `cursor`, `dirty`, `lastDirty`, `ttl` are locals of `$digest` |
| `Console` | a tab of the console on the server | `route`, and the state of the two above |
| `MC…` | values for TLC | model values, ranges, symmetry |
| `SlotMigrationProofs`, `MigrationDataProofs`, `MigrateAdminProofs`, `ClientAccessProofs`, `MetricPipelineProofs`, `MetricStoreProofs`, `SlotDistributionProofs`, `ConsoleProofs` | theorems | |

How the code becomes steps:

- A step is what no other thread can see half of. `fresh()` is five steps, one
  for each access to the latch, the set or ZooKeeper; `init()` of a client is two
  for each slot; the acknowledgement is one of its own after the cache is updated,
  as it is in the listener.
- A TreeCache is its contract: one watch per node that delivers the newest value,
  so several writes may arrive as one event, per client thread one at a time, and
  a first NODE_ADDED for what is there at the start. `watch[c][s] = "dirty"` is a
  write not fetched yet. The admin's TreeCache on the clients counts events
  (`upd`), because the barrier only looks at their number.
- ZooKeeper calls that lose their connection return normally
  (`RegExceptionHandler`): with the fault `zkLoss` a write, an acknowledgement, a
  read of a record or of the children may do or answer nothing. In `MigrateAdmin`
  the same may happen to every access of the calls in `Lossy` and of their tasks
  (`SetRecord`), or it may throw (`PersistFails`, `UndoFails`, `TaskDies`).
- `persistMigrate` reads the owner of a slot and then writes the record. For the
  call that posts the task with nobody beside it (`Submit`) that is one step, as
  nothing moves a slot meanwhile. For a call that overlaps others it is two
  (`OverlapRead`, `OverlapWrite`), any number of steps of the task apart; then
  its task is posted, or refused and the record deleted, in steps of their own.
- The task's `slot` is one object that `preMigrateStatus` and
  `postMigrateStatus` change and write again: `slot` in the model is carried from
  step to step likewise, and so is the record `mig`, which is written back
  whatever has become of the node.
- If both threads are inside the barrier's `HashSet` at once (`racy`),
  `isEmpty()` may answer anything from then on (`EmptyAnswers`).
- `Faults` names the kinds of failure and interference of a run. `disturbed`,
  `late` and `missed` are history: they record that something outside the
  protocol hit the running barrier (a client that joins or leaves, an edit, a
  lost call, a time-out), that a command on the slot outlived its barrier after
  its look-up, and that a slot was written where a client's `init()` could not see it.
  `outdated` records that a record named a group that did not own its slot. The
  properties that hold only without them say so, and which step sets them is in
  the action.

`SlotMigration` has the client that `new JedisDirectClient` makes, with one
listener; its theorems are about those. `TwoListeners` has the client of the
factory; what still holds of it is what `liveness` checks, and what does not is
section 5. The two copies of the listener are symmetric and run on threads of
their own, so that an older record may be put over a newer one until its thread
has fetched again.

`MigrationData` composes by extension: every action of `SlotMigration` but the
move is taken as it is, and the theorem `Refines` says that the result is a
`SlotMigration`. `MigrateAdmin` models the acceptance in full, with the slot
protocol reduced to what it does to the records; `SlotMigration` has the
acceptance reduced to `Submit`, one call that overlaps others (`OverlapStep`) and
`DelTask`. That a task is posted only with `pc = "none"` is justified by
`OneTaskPerInstance`; what else may touch the records meanwhile are the faults
`overlap` and `delTask`.
`ClientAccess` stands beside them: its slots are anything a command may find and
its edits and acknowledgements come at any time, as neither the throttle nor the
pools influence the protocol except by delay. `apart` is history there: an edit
has come between the two writes of an acknowledgement (ZooKeeper, then
`atomicCustom`), or the first was lost, and the client keeps another limit than
its node until the node is next written.

In `MetricPipeline` the test for room is two steps, one for each index that it
reads (`ReadPut`, `Check`), and so is a time-out of the consumer, which first
decides and then takes its index back (`TimeOut`, `GiveUp`): positions may be
handed out, and written, in between.

`MetricStore` is what `MetricPipeline` takes as one step, `Stored`: a worker that
polls a batch here is one that is at work there. A section under a pool's lock is
one step, except the connection to a server, during which the lock stays held
(`lock`), so that nobody else leases, returns or wakes up. `leaseSet` holds the
null of a server that did not answer, as the code's does. `LeasePool` is stated
without any of this, and `PoolImplements` maps a pool onto it: whoever is between
`lease()` and its end is asking, whoever is in `sendData` holds its client.

`SlotDistribution` has the executor of `MigrateAdmin` with the other jobs reduced
to their number, and the migration of a slot reduced to the change of its owner;
`rivals`, `broken` and `moved` are history and name what the properties except.
`Console` puts `GroupTable` (by INSTANCE) and `SlotDistribution` (by EXTENDS)
behind the two routes of a tab. `Filtered` is written as the loop of
`filterFilter`, which pushes the objects that match. A digest is a step for each watcher, so the order
of the watchers and the short-circuit of `$digest` are those of the code.

## 3. Runs

Bounds are constants of the `.cfg` files. Deadlock is not checked: the bounded
systems come to rest when all submissions, calls or measurements are used up,
and so do the real ones.

| run | instance | shows |
|---|---|---|
| `protocol` | 1 client, 2 slots, 3 groups, 2 calls of addTask, the second perhaps beside the first; both delays, failed connections and moves, crash, delTask | `TypeOK`, `HandoverComplete`, `OwnershipMoves`, `RecordOutlivesMigration` |
| `unreliable` | 1 client that may start, stop or lose its session at any time, 1 slot, 2 tasks; lost calls, time-outs, edits | `BarrierSound`, `CacheCurrent` |
| `liveness` | `TwoListeners` with 1 client that may start and stop at any time, 1 slot, 1 task; time-outs | `TaskFinishes`, `WritesUnblocked`, `CachesConverge` |
| `data` | 2 clients, 1 slot, a key with 2 values, 2 migrations (there and back) | `NoLostWrite`, `OneCopy`, `ReadsFresh`, `SourceEmpty`, and that it implements `SlotMigration!Spec` |
| `data_faults` | 2 clients, 1 migration, get, set, del; both delays, every failure of Redis, a crash and delTask | `SourceDrains` |
| `admin` | 3 calls, 2 instances, 2 slots, 2 threads, a queue of 1; restart, delTask; of one call (`Lossy`), and of its task, any access to ZooKeeper may be lost or throw | `OneTaskPerInstance`, `RunsItsOwn`, `RefusedLeavesNothing`, `InstanceFreed`, `QueueDrains` |
| `access` | 2 threads, 2 groups, pools of 2 connections; failures of every step, lost calls, edits, the end of the session | `LeasesAccounted`, `LimitFollowsNode`, `PoolRecovers` |
| `metrics` | 2 producers, a ring of 3, 5 positions (`MaxPut` is 4), takes of 2, 2 workers with a queue of 1 | `LagBounded` (with the types), `OldOnlyIfLate`, `LossTold`, `NonePassedOver`, `EveryPositionTaken` |
| `store` | 3 workers, 2 servers with pools of 2 clients (`MaxClient` is 1), 2 tries, a counter of 2 bits | `NothingForgotten`, `WaitsForClients`, `LossExplained`, and that a pool implements `LeasePool` |
| `console` | 2 clicks, 2 slots, chunks of 2, 2 to 3 threads and a queue of 1, another job; lists of 0, 3 and 7 groups, pages of 1 and 2, 2 answers; crash, lost and dying writes, a client, a migration | `DistributedAsAsked`, `MigratedStays`, `DistributionEnds`, `LastFailureShown`, `TableConsistent` |
| `twice`, `deletes` | the smallest that show it | see section 5 |

Why these are enough to be interesting: two slots let an acknowledgement of one
barrier arrive in the next; two tasks let a barrier meet the leftovers of
another task, and a slot left in PRE_MIGRATE or MIGRATE by a crash or a failure.
The second call may read the owner of a slot, stall while the first task moves it,
write the record and have its own task posted; a third group tells the former owner
from the present one and from the destination. One overlapping call at a time, of one
slot, is a bound (`second`): a wider range is that for each of its slots, with a task
that does one slot after the other.
Each client relates to a barrier on its own, so one is enough for the protocol;
that the barrier adds up any number of them is proved. With keys two clients are
needed: one is behind the other by a whole state, and moves the key the other
works on; two values tell an old value from a new one. Two calls for one
instance overlap, and the third, for another one, competes for the two threads,
of which the ManageThread holds one for ever. One of the two calls that overlap
can fail to reach ZooKeeper, the other cannot: either may be first, refused or alone, so
that all that this can do to one call and to its rival is there, and the proofs are
for any `Lossy`. Two threads that move keys in
opposite directions can hold all of two pools only if a command holds connections
of both, which is what `PoolRecovers` excludes. Five measurements in a ring of
three reach its second lap, so that a late producer meets the next one; a range
of one slot and a range of two are both taken. Three workers can have both
clients of a pool and a thread that waits for them, or two threads that wait, of
which one is signalled; with two servers the index `position & 2` is 0 or 2, so
round robin never chooses the second server and runs behind the list; two bits
let the counter wrap. Two calls race through `isExisted`; a chunk and a half, a
slot named by two chunks and a row out of range behind a full chunk are among the
rows. Seven groups on pages of one are more pages than are offered; two answers
give two sets of watchers. Clients, values and groups are symmetric where TLC
is told so, as the first owner of the slots may be any group; in `liveness`,
where TLC's symmetry would not be sound, the first owner is one group.

Two bounds of `Console` are not of the code: a tab leaves the groups for the
distribution page only after its last answer and does not return, and the server
acts only once it is there. The two pages share no variable, so no property can
tell the difference; without them the run would multiply two systems that do not
interact.

Every property has a mutant in `PROJECT.json`: an operator beside the original
(*Mutant: ...*) which changes it as a plausible bug would, and which breaks the
property in the same run.

### Fairness

`FairSpec` of `SlotMigration`: the task's thread runs (`await` ends by its
time-out at the latest), the client threads load, fetch, apply and acknowledge.
In `TwoListeners` the second listener is scheduled like the first. `Fetch` is
strongly fair: a watch fires again for each write, and what is fetched at last is
what was written last; a client whose listener is busy with another slot comes
back to it. Nothing is assumed of the environment, of the
admin's TreeCache (a barrier that is never answered times out), or of ZooKeeper
calls. `FairSpec` of `MigrateAdmin`: executor threads take and finish jobs, the
ManageThread, which is one of them, comes round every two seconds. That each
job ends follows from the model, not from an assumption of its own. `FairSpec`
of `MetricPipeline`: the consumer runs and a thread inside `put` gets to its
second line; neither producers nor workers have to do anything, so
`EveryPositionTaken` holds with all workers stuck in `store()`. `FairSpec` of
`ClientAccess`: a thread that has a connection goes on, as Jedis has a timeout
on its sockets; a thread that waits for one may wait for ever. `FairSpec` of
`MetricStore`: clocks run (`Deadline`), and each worker is strongly fair, as a
thread asks for the pool's lock again and again while others take and leave it,
and calls of a server end by their time-outs; no worker has to take a batch.
`LeasePool` asks for an answer only. `Fairness` of `SlotDistribution`: a call that
is let in goes on, the executor's threads run, and the other jobs, but for the
ManageThread, end, as `TaskFinishes` and `QueueDrains` show elsewhere. The digest
needs none: that it ends is the invariant on `ttl`.

## 4. Proofs

Proved with TLAPS for every value of the constants: any number of clients,
groups, slots, keys, submissions, calls, instances, threads, connections, rows and
groups in a list, and any set of faults, but for the hypotheses that a theorem
names.

### The migration

**`TypeCorrect`** (`Spec => []TypeOK`). `TypeOK` is inductive thanks to its
clause that a barrier never runs without a slot and a record in hand.

**`BarrierCorrect`, `HandoverCorrect`.** Neither property is inductive: what
makes a barrier sound is that every client it does not wait for any more has
*applied* the record first. The invariant `IInv` adds to `TypeOK` that running
clients are registered as long as nothing has disturbed the task, and `EpochInv`,
which says for each client, from `fresh()` on, in which of the stages between
"has the old record" and "has acknowledged the new one" it may be, and that the
update that takes it out of `nodeSet` can only exist in the last one. The latch
can be open only if no client is in an earlier one. Each action keeps it: writes
of a slot, listener steps, client steps and the task's own are four lemmas.
`racy` is harmless because an undisturbed barrier begins with every event
delivered.

**`CacheCorrect`.** `CacheInv` follows a record through the three places where a
client may have it (read by `init()`, queued by the listener, cached), each of
which holds what ZooKeeper holds or has a newer write on its way.

**`OwnershipCorrect`, `RecordsCorrect`**: `~CallLost => (Spec => ...)`. When a write
of the task is lost without an exception, the slot in its hand and the node differ
from then on, and both properties are false; every other fault is allowed.
`OwnerInv` says what the node of the slot holds at each place of the task
(`NodeInv`), and, as long as nothing is `outdated`, that the records of the slots
still ahead of the task name their present owner (`FromInv`). A record that an
overlapping call writes after the owner has changed sets `outdated`, and from then on
only the roll back of a task that has lost the connection is not bound by what the
clients were told; that, and no more, is what `OwnershipMoves` lets through.

**`Refines`** (`DataSpec => Spec`). `MigrationData` extends `SlotMigration`, so
the refinement mapping is the identity; every step of the data is one of the
protocol or leaves its variables alone. With it the theorems above hold of
`DataSpec` too.

**`DataTypeCorrect`.** Inductive with the types of the commands, which need that a
slot that is not online has a group for its destination.

**`SourceDrained`**, with every fault. Past the barrier of PRE_MIGRATE, every
command on the slot goes by a record of the migration (`HeardInv`, from
`BarrierCorrect`), and in MIGRATE a write follows its key (`CmdInv`).

**`NoLostWriteCorrect`, `OneCopyCorrect`, `ReadsFreshCorrect`, `SourceEmptied`**:
`Reliable => (DataSpec /\ []~disturbed => []P)`, where each P holds while nothing is
`outdated`. `Reliable` says that ZooKeeper,
Redis and the administration do not fail and that there are no deletes: section 5
tells what the code does then. `[]~disturbed` says that every task goes
undisturbed, not only the present one, because the keys remember the past: a write
that an earlier disturbed barrier let through is lost for good. Clients may still
come and go between tasks, and records be overlapped and deleted, until an
overlapping call has written down a former owner: `outdated` stays, as the keys that
the task then leaves at the real owner are lost for good, and the invariants of the
keys are said without it. Three groups of invariants: `NodesInv` (each slot is online but the one that is being migrated);
`CopiesInv` (each copy of a record that a client holds, in its queue, its cache or
its command, *fits*: it is the present record, or the one before as long as the
barrier after it has not opened); `KeysInv` (a key is at home, or at the source
while its slot is in MIGRATE and its turn has not come, with the last value, and
nowhere else). That a MIGRATE of the task and one of a client for the same key
commute is the lemma about a step that leaves the protocol alone and takes keys
home. All of them are said while no command on the slot has outlived its barrier
(`late`).

**`NeverDisturbed`**: `Reliable /\ Calmly => (DataSpec => []~disturbed)`. The
hypothesis of the four is no wish: without time-outs and while clients neither come
nor go, each task leaves every client settled for the next one (`OrderInv`).

### The administration

**`AdminTypeCorrect`, `OneTaskCorrect`.** That an instance has one task in the
executor is not inductive. `PlaceInv` relates each place in `running` and
`queue` to the flags and the map: a task that is somewhere has been started, is
not finished and is the task its instance's entry points to (a crash empties
both), and it is in one place only. Two tasks of an instance would both have to
be that entry. `Cardinality` is then bounded with the library's facts about
finite sets.

**`OwnCorrect`.** A call is undisturbed until another one is in flight for its
instance beside it; a refused call counts until its last record is deleted.
`OwnInv` follows a record from its writing to its reading: nobody else is in flight
(`Alone`), no older task is left when its own is posted (`NoTask`), what is
persisted stays until then (`Persisted`) and until the task comes to the slot
(`Unspoilt`); or else its write was lost, which `lost` remembers (`Own`).
**`RefusedCorrect`** needs `LeftInv` only: a record as a call wrote it is in the
call's range and not yet among those that it has deleted, or its delete was lost.

**`DistributedCorrect`, `StaysCorrect`.** `IInv` of `SlotDistributionProofs` has two
halves. `JobsInv`: what a call has handed over is whole chunks of the slots that its
rows name, and all of them when it succeeded (`SentRight`); a job has the rest of
one chunk (`Fits`), and no chunk is with two jobs (`JobsApart`). `RecordsInv`: without
rivals only one call was let in (`Alone`); a record, once there, stays (`Kept`); each
record is owed to a place of the rows that a job has done (`Owed`), each place that
is done has left a record (`Filled`), and it is the group of the last place for the
slot that is done in a chunk (`Named`), as a job that found no node stands at the first
place for the slot in its chunk (`Unseen`). **`FailureCorrect`** needs only
the order of click, answer and alert (`Shown`). `StaysCorrect` has corrected its
property: with three groups, rows that name a slot twice within one chunk take a
migrated slot back as well, which TLC then showed; `MigratedStays` excepts them.

**`TableCorrect`**: `MaxDisplayed = 5 => (ConsoleSpec => []TableConsistent)`. Five is
what `baseTableSrv.js` has; with three or seven the property is false, as the loops
of `getCurrentPageNumDisplay` are right for five by luck. `TableInv` has two ideas.
`Tasks`: whatever is wrong in the table (the rows, the number of pages, the indexes,
a page that does not exist) is the task of a watcher that is dirty. `Digest`: who
is clean where in which round. No listener changes what is watched of the rows per
page, the query or the list, so only watchers of the page and of the total fire in
the second round, and none in the third; the short-circuit is right as whoever
stands behind the last dirty watcher is clean. Between digests all are clean, so
nothing is wrong. It holds for any number of answers, hence of sets of watchers.
**`ConsoleDistributes`**: every step of the console is one of the distribution or
leaves it alone.

### The client

**`LeasesCorrect`, `AccessTypeCorrect`.** `AccessInv` is the accounting itself
with `RouteOK`, that a command which waits for a connection or has one knows its
groups; each lease and each release changes the number of holders of one group by
one. That a pool never gives out more than `MaxTotal` follows from the guard, that
it never takes back more than it gave from the accounting.

**`LimitCorrect`.** `LimitInv` says where the newest content of the node is at
any moment: still to be fetched, in the custom listener's event, on its way from
an acknowledgement to `atomicCustom`, or there.

### The metrics

**`LagCorrect`** (`putIndex - takeIndex` and the threads that have found room
together exceed the ring by the number of threads and one at most). Any number of
threads may pass the test for room with an old index. `Crowd` counts, for each `T`
from the position that is taken next on, the positions beyond `T + BufferSize` that
are handed out: they are no more than the threads on the side (`Aside`), which have
no room and have to read an index first that is as high already. That the position
taken next never goes back, though `takeIndex` does, makes it inductive.

**`OldOnlyIfLateCorrect`**, for fewer threads than the ring has positions (1024):
more of them could be two laps ahead. An entry holds its position or the one a lap
later, or a thread is still to write it, or is `late`; two positions of an entry less than
two laps apart are one lap apart. **`LossToldCorrect`** needs `RoomMade`: between
`remove` and the second `offer` of `forcePut` only the worker touches the queue, and
it takes. What it cannot promise is the batch in hand when `remove()` throws (section
5), so one untold batch is allowed, and only to a dead consumer. **`NonePassedOverCorrect`** follows from the place of the consumer.

**`NothingForgottenCorrect`, `WaitsForClientsCorrect`, `LossCorrect`.** `IInv` of
`MetricStoreProofs` is inductive. Beside the types it says that a worker has
failed each of its tries but the running one (`LocalOK`); that who connects holds
the lock of its server, and that whoever holds a lock found an empty free list
and room for a client, so that no one can use the room meanwhile (`LockOK`); the
accounting of the clients itself (`Accounted`, for which the free list must have
no duplicates: lemmas `TakeHead` and `PutLast`); and that a pool has opened at
most `MaxClient + 1` clients, and at least `MaxClient` if a thread waits
(`OpenedOK`). The last is the lemma `CountFacts`: with an empty free list the size of
`leaseSet` exceeds the clients opened by the one null at most. `LossCorrect` then
needs only `LocalOK` and the mask.

**`PoolSafe`.** The safety half of `PoolImplements`: under the mapping given in
`MetricStore` each step of a worker is `Ask`, `Grant`, `Refuse` or `GiveBack` of
`LeasePool`, or a stutter. A grant needs that the new client is not open and within the bound,
a return that the worker holds a client, both of which `IInv` gives. `2^Width` is assumed to be a
natural number because the provers do not know exponentiation; TLC evaluates it.

### Assumptions, and what is only model-checked

The invariants were checked by TLC on the instances of the runs (those of
`SlotDistributionProofs` with three groups, those of `ConsoleProofs` with three
answers, but for the types of the values that watchers note, which TLC cannot
compare) before they were proved.

The constants are assumed only to be of their kind (the named `ASSUME`s
of each module, which TLC evaluates in the runs); no finiteness of clients,
workers or slots is used; the threads of a client and those that log are finite. A
digest is given more than one round beyond its first (`TTL > 1`, which is 10 in
Angular).

What a recursive function returns for any input is proved without the library's
induction theorems, whose operator parameters the provers cannot instantiate: by
the least prefix for which a claim would fail (`LeastOf`). So are `FlattenExists`
and `FlattenHas` for the rows of a call (`FlattenSeq` of the community modules), and
`FiltersExist`, `FilteredType` and `FilteredAll` for `Filtered`.

Only model-checked: the liveness properties, as fairness and ENABLED are beyond
TLAPS (`TaskFinishes`, `WritesUnblocked`, `CachesConverge`, `InstanceFreed`,
`QueueDrains`, `PoolRecovers`, `EveryPositionTaken`, `DistributionEnds`), and so also
the liveness half of `PoolImplements`. Every invariant and every action property
of the passing runs is proved, for `TwoListeners` nothing is.

## 5. Where the code differs from what it says

- **`twice`** — the comment of `MigrateTask.java:120` says that the task waits
  until all clients have confirmed the state. `JedisxFactory.java:26` calls `init()`
  again for a client whose constructor has called it, so that two listeners
  acknowledge each event, and the barrier takes any update of a client's node for
  the one it waits for. The second acknowledgement of one slot opens the
  PRE_MIGRATE barrier of the next, which the client still caches as ONLINE and
  writes to. No fault is needed. An administrator's edit of a limit (`AdminEdit`)
  opens a barrier in the same way, also for a client with one listener.
- **`deletes`** — `JedisClientTest.java:56` expects nothing after a delete.
  `delete()` (and `expire()`) run as reads, so they are not refused in
  PRE_MIGRATE: a client one state behind deletes at the source a key that another
  has already moved.

Also visible in the models and covered by no stated promise:
`MigrateTask.java:155` hands the slot over as done though a failed MIGRATE was
only logged, so a key may stay at the source, where no client looks any more
(`MoveBreaks`, a fault that the run of `SourceEmpty` leaves out); a task that the
executor rejects, or that dies, keeps its instance for ever (`Orphan` in
`InstanceFreed`); a refused `addTask` deletes the records of its range, also
those of the task that won (excluded by `disturbed` in `RunsItsOwn`); a call of
`addTask` that reads the owner of a slot (`MigrateService.java:44`), stalls while
another task moves the slot and then writes its record makes the next task ask the
former owner for the keys and leave them at the real one, and, when the connection is
lost with a short delay, give the slot back to the former owner (`outdated`, which
`OwnershipMoves` and the properties of the keys except); a `ConnectionLoss` while
`addTask` writes or takes back its records is swallowed, so that a task is posted
without a record, or a refused call leaves one for a later task (`lost`, which
`RunsItsOwn` and `RefusedLeavesNothing` except); the
consumer of the metrics dies when a worker empties a queue between the two calls
of `forcePut` (`consumer = "dead"`), and the batch in its hand is lost although
`SendAgentGroup.put` (lines 49-53) is to say so (`LossTold` allows this one); the newest measurement is taken only when
another follows; a command whose Redis call fails never returns its connection
(`ExecuteFails`), so `maxTotal` failures of a group block its pool for good;
commands on a slot that moves to a group younger than the client fail (`LookUp`);
an acknowledgement resets the limit that the administrator has set (`AckWrite`);
a client that registers before its instance is distributed creates
`/instances/X`, whose slots are then refused for good (`ClientStarts`, `Refuse`), as
are those that a failed chunk has left out; a client that is up before the slots
are distributed never sees those that come later, as `SlotListenerManager.java:53`
ignores NODE_ADDED; a server that did not answer once leaves a null leased for
good (`ConnectFails`); round robin with two servers never uses the second one and
finds no server for half of its choices (`Choose`).

## 6. What is not modelled, and the plan

Commands that are on their way for longer than a barrier (`late`), reads while a
failed move is rolled back or submitted again, and deletes are excluded from the
data properties, as the code makes no provision for them. In `SlotMigration` a
chunk of `persistMigrate` that cannot read a slot, and so leaves a part of the
records without a task, is left out; `MigrateAdmin` has it (`PersistFails`), where in
turn the read and the write of `updateSlotMigrate` are one step. An exception of
`InfluxdbConvertUtil`, with which `store()` ends before its first try and the batch is
lost, is not in `MetricStore`. Time is a choice
(time-outs may strike at any moment); ZooKeeper is linearizable; group records
do not change. Whatever is listed as `not_modelled` in `PROJECT.json` has its
reason there.

Of the console, the table of the groups and the distribution page are modelled;
the tables of clients, slots and migrations are the same service with other
columns, and the dialogs hold no state across two steps. Most of the repository's
lines are vendored JavaScript (AngularJS, Bootstrap, the Ace theme, jQuery
plugins): of these only the digest, `$watch`, `$apply` and the filter matter to
the program's own logic and are modelled; the rest is third-party code that a
model of padis has nothing to say of, so the share of all JavaScript lines that
the modules stand for stays small by choice. The system's core is its Java
code, and nearly all of what keeps state there has a module.

Order of work: (1) `SlotMigration`, (2) its proofs, (3) `MigrationData`,
(4) `MigrateAdmin` and its proofs, (5) `MetricPipeline`, (6) `ClientAccess` and its
proofs, (7) `MetricStore` with `LeasePool` and its proofs, (8) `SlotDistribution`,
`GroupTable` and `Console`, (9) `TwoListeners`: these are here. Then:

10. `KeySlot`: `CRC16Utils` as a fold over a key with its reference definition.
11. The handlers of the groups behind `GroupTable`, and the pages of slots,
   clients and migrations.
12. Proofs: the barrier of `TwoListeners` as far as it holds (with one
   listener of two it is `SlotMigration`'s), `NeverDisturbed` with clients that
   come and go between tasks, and the data with failed moves that are submitted
   again.

---------------------------- MODULE SlotMigration ----------------------------
(***************************************************************************)
(* The slot-migration protocol of padis, for one instance.                 *)
(*                                                                         *)
(* The administration server runs one MigrateTask per instance.  For every *)
(* slot of the submitted range the task writes the slot's ZooKeeper node   *)
(* through PRE_MIGRATE, MIGRATE and ONLINE, and uses a DistributeCountDown *)
(* as a barrier: it waits until every registered client has updated its    *)
(* own node under /instances/X/clients.  A client keeps a cache of the     *)
(* slots that a TreeCache listener updates; the listener acknowledges      *)
(* PRE_MIGRATE and ONLINE by rewriting the client's node.                  *)
(*                                                                         *)
(* Abstracted: time stamps, JSON, paths, and the keys themselves (module   *)
(* MigrationData has them).  A TreeCache is modelled by its contract: one  *)
(* watch per node, which delivers the latest value and so may coalesce     *)
(* several writes; the first load of a node is a NODE_ADDED event, which   *)
(* no listener of padis looks at.  A client has one slot listener; module  *)
(* TwoListeners has those that a JedisxFactory makes, with two.            *)
(***************************************************************************)
EXTENDS Integers

CONSTANTS
  Client,   \* client incarnations: one ephemeral sequential node each
  Gid,      \* Redis groups
  MaxSlot,  \* slots are 0..MaxSlot (0..1023 in the code)
  NoGid,    \* the -1 of Slot.to_gid
  Null,     \* no record
  Faults,   \* the kinds of failure and of interference explored
  Delays,   \* the delays submitted: "short" is below 100 ms, "long" is not
  MaxTasks, \* bound on the number of calls of addTask
  MaxUpd    \* bound on the undelivered edits of one client node

AllFaults == { "timeout", "join", "leave", "expire", "crash", "zkLoss",
               "edit", "connFail", "moveFail", "overlap", "delTask" }

SlotId == 0 .. MaxSlot

SlotRecord == [status: {"ONLINE", "PRE_MIGRATE", "MIGRATE"},
               src_gid: Gid, to_gid: Gid \cup {NoGid}]

MigrateRecord == [status: {"PENDING", "MIGRATE", "ERROR"}, from_gid: Gid,
                  to_gid: Gid, delay: {"short", "long"}]

SlotEvent == [id: SlotId, slot: SlotRecord]

\* An addTask in flight beside the task: what it read and is to write, and
\* how far it is.
SecondCall == [id: SlotId, from_gid: Gid, to_gid: Gid, delay: {"short", "long"},
               step: {"read", "written", "refused"}]

ASSUME SlotAssumption == MaxSlot \in Nat
ASSUME NullAssumption == /\ NoGid \notin Gid
                         /\ Null \notin SlotRecord
                         /\ Null \notin MigrateRecord
                         /\ Null \notin SlotEvent
                         /\ Null \notin SecondCall
ASSUME FaultAssumption == /\ Faults \subseteq AllFaults
                          /\ Delays \subseteq {"short", "long"}
                          /\ MaxTasks \in Nat /\ MaxUpd \in Nat

VARIABLES
  \* ---- ZooKeeper
  zkSlot,      \* /instances/X/slots/s
  zkMigrate,   \* /migrate/X/s, or Null
  clients,     \* children of /instances/X/clients
  \* ---- MigrateTask and its DistributeCountDown
  pc, cur, last, slot, mig, rethrow,
  latch,       \* count of the CountDownLatch of the last fresh()
  nodeSet,     \* clients the barrier still waits for
  toAdd,       \* children read by fresh() and not yet added to nodeSet
  racy,        \* the unsynchronised nodeSet was used by both threads at once
  \* ---- the TreeCache behind the DistributeCountDown
  adminWatch,  \* client nodes it has loaded and watches
  upd,         \* undelivered NODE_UPDATED events of each client node
  gone,        \* undelivered NODE_REMOVED events
  \* ---- clients
  life,        \* "new", "running" or "dead"
  loadStep,    \* ClusterInfoCacheManager.init(): getAllSlots, slot by slot
  loaded,      \* what getAllSlots read
  watch,       \* "none" (not loaded yet), "clean" or "dirty" (write to fetch)
  queued,      \* the event that waits for the listener thread
  acking,      \* the listener is inside updateCustom(..., true)
  slotMap,     \* ClusterInfoCacheManager.slotMap
  \* ---- the calls of addTask
  submitted,   \* number of calls so far
  second,      \* the call that overlaps others, or Null
  outdated,    \* history: a record named a group that no longer owned its slot
  \* ---- history
  missed,      \* the cached slot is out of date and no event will tell
  disturbed    \* a step outside the protocol hit the task (see Disturb)

zkVars     == <<zkSlot, zkMigrate, clients>>
taskLocal  == <<cur, last, slot, mig, rethrow>>
latchVars  == <<latch, nodeSet, toAdd, racy>>
taskVars   == <<pc, taskLocal, latchVars>>
adminVars  == <<adminWatch, upd, gone>>
clientVars == <<life, loadStep, loaded, watch, queued, acking, slotMap>>
callVars   == <<submitted, second, outdated>>
historyVars == <<callVars, missed, disturbed>>
outsideTask    == <<zkVars, adminVars, clientVars, historyVars>>
notRecords     == <<zkSlot, clients, adminVars, clientVars, historyVars>>
outsideClients == <<zkVars, taskVars, adminVars>>
vars == <<zkVars, taskVars, adminVars, clientVars, historyVars>>

Running == {c \in Client : life[c] = "running"}

\* run() of the task has begun: its DistributeCountDown is listening.
Active == pc \notin {"none", "posted"}

Online(g) == [status |-> "ONLINE", src_gid |-> g, to_gid |-> NoGid]

(***************************************************************************)
(* A settled cluster: every client that runs is registered, has finished   *)
(* init(), watches every slot and has no event in hand.                    *)
(***************************************************************************)
Settled ==
  \A c \in Running :
    /\ c \in clients
    /\ queued[c] = Null
    /\ ~acking[c]
    /\ \A s \in SlotId : loadStep[c][s] = "done" /\ watch[c][s] = "clean"

Disturb == disturbed' = (disturbed \/ Active)

(***************************************************************************)
(* Writing a slot node: every client that watches it has something to      *)
(* fetch.  A client that has not loaded the node yet, or that read it in   *)
(* getAllSlots and has not stored it yet, misses the write.                *)
(***************************************************************************)
Write(s, rec) ==
  /\ zkSlot' = [zkSlot EXCEPT ![s] = rec]
  /\ watch' = [c \in Client |->
                 [watch[c] EXCEPT ![s] = IF @ = "clean" THEN "dirty" ELSE @]]
  /\ missed' = [c \in Client |->
                 [missed[c] EXCEPT ![s] =
                    /\ loadStep[c][s] # "unread"
                    /\ watch[c][s] = "none" \/ loadStep[c][s] = "read"]]

\* RegExceptionHandler ignores a ConnectionLoss: a call to ZooKeeper may do
\* nothing, or answer nothing, and the caller goes on.
CallLost == "zkLoss" \in Faults

SetSlot(s, rec) ==
  \/ Write(s, rec)
  \/ CallLost /\ UNCHANGED <<zkSlot, watch, missed>>

SetMigrateRecord(s, rec) ==
  \/ zkMigrate' = [zkMigrate EXCEPT ![s] = rec]
  \/ CallLost /\ UNCHANGED zkMigrate

-----------------------------------------------------------------------------
(* The initial state: distSlots has created every slot, on one group (with *)
(* a to_gid of 0, which no more than -1 is a group); some clients are up   *)
(* and settled.                                                            *)

Init ==
  /\ \E g \in Gid : zkSlot = [s \in SlotId |-> Online(g)]
  /\ zkMigrate = [s \in SlotId |-> Null]
  /\ clients \in SUBSET Client
  /\ pc = "none" /\ cur = 0 /\ last = 0
  /\ slot = Null /\ mig = Null /\ rethrow = FALSE
  /\ latch = 0 /\ nodeSet = {} /\ toAdd = {} /\ racy = FALSE
  /\ adminWatch = {} /\ upd = [c \in Client |-> 0] /\ gone = {}
  /\ life = [c \in Client |-> IF c \in clients THEN "running" ELSE "new"]
  /\ loadStep = [c \in Client |-> [s \in SlotId |->
                   IF c \in clients THEN "done" ELSE "unread"]]
  /\ loaded = [c \in Client |-> [s \in SlotId |-> Null]]
  /\ watch = [c \in Client |-> [s \in SlotId |->
                IF c \in clients THEN "clean" ELSE "none"]]
  /\ queued = [c \in Client |-> Null]
  /\ acking = [c \in Client |-> FALSE]
  /\ slotMap = [c \in Client |-> [s \in SlotId |->
                  IF c \in clients THEN zkSlot[s] ELSE Null]]
  /\ missed = [c \in Client |-> [s \in SlotId |-> FALSE]]
  /\ submitted = 0 /\ second = Null /\ outdated = FALSE
  /\ disturbed = FALSE

-----------------------------------------------------------------------------
(* Submission: the calls of addTask.                                       *)

Pending(from, to, d) ==
  [status |-> "PENDING", from_gid |-> from, to_gid |-> to, delay |-> d]

\* A record is left that names another group than the owner of its slot.
Outdated(s) ==
  zkMigrate'[s] # Null /\ zkMigrate'[s].from_gid # zkSlot[s].src_gid

\* persistMigrate of a range, with nothing that moves its slots meanwhile:
\* the source is whoever owns the slot.  Each write may be lost.
PersistMigrate(from, to, g, d) ==
  \E taken \in SUBSET (from .. to) :
    /\ taken = from .. to \/ CallLost
    /\ zkMigrate' = [s \in SlotId |->
                       IF s \in taken THEN Pending(zkSlot[s].src_gid, g, d)
                       ELSE zkMigrate[s]]

\* addTask: no task of the instance is queued or running, so the records
\* are persisted and the task is posted.
Submit ==
  \E from, to \in SlotId, g \in Gid, d \in Delays :
    /\ pc = "none" /\ from <= to
    /\ submitted < MaxTasks /\ submitted' = submitted + 1
    /\ PersistMigrate(from, to, g, d)
    /\ outdated' = (outdated \/ \E s \in from .. to : Outdated(s))
    /\ pc' = "posted" /\ cur' = from /\ last' = to
    /\ UNCHANGED <<zkSlot, clients, slot, mig, rethrow, latchVars, adminVars,
                   clientVars, second, missed, disturbed>>

(* A call that passed its check before the other one's task was posted, for *)
(* one slot: persistMigrate reads the owner ...                             *)
OverlapRead ==
  /\ "overlap" \in Faults /\ pc # "none" /\ second = Null
  /\ submitted < MaxTasks /\ submitted' = submitted + 1
  /\ \E s \in SlotId, g \in Gid, d \in Delays :
       second' = [id |-> s, from_gid |-> zkSlot[s].src_gid, to_gid |-> g,
                  delay |-> d, step |-> "read"]
  /\ UNCHANGED <<zkVars, taskVars, adminVars, clientVars, outdated, missed,
                 disturbed>>

\* ... and writes it into the record later, whoever owns the slot by then ...
OverlapWrite ==
  /\ second # Null /\ second.step = "read"
  /\ second' = [second EXCEPT !.step = "written"]
  /\ SetMigrateRecord(second.id,
                      Pending(second.from_gid, second.to_gid, second.delay))
  /\ outdated' = (outdated \/ Outdated(second.id))
  /\ UNCHANGED <<zkSlot, clients, taskVars, adminVars, clientVars, submitted,
                 missed, disturbed>>

\* ... postTask takes the task, if no other is left by now ...
OverlapPost ==
  /\ pc = "none" /\ second # Null /\ second.step = "written"
  /\ second' = Null
  /\ pc' = "posted" /\ cur' = second.id /\ last' = second.id
  /\ UNCHANGED zkMigrate
  /\ outdated' = (outdated \/ Outdated(second.id))
  /\ UNCHANGED <<zkSlot, clients, slot, mig, rethrow, latchVars, adminVars,
                 clientVars, submitted, missed, disturbed>>

\* ... or refuses it, ...
OverlapRefused ==
  /\ pc # "none" /\ second # Null /\ second.step = "written"
  /\ second' = [second EXCEPT !.step = "refused"]
  /\ UNCHANGED <<zkVars, taskVars, adminVars, clientVars, submitted, outdated,
                 missed, disturbed>>

\* ... and the call deletes the record of its slot, whoever wrote it.
OverlapUndo ==
  /\ second # Null /\ second.step = "refused"
  /\ second' = Null
  /\ SetMigrateRecord(second.id, Null)
  /\ UNCHANGED <<zkSlot, clients, taskVars, adminVars, clientVars, submitted,
                 outdated, missed, disturbed>>

OverlapStep == \/ OverlapRead \/ OverlapWrite \/ OverlapPost
               \/ OverlapRefused \/ OverlapUndo

\* delTask, at any moment.
DelTask ==
  /\ "delTask" \in Faults
  /\ \E s \in SlotId : /\ zkMigrate[s] # Null
                       /\ zkMigrate' = [zkMigrate EXCEPT ![s] = Null]
  /\ UNCHANGED <<taskVars, notRecords>>

-----------------------------------------------------------------------------
(* The task.                                                               *)

TaskStart ==
  /\ pc = "posted"
  /\ pc' = "read"
  /\ adminWatch' = {} /\ gone' = {} /\ upd' = [c \in Client |-> 0]
  /\ disturbed' = ~Settled
  /\ UNCHANGED <<zkVars, taskLocal, latchVars, clientVars, callVars, missed>>

\* Mutant: the loop over the range runs one slot too far.
NextSlotTooFar ==
  /\ rethrow' = FALSE /\ slot' = Null /\ mig' = Null
  /\ IF cur <= last
     THEN pc' = "read" /\ cur' = cur + 1 /\ UNCHANGED <<last, latchVars, adminVars>>
     ELSE /\ pc' = "none" /\ cur' = 0 /\ last' = 0
          /\ latch' = 0 /\ nodeSet' = {} /\ toAdd' = {} /\ racy' = FALSE
          /\ adminWatch' = {} /\ gone' = {} /\ upd' = [c \in Client |-> 0]

\* The next slot of the range, or the end of run().
NextSlot ==
  /\ rethrow' = FALSE /\ slot' = Null /\ mig' = Null
  /\ IF cur < last
     THEN pc' = "read" /\ cur' = cur + 1 /\ UNCHANGED <<last, latchVars, adminVars>>
     ELSE /\ pc' = "none" /\ cur' = 0 /\ last' = 0
          /\ latch' = 0 /\ nodeSet' = {} /\ toAdd' = {} /\ racy' = FALSE
          /\ adminWatch' = {} /\ gone' = {} /\ upd' = [c \in Client |-> 0]

\* getSlot and getSlotMigrate; preMigrateStatus fills in the slot.
ReadSlot ==
  /\ pc = "read" /\ zkMigrate[cur] # Null
  /\ zkMigrate[cur].from_gid # zkMigrate[cur].to_gid
  /\ mig' = zkMigrate[cur]
  /\ slot' = [zkSlot[cur] EXCEPT !.status = "PRE_MIGRATE",
                                 !.to_gid = zkMigrate[cur].to_gid]
  /\ pc' = "fresh"
  /\ UNCHANGED <<cur, last, rethrow, latchVars, outsideTask>>

\* Source and destination are the same group: nothing but a log line.
SkipSameGroup ==
  /\ pc = "read" /\ zkMigrate[cur] # Null
  /\ zkMigrate[cur].from_gid = zkMigrate[cur].to_gid
  /\ pc' = "delRecord"
  /\ UNCHANGED <<taskLocal, latchVars, outsideTask>>

\* No record, or a read that came back empty: updateSlotMigrate(ERROR).
NoRecord ==
  /\ pc = "read"
  /\ zkMigrate[cur] = Null \/ CallLost
  /\ pc' = "markError"
  /\ UNCHANGED <<taskLocal, latchVars, outsideTask>>

\* Mutant: fresh() reuses the latch of the last barrier.
FreshKeepsLatch ==
  /\ pc = "fresh"
  /\ pc' = "children"
  /\ nodeSet' = {} /\ racy' = FALSE
  /\ UNCHANGED <<taskLocal, latch, toAdd, outsideTask>>

(* fresh(): a new latch and an empty set, the children of the clients node, *)
(* the set filled one by one, and a latch of zero when it is empty.         *)
FreshClear ==
  /\ pc = "fresh"
  /\ pc' = "children"
  /\ latch' = 1 /\ nodeSet' = {} /\ racy' = FALSE
  /\ UNCHANGED <<taskLocal, toAdd, outsideTask>>

FreshChildren ==
  /\ pc = "children"
  /\ pc' = "fill"
  /\ \/ toAdd' = clients /\ UNCHANGED disturbed
     \/ CallLost /\ toAdd' = {} /\ disturbed' = TRUE
  /\ UNCHANGED <<zkVars, taskLocal, latch, nodeSet, racy, adminVars,
                 clientVars, callVars, missed>>

FreshAdd ==
  /\ pc = "fill"
  /\ \E c \in toAdd : nodeSet' = nodeSet \cup {c} /\ toAdd' = toAdd \ {c}
  /\ UNCHANGED <<pc, taskLocal, latch, racy, outsideTask>>

\* isEmpty() of the HashSet: unreliable once two threads raced on it.
EmptyAnswers(nodes, raced) == IF raced THEN BOOLEAN ELSE {nodes = {}}

FreshDone ==
  /\ pc = "fill" /\ toAdd = {}
  /\ pc' = "set"
  /\ \E empty \in EmptyAnswers(nodeSet, racy) :
       latch' = IF empty THEN 0 ELSE latch
  /\ UNCHANGED <<taskLocal, nodeSet, toAdd, racy, outsideTask>>

\* setSlot of PRE_MIGRATE or ONLINE, under the barrier.
SetBarrierSlot ==
  /\ pc = "set"
  /\ pc' = "await"
  /\ SetSlot(cur, slot)
  /\ UNCHANGED <<zkMigrate, clients, taskLocal, latchVars, adminVars, life,
                 loadStep, loaded, queued, acking, slotMap, callVars,
                 disturbed>>

\* Mutant: preMigrateStatus forgets to write MIGRATE.
AfterAwaitNoMigrate ==
  IF slot.status = "PRE_MIGRATE"
  THEN slot' = [slot EXCEPT !.status = "MIGRATE"] /\ pc' = "setRecord"
  ELSE /\ pc' = (IF rethrow THEN "markError" ELSE "delRecord")
       /\ UNCHANGED slot

\* What follows countdown.await(600) in preMigrateStatus and in
\* postMigrateStatus.
AfterAwait ==
  IF slot.status = "PRE_MIGRATE"
  THEN slot' = [slot EXCEPT !.status = "MIGRATE"] /\ pc' = "setMigrate"
  ELSE /\ pc' = (IF rethrow THEN "markError" ELSE "delRecord")
       /\ UNCHANGED slot

AwaitOpen ==
  /\ pc = "await" /\ latch = 0
  /\ AfterAwait
  /\ UNCHANGED <<cur, last, mig, rethrow, latchVars, outsideTask>>

\* Mutant: await() without a timeout.
AwaitForever == FALSE

\* Mutant: a barrier that times out abandons the slot.
AwaitGivesUp ==
  /\ "timeout" \in Faults
  /\ pc = "await" /\ latch = 1
  /\ pc' = "markError"
  /\ disturbed' = TRUE
  /\ UNCHANGED <<zkVars, taskLocal, latchVars, adminVars, clientVars, callVars,
                 missed>>

\* The result of await is ignored: after 600 s the task goes on.
AwaitTimeout ==
  /\ "timeout" \in Faults
  /\ pc = "await" /\ latch = 1
  /\ AfterAwait
  /\ disturbed' = TRUE
  /\ UNCHANGED <<zkVars, cur, last, mig, rethrow, latchVars, adminVars,
                 clientVars, callVars, missed>>

SetMigrate ==
  /\ pc = "setMigrate"
  /\ pc' = "setRecord"
  /\ SetSlot(cur, slot)
  /\ UNCHANGED <<zkMigrate, clients, taskLocal, latchVars, adminVars, life,
                 loadStep, loaded, queued, acking, slotMap, callVars,
                 disturbed>>

SetRecord ==
  /\ pc = "setRecord"
  /\ pc' = "move"
  /\ SetMigrateRecord(cur, [mig EXCEPT !.status = "MIGRATE"])
  /\ UNCHANGED <<taskLocal, latchVars, notRecords>>

\* postMigrateStatus(gid) up to fresh().
Post(gid) ==
  /\ slot' = [slot EXCEPT !.status = "ONLINE", !.src_gid = gid, !.to_gid = NoGid]
  /\ pc' = "fresh"

\* The key loop ran to its end, or the connection was lost and the delay is
\* not short: the slot is declared moved either way.
MoveDone ==
  /\ pc = "move"
  /\ Post(mig.to_gid)
  /\ UNCHANGED <<cur, last, mig, rethrow, latchVars, outsideTask>>

\* JedisConnectionException with delay < 100: back to the source, rethrow.
MoveConnFails ==
  /\ "connFail" \in Faults
  /\ pc = "move" /\ mig.delay = "short"
  /\ Post(mig.from_gid) /\ rethrow' = TRUE
  /\ UNCHANGED <<cur, last, mig, latchVars, outsideTask>>

\* Mutant: an exception other than a lost connection counts as done.
MoveFailsSilently ==
  /\ "moveFail" \in Faults
  /\ pc = "move"
  /\ pc' = "delRecord"
  /\ UNCHANGED <<taskLocal, latchVars, outsideTask>>

\* Any other exception (a missing group, a destination that does not answer
\* PING, a Redis error): the slot stays in MIGRATE.
MoveFails ==
  /\ "moveFail" \in Faults
  /\ pc = "move"
  /\ pc' = "markError"
  /\ UNCHANGED <<taskLocal, latchVars, outsideTask>>

DelRecord ==
  /\ pc = "delRecord"
  /\ SetMigrateRecord(cur, Null)
  /\ NextSlot
  /\ UNCHANGED <<zkSlot, clients, clientVars, historyVars>>

MarkError ==
  /\ pc = "markError"
  /\ IF zkMigrate[cur] = Null
     THEN UNCHANGED zkMigrate
     ELSE SetMigrateRecord(cur, [zkMigrate[cur] EXCEPT !.status = "ERROR"])
  /\ NextSlot
  /\ UNCHANGED <<zkSlot, clients, clientVars, historyVars>>

\* The administration server dies: tasks and calls live in memory only.
Crash ==
  /\ "crash" \in Faults /\ (pc # "none" \/ second # Null)
  /\ pc' = "none" /\ cur' = 0 /\ last' = 0
  /\ slot' = Null /\ mig' = Null /\ rethrow' = FALSE
  /\ latch' = 0 /\ nodeSet' = {} /\ toAdd' = {} /\ racy' = FALSE
  /\ adminWatch' = {} /\ gone' = {} /\ upd' = [c \in Client |-> 0]
  /\ second' = Null
  /\ UNCHANGED <<zkVars, clientVars, submitted, outdated, missed, disturbed>>

-----------------------------------------------------------------------------
(* The CountDownListener, in the thread of the administration's TreeCache. *)

\* The TreeCache loads and watches one more client node (NODE_ADDED).
AdminLoad(c) ==
  /\ Active /\ c \in clients \ adminWatch
  /\ adminWatch' = adminWatch \cup {c}
  /\ UNCHANGED <<zkVars, taskVars, upd, gone, clientVars, historyVars>>

\* NODE_UPDATED or NODE_REMOVED of c, whatever the new content is.  While
\* fresh() is filling the set the two threads race on it.
CountDown(c) ==
  LET raced == racy \/ pc \in {"children", "fill"}
  IN /\ nodeSet' = nodeSet \ {c}
     /\ racy' = raced
     /\ \E empty \in EmptyAnswers(nodeSet \ {c}, raced) :
          latch' = IF empty THEN 0 ELSE latch
     /\ UNCHANGED <<pc, taskLocal, toAdd>>

UpdatedEvent(c) ==
  /\ upd[c] > 0
  /\ \E rest \in 0 .. (upd[c] - 1) : upd' = [upd EXCEPT ![c] = rest]
  /\ CountDown(c)
  /\ UNCHANGED <<zkVars, adminWatch, gone, clientVars, historyVars>>

RemovedEvent(c) ==
  /\ c \in gone
  /\ gone' = gone \ {c}
  /\ adminWatch' = adminWatch \ {c}
  /\ upd' = [upd EXCEPT ![c] = 0]
  /\ CountDown(c)
  /\ UNCHANGED <<zkVars, clientVars, historyVars>>

\* Any update of a client's node reaches the listener once it is watched.
UpdateClientNode(c) ==
  upd' = IF c \in adminWatch THEN [upd EXCEPT ![c] = @ + 1] ELSE upd

\* CustomController.updateCustom: the administrator sets a client's limit.
AdminEdit(c) ==
  /\ "edit" \in Faults
  /\ c \in clients \cap adminWatch /\ upd[c] < MaxUpd
  /\ UpdateClientNode(c)
  /\ Disturb
  /\ UNCHANGED <<zkVars, taskVars, adminWatch, gone, clientVars, callVars,
                 missed>>

-----------------------------------------------------------------------------
(* Clients.                                                                *)

\* The client's node is created before its listeners start and its slots
\* are read.  When that write is lost the client goes on without a node.
Register(c) ==
  /\ "join" \in Faults
  /\ life[c] = "new"
  /\ life' = [life EXCEPT ![c] = "running"]
  /\ clients' = clients \cup {c} \/ (CallLost /\ UNCHANGED clients)
  /\ Disturb
  /\ UNCHANGED <<zkSlot, zkMigrate, taskVars, adminVars, loadStep, loaded,
                 watch, queued, acking, slotMap, callVars, missed>>

\* The client's TreeCache loads slot s: NODE_ADDED, ignored.
WatchSlot(c, s) ==
  /\ c \in Running /\ watch[c][s] = "none"
  /\ watch' = [watch EXCEPT ![c][s] = "clean"]
  /\ UNCHANGED <<life, loadStep, loaded, queued, acking, slotMap, historyVars,
                 outsideClients>>

\* getAllSlots reads slot s ...
LoadRead(c, s) ==
  /\ c \in Running /\ loadStep[c][s] = "unread"
  /\ loadStep' = [loadStep EXCEPT ![c][s] = "read"]
  /\ loaded' = [loaded EXCEPT ![c][s] = zkSlot[s]]
  /\ UNCHANGED <<life, watch, queued, acking, slotMap, historyVars,
                 outsideClients>>

\* Mutant: init() loses a record that it has read.
LoadPutDropped(c, s) ==
  /\ c \in Running /\ loadStep[c][s] = "read"
  /\ loadStep' = [loadStep EXCEPT ![c][s] = "done"]
  /\ loaded' = [loaded EXCEPT ![c][s] = Null]
  /\ UNCHANGED <<life, watch, queued, acking, slotMap, historyVars, outsideClients>>

\* ... and init() puts it, over whatever the listener has put meanwhile.
LoadPut(c, s) ==
  /\ c \in Running /\ loadStep[c][s] = "read"
  /\ loadStep' = [loadStep EXCEPT ![c][s] = "done"]
  /\ slotMap' = [slotMap EXCEPT ![c][s] = loaded[c][s]]
  /\ loaded' = [loaded EXCEPT ![c][s] = Null]
  /\ UNCHANGED <<life, watch, queued, acking, historyVars, outsideClients>>

\* A read that came back empty leaves the slot out of the cache.
LoadLost(c, s) ==
  /\ CallLost
  /\ c \in Running /\ loadStep[c][s] = "unread"
  /\ loadStep' = [loadStep EXCEPT ![c][s] = "done"]
  /\ missed' = [missed EXCEPT ![c][s] = TRUE]
  /\ UNCHANGED <<life, loaded, watch, queued, acking, slotMap, callVars,
                 disturbed, outsideClients>>

\* The TreeCache fetches a slot that was written and queues the event.
Fetch(c, s) ==
  /\ c \in Running /\ watch[c][s] = "dirty" /\ queued[c] = Null
  /\ watch' = [watch EXCEPT ![c][s] = "clean"]
  /\ queued' = [queued EXCEPT ![c] = [id |-> s, slot |-> zkSlot[s]]]
  /\ UNCHANGED <<life, loadStep, loaded, acking, slotMap, historyVars,
                 outsideClients>>

\* Mutant: MIGRATE is acknowledged too.
ApplyAcksMigrate(c) ==
  /\ c \in Running /\ queued[c] # Null /\ ~acking[c]
  /\ slotMap' = [slotMap EXCEPT ![c][queued[c].id] = queued[c].slot]
  /\ acking' = [acking EXCEPT ![c] = TRUE]
  /\ queued' = [queued EXCEPT ![c] = Null]
  /\ UNCHANGED <<life, loadStep, loaded, watch, historyVars, outsideClients>>

\* Mutant: only the records that are acknowledged are cached.
ApplySkipsMigrate(c) ==
  /\ c \in Running /\ queued[c] # Null /\ ~acking[c]
  /\ slotMap' = IF queued[c].slot.status = "MIGRATE" THEN slotMap
                ELSE [slotMap EXCEPT ![c][queued[c].id] = queued[c].slot]
  /\ acking' = [acking EXCEPT ![c] = queued[c].slot.status # "MIGRATE"]
  /\ queued' = [queued EXCEPT ![c] = Null]
  /\ UNCHANGED <<life, loadStep, loaded, watch, historyVars, outsideClients>>

\* SlotStatusListener: addSlot, then an acknowledgement for PRE_MIGRATE and
\* for ONLINE.
Apply(c) ==
  /\ c \in Running /\ queued[c] # Null /\ ~acking[c]
  /\ slotMap' = [slotMap EXCEPT ![c][queued[c].id] = queued[c].slot]
  /\ acking' = [acking EXCEPT ![c] = queued[c].slot.status # "MIGRATE"]
  /\ queued' = [queued EXCEPT ![c] = Null]
  /\ UNCHANGED <<life, loadStep, loaded, watch, historyVars, outsideClients>>

\* updateCustom(.., true): rewrites the client's node, if it still exists
\* and the connection holds.
Ack(c) ==
  /\ c \in Running /\ acking[c]
  /\ acking' = [acking EXCEPT ![c] = FALSE]
  /\ \/ c \in clients /\ UpdateClientNode(c)
     \/ (c \notin clients \/ CallLost) /\ UNCHANGED upd
  /\ UNCHANGED <<zkVars, taskVars, adminWatch, gone, life, loadStep, loaded,
                 watch, queued, slotMap, historyVars>>

RemoveNode(c) ==
  /\ clients' = clients \ {c}
  /\ gone' = IF c \in clients \cap adminWatch THEN gone \cup {c} ELSE gone

\* The ZooKeeper session expires; the client goes on running, and nothing
\* registers it again.
Expire(c) ==
  /\ "expire" \in Faults
  /\ c \in clients
  /\ RemoveNode(c)
  /\ Disturb
  /\ UNCHANGED <<zkSlot, zkMigrate, taskVars, adminWatch, upd, clientVars,
                 callVars, missed>>

\* The client stops: its node goes, with or after its process.
Leave(c) ==
  /\ "leave" \in Faults
  /\ life[c] = "running"
  /\ life' = [life EXCEPT ![c] = "dead"]
  /\ RemoveNode(c)
  /\ Disturb
  /\ UNCHANGED <<zkSlot, zkMigrate, taskVars, adminWatch, upd, loadStep,
                 loaded, watch, queued, acking, slotMap, callVars, missed>>

-----------------------------------------------------------------------------
\* Every step of the task's thread except the move of the keys.
ProtocolStep ==
  \/ TaskStart \/ ReadSlot \/ SkipSameGroup \/ NoRecord
  \/ FreshClear \/ FreshChildren \/ FreshAdd \/ FreshDone
  \/ SetBarrierSlot \/ AwaitOpen \/ AwaitTimeout
  \/ SetMigrate \/ SetRecord \/ DelRecord \/ MarkError

TaskStep == ProtocolStep \/ MoveDone \/ MoveConnFails \/ MoveFails

ListenerStep == \E c \in Client : AdminLoad(c) \/ UpdatedEvent(c) \/ RemovedEvent(c)

ClientStep ==
  \E c \in Client :
    \/ \E s \in SlotId :
         \/ WatchSlot(c, s) \/ Fetch(c, s)
         \/ LoadRead(c, s) \/ LoadPut(c, s) \/ LoadLost(c, s)
    \/ Apply(c) \/ Ack(c)

Environment ==
  \/ Submit \/ OverlapStep \/ DelTask \/ Crash
  \/ \E c \in Client : AdminEdit(c) \/ Register(c) \/ Expire(c) \/ Leave(c)

Next == TaskStep \/ ListenerStep \/ ClientStep \/ Environment

Spec == Init /\ [][Next]_vars

\* The threads of the task, of the TreeCaches and of the clients are
\* scheduled; nothing obliges the environment to act.
Fairness ==
  /\ WF_vars(TaskStep)
  /\ \A c \in Client :
       /\ WF_vars(Apply(c) \/ Ack(c))
       /\ WF_vars(\E s \in SlotId : WatchSlot(c, s))
       /\ WF_vars(\E s \in SlotId : LoadRead(c, s) \/ LoadPut(c, s))
       /\ \A s \in SlotId : SF_vars(Fetch(c, s))

FairSpec == Spec /\ Fairness
-----------------------------------------------------------------------------
(* Properties.                                                             *)

ZkTypes ==
  /\ zkSlot \in [SlotId -> SlotRecord]
  /\ zkMigrate \in [SlotId -> MigrateRecord \cup {Null}]
  /\ clients \in SUBSET Client

\* The task holds the slot and its record in its hands.
Holding == {"fresh", "children", "fill", "set", "await", "setMigrate",
            "setRecord", "move"}

TaskTypes ==
  /\ pc \in Holding \cup {"none", "posted", "read", "delRecord", "markError"}
  /\ cur \in SlotId /\ last \in SlotId
  /\ slot \in SlotRecord \cup {Null}
  /\ mig \in MigrateRecord \cup {Null}
  /\ pc \in Holding => slot # Null /\ mig # Null
  /\ pc \in {"none", "posted", "read"} => slot = Null /\ mig = Null
  /\ rethrow \in BOOLEAN

LatchTypes ==
  /\ latch \in {0, 1} /\ racy \in BOOLEAN
  /\ nodeSet \in SUBSET Client /\ toAdd \in SUBSET Client

AdminTypes ==
  /\ adminWatch \in SUBSET Client /\ gone \in SUBSET Client
  /\ upd \in [Client -> Nat]

ClientTypes ==
  /\ life \in [Client -> {"new", "running", "dead"}]
  /\ loadStep \in [Client -> [SlotId -> {"unread", "read", "done"}]]
  /\ loaded \in [Client -> [SlotId -> SlotRecord \cup {Null}]]
  /\ watch \in [Client -> [SlotId -> {"none", "clean", "dirty"}]]
  /\ queued \in [Client -> SlotEvent \cup {Null}]
  /\ acking \in [Client -> BOOLEAN]
  /\ slotMap \in [Client -> [SlotId -> SlotRecord \cup {Null}]]

HistoryTypes ==
  /\ submitted \in Nat /\ disturbed \in BOOLEAN
  /\ second \in SecondCall \cup {Null} /\ outdated \in BOOLEAN
  /\ missed \in [Client -> [SlotId -> BOOLEAN]]

(* Every variable holds a value of its type; in particular a barrier never *)
(* runs without a slot and its migration record in hand.                   *)
TypeOK == /\ ZkTypes /\ TaskTypes /\ LatchTypes
          /\ AdminTypes /\ ClientTypes /\ HistoryTypes

\* The slot is on its way from the task: MIGRATE is about to be written or
\* is written, and ONLINE is not written yet.
PastPreBarrier ==
  \/ pc \in {"setMigrate", "setRecord", "move"}
  \/ pc \in {"fresh", "children", "fill", "set"} /\ slot.status = "ONLINE"

(* When the task passes the PRE_MIGRATE barrier of a slot undisturbed, and *)
(* until it writes ONLINE, no running client believes the slot is still    *)
(* online on its source: each one has cached PRE_MIGRATE or MIGRATE, for   *)
(* this migration's destination (MigrateTask.preMigrateStatus).            *)
BarrierSound ==
  PastPreBarrier /\ ~disturbed =>
    \A c \in Running :
      /\ slotMap[c][cur] # Null
      /\ slotMap[c][cur].status \in {"PRE_MIGRATE", "MIGRATE"}
      /\ slotMap[c][cur].to_gid = mig.to_gid

(* When the task is done with a slot undisturbed, every running client     *)
(* routes it to its new owner: the ONLINE barrier of postMigrateStatus has *)
(* let nobody through who had not applied the record.                      *)
HandoverComplete ==
  pc = "delRecord" /\ slot # Null /\ ~disturbed =>
    \A c \in Running : slotMap[c][cur] = slot

(* A client that finished init() and has no event of a slot in hand has    *)
(* cached what ZooKeeper holds, unless the slot was written while its      *)
(* init() could not see it: the load and the listener do not otherwise     *)
(* overwrite each other's newer record.                                    *)
CacheCurrent ==
  \A c \in Running, s \in SlotId :
    /\ loadStep[c][s] = "done" /\ watch[c][s] # "dirty" /\ ~missed[c][s]
    /\ queued[c] # Null => queued[c].id # s
    => slotMap[c][s] = zkSlot[s]

(* A slot changes hands only out of MIGRATE, never straight from ONLINE or *)
(* PRE_MIGRATE, and only to the destination that the clients were told,    *)
(* whatever crashed or was deleted before.  The one exception is the roll  *)
(* back of a task that lost the connection: after an addTask that read the *)
(* owner of a slot, stalled while another task moved it and then wrote the *)
(* record (or after a lost call has left such a record), it takes the slot *)
(* to the group that the record names, the owner of before.                *)
OwnershipMoves ==
  [][\A s \in SlotId :
       zkSlot'[s].src_gid # zkSlot[s].src_gid =>
         /\ zkSlot[s].status = "MIGRATE"
         /\ \/ zkSlot'[s] = Online(zkSlot[s].to_gid)
            \/ outdated /\ rethrow /\ zkSlot'[s] = Online(mig.from_gid)]_vars

(* The task drops the record of a slot only when the slot is back ONLINE,  *)
(* or when it had nothing to move and has not touched it: a slot that it   *)
(* leaves half migrated keeps a record that says so, whoever else submits  *)
(* or deletes records meanwhile, as long as ZooKeeper takes every write.   *)
RecordOutlivesMigration ==
  [][\A s \in SlotId :
       TaskStep /\ zkMigrate[s] # Null /\ zkMigrate'[s] = Null =>
         zkSlot[s].status = "ONLINE" \/ slot = Null]_vars

(* A posted task ends: neither a client that never answers nor one that    *)
(* vanishes holds the barrier for ever (await has a timeout).              *)
TaskFinishes == (pc # "none") ~> (pc = "none")

(* A slot in PRE_MIGRATE refuses writes; it leaves that state.             *)
WritesUnblocked ==
  \A s \in SlotId :
    (zkSlot[s].status = "PRE_MIGRATE") ~> (zkSlot[s].status # "PRE_MIGRATE")

(* When migrations stop, every running client ends up with ZooKeeper's     *)
(* records, apart from the slots whose last write its init() missed.       *)
CachesConverge ==
  \A c \in Client, s \in SlotId :
    <>[](pc = "none") =>
      <>[](\/ life[c] # "running" \/ missed[c][s]
           \/ slotMap[c][s] = zkSlot[s])

(* The comment of migrateSingleSlot: wait for every client to confirm the  *)
(* state.  When the latch has opened, every registered client has cached   *)
(* PRE_MIGRATE.                                                            *)
AllClientsConfirmed ==
  pc = "setMigrate" /\ latch = 0 =>
    \A c \in clients :
      slotMap[c][cur] # Null => slotMap[c][cur].status # "ONLINE"
=============================================================================

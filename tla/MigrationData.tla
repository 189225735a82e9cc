---------------------------- MODULE MigrationData ----------------------------
(***************************************************************************)
(* The keys of an instance while its slots migrate.                        *)
(*                                                                         *)
(* Composes the protocol of SlotMigration with what it is there for: the   *)
(* Redis groups, the key loop of MigrateTask.migrateSingleSlot and the     *)
(* commands of the clients (JedisClientCommand).  A command looks its slot *)
(* up once and works with that record until it ends, however long it       *)
(* takes; in MIGRATE it moves its key to the destination first.            *)
(*                                                                         *)
(* Abstracted: a string value stands for every Redis type; get, set and    *)
(* del for the commands that read, write and delete; CRC16Utils by the     *)
(* constant KeySlot; the pool and the throttle, which delay a command.     *)
(***************************************************************************)
EXTENDS SlotMigration

CONSTANTS
  Key, Value,
  KeySlot,    \* the slot of a key
  Ops,        \* the commands that the clients issue
  DataFaults  \* the kinds of failure of Redis explored

ASSUME DataAssumption == /\ KeySlot \in [Key -> SlotId]
                         /\ Null \notin Value
                         /\ Ops \subseteq {"get", "set", "del"}
                         /\ DataFaults \subseteq {"keyFail", "cmdFail"}

VARIABLES
  db,      \* the keys of each Redis group
  listed,  \* the task has the answer of KEYS (and of PING)
  todo,    \* the keys of the slot it has not moved yet
  cmd,     \* the command each client executes, or Null
  truth,   \* history: what the last completed command left in each key
  late     \* history: a command outlived the barrier after its look-up

dataVars == <<db, listed, todo, cmd, truth, late>>
loopVars == <<listed, todo>>
allVars  == <<vars, dataVars>>

Contents == [Key -> Value \cup {Null}]

Command == [op: Ops, key: Key, val: Value, slot: SlotRecord, moved: BOOLEAN]

DataInit ==
  /\ Init
  /\ db = [g \in Gid |-> [k \in Key |-> Null]]
  /\ listed = FALSE /\ todo = {}
  /\ cmd = [c \in Client |-> Null]
  /\ truth = [k \in Key |-> Null]
  /\ late = FALSE

(***************************************************************************)
(* Redis MIGRATE without REPLACE: nothing happens to a key that is not     *)
(* there (NOKEY) or that the destination already has (BUSYKEY, an error).  *)
(***************************************************************************)
RedisMigrate(d, from, to, k) ==
  IF d[from][k] # Null /\ d[to][k] = Null
  THEN [g \in Gid |-> [d[g] EXCEPT ![k] = CASE g = from -> Null
                                            [] g = to   -> d[from][k]
                                            [] OTHER    -> @]]
  ELSE d

-----------------------------------------------------------------------------
(* The task: the protocol, with the key loop in the place of its "move".   *)

\* A barrier is over, and a command on a key of the slot looked it up before
\* the record that the barrier confirmed.
Outlived ==
  /\ pc = "await" /\ pc' \notin {"await", "none"}
  /\ \E c \in Client :
       cmd[c] # Null /\ KeySlot[cmd[c].key] = cur /\ cmd[c].slot # slot

\* A crash of the administration ends the loop, and a client that dies its
\* command.
Protocol ==
  /\ ProtocolStep \/ ListenerStep \/ ClientStep \/ Environment
  /\ late' = (late \/ Outlived)
  /\ IF pc = "move" /\ pc' = "none"
     THEN listed' = FALSE /\ todo' = {}
     ELSE UNCHANGED loopVars
  /\ cmd' = [c \in Client |-> IF life'[c] = "running" THEN cmd[c] ELSE Null]
  /\ UNCHANGED <<db, truth>>

\* Mutant: KEYS is asked of the destination.
ListKeysOfDestination ==
  /\ pc = "move" /\ ~listed
  /\ listed' = TRUE
  /\ todo' = {k \in Key : KeySlot[k] = cur /\ db[mig.to_gid][k] # Null}
  /\ UNCHANGED <<vars, db, cmd, truth, late>>

\* KEYS instance*, then PING of the destination.
ListKeys ==
  /\ pc = "move" /\ ~listed
  /\ listed' = TRUE
  /\ todo' = {k \in Key : KeySlot[k] = cur /\ db[mig.from_gid][k] # Null}
  /\ UNCHANGED <<vars, db, cmd, truth, late>>

\* One MIGRATE of the loop; whatever it throws is logged and forgotten.
MoveKey ==
  /\ pc = "move" /\ listed
  /\ \E k \in todo :
       /\ todo' = todo \ {k}
       /\ \/ db' = RedisMigrate(db, mig.from_gid, mig.to_gid, k)
          \/ "keyFail" \in DataFaults /\ UNCHANGED db
  /\ UNCHANGED <<vars, listed, cmd, truth, late>>

\* Mutant: the slot is not handed over when the loop has ended.
MoveEndsSilently ==
  /\ pc = "move" /\ listed /\ todo = {}
  /\ pc' = "delRecord" /\ listed' = FALSE
  /\ UNCHANGED <<taskLocal, latchVars, outsideTask, db, todo, cmd, truth, late>>

\* The loop has ended, or the connection was lost before it began.
MoveEnds ==
  /\ MoveDone
  /\ \/ listed /\ todo = {}
     \/ "connFail" \in Faults /\ ~listed /\ mig.delay = "long"
  /\ listed' = FALSE
  /\ UNCHANGED <<db, todo, cmd, truth, late>>

MoveBreaks ==
  /\ ~listed
  /\ MoveConnFails \/ MoveFails
  /\ UNCHANGED dataVars

-----------------------------------------------------------------------------
(* The commands of the clients.                                            *)

\* What the methods of JedisDirectClient pass as isWrite: delete() and
\* expire() pass false, like the commands that only read.
RunsAsWrite(op) == op = "set"

\* Mutant: writes are not refused in PRE_MIGRATE.
RouteAll(c) ==
  /\ c \in Running /\ cmd[c] = Null
  /\ \A s \in SlotId : loadStep[c][s] = "done"
  /\ \E op \in Ops, k \in Key, v \in Value :
       LET rec == slotMap[c][KeySlot[k]]
       IN /\ rec # Null
          /\ cmd' = [cmd EXCEPT ![c] =
                       [op |-> op, key |-> k, val |-> v, slot |-> rec,
                        moved |-> rec.status # "MIGRATE"]]
  /\ UNCHANGED <<vars, db, loopVars, truth, late>>

\* run(): the slot is looked up; only a write is refused in PRE_MIGRATE.
Route(c) ==
  /\ c \in Running /\ cmd[c] = Null
  /\ \A s \in SlotId : loadStep[c][s] = "done"
  /\ \E op \in Ops, k \in Key, v \in Value :
       LET rec == slotMap[c][KeySlot[k]]
       IN /\ rec # Null
          /\ RunsAsWrite(op) => rec.status # "PRE_MIGRATE"
          /\ cmd' = [cmd EXCEPT ![c] =
                       [op |-> op, key |-> k, val |-> v, slot |-> rec,
                        moved |-> rec.status # "MIGRATE"]]
  /\ UNCHANGED <<vars, db, loopVars, truth, late>>

\* migrate(): an exception is logged, and the command goes on.
MigrateFirst(c) ==
  /\ cmd[c] # Null /\ ~cmd[c].moved
  /\ cmd' = [cmd EXCEPT ![c].moved = TRUE]
  /\ \/ db' = RedisMigrate(db, cmd[c].slot.src_gid, cmd[c].slot.to_gid, cmd[c].key)
     \/ "keyFail" \in DataFaults /\ UNCHANGED db
  /\ UNCHANGED <<vars, loopVars, truth, late>>

\* Mutant: the key is moved, and the command goes to the source all the same.
TargetSource(rec) == rec.src_gid

\* The group that a command goes to.
Target(rec) == IF rec.status = "MIGRATE" THEN rec.to_gid ELSE rec.src_gid

After(op, old, new) == CASE op = "get" -> old [] op = "set" -> new [] op = "del" -> Null

Execute(c) ==
  /\ cmd[c] # Null /\ cmd[c].moved
  /\ LET k == cmd[c].key
         op == cmd[c].op
     IN /\ db' = [db EXCEPT ![Target(cmd[c].slot)][k] = After(op, @, cmd[c].val)]
        /\ truth' = [truth EXCEPT ![k] = After(op, @, cmd[c].val)]
  /\ cmd' = [cmd EXCEPT ![c] = Null]
  /\ UNCHANGED <<vars, loopVars, late>>

\* No connection, here or in migrate(), or an error of Redis: the caller gets
\* an exception, and nothing is tried again, as Jedis throws none of those
\* that readWithRetries and writeWithRetries wait for.  One that Redis has
\* executed nevertheless is an Execute.
CommandFails(c) ==
  /\ "cmdFail" \in DataFaults
  /\ cmd[c] # Null
  /\ cmd' = [cmd EXCEPT ![c] = Null]
  /\ UNCHANGED <<vars, db, loopVars, truth, late>>

DataNext ==
  \/ Protocol \/ ListKeys \/ MoveKey \/ MoveEnds \/ MoveBreaks
  \/ \E c \in Client :
       Route(c) \/ MigrateFirst(c) \/ Execute(c) \/ CommandFails(c)

DataSpec == DataInit /\ [][DataNext]_allVars

-----------------------------------------------------------------------------
(* Properties.                                                             *)

(* Every variable of the keys holds a value of its type.                   *)
DataTypeOK ==
  /\ TypeOK
  /\ db \in [Gid -> Contents] /\ truth \in Contents
  /\ listed \in BOOLEAN /\ todo \in SUBSET Key
  /\ cmd \in [Client -> Command \cup {Null}]
  /\ late \in BOOLEAN

\* What a command routed by rec leaves or finds in k.
Served(rec, k) ==
  IF rec.status = "MIGRATE" /\ db[rec.to_gid][k] = Null
  THEN db[rec.src_gid][k]
  ELSE db[Target(rec)][k]

(* The value that the last command left in a key is the one that the       *)
(* current record of its slot leads to (JedisClientTest: a get answers     *)
(* what was set): the migration loses no write and brings no old value     *)
(* back, as long as no command outlives a barrier, no barrier is broken,   *)
(* no record names another group than the owner of its slot (the task      *)
(* would ask that group for the keys, and leave them at the owner), and    *)
(* neither the task nor Redis fails.                                       *)
NoLostWrite ==
  ~late /\ ~disturbed /\ ~outdated =>
    \A k \in Key : Served(zkSlot[KeySlot[k]], k) = truth[k]

(* A key lives on one group only, whoever moves it: MIGRATE by the task,   *)
(* or by a client that meets the slot in MIGRATE.                          *)
OneCopy ==
  ~late /\ ~disturbed /\ ~outdated =>
    \A k \in Key, g, h \in Gid : db[g][k] # Null /\ db[h][k] # Null => g = h

(* A get answers the value last written or misses; it never answers an     *)
(* older value, although its client may still be in PRE_MIGRATE when       *)
(* others move and overwrite the key.                                      *)
ReadsFresh ==
  ~late /\ ~disturbed /\ ~outdated =>
    \A c \in Client :
      cmd[c] # Null /\ cmd[c].moved /\ cmd[c].op = "get" =>
        db[Target(cmd[c].slot)][cmd[c].key] \in {truth[cmd[c].key], Null}

(* Nobody writes the source any more once the keys are listed: the barrier *)
(* makes one KEYS enough.                                                  *)
SourceDrains ==
  [][pc = "move" /\ pc' = "move" /\ ~late /\ ~disturbed =>
       \A k \in Key :
         KeySlot[k] = cur /\ db[mig.from_gid][k] = Null
           => db'[mig.from_gid][k] = Null]_allVars

(* The comment of migrateSingleSlot: done.  When the task hands the slot   *)
(* to its new owner, no key of the slot is left at the source.             *)
SourceEmpty ==
  pc = "fresh" /\ slot.status = "ONLINE" /\ slot.src_gid = mig.to_gid
    /\ ~late /\ ~disturbed /\ ~outdated =>
    \A k \in Key : KeySlot[k] = cur => db[mig.from_gid][k] = Null

-----------------------------------------------------------------------------
(* What a test of the client says, which a migration breaks.               *)

(* JedisClientTest, a get after a delete: nobody finds a key whose last    *)
(* command was a delete.                                                   *)
DeleteHolds ==
  ~late /\ ~disturbed =>
    \A k \in Key :
      truth[k] = Null => Served(zkSlot[KeySlot[k]], k) = Null
=============================================================================

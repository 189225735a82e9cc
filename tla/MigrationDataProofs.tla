------------------------- MODULE MigrationDataProofs -------------------------
(***************************************************************************)
(* Theorems about MigrationData: with its keys and commands the migration  *)
(* is still a migration of SlotMigration, and the keys keep their types.   *)
(***************************************************************************)
EXTENDS MigrationData, SlotMigrationProofs

\* Each step of the data is a step of the protocol or leaves it alone.
LEMMA StepRefines == [DataNext]_allVars => [Next]_vars
<1>1. ListKeys \/ MoveKey => UNCHANGED vars
  BY DEF ListKeys, MoveKey
<1>2. Protocol \/ MoveEnds \/ MoveBreaks => Next
  BY DEF Protocol, MoveEnds, MoveBreaks, Next, TaskStep
<1>3. ASSUME NEW c \in Client,
             Route(c) \/ MigrateFirst(c) \/ Execute(c) \/ CommandFails(c)
      PROVE  UNCHANGED vars
  BY <1>3 DEF Route, MigrateFirst, Execute, CommandFails
<1>4. UNCHANGED allVars => UNCHANGED vars
  BY DEF allVars
<1> QED BY <1>1, <1>2, <1>3, <1>4 DEF DataNext

(* The migration with its keys implements the protocol of SlotMigration:   *)
(* the key loop takes the place of the single move step, and commands are  *)
(* stutters.                                                               *)
THEOREM Refines == DataSpec => Spec
<1>1. DataInit => Init
  BY DEF DataInit
<1> QED BY <1>1, StepRefines, PTL DEF DataSpec, Spec

-----------------------------------------------------------------------------
\* The types of the variables that MigrationData adds.
DataTypes ==
  /\ db \in [Gid -> Contents] /\ truth \in Contents
  /\ listed \in BOOLEAN /\ todo \in SUBSET Key
  /\ cmd \in [Client -> Command \cup {Null}]
  /\ late \in BOOLEAN

LEMMA MigrateTypes ==
  ASSUME NEW d \in [Gid -> Contents], NEW g \in Gid, NEW h \in Gid, NEW k \in Key
  PROVE  RedisMigrate(d, g, h, k) \in [Gid -> Contents]
<1>1. CASE d[g][k] # Null /\ d[h][k] = Null
  <2>1. d[g][k] \in Value \cup {Null}
    BY DEF Contents
  <2>2. ASSUME NEW x \in Gid
        PROVE  [d[x] EXCEPT ![k] = CASE x = g -> Null
                                     [] x = h -> d[g][k]
                                     [] OTHER -> @] \in Contents
    BY <2>1 DEF Contents
  <2> QED BY <1>1, <2>2 DEF RedisMigrate
<1>2. CASE ~(d[g][k] # Null /\ d[h][k] = Null)
  BY <1>2 DEF RedisMigrate
<1> QED BY <1>1, <1>2

LEMMA RouteType ==
  ASSUME TypeOK, DataTypes, NEW c \in Client, Route(c)
  PROVE  cmd' \in [Client -> Command \cup {Null}]
<1>1. PICK op \in Ops, k \in Key, v \in Value :
        /\ slotMap[c][KeySlot[k]] # Null
        /\ cmd' = [cmd EXCEPT ![c] =
                     [op |-> op, key |-> k, val |-> v, slot |-> slotMap[c][KeySlot[k]],
                      moved |-> slotMap[c][KeySlot[k]].status # "MIGRATE"]]
  BY DEF Route
<1>2. KeySlot[k] \in SlotId
  BY DataAssumption
<1>3. slotMap[c][KeySlot[k]] \in SlotRecord
  BY <1>1, <1>2 DEF TypeOK, ClientTypes
<1>4. [op |-> op, key |-> k, val |-> v, slot |-> slotMap[c][KeySlot[k]],
       moved |-> slotMap[c][KeySlot[k]].status # "MIGRATE"] \in Command
  BY <1>3 DEF Command
<1> QED BY <1>1, <1>4 DEF DataTypes

LEMMA MoveFirstType ==
  ASSUME TypeOK, DataTypes, NEW c \in Client, MigrateFirst(c)
  PROVE  DataTypes'
<1>1. cmd[c] \in Command
  BY DEF MigrateFirst, DataTypes
<1>2. cmd' \in [Client -> Command \cup {Null}]
  BY <1>1 DEF MigrateFirst, DataTypes, Command
<1>3. cmd[c].slot \in SlotRecord /\ cmd[c].key \in Key
  BY <1>1 DEF Command
<1>4. db' \in [Gid -> Contents]
  <2>1. CASE UNCHANGED db
    BY <2>1 DEF DataTypes
  <2>2. CASE db' = RedisMigrate(db, cmd[c].slot.src_gid, cmd[c].slot.to_gid, cmd[c].key)
    <3>1. CASE cmd[c].slot.to_gid \in Gid
      BY <1>3, <2>2, <3>1, MigrateTypes, Records DEF DataTypes
    <3>2. CASE cmd[c].slot.to_gid \notin Gid
      <4> DEFINE f == cmd[c].slot.src_gid
                 h == cmd[c].slot.to_gid
                 k == cmd[c].key
      <4>1. f \in Gid /\ h \notin Gid /\ k \in Key
        BY <1>3, <3>2, Records
      <4> HIDE DEF f, h, k
      <4>2. ASSUME NEW g \in Gid
            PROVE  [db[g] EXCEPT ![k] = CASE g = f -> Null
                                          [] g = h -> db[f][k]
                                          [] OTHER -> @] \in Contents
        BY <4>1, <4>2 DEF DataTypes, Contents
      <4>3. RedisMigrate(db, f, h, k) \in [Gid -> Contents]
        BY <4>2 DEF RedisMigrate, DataTypes
      <4> QED BY <2>2, <4>3 DEF f, h, k
    <3> QED BY <3>1, <3>2
  <2> QED BY <2>1, <2>2 DEF MigrateFirst
<1> QED BY <1>2, <1>4 DEF MigrateFirst, DataTypes, loopVars

LEMMA ExecuteType ==
  ASSUME TypeOK, DataTypes, NEW c \in Client, Execute(c)
  PROVE  DataTypes'
<1>1. cmd[c] \in Command
  BY DEF Execute, DataTypes
<1>2. cmd[c].op \in {"get", "set", "del"} /\ cmd[c].key \in Key /\ cmd[c].val \in Value
  BY <1>1, DataAssumption DEF Command
<1>3. \A old \in Value \cup {Null} :
        After(cmd[c].op, old, cmd[c].val) \in Value \cup {Null}
  BY <1>2 DEF After
<1>4. truth' \in Contents
  BY <1>2, <1>3 DEF Execute, DataTypes, Contents
<1>5. db' \in [Gid -> Contents]
  <2> DEFINE t == Target(cmd[c].slot)
             k == cmd[c].key
  <2>1. db' = [db EXCEPT ![t][k] = After(cmd[c].op, db[t][k], cmd[c].val)]
    BY DEF Execute
  <2> HIDE DEF t
  <2>2. CASE t \in Gid
    BY <1>2, <1>3, <2>1, <2>2 DEF DataTypes, Contents
  <2>3. CASE t \notin Gid
    BY <2>1, <2>3 DEF DataTypes
  <2> QED BY <2>2, <2>3
<1>6. cmd' \in [Client -> Command \cup {Null}]
  BY DEF Execute, DataTypes
<1> QED BY <1>4, <1>5, <1>6 DEF Execute, DataTypes, loopVars

LEMMA DataTypesNext == TypeOK /\ DataTypes /\ [DataNext]_allVars => DataTypes'
<1> SUFFICES ASSUME TypeOK, DataTypes, [DataNext]_allVars PROVE DataTypes'
  OBVIOUS
<1> USE DEF loopVars, dataVars
<1>1. CASE Protocol
  BY <1>1 DEF Protocol, DataTypes
<1>2. CASE ListKeys
  BY <1>2 DEF ListKeys, DataTypes
<1>3. CASE MoveKey
  <2>1. PICK k \in todo : /\ todo' = todo \ {k}
                          /\ \/ db' = RedisMigrate(db, mig.from_gid, mig.to_gid, k)
                             \/ UNCHANGED db
    BY <1>3 DEF MoveKey
  <2>2. mig.from_gid \in Gid /\ mig.to_gid \in Gid
    BY <1>3, Records DEF MoveKey, TypeOK, TaskTypes, Holding
  <2>3. db' \in [Gid -> Contents]
    BY <2>1, <2>2, MigrateTypes DEF DataTypes
  <2> QED BY <1>3, <2>1, <2>3 DEF MoveKey, DataTypes
<1>4. CASE MoveEnds
  BY <1>4 DEF MoveEnds, DataTypes
<1>5. CASE MoveBreaks
  BY <1>5 DEF MoveBreaks, DataTypes
<1>6. ASSUME NEW c \in Client, Route(c) PROVE DataTypes'
  BY <1>6, RouteType DEF Route, DataTypes
<1>7. ASSUME NEW c \in Client, MigrateFirst(c) PROVE DataTypes'
  BY <1>7, MoveFirstType
<1>8. ASSUME NEW c \in Client, Execute(c) PROVE DataTypes'
  BY <1>8, ExecuteType
<1>9. ASSUME NEW c \in Client, CommandFails(c) PROVE DataTypes'
  BY <1>9 DEF CommandFails, DataTypes
<1>10. CASE UNCHANGED allVars
  BY <1>10 DEF allVars, DataTypes
<1> QED
  BY <1>1, <1>2, <1>3, <1>4, <1>5, <1>6, <1>7, <1>8, <1>9, <1>10 DEF DataNext

LEMMA DataTypesInit == DataInit => DataTypes
  BY DEF DataInit, DataTypes, Contents

(* Every variable of the keys keeps its type (MigrationData.DataTypeOK):   *)
(* in particular no command is routed by a record that is none, although   *)
(* the caches are filled piecemeal.                                        *)
THEOREM DataTypeCorrect == DataSpec => []DataTypeOK
<1>1. DataInit => DataTypes
  BY DataTypesInit
<1>2. TypeOK /\ DataTypes /\ [DataNext]_allVars => DataTypes'
  BY DataTypesNext
<1>3. TypeOK /\ DataTypes => DataTypeOK
  BY DEF DataTypes, DataTypeOK
<1> QED BY <1>1, <1>2, <1>3, Refines, TypeCorrect, PTL DEF DataSpec

-----------------------------------------------------------------------------
(* The source is not written any more.                                     *)

\* A step that takes the task past the barrier of PRE_MIGRATE, or finds it
\* there, undisturbed.
LEMMA PassBarrier ==
  ASSUME TypeOK, [Next]_vars, PastPreBarrier', ~disturbed'
  PROVE  /\ ~disturbed /\ UNCHANGED <<cur, mig>>
         /\ \/ PastPreBarrier
            \/ pc = "await" /\ pc' = "setMigrate" /\ slot.status = "PRE_MIGRATE"
<1> USE DEF PastPreBarrier, taskVars, taskLocal, historyVars, callVars, outsideTask, notRecords, outsideClients
<1>1. CASE AwaitOpen
  BY <1>1 DEF AwaitOpen, AfterAwait
<1>2. CASE TaskStart \/ ReadSlot \/ SkipSameGroup \/ NoRecord \/ AwaitTimeout \/ SetBarrierSlot
  <2>1. CASE ReadSlot
    <3>1. zkSlot[cur] \in SlotRecord
      BY DEF TypeOK, ZkTypes, TaskTypes
    <3>2. slot'.status = "PRE_MIGRATE" /\ pc' = "fresh"
      BY <2>1, <3>1 DEF ReadSlot, SlotRecord
    <3> QED BY <3>2
  <2> QED
    BY <1>2, <2>1 DEF TaskStart, SkipSameGroup, NoRecord, AwaitTimeout, SetBarrierSlot
<1>3. CASE FreshClear \/ FreshChildren \/ FreshAdd \/ FreshDone
  BY <1>3 DEF FreshClear, FreshChildren, FreshAdd, FreshDone
<1>4. CASE SetMigrate \/ SetRecord \/ MoveDone \/ MoveConnFails \/ MoveFails
  BY <1>4 DEF SetMigrate, SetRecord, MoveDone, MoveConnFails, MoveFails, Post
<1>5. CASE DelRecord \/ MarkError
  BY <1>5 DEF DelRecord, MarkError, NextSlot
<1>6. CASE ListenerStep
  BY <1>6 DEF ListenerStep, AdminLoad, UpdatedEvent, RemovedEvent, CountDown
<1>7. CASE ClientStep
  BY <1>7 DEF ClientStep, WatchSlot, Fetch, LoadRead, LoadPut, LoadLost, Apply, Ack
<1>8. CASE Submit \/ OverlapStep \/ DelTask \/ Crash
  BY <1>8, OverlapFrame DEF Submit, DelTask, Crash, OverlapPost
<1>9. CASE \E c \in Client : AdminEdit(c) \/ Register(c) \/ Expire(c) \/ Leave(c)
  <2>1. Disturb /\ UNCHANGED <<pc, cur, mig, slot>>
    BY <1>9 DEF AdminEdit, Register, Expire, Leave
  <2>2. ~disturbed
    BY <2>1 DEF Disturb
  <2> QED BY <2>1, <2>2
<1>10. CASE UNCHANGED vars
  BY <1>10 DEF vars
<1> QED
  BY <1>1, <1>2, <1>3, <1>4, <1>5, <1>6, <1>7, <1>8, <1>9, <1>10
     DEF Next, TaskStep, ProtocolStep, Environment

\* A command that goes on, or that ends.
Kept(c) ==
  \/ cmd'[c] = Null
  \/ /\ cmd[c] # Null
     /\ cmd'[c].key = cmd[c].key /\ cmd'[c].slot = cmd[c].slot /\ cmd'[c].op = cmd[c].op
     /\ cmd[c].moved => cmd'[c].moved

\* A command that begins.
Routed(c) ==
  /\ c \in Running /\ UNCHANGED <<vars, db, loopVars, truth, late>>
  /\ cmd'[c].key \in Key /\ cmd'[c].slot = slotMap[c][KeySlot[cmd'[c].key]]
  /\ cmd'[c].slot # Null
  /\ cmd'[c].op = "set" => cmd'[c].slot.status # "PRE_MIGRATE"
  /\ cmd'[c].moved <=> cmd'[c].slot.status # "MIGRATE"

LEMMA CmdStep ==
  ASSUME DataTypes, [DataNext]_allVars, NEW c \in Client
  PROVE  Kept(c) \/ Routed(c)
<1>1. ASSUME NEW d \in Client, Route(d) PROVE Kept(c) \/ Routed(c)
  <2>1. CASE c = d
    <3>1. PICK op \in Ops, k \in Key, v \in Value :
            /\ slotMap[c][KeySlot[k]] # Null
            /\ op = "set" => slotMap[c][KeySlot[k]].status # "PRE_MIGRATE"
            /\ cmd' = [cmd EXCEPT ![c] =
                         [op |-> op, key |-> k, val |-> v, slot |-> slotMap[c][KeySlot[k]],
                          moved |-> slotMap[c][KeySlot[k]].status # "MIGRATE"]]
      <4>1. Route(c)
        BY <1>1, <2>1
      <4> QED BY <4>1, Zenon DEF Route, RunsAsWrite
    <3>2. cmd'[c] = [op |-> op, key |-> k, val |-> v, slot |-> slotMap[c][KeySlot[k]],
                     moved |-> slotMap[c][KeySlot[k]].status # "MIGRATE"]
      BY <3>1 DEF DataTypes
    <3>3. c \in Running /\ UNCHANGED <<vars, db, loopVars, truth, late>>
      BY <1>1, <2>1 DEF Route
    <3>4. cmd'[c].moved <=> slotMap[c][KeySlot[k]].status # "MIGRATE"
      <4> DEFINE b == slotMap[c][KeySlot[k]].status # "MIGRATE"
      <4>1. cmd'[c] = [op |-> op, key |-> k, val |-> v, slot |-> slotMap[c][KeySlot[k]],
                       moved |-> b]
        BY <3>2
      <4> HIDE DEF b
      <4>2. cmd'[c].moved = b
        BY <4>1
      <4> QED BY <4>2 DEF b
    <3>5. cmd'[c].op = op /\ cmd'[c].key = k /\ cmd'[c].slot = slotMap[c][KeySlot[k]]
      BY <3>2
    <3> QED BY <3>1, <3>3, <3>4, <3>5 DEF Routed
  <2>2. CASE c # d
    BY <1>1, <2>2 DEF Route, DataTypes, Kept
  <2> QED BY <2>1, <2>2
<1>2. ASSUME NEW d \in Client, MigrateFirst(d) PROVE Kept(c)
  BY <1>2 DEF MigrateFirst, DataTypes, Kept, Command
<1>3. ASSUME NEW d \in Client, Execute(d) \/ CommandFails(d) PROVE Kept(c)
  BY <1>3 DEF Execute, CommandFails, DataTypes, Kept
<1>4. CASE Protocol
  BY <1>4 DEF Protocol, Kept
<1>5. CASE ListKeys \/ MoveKey \/ MoveEnds \/ MoveBreaks \/ UNCHANGED allVars
  BY <1>5 DEF ListKeys, MoveKey, MoveEnds, MoveBreaks, allVars, dataVars, Kept
<1> QED BY <1>1, <1>2, <1>3, <1>4, <1>5 DEF DataNext

\* Past the barrier, unless a command outlived it, every command on the slot
\* goes by a record of the migration.
HeardInv ==
  PastPreBarrier /\ ~late /\ ~disturbed =>
    \A c \in Client : cmd[c] # Null /\ KeySlot[cmd[c].key] = cur => Told(cmd[c].slot)

\* A write is not sent in PRE_MIGRATE; only in MIGRATE is a key moved first.
CmdInv ==
  \A c \in Client : cmd[c] # Null =>
    /\ cmd[c].op = "set" => cmd[c].slot.status # "PRE_MIGRATE"
    /\ ~cmd[c].moved => cmd[c].slot.status = "MIGRATE"

TwoGroups == pc \in Holding => mig.from_gid # mig.to_gid

DrainInv == HeardInv /\ CmdInv /\ TwoGroups

\* The actions of the commands and of the key loop, but its end, are
\* stutters of the protocol; and a step that passes the barrier is Protocol.
LEMMA DataFrame ==
  ASSUME [DataNext]_allVars
  PROVE  \/ Protocol
         \/ UNCHANGED <<vars, late>>
         \/ (MoveEnds \/ MoveBreaks) /\ UNCHANGED late
  BY DEF DataNext, ListKeys, MoveKey, MoveEnds, MoveBreaks, Route, MigrateFirst,
     Execute, CommandFails, allVars, dataVars

LEMMA HeardNext ==
  ASSUME IInv, DataTypes, HeardInv, [DataNext]_allVars
  PROVE  HeardInv'
<1> SUFFICES ASSUME PastPreBarrier', ~late', ~disturbed', NEW c \in Client,
                    cmd'[c] # Null, KeySlot[cmd'[c].key] = cur'
             PROVE  Told(cmd[c].slot)'
  BY DEF HeardInv
<1>1. TypeOK /\ [Next]_vars
  BY StepRefines DEF IInv
<1>2. /\ ~disturbed /\ cur' = cur /\ mig' = mig
      /\ \/ PastPreBarrier
         \/ pc = "await" /\ pc' = "setMigrate" /\ slot.status = "PRE_MIGRATE"
  BY <1>1, PassBarrier
<1>3. Active /\ EpochInv
  BY <1>2 DEF PastPreBarrier, Active, Epoch, IInv
<1>4. ~late
  BY DataFrame DEF Protocol
<1>5. SUFFICES Told(cmd'[c].slot)
  BY <1>2 DEF Told
<1>6. CASE PastPreBarrier
  <2>1. CASE Kept(c)
    <3>1. cmd[c] # Null /\ KeySlot[cmd[c].key] = cur /\ cmd'[c].slot = cmd[c].slot
      BY <1>2, <2>1 DEF Kept
    <3> QED BY <1>2, <1>4, <1>6, <3>1 DEF HeardInv
  <2>2. CASE Routed(c)
    <3>1. c \in clients
      BY <1>3, <2>2 DEF Routed, EpochInv, Members
    <3>2. Told(slotMap[c][cur])
      BY <1>3, <1>6, <3>1 DEF EpochInv, RouteInv, OnTheWay
    <3> QED BY <1>2, <2>2, <3>2 DEF Routed
  <2> QED BY <2>1, <2>2, CmdStep
<1>7. CASE pc = "await" /\ pc' = "setMigrate" /\ slot.status = "PRE_MIGRATE"
  <2>1. Protocol
    BY <1>7, DataFrame DEF vars, taskVars, MoveEnds, MoveBreaks, MoveDone,
       MoveConnFails, MoveFails
  <2>2. ~Outlived /\ cmd'[c] = cmd[c]
    BY <2>1 DEF Protocol
  <2>3. cmd[c].slot = slot
    BY <1>2, <1>7, <2>2 DEF Outlived
  <2>4. slot.to_gid = mig.to_gid
    BY <1>3, <1>7 DEF EpochInv, SlotInv
  <2> QED BY <1>7, <2>2, <2>3, <2>4 DEF Told
<1> QED BY <1>2, <1>6, <1>7

LEMMA TwoGroupsNext ==
  ASSUME TypeOK, TwoGroups, [Next]_vars
  PROVE  TwoGroups'
<1> USE DEF TwoGroups, Holding, taskVars, taskLocal, outsideTask, notRecords, outsideClients
<1>1. CASE ReadSlot
  BY <1>1 DEF ReadSlot
<1>2. CASE TaskStart \/ SkipSameGroup \/ NoRecord \/ SetBarrierSlot \/ AwaitOpen \/ AwaitTimeout
  BY <1>2 DEF TaskStart, SkipSameGroup, NoRecord, SetBarrierSlot, AwaitOpen,
     AwaitTimeout, AfterAwait
<1>3. CASE FreshClear \/ FreshChildren \/ FreshAdd \/ FreshDone
  BY <1>3 DEF FreshClear, FreshChildren, FreshAdd, FreshDone
<1>4. CASE SetMigrate \/ SetRecord \/ MoveDone \/ MoveConnFails \/ MoveFails
  BY <1>4 DEF SetMigrate, SetRecord, MoveDone, MoveConnFails, MoveFails, Post
<1>5. CASE DelRecord \/ MarkError
  BY <1>5 DEF DelRecord, MarkError, NextSlot
<1>6. CASE ListenerStep
  BY <1>6 DEF ListenerStep, AdminLoad, UpdatedEvent, RemovedEvent, CountDown
<1>7. CASE ClientStep
  BY <1>7 DEF ClientStep, WatchSlot, Fetch, LoadRead, LoadPut, LoadLost, Apply, Ack
<1>8. CASE Environment
  BY <1>8, OverlapFrame DEF Environment, Submit, OverlapPost, DelTask, Crash,
     AdminEdit, Register, Expire, Leave
<1>9. CASE UNCHANGED vars
  BY <1>9 DEF vars
<1> QED
  BY <1>1, <1>2, <1>3, <1>4, <1>5, <1>6, <1>7, <1>8, <1>9 DEF Next, TaskStep, ProtocolStep

LEMMA DrainNext == IInv /\ DataTypes /\ DrainInv /\ [DataNext]_allVars => DrainInv'
<1> SUFFICES ASSUME IInv, DataTypes, DrainInv, [DataNext]_allVars PROVE DrainInv'
  OBVIOUS
<1>1. HeardInv'
  BY HeardNext DEF DrainInv
<1>2. CmdInv'
  <2> SUFFICES ASSUME NEW c \in Client, cmd'[c] # Null
               PROVE  /\ cmd'[c].op = "set" => cmd'[c].slot.status # "PRE_MIGRATE"
                      /\ ~cmd'[c].moved => cmd'[c].slot.status = "MIGRATE"
    BY DEF CmdInv
  <2> QED BY CmdStep DEF DrainInv, CmdInv, Kept, Routed
<1>3. TwoGroups'
  BY TwoGroupsNext, StepRefines DEF DrainInv, IInv
<1> QED BY <1>1, <1>2, <1>3 DEF DrainInv

\* MIGRATE of a key leaves the other keys alone, and gives nothing to the
\* group that it does not name as the destination.
LEMMA MigrateGives ==
  ASSUME NEW d \in [Gid -> Contents], NEW f, NEW h, NEW k \in Key,
         NEW g \in Gid, NEW x \in Key, d[g][x] = Null, ~(x = k /\ g = h)
  PROVE  RedisMigrate(d, f, h, k)[g][x] = Null
<1>1. CASE d[f][k] # Null /\ d[h][k] = Null
  <2>1. RedisMigrate(d, f, h, k)[g] = [d[g] EXCEPT ![k] = CASE g = f -> Null
                                                           [] g = h -> d[f][k]
                                                           [] OTHER -> @]
    BY <1>1 DEF RedisMigrate
  <2>2. d[g] \in [Key -> Value \cup {Null}]
    BY DEF Contents
  <2> QED BY <2>1, <2>2
<1>2. CASE ~(d[f][k] # Null /\ d[h][k] = Null)
  BY <1>2 DEF RedisMigrate
<1> QED BY <1>1, <1>2

(* Once the keys are listed nobody writes the source any more              *)
(* (MigrationData.SourceDrains): whatever fails in ZooKeeper, in Redis or  *)
(* in the administration, as long as the barrier itself was not disturbed  *)
(* and no command outlived it.                                             *)
THEOREM SourceDrained == DataSpec => SourceDrains
<1> DEFINE Drains ==
  pc = "move" /\ pc' = "move" /\ ~late /\ ~disturbed =>
    \A k \in Key :
      KeySlot[k] = cur /\ db[mig.from_gid][k] = Null
        => db'[mig.from_gid][k] = Null
<1>1. ASSUME IInv, DataTypes, DrainInv, [DataNext]_allVars PROVE Drains
  <2> SUFFICES ASSUME pc = "move", pc' = "move", ~late, ~disturbed, NEW k \in Key,
                      KeySlot[k] = cur, db[mig.from_gid][k] = Null
               PROVE  db'[mig.from_gid][k] = Null
    OBVIOUS
  <2>1. mig.from_gid \in Gid /\ mig.to_gid \in Gid /\ mig.from_gid # mig.to_gid
    BY <1>1, Records DEF IInv, TypeOK, TaskTypes, Holding, DrainInv, TwoGroups
  <2>2. ASSUME NEW c \in Client, cmd[c] # Null, cmd[c].key = k PROVE Told(cmd[c].slot)
    BY <1>1, <2>2 DEF DrainInv, HeardInv, PastPreBarrier
  <2>3. CASE MoveKey
    <3>1. PICK y \in todo : \/ db' = RedisMigrate(db, mig.from_gid, mig.to_gid, y)
                            \/ UNCHANGED db
      BY <2>3 DEF MoveKey
    <3> QED BY <1>1, <2>1, <3>1, MigrateGives DEF DataTypes
  <2>4. ASSUME NEW c \in Client, MigrateFirst(c) PROVE db'[mig.from_gid][k] = Null
    <3>1. cmd[c] \in Command /\ cmd[c].key \in Key /\ cmd[c] # Null
      BY <1>1, <2>4 DEF MigrateFirst, DataTypes, Command
    <3>2. cmd[c].key = k => cmd[c].slot.to_gid # mig.from_gid
      BY <2>1, <2>2, <3>1 DEF Told
    <3> QED BY <1>1, <2>1, <2>4, <3>1, <3>2, MigrateGives DEF MigrateFirst, DataTypes
  <2>5. ASSUME NEW c \in Client, Execute(c) PROVE db'[mig.from_gid][k] = Null
    <3> DEFINE t == Target(cmd[c].slot)
    <3>1. cmd[c] \in Command /\ cmd[c].key \in Key /\ cmd[c] # Null
          /\ cmd[c].op \in {"get", "set", "del"}
      BY <1>1, <2>5, DataAssumption DEF Execute, DataTypes, Command
    <3>2. db' = [db EXCEPT ![t][cmd[c].key] = After(cmd[c].op, db[t][cmd[c].key], cmd[c].val)]
      BY <2>5 DEF Execute
    <3>3. CASE cmd[c].key = k /\ t = mig.from_gid
      <4>1. cmd[c].slot.status = "PRE_MIGRATE"
        BY <2>1, <2>2, <3>1, <3>3 DEF Told, Target
      <4>2. cmd[c].op # "set"
        BY <1>1, <3>1, <4>1 DEF DrainInv, CmdInv
      <4>3. After(cmd[c].op, Null, cmd[c].val) = Null
        BY <3>1, <4>2 DEF After
      <4> HIDE DEF t
      <4> QED BY <1>1, <2>1, <3>2, <3>3, <4>3 DEF DataTypes, Contents
    <3>4. CASE ~(cmd[c].key = k /\ t = mig.from_gid)
      <4> HIDE DEF t
      <4> QED BY <1>1, <2>1, <3>2, <3>4 DEF DataTypes, Contents
    <3> QED BY <3>3, <3>4
  <2>6. CASE UNCHANGED db
    BY <2>6
  <2> QED
    BY <1>1, <2>3, <2>4, <2>5, <2>6 DEF DataNext, Protocol, ListKeys, MoveEnds,
       MoveBreaks, Route, CommandFails, allVars, dataVars
<1>2. DataInit => DrainInv
  BY DEF DataInit, Init, DrainInv, HeardInv, PastPreBarrier, CmdInv, TwoGroups, Holding
<1>3. DataSpec => []IInv
  BY Refines, Invariant, PTL
<1>4. DataInit => DataTypes
  BY DataTypesInit
<1>5. IInv /\ DataTypes /\ [DataNext]_allVars => DataTypes'
  BY DataTypesNext DEF IInv
<1> QED BY <1>1, <1>2, <1>3, <1>4, <1>5, DrainNext, PTL DEF DataSpec, SourceDrains

-----------------------------------------------------------------------------
(* The records that clients go by, while every migration succeeds.         *)

\* Neither the task, ZooKeeper nor Redis fails, and nothing is deleted.
Reliable ==
  /\ Faults \cap {"crash", "zkLoss", "connFail", "moveFail"} = {}
  /\ "keyFail" \notin DataFaults
  /\ Ops \subseteq {"get", "set"}

\* fresh() is under way.
Refreshing == pc \in {"fresh", "children", "fill", "set"}

\* The keys are on their way, or have just been moved.
Leaving == \/ pc \in {"setRecord", "move"}
           \/ (Refreshing \/ pc = "await") /\ slot.status = "ONLINE"

\* A record of the migration in hand; its source is the group that the task
\* asks for the keys, unless the task goes by an outdated record.
Outbound(rec) ==
  rec.to_gid = mig.to_gid /\ (~outdated => rec.src_gid = mig.from_gid)

\* A record of slot s that a client may still go by: the current one, the
\* one before the migration until the first barrier has opened, and those of
\* the migration until the second one has.
Fits(s, rec) ==
  \/ rec = zkSlot[s]
  \/ s = cur /\ pc = "await" /\ slot.status = "PRE_MIGRATE" /\ rec = Online(zkSlot[s].src_gid)
  \/ /\ s = cur /\ Leaving
     /\ rec.status \in {"PRE_MIGRATE", "MIGRATE"} /\ Outbound(rec)

\* The same of the state after a step.
StillFits(s, rec) ==
  \/ rec = zkSlot'[s]
  \/ /\ s = cur' /\ pc' = "await" /\ slot'.status = "PRE_MIGRATE"
     /\ rec = Online(zkSlot'[s].src_gid)
  \/ /\ s = cur' /\ Leaving'
     /\ rec.status \in {"PRE_MIGRATE", "MIGRATE"}
     /\ rec.to_gid = mig'.to_gid /\ (~outdated' => rec.src_gid = mig'.from_gid)

\* A record that is outdated has been so ever since.
LEMMA OutdatedStays ==
  ASSUME TypeOK, [Next]_vars, outdated
  PROVE  outdated'
<1> USE DEF TypeOK, HistoryTypes, historyVars, callVars, outsideTask, notRecords, outsideClients
<1>1. CASE TaskStep
  BY <1>1 DEF TaskStep, ProtocolStep, TaskStart, ReadSlot, SkipSameGroup, NoRecord,
     FreshClear, FreshChildren, FreshAdd, FreshDone, SetBarrierSlot, AwaitOpen,
     AwaitTimeout, SetMigrate, SetRecord, DelRecord, MarkError, MoveDone,
     MoveConnFails, MoveFails
<1>2. CASE ListenerStep \/ ClientStep \/ UNCHANGED vars
  <2>1. CASE ListenerStep
    <3>1. PICK c \in Client : AdminLoad(c) \/ UpdatedEvent(c) \/ RemovedEvent(c)
      BY <2>1 DEF ListenerStep
    <3> QED BY <3>1 DEF AdminLoad, UpdatedEvent, RemovedEvent
  <2>2. CASE ClientStep
    <3>1. ASSUME NEW c \in Client, Apply(c) \/ Ack(c) PROVE outdated'
      BY <3>1 DEF Apply, Ack
    <3>2. ASSUME NEW c \in Client, NEW s \in SlotId,
                 \/ WatchSlot(c, s) \/ Fetch(c, s)
                 \/ LoadRead(c, s) \/ LoadPut(c, s) \/ LoadLost(c, s)
          PROVE  outdated'
      BY <3>2 DEF WatchSlot, Fetch, LoadRead, LoadPut, LoadLost
    <3> QED BY <2>2, <3>1, <3>2 DEF ClientStep
  <2>3. CASE UNCHANGED vars
    BY <2>3 DEF vars
  <2> QED BY <1>2, <2>1, <2>2, <2>3
<1>3. CASE OverlapStep
  BY <1>3 DEF OverlapStep, OverlapRead, OverlapWrite, OverlapPost, OverlapRefused,
     OverlapUndo
<1>4. CASE Environment /\ ~OverlapStep
  BY <1>4 DEF Environment, Submit, DelTask, Crash, AdminEdit, Register, Expire, Leave
<1> QED BY <1>1, <1>2, <1>3, <1>4 DEF Next

\* Every slot is online but the one that is being migrated.
NodesInv ==
  /\ \A s \in SlotId :
       \/ zkSlot[s] = Online(zkSlot[s].src_gid)
       \/ s = cur /\ (Leaving \/ pc \in {"await", "setMigrate"})
  /\ pc = "setMigrate" => zkSlot[cur].status = "PRE_MIGRATE" /\ zkSlot[cur].to_gid = mig.to_gid
  /\ Refreshing \/ pc = "await" =>
       slot.status = "PRE_MIGRATE" \/ slot = Online(mig.to_gid)
  /\ rethrow = FALSE

LEMMA NodesNext ==
  ASSUME Reliable, TypeOK, OwnerInv, NodesInv, [Next]_vars
  PROVE  NodesInv'
<1> USE DEF NodesInv, Leaving, Refreshing, taskVars, taskLocal, zkVars,
       outsideTask, notRecords, outsideClients
<1>1. zkSlot \in [SlotId -> SlotRecord] /\ cur \in SlotId /\ ~CallLost
      /\ (pc \in Holding => slot \in SlotRecord /\ mig \in MigrateRecord)
  BY DEF TypeOK, ZkTypes, TaskTypes, Reliable, CallLost
<1>2. \A g : Online(g).status = "ONLINE" /\ Online(g).src_gid = g
  BY OnlineRecords
<1>3. CASE ReadSlot
  <2>1. slot'.status = "PRE_MIGRATE" /\ pc = "read" /\ pc' = "fresh"
    BY <1>1, <1>3 DEF ReadSlot, SlotRecord
  <2> QED BY <1>3, <2>1 DEF ReadSlot
<1>4. CASE SetBarrierSlot \/ SetMigrate
  <2>1. zkSlot' = [zkSlot EXCEPT ![cur] = slot] /\ UNCHANGED <<cur, slot, mig, rethrow>>
    BY <1>1, <1>4 DEF SetBarrierSlot, SetMigrate, SetSlot, Write
  <2>2. zkSlot'[cur] = slot /\ \A s \in SlotId \ {cur} : zkSlot'[s] = zkSlot[s]
    BY <1>1, <2>1
  <2>3. \/ pc = "set" /\ pc' = "await"
        \/ pc = "setMigrate" /\ pc' = "setRecord"
    BY <1>4 DEF SetBarrierSlot, SetMigrate
  <2> QED BY <2>1, <2>2, <2>3
<1>5. CASE AwaitOpen \/ AwaitTimeout
  <2>1. pc = "await" /\ AfterAwait /\ UNCHANGED <<zkSlot, cur, mig, rethrow>>
        /\ zkSlot[cur] = slot
    BY <1>5 DEF AwaitOpen, AwaitTimeout, OwnerInv, NodeInv
  <2>2. CASE slot.status = "PRE_MIGRATE"
    <3>1. slot.to_gid = mig.to_gid
      BY <1>2, <2>1, <2>2 DEF OwnerInv, NodeInv, Outward
    <3> QED BY <2>1, <2>2, <3>1 DEF AfterAwait
  <2>3. CASE slot.status # "PRE_MIGRATE"
    BY <1>2, <2>1, <2>3 DEF AfterAwait
  <2> QED BY <2>2, <2>3
<1>6. CASE MoveDone
  <2>1. mig.to_gid \in Gid /\ slot \in SlotRecord
    BY <1>1, <1>6, Records DEF MoveDone, Holding
  <2>2. slot' = Online(mig.to_gid) /\ pc' = "fresh" /\ pc = "move"
    BY <1>6, <2>1, OnlineRecords DEF MoveDone, Post
  <2> QED BY <1>2, <1>6, <2>2 DEF MoveDone
<1>7. CASE MoveConnFails \/ MoveFails \/ Crash
  BY <1>7 DEF Reliable, MoveConnFails, MoveFails, Crash
<1>8. CASE DelRecord \/ MarkError
  BY <1>8 DEF DelRecord, MarkError, NextSlot
<1>9. CASE TaskStart \/ SkipSameGroup \/ NoRecord \/ SetRecord
  BY <1>9 DEF TaskStart, SkipSameGroup, NoRecord, SetRecord
<1>10. CASE FreshClear \/ FreshChildren \/ FreshAdd \/ FreshDone
  BY <1>10 DEF FreshClear, FreshChildren, FreshAdd, FreshDone
<1>11. CASE ListenerStep
  BY <1>11 DEF ListenerStep, AdminLoad, UpdatedEvent, RemovedEvent, CountDown
<1>12. CASE ClientStep
  BY <1>12 DEF ClientStep, WatchSlot, Fetch, LoadRead, LoadPut, LoadLost, Apply, Ack
<1>13. CASE Submit
  BY <1>13 DEF Submit
<1>14. CASE OverlapStep \/ DelTask
  BY <1>14, OverlapFrame DEF OverlapPost, DelTask
<1>15. CASE \E c \in Client : AdminEdit(c) \/ Register(c) \/ Expire(c) \/ Leave(c)
  BY <1>15 DEF AdminEdit, Register, Expire, Leave
<1>16. CASE UNCHANGED vars
  BY <1>16 DEF vars
<1> QED
  BY <1>3, <1>4, <1>5, <1>6, <1>7, <1>8, <1>9, <1>10, <1>11, <1>12, <1>13,
     <1>14, <1>15, <1>16 DEF Next, TaskStep, ProtocolStep, Environment

\* A record that fits goes on fitting, until a barrier opens.
LEMMA FitsNext ==
  ASSUME Reliable, TypeOK, OwnerInv, NodesInv, [Next]_vars, ~disturbed', ~AwaitOpen,
         NEW s \in SlotId, NEW rec, Fits(s, rec)
  PROVE  StillFits(s, rec)
<1> USE DEF Fits, StillFits, Leaving, Refreshing, taskVars, taskLocal, zkVars,
       outsideTask, notRecords, outsideClients
<1>1. zkSlot \in [SlotId -> SlotRecord] /\ cur \in SlotId /\ ~CallLost
  BY DEF TypeOK, ZkTypes, TaskTypes, Reliable, CallLost
<1>2. \A g : Online(g).status = "ONLINE" /\ Online(g).src_gid = g
  BY OnlineRecords
<1>0. outdated => outdated'
  BY OutdatedStays
<1>3. CASE UNCHANGED zkSlot /\ pc \in {"none", "posted", "read", "delRecord", "markError"}
  BY <1>3
<1>4. CASE UNCHANGED <<zkSlot, pc, cur, slot, mig>>
  BY <1>0, <1>4 DEF Outbound
<1>5. CASE ReadSlot \/ TaskStart \/ SkipSameGroup \/ NoRecord
  BY <1>3, <1>5 DEF ReadSlot, TaskStart, SkipSameGroup, NoRecord
<1>6. CASE DelRecord \/ MarkError \/ Submit \/ OverlapPost
  BY <1>3, <1>6 DEF DelRecord, MarkError, Submit, OverlapPost
<1>7. CASE FreshClear \/ FreshChildren \/ FreshAdd \/ FreshDone
  <2>1. Refreshing /\ Refreshing' /\ UNCHANGED <<zkSlot, cur, slot, mig>>
    BY <1>7 DEF FreshClear, FreshChildren, FreshAdd, FreshDone
  <2> QED BY <1>0, <2>1 DEF Outbound
<1>8. CASE SetBarrierSlot
  <2>1. zkSlot' = [zkSlot EXCEPT ![cur] = slot] /\ UNCHANGED <<cur, slot, mig>>
        /\ pc = "set" /\ pc' = "await"
    BY <1>1, <1>8 DEF SetBarrierSlot, SetSlot, Write
  <2>2. CASE s # cur
    BY <1>1, <2>1, <2>2
  <2>3. CASE s = cur /\ slot.status = "PRE_MIGRATE"
    <3>1. zkSlot[cur] = Online(zkSlot[cur].src_gid)
      BY <1>1, <2>1, <2>3 DEF NodesInv
    <3>2. zkSlot'[cur].src_gid = zkSlot[cur].src_gid
      BY <1>1, <1>2, <2>1, <2>3 DEF OwnerInv, NodeInv, Outward
    <3>3. rec = zkSlot[cur]
      BY <2>1, <2>3, <3>1
    <3> QED BY <2>1, <2>3, <3>1, <3>2, <3>3
  <2>4. CASE s = cur /\ slot.status = "ONLINE"
    <3>1. zkSlot[cur].status = "MIGRATE" /\ Outbound(zkSlot[cur])
      BY <2>1, <2>4 DEF OwnerInv, NodeInv, FromInv, Before, Holding, Outbound
    <3> QED BY <1>0, <2>1, <2>4, <3>1 DEF Outbound
  <2> QED BY <1>2, <2>1, <2>2, <2>3, <2>4 DEF NodesInv
<1>9. CASE SetMigrate
  <2>1. zkSlot' = [zkSlot EXCEPT ![cur] = slot] /\ UNCHANGED <<cur, slot, mig>>
        /\ pc = "setMigrate" /\ pc' = "setRecord"
    BY <1>1, <1>9 DEF SetMigrate, SetSlot, Write
  <2>2. zkSlot[cur].status = "PRE_MIGRATE" /\ Outbound(zkSlot[cur])
    BY <2>1 DEF NodesInv, OwnerInv, FromInv, Before, Holding, Outbound
  <2> QED BY <1>0, <1>1, <2>1, <2>2 DEF Outbound
<1>10. CASE SetRecord
  BY <1>0, <1>10 DEF SetRecord, Outbound
<1>11. CASE MoveDone
  <2>1. mig.to_gid \in Gid /\ slot \in SlotRecord
    BY <1>11, Records DEF MoveDone, TypeOK, TaskTypes, Holding
  <2>2. slot' = Online(mig.to_gid) /\ pc' = "fresh" /\ pc = "move" /\ UNCHANGED <<zkSlot, cur, mig>>
    BY <1>11, <2>1, OnlineRecords DEF MoveDone, Post
  <2> QED BY <1>0, <1>2, <2>2 DEF Outbound
<1>12. CASE MoveConnFails \/ MoveFails \/ Crash \/ AwaitTimeout
  BY <1>12 DEF Reliable, MoveConnFails, MoveFails, Crash, AwaitTimeout
<1>13. CASE ListenerStep
  BY <1>4, <1>13 DEF ListenerStep, AdminLoad, UpdatedEvent, RemovedEvent, CountDown
<1>14. CASE ClientStep
  BY <1>4, <1>14 DEF ClientStep, WatchSlot, Fetch, LoadRead, LoadPut, LoadLost, Apply, Ack
<1>15. CASE (OverlapStep /\ ~OverlapPost) \/ DelTask
  BY <1>4, <1>15, OverlapFrame DEF DelTask
<1>16. CASE \E c \in Client : AdminEdit(c) \/ Register(c) \/ Expire(c) \/ Leave(c)
  BY <1>4, <1>16 DEF AdminEdit, Register, Expire, Leave
<1>17. CASE UNCHANGED vars
  BY <1>4, <1>17 DEF vars
<1> QED
  BY <1>5, <1>6, <1>7, <1>8, <1>9, <1>10, <1>11, <1>12, <1>13, <1>14, <1>15,
     <1>16, <1>17 DEF Next, TaskStep, ProtocolStep, Environment

\* What client c has cached, queued or read of slot s.
CopiesOf(c, s) ==
  /\ slotMap[c][s] # Null => Fits(s, slotMap[c][s])
  /\ queued[c] # Null /\ queued[c].id = s => Fits(s, queued[c].slot)
  /\ loadStep[c][s] = "read" => Fits(s, loaded[c][s])

\* A client that has not been started has nothing yet.
Blank(c) ==
  /\ queued[c] = Null
  /\ \A s \in SlotId : slotMap[c][s] = Null /\ loadStep[c][s] = "unread"

\* All that running clients hold fits.
CopiesInv ==
  /\ \A c \in Running, s \in SlotId : CopiesOf(c, s)
  /\ \A c \in Client : life[c] = "new" => Blank(c)

\* A step of a client at which no call is lost is one of a running client.
LEMMA UnlostStep ==
  ASSUME ClientStep, ~CallLost
  PROVE  \E c \in Running :
           \/ \E s \in SlotId : WatchSlot(c, s) \/ Fetch(c, s) \/ LoadRead(c, s) \/ LoadPut(c, s)
           \/ Apply(c) \/ Ack(c)
<1>1. PICK c \in Client :
        \/ \E s \in SlotId : WatchSlot(c, s) \/ Fetch(c, s) \/ LoadRead(c, s) \/ LoadPut(c, s)
        \/ Apply(c) \/ Ack(c)
  <2>1. \A c \in Client, s \in SlotId : ~LoadLost(c, s)
    BY DEF LoadLost
  <2> QED BY <2>1 DEF ClientStep
<1>2. c \in Running
  <2>1. CASE Apply(c) \/ Ack(c)
    BY <2>1 DEF Apply, Ack
  <2>2. ASSUME NEW s \in SlotId, WatchSlot(c, s) \/ Fetch(c, s)
        PROVE  c \in Running
    BY <2>2 DEF WatchSlot, Fetch
  <2>3. ASSUME NEW s \in SlotId, LoadRead(c, s) \/ LoadPut(c, s)
        PROVE  c \in Running
    BY <2>3 DEF LoadRead, LoadPut
  <2> QED BY <1>1, <2>1, <2>2, <2>3
<1> QED BY <1>1, <1>2

\* The step of a client hands copies on, or takes the current record.
LEMMA CopiesClient ==
  ASSUME TypeOK, CopiesInv, ~CallLost, ClientStep
  PROVE  CopiesInv'
<1>1. PICK d \in Running :
        \/ \E s \in SlotId : WatchSlot(d, s) \/ Fetch(d, s) \/ LoadRead(d, s) \/ LoadPut(d, s)
        \/ Apply(d) \/ Ack(d)
  BY UnlostStep
<1>2. UNCHANGED <<zkSlot, pc, cur, slot, mig, life, outdated>>
  BY <1>1 DEF WatchSlot, Fetch, LoadRead, LoadPut, Apply, Ack, outsideClients,
     zkVars, taskVars, taskLocal, historyVars, callVars
<1>3. \A s, rec : Fits(s, rec) => StillFits(s, rec)
  BY <1>2 DEF Fits, StillFits, Leaving, Refreshing, Outbound
<1>4. \A s : StillFits(s, zkSlot[s])
  BY <1>2 DEF StillFits
<1>5. ASSUME NEW c \in Running, NEW s \in SlotId
      PROVE  /\ slotMap'[c][s] # Null => StillFits(s, slotMap'[c][s])
             /\ queued'[c] # Null /\ queued'[c].id = s => StillFits(s, queued'[c].slot)
             /\ loadStep'[c][s] = "read" => StillFits(s, loaded'[c][s])
  <2>1. CopiesOf(c, s) /\ c \in Client
    BY <1>5 DEF CopiesInv, Running
  <2> DEFINE Now ==
        /\ slotMap'[c][s] # Null => StillFits(s, slotMap'[c][s])
        /\ queued'[c] # Null /\ queued'[c].id = s => StillFits(s, queued'[c].slot)
        /\ loadStep'[c][s] = "read" => StillFits(s, loaded'[c][s])
  <2> USE DEF TypeOK, ClientTypes
  <2>2. ASSUME NEW t \in SlotId, WatchSlot(d, t) PROVE Now
    BY <1>3, <2>1, <2>2 DEF WatchSlot, CopiesOf
  <2>3. ASSUME NEW t \in SlotId, Fetch(d, t) PROVE Now
    BY <1>3, <1>4, <2>1, <2>3 DEF Fetch, CopiesOf
  <2>4. ASSUME NEW t \in SlotId, LoadRead(d, t) PROVE Now
    BY <1>3, <1>4, <2>1, <2>4 DEF LoadRead, CopiesOf
  <2>5. ASSUME NEW t \in SlotId, LoadPut(d, t) PROVE Now
    BY <1>3, <2>1, <2>5 DEF LoadPut, CopiesOf
  <2>6. CASE Apply(d)
    BY <1>3, <2>1, <2>6 DEF Apply, CopiesOf, SlotEvent
  <2>7. CASE Ack(d)
    BY <1>3, <2>1, <2>7 DEF Ack, CopiesOf
  <2> QED BY <1>1, <2>2, <2>3, <2>4, <2>5, <2>6, <2>7
<1>6. \A c \in Running', s \in SlotId : CopiesOf(c, s)'
  BY <1>2, <1>5 DEF CopiesOf, Fits, StillFits, Running, Outbound
<1>7. ASSUME NEW c \in Client, life'[c] = "new" PROVE Blank(c)'
  <2>1. c # d /\ Blank(c)
    BY <1>1, <1>2, <1>7 DEF Running, CopiesInv
  <2> QED
    BY <1>1, <2>1 DEF Blank, WatchSlot, Fetch, LoadRead, LoadPut, Apply, Ack,
       TypeOK, ClientTypes
<1> QED BY <1>6, <1>7 DEF CopiesInv

\* When a barrier opens undisturbed, nobody holds an older record.
LEMMA CopiesOpen ==
  ASSUME Reliable, IInv, IInv', OwnerInv, NodesInv, CopiesInv, AwaitOpen, ~disturbed
  PROVE  CopiesInv'
<1>1. /\ pc = "await" /\ AfterAwait /\ zkSlot[cur] = slot
      /\ UNCHANGED <<zkSlot, zkMigrate, clients, cur, mig, clientVars, outdated, disturbed>>
  BY DEF AwaitOpen, OwnerInv, NodeInv, outsideTask, zkVars, historyVars, callVars
<1>2. UNCHANGED <<life, slotMap, queued, loadStep, loaded, watch>>
  BY <1>1 DEF clientVars
<1>3. TypeOK /\ Epoch /\ EpochInv /\ cur \in SlotId /\ slot \in SlotRecord
  BY <1>1 DEF IInv, Epoch, Active, TypeOK, TaskTypes, Holding
<1>4. \A g : Online(g).status = "ONLINE"
  BY OnlineRecords
<1>5. \/ slot.status = "PRE_MIGRATE" /\ pc' = "setMigrate"
      \/ slot = Online(mig.to_gid) /\ slot' = slot /\ pc' = "delRecord"
  BY <1>1, <1>4 DEF NodesInv, AfterAwait
<1>6. EpochInv'
  BY <1>1, <1>5 DEF IInv, Epoch, Active
<1>7. ASSUME NEW c \in Running, NEW s \in SlotId PROVE CopiesOf(c, s)'
  <2>1. CopiesOf(c, s) /\ c \in clients /\ loadStep[c][s] = "done"
    BY <1>3, <1>7 DEF CopiesInv, EpochInv, Members
  <2>2. \A rec : Fits(s, rec) /\ (s # cur \/ rec = slot) => StillFits(s, rec)
    BY <1>1 DEF Fits, StillFits
  <2>3. CASE s # cur
    BY <1>2, <2>1, <2>2, <2>3 DEF CopiesOf, Fits, StillFits, Outbound
  <2>4. CASE s = cur /\ slot.status = "PRE_MIGRATE" /\ pc' = "setMigrate"
    <3>1. OnTheWay(c)'
      BY <1>1, <1>6, <2>1, <2>4 DEF EpochInv, RouteInv, PastPreBarrier
    <3>2. slotMap[c][cur].status # "ONLINE"
      BY <1>1, <1>2, <3>1 DEF OnTheWay, Told
    <3>3. queued[c] # Null /\ queued[c].id = cur => queued[c].slot.status # "ONLINE"
      BY <1>1, <1>2, <3>1 DEF OnTheWay, Told
    <3>4. \A rec : Fits(cur, rec) /\ rec.status # "ONLINE" => rec = slot
      BY <1>1, <1>4, <2>4 DEF Fits, Leaving, Refreshing
    <3> QED
      BY <1>1, <1>2, <2>1, <2>2, <2>4, <3>2, <3>3, <3>4 DEF CopiesOf, Fits, StillFits, Outbound
  <2>5. CASE s = cur /\ slot = Online(mig.to_gid) /\ slot' = slot /\ pc' = "delRecord"
    <3>1. slot # Null
      BY <1>3, NullAssumption
    <3>2. Confirmed(c)'
      BY <1>1, <1>6, <2>1, <2>5, <3>1 DEF EpochInv, RouteInv
    <3>3. slotMap[c][cur] = slot /\ (queued[c] # Null => queued[c].id # cur)
      BY <1>1, <1>2, <2>5, <3>2 DEF Confirmed
    <3> QED
      BY <1>1, <1>2, <2>1, <2>5, <3>3 DEF CopiesOf, Fits
  <2> QED BY <1>5, <2>3, <2>4, <2>5
<1>8. \A c \in Client : life'[c] = "new" => Blank(c)'
  BY <1>2 DEF CopiesInv, Blank
<1> QED BY <1>2, <1>7, <1>8 DEF CopiesInv, Running

LEMMA CopiesNext ==
  ASSUME Reliable, IInv, IInv', OwnerInv, NodesInv, CopiesInv, [Next]_vars,
         ~disturbed, ~disturbed'
  PROVE  CopiesInv'
<1>1. CASE AwaitOpen
  BY <1>1, CopiesOpen
<1>2. CASE ClientStep
  BY <1>2, CopiesClient DEF Reliable, CallLost, IInv
<1>3. CASE ~AwaitOpen /\ UNCHANGED <<slotMap, queued, loadStep, loaded>>
           /\ \A c \in Client : life'[c] # life[c] => life'[c] = "dead" \/ life[c] = "new"
  <2>1. \A s \in SlotId : \A rec : Fits(s, rec) => StillFits(s, rec)
    BY <1>3, FitsNext DEF IInv
  <2>2. ASSUME NEW c \in Running', NEW s \in SlotId PROVE CopiesOf(c, s)'
    <3>1. CASE c \in Running
      <4>1. CopiesOf(c, s)
        BY <3>1 DEF CopiesInv
      <4> QED BY <1>3, <2>1, <4>1 DEF CopiesOf, Fits, StillFits, Outbound
    <3>2. CASE c \notin Running
      <4>1. c \in Client /\ Blank(c)
        BY <1>3, <2>2, <3>2 DEF Running, CopiesInv
      <4> QED BY <1>3, <4>1 DEF CopiesOf, Blank
    <3> QED BY <3>1, <3>2
  <2>3. \A c \in Client : life'[c] = "new" => Blank(c)'
    BY <1>3 DEF CopiesInv, Blank
  <2> QED BY <2>2, <2>3 DEF CopiesInv
<1> USE DEF outsideTask, notRecords, clientVars
<1>4. CASE TaskStep /\ ~AwaitOpen
  BY <1>3, <1>4 DEF TaskStep, ProtocolStep, TaskStart, ReadSlot,
     SkipSameGroup, NoRecord, FreshClear, FreshChildren, FreshAdd, FreshDone,
     AwaitTimeout, SetBarrierSlot, SetMigrate, SetRecord, DelRecord, MarkError,
     MoveDone, MoveConnFails, MoveFails
<1>5. CASE ~AwaitOpen /\ ListenerStep
  BY <1>3, <1>5 DEF ListenerStep, AdminLoad, UpdatedEvent, RemovedEvent
<1>6. CASE ~AwaitOpen /\ Environment
  <2>1. IInv => TypeOK
    BY DEF IInv
  <2>2. UNCHANGED <<slotMap, queued, loadStep, loaded>>
    BY <1>6, OverlapFrame DEF Environment, Submit, DelTask, Crash, AdminEdit,
       Register, Expire, Leave
  <2>3. \A c \in Client : life'[c] # life[c] => life'[c] = "dead" \/ life[c] = "new"
    BY <1>6, <2>1, OverlapFrame DEF Environment, Submit, DelTask, Crash,
       AdminEdit, Register, Expire, Leave, TypeOK, ClientTypes
  <2> QED BY <1>3, <1>6, <2>2, <2>3
<1>7. CASE ~AwaitOpen /\ UNCHANGED vars
  BY <1>3, <1>7 DEF vars
<1> QED BY <1>1, <1>2, <1>4, <1>5, <1>6, <1>7 DEF Next

-----------------------------------------------------------------------------
(* Where the keys are.                                                     *)

\* The group that the current record of its slot sends k to.
Home(k) == Target(zkSlot[KeySlot[k]])

\* The last value of k is on group g, and nothing is anywhere else.
At(k, g) == \A x \in Gid : db[x][k] = IF x = g THEN truth[k] ELSE Null

\* The same of the state after a step.
StillAt(k, g) == \A x \in Gid : db'[x][k] = IF x = g THEN truth'[k] ELSE Null

\* A key is at home, or at the source of its slot while that is in MIGRATE;
\* one that the task has moved is at home.
KeyInv(k) ==
  /\ \/ At(k, Home(k))
     \/ zkSlot[KeySlot[k]].status = "MIGRATE" /\ At(k, zkSlot[KeySlot[k]].src_gid)
  /\ KeySlot[k] = cur =>
       /\ pc = "move" /\ listed /\ k \notin todo => At(k, Home(k))
       /\ Refreshing /\ slot.status = "ONLINE" => At(k, Home(k))

\* A command goes by a record that fits, and has brought its key home if
\* that record told it to.
CmdFits(c) ==
  cmd[c] # Null =>
    /\ Fits(KeySlot[cmd[c].key], cmd[c].slot)
    /\ cmd[c].slot.status = "MIGRATE" /\ cmd[c].moved => At(cmd[c].key, Home(cmd[c].key))

KeysInv ==
  ~late /\ ~outdated =>
    (\A k \in Key : KeyInv(k)) /\ (\A c \in Client : CmdFits(c))

\* The key loop is about the slot in hand.
LoopInv == listed => pc = "move" /\ \A k \in todo : KeySlot[k] = cur

\* What the records say about the home of a slot's keys.
LEMMA HomeFacts ==
  ASSUME TypeOK, OwnerInv, NodesInv, NEW s \in SlotId, NEW rec, Fits(s, rec)
  PROVE  /\ rec.status = "MIGRATE" =>
              /\ s = cur /\ pc \in Holding /\ Outbound(rec)
              /\ Target(zkSlot[s]) = mig.to_gid
         /\ rec.status = "ONLINE" =>
              Target(zkSlot[s]) = rec.src_gid /\ zkSlot[s].status # "MIGRATE"
<1> USE DEF Holding, Refreshing, Leaving
<1>1. \A g : Online(g).status = "ONLINE" /\ Online(g).src_gid = g
  BY OnlineRecords
<1>2. /\ pc \in {"setRecord", "move"} =>
           zkSlot[cur].status = "MIGRATE" /\ Outbound(zkSlot[cur])
      /\ Refreshing /\ slot.status = "ONLINE" =>
           zkSlot[cur].status = "MIGRATE" /\ Outbound(zkSlot[cur])
      /\ pc = "await" /\ slot.status = "ONLINE" =>
           zkSlot[cur].status = "ONLINE" /\ zkSlot[cur].src_gid = mig.to_gid
      /\ pc = "await" /\ slot.status = "PRE_MIGRATE" =>
           zkSlot[cur].status = "PRE_MIGRATE"
      /\ pc = "setMigrate" => zkSlot[cur].status = "PRE_MIGRATE"
  BY <1>1 DEF OwnerInv, NodeInv, NodesInv, FromInv, Before, Outward, Outbound
<1>3. zkSlot[s].status # "ONLINE" => s = cur /\ (Leaving \/ pc \in {"await", "setMigrate"})
  BY <1>1 DEF NodesInv
<1>4. pc = "await" => slot.status \in {"PRE_MIGRATE", "ONLINE"}
  BY <1>1 DEF NodesInv
<1>5. CASE rec = zkSlot[s]
  BY <1>2, <1>3, <1>4, <1>5 DEF Target, Outbound
<1>6. CASE s = cur /\ pc = "await" /\ slot.status = "PRE_MIGRATE" /\ rec = Online(zkSlot[s].src_gid)
  BY <1>1, <1>2, <1>6 DEF Target
<1>7. CASE s = cur /\ Leaving /\ rec.status \in {"PRE_MIGRATE", "MIGRATE"} /\ Outbound(rec)
  BY <1>2, <1>7 DEF Target, Outbound
<1> QED BY <1>5, <1>6, <1>7 DEF Fits

\* MIGRATE brings a key home, and concerns no other.
LEMMA AtMigrate ==
  ASSUME DataTypes, NEW f \in Gid, NEW h \in Gid, f # h, NEW k \in Key,
         db' = RedisMigrate(db, f, h, k), truth' = truth
  PROVE  /\ At(k, f) \/ At(k, h) => StillAt(k, h)
         /\ \A y \in Key \ {k} : \A g : At(y, g) => StillAt(y, g)
<1>1. CASE db[f][k] # Null /\ db[h][k] = Null
  <2>1. ASSUME NEW x \in Gid, NEW y \in Key
        PROVE  db'[x][y] = IF y # k THEN db[x][y]
                           ELSE IF x = f THEN Null ELSE IF x = h THEN db[f][k] ELSE db[x][y]
    <3>1. db'[x] = [db[x] EXCEPT ![k] = CASE x = f -> Null
                                          [] x = h -> db[f][k]
                                          [] OTHER -> db[x][k]]
      BY <1>1 DEF RedisMigrate
    <3>2. db[x] \in [Key -> Value \cup {Null}]
      BY DEF DataTypes, Contents
    <3> QED BY <3>1, <3>2
  <2> QED BY <1>1, <2>1 DEF At, StillAt
<1>2. CASE ~(db[f][k] # Null /\ db[h][k] = Null)
  <2>1. db' = db
    BY <1>2 DEF RedisMigrate
  <2> QED BY <1>2, <2>1 DEF At, StillAt
<1> QED BY <1>1, <1>2

\* A step that leaves the protocol alone and takes keys home, if anywhere.
LEMMA KeysFrame ==
  ASSUME DataTypes, CopiesInv, KeysInv, UNCHANGED <<vars, listed, late>>,
         \A y \in Key : StillAt(y, Home(y)) \/ \A g : At(y, g) => StillAt(y, g),
         \A y \in todo : y \in todo' \/ StillAt(y, Home(y)),
         \A c \in Client :
           \/ Routed(c)
           \/ /\ Kept(c)
              /\ cmd'[c] # Null /\ cmd'[c].moved =>
                   cmd[c].moved \/ StillAt(cmd[c].key, Home(cmd[c].key))
  PROVE  KeysInv'
<1> SUFFICES ASSUME ~late', ~outdated'
             PROVE  (\A k \in Key : KeyInv(k)') /\ (\A c \in Client : CmdFits(c)')
  BY DEF KeysInv
<1>1. ~late /\ ~outdated /\ UNCHANGED <<zkSlot, pc, cur, slot, mig, slotMap, outdated>>
  BY DEF vars, zkVars, taskVars, taskLocal, clientVars, historyVars, callVars
<1>2. \A k \in Key : Home(k)' = Home(k)
  BY <1>1 DEF Home, Target
<1>3. \A k \in Key : At(k, Home(k)) => StillAt(k, Home(k))
  OBVIOUS
<1>4. ASSUME NEW k \in Key PROVE KeyInv(k)'
  <2>1. KeyInv(k)
    BY <1>1, <1>4 DEF KeysInv
  <2>2. StillAt(k, Home(k)) <=> At(k, Home(k))'
    BY <1>2, <1>4 DEF At, StillAt
  <2>3. CASE StillAt(k, Home(k))
    BY <2>2, <2>3 DEF KeyInv
  <2>4. CASE ~StillAt(k, Home(k))
    <3>1. zkSlot[KeySlot[k]].status = "MIGRATE" /\ StillAt(k, zkSlot[KeySlot[k]].src_gid)
      BY <1>3, <2>1, <2>4 DEF KeyInv
    <3>2. ~(KeySlot[k] = cur /\ Refreshing /\ slot.status = "ONLINE")
          /\ ~(KeySlot[k] = cur /\ pc = "move" /\ listed /\ k \notin todo)
      BY <1>3, <2>1, <2>4 DEF KeyInv
    <3>3. k \notin todo' => k \notin todo
      BY <2>4
    <3> QED BY <1>1, <3>1, <3>2, <3>3 DEF KeyInv, At, StillAt, Refreshing
  <2> QED BY <2>3, <2>4
<1>5. ASSUME NEW c \in Client, cmd'[c] # Null
      PROVE  /\ Fits(KeySlot[cmd'[c].key], cmd'[c].slot)
             /\ cmd'[c].slot.status = "MIGRATE" /\ cmd'[c].moved =>
                  StillAt(cmd'[c].key, Home(cmd'[c].key))
  <2>1. CASE Routed(c)
    <3>1. KeySlot[cmd'[c].key] \in SlotId
      BY <2>1, DataAssumption DEF Routed
    <3> QED BY <2>1, <3>1 DEF Routed, CopiesInv, CopiesOf
  <2>2. CASE Kept(c) /\ (cmd'[c].moved => cmd[c].moved \/ StillAt(cmd[c].key, Home(cmd[c].key)))
    <3>1. cmd[c] # Null /\ cmd'[c].key = cmd[c].key /\ cmd'[c].slot = cmd[c].slot
      BY <1>5, <2>2 DEF Kept
    <3>2. CmdFits(c) /\ cmd[c].key \in Key
      BY <1>1, <1>5, <3>1 DEF KeysInv, DataTypes, Command
    <3> QED BY <1>3, <2>2, <3>1, <3>2 DEF CmdFits
  <2> QED BY <1>5, <2>1, <2>2
<1>6. ASSUME NEW c \in Client PROVE CmdFits(c)'
  <2> SUFFICES ASSUME cmd'[c] # Null
               PROVE  (Fits(KeySlot[cmd[c].key], cmd[c].slot)
                        /\ (cmd[c].slot.status = "MIGRATE" /\ cmd[c].moved
                              => At(cmd[c].key, Home(cmd[c].key))))'
    BY DEF CmdFits
  <2> DEFINE k == cmd'[c].key
             rec == cmd'[c].slot
  <2>1. /\ Fits(KeySlot[k], rec)
        /\ rec.status = "MIGRATE" /\ cmd'[c].moved => StillAt(k, Home(k))
    BY <1>5
  <2>2. Fits(KeySlot[cmd[c].key], cmd[c].slot)'
    <3>1. StillFits(KeySlot[k], rec)
      <4> HIDE DEF k, rec
      <4> QED BY <1>1, <2>1 DEF Fits, StillFits, Leaving, Refreshing, Outbound
    <3> QED BY <3>1 DEF Fits, StillFits, Leaving, Refreshing, Outbound
  <2>3. (cmd[c].slot.status = "MIGRATE" /\ cmd[c].moved => At(cmd[c].key, Home(cmd[c].key)))'
    BY <1>1, <2>1 DEF At, StillAt, Home, Target
  <2> QED BY <2>2, <2>3
<1> QED BY <1>4, <1>6

\* All that the keys rest on, at a moment when nothing was disturbed.
Base == /\ IInv /\ OwnerInv /\ NodesInv /\ CopiesInv
        /\ DataTypes /\ DrainInv /\ LoopInv

\* At the source or at home, when the slot is in MIGRATE.
LEMMA KeyPlaces ==
  ASSUME Base, KeysInv, ~late, ~outdated, NEW k \in Key
  PROVE  /\ KeySlot[k] \in SlotId /\ Home(k) = Target(zkSlot[KeySlot[k]])
         /\ zkSlot[KeySlot[k]].status # "MIGRATE" => At(k, Home(k))
         /\ KeySlot[k] = cur /\ Home(k) = mig.to_gid =>
              At(k, mig.from_gid) \/ At(k, mig.to_gid)
<1>1. KeySlot[k] \in SlotId /\ KeyInv(k)
  BY DataAssumption DEF KeysInv
<1>2. TypeOK /\ OwnerInv /\ NodesInv
  BY DEF Base, IInv
<1>3. zkSlot[KeySlot[k]].status = "MIGRATE" => zkSlot[KeySlot[k]].src_gid = mig.from_gid
  BY <1>1, <1>2, HomeFacts DEF Fits, Outbound
<1> QED BY <1>1, <1>3 DEF KeyInv, Home

\* A client brings a key home that it meets in MIGRATE.
LEMMA KeysMoveFirst ==
  ASSUME Reliable, Base, KeysInv, [DataNext]_allVars, NEW c \in Client, MigrateFirst(c)
  PROVE  KeysInv'
<1> SUFFICES ASSUME ~late, ~outdated PROVE KeysInv'
  BY DEF MigrateFirst, KeysInv, vars, historyVars, callVars
<1> DEFINE k == cmd[c].key
           rec == cmd[c].slot
<1>1. cmd[c] # Null /\ ~cmd[c].moved /\ k \in Key /\ rec \in SlotRecord
  BY DEF MigrateFirst, Base, DataTypes, Command
<1>2. rec.status = "MIGRATE" /\ Fits(KeySlot[k], rec)
  BY <1>1 DEF Base, DrainInv, CmdInv, KeysInv, CmdFits
<1>3. /\ KeySlot[k] = cur /\ Home(k) = mig.to_gid /\ pc \in Holding
      /\ rec.src_gid = mig.from_gid /\ rec.to_gid = mig.to_gid
  <2>1. KeySlot[k] \in SlotId /\ TypeOK /\ OwnerInv /\ NodesInv
    BY <1>1, DataAssumption DEF Base, IInv
  <2> HIDE DEF k, rec
  <2> QED BY <1>2, <2>1, HomeFacts DEF Home, Outbound
<1>4. mig.from_gid \in Gid /\ mig.to_gid \in Gid /\ mig.from_gid # mig.to_gid
  BY <1>3, Records DEF Base, IInv, TypeOK, TaskTypes, DrainInv, TwoGroups
<1>5. db' = RedisMigrate(db, mig.from_gid, mig.to_gid, k)
  BY <1>3 DEF MigrateFirst, Reliable
<1>6. truth' = truth /\ UNCHANGED <<vars, listed, todo, late>>
  BY DEF MigrateFirst, loopVars
<1>7. At(k, mig.from_gid) \/ At(k, mig.to_gid)
  BY <1>1, <1>3, KeyPlaces
<1>8. StillAt(k, Home(k)) /\ \A y \in Key \ {k} : \A g : At(y, g) => StillAt(y, g)
  BY <1>1, <1>3, <1>4, <1>5, <1>6, <1>7, AtMigrate DEF Base
<1>9. ASSUME NEW d \in Client
      PROVE  /\ Kept(d)
             /\ cmd'[d] # Null /\ cmd'[d].moved =>
                  cmd[d].moved \/ StillAt(cmd[d].key, Home(cmd[d].key))
  <2>1. CASE d = c
    BY <1>8, <2>1, <1>1 DEF MigrateFirst, Kept, Base, DataTypes, Command
  <2>2. CASE d # c
    BY <2>2 DEF MigrateFirst, Kept, Base, DataTypes
  <2> QED BY <2>1, <2>2
<1> HIDE DEF k, rec
<1> QED BY <1>6, <1>8, <1>9, KeysFrame DEF Base

\* A write goes to the home of its key, and finds the key there.
LEMMA KeysExecute ==
  ASSUME Reliable, Base, KeysInv, [DataNext]_allVars, NEW c \in Client, Execute(c)
  PROVE  KeysInv'
<1> SUFFICES ASSUME ~late, ~outdated PROVE KeysInv'
  BY DEF Execute, KeysInv, vars, historyVars, callVars
<1> DEFINE k == cmd[c].key
           rec == cmd[c].slot
           t == Target(rec)
           op == cmd[c].op
           v == cmd[c].val
<1>1. cmd[c] # Null /\ cmd[c].moved /\ k \in Key /\ rec \in SlotRecord /\ op \in {"get", "set"}
  BY DEF Execute, Base, DataTypes, Command, Reliable
<1>2. /\ db' = [db EXCEPT ![t][k] = After(op, db[t][k], v)]
      /\ truth' = [truth EXCEPT ![k] = After(op, truth[k], v)]
      /\ UNCHANGED <<vars, listed, todo, late>>
  BY DEF Execute, loopVars
<1>3. db \in [Gid -> [Key -> Value \cup {Null}]] /\ truth \in [Key -> Value \cup {Null}]
  BY DEF Base, DataTypes, Contents
<1>4. Fits(KeySlot[k], rec) /\ (rec.status = "MIGRATE" => At(k, Home(k)))
  BY <1>1 DEF KeysInv, CmdFits
<1>5. op = "set" => rec.status # "PRE_MIGRATE"
  BY <1>1 DEF Base, DrainInv, CmdInv
<1>6. ASSUME NEW d \in Client PROVE Kept(d) /\ (cmd'[d] # Null => cmd[d].moved \/ ~cmd'[d].moved)
  <2>1. CASE d = c
    BY <2>1 DEF Execute, Kept, Base, DataTypes
  <2>2. CASE d # c
    BY <2>2 DEF Execute, Kept, Base, DataTypes
  <2> QED BY <2>1, <2>2
<1>7. StillAt(k, Home(k)) \/ \A g : At(k, g) => StillAt(k, g)
  <2>1. CASE op = "set"
    <3>1. t = Home(k) /\ At(k, Home(k))
      <4>1. KeySlot[k] \in SlotId /\ TypeOK /\ OwnerInv /\ NodesInv
        BY <1>1, DataAssumption DEF Base, IInv
      <4>2. rec.status \in {"ONLINE", "MIGRATE"}
        BY <1>1, <1>5, <2>1 DEF SlotRecord
      <4>3. CASE rec.status = "MIGRATE"
        <5> HIDE DEF k, rec
        <5> QED BY <1>4, <4>1, <4>3, HomeFacts DEF Home, Target, Outbound
      <4>4. CASE rec.status = "ONLINE"
        <5>1. t = rec.src_gid
          BY <4>4 DEF Target
        <5> HIDE DEF k, rec, t
        <5>2. Target(zkSlot[KeySlot[k]]) = t /\ zkSlot[KeySlot[k]].status # "MIGRATE"
          BY <1>4, <4>1, <4>4, <5>1, HomeFacts
        <5> QED BY <1>1, <5>2, KeyPlaces DEF Home
      <4> QED BY <4>2, <4>3, <4>4
    <3>2. After(op, db[t][k], v) = v /\ After(op, truth[k], v) = v
      BY <2>1 DEF After
    <3> HIDE DEF k, t, op, v
    <3>3. truth'[k] = v /\ \A x \in Gid : db'[x][k] = IF x = t THEN v ELSE db[x][k]
      BY <1>1, <1>2, <1>3, <3>2
    <3> QED BY <3>1, <3>3 DEF At, StillAt
  <2>2. CASE op = "get"
    <3>1. After(op, db[t][k], v) = db[t][k] /\ After(op, truth[k], v) = truth[k]
      BY <2>2 DEF After
    <3> HIDE DEF k, t, op, v
    <3>2. truth'[k] = truth[k] /\ \A x \in Gid : db'[x][k] = db[x][k]
      BY <1>1, <1>2, <1>3, <3>1
    <3> QED BY <3>2 DEF At, StillAt
  <2> QED BY <1>1, <2>1, <2>2
<1>8. ASSUME NEW y \in Key \ {k}, NEW g PROVE At(y, g) => StillAt(y, g)
  <2> HIDE DEF k, t, op, v
  <2>1. truth'[y] = truth[y] /\ \A x \in Gid : db'[x][y] = db[x][y]
    BY <1>2, <1>3, <1>8
  <2> QED BY <2>1 DEF At, StillAt
<1> HIDE DEF k, rec, t, op, v
<1> QED BY <1>2, <1>6, <1>7, <1>8, KeysFrame DEF Base

\* The task brings a key home.
LEMMA KeysMove ==
  ASSUME Reliable, Base, KeysInv, [DataNext]_allVars, MoveKey
  PROVE  KeysInv'
<1> SUFFICES ASSUME ~late, ~outdated PROVE KeysInv'
  BY DEF MoveKey, KeysInv, vars, historyVars, callVars
<1>1. PICK k \in todo : /\ todo' = todo \ {k}
                        /\ db' = RedisMigrate(db, mig.from_gid, mig.to_gid, k)
  BY DEF MoveKey, Reliable
<1>2. pc = "move" /\ listed /\ UNCHANGED <<vars, listed, cmd, truth, late>>
  BY DEF MoveKey
<1>3. k \in Key /\ KeySlot[k] = cur
  BY <1>1, <1>2 DEF Base, DataTypes, LoopInv
<1>4. mig.from_gid \in Gid /\ mig.to_gid \in Gid /\ mig.from_gid # mig.to_gid
  BY <1>2, Records DEF Base, IInv, TypeOK, TaskTypes, DrainInv, TwoGroups, Holding
<1>5. Home(k) = mig.to_gid
  BY <1>2, <1>3 DEF Base, OwnerInv, NodeInv, Outward, Home, Target
<1>6. StillAt(k, Home(k)) /\ \A y \in Key \ {k} : \A g : At(y, g) => StillAt(y, g)
  BY <1>1, <1>2, <1>3, <1>4, <1>5, KeyPlaces, AtMigrate DEF Base
<1>7. \A c \in Client : Kept(c) /\ (cmd'[c] # Null => cmd'[c].moved = cmd[c].moved)
  BY <1>2 DEF Kept
<1> QED BY <1>1, <1>2, <1>6, <1>7, KeysFrame DEF Base

\* KEYS at the source misses only keys that are at home.
LEMMA KeysList ==
  ASSUME Reliable, Base, KeysInv, ListKeys
  PROVE  KeysInv'
<1> SUFFICES ASSUME ~late, ~outdated
             PROVE  (\A k \in Key : KeyInv(k)') /\ (\A c \in Client : CmdFits(c)')
  BY DEF ListKeys, KeysInv, vars, historyVars, callVars
<1>1. /\ pc = "move" /\ UNCHANGED <<vars, db, cmd, truth>>
      /\ todo' = {k \in Key : KeySlot[k] = cur /\ db[mig.from_gid][k] # Null}
  BY DEF ListKeys
<1>2. UNCHANGED <<zkSlot, pc, cur, slot, mig, outdated>>
  BY <1>1 DEF vars, zkVars, taskVars, taskLocal, historyVars, callVars
<1>3. mig.from_gid \in Gid
  BY <1>1, Records DEF Base, IInv, TypeOK, TaskTypes, Holding
<1>4. ASSUME NEW k \in Key PROVE KeyInv(k)'
  <2>1. KeyInv(k)
    BY <1>4 DEF KeysInv
  <2>2. ASSUME KeySlot[k] = cur, k \notin todo' PROVE At(k, Home(k))
    <3>1. Home(k) = mig.to_gid
      BY <1>1, <2>2 DEF Base, OwnerInv, NodeInv, Outward, Home, Target
    <3>2. At(k, mig.from_gid) \/ At(k, Home(k))
      BY <2>2, <3>1, KeyPlaces
    <3>3. db[mig.from_gid][k] = Null
      BY <1>1, <2>2
    <3> QED BY <1>3, <3>2, <3>3 DEF At
  <2> QED BY <1>1, <1>2, <2>1, <2>2 DEF KeyInv, At, Home, Target, Refreshing
<1>5. ASSUME NEW c \in Client PROVE CmdFits(c)'
  <2>1. CmdFits(c)
    BY <1>5 DEF KeysInv
  <2> QED BY <1>1, <1>2, <2>1 DEF CmdFits, Fits, Leaving, Refreshing, Outbound, At, Home, Target
<1> QED BY <1>4, <1>5

\* How the task comes to the key loop and to the second refresh.
LEMMA PhaseNext ==
  ASSUME Reliable, TypeOK, [Next]_vars
  PROVE  /\ pc' = "move" => UNCHANGED cur /\ pc \in {"setRecord", "move"}
         /\ Refreshing' /\ slot'.status = "ONLINE" =>
              UNCHANGED cur /\ (MoveDone \/ (Refreshing /\ slot.status = "ONLINE"))
         /\ pc = "move" /\ pc' # "move" => MoveDone \/ pc' = "none"
<1> USE DEF Refreshing, taskVars, taskLocal, outsideTask, notRecords, outsideClients
<1>1. CASE ReadSlot
  <2>1. zkSlot[cur] \in SlotRecord
    BY DEF TypeOK, ZkTypes, TaskTypes
  <2>2. slot'.status = "PRE_MIGRATE" /\ pc = "read" /\ pc' = "fresh"
    BY <1>1, <2>1 DEF ReadSlot, SlotRecord
  <2> QED BY <2>2
<1>2. CASE TaskStart \/ SkipSameGroup \/ NoRecord \/ SetBarrierSlot \/ AwaitOpen \/ AwaitTimeout
  BY <1>2 DEF TaskStart, SkipSameGroup, NoRecord, SetBarrierSlot, AwaitOpen,
     AwaitTimeout, AfterAwait
<1>3. CASE FreshClear \/ FreshChildren \/ FreshAdd \/ FreshDone
  BY <1>3 DEF FreshClear, FreshChildren, FreshAdd, FreshDone
<1>4. CASE SetMigrate \/ SetRecord \/ MoveDone
  BY <1>4 DEF SetMigrate, SetRecord, MoveDone, Post
<1>5. CASE MoveConnFails \/ MoveFails \/ Crash
  BY <1>5 DEF Reliable, MoveConnFails, MoveFails, Crash
<1>6. CASE DelRecord \/ MarkError
  BY <1>6 DEF DelRecord, MarkError, NextSlot
<1>7. CASE ListenerStep
  BY <1>7 DEF ListenerStep, AdminLoad, UpdatedEvent, RemovedEvent, CountDown
<1>8. CASE ClientStep
  BY <1>8 DEF ClientStep, WatchSlot, Fetch, LoadRead, LoadPut, LoadLost, Apply, Ack
<1>9. CASE Submit \/ OverlapStep \/ DelTask
  BY <1>9, OverlapFrame DEF Submit, OverlapPost, DelTask
<1>10. CASE \E c \in Client : AdminEdit(c) \/ Register(c) \/ Expire(c) \/ Leave(c)
  BY <1>10 DEF AdminEdit, Register, Expire, Leave
<1>11. CASE UNCHANGED vars
  BY <1>11 DEF vars
<1>12. CASE TaskStep
  BY <1>1, <1>2, <1>3, <1>4, <1>5, <1>6, <1>12 DEF TaskStep, ProtocolStep
<1>13. CASE Environment
  BY <1>5, <1>9, <1>10, <1>13 DEF Environment
<1> QED
  BY <1>7, <1>8, <1>11, <1>12, <1>13 DEF Next

LEMMA LoopNext ==
  ASSUME Reliable, TypeOK, LoopInv, [DataNext]_allVars
  PROVE  LoopInv'
<1>1. CASE Protocol
  <2>1. [Next]_vars /\ ~MoveDone
    BY <1>1, StepRefines, ZenonT(30) DEF Protocol, MoveDone, ProtocolStep, ListenerStep,
       ClientStep, Environment, TaskStart, ReadSlot, SkipSameGroup, NoRecord,
       FreshClear, FreshChildren, FreshAdd, FreshDone, SetBarrierSlot, AwaitOpen,
       AwaitTimeout, SetMigrate, SetRecord, DelRecord, MarkError, Post,
       AdminLoad, UpdatedEvent, RemovedEvent, CountDown, WatchSlot, Fetch,
       LoadRead, LoadPut, LoadLost, Apply, Ack, Submit, OverlapStep, OverlapRead,
       OverlapWrite, OverlapPost, OverlapRefused, OverlapUndo, DelTask, Crash, AdminEdit, Register, Expire, Leave, taskVars, outsideClients
  <2>2. listed' => listed /\ todo' = todo /\ (pc = "move" => pc' # "none")
    BY <1>1 DEF Protocol, loopVars
  <2>3. pc = "move" /\ pc' # "none" => pc' = "move" /\ cur' = cur
    BY <2>1, PhaseNext
  <2> QED BY <2>2, <2>3 DEF LoopInv
<1>2. CASE ListKeys \/ MoveKey
  BY <1>2 DEF ListKeys, MoveKey, LoopInv, vars, taskVars, taskLocal
<1>3. CASE MoveEnds
  BY <1>3 DEF MoveEnds, LoopInv
<1>4. CASE MoveBreaks
  BY <1>4 DEF MoveBreaks, LoopInv, dataVars
<1>5. CASE UNCHANGED allVars \/ \E c \in Client : Route(c) \/ MigrateFirst(c) \/ Execute(c) \/ CommandFails(c)
  BY <1>5 DEF Route, MigrateFirst, Execute, CommandFails, loopVars, LoopInv,
     vars, taskVars, taskLocal, allVars, dataVars
<1> QED BY <1>1, <1>2, <1>3, <1>4, <1>5 DEF DataNext

\* The home of a key moves when its slot is put into MIGRATE, and then only.
LEMMA HomeNext ==
  ASSUME Reliable, TypeOK, OwnerInv, NodesInv, [Next]_vars, NEW k \in Key
  PROVE  /\ ~SetMigrate => Home(k)' = Home(k)
         /\ SetMigrate =>
              /\ KeySlot[k] # cur => Home(k)' = Home(k) /\ zkSlot'[KeySlot[k]] = zkSlot[KeySlot[k]]
              /\ KeySlot[k] = cur =>
                   /\ zkSlot[cur].status = "PRE_MIGRATE" /\ zkSlot'[cur].status = "MIGRATE"
                   /\ zkSlot'[cur].src_gid = Home(k)
         /\ zkSlot'[KeySlot[k]] # zkSlot[KeySlot[k]] =>
              KeySlot[k] = cur /\ (SetMigrate \/ (SetBarrierSlot /\ slot \in {zkSlot'[cur]}))
<1>1. KeySlot[k] \in SlotId /\ zkSlot \in [SlotId -> SlotRecord] /\ cur \in SlotId /\ ~CallLost
  BY DataAssumption DEF TypeOK, ZkTypes, TaskTypes, Reliable, CallLost
<1>2. zkSlot'[KeySlot[k]] # zkSlot[KeySlot[k]] =>
        KeySlot[k] = cur /\ zkSlot'[cur] = slot /\ (SetMigrate \/ SetBarrierSlot)
  BY <1>1, SlotWrites
<1>3. CASE SetMigrate
  <2>1. zkSlot' = [zkSlot EXCEPT ![cur] = slot] /\ pc = "setMigrate"
    BY <1>1, <1>3 DEF SetMigrate, SetSlot, Write
  <2>2. slot.status = "MIGRATE" /\ slot.src_gid = zkSlot[cur].src_gid
    BY <2>1 DEF OwnerInv, NodeInv, Outward
  <2>3. zkSlot[cur].status = "PRE_MIGRATE"
    BY <2>1 DEF NodesInv
  <2> QED BY <1>1, <1>2, <1>3, <2>1, <2>2, <2>3 DEF Home, Target
<1>4. CASE ~SetMigrate
  <2>1. CASE zkSlot'[KeySlot[k]] = zkSlot[KeySlot[k]]
    BY <1>2, <1>4, <2>1 DEF Home, Target
  <2>2. CASE zkSlot'[KeySlot[k]] # zkSlot[KeySlot[k]]
    <3>1. KeySlot[k] = cur /\ zkSlot'[cur] = slot /\ SetBarrierSlot /\ pc = "set"
      BY <1>2, <1>4, <2>2 DEF SetBarrierSlot
    <3>2. \A g : Online(g).status = "ONLINE" /\ Online(g).src_gid = g
      BY OnlineRecords
    <3>3. CASE slot.status = "PRE_MIGRATE"
      <4>1. slot.src_gid = zkSlot[cur].src_gid
        BY <3>1, <3>2, <3>3 DEF OwnerInv, NodeInv, Outward
      <4>2. zkSlot[cur].status = "ONLINE"
        BY <1>1, <3>1, <3>2, <3>3 DEF NodesInv, Leaving, Refreshing
      <4> QED BY <1>4, <3>1, <3>3, <4>1, <4>2 DEF Home, Target
    <3>4. CASE slot = Online(mig.to_gid)
      <4>1. zkSlot[cur].status = "MIGRATE" /\ zkSlot[cur].to_gid = mig.to_gid
        BY <3>1, <3>2, <3>4 DEF OwnerInv, NodeInv
      <4> QED BY <1>4, <3>1, <3>2, <3>4, <4>1 DEF Home, Target
    <3> QED BY <3>1, <3>3, <3>4 DEF NodesInv, Refreshing
  <2> QED BY <2>1, <2>2
<1> QED BY <1>3, <1>4

\* The steps of the protocol, and the end of the key loop, move no key.
LEMMA KeysTask ==
  ASSUME Reliable, Base, KeysInv, [DataNext]_allVars, Protocol \/ MoveEnds,
         ~disturbed, ~disturbed'
  PROVE  KeysInv'
<1> SUFFICES ASSUME ~late', ~outdated'
             PROVE  (\A k \in Key : KeyInv(k)') /\ (\A c \in Client : CmdFits(c)')
  BY DEF KeysInv
<1>0. ~outdated
  BY StepRefines, OutdatedStays DEF Base, IInv
<1>1. ~late /\ UNCHANGED <<db, truth>> /\ \A c \in Client : cmd'[c] \in {cmd[c], Null}
  <2>1. CASE Protocol
    <3>1. ~late /\ UNCHANGED <<db, truth>>
      BY <2>1 DEF Protocol
    <3>2. \A c \in Client : cmd'[c] = IF life'[c] = "running" THEN cmd[c] ELSE Null
      BY <2>1 DEF Protocol
    <3> QED BY <3>1, <3>2
  <2>2. CASE MoveEnds
    BY <2>2 DEF MoveEnds
  <2> QED BY <2>1, <2>2
<1>2. [Next]_vars /\ TypeOK /\ OwnerInv /\ NodesInv
  BY StepRefines DEF Base, IInv
<1>3. \A k \in Key : KeySlot[k] \in SlotId
  BY DataAssumption
<1>4. ASSUME NEW k \in Key PROVE KeyInv(k)'
  <2>1. KeyInv(k)
    BY <1>0, <1>1, <1>4 DEF KeysInv
  <2>2. \A g : At(k, g) => StillAt(k, g)
    BY <1>1 DEF At, StillAt
  <2>3. \/ StillAt(k, Home(k)')
        \/ zkSlot'[KeySlot[k]].status = "MIGRATE" /\ StillAt(k, zkSlot'[KeySlot[k]].src_gid)
    <3>1. CASE SetMigrate /\ KeySlot[k] = cur
      <4>1. At(k, Home(k))
        BY <1>2, <2>1, <3>1, HomeNext DEF KeyInv
      <4> QED BY <1>2, <2>2, <3>1, <4>1, HomeNext
    <3>2. CASE ~(SetMigrate /\ KeySlot[k] = cur) /\ zkSlot'[KeySlot[k]] = zkSlot[KeySlot[k]]
      <4>1. Home(k)' = Home(k)
        BY <1>2, <3>2, HomeNext
      <4> QED BY <2>1, <2>2, <3>2, <4>1 DEF KeyInv
    <3>3. CASE ~(SetMigrate /\ KeySlot[k] = cur) /\ zkSlot'[KeySlot[k]] # zkSlot[KeySlot[k]]
      <4>1. Home(k)' = Home(k) /\ KeySlot[k] = cur /\ SetBarrierSlot
        BY <1>2, <3>3, HomeNext
      <4>2. Refreshing /\ (slot.status = "PRE_MIGRATE" \/ slot = Online(mig.to_gid))
        BY <1>2, <4>1 DEF SetBarrierSlot, NodesInv, Refreshing
      <4>3. CASE slot = Online(mig.to_gid)
        <5>1. slot.status = "ONLINE"
          BY <4>3, OnlineRecords
        <5> QED BY <2>1, <2>2, <4>1, <4>2, <5>1 DEF KeyInv
      <4>4. CASE slot.status = "PRE_MIGRATE"
        <5>1. zkSlot[KeySlot[k]] = Online(zkSlot[KeySlot[k]].src_gid)
          BY <1>2, <1>3, <4>1, <4>4 DEF NodesInv, Leaving, SetBarrierSlot
        <5>2. zkSlot[KeySlot[k]].status # "MIGRATE"
          <6>1. \A g : Online(g).status = "ONLINE"
            BY OnlineRecords
          <6> QED BY <5>1, <6>1
        <5> QED BY <2>1, <2>2, <4>1, <5>2 DEF KeyInv
      <4> QED BY <4>2, <4>3, <4>4
    <3> QED BY <3>1, <3>2, <3>3
  <2>4. ASSUME KeySlot[k] = cur',
               \/ pc' = "move" /\ listed' /\ k \notin todo'
               \/ Refreshing' /\ slot'.status = "ONLINE"
        PROVE  StillAt(k, Home(k)')
    <3>1. cur' = cur
      BY <1>2, <2>4, PhaseNext
    <3>2. ~SetMigrate
      BY <2>4 DEF SetMigrate, Refreshing
    <3>3. Home(k)' = Home(k)
      BY <1>2, <3>2, HomeNext
    <3>4. CASE pc' = "move" /\ listed' /\ k \notin todo'
      <4>1. Protocol
        BY <3>4 DEF MoveEnds
      <4>2. listed /\ k \notin todo
        BY <3>4, <4>1 DEF Protocol, loopVars
      <4> QED BY <2>1, <2>2, <2>4, <3>1, <3>3, <4>2 DEF KeyInv, Base, LoopInv
    <3>5. CASE Refreshing' /\ slot'.status = "ONLINE" /\ Refreshing /\ slot.status = "ONLINE"
      BY <2>1, <2>2, <2>4, <3>1, <3>3, <3>5 DEF KeyInv
    <3>6. CASE MoveDone
      <4>1. MoveEnds
        BY <3>6 DEF Protocol, MoveDone, ProtocolStep, ListenerStep,
           ClientStep, Environment, TaskStart, ReadSlot, SkipSameGroup, NoRecord,
           FreshClear, FreshChildren, FreshAdd, FreshDone, SetBarrierSlot, AwaitOpen,
           AwaitTimeout, SetMigrate, SetRecord, DelRecord, MarkError, Post,
           AdminLoad, UpdatedEvent, RemovedEvent, CountDown, WatchSlot, Fetch,
           LoadRead, LoadPut, LoadLost, Apply, Ack, Submit, OverlapStep, OverlapRead,
           OverlapWrite, OverlapPost, OverlapRefused, OverlapUndo, DelTask, Crash, AdminEdit, Register, Expire, Leave, taskVars, outsideClients
      <4>2. pc = "move" /\ listed /\ k \notin todo
        BY <4>1 DEF MoveEnds, MoveDone, Reliable
      <4> QED BY <2>1, <2>2, <2>4, <3>1, <3>3, <4>2 DEF KeyInv
    <3> QED BY <1>2, <2>4, <3>4, <3>5, <3>6, PhaseNext
  <2>5. /\ StillAt(k, Home(k)') <=> At(k, Home(k))'
        /\ StillAt(k, zkSlot'[KeySlot[k]].src_gid) <=> At(k, zkSlot[KeySlot[k]].src_gid)'
    BY DEF At, StillAt
  <2>6. KeySlot[k] = cur' /\ pc' = "move" /\ listed' /\ k \notin todo' => At(k, Home(k))'
    BY <2>4, <2>5
  <2>7. KeySlot[k] = cur' /\ Refreshing' /\ slot'.status = "ONLINE" => At(k, Home(k))'
    BY <2>4, <2>5
  <2> QED BY <2>3, <2>5, <2>6, <2>7 DEF KeyInv
<1>5. ASSUME NEW c \in Client, cmd'[c] # Null, NEW k \in Key, NEW rec,
             k = cmd[c].key, rec = cmd[c].slot
      PROVE  /\ cmd'[c] = cmd[c] /\ StillFits(KeySlot[k], rec)
             /\ rec.status = "MIGRATE" /\ cmd[c].moved => StillAt(k, Home(k)')
  <2>1. cmd'[c] = cmd[c] /\ cmd[c] # Null /\ CmdFits(c)
    BY <1>0, <1>1, <1>5 DEF KeysInv
  <2>2. Fits(KeySlot[k], rec) /\ (rec.status = "MIGRATE" /\ cmd[c].moved => At(k, Home(k)))
    BY <1>5, <2>1 DEF CmdFits
  <2>3. KeySlot[k] \in SlotId
    BY <1>3
  <2>4. StillFits(KeySlot[k], rec)
    <3>1. CASE ~AwaitOpen
      BY <1>2, <2>2, <2>3, <3>1, FitsNext
    <3>2. CASE AwaitOpen
      <4>1. pc = "await" /\ pc' \notin {"await", "none"} /\ UNCHANGED <<zkSlot, cur>>
        BY <3>2 DEF AwaitOpen, AfterAwait, outsideTask, zkVars
      <4>2. Protocol
        BY <4>1 DEF MoveEnds, MoveDone
      <4>3. KeySlot[k] = cur => rec = slot
        BY <1>5, <2>1, <4>1, <4>2 DEF Protocol, Outlived
      <4>4. zkSlot[cur] = slot
        BY <1>2, <4>1 DEF OwnerInv, NodeInv
      <4> QED BY <2>2, <4>1, <4>3, <4>4 DEF Fits, StillFits
    <3> QED BY <3>1, <3>2
  <2>5. ASSUME rec.status = "MIGRATE", cmd[c].moved PROVE StillAt(k, Home(k)')
    <3>1. At(k, Home(k))
      BY <2>2, <2>5
    <3>2. KeySlot[k] = cur
      BY <1>2, <2>2, <2>3, <2>5, HomeFacts
    <3>3. ~SetMigrate
      BY <1>2, <2>2, <2>5, <3>2 DEF SetMigrate, NodesInv, Fits, Leaving, Refreshing
    <3>4. Home(k)' = Home(k)
      BY <1>2, <3>3, HomeNext
    <3> QED BY <1>1, <3>1, <3>4 DEF At, StillAt
  <2> QED BY <2>1, <2>4, <2>5
<1>6. ASSUME NEW c \in Client PROVE CmdFits(c)'
  <2> SUFFICES ASSUME cmd'[c] # Null
               PROVE  (Fits(KeySlot[cmd[c].key], cmd[c].slot)
                        /\ (cmd[c].slot.status = "MIGRATE" /\ cmd[c].moved
                              => At(cmd[c].key, Home(cmd[c].key))))'
    BY DEF CmdFits
  <2>1. cmd'[c] = cmd[c] /\ cmd[c].key \in Key
    BY <1>1 DEF Base, DataTypes, Command
  <2>2. PICK k \in Key : \E rec : k = cmd[c].key /\ rec = cmd[c].slot
    BY <2>1
  <2>3. PICK rec : k = cmd[c].key /\ rec = cmd[c].slot
    BY <2>2
  <2>4. /\ StillFits(KeySlot[k], rec)
        /\ rec.status = "MIGRATE" /\ cmd[c].moved => StillAt(k, Home(k)')
    BY <1>5, <2>3
  <2> QED BY <2>1, <2>3, <2>4 DEF Fits, StillFits, Outbound, At, StillAt, Home
<1> QED BY <1>4, <1>6

LEMMA KeysNext ==
  ASSUME Reliable, Base, KeysInv, [DataNext]_allVars, ~disturbed, ~disturbed'
  PROVE  KeysInv'
<1>1. CASE Protocol \/ MoveEnds
  BY <1>1, KeysTask
<1>2. CASE ListKeys
  BY <1>2, KeysList
<1>3. CASE MoveKey
  BY <1>3, KeysMove
<1>4. CASE MoveBreaks
  BY <1>4 DEF MoveBreaks, MoveConnFails, MoveFails, Reliable
<1>5. ASSUME NEW c \in Client, MigrateFirst(c) PROVE KeysInv'
  BY <1>5, KeysMoveFirst
<1>6. ASSUME NEW c \in Client, Execute(c) PROVE KeysInv'
  BY <1>6, KeysExecute
<1>7. CASE (\E c \in Client : Route(c) \/ CommandFails(c)) \/ UNCHANGED allVars
  <2>1. UNCHANGED <<vars, listed, todo, late, db, truth>>
    BY <1>7 DEF Route, CommandFails, loopVars, allVars, dataVars
  <2>2. \A y \in Key : \A g : At(y, g) => StillAt(y, g)
    BY <2>1 DEF At, StillAt
  <2>3. ASSUME NEW d \in Client
        PROVE  Routed(d) \/ (Kept(d) /\ (cmd'[d] # Null /\ cmd'[d].moved => cmd[d].moved))
    <3>1. CASE \E c \in Client : Route(c) /\ c = d
      <4>1. cmd[d] = Null
        BY <3>1 DEF Route
      <4> QED BY <4>1, CmdStep DEF Kept, Base
    <3>2. CASE \E c \in Client : (Route(c) /\ c # d) \/ CommandFails(c)
      BY <3>2 DEF Route, CommandFails, Kept, Base, DataTypes
    <3>3. CASE UNCHANGED allVars
      BY <3>3 DEF allVars, dataVars, Kept
    <3> QED BY <1>7, <3>1, <3>2, <3>3
  <2> QED BY <2>1, <2>2, <2>3, KeysFrame DEF Base
<1> QED BY <1>1, <1>2, <1>3, <1>4, <1>5, <1>6, <1>7 DEF DataNext

LEMMA BaseNext ==
  ASSUME Reliable, Base, [DataNext]_allVars, ~disturbed, ~disturbed'
  PROVE  Base'
<1>1. [Next]_vars /\ TypeOK /\ ~CallLost
  BY StepRefines DEF Base, IInv, Reliable, CallLost
<1>2. IInv'
  BY <1>1, IInvNext DEF Base
<1>3. OwnerInv'
  BY <1>1, OwnerNext DEF Base
<1>4. NodesInv' /\ CopiesInv'
  BY <1>1, <1>2, NodesNext, CopiesNext DEF Base
<1>5. DataTypes' /\ DrainInv'
  BY <1>1, DataTypesNext, DrainNext DEF Base
<1>6. LoopInv'
  BY <1>1, LoopNext DEF Base
<1> QED BY <1>2, <1>3, <1>4, <1>5, <1>6 DEF Base

LEMMA OrderInit == Init => NodesInv /\ CopiesInv
<1> SUFFICES ASSUME Init PROVE NodesInv /\ CopiesInv
  OBVIOUS
<1>1. \A g : Online(g).src_gid = g
  BY OnlineRecords
<1>2. NodesInv
  BY <1>1 DEF Init, NodesInv, Refreshing
<1>3. ASSUME NEW c \in Running, NEW s \in SlotId PROVE CopiesOf(c, s)
  <2>1. c \in Client /\ c \in clients
    BY <1>3 DEF Running, Init
  <2> QED BY <2>1 DEF Init, CopiesOf, Fits
<1>4. \A c \in Client : life[c] = "new" => Blank(c)
  BY DEF Init, Blank
<1> QED BY <1>2, <1>3, <1>4 DEF CopiesInv

LEMMA KeysInit == DataInit => Base /\ KeysInv
<1> SUFFICES ASSUME DataInit PROVE Base /\ KeysInv
  OBVIOUS
<1>1. Init
  BY DEF DataInit
<1>2. DrainInv /\ LoopInv
  BY DEF DataInit, Init, DrainInv, HeardInv, PastPreBarrier, CmdInv, TwoGroups, Holding, LoopInv
<1>3. \A k \in Key : \A g : At(k, g)
  BY DEF DataInit, At
<1>4. KeysInv
  BY <1>3 DEF DataInit, KeysInv, KeyInv, CmdFits
<1> QED
  BY <1>1, <1>2, <1>4, IInvInit, OwnerInit, OrderInit, DataTypesInit DEF Base

LEMMA KeysInvariant ==
  Reliable => (DataSpec /\ []~disturbed => [](Base /\ KeysInv))
<1> SUFFICES ASSUME Reliable PROVE DataSpec /\ []~disturbed => [](Base /\ KeysInv)
  OBVIOUS
<1>1. Base /\ KeysInv /\ [DataNext]_allVars /\ ~disturbed /\ ~disturbed' => Base' /\ KeysInv'
  BY BaseNext, KeysNext
<1> QED BY <1>1, KeysInit, PTL DEF DataSpec

-----------------------------------------------------------------------------
(* What the clients may rely on.                                           *)

(* No write is lost (MigrationData.NoLostWrite): for any keys, values,     *)
(* slots, groups, clients and number of migrations, back and forth or to   *)
(* ever other groups, with clients that come and go between the tasks, and *)
(* with records that calls persist over each other and delete, the current *)
(* record of a slot leads to what the last command left, as long as none   *)
(* of these calls stalls until its record names a former owner: the task   *)
(* asks that group for the keys, and leaves them at the owner.             *)
THEOREM NoLostWriteCorrect ==
  Reliable => (DataSpec /\ []~disturbed => []NoLostWrite)
<1> SUFFICES ASSUME Reliable PROVE DataSpec /\ []~disturbed => []NoLostWrite
  OBVIOUS
<1>1. ASSUME Base, KeysInv PROVE NoLostWrite
  <2> SUFFICES ASSUME ~late, ~outdated, NEW k \in Key PROVE Served(zkSlot[KeySlot[k]], k) = truth[k]
    BY DEF NoLostWrite
  <2> DEFINE rec == zkSlot[KeySlot[k]]
  <2>1. KeySlot[k] \in SlotId /\ rec \in SlotRecord /\ KeyInv(k) /\ TypeOK
    BY <1>1, DataAssumption DEF KeysInv, Base, IInv, TypeOK, ZkTypes
  <2>2. rec.src_gid \in Gid
    BY <2>1, Records
  <2>3. rec.status = "MIGRATE" => rec.to_gid \in Gid
    <3>1. rec.status = "MIGRATE" => rec.to_gid = mig.to_gid /\ pc \in Holding
      <4>1. Fits(KeySlot[k], rec)
        BY DEF Fits
      <4> HIDE DEF rec
      <4> QED BY <1>1, <2>1, <4>1, HomeFacts DEF Base, Outbound
    <3> QED BY <2>1, <3>1, Records DEF TypeOK, TaskTypes
  <2> QED BY <2>1, <2>2, <2>3 DEF Served, Target, KeyInv, At, Home
<1> QED BY <1>1, KeysInvariant, PTL

(* A key is on one group at any time (MigrationData.OneCopy), although the *)
(* task and the clients move it at once, as long as no record is outdated. *)
THEOREM OneCopyCorrect ==
  Reliable => (DataSpec /\ []~disturbed => []OneCopy)
<1> SUFFICES ASSUME Reliable PROVE DataSpec /\ []~disturbed => []OneCopy
  OBVIOUS
<1>1. Base /\ KeysInv => OneCopy
  BY DEF KeysInv, KeyInv, At, OneCopy
<1> QED BY <1>1, KeysInvariant, PTL

(* No get answers an old value (MigrationData.ReadsFresh), as long as no   *)
(* record is outdated.                                                     *)
THEOREM ReadsFreshCorrect ==
  Reliable => (DataSpec /\ []~disturbed => []ReadsFresh)
<1> SUFFICES ASSUME Reliable PROVE DataSpec /\ []~disturbed => []ReadsFresh
  OBVIOUS
<1>1. ASSUME Base, KeysInv PROVE ReadsFresh
  <2> SUFFICES ASSUME ~late, ~outdated, NEW c \in Client, cmd[c] # Null
               PROVE  db[Target(cmd[c].slot)][cmd[c].key] \in {truth[cmd[c].key], Null}
    BY DEF ReadsFresh
  <2> DEFINE k == cmd[c].key
             rec == cmd[c].slot
  <2>1. k \in Key /\ rec \in SlotRecord /\ Fits(KeySlot[k], rec) /\ KeyInv(k)
    BY <1>1 DEF KeysInv, CmdFits, Base, DataTypes, Command
  <2>2. KeySlot[k] \in SlotId /\ TypeOK /\ OwnerInv /\ NodesInv
    BY <1>1, <2>1, DataAssumption DEF Base, IInv
  <2> HIDE DEF k, rec
  <2>3. Target(rec) \in Gid
    <3>1. CASE rec.status = "MIGRATE"
      <4>1. rec.to_gid = mig.to_gid /\ pc \in Holding
        BY <2>1, <2>2, <3>1, HomeFacts DEF Outbound
      <4> QED BY <2>2, <3>1, <4>1, Records DEF TypeOK, TaskTypes, Target
    <3>2. CASE rec.status # "MIGRATE"
      BY <2>1, <3>2, Records DEF Target
    <3> QED BY <3>1, <3>2
  <2>4. db[Target(rec)][k] \in {truth[k], Null}
    BY <2>1, <2>3 DEF KeyInv, At
  <2> QED BY <2>4 DEF k, rec
<1> QED BY <1>1, KeysInvariant, PTL

(* When the task hands a slot to its new owner, no key of it is left at    *)
(* the source (MigrationData.SourceEmpty): one KEYS is enough, as long as  *)
(* no record is outdated.                                                  *)
THEOREM SourceEmptied ==
  Reliable => (DataSpec /\ []~disturbed => []SourceEmpty)
<1> SUFFICES ASSUME Reliable PROVE DataSpec /\ []~disturbed => []SourceEmpty
  OBVIOUS
<1>1. ASSUME Base, KeysInv PROVE SourceEmpty
  <2> SUFFICES ASSUME pc = "fresh", slot.status = "ONLINE", slot.src_gid = mig.to_gid,
                      ~late, ~outdated, NEW k \in Key, KeySlot[k] = cur
               PROVE  db[mig.from_gid][k] = Null
    BY DEF SourceEmpty
  <2>1. At(k, Home(k))
    BY <1>1 DEF KeysInv, KeyInv, Refreshing
  <2>2. Home(k) = mig.to_gid /\ mig.from_gid # mig.to_gid
    BY <1>1 DEF Base, OwnerInv, NodeInv, Holding, Home, Target
  <2>3. mig.from_gid \in Gid
    BY <1>1, Records DEF Base, IInv, TypeOK, TaskTypes, Holding
  <2> QED BY <2>1, <2>2, <2>3 DEF At
<1> QED BY <1>1, KeysInvariant, PTL

-----------------------------------------------------------------------------
(* That nothing is disturbed need not be assumed where clients neither come *)
(* nor go.                                                                  *)

\* Only records are persisted over each other and deleted.
Calmly == Faults \subseteq {"overlap", "delTask"}

OrderInv == /\ IInv /\ OwnerInv /\ NodesInv /\ CopiesInv
            /\ ~disturbed
            /\ ~Active => Settled

\* Between two slots every client has caught up.
LEMMA SettledBetween ==
  ASSUME OrderInv, pc \in {"read", "delRecord", "markError"}
  PROVE  Settled
<1>1. TypeOK /\ EpochInv
  BY DEF OrderInv, IInv, Epoch, Active
<1>2. \A g : Online(g).status = "ONLINE"
  BY OnlineRecords
<1>3. \A s \in SlotId : zkSlot[s].status = "ONLINE"
  BY <1>2 DEF OrderInv, NodesInv, Leaving, Refreshing
<1>4. ASSUME NEW c \in Running
      PROVE  /\ c \in clients /\ queued[c] = Null /\ ~acking[c]
             /\ \A s \in SlotId : loadStep[c][s] = "done" /\ watch[c][s] = "clean"
  <2>1. c \in clients /\ c \in Client /\ Calm(c)
    BY <1>1, <1>4 DEF EpochInv, Members, AckInv, Running
  <2>2. ASSUME queued[c] # Null PROVE FALSE
    <3>1. queued[c].id \in SlotId /\ queued[c].slot.status = "MIGRATE"
      BY <1>1, <2>1, <2>2, Records DEF TypeOK, ClientTypes, Calm, NoAck
    <3>2. Fits(queued[c].id, queued[c].slot)
      BY <1>4, <2>2, <3>1 DEF OrderInv, CopiesInv, CopiesOf
    <3>3. queued[c].slot = zkSlot[queued[c].id]
      BY <3>2 DEF Fits, Leaving, Refreshing
    <3> QED BY <1>3, <3>1, <3>3
  <2>3. ASSUME NEW s \in SlotId PROVE loadStep[c][s] = "done" /\ watch[c][s] = "clean"
    <3>1. loadStep[c][s] = "done" /\ watch[c][s] # "none"
      BY <1>1, <2>1, <2>3 DEF EpochInv, Members
    <3>2. watch[c][s] # "dirty"
      BY <1>3, <2>1, <2>3 DEF Calm
    <3> QED BY <1>1, <2>1, <3>1, <3>2 DEF TypeOK, ClientTypes
  <2> QED BY <2>1, <2>2, <2>3 DEF Calm, NoAck
<1> QED BY <1>4 DEF Settled

\* Settled clients do nothing.
LEMMA SettledStep ==
  ASSUME Settled, ClientStep, ~CallLost
  PROVE  FALSE
<1> USE DEF Settled, Running
<1>1. PICK c \in Running :
        \/ \E s \in SlotId : WatchSlot(c, s) \/ Fetch(c, s) \/ LoadRead(c, s) \/ LoadPut(c, s)
        \/ Apply(c) \/ Ack(c)
  BY UnlostStep
<1> QED BY <1>1 DEF WatchSlot, Fetch, LoadRead, LoadPut, Apply, Ack

LEMMA OrderNext ==
  ASSUME Reliable, Calmly, OrderInv, [Next]_vars
  PROVE  OrderInv'
<1> USE DEF Active, outsideTask, notRecords, taskVars
<1>1. ~CallLost /\ TypeOK /\ IInv' /\ OwnerInv' /\ NodesInv'
  BY IInvNext, OwnerNext, NodesNext DEF Reliable, CallLost, OrderInv, IInv
<1>2. Environment => Submit \/ OverlapStep \/ DelTask
  BY DEF Environment, Calmly, Crash, AdminEdit, Register, Expire, Leave
<1>3. ~disturbed'
  <2>1. CASE TaskStart
    BY <2>1 DEF TaskStart, OrderInv
  <2>2. CASE AwaitTimeout
    BY <2>2 DEF AwaitTimeout, Calmly
  <2>3. CASE TaskStep /\ ~TaskStart /\ ~AwaitTimeout
    BY <1>1, <2>3 DEF TaskStep, ProtocolStep, ReadSlot, SkipSameGroup, NoRecord,
       FreshClear, FreshChildren, FreshAdd, FreshDone, SetBarrierSlot, AwaitOpen,
       SetMigrate, SetRecord, DelRecord, MarkError, MoveDone, MoveConnFails,
       MoveFails, historyVars, callVars, OrderInv
  <2>4. CASE ListenerStep
    BY <2>4 DEF ListenerStep, AdminLoad, UpdatedEvent, RemovedEvent, historyVars, callVars, OrderInv
  <2>5. CASE ClientStep
    BY <2>5 DEF ClientStep, WatchSlot, Fetch, LoadRead, LoadPut, LoadLost, Apply,
       Ack, historyVars, callVars, OrderInv
  <2>6. CASE Submit \/ OverlapStep \/ DelTask
    BY <2>6, OverlapFrame DEF Submit, DelTask, historyVars, callVars, OrderInv
  <2>7. CASE UNCHANGED vars
    BY <2>7 DEF vars, historyVars, callVars, OrderInv
  <2> QED BY <1>2, <2>1, <2>2, <2>3, <2>4, <2>5, <2>6, <2>7 DEF Next
<1>4. CopiesInv'
  BY <1>1, <1>3, CopiesNext DEF OrderInv
<1>5. ~Active' => Settled'
  <2>1. CASE (DelRecord \/ MarkError) /\ ~Active'
    <3>1. Settled /\ UNCHANGED <<clients, clientVars>>
      BY <2>1, SettledBetween DEF DelRecord, MarkError
    <3> QED BY <3>1 DEF Settled, Running, clientVars
  <2>2. CASE ~Active /\ UNCHANGED <<clients, clientVars>>
    BY <2>2 DEF OrderInv, Settled, Running, clientVars
  <2>3. CASE TaskStep /\ ~(DelRecord \/ MarkError)
    BY <2>3 DEF TaskStep, ProtocolStep, TaskStart, ReadSlot, SkipSameGroup, NoRecord,
       FreshClear, FreshChildren, FreshAdd, FreshDone, SetBarrierSlot, AwaitOpen,
       AwaitTimeout, AfterAwait, SetMigrate, SetRecord, MoveDone, MoveConnFails,
       MoveFails, Post
  <2>4. CASE ListenerStep
    <3>1. Active' = Active /\ UNCHANGED <<clients, clientVars>>
      BY <2>4 DEF ListenerStep, AdminLoad, UpdatedEvent, RemovedEvent, CountDown, zkVars
    <3> QED BY <2>2, <3>1
  <2>5. CASE ClientStep
    <3>1. Active' = Active
      BY <2>5 DEF ClientStep, WatchSlot, Fetch, LoadRead, LoadPut, LoadLost, Apply,
         Ack, outsideClients
    <3> QED BY <1>1, <2>5, <3>1, SettledStep DEF OrderInv
  <2>6. CASE Submit \/ OverlapPost
    BY <2>2, <2>6 DEF Submit, OverlapPost
  <2>7. CASE (OverlapStep /\ ~OverlapPost) \/ DelTask \/ UNCHANGED vars
    <3>1. pc' = pc /\ UNCHANGED <<clients, clientVars>>
      BY <2>7, OverlapFrame DEF DelTask, vars, zkVars
    <3> QED BY <2>2, <3>1
  <2> QED BY <1>2, <2>1, <2>3, <2>4, <2>5, <2>6, <2>7 DEF Next
<1> QED BY <1>1, <1>3, <1>4, <1>5 DEF OrderInv

LEMMA SettledInit == Init => Settled /\ ~disturbed
<1> SUFFICES ASSUME Init PROVE Settled /\ ~disturbed
  OBVIOUS
<1>1. \A c \in Running : c \in Client /\ c \in clients
  BY DEF Init, Running
<1> QED BY <1>1 DEF Init, Settled

(* Without timeouts and crashes, and while no client comes or goes, the    *)
(* tasks of the administration never meet an unsettled cluster: each one   *)
(* leaves every client settled for the next.                               *)
THEOREM NeverDisturbed ==
  Reliable /\ Calmly => (DataSpec => []~disturbed)
<1> SUFFICES ASSUME Reliable, Calmly PROVE DataSpec => []~disturbed
  OBVIOUS
<1>1. Init => OrderInv
  BY IInvInit, OwnerInit, OrderInit, SettledInit DEF OrderInv
<1>2. OrderInv /\ [Next]_vars => OrderInv'
  BY OrderNext
<1>3. OrderInv => ~disturbed
  BY DEF OrderInv
<1> QED BY <1>1, <1>2, <1>3, Refines, PTL DEF Spec
=============================================================================

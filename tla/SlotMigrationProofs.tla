------------------------- MODULE SlotMigrationProofs -------------------------
(***************************************************************************)
(* Theorems about SlotMigration, for every number of clients, slots and    *)
(* groups and for every set of faults.                                     *)
(***************************************************************************)
EXTENDS SlotMigration, TLAPS

\* A task runs and nothing outside the protocol has touched it.
Epoch == Active /\ ~disturbed

\* The running clients are the registered ones, and all have loaded.
Members ==
  /\ Running = clients
  /\ gone = {}
  /\ \A c \in Client \ clients : upd[c] = 0
  /\ \A c \in clients, s \in SlotId :
       loadStep[c][s] = "done" /\ watch[c][s] # "none"

\* No acknowledgement of c is on its way, and none will be produced by what
\* c has queued.
NoAck(c) ==
  /\ upd[c] = 0
  /\ ~acking[c]
  /\ queued[c] # Null => queued[c].slot.status = "MIGRATE"

\* Nor by what c still has to fetch.
Calm(c) ==
  /\ NoAck(c)
  /\ \A s \in SlotId : watch[c][s] = "dirty" => zkSlot[s].status = "MIGRATE"

\* c has cached the record of the barrier and has no older one in hand.
Confirmed(c) ==
  /\ slotMap[c][cur] = slot
  /\ watch[c][cur] # "dirty"
  /\ queued[c] # Null =>
       queued[c].id # cur /\ queued[c].slot.status = "MIGRATE"

\* The stages of an acknowledgement: to fetch, queued, being sent, sent.
ToFetch(c) == NoAck(c) /\ watch[c][cur] = "dirty" /\ zkSlot[cur] = slot

Queued(c) == /\ upd[c] = 0 /\ ~acking[c] /\ watch[c][cur] # "dirty"
             /\ queued[c] = [id |-> cur, slot |-> slot]

Sending(c) == upd[c] = 0 /\ acking[c] /\ Confirmed(c)

Sent(c) == upd[c] = 1 /\ ~acking[c] /\ Confirmed(c)

\* A client that the barrier still waits for has at most one
\* acknowledgement under way; Calm(c) is a lost write or a lost
\* acknowledgement.
Owes(c) ==
  /\ \/ Calm(c) \/ ToFetch(c) \/ Queued(c) \/ Sending(c) \/ Sent(c)
  /\ \A s \in SlotId \ {cur} :
       watch[c][s] = "dirty" => zkSlot[s].status = "MIGRATE"

\* A client that the barrier does not wait for any more has acknowledged
\* this very record.
Done(c) == Calm(c) /\ Confirmed(c)

\* The latch and the set of fresh(), at every point of the barrier.
LatchInv ==
  /\ pc \in {"children", "fill", "set", "await"} => racy = FALSE
  /\ pc \in {"children", "fill"} => latch = 1
  /\ pc = "children" => nodeSet = {}
  /\ pc = "fill" => nodeSet \cup toAdd = clients
  /\ pc = "set" => nodeSet = clients /\ (latch = 0 => clients = {})
  /\ pc = "await" => nodeSet \subseteq clients /\ (latch = 0 => nodeSet = {})

\* No acknowledgement is about outside of a barrier, and in a barrier only
\* those that it waits for.
AckInv ==
  IF pc = "await"
  THEN /\ \A c \in nodeSet : Owes(c)
       /\ \A c \in clients \ nodeSet : Done(c)
  ELSE \A c \in clients : Calm(c)

\* A record of this migration, before it is over.
Told(rec) == /\ rec.status \in {"PRE_MIGRATE", "MIGRATE"}
             /\ rec.to_gid = mig.to_gid

\* The record that the task has in hand.
SlotInv ==
  /\ pc \in {"fresh", "children", "fill", "set", "await"} =>
       \/ slot.status = "ONLINE"
       \/ slot.status = "PRE_MIGRATE" /\ slot.to_gid = mig.to_gid
  /\ pc \in {"setMigrate", "setRecord", "move"} =>
       slot.status = "MIGRATE" /\ slot.to_gid = mig.to_gid

\* What the clients have cached and have in hand between the two barriers,
\* and after the second one.
OnTheWay(c) ==
  /\ slotMap[c][cur] # Null /\ Told(slotMap[c][cur])
  /\ watch[c][cur] = "dirty" => Told(zkSlot[cur])
  /\ queued[c] # Null /\ queued[c].id = cur => Told(queued[c].slot)

RouteInv ==
  /\ PastPreBarrier => \A c \in clients : OnTheWay(c)
  /\ pc = "delRecord" /\ slot # Null => \A c \in clients : Confirmed(c)

EpochInv == Members /\ LatchInv /\ AckInv /\ SlotInv /\ RouteInv

(* The inductive invariant.                                                *)
IInv == /\ TypeOK
        /\ clients \subseteq Running
        /\ Epoch => EpochInv

\* The records that the task builds are records.
LEMMA Records ==
  /\ \A r \in SlotRecord, g \in Gid \cup {NoGid} :
       [r EXCEPT !.status = "PRE_MIGRATE", !.to_gid = g] \in SlotRecord
  /\ \A r \in SlotRecord : [r EXCEPT !.status = "MIGRATE"] \in SlotRecord
  /\ \A r \in SlotRecord, g \in Gid :
       [r EXCEPT !.status = "ONLINE", !.src_gid = g, !.to_gid = NoGid] \in SlotRecord
  /\ \A g \in Gid : Online(g) \in SlotRecord
  /\ \A r \in SlotRecord : r.src_gid \in Gid
  /\ \A r \in MigrateRecord : r.from_gid \in Gid /\ r.to_gid \in Gid
  /\ \A r \in MigrateRecord : [r EXCEPT !.status = "MIGRATE"] \in MigrateRecord
  /\ \A r \in MigrateRecord : [r EXCEPT !.status = "ERROR"] \in MigrateRecord
  /\ \A f, g \in Gid, d \in {"short", "long"} :
       [status |-> "PENDING", from_gid |-> f, to_gid |-> g, delay |-> d]
         \in MigrateRecord
  /\ \A s \in SlotId, r \in SlotRecord : [id |-> s, slot |-> r] \in SlotEvent
  /\ \A e \in SlotEvent : e.id \in SlotId /\ e.slot \in SlotRecord
  BY DEF SlotRecord, MigrateRecord, SlotEvent, Online

\* What a write of a slot node does to the types.
LEMMA SetSlotType ==
  ASSUME TypeOK, NEW s \in SlotId, NEW rec \in SlotRecord, SetSlot(s, rec)
  PROVE  /\ zkSlot' \in [SlotId -> SlotRecord]
         /\ watch' \in [Client -> [SlotId -> {"none", "clean", "dirty"}]]
         /\ missed' \in [Client -> [SlotId -> BOOLEAN]]
<1>1. CASE Write(s, rec)
  <2>1. zkSlot' \in [SlotId -> SlotRecord]
    BY <1>1 DEF Write, TypeOK, ZkTypes, ClientTypes
  <2>2. watch' \in [Client -> [SlotId -> {"none", "clean", "dirty"}]]
    BY <1>1 DEF Write, TypeOK, ZkTypes, ClientTypes
  <2>3. missed' \in [Client -> [SlotId -> BOOLEAN]]
    <3>1. SUFFICES ASSUME NEW c \in Client
                   PROVE  missed'[c] \in [SlotId -> BOOLEAN]
      BY <1>1 DEF Write
    <3>2. missed[c] \in [SlotId -> BOOLEAN]
      BY DEF TypeOK, HistoryTypes
    <3> DEFINE v == /\ loadStep[c][s] # "unread"
                    /\ watch[c][s] = "none" \/ loadStep[c][s] = "read"
    <3>3. v \in BOOLEAN
      BY Zenon
    <3>4. missed'[c] = [missed[c] EXCEPT ![s] = v]
      BY <1>1, Zenon DEF Write
    <3> HIDE DEF v
    <3>5. \A f \in [SlotId -> BOOLEAN], w \in BOOLEAN :
            [f EXCEPT ![s] = w] \in [SlotId -> BOOLEAN]
      OBVIOUS
    <3> QED
      BY <3>2, <3>3, <3>4, <3>5
  <2> QED
    BY <2>1, <2>2, <2>3
<1>2. CASE UNCHANGED <<zkSlot, watch, missed>>
  BY <1>2 DEF TypeOK, ZkTypes, ClientTypes, HistoryTypes
<1> QED
  BY <1>1, <1>2 DEF SetSlot

LEMMA PersistType ==
  ASSUME TypeOK, NEW from \in SlotId, NEW to \in SlotId, NEW g \in Gid,
         NEW d \in {"short", "long"}, PersistMigrate(from, to, g, d)
  PROVE  zkMigrate' \in [SlotId -> MigrateRecord \cup {Null}]
<1>1. \A s \in SlotId : Pending(zkSlot[s].src_gid, g, d) \in MigrateRecord
  BY Records DEF TypeOK, ZkTypes, Pending
<1> QED
  BY <1>1 DEF PersistMigrate, TypeOK, ZkTypes

\* What a call that overlaps others leaves alone.
LEMMA OverlapFrame ==
  ASSUME OverlapStep
  PROVE  /\ UNCHANGED <<zkSlot, clients, slot, mig, rethrow, latchVars, adminVars,
                        clientVars, missed, disturbed>>
         /\ UNCHANGED <<pc, cur, last>> \/ OverlapPost
  BY DEF OverlapStep, OverlapRead, OverlapWrite, OverlapPost, OverlapRefused,
     OverlapUndo, zkVars, taskVars, taskLocal

\* The call that overlaps others writes what it has read.
LEMMA OverlapType ==
  ASSUME TypeOK, OverlapStep
  PROVE  TypeOK'
<1> USE DEF OverlapStep
<1>1. second # Null =>
        /\ second.id \in SlotId /\ second.from_gid \in Gid
        /\ second.to_gid \in Gid /\ second.delay \in {"short", "long"}
        /\ \A step \in {"read", "written", "refused"} :
             [second EXCEPT !.step = step] \in SecondCall
  BY DEF TypeOK, HistoryTypes, SecondCall
<1>2. zkMigrate' \in [SlotId -> MigrateRecord \cup {Null}]
  <2>1. CASE OverlapWrite
    <3>1. Pending(second.from_gid, second.to_gid, second.delay) \in MigrateRecord
      BY <1>1, <2>1 DEF OverlapWrite, Pending, MigrateRecord
    <3> QED BY <2>1, <3>1 DEF OverlapWrite, SetMigrateRecord, TypeOK, ZkTypes
  <2>2. CASE OverlapUndo
    BY <2>2 DEF OverlapUndo, SetMigrateRecord, TypeOK, ZkTypes
  <2>3. CASE OverlapRead \/ OverlapPost \/ OverlapRefused
    BY <2>3 DEF OverlapRead, OverlapPost, OverlapRefused, zkVars, TypeOK, ZkTypes
  <2> QED BY <2>1, <2>2, <2>3
<1>3. second' \in SecondCall \cup {Null} /\ submitted' \in Nat
  <2>1. CASE OverlapRead
    <3>1. PICK s \in SlotId, g \in Gid, d \in Delays :
            second' = [id |-> s, from_gid |-> zkSlot[s].src_gid, to_gid |-> g,
                       delay |-> d, step |-> "read"]
      BY <2>1 DEF OverlapRead
    <3>2. zkSlot[s].src_gid \in Gid
      BY DEF TypeOK, ZkTypes, SlotRecord
    <3> QED BY <2>1, <3>1, <3>2, FaultAssumption
            DEF OverlapRead, TypeOK, HistoryTypes, SecondCall
  <2> QED BY <1>1, <2>1 DEF OverlapWrite, OverlapPost, OverlapRefused,
             OverlapUndo, TypeOK, HistoryTypes
<1>4. outdated' \in BOOLEAN
  <2>1. outdated' = outdated \/ outdated' = (outdated \/ Outdated(second.id))
    BY DEF OverlapRead, OverlapWrite, OverlapPost, OverlapRefused, OverlapUndo
  <2> QED BY <2>1 DEF TypeOK, HistoryTypes
<1>5. TaskTypes'
  <2>1. CASE OverlapPost
    <3>1. second.id \in SlotId
      BY <1>1, <2>1 DEF OverlapPost
    <3> QED BY <2>1, <3>1 DEF OverlapPost, TypeOK, TaskTypes, Holding
  <2>2. CASE ~OverlapPost
    BY <2>2 DEF OverlapRead, OverlapWrite, OverlapRefused, OverlapUndo,
       TypeOK, TaskTypes, taskVars, taskLocal
  <2> QED BY <2>1, <2>2
<1>6. UNCHANGED <<zkSlot, clients, latchVars, adminVars, clientVars, missed, disturbed>>
  BY DEF OverlapRead, OverlapWrite, OverlapPost, OverlapRefused, OverlapUndo,
     zkVars, taskVars
<1>7. /\ zkSlot' = zkSlot /\ clients' = clients
      /\ missed' = missed /\ disturbed' = disturbed
  BY <1>6
<1>8. ZkTypes' /\ HistoryTypes'
  BY <1>2, <1>3, <1>4, <1>7 DEF TypeOK, ZkTypes, HistoryTypes
<1>9. LatchTypes' /\ AdminTypes' /\ ClientTypes'
  BY <1>6 DEF TypeOK, LatchTypes, AdminTypes, ClientTypes, latchVars,
     adminVars, clientVars
<1> QED BY <1>5, <1>8, <1>9 DEF TypeOK

LEMMA TypeNext == TypeOK /\ [Next]_vars => TypeOK'
<1> SUFFICES ASSUME TypeOK, [Next]_vars PROVE TypeOK'
  OBVIOUS
<1> USE DEF TypeOK, outsideTask, notRecords, outsideClients, taskVars
<1>1. CASE TaskStart
  <2>1. TaskTypes'
    BY <1>1 DEF TaskStart, TaskTypes, Holding, taskLocal
  <2>2. AdminTypes'
    BY <1>1 DEF TaskStart, AdminTypes, adminVars
  <2>3. HistoryTypes'
    BY <1>1 DEF TaskStart, HistoryTypes, historyVars, callVars
  <2>4. ZkTypes' /\ LatchTypes' /\ ClientTypes'
    BY <1>1 DEF TaskStart, ZkTypes, LatchTypes, ClientTypes, zkVars,
       latchVars, clientVars
  <2> QED
    BY <2>1, <2>2, <2>3, <2>4
<1>2. CASE ReadSlot
  <2>1. TaskTypes'
    <3>1. zkSlot[cur] \in SlotRecord /\ zkMigrate[cur] \in MigrateRecord
      BY <1>2 DEF ReadSlot, TaskTypes, ZkTypes
    <3>2. [zkSlot[cur] EXCEPT !.status = "PRE_MIGRATE",
                  !.to_gid = zkMigrate[cur].to_gid] \in SlotRecord
      BY <3>1, Records
    <3> QED
      BY <1>2, <3>1, <3>2, NullAssumption DEF ReadSlot, TaskTypes, Holding
  <2>2. ZkTypes' /\ LatchTypes' /\ AdminTypes' /\ ClientTypes' /\ HistoryTypes'
    BY <1>2 DEF ReadSlot, ZkTypes, LatchTypes, AdminTypes, ClientTypes,
       HistoryTypes, zkVars, latchVars, adminVars, clientVars, historyVars, callVars
  <2> QED
    BY <2>1, <2>2
<1>3. CASE SkipSameGroup
  <2>1. TaskTypes'
    BY <1>3 DEF SkipSameGroup, TaskTypes, Holding, taskLocal
  <2>2. ZkTypes' /\ LatchTypes' /\ AdminTypes' /\ ClientTypes' /\ HistoryTypes'
    BY <1>3 DEF SkipSameGroup, ZkTypes, LatchTypes, AdminTypes, ClientTypes,
       HistoryTypes, zkVars, latchVars, adminVars, clientVars, historyVars, callVars
  <2> QED
    BY <2>1, <2>2
<1>4. CASE NoRecord
  <2>1. TaskTypes'
    BY <1>4 DEF NoRecord, TaskTypes, Holding, taskLocal
  <2>2. ZkTypes' /\ LatchTypes' /\ AdminTypes' /\ ClientTypes' /\ HistoryTypes'
    BY <1>4 DEF NoRecord, ZkTypes, LatchTypes, AdminTypes, ClientTypes,
       HistoryTypes, zkVars, latchVars, adminVars, clientVars, historyVars, callVars
  <2> QED
    BY <2>1, <2>2
<1>5. CASE FreshClear
  <2>1. TaskTypes'
    BY <1>5 DEF FreshClear, TaskTypes, Holding, taskLocal
  <2>2. LatchTypes'
    BY <1>5 DEF FreshClear, LatchTypes, latchVars
  <2>3. ZkTypes' /\ AdminTypes' /\ ClientTypes' /\ HistoryTypes'
    BY <1>5 DEF FreshClear, ZkTypes, AdminTypes, ClientTypes, HistoryTypes,
       zkVars, adminVars, clientVars, historyVars, callVars
  <2> QED
    BY <2>1, <2>2, <2>3
<1>6. CASE FreshChildren
  <2>1. TaskTypes'
    BY <1>6 DEF FreshChildren, TaskTypes, Holding, taskLocal
  <2>2. LatchTypes'
    BY <1>6 DEF FreshChildren, LatchTypes, ZkTypes, latchVars
  <2>3. HistoryTypes'
    BY <1>6 DEF FreshChildren, HistoryTypes, historyVars, callVars
  <2>4. ZkTypes' /\ AdminTypes' /\ ClientTypes'
    BY <1>6 DEF FreshChildren, ZkTypes, AdminTypes, ClientTypes, zkVars,
       adminVars, clientVars
  <2> QED
    BY <2>1, <2>2, <2>3, <2>4
<1>7. CASE FreshAdd
  <2>1. LatchTypes'
    BY <1>7 DEF FreshAdd, LatchTypes, latchVars
  <2>2. ZkTypes' /\ TaskTypes' /\ AdminTypes' /\ ClientTypes' /\ HistoryTypes'
    BY <1>7 DEF FreshAdd, ZkTypes, TaskTypes, AdminTypes, ClientTypes,
       HistoryTypes, Holding, taskLocal, zkVars, adminVars, clientVars,
       historyVars, callVars
  <2> QED
    BY <2>1, <2>2
<1>8. CASE FreshDone
  <2>1. TaskTypes'
    BY <1>8 DEF FreshDone, TaskTypes, Holding, taskLocal
  <2>2. LatchTypes'
    BY <1>8 DEF FreshDone, LatchTypes, EmptyAnswers, latchVars
  <2>3. ZkTypes' /\ AdminTypes' /\ ClientTypes' /\ HistoryTypes'
    BY <1>8 DEF FreshDone, ZkTypes, AdminTypes, ClientTypes, HistoryTypes,
       zkVars, adminVars, clientVars, historyVars, callVars
  <2> QED
    BY <2>1, <2>2, <2>3
<1>9. CASE SetBarrierSlot
  <2>1. ZkTypes' /\ ClientTypes' /\ HistoryTypes'
    <3>1. slot \in SlotRecord /\ cur \in SlotId /\ SetSlot(cur, slot)
      BY <1>9 DEF SetBarrierSlot, TaskTypes, Holding
    <3> QED
      BY <1>9, <3>1, SetSlotType DEF SetBarrierSlot, ZkTypes, ClientTypes,
         HistoryTypes, callVars
  <2>2. TaskTypes' /\ LatchTypes' /\ AdminTypes'
    BY <1>9 DEF SetBarrierSlot, TaskTypes, Holding, LatchTypes, AdminTypes,
       taskLocal, latchVars, adminVars
  <2> QED
    BY <2>1, <2>2
<1>10. CASE AwaitOpen
  <2>1. TaskTypes'
    <3>1. slot \in SlotRecord
      BY <1>10 DEF AwaitOpen, TaskTypes, Holding
    <3>2. [slot EXCEPT !.status = "MIGRATE"] \in SlotRecord
      BY <3>1, Records
    <3> QED
      BY <1>10, <3>1, <3>2, NullAssumption
         DEF AwaitOpen, TaskTypes, Holding, AfterAwait
  <2>2. ZkTypes' /\ LatchTypes' /\ AdminTypes' /\ ClientTypes' /\ HistoryTypes'
    BY <1>10 DEF AwaitOpen, ZkTypes, LatchTypes, AdminTypes, ClientTypes,
       HistoryTypes, zkVars, latchVars, adminVars, clientVars, historyVars, callVars
  <2> QED
    BY <2>1, <2>2
<1>11. CASE AwaitTimeout
  <2>1. TaskTypes'
    <3>1. slot \in SlotRecord
      BY <1>11 DEF AwaitTimeout, TaskTypes, Holding
    <3>2. [slot EXCEPT !.status = "MIGRATE"] \in SlotRecord
      BY <3>1, Records
    <3> QED
      BY <1>11, <3>1, <3>2, NullAssumption
         DEF AwaitTimeout, TaskTypes, Holding, AfterAwait
  <2>2. HistoryTypes'
    BY <1>11 DEF AwaitTimeout, HistoryTypes, historyVars, callVars
  <2>3. ZkTypes' /\ LatchTypes' /\ AdminTypes' /\ ClientTypes'
    BY <1>11 DEF AwaitTimeout, ZkTypes, LatchTypes, AdminTypes, ClientTypes,
       zkVars, latchVars, adminVars, clientVars
  <2> QED
    BY <2>1, <2>2, <2>3
<1>12. CASE SetMigrate
  <2>1. ZkTypes' /\ ClientTypes' /\ HistoryTypes'
    <3>1. slot \in SlotRecord /\ cur \in SlotId /\ SetSlot(cur, slot)
      BY <1>12 DEF SetMigrate, TaskTypes, Holding
    <3> QED
      BY <1>12, <3>1, SetSlotType DEF SetMigrate, ZkTypes, ClientTypes,
         HistoryTypes, callVars
  <2>2. TaskTypes' /\ LatchTypes' /\ AdminTypes'
    BY <1>12 DEF SetMigrate, TaskTypes, Holding, LatchTypes, AdminTypes,
       taskLocal, latchVars, adminVars
  <2> QED
    BY <2>1, <2>2
<1>13. CASE SetRecord
  <2>1. ZkTypes'
    BY <1>13, Records DEF SetRecord, ZkTypes, Holding, TaskTypes,
       SetMigrateRecord, zkVars
  <2>2. TaskTypes'
    BY <1>13 DEF SetRecord, TaskTypes, Holding, taskLocal
  <2>3. LatchTypes' /\ AdminTypes' /\ ClientTypes' /\ HistoryTypes'
    BY <1>13 DEF SetRecord, LatchTypes, AdminTypes, ClientTypes, HistoryTypes,
       latchVars, adminVars, clientVars, historyVars, callVars
  <2> QED
    BY <2>1, <2>2, <2>3
<1>14. CASE DelRecord
  <2>1. ZkTypes'
    BY <1>14 DEF DelRecord, ZkTypes, Holding, TaskTypes, SetMigrateRecord,
       zkVars
  <2>2. TaskTypes'
    <3>1. cur < last => cur + 1 \in SlotId
      BY SlotAssumption DEF TaskTypes, SlotId
    <3>2. 0 \in SlotId
      BY SlotAssumption DEF SlotId
    <3>3. CASE cur < last
      BY <1>14, <3>1, <3>3 DEF DelRecord, NextSlot, TaskTypes, Holding
    <3>4. CASE ~(cur < last)
      BY <1>14, <3>2, <3>4 DEF DelRecord, NextSlot, TaskTypes, Holding
    <3> QED
      BY <3>3, <3>4
  <2>3. LatchTypes'
    BY <1>14 DEF DelRecord, LatchTypes, NextSlot, latchVars
  <2>4. AdminTypes'
    BY <1>14 DEF DelRecord, AdminTypes, NextSlot, adminVars
  <2>5. ClientTypes' /\ HistoryTypes'
    BY <1>14 DEF DelRecord, ClientTypes, HistoryTypes, clientVars,
       historyVars, callVars, NextSlot
  <2> QED
    BY <2>1, <2>2, <2>3, <2>4, <2>5
<1>15. CASE MarkError
  <2>1. ZkTypes'
    BY <1>15, Records, ZenonT(30) DEF MarkError, ZkTypes, Holding, TaskTypes,
       SetMigrateRecord, zkVars
  <2>2. TaskTypes'
    <3>1. cur < last => cur + 1 \in SlotId
      BY SlotAssumption DEF TaskTypes, SlotId
    <3>2. 0 \in SlotId
      BY SlotAssumption DEF SlotId
    <3>3. CASE cur < last
      BY <1>15, <3>1, <3>3 DEF MarkError, NextSlot, TaskTypes, Holding
    <3>4. CASE ~(cur < last)
      BY <1>15, <3>2, <3>4 DEF MarkError, NextSlot, TaskTypes, Holding
    <3> QED
      BY <3>3, <3>4
  <2>3. LatchTypes'
    BY <1>15 DEF MarkError, LatchTypes, NextSlot, latchVars
  <2>4. AdminTypes'
    BY <1>15 DEF MarkError, AdminTypes, NextSlot, adminVars
  <2>5. ClientTypes' /\ HistoryTypes'
    BY <1>15 DEF MarkError, ClientTypes, HistoryTypes, clientVars,
       historyVars, callVars, NextSlot
  <2> QED
    BY <2>1, <2>2, <2>3, <2>4, <2>5
<1>16. CASE MoveDone
  <2>1. TaskTypes'
    <3>1. slot \in SlotRecord /\ mig \in MigrateRecord
      BY <1>16 DEF MoveDone, TaskTypes, Holding
    <3>2. [slot EXCEPT !.status = "ONLINE", !.src_gid = mig.to_gid,
                       !.to_gid = NoGid] \in SlotRecord
      BY <3>1, Records
    <3> QED
      BY <1>16, <3>1, <3>2, NullAssumption
         DEF MoveDone, TaskTypes, Holding, Post
  <2>2. ZkTypes' /\ LatchTypes' /\ AdminTypes' /\ ClientTypes' /\ HistoryTypes'
    BY <1>16 DEF MoveDone, ZkTypes, LatchTypes, AdminTypes, ClientTypes,
       HistoryTypes, zkVars, latchVars, adminVars, clientVars, historyVars, callVars
  <2> QED
    BY <2>1, <2>2
<1>17. CASE MoveConnFails
  <2>1. TaskTypes'
    <3>1. slot \in SlotRecord /\ mig \in MigrateRecord
      BY <1>17 DEF MoveConnFails, TaskTypes, Holding
    <3>2. [slot EXCEPT !.status = "ONLINE", !.src_gid = mig.from_gid,
                       !.to_gid = NoGid] \in SlotRecord
      BY <3>1, Records
    <3> QED
      BY <1>17, <3>1, <3>2, NullAssumption
         DEF MoveConnFails, TaskTypes, Holding, Post
  <2>2. ZkTypes' /\ LatchTypes' /\ AdminTypes' /\ ClientTypes' /\ HistoryTypes'
    BY <1>17 DEF MoveConnFails, ZkTypes, LatchTypes, AdminTypes, ClientTypes,
       HistoryTypes, zkVars, latchVars, adminVars, clientVars, historyVars, callVars
  <2> QED
    BY <2>1, <2>2
<1>18. CASE MoveFails
  <2>1. TaskTypes'
    BY <1>18 DEF MoveFails, TaskTypes, Holding, taskLocal
  <2>2. ZkTypes' /\ LatchTypes' /\ AdminTypes' /\ ClientTypes' /\ HistoryTypes'
    BY <1>18 DEF MoveFails, ZkTypes, LatchTypes, AdminTypes, ClientTypes,
       HistoryTypes, zkVars, latchVars, adminVars, clientVars, historyVars, callVars
  <2> QED
    BY <2>1, <2>2
<1>19. CASE Submit
  <2>1. ZkTypes'
    BY <1>19, PersistType, FaultAssumption DEF Submit, ZkTypes
  <2>2. TaskTypes'
    BY <1>19, SlotAssumption DEF Submit, TaskTypes, Holding, SlotId, taskLocal
  <2>3. HistoryTypes'
    BY <1>19 DEF Submit, HistoryTypes, historyVars, callVars
  <2>4. LatchTypes' /\ AdminTypes' /\ ClientTypes'
    BY <1>19 DEF Submit, LatchTypes, AdminTypes, ClientTypes, latchVars,
       adminVars, clientVars
  <2> QED
    BY <2>1, <2>2, <2>3, <2>4
<1>20. CASE OverlapStep
  BY <1>20, OverlapType
<1>21. CASE DelTask
  <2>1. ZkTypes'
    BY <1>21 DEF DelTask, ZkTypes, zkVars
  <2>2. TaskTypes' /\ LatchTypes' /\ AdminTypes' /\ ClientTypes'
     /\ HistoryTypes'
    BY <1>21 DEF DelTask, TaskTypes, LatchTypes, AdminTypes, ClientTypes,
       HistoryTypes, Holding, taskLocal, latchVars, adminVars, clientVars,
       historyVars, callVars
  <2> QED
    BY <2>1, <2>2
<1>22. CASE Crash
  <2>1. TaskTypes'
    <3>1. 0 \in SlotId
      BY SlotAssumption DEF SlotId
    <3> QED
      BY <1>22, <3>1 DEF Crash, TaskTypes, Holding
  <2>2. LatchTypes'
    BY <1>22 DEF Crash, LatchTypes, latchVars
  <2>3. AdminTypes'
    BY <1>22 DEF Crash, AdminTypes, adminVars
  <2>4. ZkTypes' /\ ClientTypes' /\ HistoryTypes'
    BY <1>22 DEF Crash, ZkTypes, ClientTypes, HistoryTypes, zkVars,
       clientVars, historyVars, callVars
  <2> QED
    BY <2>1, <2>2, <2>3, <2>4
<1>23. ASSUME NEW c \in Client, AdminLoad(c) PROVE TypeOK'
  <2>1. AdminTypes'
    BY <1>23 DEF AdminLoad, AdminTypes, adminVars
  <2>2. ZkTypes' /\ TaskTypes' /\ LatchTypes' /\ ClientTypes' /\ HistoryTypes'
    BY <1>23 DEF AdminLoad, ZkTypes, TaskTypes, LatchTypes, ClientTypes,
       HistoryTypes, Holding, taskLocal, zkVars, latchVars, clientVars,
       historyVars, callVars
  <2> QED
    BY <2>1, <2>2
<1>24. ASSUME NEW c \in Client, UpdatedEvent(c) PROVE TypeOK'
  <2>1. TaskTypes'
    BY <1>24 DEF UpdatedEvent, TaskTypes, Holding, CountDown, taskLocal
  <2>2. LatchTypes'
    BY <1>24 DEF UpdatedEvent, LatchTypes, CountDown, EmptyAnswers, latchVars
  <2>3. AdminTypes'
    BY <1>24 DEF UpdatedEvent, AdminTypes, adminVars
  <2>4. ZkTypes' /\ ClientTypes' /\ HistoryTypes'
    BY <1>24 DEF UpdatedEvent, ZkTypes, ClientTypes, HistoryTypes, zkVars,
       clientVars, historyVars, callVars, CountDown
  <2> QED
    BY <2>1, <2>2, <2>3, <2>4
<1>25. ASSUME NEW c \in Client, RemovedEvent(c) PROVE TypeOK'
  <2>1. TaskTypes'
    BY <1>25 DEF RemovedEvent, TaskTypes, Holding, CountDown, taskLocal
  <2>2. LatchTypes'
    BY <1>25 DEF RemovedEvent, LatchTypes, CountDown, EmptyAnswers, latchVars
  <2>3. AdminTypes'
    BY <1>25 DEF RemovedEvent, AdminTypes, adminVars
  <2>4. ZkTypes' /\ ClientTypes' /\ HistoryTypes'
    BY <1>25 DEF RemovedEvent, ZkTypes, ClientTypes, HistoryTypes, zkVars,
       clientVars, historyVars, callVars, CountDown
  <2> QED
    BY <2>1, <2>2, <2>3, <2>4
<1>26. ASSUME NEW c \in Client, Apply(c) PROVE TypeOK'
  <2>1. ClientTypes'
    BY <1>26, Records DEF Apply, ClientTypes, clientVars, Running
  <2>2. ZkTypes' /\ TaskTypes' /\ LatchTypes' /\ AdminTypes' /\ HistoryTypes'
    BY <1>26 DEF Apply, ZkTypes, TaskTypes, LatchTypes, AdminTypes,
       HistoryTypes, Holding, taskLocal, zkVars, latchVars, adminVars,
       historyVars, callVars
  <2> QED
    BY <2>1, <2>2
<1>27. ASSUME NEW c \in Client, Ack(c) PROVE TypeOK'
  <2>1. AdminTypes'
    BY <1>27 DEF Ack, AdminTypes, UpdateClientNode, adminVars
  <2>2. ClientTypes'
    BY <1>27 DEF Ack, ClientTypes, clientVars, Running
  <2>3. ZkTypes' /\ TaskTypes' /\ LatchTypes' /\ HistoryTypes'
    BY <1>27 DEF Ack, ZkTypes, TaskTypes, LatchTypes, HistoryTypes, Holding,
       taskLocal, zkVars, latchVars, historyVars, callVars
  <2> QED
    BY <2>1, <2>2, <2>3
<1>28. ASSUME NEW c \in Client, AdminEdit(c) PROVE TypeOK'
  <2>1. AdminTypes'
    BY <1>28 DEF AdminEdit, AdminTypes, UpdateClientNode, adminVars
  <2>2. HistoryTypes'
    BY <1>28 DEF AdminEdit, HistoryTypes, Disturb, Active, historyVars, callVars
  <2>3. ZkTypes' /\ TaskTypes' /\ LatchTypes' /\ ClientTypes'
    BY <1>28 DEF AdminEdit, ZkTypes, TaskTypes, LatchTypes, ClientTypes,
       Holding, taskLocal, zkVars, latchVars, clientVars
  <2> QED
    BY <2>1, <2>2, <2>3
<1>29. ASSUME NEW c \in Client, Register(c) PROVE TypeOK'
  <2>1. ZkTypes'
    BY <1>29 DEF Register, ZkTypes, zkVars
  <2>2. ClientTypes'
    BY <1>29 DEF Register, ClientTypes, clientVars, Running
  <2>3. HistoryTypes'
    BY <1>29 DEF Register, HistoryTypes, Disturb, Active, historyVars, callVars
  <2>4. TaskTypes' /\ LatchTypes' /\ AdminTypes'
    BY <1>29 DEF Register, TaskTypes, LatchTypes, AdminTypes, Holding,
       taskLocal, latchVars, adminVars
  <2> QED
    BY <2>1, <2>2, <2>3, <2>4
<1>30. ASSUME NEW c \in Client, Expire(c) PROVE TypeOK'
  <2>1. ZkTypes'
    BY <1>30 DEF Expire, ZkTypes, RemoveNode, zkVars
  <2>2. AdminTypes'
    BY <1>30 DEF Expire, AdminTypes, RemoveNode, adminVars
  <2>3. HistoryTypes'
    BY <1>30 DEF Expire, HistoryTypes, Disturb, Active, historyVars, callVars
  <2>4. TaskTypes' /\ LatchTypes' /\ ClientTypes'
    BY <1>30 DEF Expire, TaskTypes, LatchTypes, ClientTypes, Holding,
       taskLocal, latchVars, clientVars
  <2> QED
    BY <2>1, <2>2, <2>3, <2>4
<1>31. ASSUME NEW c \in Client, Leave(c) PROVE TypeOK'
  <2>1. ZkTypes'
    BY <1>31 DEF Leave, ZkTypes, RemoveNode, zkVars
  <2>2. AdminTypes'
    BY <1>31 DEF Leave, AdminTypes, RemoveNode, adminVars
  <2>3. ClientTypes'
    BY <1>31 DEF Leave, ClientTypes, clientVars, Running
  <2>4. HistoryTypes'
    BY <1>31 DEF Leave, HistoryTypes, Disturb, Active, historyVars, callVars
  <2>5. TaskTypes' /\ LatchTypes'
    BY <1>31 DEF Leave, TaskTypes, LatchTypes, Holding, taskLocal, latchVars
  <2> QED
    BY <2>1, <2>2, <2>3, <2>4, <2>5
<1>32. ASSUME NEW c \in Client, NEW s \in SlotId, WatchSlot(c, s) PROVE TypeOK'
  <2>1. ClientTypes'
    BY <1>32 DEF WatchSlot, ClientTypes, clientVars, Running
  <2>2. ZkTypes' /\ TaskTypes' /\ LatchTypes' /\ AdminTypes' /\ HistoryTypes'
    BY <1>32 DEF WatchSlot, ZkTypes, TaskTypes, LatchTypes, AdminTypes,
       HistoryTypes, Holding, taskLocal, zkVars, latchVars, adminVars,
       historyVars, callVars
  <2> QED
    BY <2>1, <2>2
<1>33. ASSUME NEW c \in Client, NEW s \in SlotId, Fetch(c, s) PROVE TypeOK'
  <2>1. ClientTypes'
    BY <1>33, Records DEF Fetch, ClientTypes, ZkTypes, clientVars, Running
  <2>2. ZkTypes' /\ TaskTypes' /\ LatchTypes' /\ AdminTypes' /\ HistoryTypes'
    BY <1>33 DEF Fetch, ZkTypes, TaskTypes, LatchTypes, AdminTypes,
       HistoryTypes, Holding, taskLocal, zkVars, latchVars, adminVars,
       historyVars, callVars
  <2> QED
    BY <2>1, <2>2
<1>34. ASSUME NEW c \in Client, NEW s \in SlotId, LoadRead(c, s) PROVE TypeOK'
  <2>1. ClientTypes'
    BY <1>34, Records DEF LoadRead, ClientTypes, ZkTypes, clientVars, Running
  <2>2. ZkTypes' /\ TaskTypes' /\ LatchTypes' /\ AdminTypes' /\ HistoryTypes'
    BY <1>34 DEF LoadRead, ZkTypes, TaskTypes, LatchTypes, AdminTypes,
       HistoryTypes, Holding, taskLocal, zkVars, latchVars, adminVars,
       historyVars, callVars
  <2> QED
    BY <2>1, <2>2
<1>35. ASSUME NEW c \in Client, NEW s \in SlotId, LoadPut(c, s) PROVE TypeOK'
  <2>1. ClientTypes'
    BY <1>35 DEF LoadPut, ClientTypes, clientVars, Running
  <2>2. ZkTypes' /\ TaskTypes' /\ LatchTypes' /\ AdminTypes' /\ HistoryTypes'
    BY <1>35 DEF LoadPut, ZkTypes, TaskTypes, LatchTypes, AdminTypes,
       HistoryTypes, Holding, taskLocal, zkVars, latchVars, adminVars,
       historyVars, callVars
  <2> QED
    BY <2>1, <2>2
<1>36. ASSUME NEW c \in Client, NEW s \in SlotId, LoadLost(c, s) PROVE TypeOK'
  <2>1. ClientTypes'
    BY <1>36 DEF LoadLost, ClientTypes, clientVars, Running
  <2>2. HistoryTypes'
    BY <1>36 DEF LoadLost, HistoryTypes, historyVars, callVars
  <2>3. ZkTypes' /\ TaskTypes' /\ LatchTypes' /\ AdminTypes'
    BY <1>36 DEF LoadLost, ZkTypes, TaskTypes, LatchTypes, AdminTypes,
       Holding, taskLocal, zkVars, latchVars, adminVars
  <2> QED
    BY <2>1, <2>2, <2>3
<1>37. CASE UNCHANGED vars
  BY <1>37 DEF vars, ZkTypes, TaskTypes, Holding, LatchTypes, AdminTypes,
     ClientTypes, HistoryTypes, zkVars, taskLocal, latchVars, adminVars,
     clientVars, historyVars, callVars
<1> QED
  BY <1>1, <1>2, <1>3, <1>4, <1>5, <1>6, <1>7, <1>8, <1>9, <1>10, <1>11,
     <1>12, <1>13, <1>14, <1>15, <1>16, <1>17, <1>18, <1>19, <1>20, <1>21,
     <1>22, <1>23, <1>24, <1>25, <1>26, <1>27, <1>28, <1>29, <1>30, <1>31,
     <1>32, <1>33, <1>34, <1>35, <1>36, <1>37
     DEF Next, TaskStep, ProtocolStep, ListenerStep, ClientStep, Environment

LEMMA TypeInit == Init => TypeOK
<1> SUFFICES ASSUME Init PROVE TypeOK
  OBVIOUS
<1>1. PICK g \in Gid : zkSlot = [s \in SlotId |-> Online(g)]
  BY DEF Init
<1>2. zkSlot \in [SlotId -> SlotRecord]
  BY <1>1, Records
<1>3. ZkTypes /\ HistoryTypes /\ AdminTypes /\ LatchTypes
  BY <1>2 DEF Init, ZkTypes, HistoryTypes, AdminTypes, LatchTypes
<1>4. TaskTypes
  <2>1. 0 \in SlotId
    BY SlotAssumption DEF SlotId
  <2> QED
    BY <2>1 DEF Init, TaskTypes, Holding
<1>5. ClientTypes
  BY <1>2 DEF Init, ClientTypes
<1> QED
  BY <1>3, <1>4, <1>5 DEF TypeOK

(* Every variable keeps its type, whatever fails (SlotMigration.TypeOK).   *)
THEOREM TypeCorrect == Spec => []TypeOK
  BY TypeInit, TypeNext, PTL DEF Spec

-----------------------------------------------------------------------------
(* The inductive invariant is preserved.                                   *)

\* Only registered clients are in the clients node.
LEMMA RegisteredNext ==
  ASSUME TypeOK, clients \subseteq Running, [Next]_vars
  PROVE  (clients \subseteq Running)'
<1> USE DEF Running, TypeOK, ZkTypes, ClientTypes
<1>1. ASSUME NEW c \in Client, Register(c) PROVE (clients \subseteq Running)'
  BY <1>1 DEF Register
<1>2. ASSUME NEW c \in Client, Expire(c) PROVE (clients \subseteq Running)'
  BY <1>2 DEF Expire, RemoveNode, clientVars
<1>3. ASSUME NEW c \in Client, Leave(c) PROVE (clients \subseteq Running)'
  BY <1>3 DEF Leave, RemoveNode
<1>4. CASE UNCHANGED <<clients, life>>
  BY <1>4
<1>5. CASE TaskStep
  BY <1>4, <1>5 DEF TaskStep, ProtocolStep, TaskStart, ReadSlot,
     SkipSameGroup, NoRecord, FreshClear, FreshChildren, FreshAdd, FreshDone,
     SetBarrierSlot, AwaitOpen, AwaitTimeout, SetMigrate, SetRecord,
     DelRecord, MarkError, MoveDone, MoveConnFails, MoveFails, outsideTask,
     notRecords, zkVars, clientVars
<1>6. CASE ListenerStep
  BY <1>4, <1>6 DEF ListenerStep, AdminLoad, UpdatedEvent, RemovedEvent,
     zkVars, clientVars
<1>7. CASE ClientStep
  BY <1>4, <1>7 DEF ClientStep, WatchSlot, Fetch, LoadRead, LoadPut, LoadLost,
     Apply, Ack, outsideClients, zkVars
<1>8. CASE Submit \/ OverlapStep \/ DelTask \/ Crash
  BY <1>4, <1>8, OverlapFrame DEF Submit, DelTask, Crash, notRecords, zkVars,
     clientVars
<1>9. ASSUME NEW c \in Client, AdminEdit(c) PROVE (clients \subseteq Running)'
  BY <1>4, <1>9 DEF AdminEdit, zkVars, clientVars
<1>10. CASE UNCHANGED vars
  BY <1>4, <1>10 DEF vars, zkVars, clientVars
<1> QED
  BY <1>1, <1>2, <1>3, <1>5, <1>6, <1>7, <1>8, <1>9, <1>10
     DEF Next, Environment

\* The steps that the protocol is not prepared for end the epoch.
LEMMA Disturbed ==
  ASSUME TypeOK,
         \/ AwaitTimeout \/ Crash
         \/ \E c \in Client : AdminEdit(c) \/ Register(c) \/ Expire(c) \/ Leave(c)
  PROVE  ~Epoch'
<1>1. CASE AwaitTimeout \/ Crash
  BY <1>1 DEF AwaitTimeout, Crash, Epoch, Active
<1>2. ASSUME NEW c \in Client,
             AdminEdit(c) \/ Register(c) \/ Expire(c) \/ Leave(c)
      PROVE  ~Epoch'
  BY <1>2 DEF AdminEdit, Register, Expire, Leave, Disturb, Epoch, Active,
     taskVars, TypeOK, HistoryTypes
<1> QED
  BY <1>1, <1>2

\* The state that the invariant of an epoch speaks of, apart from the task.
clientView == <<zkSlot, clients, gone, upd, life, loadStep, watch, queued,
                acking, slotMap>>

\* What a step that leaves that state alone preserves.
LEMMA Frame ==
  ASSUME IInv, Epoch, UNCHANGED clientView
  PROVE  /\ Members'
         /\ \A c \in Client : Calm(c)' <=> Calm(c)
         /\ UNCHANGED <<cur, slot>> =>
              \A c \in Client : /\ Confirmed(c)' <=> Confirmed(c)
                                /\ Owes(c)' <=> Owes(c)
  BY DEF IInv, EpochInv, Members, Running, Calm, NoAck, Confirmed, Owes,
     ToFetch, Queued, Sending, Sent, clientView

\* A task that starts in a settled cluster starts an epoch.
LEMMA StartStep ==
  ASSUME IInv, TaskStart
  PROVE  Epoch' => EpochInv'
<1> SUFFICES ASSUME Epoch' PROVE EpochInv'
  OBVIOUS
<1> USE DEF IInv
<1>1. Settled
  BY DEF TaskStart, Epoch
<1>2. UNCHANGED <<zkVars, taskLocal, latchVars, clientVars>> /\ pc' = "read"
      /\ gone' = {} /\ upd' = [c \in Client |-> 0]
  BY DEF TaskStart
<1>3. Members'
  BY <1>1, <1>2 DEF Settled, Members, Running, zkVars, clientVars, TypeOK, ZkTypes
<1>4. \A c \in clients : Calm(c)'
  BY <1>1, <1>2 DEF Settled, Calm, NoAck, Running, zkVars, clientVars, TypeOK,
     ZkTypes
<1>5. LatchInv' /\ AckInv'
  BY <1>2, <1>4 DEF LatchInv, AckInv, zkVars
<1>6. SlotInv' /\ RouteInv'
  BY <1>2 DEF SlotInv, RouteInv, PastPreBarrier
<1> QED
  BY <1>3, <1>5, <1>6 DEF EpochInv

\* The steps of the task between two writes.
LEMMA QuietStep ==
  ASSUME IInv, Epoch, TypeOK',
         \/ ReadSlot \/ SkipSameGroup \/ NoRecord \/ FreshClear
         \/ FreshChildren \/ FreshAdd \/ FreshDone \/ AwaitOpen
         \/ SetRecord \/ MoveDone \/ MoveConnFails \/ MoveFails
         \/ DelRecord \/ MarkError
  PROVE  Epoch' => EpochInv'
<1> SUFFICES ASSUME Epoch' PROVE EpochInv'
  OBVIOUS
<1> USE DEF IInv, EpochInv
<1>1. pc # "await" => \A c \in clients : Calm(c)
  BY DEF AckInv
<1>2. clients \subseteq Client
  BY DEF TypeOK, ZkTypes
<1>3. CASE ReadSlot
  <2>1. UNCHANGED clientView
    BY <1>3 DEF ReadSlot, outsideTask, zkVars, adminVars, clientVars, clientView
  <2>2. LatchInv' /\ AckInv'
    BY <1>1, <1>2, <1>3, <2>1, Frame DEF ReadSlot, LatchInv, AckInv, clientView
  <2>3. zkSlot[cur] \in SlotRecord
    BY DEF TypeOK, ZkTypes, TaskTypes
  <2>4. slot'.status = "PRE_MIGRATE" /\ slot'.to_gid = mig'.to_gid
    BY <1>3, <2>3 DEF ReadSlot, SlotRecord
  <2>5. pc' = "fresh"
    BY <1>3 DEF ReadSlot
  <2>6. SlotInv'
    BY <2>4, <2>5 DEF SlotInv
  <2>7. RouteInv'
    BY <2>4, <2>5 DEF RouteInv, PastPreBarrier
  <2> QED
    BY <2>1, <2>2, <2>6, <2>7, Frame
<1>4. CASE SkipSameGroup \/ NoRecord
  <2>1. UNCHANGED clientView /\ pc = "read" /\ slot' = Null
        /\ pc' \in {"delRecord", "markError"}
    BY <1>4 DEF SkipSameGroup, NoRecord, outsideTask, zkVars, adminVars,
       clientVars, clientView, taskLocal, TypeOK, TaskTypes
  <2>2. LatchInv' /\ AckInv'
    BY <1>1, <1>2, <2>1, Frame DEF LatchInv, AckInv, clientView
  <2>3. SlotInv' /\ RouteInv'
    BY <2>1 DEF SlotInv, RouteInv, PastPreBarrier
  <2> QED
    BY <2>1, <2>2, <2>3, Frame
<1>5. CASE FreshClear \/ FreshChildren \/ FreshAdd \/ FreshDone
  <2>1. UNCHANGED clientView /\ UNCHANGED taskLocal
        /\ pc \in {"fresh", "children", "fill"}
        /\ pc' \in {"children", "fill", "set"}
    BY <1>5 DEF FreshClear, FreshChildren, FreshAdd, FreshDone, outsideTask,
       zkVars, adminVars, clientVars, clientView
  <2>2. AckInv'
    BY <1>1, <1>2, <2>1, Frame DEF clientView, AckInv
  <2>3. LatchInv'
    <3>1. CASE FreshClear
      BY <2>1, <3>1 DEF FreshClear, LatchInv
    <3>2. CASE FreshChildren
      BY <2>1, <3>2 DEF FreshChildren, LatchInv, Epoch, clientView
    <3>3. CASE FreshAdd
      BY <2>1, <3>3 DEF FreshAdd, LatchInv, clientView
    <3>4. CASE FreshDone
      <4>1. nodeSet = clients /\ racy = FALSE /\ latch = 1 /\ pc' = "set"
        BY <3>4 DEF FreshDone, LatchInv
      <4>2. latch' = IF nodeSet = {} THEN 0 ELSE latch
        BY <3>4, <4>1 DEF FreshDone, EmptyAnswers
      <4> QED
        BY <2>1, <3>4, <4>1, <4>2 DEF FreshDone, LatchInv, clientView
    <3> QED
      BY <1>5, <3>1, <3>2, <3>3, <3>4
  <2>4. SlotInv' /\ RouteInv'
    BY <2>1 DEF SlotInv, RouteInv, PastPreBarrier, OnTheWay, Told, taskLocal, clientView
  <2> QED
    BY <2>1, <2>2, <2>3, <2>4, Frame
<1>6. CASE AwaitOpen
  <2>1. UNCHANGED clientView /\ UNCHANGED <<cur, mig>> /\ pc = "await"
        /\ pc' \in {"setMigrate", "markError", "delRecord"}
    BY <1>6 DEF AwaitOpen, AfterAwait, outsideTask, zkVars, adminVars,
       clientVars, clientView
  <2>2. \A c \in clients : Calm(c) /\ Confirmed(c)
    BY <1>6 DEF AwaitOpen, LatchInv, AckInv, Done
  <2>3. LatchInv' /\ AckInv'
    BY <1>2, <2>1, <2>2, Frame DEF LatchInv, AckInv, clientView
  <2>4. slot \in SlotRecord
    BY <2>1 DEF TypeOK, TaskTypes, Holding
  <2>5. CASE slot.status = "PRE_MIGRATE"
    <3>1. slot' = [slot EXCEPT !.status = "MIGRATE"] /\ pc' = "setMigrate"
      BY <1>6, <2>5 DEF AwaitOpen, AfterAwait
    <3>2. slot'.status = "MIGRATE" /\ slot'.to_gid = slot.to_gid
      BY <2>4, <3>1 DEF SlotRecord
    <3>3. SlotInv'
      BY <2>1, <2>5, <3>1, <3>2 DEF SlotInv
    <3>4. slot # Null /\ Told(slot)
      BY <2>1, <2>5 DEF SlotInv, Told, TypeOK, TaskTypes, Holding
    <3>5. RouteInv'
      BY <2>1, <2>2, <3>1, <3>4 DEF RouteInv, OnTheWay, Confirmed, Told, clientView
    <3> QED
      BY <2>1, <2>3, <3>3, <3>5, Frame
  <2>6. CASE slot.status # "PRE_MIGRATE"
    <3>1. UNCHANGED slot /\ pc' \in {"markError", "delRecord"}
      BY <1>6, <2>6 DEF AwaitOpen, AfterAwait
    <3>2. SlotInv' /\ RouteInv'
      BY <1>2, <2>1, <2>2, <3>1, Frame
         DEF SlotInv, RouteInv, PastPreBarrier, clientView
    <3> QED
      BY <2>1, <2>3, <3>2, Frame
  <2> QED
    BY <2>5, <2>6
<1>7. CASE SetRecord
  <2>1. UNCHANGED clientView /\ UNCHANGED taskLocal /\ pc = "setRecord"
        /\ pc' = "move"
    BY <1>7 DEF SetRecord, notRecords, adminVars, clientVars, clientView
  <2>2. LatchInv' /\ AckInv'
    BY <1>1, <1>2, <2>1, Frame DEF LatchInv, AckInv, clientView
  <2>3. SlotInv' /\ RouteInv'
    BY <2>1 DEF SlotInv, RouteInv, PastPreBarrier, OnTheWay, Told, taskLocal, clientView
  <2> QED
    BY <2>1, <2>2, <2>3, Frame
<1>8. CASE MoveDone \/ MoveConnFails
  <2>1. UNCHANGED clientView /\ UNCHANGED <<cur, mig>> /\ pc = "move"
        /\ pc' = "fresh"
    BY <1>8 DEF MoveDone, MoveConnFails, Post, outsideTask, zkVars, adminVars,
       clientVars, clientView
  <2>2. LatchInv' /\ AckInv'
    BY <1>1, <1>2, <2>1, Frame DEF LatchInv, AckInv, clientView
  <2>3. slot \in SlotRecord
    BY <2>1 DEF TypeOK, TaskTypes, Holding
  <2>4. slot'.status = "ONLINE"
    BY <1>8, <2>3 DEF MoveDone, MoveConnFails, Post, SlotRecord
  <2>5. SlotInv' /\ RouteInv'
    BY <2>1, <2>4 DEF SlotInv, RouteInv, PastPreBarrier, OnTheWay, Told, clientView
  <2> QED
    BY <2>1, <2>2, <2>5, Frame
<1>9. CASE MoveFails
  <2>1. UNCHANGED clientView /\ pc = "move" /\ pc' = "markError"
    BY <1>9 DEF MoveFails, outsideTask, zkVars, adminVars, clientVars, clientView
  <2>2. LatchInv' /\ AckInv'
    BY <1>1, <1>2, <2>1, Frame DEF LatchInv, AckInv, clientView
  <2>3. SlotInv' /\ RouteInv'
    BY <2>1 DEF SlotInv, RouteInv, PastPreBarrier
  <2> QED
    BY <2>1, <2>2, <2>3, Frame
<1>10. CASE DelRecord \/ MarkError
  <2>1. pc \in {"delRecord", "markError"} /\ NextSlot
        /\ UNCHANGED <<zkSlot, clients, clientVars>>
    BY <1>10 DEF DelRecord, MarkError
  <2>2. UNCHANGED clientView /\ pc' = "read"
    BY <2>1 DEF NextSlot, Epoch, Active, adminVars, clientVars, clientView
  <2>3. LatchInv' /\ AckInv'
    BY <1>1, <1>2, <2>1, <2>2, Frame DEF LatchInv, AckInv, clientView
  <2>4. SlotInv' /\ RouteInv'
    BY <2>2 DEF SlotInv, RouteInv, PastPreBarrier
  <2> QED
    BY <2>2, <2>3, <2>4, Frame
<1> QED
  BY <1>3, <1>4, <1>5, <1>6, <1>7, <1>8, <1>9, <1>10

\* A write of the slot in hand, applied by ZooKeeper.
LEMMA WriteEffect ==
  ASSUME IInv, Epoch, Write(cur, slot), cur \in SlotId,
         UNCHANGED <<clients, gone, upd, life, loadStep, queued, acking, slotMap>>
  PROVE  /\ Members'
         /\ zkSlot'[cur] = slot
         /\ \A s \in SlotId \ {cur} : zkSlot'[s] = zkSlot[s]
         /\ \A c \in clients, s \in SlotId \ {cur} : watch'[c][s] = watch[c][s]
         /\ \A c \in clients : watch'[c][cur] = "dirty"
<1> USE DEF IInv, EpochInv
<1>1. clients \subseteq Client /\ zkSlot \in [SlotId -> SlotRecord]
      /\ watch \in [Client -> [SlotId -> {"none", "clean", "dirty"}]]
  BY DEF TypeOK, ZkTypes, ClientTypes
<1>2. ASSUME NEW c \in clients
      PROVE  /\ \A s \in SlotId \ {cur} : watch'[c][s] = watch[c][s]
             /\ watch'[c][cur] = "dirty"
  <2>1. watch'[c] = [watch[c] EXCEPT ![cur] =
                       IF watch[c][cur] = "clean" THEN "dirty" ELSE watch[c][cur]]
    BY <1>1 DEF Write
  <2>2. watch[c] \in [SlotId -> {"none", "clean", "dirty"}]
    BY <1>1
  <2>3. watch[c][cur] \in {"clean", "dirty"}
    BY <2>2 DEF Members
  <2> QED
    BY <2>1, <2>2, <2>3
<1>3. \A c \in clients, s \in SlotId \ {cur} : watch'[c][s] = watch[c][s]
  BY <1>2
<1>4. \A c \in clients : watch'[c][cur] = "dirty"
  BY <1>2
<1>5. zkSlot'[cur] = slot /\ \A s \in SlotId \ {cur} : zkSlot'[s] = zkSlot[s]
  BY <1>1 DEF Write
<1>6. Members'
  <2>1. \A c \in clients, s \in SlotId : watch'[c][s] # "none"
    BY <1>3, <1>4 DEF Members
  <2> QED
    BY <2>1 DEF Members, Running
<1> QED
  BY <1>3, <1>4, <1>5, <1>6

\* The steps of the task that write the slot.
LEMMA WriteStep ==
  ASSUME IInv, Epoch, TypeOK', SetBarrierSlot \/ SetMigrate
  PROVE  Epoch' => EpochInv'
<1> SUFFICES ASSUME Epoch' PROVE EpochInv'
  OBVIOUS
<1> USE DEF IInv, EpochInv
<1>1. pc \in {"set", "setMigrate"} /\ SetSlot(cur, slot)
      /\ UNCHANGED <<clients, gone, upd, life, loadStep, queued, acking, slotMap>>
      /\ UNCHANGED taskLocal /\ UNCHANGED latchVars
  BY DEF SetBarrierSlot, SetMigrate, adminVars
<1>2. clients \subseteq Client /\ cur \in SlotId /\ slot \in SlotRecord
  BY <1>1 DEF TypeOK, ZkTypes, TaskTypes, Holding
<1>3. \A c \in clients : Calm(c)
  BY <1>1 DEF AckInv
<1>4. CASE UNCHANGED <<zkSlot, watch, missed>>
  <2>1. UNCHANGED clientView /\ UNCHANGED <<cur, slot>>
    BY <1>1, <1>4 DEF clientView, taskLocal
  <2>2. CASE SetBarrierSlot
    <3>1. pc = "set" /\ pc' = "await"
      BY <2>2 DEF SetBarrierSlot
    <3>2. LatchInv'
      BY <1>1, <2>1, <3>1 DEF LatchInv, latchVars, clientView
    <3>3. \A c \in clients : Owes(c)
      BY <1>3 DEF Owes, Calm
    <3>4. AckInv'
      BY <1>1, <1>2, <2>1, <3>1, <3>3, Frame
         DEF LatchInv, AckInv, latchVars, clientView
    <3>5. SlotInv' /\ RouteInv'
      BY <1>1, <3>1 DEF SlotInv, RouteInv, PastPreBarrier, taskLocal
    <3> QED
      BY <2>1, <3>2, <3>4, <3>5, Frame
  <2>3. CASE SetMigrate
    <3>1. pc = "setMigrate" /\ pc' = "setRecord"
      BY <2>3 DEF SetMigrate
    <3>2. LatchInv' /\ AckInv'
      BY <1>2, <1>3, <2>1, <3>1, Frame DEF LatchInv, AckInv, clientView
    <3>3. SlotInv' /\ RouteInv'
      BY <1>1, <2>1, <3>1 DEF SlotInv, RouteInv, PastPreBarrier, OnTheWay, Told, taskLocal,
         clientView
    <3> QED
      BY <2>1, <3>2, <3>3, Frame
  <2> QED
    BY <2>2, <2>3
<1>5. CASE Write(cur, slot)
  <2>1. /\ Members'
        /\ zkSlot'[cur] = slot
        /\ \A s \in SlotId \ {cur} : zkSlot'[s] = zkSlot[s]
        /\ \A c \in clients, s \in SlotId \ {cur} : watch'[c][s] = watch[c][s]
        /\ \A c \in clients : watch'[c][cur] = "dirty"
    BY <1>1, <1>2, <1>5, WriteEffect
  <2>2. \A c \in clients : NoAck(c)'
    BY <1>1, <1>3 DEF Calm, NoAck
  <2>3. UNCHANGED <<cur, slot, mig, clients, nodeSet>>
    BY <1>1 DEF taskLocal, latchVars
  <2>4. \A c \in clients, s \in SlotId \ {cur} :
          watch'[c][s] = "dirty" => zkSlot'[s].status = "MIGRATE"
    BY <1>3, <2>1 DEF Calm
  <2>5. CASE SetBarrierSlot
    <3>1. pc = "set" /\ pc' = "await"
      BY <2>5 DEF SetBarrierSlot
    <3>2. LatchInv'
      BY <1>1, <3>1 DEF LatchInv, latchVars
    <3>3. \A c \in clients : Owes(c)'
      BY <2>1, <2>2, <2>3, <2>4 DEF Owes, ToFetch
    <3>4. AckInv'
      BY <2>3, <3>1, <3>3 DEF LatchInv, AckInv
    <3>5. SlotInv' /\ RouteInv'
      BY <2>3, <3>1 DEF SlotInv, RouteInv, PastPreBarrier
    <3> QED
      BY <2>1, <3>2, <3>4, <3>5
  <2>6. CASE SetMigrate
    <3>1. pc = "setMigrate" /\ pc' = "setRecord" /\ slot.status = "MIGRATE"
          /\ slot.to_gid = mig.to_gid
      BY <2>6 DEF SetMigrate, SlotInv
    <3>2. \A c \in clients : Calm(c)'
      BY <2>1, <2>2, <2>4, <3>1 DEF Calm
    <3>3. LatchInv' /\ AckInv'
      BY <2>3, <3>1, <3>2 DEF LatchInv, AckInv
    <3>4. SlotInv' /\ RouteInv'
      BY <1>1, <2>1, <2>3, <3>1 DEF SlotInv, RouteInv, PastPreBarrier, OnTheWay, Told
    <3> QED
      BY <2>1, <3>3, <3>4
  <2> QED
    BY <2>5, <2>6
<1> QED
  BY <1>1, <1>4, <1>5 DEF SetSlot

\* The events of the clients' nodes.
LEMMA ListenerInv ==
  ASSUME IInv, Epoch, TypeOK', NEW c \in Client,
         AdminLoad(c) \/ UpdatedEvent(c) \/ RemovedEvent(c)
  PROVE  Epoch' => EpochInv'
<1> SUFFICES ASSUME Epoch' PROVE EpochInv'
  OBVIOUS
<1> USE DEF IInv, EpochInv
<1>1. CASE AdminLoad(c)
  <2>1. UNCHANGED clientView /\ UNCHANGED <<taskVars, taskLocal, latchVars>>
    BY <1>1 DEF AdminLoad, zkVars, clientVars, clientView, taskVars
  <2>2. LatchInv' /\ SlotInv' /\ RouteInv'
    BY <2>1, Frame DEF LatchInv, SlotInv, RouteInv, PastPreBarrier, OnTheWay, Told,
       Confirmed, taskVars, taskLocal, latchVars, clientView
  <2>3. AckInv'
    <3>1. UNCHANGED <<pc, cur, slot, nodeSet, clients>>
      BY <2>1 DEF taskVars, taskLocal, latchVars, clientView
    <3>2. nodeSet \subseteq Client /\ clients \subseteq Client
      BY DEF TypeOK, LatchTypes, AdminTypes, ZkTypes
    <3>3. \A d \in Client : /\ Calm(d)' <=> Calm(d)
                            /\ Confirmed(d)' <=> Confirmed(d)
                            /\ Owes(d)' <=> Owes(d)
      BY <2>1, <3>1, Frame
    <3> QED BY <3>1, <3>2, <3>3 DEF AckInv, Done
  <2> QED
    BY <2>1, <2>2, <2>3, Frame
<1>2. CASE UpdatedEvent(c)
  <2>1. upd[c] > 0 /\ UNCHANGED <<pc, taskLocal, toAdd, zkVars, gone, clientVars>>
        /\ nodeSet' = nodeSet \ {c}
    BY <1>2 DEF UpdatedEvent, CountDown
  <2>2. upd \in [Client -> Nat]
    BY DEF TypeOK, AdminTypes
  <2>3. c \in clients
    BY <2>1, <2>2 DEF Members
  <2>4. pc = "await" /\ c \in nodeSet
    BY <2>1, <2>3 DEF AckInv, Done, Calm, NoAck
  <2>5. Sent(c) /\ \A s \in SlotId \ {cur} :
                     watch[c][s] = "dirty" => zkSlot[s].status = "MIGRATE"
    BY <2>1, <2>4 DEF AckInv, Owes, Calm, NoAck, ToFetch, Queued, Sending
  <2>6. upd'[c] = 0 /\ \A d \in Client \ {c} : upd'[d] = upd[d]
    <3>1. PICK rest \in 0 .. (upd[c] - 1) : upd' = [upd EXCEPT ![c] = rest]
      BY <1>2 DEF UpdatedEvent
    <3> QED
      BY <2>2, <2>5, <3>1 DEF Sent
  <2>7. UNCHANGED <<zkSlot, clients, gone, life, loadStep, watch, queued,
                    acking, slotMap, pc, cur, slot, mig>>
    BY <2>1 DEF zkVars, clientVars, taskLocal
  <2>8. Members'
    BY <2>6, <2>7 DEF Members, Running
  <2>9. LatchInv'
    <3>1. racy = FALSE /\ pc = "await"
      BY <2>4 DEF LatchInv
    <3>2. racy' = FALSE /\ latch' = IF nodeSet' = {} THEN 0 ELSE latch
      BY <1>2, <2>1, <3>1 DEF UpdatedEvent, CountDown, EmptyAnswers
    <3> QED
      BY <2>1, <2>4, <2>7, <3>2 DEF LatchInv
  <2>10. AckInv'
    <3>1. Done(c)'
      BY <2>4, <2>5, <2>6, <2>7 DEF Sent, Done, Calm, NoAck, Confirmed
    <3>2. ASSUME NEW d \in Client \ {c}
          PROVE  (Owes(d)' <=> Owes(d)) /\ (Done(d)' <=> Done(d))
      BY <2>6, <2>7 DEF Done, Calm, NoAck, Confirmed, Owes, ToFetch, Queued,
         Sending, Sent
    <3> QED
      BY <2>1, <2>4, <2>7, <3>1, <3>2 DEF AckInv, LatchInv, TypeOK, ZkTypes
  <2>11. SlotInv' /\ RouteInv'
    BY <2>4, <2>7 DEF SlotInv, RouteInv, PastPreBarrier
  <2> QED
    BY <2>8, <2>9, <2>10, <2>11
<1>3. CASE RemovedEvent(c)
  BY <1>3 DEF RemovedEvent, Members
<1> QED
  BY <1>1, <1>2, <1>3

\* A step of client c needs to be looked at for c only.
LEMMA ClientFrame ==
  ASSUME IInv, Epoch, NEW c \in clients,
         UNCHANGED <<zkSlot, clients, gone, pc, cur, slot, mig, latchVars, life,
                     loadStep>>,
         \A d \in Client \ {c} :
           /\ watch'[d] = watch[d] /\ queued'[d] = queued[d]
           /\ acking'[d] = acking[d] /\ slotMap'[d] = slotMap[d]
           /\ upd'[d] = upd[d],
         \A s \in SlotId : watch'[c][s] # "none",
         pc # "await" => Calm(c)',
         pc = "await" /\ c \in nodeSet => Owes(c)',
         pc = "await" /\ c \notin nodeSet => Done(c)',
         PastPreBarrier => OnTheWay(c)',
         pc = "delRecord" /\ slot # Null => Confirmed(c)'
  PROVE  EpochInv'
<1> USE DEF IInv, EpochInv
<1>1. clients \subseteq Client
  BY DEF TypeOK, ZkTypes
<1>2. Members'
  <2>1. \A d \in clients, s \in SlotId : watch'[d][s] # "none"
    BY <1>1 DEF Members
  <2> QED
    BY <1>1, <2>1 DEF Members, Running
<1>3. LatchInv' /\ SlotInv'
  BY DEF LatchInv, SlotInv, latchVars
<1>4. ASSUME NEW d \in Client \ {c}
      PROVE  /\ Calm(d) => Calm(d)'
             /\ Owes(d) => Owes(d)'
             /\ Done(d) => Done(d)'
             /\ OnTheWay(d) => OnTheWay(d)'
             /\ Confirmed(d) => Confirmed(d)'
  BY ZenonT(30) DEF Done, Calm, NoAck, Confirmed, Owes, ToFetch, Queued, Sending, Sent,
     OnTheWay, Told
<1>5. AckInv'
  BY <1>1, <1>4 DEF AckInv, LatchInv, latchVars
<1>6. RouteInv'
  BY <1>1, <1>4 DEF RouteInv, PastPreBarrier
<1> QED
  BY <1>2, <1>3, <1>5, <1>6

\* The steps of a client.
LEMMA ClientInv ==
  ASSUME IInv, Epoch, TypeOK', ClientStep
  PROVE  Epoch' => EpochInv'
<1> SUFFICES ASSUME Epoch' PROVE EpochInv'
  OBVIOUS
<1> USE DEF IInv, EpochInv
<1>1. PICK c \in Client :
        \/ \E s \in SlotId :
             \/ WatchSlot(c, s) \/ Fetch(c, s)
             \/ LoadRead(c, s) \/ LoadPut(c, s) \/ LoadLost(c, s)
        \/ Apply(c) \/ Ack(c)
  BY DEF ClientStep
<1>2. c \in clients
  BY <1>1 DEF Members, WatchSlot, Fetch, LoadRead, LoadPut, LoadLost, Apply, Ack
<1>3. ~ \E s \in SlotId : \/ WatchSlot(c, s) \/ LoadRead(c, s)
                          \/ LoadPut(c, s) \/ LoadLost(c, s)
  BY <1>2 DEF Members, WatchSlot, LoadRead, LoadPut, LoadLost
<1> DEFINE stays == UNCHANGED <<zkSlot, clients, gone, pc, cur, slot, mig,
                                latchVars, life, loadStep>>
<1>a. cur \in SlotId /\ (pc = "await" => slot \in SlotRecord)
      /\ \A e \in SlotEvent : e # Null
  BY NullAssumption DEF TypeOK, TaskTypes, Holding
<1>b. queued[c] # Null => queued[c] \in SlotEvent
  BY DEF TypeOK, ClientTypes
<1>c. pc # "await" => Calm(c)
  BY <1>2 DEF AckInv
<1>d. pc = "await" /\ c \in nodeSet => Owes(c)
  BY DEF AckInv
<1>e. pc = "await" /\ c \notin nodeSet => Done(c)
  BY <1>2 DEF AckInv
<1>f. PastPreBarrier => OnTheWay(c)
  BY <1>2 DEF RouteInv
<1>g. pc = "delRecord" /\ slot # Null => Confirmed(c)
  BY <1>2 DEF RouteInv
<1>h. pc = "await" => slot.status # "MIGRATE"
  BY DEF SlotInv
<1>i. PastPreBarrier \/ pc = "delRecord" => pc # "await"
  BY DEF PastPreBarrier
<1>j. \A s \in SlotId : watch[c][s] # "none"
  BY <1>2 DEF Members
<1>4. ASSUME NEW s \in SlotId, Fetch(c, s) PROVE EpochInv'
  <2>1. stays /\ UNCHANGED <<upd, acking, slotMap>>
    BY <1>4 DEF Fetch, outsideClients, zkVars, taskVars, taskLocal, adminVars
  <2>2. watch[c][s] = "dirty" /\ queued[c] = Null
    BY <1>4 DEF Fetch
  <2>3. /\ watch'[c][s] = "clean"
        /\ \A r \in SlotId \ {s} : watch'[c][r] = watch[c][r]
        /\ \A d \in Client \ {c} : watch'[d] = watch[d]
    BY <1>4 DEF Fetch, TypeOK, ClientTypes
  <2>4. /\ queued'[c] = [id |-> s, slot |-> zkSlot[s]]
        /\ \A d \in Client \ {c} : queued'[d] = queued[d]
    BY <1>4 DEF Fetch, TypeOK, ClientTypes
  <2>5. Calm(c) => Calm(c)'
    BY <2>1, <2>2, <2>3, <2>4 DEF Calm, NoAck
  <2>6. ASSUME Confirmed(c), zkSlot[s].status = "MIGRATE" PROVE Confirmed(c)'
    <3>1. s # cur
      BY <2>2, <2>6 DEF Confirmed
    <3>2. queued'[c].id = s /\ queued'[c].slot = zkSlot[s]
      BY <2>4
    <3>3. slotMap'[c][cur'] = slot' /\ watch'[c][cur'] # "dirty"
      BY <1>a, <2>1, <2>3, <2>6, <3>1 DEF Confirmed
    <3>4. queued'[c].id # cur' /\ queued'[c].slot.status = "MIGRATE"
      BY <2>1, <2>6, <3>1, <3>2
    <3> QED
      BY <3>3, <3>4 DEF Confirmed
  <2>7. pc = "await" /\ c \in nodeSet => Owes(c)'
    <3> SUFFICES ASSUME pc = "await", c \in nodeSet PROVE Owes(c)'
      OBVIOUS
    <3>1. \A r \in SlotId \ {cur} :
            watch'[c][r] = "dirty" => zkSlot'[r].status = "MIGRATE"
      BY <1>d, <2>1, <2>3 DEF Owes
    <3>2. s # cur => zkSlot[s].status = "MIGRATE"
      BY <1>d, <2>2 DEF Owes
    <3>3. ToFetch(c) => ToFetch(c)' \/ Queued(c)'
      BY <1>a, <2>1, <2>2, <2>3, <2>4, <3>2 DEF ToFetch, Queued, NoAck
    <3>4. ~Queued(c)
      BY <1>a, <2>2 DEF Queued, SlotEvent
    <3>5. (Sending(c) => Sending(c)') /\ (Sent(c) => Sent(c)')
      BY <2>1, <2>2, <2>6, <3>2 DEF Sending, Sent, Confirmed
    <3> QED
      BY <1>d, <2>1, <2>5, <3>1, <3>3, <3>4, <3>5 DEF Owes
  <2>8. pc = "await" /\ c \notin nodeSet => Done(c)'
    BY <1>e, <2>2, <2>5, <2>6 DEF Done, Calm
  <2>9. PastPreBarrier => OnTheWay(c)'
    <3> SUFFICES ASSUME PastPreBarrier PROVE OnTheWay(c)'
      OBVIOUS
    <3>1. queued'[c].id = s /\ queued'[c].slot = zkSlot[s]
      BY <2>4
    <3>2. s = cur => Told(zkSlot[s])
      BY <1>f, <2>2 DEF OnTheWay
    <3>3. queued'[c].id = cur => Told(queued'[c].slot)
      BY <3>1, <3>2
    <3>4. watch'[c][cur] = "dirty" => watch[c][cur] = "dirty"
      BY <1>a, <2>3
    <3> QED
      BY <1>f, <2>1, <3>3, <3>4 DEF OnTheWay, Told
  <2>10. pc = "delRecord" /\ slot # Null => Confirmed(c)'
    BY <1>c, <1>g, <2>2, <2>6 DEF Calm
  <2> QED
    BY <1>2, <1>c, <1>j, <2>1, <2>3, <2>4, <2>5, <2>7, <2>8, <2>9, <2>10,
       ClientFrame
<1>5. CASE Apply(c)
  <2>1. stays /\ UNCHANGED <<upd, watch>> /\ queued[c] # Null /\ ~acking[c]
    BY <1>5 DEF Apply, outsideClients, zkVars, taskVars, taskLocal, adminVars
  <2>2. queued[c].id \in SlotId
    BY <1>b, <2>1 DEF SlotEvent
  <2>3. /\ slotMap'[c][queued[c].id] = queued[c].slot
        /\ \A r \in SlotId \ {queued[c].id} : slotMap'[c][r] = slotMap[c][r]
        /\ \A d \in Client \ {c} : slotMap'[d] = slotMap[d]
    BY <1>5, <2>2 DEF Apply, TypeOK, ClientTypes
  <2>4. /\ acking'[c] = (queued[c].slot.status # "MIGRATE")
        /\ \A d \in Client \ {c} : acking'[d] = acking[d]
    BY <1>5 DEF Apply, TypeOK, ClientTypes
  <2>5. /\ queued'[c] = Null
        /\ \A d \in Client \ {c} : queued'[d] = queued[d]
    BY <1>5 DEF Apply, TypeOK, ClientTypes
  <2>6. Calm(c) => Calm(c)'
    BY <2>1, <2>4, <2>5 DEF Calm, NoAck
  <2>7. Confirmed(c) => Confirmed(c)'
    BY <1>a, <2>1, <2>3, <2>5 DEF Confirmed
  <2>8. pc = "await" /\ c \in nodeSet => Owes(c)'
    <3> SUFFICES ASSUME pc = "await", c \in nodeSet PROVE Owes(c)'
      OBVIOUS
    <3>1. \A r \in SlotId \ {cur} :
            watch'[c][r] = "dirty" => zkSlot'[r].status = "MIGRATE"
      BY <1>d, <2>1 DEF Owes
    <3>2. ToFetch(c) => ToFetch(c)'
      BY <2>1, <2>4, <2>5 DEF ToFetch, NoAck
    <3>3. Queued(c) => Sending(c)'
      <4> SUFFICES ASSUME Queued(c) PROVE Sending(c)'
        OBVIOUS
      <4>1. queued[c].id = cur /\ queued[c].slot = slot
        BY DEF Queued
      <4>2. slotMap'[c][cur] = slot /\ acking'[c]
        BY <1>h, <2>3, <2>4, <4>1
      <4> QED
        BY <2>1, <2>5, <4>2 DEF Queued, Sending, Confirmed
    <3>4. ~Sending(c)
      BY <2>1 DEF Sending
    <3>5. Sent(c) => Sent(c)'
      BY <2>1, <2>4, <2>7 DEF Sent, Confirmed
    <3>6. Calm(c) \/ ToFetch(c) \/ Queued(c) \/ Sent(c)
      BY <1>d, <3>4 DEF Owes
    <3>7. Calm(c)' \/ ToFetch(c)' \/ Sending(c)' \/ Sent(c)'
      BY <2>6, <3>2, <3>3, <3>5, <3>6
    <3>8. cur' = cur
      BY <2>1
    <3> QED
      BY <3>1, <3>7, <3>8 DEF Owes
  <2>9. pc = "await" /\ c \notin nodeSet => Done(c)'
    BY <1>e, <2>6, <2>7 DEF Done
  <2>10. PastPreBarrier => OnTheWay(c)'
    <3> SUFFICES ASSUME PastPreBarrier PROVE OnTheWay(c)'
      OBVIOUS
    <3>1. queued[c].id = cur => Told(queued[c].slot) /\ queued[c].slot # Null
      BY <1>b, <1>f, <2>1, NullAssumption DEF OnTheWay, SlotEvent
    <3>2. slotMap'[c][cur] # Null /\ Told(slotMap'[c][cur])
      BY <1>a, <1>f, <2>3, <3>1 DEF OnTheWay
    <3> QED
      BY <1>f, <2>1, <2>5, <3>2 DEF OnTheWay, Told
  <2>11. pc = "delRecord" /\ slot # Null => Confirmed(c)'
    BY <1>g, <2>7
  <2> QED
    BY <1>2, <1>c, <1>j, <2>1, <2>3, <2>4, <2>5, <2>6, <2>8, <2>9, <2>10,
       <2>11, ClientFrame
<1>6. CASE Ack(c)
  <2>1. stays /\ UNCHANGED <<watch, queued, slotMap>> /\ acking[c]
    BY <1>6 DEF Ack, outsideClients, zkVars, taskVars, taskLocal
  <2>2. acking'[c] = FALSE /\ \A d \in Client \ {c} : acking'[d] = acking[d]
    BY <1>6 DEF Ack, TypeOK, ClientTypes
  <2>3. /\ upd'[c] \in {upd[c], upd[c] + 1}
        /\ \A d \in Client \ {c} : upd'[d] = upd[d]
    BY <1>6 DEF Ack, UpdateClientNode, TypeOK, AdminTypes
  <2>4. pc = "await" /\ c \in nodeSet
    BY <1>c, <1>e, <2>1 DEF Done, Calm, NoAck
  <2>5. Sending(c)
    BY <1>d, <2>1, <2>4 DEF Owes, Calm, ToFetch, NoAck, Queued, Sent
  <2>6. Owes(c)'
    <3>1. \A r \in SlotId \ {cur} :
            watch'[c][r] = "dirty" => zkSlot'[r].status = "MIGRATE"
      BY <1>d, <2>1, <2>4 DEF Owes
    <3>2. CASE upd'[c] = 0
      BY <2>1, <2>2, <2>5, <3>1, <3>2 DEF Owes, Calm, NoAck, Sending, Confirmed
    <3>3. CASE upd'[c] = 1
      BY <2>1, <2>2, <2>5, <3>1, <3>3 DEF Owes, Sent, Sending, Confirmed
    <3> QED
      BY <2>3, <2>5, <3>2, <3>3 DEF Sending
  <2> QED
    BY <1>2, <1>i, <1>j, <2>1, <2>2, <2>3, <2>4, <2>6, ClientFrame
<1> QED
  BY <1>1, <1>3, <1>4, <1>5, <1>6

(* The core of the proof: every step preserves the inductive invariant.    *)
LEMMA IInvNext == IInv /\ [Next]_vars => IInv'
<1> SUFFICES ASSUME IInv, [Next]_vars PROVE IInv'
  OBVIOUS
<1>1. TypeOK' /\ (clients \subseteq Running)'
  BY TypeNext, RegisteredNext DEF IInv
<1>2. SUFFICES ASSUME Epoch' PROVE EpochInv'
  BY <1>1 DEF IInv
<1>3. CASE TaskStart
  BY <1>2, <1>3, StartStep
<1>4. CASE AwaitTimeout \/ Crash
             \/ \E c \in Client :
                  AdminEdit(c) \/ Register(c) \/ Expire(c) \/ Leave(c)
  BY <1>2, <1>4, Disturbed DEF IInv
<1>5. CASE Submit \/ OverlapPost
  BY <1>2, <1>5 DEF Submit, OverlapPost, Epoch, Active
<1>6. CASE ReadSlot \/ SkipSameGroup \/ NoRecord \/ FreshClear
             \/ FreshChildren \/ FreshAdd \/ FreshDone \/ AwaitOpen
             \/ SetRecord \/ MoveDone \/ MoveConnFails \/ MoveFails
             \/ DelRecord \/ MarkError
  <2>1. Active /\ (disturbed' = TRUE \/ UNCHANGED disturbed)
    BY <1>6 DEF ReadSlot, SkipSameGroup, NoRecord, FreshClear, FreshChildren,
       FreshAdd, FreshDone, AwaitOpen, SetRecord, MoveDone, MoveConnFails,
       MoveFails, DelRecord, MarkError, Active, outsideTask, notRecords,
       historyVars, callVars
  <2>2. Epoch
    BY <1>2, <2>1 DEF Epoch
  <2> QED
    BY <1>1, <1>2, <1>6, <2>2, QuietStep
<1>7. CASE SetBarrierSlot \/ SetMigrate
  <2>1. Epoch
    BY <1>2, <1>7 DEF SetBarrierSlot, SetMigrate, Epoch, Active
  <2> QED
    BY <1>1, <1>2, <1>7, <2>1, WriteStep
<1>8. CASE ListenerStep
  <2>1. Epoch
    BY <1>2, <1>8 DEF ListenerStep, AdminLoad, UpdatedEvent, RemovedEvent,
       CountDown, Epoch, Active, taskVars, historyVars, callVars
  <2> QED
    BY <1>1, <1>2, <1>8, <2>1, ListenerInv DEF ListenerStep
<1>9. CASE ClientStep
  <2>1. UNCHANGED <<pc, disturbed>>
    BY <1>9 DEF ClientStep, WatchSlot, Fetch, LoadRead, LoadPut, LoadLost,
       Apply, Ack, outsideClients, taskVars, historyVars, callVars
  <2>2. Epoch
    BY <1>2, <2>1 DEF Epoch, Active
  <2> QED
    BY <1>1, <1>2, <1>9, <2>2, ClientInv
<1>10. CASE (OverlapStep /\ ~OverlapPost) \/ DelTask \/ UNCHANGED vars
  <2>1. UNCHANGED clientView /\ UNCHANGED <<pc, taskLocal, latchVars, disturbed>>
    BY <1>10, OverlapFrame DEF taskLocal, DelTask, vars, notRecords, taskVars, zkVars,
       adminVars, clientVars, historyVars, callVars, clientView
  <2>2. Epoch /\ EpochInv
    BY <1>2, <2>1 DEF Epoch, Active, IInv
  <2>3. Members'
    BY <2>1, <2>2, Frame
  <2>4. LatchInv' /\ SlotInv'
    BY <2>1, <2>2 DEF EpochInv, LatchInv, SlotInv, taskLocal, latchVars,
       clientView
  <2>5. clients \subseteq Client
    BY DEF IInv, TypeOK, ZkTypes
  <2>6. AckInv'
    BY <2>1, <2>2, <2>5, Frame DEF EpochInv, LatchInv, AckInv, Done,
       taskLocal, latchVars, clientView
  <2>7. RouteInv'
    BY <2>1, <2>2, <2>5, Frame DEF EpochInv, RouteInv, PastPreBarrier,
       OnTheWay, Told, taskLocal, clientView
  <2> QED
    BY <2>3, <2>4, <2>6, <2>7 DEF EpochInv
<1> QED
  BY <1>3, <1>4, <1>5, <1>6, <1>7, <1>8, <1>9, <1>10
     DEF Next, TaskStep, ProtocolStep, Environment

LEMMA IInvInit == Init => IInv
<1> SUFFICES ASSUME Init PROVE IInv
  OBVIOUS
<1>1. clients \subseteq Running
  BY DEF Init, Running
<1>2. ~Epoch
  BY DEF Init, Epoch, Active
<1> QED
  BY <1>1, <1>2, TypeInit DEF IInv

\* The invariant of every reachable state.
LEMMA Invariant == Spec => []IInv
  BY IInvInit, IInvNext, PTL DEF Spec

(* The PRE_MIGRATE barrier is sound (SlotMigration.BarrierSound): once it  *)
(* has opened undisturbed, no running client thinks that the slot is still *)
(* online on its source.                                                   *)
THEOREM BarrierCorrect == Spec => []BarrierSound
<1>1. IInv => BarrierSound
  <2> SUFFICES ASSUME IInv, PastPreBarrier, ~disturbed, NEW c \in Running
               PROVE  /\ slotMap[c][cur] # Null
                      /\ slotMap[c][cur].status \in {"PRE_MIGRATE", "MIGRATE"}
                      /\ slotMap[c][cur].to_gid = mig.to_gid
    BY DEF BarrierSound
  <2>1. Epoch
    BY DEF Epoch, Active, PastPreBarrier
  <2>2. OnTheWay(c)
    BY <2>1 DEF IInv, EpochInv, Members, RouteInv
  <2> QED
    BY <2>2 DEF OnTheWay, Told
<1> QED
  BY <1>1, Invariant, PTL

(* The hand-over is complete (SlotMigration.HandoverComplete): when the    *)
(* task drops the record of a slot undisturbed, every running client       *)
(* routes the slot by the record that the task wrote last.                 *)
THEOREM HandoverCorrect == Spec => []HandoverComplete
<1>1. IInv => HandoverComplete
  <2> SUFFICES ASSUME IInv, pc = "delRecord", slot # Null, ~disturbed,
                      NEW c \in Running
               PROVE  slotMap[c][cur] = slot
    BY DEF HandoverComplete
  <2>1. Epoch
    BY DEF Epoch, Active
  <2>2. Confirmed(c)
    BY <2>1 DEF IInv, EpochInv, Members, RouteInv
  <2> QED
    BY <2>2 DEF Confirmed
<1> QED
  BY <1>1, Invariant, PTL

-----------------------------------------------------------------------------
(* The caches.                                                             *)

\* Whatever c has in hand of slot s is what ZooKeeper holds, unless a newer
\* record is on its way or was missed.
CacheOf(c, s) ==
  /\ queued[c] # Null /\ queued[c].id = s =>
       /\ watch[c][s] # "none"
       /\ watch[c][s] = "clean" => queued[c].slot = zkSlot[s]
  /\ loadStep[c][s] = "read" /\ ~missed[c][s] => loaded[c][s] = zkSlot[s]
  /\ /\ loadStep[c][s] = "done" /\ watch[c][s] # "dirty" /\ ~missed[c][s]
     /\ queued[c] # Null => queued[c].id # s
     => slotMap[c][s] = zkSlot[s]

CacheInv == \A c \in Client, s \in SlotId : CacheOf(c, s)

\* The state that CacheOf speaks of.
cacheView == <<zkSlot, loadStep, loaded, watch, queued, slotMap, missed>>

\* A write makes every cached copy of the slot suspect.
LEMMA CacheWrite ==
  ASSUME TypeOK, CacheInv, NEW t \in SlotId, NEW rec \in SlotRecord, SetSlot(t, rec),
         UNCHANGED <<loadStep, loaded, queued, slotMap>>
  PROVE  CacheInv'
<1>1. CASE UNCHANGED <<zkSlot, watch, missed>>
  BY <1>1 DEF CacheInv, CacheOf
<1>2. CASE Write(t, rec)
  <2> SUFFICES ASSUME NEW c \in Client, NEW s \in SlotId PROVE CacheOf(c, s)'
    BY DEF CacheInv
  <2>1. CacheOf(c, s)
    BY DEF CacheInv
  <2>2. /\ watch[c] \in [SlotId -> {"none", "clean", "dirty"}]
        /\ loadStep[c] \in [SlotId -> {"unread", "read", "done"}]
        /\ missed[c] \in [SlotId -> BOOLEAN] /\ zkSlot \in [SlotId -> SlotRecord]
    BY DEF TypeOK, ZkTypes, ClientTypes, HistoryTypes
  <2>3. watch'[c] = [watch[c] EXCEPT ![t] = IF watch[c][t] = "clean" THEN "dirty" ELSE watch[c][t]]
    BY <1>2 DEF Write
  <2>4. missed'[c] = [missed[c] EXCEPT ![t] = /\ loadStep[c][t] # "unread"
                                              /\ watch[c][t] = "none" \/ loadStep[c][t] = "read"]
    BY <1>2, Zenon DEF Write
  <2>5. CASE s = t
    <3>1. watch'[c][s] = IF watch[c][s] = "clean" THEN "dirty" ELSE watch[c][s]
      BY <2>2, <2>3, <2>5
    <3>2. watch'[c][s] # "clean" /\ (watch[c][s] # "none" => watch'[c][s] = "dirty")
      BY <2>2, <3>1
    <3>3. missed'[c][s] <=> /\ loadStep[c][s] # "unread"
                            /\ watch[c][s] = "none" \/ loadStep[c][s] = "read"
      BY <2>2, <2>4, <2>5, Zenon
    <3> QED BY <2>1, <2>2, <3>1, <3>2, <3>3 DEF CacheOf
  <2>6. CASE s # t
    <3>1. watch'[c][s] = watch[c][s] /\ zkSlot'[s] = zkSlot[s]
      BY <1>2, <2>2, <2>3, <2>6 DEF Write
    <3>2. missed'[c][s] = missed[c][s]
      BY <2>2, <2>4, <2>6, Zenon
    <3> QED BY <2>1, <3>1, <3>2 DEF CacheOf
  <2> QED BY <2>5, <2>6
<1> QED BY <1>1, <1>2 DEF SetSlot

\* A step of client c concerns its own cache only.
LEMMA CacheClient ==
  ASSUME TypeOK, CacheInv, ClientStep
  PROVE  CacheInv'
<1>1. PICK d \in Client :
        \/ \E s \in SlotId :
             \/ WatchSlot(d, s) \/ Fetch(d, s)
             \/ LoadRead(d, s) \/ LoadPut(d, s) \/ LoadLost(d, s)
        \/ Apply(d) \/ Ack(d)
  BY DEF ClientStep
<1>2. UNCHANGED zkSlot
  BY <1>1 DEF WatchSlot, Fetch, LoadRead, LoadPut, LoadLost, Apply, Ack, outsideClients, zkVars
<1> SUFFICES ASSUME NEW c \in Client, NEW s \in SlotId PROVE CacheOf(c, s)'
  BY DEF CacheInv
<1>4. CacheOf(c, s)
  BY DEF CacheInv
<1> USE DEF TypeOK, ClientTypes, HistoryTypes, ZkTypes, historyVars, callVars
<1>5. ASSUME NEW t \in SlotId, WatchSlot(d, t) PROVE CacheOf(c, s)'
  BY <1>2, <1>4, <1>5 DEF WatchSlot, CacheOf
<1>6. ASSUME NEW t \in SlotId, Fetch(d, t) PROVE CacheOf(c, s)'
  <2>1. CASE c = d
    <3>1. queued'[c] = [id |-> t, slot |-> zkSlot[t]] /\ watch'[c] = [watch[c] EXCEPT ![t] = "clean"]
          /\ queued[c] = Null /\ watch[c][t] = "dirty"
      BY <1>6, <2>1 DEF Fetch
    <3>2. UNCHANGED <<loadStep, loaded, slotMap, missed>>
      BY <1>6 DEF Fetch
    <3>3. queued'[c].id = t /\ queued'[c].slot = zkSlot[t] /\ queued'[c] # Null
      <4>1. [id |-> t, slot |-> zkSlot[t]] \in SlotEvent
        BY Records
      <4> QED BY <3>1, <4>1, NullAssumption
    <3>4. watch'[c][t] = "clean" /\ (s # t => watch'[c][s] = watch[c][s])
      BY <3>1
    <3> QED BY <1>2, <1>4, <3>1, <3>2, <3>3, <3>4 DEF CacheOf
  <2>2. CASE c # d
    BY <1>2, <1>4, <1>6, <2>2 DEF Fetch, CacheOf
  <2> QED BY <2>1, <2>2
<1>7. ASSUME NEW t \in SlotId, LoadRead(d, t) PROVE CacheOf(c, s)'
  BY <1>2, <1>4, <1>7 DEF LoadRead, CacheOf
<1>8. ASSUME NEW t \in SlotId, LoadPut(d, t) PROVE CacheOf(c, s)'
  BY <1>2, <1>4, <1>8 DEF LoadPut, CacheOf
<1>9. ASSUME NEW t \in SlotId, LoadLost(d, t) PROVE CacheOf(c, s)'
  BY <1>2, <1>4, <1>9 DEF LoadLost, CacheOf
<1>10. CASE Apply(d)
  BY <1>2, <1>4, <1>10 DEF Apply, CacheOf, SlotEvent
<1>11. CASE Ack(d)
  BY <1>2, <1>4, <1>11 DEF Ack, CacheOf
<1> QED BY <1>1, <1>5, <1>6, <1>7, <1>8, <1>9, <1>10, <1>11

LEMMA CacheNext == TypeOK /\ CacheInv /\ [Next]_vars => CacheInv'
<1> SUFFICES ASSUME TypeOK, CacheInv, [Next]_vars PROVE CacheInv'
  OBVIOUS
<1>1. CASE SetBarrierSlot \/ SetMigrate
  <2>1. cur \in SlotId /\ slot \in SlotRecord /\ SetSlot(cur, slot)
        /\ UNCHANGED <<loadStep, loaded, queued, slotMap>>
    BY <1>1 DEF SetBarrierSlot, SetMigrate, TypeOK, TaskTypes, Holding
  <2> QED BY <2>1, CacheWrite
<1>2. CASE ClientStep
  BY <1>2, CacheClient
<1>3. CASE UNCHANGED cacheView
  BY <1>3 DEF CacheInv, CacheOf, cacheView
<1>4. CASE TaskStep /\ ~(SetBarrierSlot \/ SetMigrate)
  BY <1>3, <1>4 DEF TaskStep, ProtocolStep, TaskStart, ReadSlot,
     SkipSameGroup, NoRecord, FreshClear, FreshChildren, FreshAdd, FreshDone,
     AwaitOpen, AwaitTimeout, SetRecord, DelRecord, MarkError, MoveDone,
     MoveConnFails, MoveFails, outsideTask, notRecords, zkVars, clientVars,
     historyVars, callVars, cacheView
<1>5. CASE ListenerStep
  BY <1>3, <1>5 DEF ListenerStep, AdminLoad, UpdatedEvent, RemovedEvent,
     zkVars, clientVars, historyVars, callVars, cacheView
<1>6. CASE Environment
  BY <1>3, <1>6, OverlapFrame DEF Environment, Submit, DelTask, Crash,
     AdminEdit, Register, Expire, Leave, notRecords, zkVars, clientVars,
     historyVars, callVars, cacheView
<1>7. CASE UNCHANGED vars
  BY <1>3, <1>7 DEF vars, zkVars, clientVars, historyVars, callVars, cacheView
<1> QED BY <1>1, <1>2, <1>4, <1>5, <1>6, <1>7 DEF Next

LEMMA CacheInit == Init => CacheInv
<1> SUFFICES ASSUME Init, NEW c \in Client, NEW s \in SlotId PROVE CacheOf(c, s)
  BY DEF CacheInv
<1> QED BY DEF Init, CacheOf

(* A settled cache is current (SlotMigration.CacheCurrent): for any number *)
(* of clients and slots, and whatever fails, the load of init() and the    *)
(* listener never leave an older record over a newer one but where the     *)
(* client was not told of the write at all.                                *)
THEOREM CacheCorrect == Spec => []CacheCurrent
<1>1. TypeOK /\ CacheInv => CacheCurrent
  BY DEF CacheInv, CacheOf, CacheCurrent, Running
<1>2. Init => TypeOK /\ CacheInv
  BY TypeInit, CacheInit
<1>3. TypeOK /\ CacheInv /\ [Next]_vars => TypeOK' /\ CacheInv'
  BY TypeNext, CacheNext
<1> QED BY <1>1, <1>2, <1>3, PTL DEF Spec

-----------------------------------------------------------------------------
(* The owners of the slots and the records of the migrations, as long as   *)
(* no write of the task is lost.                                           *)

\* The slots of the task that it has not read yet.
Ahead == {s \in SlotId : s \in cur .. last /\ (s = cur => pc \in {"posted", "read"})}

\* The slot in hand has the owner and the destination of the migration.
Outward == slot.src_gid = zkSlot[cur].src_gid /\ slot.to_gid = mig.to_gid

\* What the slot's node holds at each point of the task.
NodeInv ==
  /\ pc \in {"fresh", "children", "fill", "set", "await"} =>
       \/ slot.status = "PRE_MIGRATE" /\ Outward
       \/ slot = Online(mig.to_gid)
       \/ slot = Online(mig.from_gid) /\ rethrow
  /\ pc \in {"setMigrate", "setRecord", "move"} => slot.status = "MIGRATE" /\ Outward
  /\ pc \in {"setRecord", "move", "await"} => zkSlot[cur] = slot
  /\ pc \in {"fresh", "children", "fill", "set"} /\ slot.status = "ONLINE" =>
       zkSlot[cur].status = "MIGRATE" /\ zkSlot[cur].to_gid = mig.to_gid
  /\ pc = "delRecord" /\ slot # Null => zkSlot[cur] = slot /\ slot.status = "ONLINE"

\* The record of s, if it has one, names its owner.
Current(s) == zkMigrate[s] # Null => zkMigrate[s].from_gid = zkSlot[s].src_gid

\* The task holds the record of a slot that it has not put ONLINE yet.
Before == pc \in Holding /\ (pc = "await" => slot.status = "PRE_MIGRATE")

\* The records of the slots to come, and the one in hand, name the owners.
FromInv ==
  /\ pc # "none" => \A s \in Ahead : Current(s)
  /\ Before => mig.from_gid = zkSlot[cur].src_gid

OwnerInv ==
  /\ cur <= last
  /\ pc \in Holding => mig.from_gid # mig.to_gid
  /\ NodeInv
  /\ ~outdated => FromInv

LEMMA OnlineRecords ==
  /\ \A r \in SlotRecord, g \in Gid :
       [r EXCEPT !.status = "ONLINE", !.src_gid = g, !.to_gid = NoGid] = Online(g)
  /\ \A g : Online(g).status = "ONLINE" /\ Online(g).src_gid = g /\ Online(g).to_gid = NoGid
<1>1. ASSUME NEW r \in SlotRecord, NEW g \in Gid
      PROVE  [r EXCEPT !.status = "ONLINE", !.src_gid = g, !.to_gid = NoGid] = Online(g)
  <2> DEFINE q == [r EXCEPT !.status = "ONLINE", !.src_gid = g, !.to_gid = NoGid]
  <2>1. q \in SlotRecord /\ Online(g) \in SlotRecord
    BY <1>1, Records
  <2>2. q.status = "ONLINE" /\ q.src_gid = g /\ q.to_gid = NoGid
    BY <1>1 DEF SlotRecord
  <2>3. Online(g).status = "ONLINE" /\ Online(g).src_gid = g /\ Online(g).to_gid = NoGid
    BY DEF Online
  <2>4. ASSUME NEW x \in SlotRecord, NEW y \in SlotRecord, x.status = y.status,
               x.src_gid = y.src_gid, x.to_gid = y.to_gid
        PROVE  x = y
    BY <2>4, SMT DEF SlotRecord
  <2> HIDE DEF q
  <2>5. q = Online(g)
    BY <2>1, <2>2, <2>3, <2>4
  <2> QED BY <2>5 DEF q
<1>2. \A g : Online(g).status = "ONLINE" /\ Online(g).src_gid = g /\ Online(g).to_gid = NoGid
  BY DEF Online
<1> QED BY <1>1, <1>2

\* Steps that only move the task on, or nothing at all.
LEMMA OwnerFrame ==
  ASSUME OwnerInv, UNCHANGED <<zkSlot, zkMigrate, cur, last, slot, mig, rethrow, outdated>>,
         \/ pc' = pc
         \/ pc \in {"fresh", "children", "fill", "set"} /\ pc' \in {"fresh", "children", "fill", "set"}
         \/ pc # "none" /\ pc' = "markError"
         \/ pc = "posted" /\ pc' = "read"
  PROVE  OwnerInv'
<1>1. NodeInv' /\ cur' <= last' /\ (pc' \in Holding => mig'.from_gid # mig'.to_gid)
  BY DEF OwnerInv, NodeInv, Outward, Holding
<1>2. ~outdated' => FromInv'
  BY DEF OwnerInv, FromInv, Ahead, Before, Current, Holding
<1> QED BY <1>1, <1>2 DEF OwnerInv

\* The end of a slot, or of the task.
LEMMA OwnerNextSlot ==
  ASSUME TypeOK, OwnerInv, NextSlot, pc # "none", UNCHANGED <<zkSlot, outdated>>,
         \A s \in SlotId \ {cur} : zkMigrate'[s] = zkMigrate[s]
  PROVE  OwnerInv'
<1>1. CASE cur < last
  <2>1. pc' = "read" /\ cur' = cur + 1 /\ last' = last /\ slot' = Null /\ mig' = Null
    BY <1>1 DEF NextSlot
  <2>2. cur \in Int /\ last \in Int /\ \A s \in SlotId : s \in Int
    BY DEF TypeOK, TaskTypes, SlotId
  <2>3. \A s \in SlotId : s \in cur' .. last' => s \in Ahead /\ s # cur
    BY <2>1, <2>2 DEF Ahead
  <2>4. ~outdated' => \A s \in Ahead' : Current(s)'
    BY <2>3 DEF OwnerInv, FromInv, Ahead, Current
  <2>5. cur' <= last'
    BY <1>1, <2>1, <2>2
  <2> QED BY <2>1, <2>4, <2>5 DEF OwnerInv, NodeInv, FromInv, Before, Holding
<1>2. CASE ~(cur < last)
  BY <1>2 DEF NextSlot, OwnerInv, NodeInv, FromInv, Before, Holding
<1> QED BY <1>1, <1>2

\* The steps of the task.
LEMMA OwnerTask ==
  ASSUME TypeOK, OwnerInv, ~CallLost, TaskStep
  PROVE  OwnerInv'
<1> USE DEF outsideTask, notRecords, zkVars, taskLocal, historyVars, callVars
<1>1. zkSlot \in [SlotId -> SlotRecord] /\ cur \in SlotId
      /\ zkMigrate \in [SlotId -> MigrateRecord \cup {Null}]
  BY DEF TypeOK, ZkTypes, TaskTypes
<1>2. pc \in Holding => slot \in SlotRecord /\ mig \in MigrateRecord
  BY DEF TypeOK, TaskTypes
<1>3. CASE TaskStart \/ NoRecord \/ FreshClear \/ FreshChildren \/ FreshAdd \/ FreshDone \/ MoveFails
  BY <1>3, OwnerFrame DEF TaskStart, NoRecord, FreshClear, FreshChildren, FreshAdd, FreshDone, MoveFails
<1>4. CASE ReadSlot
  <2>1. zkSlot[cur] \in SlotRecord /\ zkMigrate[cur] \in MigrateRecord
    BY <1>1, <1>4 DEF ReadSlot
  <2>2. cur \in Ahead /\ pc = "read"
    BY <1>4 DEF ReadSlot, Ahead, OwnerInv, TypeOK, TaskTypes, SlotId
  <2>3. pc' = "fresh" /\ mig' = zkMigrate[cur] /\ mig'.from_gid # mig'.to_gid
        /\ UNCHANGED <<zkSlot, zkMigrate, cur, last, outdated>>
    BY <1>4 DEF ReadSlot
  <2>4. slot'.status = "PRE_MIGRATE" /\ slot'.src_gid = zkSlot[cur].src_gid
        /\ slot'.to_gid = mig'.to_gid
    BY <1>4, <2>1 DEF ReadSlot, SlotRecord
  <2>5. NodeInv'
    BY <2>3, <2>4 DEF NodeInv, Outward
  <2>6. ASSUME ~outdated' PROVE FromInv'
    <3>1. FromInv /\ \A s \in Ahead' : s \in Ahead
      BY <2>2, <2>3, <2>6 DEF OwnerInv, Ahead
    <3>2. zkMigrate[cur].from_gid = zkSlot[cur].src_gid
      BY <1>4, <2>2, <3>1 DEF ReadSlot, FromInv, Current
    <3> QED BY <2>2, <2>3, <3>1, <3>2 DEF FromInv, Current
  <2> QED BY <2>3, <2>5, <2>6 DEF OwnerInv
<1>5. CASE SkipSameGroup
  <2>1. slot = Null
    BY <1>5 DEF SkipSameGroup, TypeOK, TaskTypes
  <2> QED BY <1>5, <2>1 DEF SkipSameGroup, OwnerInv, NodeInv, FromInv, Ahead, Before, Current, Holding
<1>6. CASE SetBarrierSlot
  <2>1. zkSlot' = [zkSlot EXCEPT ![cur] = slot] /\ pc = "set" /\ pc' = "await"
        /\ UNCHANGED <<zkMigrate, cur, last, slot, mig, rethrow, outdated>>
    BY <1>6 DEF SetBarrierSlot, SetSlot, Write
  <2>2. zkSlot'[cur] = slot /\ \A s \in SlotId \ {cur} : zkSlot'[s] = zkSlot[s]
    BY <1>1, <2>1
  <2>3. \A s \in Ahead' : s \in Ahead /\ s # cur /\ s \in SlotId
    BY <2>1 DEF Ahead
  <2>4. NodeInv'
    BY <2>1, <2>2 DEF OwnerInv, NodeInv, Outward
  <2>5. ~outdated' => \A s \in Ahead' : Current(s)'
    BY <2>1, <2>2, <2>3 DEF OwnerInv, FromInv, Current
  <2>6. ~outdated' /\ Before' => mig'.from_gid = zkSlot'[cur'].src_gid
    <3>1. Before' => slot.status = "PRE_MIGRATE" /\ Before
      BY <2>1 DEF Before, Holding
    <3>2. slot.status = "PRE_MIGRATE" => Outward
      BY <2>1, OnlineRecords DEF OwnerInv, NodeInv
    <3> QED BY <2>1, <2>2, <3>1, <3>2 DEF OwnerInv, FromInv, Outward
  <2> QED BY <2>1, <2>4, <2>5, <2>6 DEF OwnerInv, FromInv, Holding
<1>7. CASE AwaitOpen \/ AwaitTimeout
  <2>1. pc = "await" /\ AfterAwait /\ UNCHANGED <<zkSlot, zkMigrate, cur, last, mig, rethrow, outdated>>
    BY <1>7 DEF AwaitOpen, AwaitTimeout
  <2>2. slot \in SlotRecord /\ mig \in MigrateRecord
    BY <1>2, <2>1 DEF Holding
  <2>3. Ahead' = Ahead
    BY <2>1 DEF Ahead, AfterAwait
  <2>4. CASE slot.status = "PRE_MIGRATE"
    <3>1. slot' = [slot EXCEPT !.status = "MIGRATE"] /\ pc' = "setMigrate"
      BY <2>1, <2>4 DEF AfterAwait
    <3>2. slot'.status = "MIGRATE" /\ slot'.src_gid = slot.src_gid /\ slot'.to_gid = slot.to_gid
      BY <2>2, <3>1 DEF SlotRecord
    <3>3. Outward
      BY <2>1, <2>4, OnlineRecords DEF OwnerInv, NodeInv
    <3>4. NodeInv'
      BY <2>1, <3>1, <3>2, <3>3 DEF NodeInv, Outward
    <3>5. ~outdated' => FromInv'
      BY <2>1, <2>3, <2>4 DEF OwnerInv, FromInv, Before, Current, Holding
    <3> QED BY <2>1, <3>4, <3>5 DEF OwnerInv, Holding
  <2>5. CASE slot.status # "PRE_MIGRATE"
    <3>1. slot' = slot /\ pc' \in {"markError", "delRecord"}
      BY <2>1, <2>5 DEF AfterAwait
    <3>2. slot.status = "ONLINE"
      BY <2>1, <2>5, OnlineRecords DEF OwnerInv, NodeInv
    <3>3. NodeInv'
      BY <2>1, <3>1, <3>2 DEF OwnerInv, NodeInv
    <3>4. ~outdated' => FromInv'
      BY <2>1, <2>3, <3>1 DEF OwnerInv, FromInv, Before, Current, Holding
    <3> QED BY <2>1, <3>1, <3>3, <3>4 DEF OwnerInv, Holding
  <2> QED BY <2>4, <2>5
<1>8. CASE SetMigrate
  <2>1. zkSlot' = [zkSlot EXCEPT ![cur] = slot] /\ pc = "setMigrate" /\ pc' = "setRecord"
        /\ UNCHANGED <<zkMigrate, cur, last, slot, mig, rethrow, outdated>>
    BY <1>8 DEF SetMigrate, SetSlot, Write
  <2>2. zkSlot'[cur] = slot /\ \A s \in SlotId \ {cur} : zkSlot'[s] = zkSlot[s]
    BY <1>1, <2>1
  <2>3. \A s \in Ahead' : s \in Ahead /\ s # cur /\ s \in SlotId
    BY <2>1 DEF Ahead
  <2>4. slot.src_gid = zkSlot[cur].src_gid
    BY <2>1 DEF OwnerInv, NodeInv, Outward
  <2>5. NodeInv'
    BY <2>1, <2>2 DEF OwnerInv, NodeInv, Outward
  <2>6. ~outdated' => FromInv'
    BY <2>1, <2>2, <2>3, <2>4 DEF OwnerInv, FromInv, Before, Current, Holding
  <2> QED BY <2>1, <2>5, <2>6 DEF OwnerInv, Holding
<1>9. CASE SetRecord
  <2>1. pc = "setRecord" /\ pc' = "move" /\ UNCHANGED <<zkSlot, cur, last, slot, mig, rethrow, outdated>>
        /\ \A s \in SlotId \ {cur} : zkMigrate'[s] = zkMigrate[s]
    BY <1>1, <1>9 DEF SetRecord, SetMigrateRecord
  <2>2. \A s \in Ahead' : s \in Ahead /\ s # cur /\ s \in SlotId
    BY <2>1 DEF Ahead
  <2>3. NodeInv'
    BY <2>1 DEF OwnerInv, NodeInv, Outward
  <2>4. ~outdated' => FromInv'
    BY <2>1, <2>2 DEF OwnerInv, FromInv, Before, Current, Holding
  <2> QED BY <2>1, <2>3, <2>4 DEF OwnerInv, Holding
<1>10. CASE MoveDone \/ MoveConnFails
  <2>1. PICK g \in {mig.to_gid, mig.from_gid} : Post(g) /\ (g = mig.to_gid \/ rethrow')
    BY <1>10 DEF MoveDone, MoveConnFails
  <2>2. pc = "move" /\ pc' = "fresh" /\ UNCHANGED <<zkSlot, zkMigrate, cur, last, mig, outdated>>
    BY <1>10, <2>1 DEF MoveDone, MoveConnFails, Post
  <2>3. slot' = Online(g)
    <3>1. g \in Gid /\ slot \in SlotRecord
      BY <1>2, <2>1, <2>2, Records DEF Holding
    <3> QED BY <2>1, <3>1, OnlineRecords DEF Post
  <2>4. \A s \in Ahead' : s \in Ahead
    BY <2>2 DEF Ahead
  <2>5. zkSlot[cur].status = "MIGRATE" /\ zkSlot[cur].to_gid = mig.to_gid
    BY <2>2 DEF OwnerInv, NodeInv, Outward
  <2>6. NodeInv'
    BY <2>1, <2>2, <2>3, <2>5, OnlineRecords DEF NodeInv
  <2>7. ~outdated' => FromInv'
    BY <2>2, <2>4 DEF OwnerInv, FromInv, Before, Current, Holding
  <2> QED BY <2>2, <2>6, <2>7 DEF OwnerInv, Holding
<1>11. CASE DelRecord \/ MarkError
  <2>1. NextSlot /\ UNCHANGED <<zkSlot, outdated>> /\ pc # "none"
        /\ \A s \in SlotId \ {cur} : zkMigrate'[s] = zkMigrate[s]
    BY <1>1, <1>11 DEF DelRecord, MarkError, SetMigrateRecord
  <2> QED BY <2>1, OwnerNextSlot
<1> QED
  BY <1>3, <1>4, <1>5, <1>6, <1>7, <1>8, <1>9, <1>10, <1>11 DEF TaskStep, ProtocolStep

\* Records are submitted with the owner that ZooKeeper knows, or the history
\* tells that they are not.
LEMMA OwnerSubmit ==
  ASSUME TypeOK, OwnerInv, Submit \/ OverlapStep
  PROVE  OwnerInv'
<1>1. CASE Submit
  <2>1. PICK from, to \in SlotId, g \in Gid, d \in Delays :
          /\ pc = "none" /\ from <= to
          /\ outdated' = (outdated \/ \E s \in from .. to : Outdated(s))
          /\ pc' = "posted" /\ cur' = from /\ last' = to
          /\ UNCHANGED <<zkSlot, slot, mig, rethrow>>
    BY <1>1 DEF Submit
  <2>2. ~outdated' => \A s \in Ahead' : Current(s)'
    BY <2>1 DEF Ahead, Outdated, Current
  <2> QED BY <2>1, <2>2 DEF OwnerInv, NodeInv, FromInv, Before, Holding
<1>2. CASE OverlapPost
  <2>1. second.id \in SlotId
    BY <1>2 DEF OverlapPost, TypeOK, HistoryTypes, SecondCall
  <2>2. /\ outdated' = (outdated \/ Outdated(second.id))
        /\ pc' = "posted" /\ cur' = second.id /\ last' = second.id
        /\ UNCHANGED <<zkSlot, slot, mig, rethrow>>
    BY <1>2 DEF OverlapPost
  <2>3. Ahead' \subseteq {second.id}
    BY <2>1, <2>2, SlotAssumption DEF Ahead, SlotId
  <2>4. ~outdated' => \A s \in Ahead' : Current(s)'
    BY <2>2, <2>3 DEF Outdated, Current
  <2>5. cur' <= last'
    BY <2>1, <2>2, SlotAssumption DEF SlotId
  <2> QED BY <2>2, <2>4, <2>5 DEF OwnerInv, NodeInv, FromInv, Before, Holding
<1>3. CASE OverlapStep /\ ~OverlapPost
  <2>1. UNCHANGED <<zkSlot, pc, cur, last, slot, mig, rethrow>>
    BY <1>3, OverlapFrame
  <2>2. ~outdated' => ~outdated /\ \A s \in SlotId : Current(s) => Current(s)'
    <3>1. CASE OverlapRead \/ OverlapRefused
      BY <2>1, <3>1 DEF OverlapRead, OverlapRefused, zkVars, Current
    <3>2. CASE OverlapUndo
      <4>1. \A s \in SlotId : zkMigrate'[s] \in {Null, zkMigrate[s]}
        BY <3>2 DEF OverlapUndo, SetMigrateRecord, TypeOK, ZkTypes
      <4>2. outdated' = outdated
        BY <3>2 DEF OverlapUndo
      <4> QED BY <2>1, <4>1, <4>2 DEF Current
    <3>3. CASE OverlapWrite
      <4>1. second.id \in SlotId /\ outdated' = (outdated \/ Outdated(second.id))
        BY <3>3 DEF OverlapWrite, TypeOK, HistoryTypes, SecondCall
      <4>2. \A s \in SlotId \ {second.id} : zkMigrate'[s] = zkMigrate[s]
        BY <3>3 DEF OverlapWrite, SetMigrateRecord, TypeOK, ZkTypes
      <4> QED BY <2>1, <4>1, <4>2 DEF Outdated, Current
    <3> QED BY <1>3, <3>1, <3>2, <3>3 DEF OverlapStep
  <2>3. Ahead' = Ahead /\ Ahead \subseteq SlotId
    BY <2>1 DEF Ahead
  <2>4. NodeInv' /\ cur' <= last' /\ (pc' \in Holding => mig'.from_gid # mig'.to_gid)
    BY <2>1 DEF OwnerInv, NodeInv, Outward
  <2>5. ~outdated' => FromInv'
    BY <2>1, <2>2, <2>3 DEF OwnerInv, FromInv, Before
  <2> QED BY <2>4, <2>5 DEF OwnerInv
<1> QED BY <1>1, <1>2, <1>3

LEMMA OwnerNext ==
  TypeOK /\ OwnerInv /\ ~CallLost /\ [Next]_vars => OwnerInv'
<1> SUFFICES ASSUME TypeOK, OwnerInv, ~CallLost, [Next]_vars PROVE OwnerInv'
  OBVIOUS
<1> USE DEF taskVars, taskLocal, zkVars, notRecords, outsideClients, historyVars, callVars
<1>1. CASE TaskStep
  BY <1>1, OwnerTask
<1>2. CASE ListenerStep \/ ClientStep \/ UNCHANGED vars
  <2>1. ListenerStep => UNCHANGED <<zkSlot, zkMigrate, pc, cur, last, slot, mig, rethrow, outdated>>
    BY DEF ListenerStep, AdminLoad, UpdatedEvent, RemovedEvent, CountDown
  <2>2. ClientStep => UNCHANGED <<zkVars, taskVars, outdated>>
    BY DEF ClientStep, WatchSlot, Fetch, LoadRead, LoadPut, LoadLost, Apply, Ack
  <2>3. UNCHANGED <<zkSlot, zkMigrate, pc, cur, last, slot, mig, rethrow, outdated>>
    BY <1>2, <2>1, <2>2 DEF vars
  <2> QED BY <2>3, OwnerFrame
<1>3. CASE \E c \in Client : AdminEdit(c) \/ Register(c) \/ Expire(c) \/ Leave(c)
  <2>1. UNCHANGED <<zkSlot, zkMigrate, pc, cur, last, slot, mig, rethrow, outdated>>
    BY <1>3 DEF AdminEdit, Register, Expire, Leave
  <2> QED BY <2>1, OwnerFrame
<1>4. CASE Submit \/ OverlapStep
  BY <1>4, OwnerSubmit
<1>5. CASE DelTask
  <2>1. UNCHANGED <<zkSlot, pc, cur, last, slot, mig, rethrow, outdated>>
    BY <1>5 DEF DelTask
  <2>2. \A s \in SlotId : zkMigrate'[s] \in {Null, zkMigrate[s]}
    BY <1>5 DEF DelTask, TypeOK, ZkTypes
  <2>3. NodeInv' /\ cur' <= last' /\ (pc' \in Holding => mig'.from_gid # mig'.to_gid)
    BY <2>1 DEF OwnerInv, NodeInv, Outward
  <2>4. ~outdated' => FromInv'
    BY <2>1, <2>2 DEF OwnerInv, FromInv, Before, Current, Ahead
  <2> QED BY <2>3, <2>4 DEF OwnerInv
<1>6. CASE Crash
  BY <1>6 DEF Crash, OwnerInv, NodeInv, FromInv, Before, Holding
<1> QED
  BY <1>1, <1>2, <1>3, <1>4, <1>5, <1>6 DEF Next, Environment

LEMMA OwnerInit == Init => OwnerInv
  BY DEF Init, OwnerInv, NodeInv, FromInv, Before, Holding

LEMMA OwnerInvariant == ~CallLost => (Spec => [](TypeOK /\ OwnerInv))
<1> SUFFICES ASSUME ~CallLost PROVE Spec => [](TypeOK /\ OwnerInv)
  OBVIOUS
<1>1. Init => TypeOK /\ OwnerInv
  BY TypeInit, OwnerInit
<1>2. TypeOK /\ OwnerInv /\ [Next]_vars => TypeOK' /\ OwnerInv'
  BY TypeNext, OwnerNext
<1> QED BY <1>1, <1>2, PTL DEF Spec

\* The only writes of slot nodes are those of the task, about its slot.
LEMMA SlotWrites ==
  ASSUME TypeOK, [Next]_vars, NEW s \in SlotId, zkSlot'[s] # zkSlot[s]
  PROVE  /\ s = cur /\ zkSlot'[s] = slot
         /\ SetBarrierSlot \/ SetMigrate
<1>1. CASE SetBarrierSlot \/ SetMigrate
  BY <1>1 DEF SetBarrierSlot, SetMigrate, SetSlot, Write, TypeOK, ZkTypes
<1>2. CASE UNCHANGED zkSlot
  BY <1>2
<1>3. CASE TaskStep /\ ~(SetBarrierSlot \/ SetMigrate)
  BY <1>2, <1>3 DEF TaskStep, ProtocolStep, TaskStart, ReadSlot,
     SkipSameGroup, NoRecord, FreshClear, FreshChildren, FreshAdd, FreshDone,
     AwaitOpen, AwaitTimeout, SetRecord, DelRecord, MarkError, MoveDone,
     MoveConnFails, MoveFails, outsideTask, notRecords, zkVars
<1>4. CASE ListenerStep \/ ClientStep \/ UNCHANGED vars
  BY <1>2, <1>4 DEF ListenerStep, AdminLoad, UpdatedEvent, RemovedEvent,
     ClientStep, WatchSlot, Fetch, LoadRead, LoadPut, LoadLost, Apply, Ack,
     outsideClients, vars, zkVars
<1>5. CASE Environment
  BY <1>2, <1>5, OverlapFrame DEF Environment, Submit, DelTask, Crash,
     AdminEdit, Register, Expire, Leave, notRecords, zkVars
<1> QED BY <1>1, <1>3, <1>4, <1>5 DEF Next

(* A slot changes hands out of MIGRATE only, to the destination that the   *)
(* clients were told, or to the group that an outdated record names, when  *)
(* the task rolls back (SlotMigration.OwnershipMoves): for every instance  *)
(* in which ZooKeeper takes the calls of the administration, whatever      *)
(* crashes, times out, overlaps or is deleted.                             *)
THEOREM OwnershipCorrect == ~CallLost => (Spec => OwnershipMoves)
<1> SUFFICES ASSUME ~CallLost PROVE Spec => OwnershipMoves
  OBVIOUS
<1> DEFINE Moves ==
  \A s \in SlotId : zkSlot'[s].src_gid # zkSlot[s].src_gid =>
     /\ zkSlot[s].status = "MIGRATE"
     /\ \/ zkSlot'[s] = Online(zkSlot[s].to_gid)
        \/ outdated /\ rethrow /\ zkSlot'[s] = Online(mig.from_gid)
<1>1. ASSUME TypeOK, OwnerInv, [Next]_vars PROVE Moves
  <2> SUFFICES ASSUME NEW s \in SlotId, zkSlot'[s].src_gid # zkSlot[s].src_gid
               PROVE  /\ zkSlot[s].status = "MIGRATE"
                      /\ \/ zkSlot'[s] = Online(zkSlot[s].to_gid)
                         \/ outdated /\ rethrow /\ zkSlot'[s] = Online(mig.from_gid)
    OBVIOUS
  <2>1. s = cur /\ zkSlot'[s] = slot /\ (SetBarrierSlot \/ SetMigrate)
    BY <1>1, SlotWrites
  <2>2. slot.src_gid # zkSlot[cur].src_gid /\ pc \in {"set", "setMigrate"}
    BY <2>1 DEF SetBarrierSlot, SetMigrate
  <2>3. pc = "set" /\ (slot = Online(mig.to_gid) \/ (slot = Online(mig.from_gid) /\ rethrow))
    BY <1>1, <2>2 DEF OwnerInv, NodeInv, Outward
  <2>4. /\ Online(mig.to_gid).status = "ONLINE"
        /\ Online(mig.from_gid).status = "ONLINE" /\ Online(mig.from_gid).src_gid = mig.from_gid
    BY OnlineRecords
  <2>5. zkSlot[cur].status = "MIGRATE" /\ zkSlot[cur].to_gid = mig.to_gid
    BY <1>1, <2>3, <2>4 DEF OwnerInv, NodeInv
  <2>6. ~outdated => mig.from_gid = zkSlot[cur].src_gid
    BY <1>1, <2>3 DEF OwnerInv, FromInv, Before, Holding
  <2> QED BY <2>1, <2>2, <2>3, <2>4, <2>5, <2>6 DEF TypeOK, HistoryTypes
<1> QED BY <1>1, OwnerInvariant, PTL DEF Spec, OwnershipMoves

(* A slot that is left half migrated keeps its record                      *)
(* (SlotMigration.RecordOutlivesMigration), for every instance in which    *)
(* ZooKeeper takes the writes of the task.                                 *)
THEOREM RecordsCorrect == ~CallLost => (Spec => RecordOutlivesMigration)
<1> SUFFICES ASSUME ~CallLost PROVE Spec => RecordOutlivesMigration
  OBVIOUS
<1> DEFINE Outlives ==
  \A s \in SlotId :
    TaskStep /\ zkMigrate[s] # Null /\ zkMigrate'[s] = Null =>
      zkSlot[s].status = "ONLINE" \/ slot = Null
<1>1. ASSUME TypeOK, OwnerInv PROVE Outlives
  <2> SUFFICES ASSUME NEW s \in SlotId, TaskStep, zkMigrate[s] # Null, zkMigrate'[s] = Null
               PROVE  zkSlot[s].status = "ONLINE" \/ slot = Null
    OBVIOUS
  <2>1. zkMigrate \in [SlotId -> MigrateRecord \cup {Null}] /\ cur \in SlotId
    BY <1>1 DEF TypeOK, ZkTypes, TaskTypes
  <2>2. CASE DelRecord
    <3>1. s = cur /\ pc = "delRecord"
      BY <2>1, <2>2 DEF DelRecord, SetMigrateRecord
    <3> QED BY <1>1, <3>1 DEF OwnerInv, NodeInv
  <2>3. ASSUME NEW rec \in MigrateRecord, zkMigrate' = [zkMigrate EXCEPT ![cur] = rec] PROVE FALSE
    BY <2>1, <2>3, NullAssumption
  <2>4. CASE SetRecord
    <3>1. mig \in MigrateRecord /\ [mig EXCEPT !.status = "MIGRATE"] \in MigrateRecord
      BY <1>1, <2>4, Records DEF SetRecord, TypeOK, TaskTypes, Holding
    <3> QED BY <2>3, <2>4, <3>1 DEF SetRecord, SetMigrateRecord
  <2>5. CASE MarkError
    <3>1. zkMigrate[cur] # Null => [zkMigrate[cur] EXCEPT !.status = "ERROR"] \in MigrateRecord
      BY <2>1, Records
    <3> QED BY <2>3, <2>5, <3>1 DEF MarkError, SetMigrateRecord
  <2>6. CASE UNCHANGED zkMigrate
    BY <2>6
  <2>7. CASE TaskStep /\ ~(DelRecord \/ SetRecord \/ MarkError)
    BY <2>6, <2>7 DEF TaskStep, ProtocolStep, TaskStart, ReadSlot, SkipSameGroup,
       NoRecord, FreshClear, FreshChildren, FreshAdd, FreshDone, SetBarrierSlot,
       SetMigrate, AwaitOpen, AwaitTimeout, MoveDone, MoveConnFails, MoveFails,
       outsideTask, zkVars
  <2> QED BY <2>2, <2>4, <2>5, <2>7
<1> QED BY <1>1, OwnerInvariant, PTL DEF Spec, RecordOutlivesMigration
=============================================================================

------------------------- MODULE MigrateAdminProofs -------------------------
(***************************************************************************)
(* Theorems about MigrateAdmin, for every number of instances, calls,      *)
(* slots, threads and queue places, and for every set of faults.           *)
(***************************************************************************)
EXTENDS MigrateAdmin, FiniteSetTheorems, TLAPS

\* The task of r is in the executor, running or queued.
InExecutor(r) ==
  Task(r) \in running \/ \E n \in 1 .. Len(queue) : queue[n] = Task(r)

\* A task in the executor is the one that is posted, has been started and
\* has not finished; it is there once.  The posted one is one of the instance.
PlaceInv ==
  /\ \A i \in Instance : taskQueue[i] # Null => Of[taskQueue[i]] = i
  /\ \A r \in Call :
       InExecutor(r) => taskQueue[Of[r]] = r /\ run[r] /\ ~finished[r]
  /\ \A r \in Call, n \in 1 .. Len(queue) :
       queue[n] = Task(r) => Task(r) \notin running
  /\ \A r \in Call, m, n \in 1 .. Len(queue) :
       queue[m] = Task(r) /\ queue[n] = Task(r) => m = n

Mine(r) == [call |-> r, status |-> "PENDING"]

\* A call that nobody disturbed is the only one of its instance in flight,
\* and stays that while its task is posted.
Alone ==
  \A r \in Call :
    r \notin disturbed /\ (call[r] \in InFlight \/ taskQueue[Of[r]] = r) =>
      \A q \in Others(r) : call[q] \notin InFlight

\* No task of the instance is posted before its own.
NoTask ==
  \A r \in Call :
    r \notin disturbed /\ call[r] \in InFlight => taskQueue[Of[r]] = Null

\* The record of r as it was persisted, but for a write that was lost.
Own(r, s) == records[Of[r]][s] = Mine(r) \/ <<r, s>> \in lost

\* What it has persisted stays as it is until it posts its task.
Persisted ==
  \A r \in Call :
    r \notin disturbed /\ call[r] \in {"checked", "accepted"} =>
      \A s \in Slots(r) \ left[r] : Own(r, s)

\* A slot that the task of r has before it, its record not read yet.
Ahead(r, s) == s \in Slots(r) /\ s >= cur[r] /\ (s = cur[r] => held[r] = Null)

\* And until its task comes to the slot.
Unspoilt ==
  \A r \in Call :
    taskQueue[Of[r]] = r /\ ~finished[r] =>
      /\ cur[r] >= range[r][1]
      /\ r \notin disturbed =>
           \A s \in SlotId : Ahead(r, s) => Own(r, s)

OwnInv == Alone /\ NoTask /\ Persisted /\ Unspoilt

\* A record as r persisted it is within its range, and left behind only if
\* its delete was lost.
LeftInv ==
  \A r \in Call :
    /\ call[r] \notin {"new", "busy"} => left[r] \subseteq Slots(r)
    /\ \A s \in SlotId :
         records[Of[r]][s] = Mine(r) =>
           /\ s \in Slots(r) /\ call[r] # "new"
           /\ call[r] = "undoing" => s \in left[r] \/ <<r, s>> \in lost
           /\ call[r] = "refused" => <<r, s>> \in lost

(* The inductive invariant.                                                *)
IInv == AdminTypeOK /\ PlaceInv /\ OwnInv /\ LeftInv

-----------------------------------------------------------------------------
\* The jobs are told apart.
LEMMA Jobs ==
  /\ \A r \in Call : Task(r) \in Job /\ Add(r) \in Job
  /\ Manage \in Job
  /\ \A r, q \in Call : Task(r) = Task(q) => r = q
  /\ \A r, q \in Call : Task(r) # Add(q)
  /\ \A r \in Call : Task(r) # Manage
<1>1. \A r \in Call : Task(r) # Manage
  <2>1. SUFFICES ASSUME NEW r \in Call, Task(r) = Manage PROVE FALSE
    OBVIOUS
  <2>2. Len(Task(r)) = 2 /\ Len(Manage) = 1
    BY DEF Task, Manage
  <2> QED BY <2>1, <2>2
<1>2. \A r, q \in Call : Task(r) = Task(q) => r = q
  <2>1. SUFFICES ASSUME NEW r \in Call, NEW q \in Call, Task(r) = Task(q)
                 PROVE  r = q
    OBVIOUS
  <2>2. Task(r)[2] = r /\ Task(q)[2] = q
    BY DEF Task
  <2> QED BY <2>1, <2>2
<1>3. \A r, q \in Call : Task(r) # Add(q)
  <2>1. SUFFICES ASSUME NEW r \in Call, NEW q \in Call, Task(r) = Add(q)
                 PROVE  FALSE
    OBVIOUS
  <2>2. Task(r)[1] = "task" /\ Add(q)[1] = "add"
    BY DEF Task, Add
  <2> QED BY <2>1, <2>2
<1> QED BY <1>1, <1>2, <1>3 DEF Job

\* A record keeps its type when its status changes.
LEMMA RecordTypes ==
  /\ \A r \in Call : [call |-> r, status |-> "PENDING"] \in Record
  /\ \A x \in Record : [x EXCEPT !.status = "MIGRATE"] \in Record
  /\ \A x \in Record : [x EXCEPT !.status = "ERROR"] \in Record
  BY DEF Record

\* The calls ask for slots that exist.
LEMMA RangeTypes ==
  ASSUME AdminTypeOK, NEW r \in Call
  PROVE  /\ Of[r] \in Instance
         /\ range[r][1] \in SlotId /\ range[r][2] \in SlotId
         /\ Slots(r) \subseteq SlotId
  BY AdminAssumption DEF AdminTypeOK, SlotId, Slots

\* What the executor does with a job that it accepts.
LEMMA ExecuteType ==
  ASSUME AdminTypeOK, NEW job \in Job, Accepts, Execute(job)
  PROVE  /\ threads' \in 1 .. MaxPool /\ running' \in SUBSET Job
         /\ queue' \in Seq(Job) /\ Len(queue') <= QueueCap
         /\ \/ running' = running \cup {job} /\ queue' = queue
            \/ running' = running /\ queue' = Append(queue, job)
<1>1. CASE threads < Core \/ (Len(queue) >= QueueCap /\ threads < MaxPool)
  BY <1>1, AdminAssumption DEF AdminTypeOK, Execute
<1>2. CASE ~(threads < Core \/ (Len(queue) >= QueueCap /\ threads < MaxPool))
  <2>1. Len(queue) < QueueCap
    BY <1>2, AdminAssumption DEF AdminTypeOK, Accepts
  <2>2. queue' = Append(queue, job) /\ threads' = threads /\ running' = running
    BY <1>2 DEF Execute
  <2> QED BY <2>1, <2>2, AdminAssumption DEF AdminTypeOK
<1> QED BY <1>1, <1>2

\* Where the jobs of the tasks are after a job has been accepted.
LEMMA ExecutePlaces ==
  ASSUME AdminTypeOK, PlaceInv, NEW job \in Job, Accepts, Execute(job),
         NEW r \in Call
  PROVE  /\ InExecutor(r)' => InExecutor(r) \/ job = Task(r)
         /\ job # Task(r) \/ ~InExecutor(r) =>
              /\ \A n \in 1 .. Len(queue') :
                   queue'[n] = Task(r) => Task(r) \notin running'
              /\ \A m, n \in 1 .. Len(queue') :
                   queue'[m] = Task(r) /\ queue'[n] = Task(r) => m = n
<1>1. CASE running' = running \cup {job} /\ queue' = queue
  BY <1>1 DEF InExecutor, PlaceInv
<1>2. CASE running' = running /\ queue' = Append(queue, job)
  <2>1. /\ Len(queue') = Len(queue) + 1 /\ Len(queue) \in Nat
        /\ \A n \in 1 .. Len(queue) : queue'[n] = queue[n]
        /\ queue'[Len(queue) + 1] = job
    BY <1>2 DEF AdminTypeOK
  <2>2. \A n \in 1 .. Len(queue') : n \in 1 .. Len(queue) \/ n = Len(queue) + 1
    BY <2>1
  <2>3. InExecutor(r)' => InExecutor(r) \/ job = Task(r)
    BY <1>2, <2>1, <2>2 DEF InExecutor
  <2>4. ASSUME job # Task(r) \/ ~InExecutor(r)
        PROVE  /\ \A n \in 1 .. Len(queue') :
                    queue'[n] = Task(r) => Task(r) \notin running'
               /\ \A m, n \in 1 .. Len(queue') :
                    queue'[m] = Task(r) /\ queue'[n] = Task(r) => m = n
    BY <2>4, <1>2, <2>1, <2>2 DEF InExecutor, PlaceInv
  <2> QED BY <2>3, <2>4
<1> QED BY <1>1, <1>2, ExecuteType

-----------------------------------------------------------------------------
\* The types that no action but a few touches.
PoolTypes ==
  /\ threads \in 1 .. MaxPool /\ running \in SUBSET Job
  /\ queue \in Seq(Job) /\ Len(queue) <= QueueCap

CallTypes ==
  /\ call \in [Call -> InFlight \cup
                 {"new", "busy", "rejected", "posted", "refused", "lost"}]
  /\ range \in [Call -> SlotId \X SlotId]
  /\ left \in [Call -> SUBSET SlotId]
  /\ disturbed \in SUBSET Call /\ lost \in SUBSET (Call \X SlotId)

TaskTypes ==
  /\ taskQueue \in [Instance -> Call \cup {Null}]
  /\ run \in [Call -> BOOLEAN] /\ finished \in [Call -> BOOLEAN]
  /\ cur \in [Call -> 0 .. (MaxSlot + 1)]

RecordTypeOK ==
  /\ held \in [Call -> Record \cup {Null}]
  /\ records \in [Instance -> [SlotId -> Record \cup {Null}]]

LEMMA Parts == AdminTypeOK <=> PoolTypes /\ CallTypes /\ TaskTypes /\ RecordTypeOK
  BY DEF AdminTypeOK, PoolTypes, CallTypes, TaskTypes, RecordTypeOK

\* A write of a record, and what it leaves alone.
LEMMA SetStep ==
  ASSUME AdminTypeOK, NEW r \in Call, NEW s \in SlotId,
         NEW rec \in Record \cup {Null}, SetRecord(r, s, rec)
  PROVE  /\ records' \in [Instance -> [SlotId -> Record \cup {Null}]]
         /\ \A i \in Instance, t \in SlotId :
              \/ records'[i][t] = records[i][t]
              \/ i = Of[r] /\ t = s /\ records'[i][t] = rec
<1>1. Of[r] \in Instance
  BY RangeTypes
<1>2. CASE records' = [records EXCEPT ![Of[r]][s] = rec]
  BY <1>1, <1>2 DEF AdminTypeOK
<1>3. CASE UNCHANGED records
  BY <1>3 DEF AdminTypeOK
<1> QED BY <1>2, <1>3 DEF SetRecord

LEMMA MarkStep ==
  ASSUME AdminTypeOK, NEW r \in Call, cur[r] \in SlotId, MarkError(r)
  PROVE  /\ records' \in [Instance -> [SlotId -> Record \cup {Null}]]
         /\ \A i \in Instance, t \in SlotId :
              \/ records'[i][t] = records[i][t]
              \/ /\ i = Of[r] /\ t = cur[r]
                 /\ records'[i][t] \in Record /\ records'[i][t].status = "ERROR"
<1> DEFINE old == records[Of[r]][cur[r]]
           new == [old EXCEPT !.status = "ERROR"]
<1>1. old \in Record \cup {Null}
  BY RangeTypes DEF AdminTypeOK
<1>2. CASE old = Null
  BY <1>2 DEF MarkError, AdminTypeOK
<1>3. CASE old # Null
  <2>1. SetRecord(r, cur[r], new)
    BY <1>3 DEF MarkError
  <2>2. new \in Record /\ new.status = "ERROR"
    BY <1>1, <1>3 DEF Record
  <2> HIDE DEF new
  <2> QED BY <2>1, <2>2, SetStep
<1> QED BY <1>2, <1>3

\* A call that sees to a slot of its own.
LEMMA SeesStep ==
  ASSUME AdminTypeOK, NEW r \in Call, NEW s \in left[r],
         NEW rec \in Record \cup {Null}, SeesTo(r, s, rec)
  PROVE  /\ s \in SlotId
         /\ left' = [left EXCEPT ![r] = @ \ {s}]
         /\ left' \in [Call -> SUBSET SlotId]
         /\ records' \in [Instance -> [SlotId -> Record \cup {Null}]]
         /\ lost \subseteq lost' /\ lost' \in SUBSET (Call \X SlotId)
         /\ records'[Of[r]][s] = rec \/ <<r, s>> \in lost'
<1>1. s \in SlotId
  BY DEF AdminTypeOK
<1>2. lost' = IF records'[Of[r]][s] = rec THEN lost ELSE lost \cup {<<r, s>>}
  BY DEF SeesTo
<1>3. lost \in SUBSET (Call \X SlotId) /\ <<r, s>> \in Call \X SlotId
  BY <1>1 DEF AdminTypeOK
<1>4. left' = [left EXCEPT ![r] = @ \ {s}] /\ left' \in [Call -> SUBSET SlotId]
  BY DEF SeesTo, AdminTypeOK
<1> QED BY <1>1, <1>2, <1>3, <1>4, SetStep DEF SeesTo

LEMMA SeesRecords ==
  ASSUME AdminTypeOK, NEW r \in Call, NEW s \in left[r],
         NEW rec \in Record \cup {Null}, SeesTo(r, s, rec),
         NEW i \in Instance, NEW t \in SlotId
  PROVE  \/ records'[i][t] = records[i][t]
         \/ i = Of[r] /\ records'[i][t] = rec /\ t \in left[r]
<1>1. s \in SlotId
  BY DEF AdminTypeOK
<1> QED BY <1>1, SetStep DEF SeesTo

LEMMA PersistStep ==
  ASSUME AdminTypeOK, NEW r \in Call, Persist(r)
  PROVE  \E s \in left[r] : SeesTo(r, s, Mine(r)) /\ Mine(r) \in Record \cup {Null}
  BY RecordTypes DEF Persist, Mine

LEMMA InitTypes == Init => AdminTypeOK
  BY AdminAssumption, Jobs DEF Init, AdminTypeOK, SlotId, InFlight

LEMMA StepTypes == AdminTypeOK /\ [Next]_vars => AdminTypeOK'
<1> SUFFICES ASSUME AdminTypeOK, [Next]_vars PROVE AdminTypeOK'
  OBVIOUS
<1> PoolTypes /\ CallTypes /\ TaskTypes /\ RecordTypeOK
  BY Parts
<1> SUFFICES PoolTypes' /\ CallTypes' /\ TaskTypes' /\ RecordTypeOK'
  BY DEF AdminTypeOK, PoolTypes, CallTypes, TaskTypes, RecordTypeOK
<1>1. ASSUME NEW r \in Call, Check(r)
      PROVE  PoolTypes' /\ CallTypes' /\ TaskTypes' /\ RecordTypeOK'
  <2>1. PoolTypes' /\ TaskTypes' /\ RecordTypeOK' /\ lost' = lost
    BY <1>1 DEF Check, poolVars, taskVars, PoolTypes, TaskTypes, RecordTypeOK
  <2>2. PICK b \in Ranges[Of[r]] :
          /\ range' = [range EXCEPT ![r] = b]
          /\ left' = [left EXCEPT ![r] = b[1] .. b[2]]
    BY <1>1 DEF Check
  <2>3. b \in SlotId \X SlotId /\ b[1] .. b[2] \subseteq SlotId
    BY AdminAssumption DEF SlotId
  <2>4. disturbed' \subseteq disturbed \cup Call
    BY <1>1 DEF Check, Others
  <2>5. call' = [call EXCEPT ![r] = "checked"]
    BY <1>1 DEF Check
  <2>6. CallTypes'
    BY <2>1, <2>2, <2>3, <2>4, <2>5 DEF CallTypes, InFlight
  <2> QED BY <2>1, <2>6
<1>2. ASSUME NEW r \in Call, Busy(r)
      PROVE  PoolTypes' /\ CallTypes' /\ TaskTypes' /\ RecordTypeOK'
  BY <1>2, AdminAssumption, RangeTypes, RecordTypes, Jobs, ExecuteType
  DEF vars, poolVars, callVars, taskVars, historyVars, PoolTypes, CallTypes, TaskTypes, RecordTypeOK, Busy
<1>3. ASSUME NEW r \in Call, Accept(r)
      PROVE  PoolTypes' /\ CallTypes' /\ TaskTypes' /\ RecordTypeOK'
  BY <1>3, AdminAssumption, RangeTypes, RecordTypes, Jobs, ExecuteType
  DEF vars, poolVars, callVars, taskVars, historyVars, PoolTypes, CallTypes, TaskTypes, RecordTypeOK, Accept, InFlight
<1>4. ASSUME NEW r \in Call, Reject(r)
      PROVE  PoolTypes' /\ CallTypes' /\ TaskTypes' /\ RecordTypeOK'
  BY <1>4, AdminAssumption, RangeTypes, RecordTypes, Jobs, ExecuteType
  DEF vars, poolVars, callVars, taskVars, historyVars, PoolTypes, CallTypes, TaskTypes, RecordTypeOK, Reject
<1>5. ASSUME NEW r \in Call, Persist(r)
      PROVE  PoolTypes' /\ CallTypes' /\ TaskTypes' /\ RecordTypeOK'
  <2>1. PICK s \in left[r] : SeesTo(r, s, Mine(r)) /\ Mine(r) \in Record \cup {Null}
    BY <1>5, PersistStep
  <2>2. PoolTypes' /\ TaskTypes' /\ UNCHANGED <<call, range, held, disturbed>>
    BY <1>5 DEF Persist, poolVars, taskVars, PoolTypes, TaskTypes
  <2>3. CallTypes'
    BY <2>1, <2>2, SeesStep DEF CallTypes
  <2>4. RecordTypeOK'
    BY <2>1, <2>2, SeesStep DEF RecordTypeOK
  <2> QED BY <2>2, <2>3, <2>4
<1>6. ASSUME NEW r \in Call, PersistFails(r)
      PROVE  PoolTypes' /\ CallTypes' /\ TaskTypes' /\ RecordTypeOK'
  BY <1>6, AdminAssumption, RangeTypes, RecordTypes, Jobs, ExecuteType
  DEF vars, poolVars, callVars, taskVars, historyVars, PoolTypes, CallTypes, TaskTypes, RecordTypeOK, PersistFails, InFlight, Ends
<1>7. ASSUME NEW r \in Call, Post(r)
      PROVE  PoolTypes' /\ CallTypes' /\ TaskTypes' /\ RecordTypeOK'
  <2>1. PoolTypes' /\ CallTypes' /\ RecordTypeOK'
    BY <1>7 DEF Post, Ends, historyVars, PoolTypes, CallTypes, RecordTypeOK
  <2>2. range[r][1] \in 0 .. MaxSlot + 1
    BY RangeTypes, AdminAssumption DEF SlotId
  <2>3. taskQueue' \in [Instance -> Call \cup {Null}]
    BY <1>7 DEF Post, TaskTypes
  <2>4. cur' \in [Call -> 0 .. (MaxSlot + 1)]
    BY <1>7, <2>2 DEF Post, TaskTypes
  <2> QED BY <1>7, <2>1, <2>3, <2>4 DEF Post, TaskTypes
<1>8. ASSUME NEW r \in Call, PostRefused(r)
      PROVE  PoolTypes' /\ CallTypes' /\ TaskTypes' /\ RecordTypeOK'
  BY <1>8, AdminAssumption, RangeTypes, RecordTypes, Jobs, ExecuteType
  DEF vars, poolVars, callVars, taskVars, historyVars, PoolTypes, CallTypes, TaskTypes, RecordTypeOK, PostRefused, InFlight
<1>9. ASSUME NEW r \in Call, Undo(r)
      PROVE  PoolTypes' /\ CallTypes' /\ TaskTypes' /\ RecordTypeOK'
  <2>1. PICK s \in left[r] : SeesTo(r, s, Null)
    BY <1>9 DEF Undo
  <2>2. PoolTypes' /\ TaskTypes' /\ UNCHANGED <<call, range, held, disturbed>>
    BY <1>9 DEF Undo, poolVars, taskVars, PoolTypes, TaskTypes
  <2>3. CallTypes'
    BY <2>1, <2>2, SeesStep DEF CallTypes
  <2>4. RecordTypeOK'
    BY <2>1, <2>2, SeesStep DEF RecordTypeOK
  <2> QED BY <2>2, <2>3, <2>4
<1>10. ASSUME NEW r \in Call, Refuse(r)
      PROVE  PoolTypes' /\ CallTypes' /\ TaskTypes' /\ RecordTypeOK'
  BY <1>10, AdminAssumption, RangeTypes, RecordTypes, Jobs, ExecuteType
  DEF vars, poolVars, callVars, taskVars, historyVars, PoolTypes, CallTypes, TaskTypes, RecordTypeOK, Refuse, Ends
<1>0. ASSUME NEW r \in Call, AtSlot(r)
      PROVE  cur[r] \in SlotId /\ cur[r] + 1 \in 0 .. (MaxSlot + 1)
  <2>1. range[r][2] \in 0 .. MaxSlot /\ cur[r] \in Nat /\ cur[r] <= range[r][2]
    BY <1>0, RangeTypes DEF AtSlot, SlotId, TaskTypes
  <2> QED BY <2>1, AdminAssumption DEF SlotId
<1>11. ASSUME NEW r \in Call, TaskRead(r)
      PROVE  PoolTypes' /\ CallTypes' /\ TaskTypes' /\ RecordTypeOK'
  <2>1. PoolTypes' /\ CallTypes' /\ TaskTypes'
    BY <1>11 DEF TaskRead, poolVars, callVars, historyVars, PoolTypes, CallTypes, TaskTypes
  <2>2. cur[r] \in SlotId
    BY <1>0, <1>11 DEF TaskRead
  <2>3. records[Of[r]][cur[r]] \in Record \cup {Null}
    BY <2>2, RangeTypes DEF RecordTypeOK
  <2>4. RecordTypeOK'
    BY <1>11, <2>3 DEF TaskRead, RecordTypeOK
  <2> QED BY <2>1, <2>4
<1>12. ASSUME NEW r \in Call, TaskMark(r)
      PROVE  PoolTypes' /\ CallTypes' /\ TaskTypes' /\ RecordTypeOK'
  <2>1. PoolTypes' /\ CallTypes' /\ TaskTypes'
    BY <1>12 DEF TaskMark, poolVars, callVars, historyVars, PoolTypes, CallTypes, TaskTypes
  <2>2. cur[r] \in SlotId /\ held[r] \in Record
    BY <1>0, <1>12 DEF TaskMark, RecordTypeOK
  <2>3. held'[r] \in Record /\ held' \in [Call -> Record \cup {Null}]
    BY <1>12, <2>2, RecordTypes DEF TaskMark, RecordTypeOK
  <2>4. SetRecord(r, cur[r], held'[r])
    BY <1>12 DEF TaskMark
  <2>5. records' \in [Instance -> [SlotId -> Record \cup {Null}]]
    BY <2>2, <2>3, <2>4, SetStep
  <2> QED BY <2>1, <2>3, <2>5 DEF RecordTypeOK
<1>13. ASSUME NEW r \in Call, TaskSlotEnds(r) \/ TaskPasses(r)
      PROVE  PoolTypes' /\ CallTypes' /\ TaskTypes' /\ RecordTypeOK'
  <2>1. PoolTypes' /\ CallTypes'
    BY <1>13 DEF TaskSlotEnds, TaskPasses, poolVars, callVars, historyVars, PoolTypes,
                 CallTypes
  <2>2. cur[r] \in SlotId /\ cur[r] + 1 \in 0 .. (MaxSlot + 1)
    BY <1>0, <1>13 DEF TaskSlotEnds, TaskPasses
  <2>3. TaskTypes'
    BY <1>13, <2>2 DEF TaskSlotEnds, TaskPasses, TaskTypes
  <2>4. SetRecord(r, cur[r], Null) \/ MarkError(r)
    BY <1>13 DEF TaskSlotEnds, TaskPasses
  <2>5. records' \in [Instance -> [SlotId -> Record \cup {Null}]]
    BY <2>2, <2>4, SetStep, MarkStep
  <2>6. held' \in [Call -> Record \cup {Null}]
    BY <1>13 DEF TaskSlotEnds, TaskPasses, RecordTypeOK
  <2> QED BY <2>1, <2>3, <2>5, <2>6 DEF RecordTypeOK
<1>22. ASSUME NEW r \in Call, UndoFails(r)
      PROVE  PoolTypes' /\ CallTypes' /\ TaskTypes' /\ RecordTypeOK'
  BY <1>22 DEF historyVars, taskVars, PoolTypes, CallTypes, TaskTypes, RecordTypeOK,
               UndoFails, Ends, InFlight
<1>14. ASSUME NEW r \in Call, TaskEnds(r)
      PROVE  PoolTypes' /\ CallTypes' /\ TaskTypes' /\ RecordTypeOK'
  BY <1>14, AdminAssumption, RangeTypes, RecordTypes, Jobs, ExecuteType
  DEF vars, poolVars, callVars, taskVars, historyVars, PoolTypes, CallTypes, TaskTypes, RecordTypeOK, TaskEnds, Ends
<1>15. ASSUME NEW r \in Call, TaskDies(r)
      PROVE  PoolTypes' /\ CallTypes' /\ TaskTypes' /\ RecordTypeOK'
  BY <1>15, AdminAssumption, RangeTypes, RecordTypes, Jobs, ExecuteType
  DEF vars, poolVars, callVars, taskVars, historyVars, PoolTypes, CallTypes, TaskTypes, RecordTypeOK, TaskDies, Ends
<1>16. ASSUME NEW i \in Instance, Start(i)
      PROVE  PoolTypes' /\ CallTypes' /\ TaskTypes' /\ RecordTypeOK'
  BY <1>16, AdminAssumption, Jobs, ExecuteType
  DEF vars, poolVars, callVars, taskVars, historyVars, PoolTypes, CallTypes, TaskTypes, RecordTypeOK, Start
<1>17. ASSUME NEW i \in Instance, Remove(i)
      PROVE  PoolTypes' /\ CallTypes' /\ TaskTypes' /\ RecordTypeOK'
  BY <1>17, AdminAssumption, Jobs, ExecuteType
  DEF vars, poolVars, callVars, taskVars, historyVars, PoolTypes, CallTypes, TaskTypes, RecordTypeOK, Remove
<1>18. CASE Dequeue
  BY <1>18, AdminAssumption, Jobs DEF vars, poolVars, callVars, taskVars, historyVars, PoolTypes, CallTypes, TaskTypes, RecordTypeOK, Dequeue, Manage, InFlight
<1>19. CASE DelTask
  BY <1>19, AdminAssumption, Jobs DEF vars, poolVars, callVars, taskVars, historyVars, PoolTypes, CallTypes, TaskTypes, RecordTypeOK, DelTask, Manage, InFlight
<1>20. CASE Crash
  BY <1>20, AdminAssumption, Jobs DEF vars, poolVars, callVars, taskVars, historyVars, PoolTypes, CallTypes, TaskTypes, RecordTypeOK, Crash, Manage, InFlight
<1>21. CASE UNCHANGED vars
  BY <1>21 DEF vars, poolVars, callVars, taskVars, historyVars, PoolTypes, CallTypes, TaskTypes, RecordTypeOK
<1> QED
  BY <1>1, <1>2, <1>3, <1>4, <1>5, <1>6, <1>7, <1>8, <1>9, <1>10, <1>11, <1>12, <1>13, <1>14, <1>15, <1>16, <1>17, <1>18, <1>19, <1>20, <1>21, <1>22
  DEF Next, JobStep, ManageStep

-----------------------------------------------------------------------------
\* A job that leaves the executor disturbs nothing.
LEMMA Leaving ==
  ASSUME PlaceInv, running' \subseteq running, queue' = queue,
         UNCHANGED <<taskQueue, run, finished>>
  PROVE  PlaceInv'
  BY DEF PlaceInv, InExecutor

\* Nor does one that is not a task's and enters it.
LEMMA Entering ==
  ASSUME AdminTypeOK, PlaceInv, NEW job \in Job, Accepts, Execute(job),
         \A q \in Call : job # Task(q), UNCHANGED <<taskQueue, run, finished>>
  PROVE  PlaceInv'
<1>1. \A q \in Call : InExecutor(q)' => InExecutor(q)
  BY ExecutePlaces
<1>2. \A q \in Call, n \in 1 .. Len(queue') :
        queue'[n] = Task(q) => Task(q) \notin running'
  BY ExecutePlaces
<1>3. \A q \in Call, m, n \in 1 .. Len(queue') :
        queue'[m] = Task(q) /\ queue'[n] = Task(q) => m = n
  BY ExecutePlaces
<1> QED BY <1>1, <1>2, <1>3 DEF PlaceInv

LEMMA InitPlaces == Init => PlaceInv
  BY Jobs DEF Init, PlaceInv, InExecutor

LEMMA StepPlaces == AdminTypeOK /\ PlaceInv /\ [Next]_vars => PlaceInv'
<1> SUFFICES ASSUME AdminTypeOK, PlaceInv, [Next]_vars PROVE PlaceInv'
  OBVIOUS
<1> USE DEF vars, poolVars, callVars, taskVars, historyVars
<1>1. ASSUME NEW r \in Call, Check(r) PROVE PlaceInv'
  BY <1>1, Leaving DEF Check
<1>2. ASSUME NEW r \in Call, Busy(r) PROVE PlaceInv'
  BY <1>2, Leaving DEF Busy
<1>3. ASSUME NEW r \in Call, Reject(r) PROVE PlaceInv'
  BY <1>3, Leaving DEF Reject
<1>4. ASSUME NEW r \in Call, Persist(r) PROVE PlaceInv'
  BY <1>4, Leaving DEF Persist
<1>5. ASSUME NEW r \in Call, PostRefused(r) PROVE PlaceInv'
  BY <1>5, Leaving DEF PostRefused
<1>6. ASSUME NEW r \in Call, Undo(r) PROVE PlaceInv'
  BY <1>6, Leaving DEF Undo
<1>7. ASSUME NEW r \in Call, TaskRead(r) \/ TaskPasses(r) PROVE PlaceInv'
  BY <1>7, Leaving DEF TaskRead, TaskPasses
<1>8. ASSUME NEW r \in Call, TaskMark(r) PROVE PlaceInv'
  BY <1>8, Leaving DEF TaskMark
<1>9. ASSUME NEW r \in Call, TaskSlotEnds(r) PROVE PlaceInv'
  BY <1>9, Leaving DEF TaskSlotEnds
<1>10. DelTask \/ UNCHANGED vars => PlaceInv'
  BY Leaving DEF DelTask
<1>11. ASSUME NEW r \in Call, PersistFails(r) \/ UndoFails(r) PROVE PlaceInv'
  BY <1>11, Leaving DEF PersistFails, UndoFails, Ends
<1>12. ASSUME NEW r \in Call, Refuse(r) PROVE PlaceInv'
  BY <1>12, Leaving DEF Refuse, Ends
<1>13. ASSUME NEW r \in Call, TaskDies(r) PROVE PlaceInv'
  BY <1>13, Leaving DEF TaskDies, Ends
<1>14. ASSUME NEW r \in Call, Accept(r) PROVE PlaceInv'
  BY <1>14, Entering, Jobs DEF Accept
<1>15. ASSUME NEW r \in Call, Post(r) PROVE PlaceInv'
  <2>1. \A q \in Call : InExecutor(q)' => InExecutor(q)
    BY <1>15 DEF Post, Ends, InExecutor
  <2>2. \A q \in Call : InExecutor(q) => Of[q] # Of[r]
    BY <1>15, AdminAssumption DEF Post, PlaceInv
  <2>3. \A q \in Call : InExecutor(q) => taskQueue'[Of[q]] = q
    BY <1>15, <2>2, AdminAssumption DEF Post, PlaceInv, AdminTypeOK
  <2>4. \A i \in Instance : taskQueue'[i] # Null => Of[taskQueue'[i]] = i
    BY <1>15 DEF Post, PlaceInv, AdminTypeOK
  <2>5. running' \subseteq running /\ queue' = queue /\ UNCHANGED <<run, finished>>
    BY <1>15 DEF Post, Ends
  <2> QED BY <2>1, <2>3, <2>4, <2>5 DEF PlaceInv
<1>16. ASSUME NEW r \in Call, TaskEnds(r) PROVE PlaceInv'
  <2>1. ~InExecutor(r)'
    BY <1>16 DEF TaskEnds, Ends, InExecutor, PlaceInv
  <2>2. \A q \in Call : InExecutor(q)' => InExecutor(q) /\ finished'[q] = finished[q]
    BY <1>16, <2>1 DEF TaskEnds, Ends, InExecutor, AdminTypeOK
  <2>3. running' \subseteq running /\ queue' = queue /\ UNCHANGED <<taskQueue, run>>
    BY <1>16 DEF TaskEnds, Ends
  <2> QED BY <2>2, <2>3 DEF PlaceInv
<1>17. ASSUME NEW i \in Instance, Start(i) PROVE PlaceInv'
  <2> DEFINE r == taskQueue[i]
  <2>1. r \in Call
    BY <1>17 DEF Start, AdminTypeOK
  <2>2. ~InExecutor(r)
    BY <1>17, <2>1 DEF Start, PlaceInv
  <2>3. run' = [run EXCEPT ![r] = TRUE] /\ UNCHANGED <<taskQueue, finished>>
    BY <1>17 DEF Start
  <2>4. \A q \in Call : run[q] => run'[q]
    BY <2>3 DEF AdminTypeOK
  <2>5. CASE ~Accepts
    BY <1>17, <2>3, <2>4, <2>5 DEF Start, PlaceInv, InExecutor
  <2>6. CASE Accepts
    <3>1. Execute(Task(r)) /\ Task(r) \in Job
      BY <1>17, <2>1, <2>6, Jobs DEF Start
    <3>2. \A q \in Call : InExecutor(q)' => InExecutor(q) \/ q = r
      BY <2>1, <2>6, <3>1, Jobs, ExecutePlaces
    <3>3. taskQueue[Of[r]] = r /\ ~finished[r] /\ run'[r]
      BY <1>17, <2>1, <2>3 DEF Start, AdminTypeOK, PlaceInv
    <3>4. \A q \in Call : Task(r) # Task(q) \/ ~InExecutor(q)
      BY <2>1, <2>2, Jobs
    <3>5. \A q \in Call, n \in 1 .. Len(queue') :
            queue'[n] = Task(q) => Task(q) \notin running'
      BY <2>6, <3>1, <3>4, ExecutePlaces
    <3>6. \A q \in Call, m, n \in 1 .. Len(queue') :
            queue'[m] = Task(q) /\ queue'[n] = Task(q) => m = n
      BY <2>6, <3>1, <3>4, ExecutePlaces
    <3>7. \A q \in Call :
            InExecutor(q)' => taskQueue'[Of[q]] = q /\ run'[q] /\ ~finished'[q]
      BY <2>3, <2>4, <3>2, <3>3 DEF PlaceInv
    <3> QED BY <2>3, <3>5, <3>6, <3>7 DEF PlaceInv
  <2> QED BY <2>5, <2>6
<1>18. ASSUME NEW i \in Instance, Remove(i) PROVE PlaceInv'
  <2>1. \A q \in Call : InExecutor(q) => Of[q] # i
    BY <1>18 DEF Remove, PlaceInv
  <2>2. \A q \in Call : InExecutor(q) => taskQueue'[Of[q]] = q
    BY <1>18, <2>1, AdminAssumption DEF Remove, PlaceInv, AdminTypeOK
  <2>3. \A j \in Instance : taskQueue'[j] # Null => Of[taskQueue'[j]] = j
    BY <1>18 DEF Remove, PlaceInv, AdminTypeOK
  <2> QED BY <1>18, <2>2, <2>3 DEF Remove, PlaceInv, InExecutor
<1>19. CASE Dequeue
  <2>1. /\ Len(queue') = Len(queue) - 1 /\ Len(queue) \in Nat \ {0}
        /\ \A n \in 1 .. Len(queue') : n + 1 \in 1 .. Len(queue)
        /\ \A n \in 1 .. Len(queue') : queue'[n] = queue[n + 1]
        /\ 1 \in 1 .. Len(queue) /\ Head(queue) = queue[1]
    BY <1>19 DEF Dequeue, AdminTypeOK
  <2>2. running' = running \cup {queue[1]}
    BY <1>19, <2>1 DEF Dequeue
  <2>3. \A q \in Call : InExecutor(q)' => InExecutor(q)
    BY <2>1, <2>2 DEF InExecutor
  <2>4. \A q \in Call, n \in 1 .. Len(queue') :
          queue'[n] = Task(q) => Task(q) \notin running'
    <3> SUFFICES ASSUME NEW q \in Call, NEW n \in 1 .. Len(queue'),
                        queue'[n] = Task(q)
                 PROVE  Task(q) \notin running'
      OBVIOUS
    <3>1. queue[n + 1] = Task(q) /\ n + 1 \in 1 .. Len(queue) /\ n + 1 # 1
      BY <2>1
    <3>2. Task(q) \notin running /\ queue[1] # Task(q)
      BY <2>1, <3>1 DEF PlaceInv
    <3> QED BY <2>2, <3>2
  <2>5. \A q \in Call, m, n \in 1 .. Len(queue') :
          queue'[m] = Task(q) /\ queue'[n] = Task(q) => m = n
    <3> SUFFICES ASSUME NEW q \in Call, NEW m \in 1 .. Len(queue'),
                        NEW n \in 1 .. Len(queue'),
                        queue'[m] = Task(q), queue'[n] = Task(q)
                 PROVE  m = n
      OBVIOUS
    <3>1. m + 1 = n + 1
      BY <2>1 DEF PlaceInv
    <3> QED BY <3>1
  <2> QED BY <1>19, <2>3, <2>4, <2>5 DEF Dequeue, PlaceInv
<1>20. CASE Crash
  <2>1. running' = {Manage} /\ queue' = <<>>
    BY <1>20 DEF Crash
  <2>2. \A q \in Call : ~InExecutor(q)'
    BY <2>1, Jobs DEF InExecutor
  <2>3. \A i \in Instance : taskQueue'[i] = Null
    BY <1>20 DEF Crash
  <2> QED BY <2>1, <2>2, <2>3 DEF PlaceInv
<1> QED
  BY <1>1, <1>2, <1>3, <1>4, <1>5, <1>6, <1>7, <1>8, <1>9, <1>10, <1>11, <1>12, <1>13, <1>14, <1>15, <1>16, <1>17, <1>18, <1>19, <1>20
  DEF Next, JobStep, ManageStep

-----------------------------------------------------------------------------
\* A task that is in the executor once is one element of Places.
LEMMA PlacesOfOne == AdminTypeOK /\ PlaceInv => OneTaskPerInstance
<1> SUFFICES ASSUME AdminTypeOK, PlaceInv, NEW i \in Instance
             PROVE  Cardinality(Places(i)) <= 1
  BY DEF OneTaskPerInstance
<1> DEFINE Runs == {r \in Call : Of[r] = i /\ Task(r) \in running}
           Ns == {m \in 1 .. Len(queue) :
                    \E r \in Call : Of[r] = i /\ queue[m] = Task(r)}
           Waits == {<<n, queue[n]>> : n \in Ns}
<1>1. Places(i) = Runs \cup Waits
  BY DEF Places
<1>2. \A q, r \in Call :
        Of[q] = i /\ Of[r] = i /\ InExecutor(q) /\ InExecutor(r) => q = r
  BY DEF PlaceInv
<1>3. \A x, y \in Places(i) : x = y
  <2>1. \A x, y \in Runs : x = y
    BY <1>2 DEF InExecutor
  <2>2. \A m, n \in Ns : m = n
    <3> SUFFICES ASSUME NEW m \in Ns, NEW n \in Ns PROVE m = n
      OBVIOUS
    <3>1. PICK q \in Call : Of[q] = i /\ queue[m] = Task(q)
      OBVIOUS
    <3>2. PICK r \in Call : Of[r] = i /\ queue[n] = Task(r)
      OBVIOUS
    <3>3. q = r
      BY <1>2, <3>1, <3>2 DEF InExecutor
    <3> QED BY <3>1, <3>2, <3>3 DEF PlaceInv
  <2>3. \A r \in Runs, n \in Ns : FALSE
    <3> SUFFICES ASSUME NEW r \in Runs, NEW n \in Ns PROVE FALSE
      OBVIOUS
    <3>1. PICK q \in Call : Of[q] = i /\ queue[n] = Task(q)
      OBVIOUS
    <3>2. q = r
      BY <1>2, <3>1 DEF InExecutor
    <3> QED BY <3>1, <3>2 DEF PlaceInv
  <2> QED BY <1>1, <2>1, <2>2, <2>3
<1>4. CASE Places(i) = {}
  BY <1>4, FS_EmptySet
<1>5. CASE Places(i) # {}
  <2>1. PICK x \in Places(i) : TRUE
    BY <1>5
  <2>2. Places(i) = {x}
    BY <1>3, <2>1
  <2> QED BY <2>2, FS_Singleton
<1> QED BY <1>4, <1>5

-----------------------------------------------------------------------------
(* Whose records are whose.                                                *)

LEMMA MineTypes ==
  /\ \A r, q \in Call : Mine(r) = Mine(q) => r = q
  /\ \A r \in Call : Mine(r).status = "PENDING" /\ Mine(r) \in Record /\ Mine(r) # Null
<1>1. \A r \in Call : Mine(r).call = r /\ Mine(r).status = "PENDING" /\ Mine(r) \in Record
  BY DEF Mine, Record
<1> QED BY <1>1, AdminAssumption

\* A task at a slot is the posted one of its instance.
LEMMA AtSlotPosted ==
  ASSUME AdminTypeOK, PlaceInv, NEW r \in Call, AtSlot(r)
  PROVE  /\ taskQueue[Of[r]] = r /\ ~finished[r] /\ cur[r] \in SlotId
         /\ cur[r] \in Nat /\ cur[r] <= range[r][2] /\ Of[r] \in Instance
<1>1. cur[r] \in Nat /\ cur[r] <= range[r][2] /\ range[r][2] \in SlotId
  BY RangeTypes DEF AtSlot, AdminTypeOK
<1>2. cur[r] \in SlotId
  BY <1>1, AdminAssumption DEF SlotId
<1> QED BY <1>1, <1>2, RangeTypes DEF AtSlot, PlaceInv, InExecutor

\* A task at its slot writes the record that it holds, or moves on.
TaskWrites(q) ==
  (held[q] # Null /\ (TaskMark(q) \/ TaskSlotEnds(q))) \/ TaskPasses(q)

\* The four ways in which a record of an instance is written.
Persists(i, s) ==
  \E q \in Call : /\ Of[q] = i /\ Persist(q) /\ call[q] \in {"accepted", "failed"}
                  /\ s \in left[q] /\ records'[i][s] = Mine(q)
Undoes(i, s) ==
  \E q \in Call : /\ Of[q] = i /\ Undo(q) /\ call[q] = "undoing"
                  /\ records'[i][s] = Null
Works(i, s) ==
  \E q \in Call : /\ Of[q] = i /\ AtSlot(q) /\ s = cur[q] /\ TaskWrites(q)
                  /\ \A r \in Call : records'[i][s] # Mine(r)
Deletes(i, s) ==
  DelTask /\ records'[i][s] = Null /\ {r \in Call : Of[r] = i} \subseteq disturbed'

LEMMA RecordWrites ==
  ASSUME AdminTypeOK, PlaceInv, [Next]_vars, NEW i \in Instance, NEW s \in SlotId
  PROVE  \/ records'[i][s] = records[i][s]
         \/ Persists(i, s) \/ Undoes(i, s) \/ Works(i, s) \/ Deletes(i, s)
<1> USE DEF vars, poolVars, callVars, taskVars, historyVars
<1>1. ASSUME NEW q \in Call, Persist(q)
      PROVE  records'[i][s] = records[i][s] \/ Persists(i, s)
  <2>1. PICK t \in left[q] : SeesTo(q, t, Mine(q)) /\ Mine(q) \in Record \cup {Null}
    BY <1>1, PersistStep
  <2>2. \/ records'[i][s] = records[i][s]
        \/ i = Of[q] /\ records'[i][s] = Mine(q) /\ s \in left[q]
    BY <2>1, SeesRecords
  <2>3. call[q] \in {"accepted", "failed"}
    BY <1>1 DEF Persist
  <2> QED BY <1>1, <2>1, <2>2, <2>3 DEF Persists
<1>2. ASSUME NEW q \in Call, Undo(q)
      PROVE  records'[i][s] = records[i][s] \/ Undoes(i, s)
  <2>1. PICK t \in left[q] : SeesTo(q, t, Null)
    BY <1>2 DEF Undo
  <2>2. \/ records'[i][s] = records[i][s]
        \/ i = Of[q] /\ records'[i][s] = Null
    BY <2>1, SeesRecords
  <2>3. call[q] = "undoing"
    BY <1>2 DEF Undo
  <2> QED BY <1>2, <2>2, <2>3 DEF Undoes
<1>3. ASSUME NEW q \in Call, TaskMark(q)
      PROVE  records'[i][s] = records[i][s] \/ Works(i, s)
  <2>1. /\ AtSlot(q) /\ held[q] # Null /\ held[q] \in Record
        /\ SetRecord(q, cur[q], held'[q])
        /\ held'[q] = [held[q] EXCEPT !.status = "MIGRATE"]
    BY <1>3 DEF TaskMark, AdminTypeOK
  <2>2. cur[q] \in SlotId
    BY <2>1, AtSlotPosted
  <2>3. held'[q].status = "MIGRATE" /\ held'[q] \in Record
    BY <2>1 DEF Record
  <2>4. \A r \in Call : held'[q] # Mine(r)
    BY <2>3, MineTypes
  <2>5. \/ records'[i][s] = records[i][s]
        \/ i = Of[q] /\ s = cur[q] /\ records'[i][s] = held'[q]
    BY <2>1, <2>2, <2>3, SetStep
  <2> QED BY <1>3, <2>1, <2>4, <2>5 DEF Works, TaskWrites
<1>4. ASSUME NEW q \in Call, TaskSlotEnds(q) \/ TaskPasses(q)
      PROVE  records'[i][s] = records[i][s] \/ Works(i, s)
  <2>1. AtSlot(q) /\ TaskWrites(q) /\ (SetRecord(q, cur[q], Null) \/ MarkError(q))
    BY <1>4 DEF TaskSlotEnds, TaskPasses, TaskWrites
  <2>2. cur[q] \in SlotId
    BY <2>1, AtSlotPosted
  <2>3. \/ records'[i][s] = records[i][s]
        \/ /\ i = Of[q] /\ s = cur[q]
           /\ records'[i][s] = Null \/ records'[i][s].status = "ERROR"
    BY <2>1, <2>2, SetStep, MarkStep
  <2>4. records'[i][s] = Null \/ records'[i][s].status = "ERROR" =>
          \A r \in Call : records'[i][s] # Mine(r)
    BY MineTypes
  <2> QED BY <2>1, <2>3, <2>4 DEF Works
<1>5. CASE DelTask
  <2>1. PICK j \in Instance, t \in SlotId :
          /\ records' = [records EXCEPT ![j][t] = Null]
          /\ disturbed' = disturbed \cup {r \in Call : Of[r] = j}
    BY <1>5 DEF DelTask
  <2>2. records'[i][s] = IF i = j /\ s = t THEN Null ELSE records[i][s]
    BY <2>1 DEF AdminTypeOK
  <2> QED BY <1>5, <2>1, <2>2 DEF Deletes
<1>6. ASSUME NEW q \in Call,
             \/ Check(q) \/ Busy(q) \/ Accept(q) \/ Reject(q) \/ Post(q)
             \/ PostRefused(q) \/ Refuse(q) \/ PersistFails(q) \/ UndoFails(q)
             \/ TaskRead(q) \/ TaskEnds(q) \/ TaskDies(q)
      PROVE  records' = records
  BY <1>6 DEF Check, Busy, Accept, Reject, Post, PostRefused, Refuse, PersistFails,
              UndoFails, TaskRead, TaskEnds, TaskDies
<1>7. ASSUME NEW j \in Instance, ManageStep(j) PROVE records' = records
  BY <1>7 DEF ManageStep, Start, Remove
<1>8. Dequeue \/ Crash \/ UNCHANGED vars => records' = records
  BY DEF Dequeue, Crash
<1> QED BY <1>1, <1>2, <1>3, <1>4, <1>5, <1>6, <1>7, <1>8 DEF Next, JobStep

-----------------------------------------------------------------------------
\* A step that puts nothing in flight and posts nothing.
LEMMA AloneQuiet ==
  ASSUME Alone, NoTask, disturbed \subseteq disturbed',
         \A q \in Call : call'[q] \in InFlight => call[q] \in InFlight,
         \A r \in Call : taskQueue'[Of[r]] \in {taskQueue[Of[r]], Null},
         Null \notin Call
  PROVE  Alone' /\ NoTask'
<1>1. Alone'
  <2> SUFFICES ASSUME NEW r \in Call, r \notin disturbed',
                      call'[r] \in InFlight \/ taskQueue'[Of[r]] = r,
                      NEW q \in Others(r)
               PROVE  call'[q] \notin InFlight
    BY DEF Alone, Others
  <2>1. q \in Call
    BY DEF Others
  <2>2. call[r] \in InFlight \/ taskQueue[Of[r]] = r
    OBVIOUS
  <2>3. call[q] \notin InFlight
    BY <2>2 DEF Alone
  <2> QED BY <2>1, <2>3
<1>2. NoTask'
  BY DEF NoTask
<1> QED BY <1>1, <1>2

LEMMA AloneCheck ==
  ASSUME AdminTypeOK, Alone, NoTask, NEW q \in Call, Check(q)
  PROVE  Alone' /\ NoTask'
<1> DEFINE rivals == {p \in Others(q) : call[p] \in InFlight}
<1>1. /\ call[q] = "new" /\ taskQueue[Of[q]] = Null /\ taskQueue' = taskQueue
      /\ \A p \in Call : call'[p] = IF p = q THEN "checked" ELSE call[p]
  BY DEF Check, AdminTypeOK
<1>2. disturbed' = disturbed \cup rivals \cup (IF rivals = {} THEN {} ELSE {q})
  BY DEF Check
<1>3. Alone'
  <2> SUFFICES ASSUME NEW r \in Call, r \notin disturbed',
                      call'[r] \in InFlight \/ taskQueue[Of[r]] = r,
                      NEW p \in Others(r)
               PROVE  call'[p] \notin InFlight
    BY <1>1 DEF Alone, Others
  <2>1. p \in Call /\ p # r /\ Of[p] = Of[r]
    BY DEF Others
  <2>2. CASE r = q
    <3>1. rivals = {}
      BY <1>2, <2>2
    <3> QED BY <1>1, <2>1, <2>2, <3>1
  <2>3. CASE r # q
    <3>1. call[p] \notin InFlight
      BY <1>1, <1>2, <2>3 DEF Alone
    <3>2. p # q
      <4> SUFFICES ASSUME p = q PROVE FALSE
        OBVIOUS
      <4>1. taskQueue[Of[r]] # r
        BY <1>1, <2>1, AdminAssumption
      <4>2. r \in rivals
        BY <1>1, <2>1, <2>3, <4>1 DEF Others
      <4> QED BY <1>2, <4>2
    <3> QED BY <1>1, <2>1, <3>1, <3>2
  <2> QED BY <2>2, <2>3
<1>4. NoTask'
  BY <1>1, <1>2 DEF NoTask
<1> QED BY <1>3, <1>4

LEMMA AlonePost ==
  ASSUME AdminTypeOK, Alone, NoTask, NEW q \in Call, Post(q)
  PROVE  Alone' /\ NoTask'
<1>1. /\ call[q] \in InFlight /\ disturbed' = disturbed
      /\ \A p \in Call : call'[p] = IF p = q THEN "posted" ELSE call[p]
      /\ \A p \in Call :
           taskQueue'[Of[p]] = IF Of[p] = Of[q] THEN q ELSE taskQueue[Of[p]]
  <2>1. \A p \in Call : Of[p] \in Instance
    BY RangeTypes
  <2> QED BY <2>1 DEF Post, historyVars, AdminTypeOK, InFlight
<1>2. "posted" \notin InFlight
  BY DEF InFlight
<1>3. Alone'
  <2> SUFFICES ASSUME NEW r \in Call, r \notin disturbed,
                      call'[r] \in InFlight \/ taskQueue'[Of[r]] = r,
                      NEW p \in Others(r)
               PROVE  call'[p] \notin InFlight
    BY <1>1 DEF Alone, Others
  <2>1. call[r] \in InFlight \/ taskQueue[Of[r]] = r
    BY <1>1, <1>2
  <2>2. call[p] \notin InFlight /\ p \in Call
    BY <2>1 DEF Alone, Others
  <2> QED BY <1>1, <1>2, <2>2
<1>4. NoTask'
  <2> SUFFICES ASSUME NEW r \in Call, r \notin disturbed, call'[r] \in InFlight
               PROVE  taskQueue'[Of[r]] = Null
    BY <1>1 DEF NoTask
  <2>1. r # q /\ call[r] \in InFlight
    BY <1>1, <1>2
  <2>2. Of[r] # Of[q]
    BY <1>1, <2>1 DEF Alone, Others
  <2> QED BY <1>1, <2>1, <2>2 DEF NoTask
<1> QED BY <1>3, <1>4

LEMMA StepAlone ==
  ASSUME AdminTypeOK, Alone, NoTask, [Next]_vars
  PROVE  Alone' /\ NoTask'
<1> USE DEF vars, poolVars, callVars, taskVars, historyVars
<1>1. Null \notin Call /\ \A r \in Call : Of[r] \in Instance
  BY AdminAssumption
<1>2. ASSUME NEW q \in Call, Check(q) \/ Post(q) PROVE Alone' /\ NoTask'
  BY <1>2, AloneCheck, AlonePost
<1>3. ASSUME NEW q \in Call, Busy(q) \/ Accept(q) \/ Reject(q) \/ PersistFails(q)
                              \/ UndoFails(q) \/ PostRefused(q) \/ Refuse(q)
      PROVE  Alone' /\ NoTask'
  <2>1. /\ disturbed' = disturbed /\ taskQueue' = taskQueue
        /\ \A p \in Call : p # q => call'[p] = call[p]
    BY <1>3 DEF Busy, Accept, Reject, PersistFails, UndoFails, PostRefused, Refuse,
                AdminTypeOK
  <2>2. call'[q] \in InFlight => call[q] \in InFlight
    BY <1>3 DEF Busy, Accept, Reject, PersistFails, UndoFails, PostRefused, Refuse,
                AdminTypeOK, InFlight
  <2> QED BY <1>1, <2>1, <2>2, AloneQuiet
<1>4. ASSUME NEW q \in Call, \/ Persist(q) \/ Undo(q) \/ TaskPasses(q) \/ TaskRead(q)
                             \/ TaskMark(q) \/ TaskSlotEnds(q) \/ TaskEnds(q)
                             \/ TaskDies(q)
      PROVE  Alone' /\ NoTask'
  <2>1. UNCHANGED <<disturbed, taskQueue, call>>
    BY <1>4 DEF Persist, Undo, TaskPasses, TaskRead, TaskMark, TaskSlotEnds, TaskEnds,
                TaskDies
  <2> QED BY <1>1, <2>1, AloneQuiet
<1>5. ASSUME NEW i \in Instance, ManageStep(i) PROVE Alone' /\ NoTask'
  <2>1. UNCHANGED <<disturbed, call>>
    BY <1>5 DEF ManageStep, Start, Remove
  <2>2. \A j \in Instance : taskQueue'[j] \in {taskQueue[j], Null}
    BY <1>5 DEF ManageStep, Start, Remove, AdminTypeOK
  <2> QED BY <1>1, <2>1, <2>2, AloneQuiet
<1>6. CASE Crash
  <2>1. disturbed' = disturbed /\ \A j \in Instance : taskQueue'[j] = Null
    BY <1>6 DEF Crash
  <2>2. \A q \in Call : call'[q] \in InFlight => call[q] \in InFlight
    BY <1>6 DEF Crash, InFlight
  <2> QED BY <1>1, <2>1, <2>2, AloneQuiet
<1>7. CASE Dequeue \/ DelTask \/ UNCHANGED vars
  <2>1. UNCHANGED <<taskQueue, call>> /\ disturbed \subseteq disturbed'
    BY <1>7 DEF Dequeue, DelTask
  <2> QED BY <1>1, <2>1, AloneQuiet
<1> QED BY <1>2, <1>3, <1>4, <1>5, <1>6, <1>7 DEF Next, JobStep

-----------------------------------------------------------------------------
\* Nobody else writes to the records of a call that nobody disturbed.
LEMMA OthersAway ==
  ASSUME AdminTypeOK, PlaceInv, Alone, NoTask, [Next]_vars,
         NEW r \in Call, r \notin disturbed', r \notin disturbed,
         NEW s \in SlotId, records[Of[r]][s] = Mine(r)
  PROVE  /\ call[r] \in {"checked", "accepted"} => records'[Of[r]][s] = Mine(r)
         /\ taskQueue[Of[r]] = r =>
              \/ records'[Of[r]][s] = Mine(r)
              \/ s = cur[r] /\ TaskWrites(r)
<1>1. Of[r] \in Instance
  BY RangeTypes
<1>2. CASE records'[Of[r]][s] = records[Of[r]][s]
  BY <1>2
<1>3. CASE Persists(Of[r], s)
  <2>1. PICK q \in Call : /\ Of[q] = Of[r] /\ call[q] \in {"accepted", "failed"}
                          /\ records'[Of[r]][s] = Mine(q)
    BY <1>3 DEF Persists
  <2>2. call[q] \in InFlight
    BY <2>1 DEF InFlight
  <2>3. CASE q # r
    BY <2>1, <2>2, <2>3 DEF Alone, Others, InFlight
  <2>4. CASE q = r
    BY <2>1, <2>4
  <2> QED BY <2>3, <2>4
<1>4. CASE Undoes(Of[r], s)
  <2>1. PICK q \in Call : Of[q] = Of[r] /\ call[q] = "undoing"
    BY <1>4 DEF Undoes
  <2>2. CASE q # r
    BY <2>1, <2>2 DEF Alone, Others, InFlight
  <2>3. CASE q = r
    <3>1. taskQueue[Of[r]] = Null
      BY <2>1, <2>3 DEF NoTask, InFlight
    <3> QED BY <2>1, <2>3, <3>1, AdminAssumption
  <2> QED BY <2>2, <2>3
<1>5. CASE Works(Of[r], s)
  <2>1. PICK q \in Call : Of[q] = Of[r] /\ AtSlot(q) /\ s = cur[q] /\ TaskWrites(q)
    BY <1>5 DEF Works
  <2>2. taskQueue[Of[r]] = q
    BY <2>1, AtSlotPosted
  <2>3. call[r] \notin {"checked", "accepted"}
    BY <2>2, AdminAssumption DEF NoTask, InFlight
  <2> QED BY <2>1, <2>2, <2>3
<1>6. CASE Deletes(Of[r], s)
  BY <1>6 DEF Deletes
<1> QED BY <1>1, <1>2, <1>3, <1>4, <1>5, <1>6, RecordWrites

\* How far a call has come with its records, a step later.
LEMMA CallStep ==
  ASSUME AdminTypeOK, [Next]_vars, NEW r \in Call
  PROVE  /\ disturbed \subseteq disturbed'
         /\ \/ Check(r)
            \/ /\ range'[r] = range[r]
               /\ call'[r] \in {"checked", "accepted"} =>
                    /\ call[r] \in {"checked", "accepted"}
                    /\ left'[r] = left[r] \/ Persist(r)
<1> USE DEF vars, poolVars, callVars, taskVars, historyVars
<1>1. ASSUME NEW q \in Call, Check(q) \/ Busy(q) \/ Accept(q) \/ Reject(q)
      PROVE  /\ disturbed \subseteq disturbed'
             /\ \/ Check(r)
                \/ /\ range'[r] = range[r] /\ left'[r] = left[r]
                   /\ call'[r] \in {"checked", "accepted"} =>
                        call[r] \in {"checked", "accepted"}
  BY <1>1 DEF Check, Busy, Accept, Reject, AdminTypeOK
<1>2. ASSUME NEW q \in Call, \/ PersistFails(q) \/ UndoFails(q) \/ Post(q)
                             \/ PostRefused(q) \/ Refuse(q)
      PROVE  /\ disturbed' = disturbed /\ range'[r] = range[r]
             /\ call'[r] \in {"checked", "accepted"} =>
                  /\ call[r] \in {"checked", "accepted"} /\ left'[r] = left[r]
  BY <1>2 DEF PersistFails, UndoFails, Post, PostRefused, Refuse, AdminTypeOK
<1>3. ASSUME NEW q \in Call, Persist(q) \/ Undo(q)
      PROVE  /\ UNCHANGED <<disturbed, range, call>>
             /\ left'[r] = left[r] \/ Persist(r) \/ call[r] = "undoing"
  <2>1. left' = [left EXCEPT ![q] = left'[q]]
    BY <1>3 DEF Persist, Undo, SeesTo, AdminTypeOK
  <2>2. Undo(q) => call[q] = "undoing"
    BY DEF Undo
  <2> QED BY <1>3, <2>1, <2>2 DEF Persist, Undo, AdminTypeOK
<1>4. ASSUME NEW q \in Call, \/ TaskPasses(q) \/ TaskRead(q) \/ TaskMark(q)
                             \/ TaskSlotEnds(q) \/ TaskEnds(q) \/ TaskDies(q)
      PROVE  UNCHANGED <<disturbed, range, call, left>>
  BY <1>4 DEF TaskPasses, TaskRead, TaskMark, TaskSlotEnds, TaskEnds, TaskDies
<1>5. ASSUME NEW i \in Instance, ManageStep(i)
      PROVE  UNCHANGED <<disturbed, range, call, left>>
  BY <1>5 DEF ManageStep, Start, Remove
<1>6. CASE Dequeue \/ DelTask \/ UNCHANGED vars
  BY <1>6 DEF Dequeue, DelTask
<1>7. CASE Crash
  BY <1>7 DEF Crash, InFlight
<1> QED BY <1>1, <1>2, <1>3, <1>4, <1>5, <1>6, <1>7 DEF Next, JobStep

\* What was lost is not forgotten.
LEMMA LostStays == AdminTypeOK /\ [Next]_vars => lost \subseteq lost'
<1> SUFFICES ASSUME AdminTypeOK, [Next]_vars PROVE lost \subseteq lost'
  OBVIOUS
<1> USE DEF vars, historyVars
<1>1. ASSUME NEW q \in Call, Persist(q) \/ Undo(q) PROVE lost \subseteq lost'
  BY <1>1 DEF Persist, Undo, SeesTo
<1>2. ASSUME NEW q \in Call, \/ Check(q) \/ Busy(q) \/ Accept(q) \/ Reject(q)
                             \/ PersistFails(q) \/ UndoFails(q) \/ Post(q)
                             \/ PostRefused(q) \/ Refuse(q)
      PROVE  lost' = lost
  BY <1>2 DEF Check, Busy, Accept, Reject, PersistFails, UndoFails, Post, PostRefused,
              Refuse
<1>3. ASSUME NEW q \in Call, \/ TaskPasses(q) \/ TaskRead(q) \/ TaskMark(q)
                             \/ TaskSlotEnds(q) \/ TaskEnds(q) \/ TaskDies(q)
      PROVE  lost' = lost
  BY <1>3 DEF TaskPasses, TaskRead, TaskMark, TaskSlotEnds, TaskEnds, TaskDies
<1>4. ASSUME NEW i \in Instance, ManageStep(i) PROVE lost' = lost
  BY <1>4 DEF ManageStep, Start, Remove
<1>5. Dequeue \/ DelTask \/ Crash \/ UNCHANGED vars => lost' = lost
  BY DEF Dequeue, DelTask, Crash
<1> QED BY <1>1, <1>2, <1>3, <1>4, <1>5 DEF Next, JobStep

LEMMA StepPersisted ==
  ASSUME AdminTypeOK, PlaceInv, OwnInv, [Next]_vars
  PROVE  Persisted'
<1> SUFFICES ASSUME NEW r \in Call, r \notin disturbed',
                    call'[r] \in {"checked", "accepted"},
                    NEW s \in Slots(r)' \ left'[r]
             PROVE  Own(r, s)'
  BY DEF Persisted
<1>1. CASE Check(r)
  <2>1. Slots(r)' = left'[r]
    BY <1>1 DEF Check, Slots, AdminTypeOK
  <2> QED BY <2>1
<1>2. CASE ~Check(r)
  <2>1. /\ range'[r] = range[r] /\ r \notin disturbed
        /\ call[r] \in {"checked", "accepted"}
        /\ left'[r] = left[r] \/ Persist(r)
    BY <1>2, CallStep
  <2>2. s \in Slots(r) /\ s \in SlotId
    BY <2>1, RangeTypes DEF Slots
  <2>3. CASE s \notin left[r]
    <3>1. Own(r, s)
      BY <2>1, <2>2, <2>3 DEF OwnInv, Persisted
    <3>2. records[Of[r]][s] = Mine(r) => records'[Of[r]][s] = Mine(r)
      BY <2>1, <2>2, OthersAway DEF OwnInv
    <3> QED BY <3>1, <3>2, LostStays DEF Own, Mine
  <2>4. CASE s \in left[r]
    <3>1. Persist(r)
      BY <2>1, <2>4
    <3>2. PICK t \in left[r] :
            SeesTo(r, t, Mine(r)) /\ Mine(r) \in Record \cup {Null}
      BY <3>1, PersistStep
    <3>3. /\ left' = [left EXCEPT ![r] = @ \ {t}]
          /\ records'[Of[r]][t] = Mine(r) \/ <<r, t>> \in lost'
      BY <3>2, SeesStep
    <3>4. s = t
      BY <2>4, <3>3 DEF AdminTypeOK
    <3> QED BY <3>3, <3>4 DEF Own, Mine
  <2> QED BY <2>3, <2>4
<1> QED BY <1>1, <1>2

\* How far a task has come, a step later.
LEMMA TaskStep ==
  ASSUME AdminTypeOK, [Next]_vars, NEW r \in Call,
         taskQueue'[Of[r]] = r, ~finished'[r]
  PROVE  \/ Post(r)
         \/ /\ taskQueue[Of[r]] = r /\ ~finished[r]
            /\ \/ UNCHANGED <<cur[r], held[r]>>
               \/ cur'[r] = cur[r] + 1
               \/ cur'[r] = cur[r] /\ held'[r] # Null
<1> USE DEF vars, poolVars, callVars, taskVars, historyVars
<1>0. Of[r] \in Instance /\ r # Null
  BY RangeTypes, AdminAssumption
<1>1. ASSUME NEW q \in Call, \/ Check(q) \/ Busy(q) \/ Accept(q) \/ Reject(q)
                             \/ PersistFails(q) \/ UndoFails(q) \/ PostRefused(q)
                             \/ Persist(q) \/ Undo(q) \/ Refuse(q) \/ TaskDies(q)
      PROVE  UNCHANGED <<taskQueue, finished, cur, held>>
  BY <1>1 DEF Check, Busy, Accept, Reject, PersistFails, UndoFails, PostRefused, Persist,
              Undo, Refuse, TaskDies
<1>2. ASSUME NEW q \in Call, Post(q)
      PROVE  \/ Post(r)
             \/ taskQueue[Of[r]] = r /\ ~finished[r] /\ UNCHANGED <<cur[r], held[r]>>
  BY <1>0, <1>2 DEF Post, AdminTypeOK
<1>3. ASSUME NEW q \in Call, TaskRead(q)
      PROVE  /\ UNCHANGED <<taskQueue, finished>>
             /\ \/ UNCHANGED <<cur[r], held[r]>>
                \/ cur'[r] = cur[r] /\ held'[r] # Null
  BY <1>3 DEF TaskRead, AdminTypeOK
<1>4. ASSUME NEW q \in Call, TaskMark(q)
      PROVE  /\ UNCHANGED <<taskQueue, finished, cur>>
             /\ held'[r] = held[r] \/ held'[r] # Null
  <2>1. /\ UNCHANGED <<taskQueue, finished, cur>>
        /\ held' = [held EXCEPT ![q].status = "MIGRATE"]
        /\ held[q] \in Record
    BY <1>4 DEF TaskMark, AdminTypeOK
  <2>2. [held[q] EXCEPT !.status = "MIGRATE"] \in Record
    BY <2>1, RecordTypes
  <2>3. q = r => held'[r] \in Record
    BY <2>1, <2>2 DEF AdminTypeOK
  <2>4. q # r => held'[r] = held[r]
    BY <2>1 DEF AdminTypeOK
  <2> QED BY <2>1, <2>3, <2>4, AdminAssumption
<1>5. ASSUME NEW q \in Call, TaskSlotEnds(q) \/ TaskPasses(q)
      PROVE  /\ UNCHANGED <<taskQueue, finished>>
             /\ UNCHANGED <<cur[r], held[r]>> \/ cur'[r] = cur[r] + 1
  BY <1>5 DEF TaskSlotEnds, TaskPasses, AdminTypeOK
<1>6. ASSUME NEW q \in Call, TaskEnds(q)
      PROVE  UNCHANGED <<taskQueue, cur, held>> /\ ~finished[r]
  BY <1>6 DEF TaskEnds, AdminTypeOK
<1>7. ASSUME NEW i \in Instance, ManageStep(i)
      PROVE  UNCHANGED <<finished, cur, held>> /\ taskQueue[Of[r]] = r
  BY <1>0, <1>7 DEF ManageStep, Start, Remove, AdminTypeOK
<1>8. CASE Dequeue \/ DelTask \/ UNCHANGED vars
  BY <1>8 DEF Dequeue, DelTask
<1>9. CASE Crash
  BY <1>0, <1>9 DEF Crash
<1> QED BY <1>1, <1>2, <1>3, <1>4, <1>5, <1>6, <1>7, <1>8, <1>9 DEF Next, JobStep

LEMMA StepUnspoilt ==
  ASSUME AdminTypeOK, PlaceInv, OwnInv, [Next]_vars
  PROVE  Unspoilt'
<1> SUFFICES ASSUME NEW r \in Call, taskQueue'[Of[r]] = r, ~finished'[r]
             PROVE  /\ cur'[r] >= range'[r][1]
                    /\ r \notin disturbed' =>
                         \A s \in SlotId : Ahead(r, s)' => Own(r, s)'
  BY DEF Unspoilt
<1>1. Of[r] \in Instance /\ r # Null /\ cur[r] \in Int /\ range[r][1] \in Int
  <2>1. Of[r] \in Instance /\ range[r][1] \in SlotId
    BY RangeTypes
  <2>2. r # Null /\ cur[r] \in 0 .. (MaxSlot + 1)
    BY AdminAssumption DEF AdminTypeOK
  <2> QED BY <2>1, <2>2, AdminAssumption DEF SlotId
<1>2. CASE Post(r)
  <2>1. /\ UNCHANGED <<range, records, disturbed>> /\ cur'[r] = range[r][1]
        /\ call[r] = "accepted" /\ left[r] = {}
    BY <1>2 DEF Post, historyVars, AdminTypeOK
  <2>2. ASSUME r \notin disturbed', NEW s \in SlotId, Ahead(r, s)'
        PROVE  Own(r, s)'
    <3>1. s \in Slots(r) \ left[r]
      BY <2>1, <2>2 DEF Ahead, Slots
    <3>2. Own(r, s)
      BY <2>1, <2>2, <3>1 DEF OwnInv, Persisted
    <3> QED BY <2>1, <3>2, LostStays DEF Own, Mine
  <2> QED BY <1>1, <2>1, <2>2
<1>3. CASE ~Post(r)
  <2>1. /\ taskQueue[Of[r]] = r /\ ~finished[r]
        /\ \/ UNCHANGED <<cur[r], held[r]>>
           \/ cur'[r] = cur[r] + 1
           \/ cur'[r] = cur[r] /\ held'[r] # Null
    BY <1>3, TaskStep
  <2>2. range'[r] = range[r] /\ disturbed \subseteq disturbed'
    <3>1. ~Check(r)
      BY <1>1, <2>1 DEF Check
    <3> QED BY <3>1, CallStep
  <2>3. cur[r] >= range[r][1]
    BY <2>1 DEF OwnInv, Unspoilt
  <2>4. ASSUME r \notin disturbed', NEW s \in SlotId, Ahead(r, s)'
        PROVE  Own(r, s)'
    <3>1. s \in Int
      BY AdminAssumption DEF SlotId
    <3>2. Ahead(r, s)
      BY <1>1, <2>1, <2>2, <2>4, <3>1 DEF Ahead, Slots
    <3>3. Own(r, s)
      BY <2>1, <2>2, <2>4, <3>2 DEF OwnInv, Unspoilt
    <3>4. ~(s = cur[r] /\ TaskWrites(r))
      <4> SUFFICES ASSUME s = cur[r], TaskPasses(r) PROVE FALSE
        BY <3>2 DEF Ahead, TaskWrites
      <4>1. cur'[r] = cur[r] + 1
        BY DEF TaskPasses, AdminTypeOK
      <4> QED BY <1>1, <2>4, <4>1 DEF Ahead
    <3>5. records[Of[r]][s] = Mine(r) => records'[Of[r]][s] = Mine(r)
      BY <2>1, <2>2, <2>4, <3>4, OthersAway DEF OwnInv
    <3> QED BY <3>3, <3>5, LostStays DEF Own, Mine
  <2> QED BY <1>1, <2>1, <2>2, <2>3, <2>4
<1> QED BY <1>2, <1>3

-----------------------------------------------------------------------------
\* Nobody but r writes a record as r persists it.
LEMMA OnlyMine ==
  ASSUME AdminTypeOK, PlaceInv, [Next]_vars, NEW r \in Call, NEW s \in SlotId,
         records'[Of[r]][s] = Mine(r)
  PROVE  \/ records[Of[r]][s] = Mine(r)
         \/ Persist(r) /\ s \in left[r] /\ call[r] \in {"accepted", "failed"}
<1>1. Of[r] \in Instance /\ Mine(r) # Null
  BY RangeTypes, MineTypes
<1>2. CASE Persists(Of[r], s)
  <2>1. PICK q \in Call : /\ Persist(q) /\ call[q] \in {"accepted", "failed"}
                          /\ s \in left[q] /\ records'[Of[r]][s] = Mine(q)
    BY <1>2 DEF Persists
  <2>2. q = r
    BY <2>1, MineTypes
  <2> QED BY <2>1, <2>2
<1>3. ~Undoes(Of[r], s) /\ ~Works(Of[r], s) /\ ~Deletes(Of[r], s)
  BY <1>1 DEF Undoes, Works, Deletes
<1> QED BY <1>1, <1>2, <1>3, RecordWrites

\* How far a call has come, a step later, seen from what it leaves.
LEMMA LeaveStep ==
  ASSUME AdminTypeOK, [Next]_vars, NEW r \in Call
  PROVE  /\ call'[r] = "new" => call[r] = "new"
         /\ call[r] = "busy" => call'[r] = "busy"
         /\ \/ Check(r)
            \/ range'[r] = range[r] /\ (call[r] = "new" => call'[r] \in {"new", "busy"})
         /\ Check(r) \/ PostRefused(r) \/ left'[r] \subseteq left[r]
         /\ call'[r] = "undoing" =>
              \/ PostRefused(r)
              \/ /\ call[r] = "undoing"
                 /\ \/ left'[r] = left[r]
                    \/ \E t \in left[r] :
                         /\ left'[r] = left[r] \ {t}
                         /\ records'[Of[r]][t] = Null \/ <<r, t>> \in lost'
         /\ call'[r] = "refused" =>
              call[r] = "refused" \/ (call[r] = "undoing" /\ left[r] = {})
<1> USE DEF vars, poolVars, callVars, taskVars, historyVars
<1>0. Of[r] \in Instance
  BY RangeTypes
<1>1. ASSUME NEW q \in Call, Check(q) \/ Busy(q) \/ Accept(q) \/ Reject(q)
      PROVE  /\ call'[r] = "new" => call[r] = "new"
             /\ call[r] = "busy" => call'[r] = "busy"
             /\ \/ Check(r)
                \/ /\ range'[r] = range[r] /\ left'[r] = left[r]
                   /\ call[r] = "new" => call'[r] \in {"new", "busy"}
             /\ call'[r] = "undoing" => call[r] = "undoing" /\ left'[r] = left[r]
             /\ call'[r] = "refused" => call[r] = "refused"
  BY <1>1 DEF Check, Busy, Accept, Reject, AdminTypeOK
<1>2. ASSUME NEW q \in Call, \/ PersistFails(q) \/ UndoFails(q) \/ Post(q)
                             \/ PostRefused(q) \/ Refuse(q) \/ Persist(q)
      PROVE  /\ call'[r] = "new" => call[r] = "new"
             /\ call[r] = "busy" => call'[r] = "busy"
             /\ range'[r] = range[r] /\ (call[r] = "new" => call'[r] = "new")
             /\ PostRefused(r) \/ left'[r] \subseteq left[r]
             /\ call'[r] = "undoing" =>
                  PostRefused(r) \/ (call[r] = "undoing" /\ left'[r] = left[r])
             /\ call'[r] = "refused" =>
                  call[r] = "refused" \/ (call[r] = "undoing" /\ left[r] = {})
  <2>1. CASE PersistFails(q)
    BY <2>1 DEF PersistFails, AdminTypeOK
  <2>2. CASE UndoFails(q)
    BY <2>2 DEF UndoFails, AdminTypeOK
  <2>3. CASE Post(q)
    BY <2>3 DEF Post, AdminTypeOK
  <2>4. CASE PostRefused(q)
    BY <2>4 DEF PostRefused, AdminTypeOK
  <2>5. CASE Refuse(q)
    BY <2>5 DEF Refuse, AdminTypeOK
  <2>6. CASE Persist(q)
    <3>1. PICK s \in left[q] : left' = [left EXCEPT ![q] = @ \ {s}]
      BY <2>6 DEF Persist, SeesTo
    <3> QED BY <2>6, <3>1 DEF Persist, AdminTypeOK
  <2> QED BY <1>2, <2>1, <2>2, <2>3, <2>4, <2>5, <2>6
<1>3. ASSUME NEW q \in Call, Undo(q)
      PROVE  /\ call' = call /\ range' = range /\ left'[r] \subseteq left[r]
             /\ \/ left'[r] = left[r]
                \/ \E t \in left[r] :
                     /\ left'[r] = left[r] \ {t}
                     /\ records'[Of[r]][t] = Null \/ <<r, t>> \in lost'
  <2>1. PICK t \in left[q] : SeesTo(q, t, Null)
    BY <1>3 DEF Undo
  <2>2. /\ left' = [left EXCEPT ![q] = @ \ {t}]
        /\ records'[Of[q]][t] = Null \/ <<q, t>> \in lost'
    BY <2>1, SeesStep
  <2>3. q = r => /\ left'[r] = left[r] \ {t}
                 /\ records'[Of[r]][t] = Null \/ <<r, t>> \in lost'
    BY <2>2 DEF AdminTypeOK
  <2>4. q # r => left'[r] = left[r]
    BY <2>2 DEF AdminTypeOK
  <2> QED BY <1>3, <2>1, <2>3, <2>4 DEF Undo
<1>4. ASSUME NEW q \in Call, \/ TaskPasses(q) \/ TaskRead(q) \/ TaskMark(q)
                             \/ TaskSlotEnds(q) \/ TaskEnds(q) \/ TaskDies(q)
      PROVE  UNCHANGED <<range, call, left>>
  BY <1>4 DEF TaskPasses, TaskRead, TaskMark, TaskSlotEnds, TaskEnds, TaskDies
<1>5. ASSUME NEW i \in Instance, ManageStep(i)
      PROVE  UNCHANGED <<range, call, left>>
  BY <1>5 DEF ManageStep, Start, Remove
<1>6. CASE Dequeue \/ DelTask \/ UNCHANGED vars
  BY <1>6 DEF Dequeue, DelTask
<1>7. CASE Crash
  <2>1. call'[r] = IF call[r] \in InFlight THEN "lost" ELSE call[r]
    BY <1>7 DEF Crash
  <2> QED BY <1>7, <2>1 DEF Crash, InFlight
<1> QED BY <1>1, <1>2, <1>3, <1>4, <1>5, <1>6, <1>7 DEF Next, JobStep

LEMMA StepLeft ==
  ASSUME AdminTypeOK, PlaceInv, LeftInv, [Next]_vars
  PROVE  LeftInv'
<1> SUFFICES ASSUME NEW r \in Call
             PROVE  /\ call'[r] \notin {"new", "busy"} => left'[r] \subseteq Slots(r)'
                    /\ \A s \in SlotId :
                         records'[Of[r]][s] = Mine(r) =>
                           /\ s \in Slots(r)' /\ call'[r] # "new"
                           /\ call'[r] = "undoing" => s \in left'[r] \/ <<r, s>> \in lost'
                           /\ call'[r] = "refused" => <<r, s>> \in lost'
  BY DEF LeftInv, Mine
<1>1. CASE Check(r)
  <2>1. /\ Slots(r)' = left'[r] /\ call[r] = "new" /\ call'[r] = "checked"
        /\ records' = records
    BY <1>1 DEF Check, Slots, AdminTypeOK
  <2> QED BY <2>1 DEF LeftInv
<1>2. CASE ~Check(r)
  <2>1. /\ range'[r] = range[r] /\ Slots(r)' = Slots(r)
        /\ call'[r] = "new" => call[r] = "new"
        /\ call[r] = "busy" => call'[r] = "busy"
        /\ call[r] = "new" => call'[r] \in {"new", "busy"}
        /\ PostRefused(r) \/ left'[r] \subseteq left[r]
    BY <1>2, LeaveStep DEF Slots
  <2>2. PostRefused(r) =>
          left'[r] = Slots(r) /\ call[r] = "accepted" /\ records' = records
    BY DEF PostRefused, AdminTypeOK
  <2>3. call'[r] \notin {"new", "busy"} => left'[r] \subseteq Slots(r)'
    BY <2>1, <2>2 DEF LeftInv
  <2>4. ASSUME NEW s \in SlotId, records'[Of[r]][s] = Mine(r)
        PROVE  /\ s \in Slots(r)' /\ call'[r] # "new"
               /\ call'[r] = "undoing" => s \in left'[r] \/ <<r, s>> \in lost'
               /\ call'[r] = "refused" => <<r, s>> \in lost'
    <3>1. CASE records[Of[r]][s] = Mine(r)
      <4>1. /\ s \in Slots(r) /\ call[r] # "new"
            /\ call[r] = "undoing" => s \in left[r] \/ <<r, s>> \in lost'
            /\ call[r] = "refused" => <<r, s>> \in lost'
        BY <3>1, LostStays DEF LeftInv
      <4>2. call'[r] # "new" /\ (call'[r] = "refused" => <<r, s>> \in lost')
        BY <2>1, <4>1, LeaveStep
      <4>3. call'[r] = "undoing" => s \in left'[r] \/ <<r, s>> \in lost'
        BY <2>2, <2>4, <4>1, LeaveStep, MineTypes
      <4> QED BY <2>1, <4>1, <4>2, <4>3
    <3>2. CASE Persist(r) /\ s \in left[r] /\ call[r] \in {"accepted", "failed"}
      <4>1. call' = call /\ s \in Slots(r)
        BY <3>2 DEF Persist, LeftInv
      <4> QED BY <2>1, <3>2, <4>1
    <3> QED BY <2>4, <3>1, <3>2, OnlyMine
  <2> QED BY <2>3, <2>4
<1> QED BY <1>1, <1>2

-----------------------------------------------------------------------------
LEMMA InitOwn == Init => OwnInv /\ LeftInv
<1> SUFFICES ASSUME Init PROVE OwnInv /\ LeftInv
  OBVIOUS
<1>1. \A r \in Call : /\ Of[r] \in Instance /\ r # Null /\ call[r] = "new"
                      /\ taskQueue[Of[r]] = Null /\ "new" \notin InFlight
  BY AdminAssumption DEF Init, InFlight
<1>2. OwnInv
  BY <1>1 DEF OwnInv, Alone, NoTask, Persisted, Unspoilt
<1>3. \A r \in Call, s \in SlotId : records[Of[r]][s] # Mine(r)
  BY <1>1, MineTypes DEF Init
<1> QED BY <1>1, <1>2, <1>3 DEF LeftInv

THEOREM Invariant == Spec => []IInv
<1>1. Init => IInv
  BY InitTypes, InitPlaces, InitOwn DEF IInv
<1>2. IInv /\ [Next]_vars => IInv'
  BY StepTypes, StepPlaces, StepAlone, StepPersisted, StepUnspoilt, StepLeft
  DEF IInv, OwnInv
<1> QED BY <1>1, <1>2, PTL DEF Spec

-----------------------------------------------------------------------------
(* Every variable of the administration keeps its type, and the executor   *)
(* its limits, for every number of threads and queue places.               *)
THEOREM AdminTypeCorrect == Spec => []AdminTypeOK
<1>1. IInv => AdminTypeOK
  BY DEF IInv
<1> QED BY <1>1, Invariant, PTL

(* Never two tasks of an instance in the executor, for any number of       *)
(* instances, of calls of addTask and of threads, and with crashes, rejected*)
(* jobs and records deleted by hand at any moment.                         *)
THEOREM OneTaskCorrect == Spec => []OneTaskPerInstance
<1>1. IInv => OneTaskPerInstance
  BY PlacesOfOne DEF IInv
<1> QED BY <1>1, Invariant, PTL

(* A task finds its own records, for any number of calls and any ranges:   *)
(* as long as the calls of addTask for the instance do not overlap, nothing*)
(* between the persisting of a record and the reading of it touches it.    *)
(* Where it does not, the write of that record was lost with the           *)
(* connection, however many accesses are.                                  *)
THEOREM OwnCorrect == Spec => []RunsItsOwn
<1>1. IInv => RunsItsOwn
  <2> SUFFICES ASSUME IInv, NEW r \in Call, AtSlot(r), held[r] = Null, r \notin disturbed
               PROVE  Own(r, cur[r])
    BY DEF RunsItsOwn, Own, Mine
  <2>1. /\ taskQueue[Of[r]] = r /\ ~finished[r] /\ cur[r] \in SlotId
        /\ cur[r] \in Nat /\ cur[r] <= range[r][2]
    BY AtSlotPosted DEF IInv
  <2>2. cur[r] >= range[r][1]
    BY <2>1 DEF IInv, OwnInv, Unspoilt
  <2>3. range[r][1] \in Int /\ range[r][2] \in Int
    BY RangeTypes, AdminAssumption DEF IInv, SlotId
  <2>4. Ahead(r, cur[r])
    BY <2>1, <2>2, <2>3 DEF Ahead, Slots
  <2> QED BY <2>1, <2>4 DEF IInv, OwnInv, Unspoilt
<1> QED BY <1>1, Invariant, PTL

(* A refused call leaves no record as it wrote it, whatever ran meanwhile, *)
(* but those whose delete was lost with the connection.                    *)
THEOREM RefusedCorrect == Spec => []RefusedLeavesNothing
<1>1. IInv => RefusedLeavesNothing
  BY DEF IInv, LeftInv, RefusedLeavesNothing, Mine
<1> QED BY <1>1, Invariant, PTL
=============================================================================

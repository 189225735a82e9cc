---------------------------- MODULE MigrateAdmin ----------------------------
(***************************************************************************)
(* How the administration accepts, runs and forgets migrations.            *)
(*                                                                         *)
(* addTask answers a web request after a look at the task map and hands    *)
(* the rest to the ThreadPoolTaskExecutor: a job that persists one record  *)
(* per slot and posts a MigrateTask, or deletes the records again when     *)
(* another task of the instance was faster.  The ManageThread, itself a    *)
(* job of that executor that never ends, starts the posted tasks on it and *)
(* removes the finished ones.                                              *)
(*                                                                         *)
(* Abstracted: the protocol of one slot (module SlotMigration), here the   *)
(* accesses of a task to the slot's record; groups and delays.  The        *)
(* isExisted of persist and of removeNodeIfExisted and the write that      *)
(* follows are one step: NodeExists and NoNode are ignored, so a write     *)
(* that loses a race is one that was overwritten at once.  So are the read *)
(* and the write of updateSlotMigrate.                                     *)
(***************************************************************************)
EXTENDS Integers, Sequences, FiniteSets

CONSTANTS
  Instance,
  Call,      \* the calls of addTask
  Of,        \* the instance of a call
  MaxSlot,   \* slots are 0..MaxSlot
  Ranges,    \* the ranges <<from, to>> asked for in each instance
  Core, MaxPool, QueueCap,  \* of the ThreadPoolTaskExecutor (5, 50, 1000)
  Null,
  Faults,    \* the kinds of failure and of interference explored
  Lossy      \* the calls whose accesses to ZooKeeper can fail

SlotId == 0 .. MaxSlot

Manage == <<"manage">>
Add(r) == <<"add", r>>
Task(r) == <<"task", r>>
Job == {Manage} \cup {Add(r) : r \in Call} \cup {Task(r) : r \in Call}

Record == [call: Call, status: {"PENDING", "MIGRATE", "ERROR"}]

ASSUME AdminAssumption ==
  /\ Of \in [Call -> Instance]
  /\ MaxSlot \in Nat
  /\ Ranges \in [Instance -> SUBSET {b \in SlotId \X SlotId : b[1] <= b[2]}]
  /\ QueueCap \in Nat
  /\ Core \in Nat /\ Core > 1 /\ MaxPool \in Nat /\ MaxPool >= Core
  /\ Null \notin Record /\ Null \notin Call
  /\ Faults \subseteq {"crash", "delTask"} /\ Lossy \subseteq Call

VARIABLES
  threads, running, queue,  \* the executor
  call,      \* how far each call of addTask has come
  range,     \* the slots it asks for, <<from, to>>
  left,      \* the slots it has not persisted, or not deleted, yet
  taskQueue, \* MigrateTaskManager.taskQueue
  run, finished,            \* MigrateTask.run and isFinished
  cur, held, \* the slot of a task and the record that it read, or Null
  records,   \* /migrate/X/s
  disturbed, \* history: calls whose records others may have touched
  lost       \* history: calls and slots whose write or delete was lost

poolVars == <<threads, running, queue>>
callVars == <<call, range, left>>
taskVars == <<run, finished, cur, held>>
historyVars == <<disturbed, lost>>
vars == <<poolVars, callVars, taskQueue, taskVars, records, historyVars>>

\* The call is between its look at the task map and the end of its job.
InFlight == {"checked", "accepted", "failed", "undoing"}

Slots(r) == range[r][1] .. range[r][2]

Init ==
  /\ threads = 1 /\ running = {Manage} /\ queue = <<>>
  /\ call = [r \in Call |-> "new"]
  /\ range = [r \in Call |-> <<0, 0>>]
  /\ left = [r \in Call |-> {}]
  /\ taskQueue = [i \in Instance |-> Null]
  /\ run = [r \in Call |-> FALSE] /\ finished = [r \in Call |-> FALSE]
  /\ cur = [r \in Call |-> 0] /\ held = [r \in Call |-> Null]
  /\ records = [i \in Instance |-> [s \in SlotId |-> Null]]
  /\ disturbed = {} /\ lost = {}

-----------------------------------------------------------------------------
(* java.util.concurrent.ThreadPoolExecutor: a new thread below the core    *)
(* size, then the queue, then threads up to the maximum, then rejection.   *)

Accepts == threads < Core \/ Len(queue) < QueueCap \/ threads < MaxPool

Execute(job) ==
  IF threads < Core \/ (Len(queue) >= QueueCap /\ threads < MaxPool)
  THEN threads' = threads + 1 /\ running' = running \cup {job} /\ UNCHANGED queue
  ELSE queue' = Append(queue, job) /\ UNCHANGED <<threads, running>>

\* An idle thread takes the job at the head of the queue.
Dequeue ==
  /\ queue # <<>> /\ Cardinality(running) < threads
  /\ running' = running \cup {Head(queue)} /\ queue' = Tail(queue)
  /\ UNCHANGED <<threads, callVars, taskQueue, taskVars, records, historyVars>>

Ends(job) == running' = running \ {job} /\ UNCHANGED <<threads, queue>>

-----------------------------------------------------------------------------
(* /migrate/X/s in ZooKeeper.                                              *)

\* ConnectionLoss is ignored: a write or a delete of the job or the task of
\* r that is lost with the connection looks done, and a read answers null.
SetRecord(r, s, rec) ==
  \/ records' = [records EXCEPT ![Of[r]][s] = rec]
  \/ r \in Lossy /\ UNCHANGED records

\* The call sees to its slot s; whether that was lost is remembered.
SeesTo(r, s, rec) ==
  /\ left' = [left EXCEPT ![r] = @ \ {s}]
  /\ SetRecord(r, s, rec)
  /\ lost' = IF records'[Of[r]][s] = rec THEN lost ELSE lost \cup {<<r, s>>}

-----------------------------------------------------------------------------
(* addTask.                                                                *)

Others(r) == {q \in Call \ {r} : Of[q] = Of[r]}

\* The web thread: no task of the instance is posted.  Another call that
\* got as far and whose job has not ended, one that still deletes the
\* records of its range among them, goes unnoticed.
Check(r) ==
  /\ call[r] = "new"
  /\ taskQueue[Of[r]] = Null
  /\ \E b \in Ranges[Of[r]] : /\ range' = [range EXCEPT ![r] = b]
                              /\ left' = [left EXCEPT ![r] = b[1] .. b[2]]
  /\ call' = [call EXCEPT ![r] = "checked"]
  /\ LET rivals == {q \in Others(r) : call[q] \in InFlight}
     IN disturbed' = disturbed \cup rivals \cup (IF rivals = {} THEN {} ELSE {r})
  /\ UNCHANGED <<poolVars, taskQueue, taskVars, records, lost>>

Busy(r) ==
  /\ call[r] = "new"
  /\ taskQueue[Of[r]] # Null
  /\ call' = [call EXCEPT ![r] = "busy"]
  /\ UNCHANGED <<poolVars, range, left, taskQueue, taskVars, records, historyVars>>

\* executor.execute, and the answer "success".
Accept(r) ==
  /\ call[r] = "checked" /\ Accepts
  /\ call' = [call EXCEPT ![r] = "accepted"]
  /\ Execute(Add(r))
  /\ UNCHANGED <<range, left, taskQueue, taskVars, records, historyVars>>

Reject(r) ==
  /\ call[r] = "checked" /\ ~Accepts
  /\ call' = [call EXCEPT ![r] = "rejected"]
  /\ UNCHANGED <<poolVars, range, left, taskQueue, taskVars, records, historyVars>>

\* persistMigrate, in chunks that run in parallel; those of a call that
\* failed run on.  Nothing looks whether a record is there.
Persist(r) ==
  /\ \/ call[r] = "accepted" /\ Add(r) \in running
     \/ call[r] = "failed"
  /\ \E s \in left[r] : SeesTo(r, s, [call |-> r, status |-> "PENDING"])
  /\ UNCHANGED <<poolVars, call, range, taskQueue, taskVars, disturbed>>

\* A slot that could not be read, or a write that throws: the exception of
\* its chunk ends the job.
PersistFails(r) ==
  /\ r \in Lossy
  /\ call[r] = "accepted" /\ Add(r) \in running
  /\ \E s \in left[r] : left' = [left EXCEPT ![r] = @ \ {s}]
  /\ call' = [call EXCEPT ![r] = "failed"]
  /\ Ends(Add(r))
  /\ UNCHANGED <<range, taskQueue, taskVars, records, historyVars>>

\* Mutant: the records' futures are not waited for.
PostEarly(r) ==
  /\ call[r] = "accepted" /\ Add(r) \in running
  /\ taskQueue[Of[r]] = Null
  /\ taskQueue' = [taskQueue EXCEPT ![Of[r]] = r]
  /\ cur' = [cur EXCEPT ![r] = range[r][1]]
  /\ call' = [call EXCEPT ![r] = "posted"]
  /\ Ends(Add(r))
  /\ UNCHANGED <<range, left, run, finished, held, records, historyVars>>

\* Mutant: put instead of putIfAbsent.
PostAlways(r) ==
  /\ call[r] = "accepted" /\ Add(r) \in running /\ left[r] = {}
  /\ taskQueue' = [taskQueue EXCEPT ![Of[r]] = r]
  /\ cur' = [cur EXCEPT ![r] = range[r][1]]
  /\ call' = [call EXCEPT ![r] = "posted"]
  /\ Ends(Add(r))
  /\ UNCHANGED <<range, left, run, finished, held, records, historyVars>>

\* postTask: putIfAbsent.
Post(r) ==
  /\ call[r] = "accepted" /\ Add(r) \in running /\ left[r] = {}
  /\ taskQueue[Of[r]] = Null
  /\ taskQueue' = [taskQueue EXCEPT ![Of[r]] = r]
  /\ cur' = [cur EXCEPT ![r] = range[r][1]]
  /\ call' = [call EXCEPT ![r] = "posted"]
  /\ Ends(Add(r))
  /\ UNCHANGED <<range, left, run, finished, held, records, historyVars>>

\* Mutant: the loop that deletes the records stops one slot early.
PostRefusedShort(r) ==
  /\ call[r] = "accepted" /\ Add(r) \in running /\ left[r] = {}
  /\ taskQueue[Of[r]] # Null
  /\ call' = [call EXCEPT ![r] = "undoing"]
  /\ left' = [left EXCEPT ![r] = Slots(r) \ {range[r][2]}]
  /\ UNCHANGED <<poolVars, range, taskQueue, taskVars, records, historyVars>>

PostRefused(r) ==
  /\ call[r] = "accepted" /\ Add(r) \in running /\ left[r] = {}
  /\ taskQueue[Of[r]] # Null
  /\ call' = [call EXCEPT ![r] = "undoing"]
  /\ left' = [left EXCEPT ![r] = Slots(r)]
  /\ UNCHANGED <<poolVars, range, taskQueue, taskVars, records, historyVars>>

\* A refused call deletes the records of its range, whoever wrote them.
Undo(r) ==
  /\ call[r] = "undoing"
  /\ \E s \in left[r] : (\A t \in left[r] : s <= t) /\ SeesTo(r, s, Null)
  /\ UNCHANGED <<poolVars, call, range, taskQueue, taskVars, disturbed>>

\* A delete throws: the job ends, and the records it had left stay.
UndoFails(r) ==
  /\ r \in Lossy
  /\ call[r] = "undoing" /\ left[r] # {}
  /\ call' = [call EXCEPT ![r] = "lost"]
  /\ Ends(Add(r))
  /\ UNCHANGED <<range, left, taskQueue, taskVars, records, historyVars>>

Refuse(r) ==
  /\ call[r] = "undoing" /\ left[r] = {}
  /\ call' = [call EXCEPT ![r] = "refused"]
  /\ Ends(Add(r))
  /\ UNCHANGED <<range, left, taskQueue, taskVars, records, historyVars>>

\* The administrator deletes one record.
DelTask ==
  /\ "delTask" \in Faults
  /\ \E i \in Instance, s \in SlotId :
       /\ records[i][s] # Null
       /\ records' = [records EXCEPT ![i][s] = Null]
       /\ disturbed' = disturbed \cup {r \in Call : Of[r] = i}
  /\ UNCHANGED <<poolVars, callVars, taskQueue, taskVars, lost>>

-----------------------------------------------------------------------------
(* The ManageThread, one entry of the task map at a time.                  *)

\* start(): the flag is set before execute, which may throw.
Start(i) ==
  /\ taskQueue[i] # Null
  /\ LET r == taskQueue[i]
     IN /\ ~finished[r] /\ ~run[r]
        /\ run' = [run EXCEPT ![r] = TRUE]
        /\ IF Accepts THEN Execute(Task(r)) ELSE UNCHANGED poolVars
  /\ UNCHANGED <<callVars, taskQueue, finished, cur, held, records, historyVars>>

Remove(i) ==
  /\ taskQueue[i] # Null /\ finished[taskQueue[i]]
  /\ taskQueue' = [taskQueue EXCEPT ![i] = Null]
  /\ UNCHANGED <<poolVars, callVars, taskVars, records, historyVars>>

-----------------------------------------------------------------------------
(* MigrateTask.run, as far as the records see it.                          *)

AtSlot(r) == Task(r) \in running /\ ~finished[r] /\ cur[r] <= range[r][2]

\* updateSlotMigrate(.., ERROR): a record that is there is marked.
MarkError(r) ==
  LET rec == records[Of[r]][cur[r]]
  IN IF rec = Null THEN UNCHANGED records
     ELSE SetRecord(r, cur[r], [rec EXCEPT !.status = "ERROR"])

\* Mutant: passing over a slot without a record counts it twice.
TaskPassesTwo(r) ==
  /\ AtSlot(r) /\ held[r] = Null
  /\ records[Of[r]][cur[r]] = Null \/ r \in Lossy
  /\ MarkError(r)
  /\ cur' = [cur EXCEPT ![r] = @ + 2]
  /\ UNCHANGED <<poolVars, callVars, taskQueue, run, finished, held, historyVars>>

\* Mutant: a slot without a record is tried again and again.
TaskPassesNone(r) ==
  /\ AtSlot(r) /\ held[r] = Null
  /\ records[Of[r]][cur[r]] = Null \/ r \in Lossy
  /\ UNCHANGED <<poolVars, callVars, taskQueue, taskVars, records, historyVars>>

\* getSlotMigrate answers null: the slot is passed over, and the record
\* that is there all the same is marked.
TaskPasses(r) ==
  /\ AtSlot(r) /\ held[r] = Null
  /\ records[Of[r]][cur[r]] = Null \/ r \in Lossy
  /\ MarkError(r)
  /\ cur' = [cur EXCEPT ![r] = @ + 1]
  /\ UNCHANGED <<poolVars, callVars, taskQueue, run, finished, held, historyVars>>

TaskRead(r) ==
  /\ AtSlot(r) /\ held[r] = Null
  /\ records[Of[r]][cur[r]] # Null
  /\ held' = [held EXCEPT ![r] = records[Of[r]][cur[r]]]
  /\ UNCHANGED <<poolVars, callVars, taskQueue, run, finished, cur, records, historyVars>>

\* preMigrateStatus writes the record that was read back as MIGRATE, also
\* when it has been deleted or replaced meanwhile.
TaskMark(r) ==
  /\ AtSlot(r) /\ held[r] # Null /\ held[r].status # "MIGRATE"
  /\ held' = [held EXCEPT ![r].status = "MIGRATE"]
  /\ SetRecord(r, cur[r], held'[r])
  /\ UNCHANGED <<poolVars, callVars, taskQueue, run, finished, cur, historyVars>>

\* The slot is done: its record is deleted, or marked after an exception.
TaskSlotEnds(r) ==
  /\ AtSlot(r) /\ held[r] # Null
  /\ SetRecord(r, cur[r], Null) \/ MarkError(r)
  /\ held' = [held EXCEPT ![r] = Null]
  /\ cur' = [cur EXCEPT ![r] = @ + 1]
  /\ UNCHANGED <<poolVars, callVars, taskQueue, run, finished, historyVars>>

TaskEnds(r) ==
  /\ Task(r) \in running /\ ~finished[r] /\ cur[r] > range[r][2]
  /\ finished' = [finished EXCEPT ![r] = TRUE]
  /\ Ends(Task(r))
  /\ UNCHANGED <<callVars, taskQueue, run, cur, held, records, historyVars>>

\* Starting or closing the barrier's cache throws, or marking a record: run()
\* is left without isFinished.
TaskDies(r) ==
  /\ r \in Lossy
  /\ Task(r) \in running /\ ~finished[r]
  /\ Ends(Task(r))
  /\ UNCHANGED <<callVars, taskQueue, taskVars, records, historyVars>>

\* The server restarts: all but the records is gone.
Crash ==
  /\ "crash" \in Faults
  /\ threads' = 1 /\ running' = {Manage} /\ queue' = <<>>
  /\ call' = [r \in Call |-> IF call[r] \in InFlight
                             THEN "lost" ELSE call[r]]
  /\ taskQueue' = [i \in Instance |-> Null]
  /\ left' = [r \in Call |-> {}]
  /\ run' = [r \in Call |-> FALSE] /\ finished' = [r \in Call |-> FALSE]
  /\ cur' = [r \in Call |-> 0] /\ held' = [r \in Call |-> Null]
  /\ UNCHANGED <<range, records, historyVars>>

-----------------------------------------------------------------------------
ManageStep(i) == Start(i) \/ Remove(i)

\* The job of a call and, later, that of its task.
JobStep(r) ==
  \/ Persist(r) \/ Post(r) \/ PostRefused(r) \/ Undo(r) \/ Refuse(r)
  \/ TaskPasses(r) \/ TaskRead(r) \/ TaskMark(r) \/ TaskSlotEnds(r) \/ TaskEnds(r)

Next ==
  \/ Dequeue \/ DelTask \/ Crash
  \/ \E i \in Instance : ManageStep(i)
  \/ \E r \in Call :
       \/ Check(r) \/ Busy(r) \/ Accept(r) \/ Reject(r)
       \/ JobStep(r) \/ PersistFails(r) \/ UndoFails(r) \/ TaskDies(r)

Spec == Init /\ [][Next]_vars

\* The executor runs its jobs and the ManageThread comes round to every
\* entry; nobody has to call anything.
FairSpec ==
  /\ Spec
  /\ WF_vars(Dequeue)
  /\ \A i \in Instance : WF_vars(ManageStep(i))
  /\ \A r \in Call : WF_vars(JobStep(r))

-----------------------------------------------------------------------------
(* Properties.                                                             *)

(* Every variable holds a value of its type; the executor has no more      *)
(* threads than its maximum and no longer a queue than its capacity.       *)
AdminTypeOK ==
  /\ threads \in 1 .. MaxPool /\ running \in SUBSET Job
  /\ queue \in Seq(Job) /\ Len(queue) <= QueueCap
  /\ call \in [Call -> InFlight \cup
                 {"new", "busy", "rejected", "posted", "refused", "lost"}]
  /\ range \in [Call -> SlotId \X SlotId]
  /\ left \in [Call -> SUBSET SlotId]
  /\ taskQueue \in [Instance -> Call \cup {Null}]
  /\ run \in [Call -> BOOLEAN] /\ finished \in [Call -> BOOLEAN]
  /\ cur \in [Call -> 0 .. (MaxSlot + 1)]
  /\ held \in [Call -> Record \cup {Null}]
  /\ records \in [Instance -> [SlotId -> Record \cup {Null}]]
  /\ disturbed \in SUBSET Call /\ lost \in SUBSET (Call \X SlotId)

\* The jobs of an instance's tasks, running or queued.
Places(i) ==
  {r \in Call : Of[r] = i /\ Task(r) \in running}
    \cup {<<n, queue[n]>> : n \in {m \in 1 .. Len(queue) :
            \E r \in Call : Of[r] = i /\ queue[m] = Task(r)}}

(* At most one task of an instance is in the executor, running or queued;  *)
(* two would drive the same slots through the protocol at once.  The       *)
(* putIfAbsent of postTask and the flag of start() see to it, however      *)
(* addTask, the ManageThread and restarts interleave.                      *)
OneTaskPerInstance == \A i \in Instance : Cardinality(Places(i)) <= 1

(* A task finds its own record, as it was persisted, on every slot of its  *)
(* range, provided no other call of addTask for the instance overlapped    *)
(* and no record was deleted by hand: what addTask persisted is on disk    *)
(* before the task can be started.  The exception is the record whose      *)
(* write was lost with the connection: RegExceptionHandler ignores it, and *)
(* the task is posted without the record.                                  *)
RunsItsOwn ==
  \A r \in Call :
    AtSlot(r) /\ held[r] = Null /\ r \notin disturbed =>
      \/ records[Of[r]][cur[r]] = [call |-> r, status |-> "PENDING"]
      \/ <<r, cur[r]>> \in lost

(* A refused call takes back every record it has written, unless a task    *)
(* has begun to work on it: none of them is left for a later task, but for *)
(* one whose delete was lost with the connection, which nobody repeats.    *)
RefusedLeavesNothing ==
  \A r \in Call, s \in SlotId :
    call[r] = "refused" =>
      records[Of[r]][s] # [call |-> r, status |-> "PENDING"] \/ <<r, s>> \in lost

\* The executor rejected the task, or its thread has died.
Orphan(r) ==
  /\ run[r] /\ ~finished[r]
  /\ Task(r) \notin running
  /\ \A n \in 1 .. Len(queue) : queue[n] # Task(r)

(* A posted task ends and gives its instance free for the next one, unless *)
(* the executor rejected it or its thread died in the middle.              *)
InstanceFreed ==
  \A i \in Instance :
    (taskQueue[i] # Null)
      ~> (taskQueue[i] = Null \/ (taskQueue[i] # Null /\ Orphan(taskQueue[i])))

(* Whatever waits for a thread gets one: the ManageThread keeps one of the *)
(* executor for ever and every task keeps one until it has been over its   *)
(* range, and still the jobs of addTask and the other tasks come through.  *)
QueueDrains == (queue # <<>>) ~> (queue = <<>>)
=============================================================================

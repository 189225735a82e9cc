-------------------------- MODULE SlotDistribution --------------------------
(***************************************************************************)
(* The first distribution of an instance's slots: the page of DistSlotCtrl *)
(* sends rows <<from, to, group>>, SlotController.distSlots looks whether  *)
(* the instance exists, cuts the slots of the rows into chunks and hands   *)
(* each chunk as a job to the taskExecutor, which it shares with the       *)
(* ManageThread, the migrations and the jobs of addTask.                   *)
(*                                                                         *)
(* A call is one click on the page.  Its rows are those the server parses: *)
(* a field that the page left empty is read as zero or not at all, as a    *)
(* row out of range is.  A request or an answer that is lost is one that   *)
(* never comes: the page has no handler for it.  The other jobs are their  *)
(* number; a migration of a slot, here one step, is in SlotMigration.      *)
(***************************************************************************)
EXTENDS Integers, Sequences, FiniteSets, SequencesExt

CONSTANTS
  Group, Null,
  Calls,      \* bound: calls of distSlots, in the order of the clicks
  MaxSlot,    \* slots are 0..MaxSlot (1023)
  Chunk,      \* slots of a job (200)
  Requests,   \* the lists of rows explored
  Core, MaxPool, QueueCap,  \* of the ThreadPoolTaskExecutor (5, 50, 1000)
  MaxOthers,  \* bound: other jobs that are submitted
  Faults      \* the kinds of failure and of interference explored

SlotId == 0 .. MaxSlot

Call == 1 .. Calls

ASSUME DistributionAssumption ==
  /\ Null \notin Group \cup Nat /\ Calls \in Nat
  /\ MaxSlot \in Nat /\ Chunk \in Nat \ {0}
  /\ Core \in Nat /\ Core > 1 /\ MaxPool \in Nat /\ MaxPool >= Core
  /\ QueueCap \in Nat /\ MaxOthers \in Nat
  /\ Requests \subseteq Seq([from : Int, to : Int, group : Group])
  /\ Faults \subseteq {"crash", "lost", "dies", "client", "migrate"}

VARIABLES
  threads, running, queue,  \* the executor, and its jobs of distSlots
  others, submitted,        \* other jobs: that run, and submitted so far
  call, rows,  \* the state of a call, and its rows
  sent,        \* how many of the slots it asks for the executor has
  known,       \* the node /instances/X exists
  records,     \* the group in /instances/X/slots/s, or Null
  alert, last, \* DistSlotCtrl: $scope.data, and the call of the last click
  heard,       \* DistSlotCtrl: calls whose answer has come
  rivals,      \* history: a second call was let in
  broken,      \* history: calls of which a write was lost
  moved        \* history: slots that have migrated (bound: once each)

poolVars == <<threads, running, queue, others, submitted>>
callVars == <<call, rows, sent>>
nodeVars == <<known, records>>
pageVars == <<alert, last, heard>>
history == <<rivals, broken, moved>>
distVars == <<poolVars, callVars, nodeVars, pageVars, history>>

Init ==
  /\ threads = 1 /\ running = {} /\ queue = <<>> /\ others = 1 /\ submitted = 0
  /\ call = [c \in Call |-> "new"] /\ rows = [c \in Call |-> <<>>]
  /\ sent = [c \in Call |-> 0]
  /\ known = FALSE /\ records = [s \in SlotId |-> Null]
  /\ alert = "none" /\ last = Null /\ heard = {}
  /\ rivals = FALSE /\ broken = {} /\ moved = {}

-----------------------------------------------------------------------------
(* java.util.concurrent.ThreadPoolExecutor.                                *)

\* A job that is not of distSlots, in the queue.
Other == [call |-> Null]

Accepts == threads < Core \/ Len(queue) < QueueCap \/ threads < MaxPool

\* A job gets a thread of its own below the core size or at a full queue.
Starts == threads < Core \/ Len(queue) >= QueueCap

Execute(job) ==
  /\ Accepts
  /\ IF Starts
     THEN threads' = threads + 1 /\ running' = running \cup {job} /\ UNCHANGED queue
     ELSE queue' = Append(queue, job) /\ UNCHANGED <<threads, running>>
  /\ UNCHANGED <<others, submitted>>

Dequeue ==
  /\ queue # <<>> /\ Cardinality(running) + others < threads
  /\ queue' = Tail(queue)
  /\ IF Head(queue) = Other
     THEN others' = others + 1 /\ UNCHANGED running
     ELSE running' = running \cup {Head(queue)} /\ UNCHANGED others
  /\ UNCHANGED <<threads, submitted, callVars, nodeVars, pageVars, history>>

\* Migrations and the jobs of addTask come and go; the ManageThread stays.
OtherSubmitted ==
  /\ submitted < MaxOthers /\ Accepts
  /\ submitted' = submitted + 1
  /\ IF Starts
     THEN threads' = threads + 1 /\ others' = others + 1 /\ UNCHANGED queue
     ELSE queue' = Append(queue, Other) /\ UNCHANGED <<threads, others>>
  /\ UNCHANGED <<running, callVars, nodeVars, pageVars, history>>

\* Mutant: start() without its test of run, a second ManageThread.
OtherStays ==
  /\ others > 2 /\ others' = others - 1
  /\ UNCHANGED <<threads, running, queue, submitted, callVars, nodeVars, pageVars, history>>

OtherEnds ==
  /\ others > 1 /\ others' = others - 1
  /\ UNCHANGED <<threads, running, queue, submitted, callVars, nodeVars, pageVars, history>>

-----------------------------------------------------------------------------
(* SlotController.distSlots.                                               *)

Good(row) == 0 <= row.from /\ row.from <= row.to /\ row.to <= MaxSlot

RowSlots(row) ==
  [k \in 1 .. row.to - row.from + 1 |-> [slot |-> row.from + k - 1, group |-> row.group]]

\* The first row that cannot be read or is out of range, or 0.
BadRow == [r \in Requests |-> SelectInSeq(r, LAMBDA row : ~Good(row))]

\* The slots of the rows in front of it, in their order.
SlotsOf ==
  [r \in Requests |->
     FlattenSeq([k \in 1 .. IF BadRow[r] = 0 THEN Len(r) ELSE BadRow[r] - 1 |-> RowSlots(r[k])])]

Asked(c) == SlotsOf[rows[c]]

Answered(c, answer) == call' = [call EXCEPT ![c] = answer]

LetIn == {c \in Call : call[c] \in {"letIn", "failed", "succeeded"}}

\* instanceService.isExisted finds nothing, or loses its connection.
Admit(c) ==
  /\ call[c] = "sent"
  /\ ~known \/ "lost" \in Faults
  /\ Answered(c, "letIn")
  /\ rivals' = (rivals \/ known \/ LetIn # {})
  /\ UNCHANGED <<poolVars, rows, sent, nodeVars, pageVars, broken, moved>>

Refuse(c) ==
  /\ call[c] = "sent" /\ known
  /\ Answered(c, "refused")
  /\ UNCHANGED <<poolVars, rows, sent, nodeVars, pageVars, history>>

Job(c, first, final) == [call |-> c, next |-> first, final |-> final, found |-> "unasked"]

\* A chunk is full.
Dispatch(c) ==
  /\ call[c] = "letIn" /\ sent[c] + Chunk <= Len(Asked(c))
  /\ Execute(Job(c, sent[c] + 1, sent[c] + Chunk))
  /\ sent' = [sent EXCEPT ![c] = @ + Chunk]
  /\ UNCHANGED <<call, rows, nodeVars, pageVars, history>>

\* Mutant: the last chunk, which is not full, is forgotten.
FinishFull(c) ==
  /\ call[c] = "letIn" /\ sent[c] + Chunk > Len(Asked(c)) /\ BadRow[rows[c]] = 0
  /\ Answered(c, "succeeded")
  /\ UNCHANGED <<poolVars, rows, sent, nodeVars, pageVars, history>>

\* Behind the last row: the chunk that is not full, if there is one.
Finish(c) ==
  /\ call[c] = "letIn" /\ sent[c] + Chunk > Len(Asked(c)) /\ BadRow[rows[c]] = 0
  /\ IF sent[c] < Len(Asked(c))
     THEN Execute(Job(c, sent[c] + 1, Len(Asked(c))))
     ELSE UNCHANGED poolVars
  /\ sent' = [sent EXCEPT ![c] = Len(Asked(c))]
  /\ Answered(c, "succeeded")
  /\ UNCHANGED <<rows, nodeVars, pageVars, history>>

\* A chunk that is rejected, or a bad row behind chunks that have gone.
Fail(c) ==
  /\ call[c] = "letIn"
  /\ IF BadRow[rows[c]] # 0 /\ sent[c] + Chunk > Len(Asked(c))
     THEN TRUE
     ELSE ~Accepts /\ sent[c] < Len(Asked(c))
  /\ Answered(c, "failed")
  /\ UNCHANGED <<poolVars, rows, sent, nodeVars, pageVars, history>>

-----------------------------------------------------------------------------
(* DistSlotThread.run: SlotService.setSlot for each slot of a chunk.       *)

Replace(job, new) ==
  /\ running' = (running \ {job}) \cup new
  /\ UNCHANGED <<threads, queue, others, submitted, callVars, pageVars>>

Slot(job) == Asked(job.call)[job.next].slot

\* ZookeeperRegistryCenter.persist looks whether the node exists.
Look(job) ==
  /\ job.found = "unasked"
  /\ \E found \in {IF records[Slot(job)] = Null THEN "absent" ELSE "present"} :
       Replace(job, {[job EXCEPT !.found = found]})
  /\ UNCHANGED <<nodeVars, history>>

GoesOn(job) ==
  Replace(job, IF job.next = job.final THEN {}
               ELSE {[job EXCEPT !.next = @ + 1, !.found = "unasked"]})

\* It creates the node, which may exist by now, or updates it.
Write(job) ==
  /\ job.found # "unasked"
  /\ GoesOn(job)
  /\ known' = TRUE
  /\ records' = IF job.found = "absent" /\ records[Slot(job)] # Null THEN records
                ELSE [records EXCEPT ![Slot(job)] = Asked(job.call)[job.next].group]
  /\ UNCHANGED history

\* ConnectionLoss, which is ignored.
WriteLost(job) ==
  /\ "lost" \in Faults
  /\ GoesOn(job)
  /\ broken' = broken \cup {job.call}
  /\ UNCHANGED <<nodeVars, rivals, moved>>

\* Mutant: a job that fails is run again.
DiesAndRetries(job) ==
  /\ "dies" \in Faults /\ job.call \notin broken
  /\ Replace(job, {Job(job.call, 1, job.final)})
  /\ broken' = broken \cup {job.call}
  /\ UNCHANGED <<nodeVars, rivals, moved>>

\* Any other failure ends the job; its thread goes on with the next.
Dies(job) ==
  /\ "dies" \in Faults
  /\ Replace(job, {})
  /\ broken' = broken \cup {job.call}
  /\ UNCHANGED <<nodeVars, rivals, moved>>

-----------------------------------------------------------------------------
(* What else happens to the instance and to the program.                   *)

\* A client that starts creates the node of the instance with its own.
ClientStarts ==
  /\ "client" \in Faults /\ ~known
  /\ known' = TRUE
  /\ UNCHANGED <<poolVars, callVars, records, pageVars, history>>

\* A migration hands a slot to another group.
Migrate(s) ==
  /\ "migrate" \in Faults /\ s \notin moved /\ records[s] # Null
  /\ moved' = moved \cup {s}
  /\ \E g \in Group \ {records[s]} : records' = [records EXCEPT ![s] = g]
  /\ UNCHANGED <<poolVars, callVars, known, pageVars, rivals, broken>>

\* The web application restarts: its calls and its jobs are gone.
Crash ==
  /\ "crash" \in Faults
  /\ threads' = 1 /\ running' = {} /\ queue' = <<>> /\ others' = 1
  /\ call' = [c \in Call |-> IF call[c] \in {"sent", "letIn"} THEN "gone" ELSE call[c]]
  /\ broken' = broken \cup ({j.call : j \in running \cup Range(queue)} \ {Null})
  /\ UNCHANGED <<submitted, rows, sent, nodeVars, pageVars, rivals, moved>>

-----------------------------------------------------------------------------
(* DistSlotCtrl.                                                           *)

\* distSlots of the page, which shows success at once.
Click(c) ==
  /\ call[c] = "new" /\ \A b \in 1 .. c - 1 : call[b] # "new"
  /\ Answered(c, "sent")
  /\ \E r \in Requests : rows' = [rows EXCEPT ![c] = r]
  /\ alert' = "success" /\ last' = c
  /\ UNCHANGED <<poolVars, sent, nodeVars, heard, history>>

\* Mutant: with the line of processData that is commented out.
HearAll(c) ==
  /\ c \notin heard /\ call[c] \in {"refused", "failed", "succeeded"}
  /\ heard' = heard \cup {c}
  /\ alert' = IF call[c] = "succeeded" THEN "success" ELSE "warning"
  /\ UNCHANGED <<poolVars, callVars, nodeVars, last, history>>

\* processData: an answer arrives.
Hear(c) ==
  /\ c \notin heard /\ call[c] \in {"refused", "failed", "succeeded"}
  /\ heard' = heard \cup {c}
  /\ alert' = IF call[c] = "succeeded" THEN alert ELSE "warning"
  /\ UNCHANGED <<poolVars, callVars, nodeVars, last, history>>

-----------------------------------------------------------------------------
ServerStep(c) == Dispatch(c) \/ Finish(c) \/ Fail(c)

JobStep == \E job \in running : Look(job) \/ Write(job) \/ WriteLost(job) \/ Dies(job)

BackendStep ==
  \/ \E c \in Call : Admit(c) \/ Refuse(c) \/ ServerStep(c)
  \/ JobStep \/ Dequeue \/ OtherSubmitted \/ OtherEnds
  \/ ClientStarts \/ (\E s \in SlotId : Migrate(s)) \/ Crash

PageStep == \E c \in Call : Click(c) \/ Hear(c)

Next == BackendStep \/ PageStep

Spec == Init /\ [][Next]_distVars

\* A call that is let in goes on, the threads of the executor run, and the
\* jobs of the others end.
Fairness ==
  /\ \A c \in Call : WF_distVars(ServerStep(c))
  /\ WF_distVars(JobStep) /\ WF_distVars(Dequeue) /\ WF_distVars(OtherEnds)

FairSpec == Spec /\ Fairness

-----------------------------------------------------------------------------
(* Properties.                                                             *)

InPool(c) == \E job \in running \cup Range(queue) : job.call = c

Settled(c) == call[c] \in {"failed", "succeeded"} /\ ~InPool(c)

\* The slots that the executor took, or was to take.
Taken(c) == IF call[c] = "succeeded" THEN Len(Asked(c)) ELSE sent[c]

Places(c, s) == {p \in 1 .. Taken(c) : Asked(c)[p].slot = s}

ChunkOf(p) == (p - 1) \div Chunk

\* The group s may have got: of the last row for s, in one of its chunks.
Wanted(c, s) ==
  {Asked(c)[p].group :
     p \in {q \in Places(c, s) : \A r \in Places(c, s) : ChunkOf(r) = ChunkOf(q) => r <= q}}

(* Once a call that was alone is through, and none of its writes was lost, *)
(* every slot that the executor took has a group its rows ask for, and no  *)
(* other slot has one; and when the answer was success, no row and no slot *)
(* of its rows is left out.                                                *)
DistributedAsAsked ==
  \A c \in Call : Settled(c) /\ c \notin broken /\ ~rivals =>
    /\ \A s \in SlotId \ moved :
         IF Places(c, s) = {} THEN records[s] = Null ELSE records[s] \in Wanted(c, s)
    /\ call[c] = "succeeded" =>
         \A k \in DOMAIN rows[c] : \A s \in rows[c][k].from .. rows[c][k].to :
           s \in SlotId /\ records[s] # Null

(* A slot that migrated while the rest of its instance was distributed is  *)
(* never taken back, whatever order the chunks run in and however jobs     *)
(* fail: only two calls at once, or rows that name the slot twice, can do  *)
(* that.                                                                   *)
MigratedStays ==
  [][\A s \in moved : records'[s] # records[s] =>
       \/ rivals
       \/ \E c \in LetIn : Cardinality(Places(c, s)) > 1]_distVars

(* The page may show success for a call that is refused later, but not     *)
(* once the answer to its last click has come.                             *)
LastFailureShown ==
  last \in heard /\ call[last] \in {"refused", "failed"} => alert # "success"

(* A call that is let in is distributed or answered with a failure, though *)
(* migrations, the ManageThread and addTask hold threads of the executor,  *)
(* unless the program restarts.                                            *)
DistributionEnds ==
  \A c \in Call : call[c] = "letIn" ~> (call[c] = "gone" \/ Settled(c))
=============================================================================

--------------------------- MODULE MetricPipeline ---------------------------
(***************************************************************************)
(* The way of a measurement from log() to the storage: the ring buffer     *)
(* that every thread of the application writes without a lock, the one     *)
(* ConsumerAgent that takes batches from it, and the SendAgents with their *)
(* bounded queues.                                                         *)
(*                                                                         *)
(* A measurement is named by the position of the ring that its producer    *)
(* was given; what a batch holds is left out but for whether it holds      *)
(* anything.  Abstracted: what store() does with a batch (it may fail),    *)
(* the sleeps, and stop(), which nothing calls.                            *)
(***************************************************************************)
EXTENDS Integers, FiniteSets

CONSTANTS
  Producer,   \* threads that call log()
  BufferSize, \* of the ring
  TakeSize,   \* takes of one takeForTimeout (500)
  Workers,    \* number of SendAgents
  QueueCap,   \* of the queue of one
  Chosen,     \* new Random(n).nextInt(n): the same worker every time
  MaxPut,     \* bound: positions handed out
  Null

ASSUME MetricAssumption ==
  /\ BufferSize \in Nat \ {0} /\ TakeSize \in Nat \ {0} /\ QueueCap \in Nat \ {0}
  /\ Workers \in Nat \ {0} /\ Chosen \in 0 .. Workers - 1
  /\ MaxPut \in Nat
  /\ IsFiniteSet(Producer)
  /\ Null \notin Int

Worker == 0 .. Workers - 1

VARIABLES
  putIndex, takeIndex, entries,  \* the RingBuffer
  seen,      \* the putIndex that a producer has read in its check, or Null
  passed,    \* producers that have found room
  writing,   \* the position a producer is about to write, or Null
  consumer,  \* where run() stands
  takes,     \* takes of this takeForTimeout so far
  batch,     \* it has collected something
  tries,     \* offers of this SendAgentGroup.put so far
  position,  \* SendAgentGroup.position, modulo the number of workers
  queue, sending,  \* of each SendAgent: batches waiting, one in store()
  found,     \* history: the last position taken and what was there
  late,      \* history: positions taken or lapped before they were written
  untold     \* history: batches thrown away less answers that say so

ringVars == <<putIndex, takeIndex, entries>>
consumerVars == <<consumer, takes, batch, tries, position>>
producerVars == <<seen, passed, writing>>
history == <<found, late, untold>>
vars == <<ringVars, producerVars, consumerVars, queue, sending, history>>

Slot(i) == i % BufferSize

Init ==
  /\ putIndex = -1 /\ takeIndex = -1
  /\ entries = [s \in 0 .. BufferSize - 1 |-> Null]
  /\ seen = [p \in Producer |-> Null] /\ passed = {}
  /\ writing = [p \in Producer |-> Null]
  /\ consumer = "take" /\ takes = 0 /\ batch = FALSE /\ tries = 0 /\ position = 0
  /\ queue = [w \in Worker |-> 0] /\ sending = [w \in Worker |-> FALSE]
  /\ found = <<-1, Null>> /\ late = {} /\ untold = 0

-----------------------------------------------------------------------------
(* ProducerAgent.put and RingBuffer.put.                                   *)

\* Mutant: the buffer is never full.
FullNever(p) == FALSE

Full(p) == seen[p] - takeIndex > BufferSize

\* The positions that are handed out and not written yet.
Pending == {writing[p] : p \in Producer} \ {Null}

\* The check reads the two indices one after the other.
ReadPut(p) ==
  /\ p \notin passed /\ writing[p] = Null /\ seen[p] = Null
  /\ seen' = [seen EXCEPT ![p] = putIndex]
  /\ UNCHANGED <<ringVars, passed, writing, consumerVars, queue, sending, history>>

\* A full buffer misses the measurement; the check and the increment are
\* two steps, so several threads may pass it at once.
Check(p) ==
  /\ seen[p] # Null
  /\ seen' = [seen EXCEPT ![p] = Null]
  /\ passed' = IF Full(p) THEN passed ELSE passed \cup {p}
  /\ UNCHANGED <<ringVars, writing, consumerVars, queue, sending, history>>

Reserve(p) ==
  /\ p \in passed /\ putIndex < MaxPut
  /\ putIndex' = putIndex + 1
  /\ passed' = passed \ {p}
  /\ writing' = [writing EXCEPT ![p] = putIndex']
  /\ late' = late \cup {i \in Pending : Slot(i) = Slot(putIndex')}
  /\ UNCHANGED <<takeIndex, entries, seen, consumerVars, queue, sending,
                 found, untold>>

\* Mutant: the slot is computed from the index again, as the consumer does.
WriteEntryCurrent(p) ==
  /\ writing[p] # Null
  /\ entries' = [entries EXCEPT ![Slot(putIndex)] = writing[p]]
  /\ writing' = [writing EXCEPT ![p] = Null]
  /\ UNCHANGED <<putIndex, takeIndex, seen, passed, consumerVars, queue, sending,
                 history>>

WriteEntry(p) ==
  /\ writing[p] # Null
  /\ entries' = [entries EXCEPT ![Slot(writing[p])] = writing[p]]
  /\ writing' = [writing EXCEPT ![p] = Null]
  /\ UNCHANGED <<putIndex, takeIndex, seen, passed, consumerVars, queue, sending,
                 history>>

-----------------------------------------------------------------------------
(* ConsumerAgent.run and RingBuffer.takeForTimeout.                        *)

\* takeNextForTimeout first moves the index, then looks.
TakeNext ==
  /\ consumer = "take" /\ takes < TakeSize
  /\ takeIndex' = takeIndex + 1
  /\ consumer' = "look"
  /\ UNCHANGED <<putIndex, entries, producerVars, takes, batch, tries, position,
                 queue, sending, history>>

\* Only a position below the newest is read; an empty entry is skipped.
Read ==
  /\ consumer = "look" /\ takeIndex < putIndex
  /\ LET e == entries[Slot(takeIndex)]
     IN /\ batch' = (batch \/ e # Null)
        /\ found' = <<takeIndex, e>>
  /\ late' = late \cup ({takeIndex} \cap Pending)
  /\ takes' = takes + 1 /\ consumer' = "take"
  /\ UNCHANGED <<ringVars, producerVars, tries, position, queue, sending, untold>>

\* The timeout of one take: there is nothing at the position yet.
TimeOut ==
  /\ consumer = "look" /\ takeIndex >= putIndex
  /\ consumer' = "back"
  /\ UNCHANGED <<ringVars, producerVars, takes, batch, tries, position,
                 queue, sending, history>>

\* Mutant: the index is not taken back.
GiveUpAhead ==
  /\ consumer = "back"
  /\ takes' = takes + 1 /\ consumer' = "take"
  /\ UNCHANGED <<ringVars, producerVars, batch, tries, position, queue, sending, history>>

\* The index is taken back, whatever was put meanwhile.
GiveUp ==
  /\ consumer = "back"
  /\ takeIndex' = takeIndex - 1
  /\ takes' = takes + 1 /\ consumer' = "take"
  /\ UNCHANGED <<putIndex, entries, producerVars, batch, tries, position,
                 queue, sending, history>>

\* The batch goes to the SendAgentGroup, if there is anything in it.
TakesDone ==
  /\ consumer = "take" /\ takes = TakeSize
  /\ takes' = 0 /\ tries' = 0
  /\ consumer' = IF batch THEN "put" ELSE "take"
  /\ UNCHANGED <<ringVars, producerVars, batch, position, queue, sending, history>>

-----------------------------------------------------------------------------
(* SendAgentGroup.put and SendAgent.forcePut.                              *)

HasRoom(w) == queue[w] < QueueCap

Handed == consumer' = "take" /\ batch' = FALSE

\* Mutant: the queue's put in place of its offer.
OfferWaits ==
  /\ consumer = "put" /\ tries < Workers
  /\ position' = (position + 1) % Workers
  /\ HasRoom(position')
  /\ queue' = [queue EXCEPT ![position'] = @ + 1]
  /\ Handed
  /\ UNCHANGED <<ringVars, producerVars, takes, tries, sending, history>>

\* Round robin over the workers until one takes the batch.
Offer ==
  /\ consumer = "put" /\ tries < Workers
  /\ position' = (position + 1) % Workers
  /\ IF HasRoom(position')
     THEN /\ queue' = [queue EXCEPT ![position'] = @ + 1]
          /\ Handed /\ UNCHANGED tries
     ELSE tries' = tries + 1 /\ UNCHANGED <<queue, consumer, batch>>
  /\ UNCHANGED <<ringVars, producerVars, takes, sending, history>>

\* Mutant: a batch that found room at the second try counts as lost.
OfferAgainTold ==
  /\ consumer = "put" /\ tries = Workers
  /\ IF HasRoom(Chosen)
     THEN /\ queue' = [queue EXCEPT ![Chosen] = @ + 1]
          /\ untold' = untold - 1
          /\ Handed
     ELSE consumer' = "remove" /\ UNCHANGED <<queue, batch, untold>>
  /\ UNCHANGED <<ringVars, producerVars, takes, tries, position, sending, found, late>>

\* forcePut tries once more.
OfferAgain ==
  /\ consumer = "put" /\ tries = Workers
  /\ IF HasRoom(Chosen)
     THEN /\ queue' = [queue EXCEPT ![Chosen] = @ + 1]
          /\ Handed
     ELSE consumer' = "remove" /\ UNCHANGED <<queue, batch>>
  /\ UNCHANGED <<ringVars, producerVars, takes, tries, position, sending, history>>

\* queue.remove() throws if the worker has emptied the queue meanwhile, and
\* nothing on the way up catches it: the consumer's thread ends, and the
\* batch in its hand is lost without an answer.
Remove ==
  /\ consumer = "remove"
  /\ untold' = untold + 1
  /\ IF queue[Chosen] = 0
     THEN consumer' = "dead" /\ UNCHANGED queue
     ELSE queue' = [queue EXCEPT ![Chosen] = @ - 1] /\ consumer' = "force"
  /\ UNCHANGED <<ringVars, producerVars, takes, batch, tries, position, sending,
                 found, late>>

ForceOffer ==
  /\ consumer = "force"
  /\ queue' = IF HasRoom(Chosen)
              THEN [queue EXCEPT ![Chosen] = @ + 1] ELSE queue
  /\ untold' = IF HasRoom(Chosen) THEN untold - 1 ELSE untold
  /\ Handed
  /\ UNCHANGED <<ringVars, producerVars, takes, tries, position, sending, found, late>>

-----------------------------------------------------------------------------
(* SendAgent.run.                                                          *)

Poll(w) ==
  /\ ~sending[w] /\ queue[w] > 0
  /\ queue' = [queue EXCEPT ![w] = @ - 1]
  /\ sending' = [sending EXCEPT ![w] = TRUE]
  /\ UNCHANGED <<ringVars, producerVars, consumerVars, history>>

\* Whatever store() throws is logged; the batch is gone either way.
Stored(w) ==
  /\ sending[w]
  /\ sending' = [sending EXCEPT ![w] = FALSE]
  /\ UNCHANGED <<ringVars, producerVars, consumerVars, queue, history>>

-----------------------------------------------------------------------------
ConsumerStep ==
  \/ TakeNext \/ Read \/ TimeOut \/ GiveUp \/ TakesDone
  \/ Offer \/ OfferAgain \/ Remove \/ ForceOffer

ProducerStep(p) == ReadPut(p) \/ Check(p) \/ Reserve(p) \/ WriteEntry(p)

Next ==
  \/ ConsumerStep
  \/ \E p \in Producer : ProducerStep(p)
  \/ \E w \in Worker : Poll(w) \/ Stored(w)

Spec == Init /\ [][Next]_vars

\* The consumer's thread runs, and a thread that has begun a put ends it;
\* no thread has to log anything, nor a worker to be done with a batch.
FairSpec ==
  /\ Spec
  /\ WF_vars(ConsumerStep)
  /\ \A p \in Producer : WF_vars(WriteEntry(p))

-----------------------------------------------------------------------------
(* Properties.                                                             *)

Position == 0 .. MaxPut

MetricTypes ==
  /\ putIndex \in Position \cup {-1} /\ takeIndex \in -1 .. MaxPut + 1
  /\ entries \in [0 .. BufferSize - 1 -> Position \cup {Null}]
  /\ seen \in [Producer -> Position \cup {-1, Null}] /\ passed \subseteq Producer
  /\ writing \in [Producer -> Position \cup {Null}]
  /\ consumer \in {"take", "look", "back", "put", "remove", "force", "dead"}
  /\ takes \in 0 .. TakeSize /\ tries \in 0 .. Workers /\ position \in Worker
  /\ batch \in BOOLEAN /\ queue \in [Worker -> 0 .. QueueCap]
  /\ sending \in [Worker -> BOOLEAN]
  /\ found \in (Position \cup {-1}) \X (Position \cup {Null})
  /\ late \subseteq Position /\ untold \in Int

(* Every variable has its type, and the positions that are handed out and  *)
(* not taken, with those that threads past the check are about to be given,*)
(* are at most as many as the buffer and the threads together, and one     *)
(* more: what the two reads of the check, the increment after it and an    *)
(* index that is moved before there is anything to take let slip.          *)
LagBounded ==
  /\ MetricTypes
  /\ putIndex - takeIndex + Cardinality(passed)
       <= BufferSize + Cardinality(Producer) + 1

(* The consumer finds at a position what was logged there, or what was     *)
(* logged one lap later; never an empty or an old entry, unless a producer *)
(* was so late that its position, or an earlier one of the same entry, had *)
(* been taken or lapped before it was written.                             *)
OldOnlyIfLate ==
  found[1] # -1 =>
    \/ found[2] \in {found[1], found[1] + BufferSize}
    \/ \E i \in late : i <= found[1] /\ Slot(i) = Slot(found[1])

(* SendAgentGroup.put says that data was lost exactly as often as a batch  *)
(* was thrown away, as its comment promises, but for two moments: between  *)
(* the remove and the offer of forcePut, and after a remove that threw.    *)
(* The batch then in hand is lost and nobody is told, against the comment; *)
(* it is the only one, for the thread that hands batches over is dead.     *)
LossTold ==
  untold = IF consumer \in {"force", "dead"} THEN 1 ELSE 0

(* The consumer takes the positions one after the other: a take that timed *)
(* out, having moved the index first, gives the position back.             *)
NonePassedOver == [][found' # found => found'[1] = found[1] + 1]_vars

(* Every position but the newest is taken in the end, however busy the     *)
(* workers are, unless the consumer's thread has died in forcePut.         *)
EveryPositionTaken ==
  \A i \in Position : (putIndex > i) ~> (found[1] >= i \/ consumer = "dead")
=============================================================================

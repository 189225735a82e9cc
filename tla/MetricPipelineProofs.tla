------------------------ MODULE MetricPipelineProofs ------------------------
(***************************************************************************)
(* Theorems about MetricPipeline, for any number of threads that log, of   *)
(* positions of the ring, of takes and of workers.                         *)
(***************************************************************************)
EXTENDS MetricPipeline, FiniteSetTheorems, TLAPS

-----------------------------------------------------------------------------
(* The consumer's place.  While it looks at a position, or is about to give*)
(* it back, takeIndex is that position and not yet the last one taken.     *)

Looking == consumer \in {"look", "back"}

Cursor ==
  /\ takeIndex <= putIndex + (IF Looking THEN 1 ELSE 0)
  /\ Looking => takeIndex >= 0 /\ takes < TakeSize
  /\ found[1] = IF Looking THEN takeIndex - 1 ELSE takeIndex

(* A thread is at one place of put: it has read an index, or found room, or*)
(* has a position to write, and then one that is handed out.               *)
OnePlace ==
  /\ \A p \in passed : seen[p] = Null /\ writing[p] = Null
  /\ \A p \in Producer : seen[p] # Null => writing[p] = Null /\ seen[p] <= putIndex
  /\ \A p \in Producer : writing[p] # Null => writing[p] <= putIndex

LEMMA SlotType == \A i \in Nat : Slot(i) \in 0 .. BufferSize - 1
BY MetricAssumption DEF Slot

LEMMA TypesInit == Init => MetricTypes /\ Cursor /\ OnePlace
<1> SUFFICES ASSUME Init PROVE MetricTypes /\ Cursor /\ OnePlace
  OBVIOUS
<1>1. MetricTypes
  <2>1. found \in (Position \cup {-1}) \X (Position \cup {Null})
    BY DEF Init
  <2>2. position \in Worker /\ takes \in 0 .. TakeSize /\ tries \in 0 .. Workers
    BY MetricAssumption DEF Init, Worker
  <2>3. /\ entries \in [0 .. BufferSize - 1 -> Position \cup {Null}]
        /\ seen \in [Producer -> Position \cup {-1, Null}]
        /\ writing \in [Producer -> Position \cup {Null}]
        /\ sending \in [Worker -> BOOLEAN]
    BY DEF Init
  <2>4. queue \in [Worker -> 0 .. QueueCap]
    BY MetricAssumption DEF Init
  <2> QED BY <2>1, <2>2, <2>3, <2>4, MetricAssumption DEF Init, MetricTypes, Position
<1>2. Cursor
  BY MetricAssumption DEF Init, Cursor, Looking
<1>3. OnePlace
  BY DEF Init, OnePlace
<1> QED BY <1>1, <1>2, <1>3

LEMMA QueueGrows ==
  ASSUME MetricTypes, NEW w \in 0 .. Workers - 1, HasRoom(w)
  PROVE  [queue EXCEPT ![w] = @ + 1] \in [0 .. Workers - 1 -> 0 .. QueueCap]
<1>1. queue \in [0 .. Workers - 1 -> 0 .. QueueCap] /\ QueueCap \in Nat
  BY MetricAssumption DEF MetricTypes, Worker
<1>2. queue[w] + 1 \in 0 .. QueueCap
  BY <1>1 DEF HasRoom
<1> QED BY <1>1, <1>2

LEMMA ConsumerTypes ==
  ASSUME MetricTypes, Cursor, ConsumerStep
  PROVE  MetricTypes' /\ Cursor'
<1> USE MetricAssumption DEF MetricTypes, Cursor, Looking, Worker, Position,
      ringVars, producerVars, history
<1>1. CASE TakeNext
  BY <1>1, SMTT(30) DEF TakeNext
<1>2. CASE Read
  <2>1. Slot(takeIndex) \in 0 .. BufferSize - 1
    BY <1>2, SlotType DEF Read
  <2>2. /\ takeIndex \in 0 .. MaxPut
        /\ entries[Slot(takeIndex)] \in 0 .. MaxPut \cup {Null}
    BY <1>2, <2>1 DEF Read
  <2>3. /\ found' = <<takeIndex, entries[Slot(takeIndex)]>>
        /\ found'[1] = takeIndex
        /\ batch' \in BOOLEAN
    BY <1>2 DEF Read
  <2>4. found' \in (0 .. MaxPut \cup {-1}) \X (0 .. MaxPut \cup {Null})
    BY <2>2, <2>3
  <2>5. late' \subseteq 0 .. MaxPut
    BY <1>2, <2>2 DEF Read
  <2> QED BY <1>2, <2>2, <2>3, <2>4, <2>5, SMTT(30) DEF Read
<1>3. CASE TimeOut
  BY <1>3 DEF TimeOut
<1>4. CASE GiveUp
  BY <1>4 DEF GiveUp
<1>5. CASE TakesDone
  BY <1>5 DEF TakesDone
<1>6. CASE Offer
  <2>1. position' \in 0 .. Workers - 1
    BY <1>6 DEF Offer
  <2>2. CASE HasRoom(position')
    <3>1. queue' = [queue EXCEPT ![position'] = @ + 1] /\ Handed /\ UNCHANGED tries
      BY <1>6, <2>2 DEF Offer
    <3>2. queue' \in [0 .. Workers - 1 -> 0 .. QueueCap]
      BY <2>1, <2>2, <3>1, QueueGrows
    <3> QED BY <1>6, <2>1, <3>1, <3>2 DEF Offer, Handed
  <2>3. CASE ~HasRoom(position')
    BY <1>6, <2>1, <2>3, SMTT(30) DEF Offer
  <2> QED BY <2>2, <2>3
<1>7. CASE OfferAgain
  <2>1. CASE HasRoom(Chosen)
    <3>1. queue' = [queue EXCEPT ![Chosen] = @ + 1] /\ Chosen \in 0 .. Workers - 1
      BY <1>7, <2>1 DEF OfferAgain
    <3>2. queue' \in [0 .. Workers - 1 -> 0 .. QueueCap]
      BY <2>1, <3>1, QueueGrows
    <3> QED BY <1>7, <2>1, <3>2 DEF OfferAgain, Handed
  <2>2. CASE ~HasRoom(Chosen)
    BY <1>7, <2>2 DEF OfferAgain
  <2> QED BY <2>1, <2>2
<1>8. CASE Remove
  <2>1. CASE queue[Chosen] = 0
    BY <1>8, <2>1 DEF Remove
  <2>2. CASE queue[Chosen] # 0
    <3>1. queue' = [queue EXCEPT ![Chosen] = @ - 1]
      BY <1>8, <2>2 DEF Remove
    <3>2. queue[Chosen] - 1 \in 0 .. QueueCap
      BY <2>2
    <3>3. queue' \in [0 .. Workers - 1 -> 0 .. QueueCap]
      BY <3>1, <3>2
    <3>4. untold' \in Int /\ consumer' = "force" /\ consumer = "remove"
      BY <1>8, <2>2 DEF Remove
    <3>5. UNCHANGED <<putIndex, takeIndex, entries, seen, passed, writing, takes,
                      batch, tries, position, sending, found, late>>
      BY <1>8 DEF Remove
    <3> QED BY <3>3, <3>4, <3>5
  <2> QED BY <2>1, <2>2
<1>9. CASE ForceOffer
  <2>1. queue' \in [0 .. Workers - 1 -> 0 .. QueueCap]
    BY <1>9, QueueGrows DEF ForceOffer
  <2>2. untold' \in Int
    BY <1>9 DEF ForceOffer
  <2> QED BY <1>9, <2>1, <2>2 DEF ForceOffer, Handed
<1> QED BY <1>1, <1>2, <1>3, <1>4, <1>5, <1>6, <1>7, <1>8, <1>9 DEF ConsumerStep

LEMMA ProducerTypes ==
  ASSUME MetricTypes, Cursor, NEW p \in Producer, ProducerStep(p)
  PROVE  MetricTypes' /\ Cursor'
<1> USE MetricAssumption DEF MetricTypes, Cursor, Looking, Worker, Position,
      ringVars, consumerVars, history
<1>1. CASE ReadPut(p)
  BY <1>1 DEF ReadPut
<1>2. CASE Check(p)
  BY <1>2 DEF Check
<1>3. CASE Reserve(p)
  <2>1. Pending \subseteq 0 .. MaxPut
    BY DEF Pending
  <2>2. putIndex' \in 0 .. MaxPut /\ passed' \subseteq Producer
    BY <1>3 DEF Reserve
  <2>3. late' \subseteq 0 .. MaxPut
    BY <1>3, <2>1 DEF Reserve
  <2>4. writing' \in [Producer -> 0 .. MaxPut \cup {Null}]
    BY <1>3, <2>2 DEF Reserve
  <2> QED BY <1>3, <2>2, <2>3, <2>4, SMTT(30) DEF Reserve
<1>4. CASE WriteEntry(p)
  <2>1. writing[p] \in 0 .. MaxPut /\ Slot(writing[p]) \in 0 .. BufferSize - 1
    BY <1>4, SlotType DEF WriteEntry
  <2> QED BY <1>4, <2>1 DEF WriteEntry
<1> QED BY <1>1, <1>2, <1>3, <1>4 DEF ProducerStep

LEMMA OnePlaceKept ==
  ASSUME MetricTypes, OnePlace, NEW p \in Producer, ProducerStep(p)
  PROVE  OnePlace'
<1> USE MetricAssumption DEF MetricTypes, OnePlace, Position,
      ringVars, consumerVars, history
<1>1. CASE ReadPut(p)
  BY <1>1 DEF ReadPut
<1>2. CASE Check(p)
  BY <1>2 DEF Check
<1>3. CASE Reserve(p)
  <2>1. /\ putIndex' = putIndex + 1 /\ seen' = seen
        /\ p \in passed /\ passed' = passed \ {p}
        /\ \A q \in Producer : writing'[q] = IF q = p THEN putIndex' ELSE writing[q]
    BY <1>3 DEF Reserve
  <2>2. ASSUME NEW q \in passed' PROVE seen'[q] = Null /\ writing'[q] = Null
    BY <2>1, <2>2
  <2>3. ASSUME NEW q \in Producer, seen'[q] # Null
        PROVE  writing'[q] = Null /\ seen'[q] <= putIndex'
    <3>1. q # p /\ seen[q] <= putIndex /\ seen[q] \in Int /\ putIndex \in Int
      BY <2>1, <2>3
    <3> QED BY <2>1, <2>3, <3>1
  <2>4. ASSUME NEW q \in Producer, writing'[q] # Null PROVE writing'[q] <= putIndex'
    BY <2>1, <2>4
  <2> QED BY <2>2, <2>3, <2>4
<1>4. CASE WriteEntry(p)
  BY <1>4 DEF WriteEntry
<1> QED BY <1>1, <1>2, <1>3, <1>4 DEF ProducerStep

-----------------------------------------------------------------------------
(* How far the producers run ahead.  A thread that has found room, or has  *)
(* read an index that is still low enough, may be given a position beyond  *)
(* the lap that begins at T; one that has been given such a position has   *)
(* to read an index as high before it can be given another.  So the        *)
(* positions beyond that lap are no more than the threads on the side.     *)

\* The position that is taken next, or is being looked at.
NextTaken == IF Looking THEN takeIndex ELSE takeIndex + 1

Aside(T) ==
  {p \in Producer : p \notin passed /\ (seen[p] = Null \/ seen[p] > T + BufferSize)}

Crowd ==
  \A T \in Int : T >= NextTaken => putIndex - (T + BufferSize) <= Cardinality(Aside(T))

LEMMA AsideFinite ==
  \A T \in Int : IsFiniteSet(Aside(T)) /\ Cardinality(Aside(T)) \in Nat
BY MetricAssumption, FS_Subset, FS_CardinalityType DEF Aside

(* The consumer never moves the next position to be taken back.            *)
LEMMA NextTakenGrows ==
  ASSUME MetricTypes, ConsumerStep
  PROVE  NextTaken' >= NextTaken /\ UNCHANGED <<putIndex, producerVars>>
<1> USE DEF MetricTypes, NextTaken, Looking, ringVars, producerVars, history, Position
<1>1. CASE TakeNext BY <1>1 DEF TakeNext
<1>2. CASE Read BY <1>2 DEF Read
<1>3. CASE TimeOut BY <1>3 DEF TimeOut
<1>4. CASE GiveUp BY <1>4 DEF GiveUp
<1>5. CASE TakesDone BY <1>5 DEF TakesDone
<1>6. CASE Offer BY <1>6 DEF Offer, Handed
<1>7. CASE OfferAgain BY <1>7 DEF OfferAgain, Handed
<1>8. CASE Remove BY <1>8 DEF Remove
<1>9. CASE ForceOffer BY <1>9 DEF ForceOffer, Handed
<1> QED BY <1>1, <1>2, <1>3, <1>4, <1>5, <1>6, <1>7, <1>8, <1>9 DEF ConsumerStep

LEMMA CrowdConsumer ==
  ASSUME MetricTypes, MetricTypes', Crowd, ConsumerStep
  PROVE  Crowd'
<1>1. NextTaken' >= NextTaken /\ UNCHANGED <<putIndex, seen, passed>>
  BY NextTakenGrows DEF producerVars
<1>2. NextTaken \in Int /\ NextTaken' \in Int
  BY DEF MetricTypes, NextTaken, Position
<1> SUFFICES ASSUME NEW T \in Int, T >= NextTaken'
             PROVE  putIndex' - (T + BufferSize) <= Cardinality(Aside(T)')
  BY DEF Crowd
<1>3. Aside(T)' = Aside(T)
  BY <1>1 DEF Aside
<1> QED BY <1>1, <1>2, <1>3 DEF Crowd

LEMMA CrowdProducer ==
  ASSUME MetricTypes, MetricTypes', OnePlace, Crowd,
         NEW p \in Producer, ProducerStep(p)
  PROVE  Crowd'
<1>1. UNCHANGED <<takeIndex, consumer>> /\ NextTaken' = NextTaken /\ NextTaken \in Int
  <2>1. UNCHANGED <<takeIndex, consumer>>
    BY DEF ProducerStep, ReadPut, Check, Reserve, WriteEntry, ringVars, consumerVars
  <2> QED BY <2>1 DEF NextTaken, Looking, MetricTypes, Position
<1> SUFFICES ASSUME NEW T \in Int, T >= NextTaken
             PROVE  putIndex' - (T + BufferSize) <= Cardinality(Aside(T)')
  BY <1>1 DEF Crowd
<1>2. putIndex - (T + BufferSize) <= Cardinality(Aside(T))
  BY DEF Crowd
<1>3. /\ IsFiniteSet(Aside(T)) /\ Cardinality(Aside(T)) \in Nat
      /\ IsFiniteSet(Aside(T)') /\ Cardinality(Aside(T)') \in Nat
  <2>1. Aside(T)' \subseteq Producer
    BY DEF Aside
  <2> QED BY <2>1, AsideFinite, MetricAssumption, FS_Subset, FS_CardinalityType
<1>4. BufferSize \in Nat /\ putIndex \in Int /\ putIndex' \in Int
  BY MetricAssumption DEF MetricTypes, Position
<1>5. CASE ReadPut(p)
  <2>1. /\ putIndex' = putIndex /\ passed' = passed /\ p \notin passed
        /\ \A q \in Producer : seen'[q] = IF q = p THEN putIndex ELSE seen[q]
    BY <1>5 DEF ReadPut, ringVars, MetricTypes
  <2>2. CASE putIndex <= T + BufferSize
    BY <1>3, <1>4, <2>1, <2>2
  <2>3. CASE putIndex > T + BufferSize
    <3>1. Aside(T) \subseteq Aside(T)'
      BY <2>1, <2>3 DEF Aside
    <3>2. Cardinality(Aside(T)) <= Cardinality(Aside(T)')
      BY <1>3, <3>1, FS_Subset
    <3> QED BY <1>2, <1>3, <1>4, <2>1, <3>2
  <2> QED BY <1>4, <2>2, <2>3
<1>6. CASE Check(p)
  <2>1. /\ putIndex' = putIndex /\ seen[p] # Null /\ seen[p] \in Int
        /\ passed' = IF Full(p) THEN passed ELSE passed \cup {p}
        /\ \A q \in Producer : seen'[q] = IF q = p THEN Null ELSE seen[q]
    BY <1>6 DEF Check, ringVars, MetricTypes, Position
  <2>2. p \in Aside(T) => Full(p)
    <3>1. T >= takeIndex /\ takeIndex \in Int
      BY DEF NextTaken, MetricTypes, Position
    <3> QED BY <1>4, <2>1, <3>1 DEF Aside, Full
  <2>3. Aside(T) \subseteq Aside(T)'
    BY <2>1, <2>2 DEF Aside
  <2>4. Cardinality(Aside(T)) <= Cardinality(Aside(T)')
    BY <1>3, <2>3, FS_Subset
  <2> QED BY <1>2, <1>3, <1>4, <2>1, <2>4
<1>7. CASE Reserve(p)
  <2>1. /\ putIndex' = putIndex + 1 /\ seen' = seen /\ seen[p] = Null
        /\ p \in passed /\ passed' = passed \ {p}
    BY <1>7 DEF Reserve, OnePlace
  <2>2. Aside(T)' = Aside(T) \cup {p} /\ p \notin Aside(T)
    BY <2>1 DEF Aside
  <2>3. Cardinality(Aside(T)') = Cardinality(Aside(T)) + 1
    BY <1>3, <2>2, FS_AddElement
  <2> QED BY <1>2, <1>3, <1>4, <2>1, <2>3
<1>8. CASE WriteEntry(p)
  <2>1. putIndex' = putIndex /\ UNCHANGED <<seen, passed>>
    BY <1>8 DEF WriteEntry
  <2>2. Aside(T)' = Aside(T)
    BY <2>1 DEF Aside
  <2> QED BY <1>2, <2>1, <2>2
<1> QED BY <1>5, <1>6, <1>7, <1>8 DEF ProducerStep

LEMMA CrowdInit == Init => Crowd
<1> SUFFICES ASSUME Init, NEW T \in Int, T >= NextTaken
             PROVE  putIndex - (T + BufferSize) <= Cardinality(Aside(T))
  BY DEF Crowd
<1>1. putIndex = -1 /\ T >= 0
  BY DEF Init, NextTaken, Looking
<1> QED BY <1>1, AsideFinite, MetricAssumption

LEMMA CrowdBounds ==
  ASSUME MetricTypes, Crowd
  PROVE  LagBounded
<1> DEFINE T == takeIndex + 1
<1>1. T \in Int /\ T >= NextTaken /\ takeIndex \in Int /\ putIndex \in Int
  BY DEF NextTaken, MetricTypes, Position
<1>2. putIndex - (T + BufferSize) <= Cardinality(Aside(T))
  BY <1>1 DEF Crowd
<1>3. Cardinality(Aside(T)) <= Cardinality(Producer) - Cardinality(passed)
  <2>1. /\ IsFiniteSet(Producer) /\ passed \in SUBSET Producer
        /\ IsFiniteSet(Producer \ passed) /\ IsFiniteSet(passed)
    BY MetricAssumption, FS_Subset DEF MetricTypes
  <2>2. Cardinality(Producer \ passed)
          = Cardinality(Producer) - Cardinality(Producer \cap passed)
    BY <2>1, FS_Difference
  <2>3. Producer \cap passed = passed
    BY <2>1
  <2>4. Aside(T) \in SUBSET (Producer \ passed)
    BY DEF Aside
  <2>5. Cardinality(Aside(T)) <= Cardinality(Producer \ passed)
    BY <2>1, <2>4, FS_Subset
  <2> QED BY <2>2, <2>3, <2>5
<1>4. /\ Cardinality(passed) \in Nat /\ Cardinality(Producer) \in Nat
      /\ Cardinality(Aside(T)) \in Nat /\ BufferSize \in Nat
  BY <1>1, AsideFinite, MetricAssumption, FS_Subset, FS_CardinalityType DEF MetricTypes
<1> QED BY <1>1, <1>2, <1>3, <1>4 DEF LagBounded

-----------------------------------------------------------------------------
(* What the consumer finds.  A position that is handed out is still to be  *)
(* written, or its entry holds it or a later one of the same entry, unless *)
(* a thread has been late at that entry.                                   *)

LateBefore(i) == \E j \in late : j <= i /\ Slot(j) = Slot(i)

Kept(i) ==
  \/ i \in Pending
  \/ entries[Slot(i)] # Null /\ entries[Slot(i)] >= i
  \/ LateBefore(i)

EntriesFit ==
  \A s \in 0 .. BufferSize - 1 :
    entries[s] # Null => Slot(entries[s]) = s /\ entries[s] <= putIndex

\* A position whose entry has been handed out again before it was written.
LapsKnown ==
  \A j \in Pending : \A i \in 0 .. putIndex : j < i /\ Slot(i) = Slot(j) => j \in late

AllKept == \A i \in 0 .. putIndex : Kept(i)

(* Division with remainder, and the difference of two such numbers.        *)
LEMMA Division ==
  ASSUME NEW a \in Int, NEW b \in Int, b > 0
  PROVE  a = b * (a \div b) + (a % b) /\ a \div b \in Int /\ a % b \in Int
<1>1. a = b * (a \div b) + (a % b)
  BY Z3
<1>2. a \div b \in Int /\ a % b \in Int
  OBVIOUS
<1> QED BY <1>1, <1>2

LEMMA SameRemainder ==
  ASSUME NEW b \in Int, NEW m \in Int, NEW n \in Int, NEW r \in Int
  PROVE  (b * n + r) - (b * m + r) = b * (n - m)
OBVIOUS

(* Two positions of one entry that are less than two laps apart.           *)
LEMMA OneLap ==
  ASSUME NEW i \in Nat, NEW e \in Nat, Slot(e) = Slot(i), i <= e, e - i < 2 * BufferSize
  PROVE  e \in {i, i + BufferSize}
<1> DEFINE B == BufferSize
           m == i \div B
           n == e \div B
<1>1. B \in Int /\ B > 0
  BY MetricAssumption
<1> HIDE DEF B
<1>2. m \in Int /\ n \in Int /\ i = B * m + (i % B) /\ e = B * n + (e % B)
  BY <1>1, Division
<1>3. i % B = e % B
  BY DEF Slot, B
<1> HIDE DEF m, n
<1>4. i % B \in Int
  BY <1>1, Division
<1>5. e - i = B * (n - m)
  BY <1>1, <1>2, <1>3, <1>4, SameRemainder
<1> DEFINE k == n - m
<1>6. k \in Int /\ 0 <= B * k /\ B * k < 2 * B
  BY <1>1, <1>2, <1>5 DEF B
<1> HIDE DEF k
<1>7. k >= 0
  BY <1>1, <1>6
<1>8. k < 2
  BY <1>1, <1>6
<1>9. k = 0 \/ k = 1
  BY <1>6, <1>7, <1>8
<1>10. e - i = B * k
  BY <1>5 DEF k
<1> QED BY <1>1, <1>9, <1>10 DEF B

LEMMA PositionsInt ==
  ASSUME MetricTypes
  PROVE  /\ putIndex \in Int /\ putIndex >= -1 /\ takeIndex \in Int
         /\ Pending \subseteq Nat /\ late \subseteq Nat
         /\ \A s \in 0 .. BufferSize - 1 : entries[s] # Null => entries[s] \in Nat
BY MetricAssumption DEF MetricTypes, Position, Pending

LEMMA PendingWritten ==
  ASSUME MetricTypes, OnePlace
  PROVE  \A i \in Pending : i <= putIndex
BY DEF OnePlace, Pending

LEMMA RingInit == Init => EntriesFit /\ LapsKnown /\ AllKept
<1> SUFFICES ASSUME Init PROVE EntriesFit /\ LapsKnown /\ AllKept
  OBVIOUS
<1>1. Pending = {} /\ 0 .. putIndex = {}
  BY DEF Init, Pending
<1> QED BY <1>1 DEF Init, EntriesFit, LapsKnown, AllKept

LEMMA RingReserve ==
  ASSUME MetricTypes, MetricTypes', OnePlace, EntriesFit, LapsKnown, AllKept,
         NEW p \in Producer, Reserve(p)
  PROVE  EntriesFit' /\ LapsKnown' /\ AllKept'
<1>1. /\ putIndex' = putIndex + 1 /\ entries' = entries
      /\ late' = late \cup {i \in Pending : Slot(i) = Slot(putIndex')}
      /\ writing[p] = Null
      /\ \A q \in Producer : writing'[q] = IF q = p THEN putIndex' ELSE writing[q]
  BY DEF Reserve, MetricTypes, OnePlace
<1>2. putIndex' \in Nat /\ putIndex \in Int
  BY <1>1, PositionsInt
<1>3. Pending' = Pending \cup {putIndex'}
  BY <1>1, <1>2, MetricAssumption DEF Pending
<1>4. EntriesFit'
  <2> SUFFICES ASSUME NEW s \in 0 .. BufferSize - 1, entries[s] # Null
               PROVE  Slot(entries[s]) = s /\ entries[s] <= putIndex'
    BY <1>1 DEF EntriesFit
  <2>1. Slot(entries[s]) = s /\ entries[s] <= putIndex /\ entries[s] \in Nat
    BY PositionsInt DEF EntriesFit
  <2> QED BY <1>1, <1>2, <2>1
<1>5. LapsKnown'
  <2> SUFFICES ASSUME NEW j \in Pending', NEW i \in 0 .. putIndex',
                      j < i, Slot(i) = Slot(j)
               PROVE  j \in late'
    BY DEF LapsKnown, Slot
  <2>1. j \in Pending /\ j \in Nat
    BY <1>2, <1>3, PositionsInt
  <2>2. CASE i = putIndex'
    BY <1>1, <2>1, <2>2
  <2>3. CASE i # putIndex'
    <3>1. i \in 0 .. putIndex
      BY <1>1, <1>2, <2>3
    <3> QED BY <1>1, <2>1, <3>1 DEF LapsKnown
  <2> QED BY <2>2, <2>3
<1>6. AllKept'
  <2> SUFFICES ASSUME NEW i \in 0 .. putIndex'
               PROVE  \/ i \in Pending'
                      \/ entries[Slot(i)] # Null /\ entries[Slot(i)] >= i
                      \/ \E j \in late' : j <= i /\ Slot(j) = Slot(i)
    BY <1>1 DEF AllKept, Kept, LateBefore, Slot
  <2>1. CASE i = putIndex'
    BY <1>3, <2>1
  <2>2. CASE i # putIndex'
    <3>1. i \in 0 .. putIndex
      BY <1>1, <1>2, <2>2
    <3>2. Kept(i)
      BY <3>1 DEF AllKept
    <3> QED BY <1>1, <1>3, <3>2 DEF Kept, LateBefore
  <2> QED BY <2>1, <2>2
<1> QED BY <1>4, <1>5, <1>6

LEMMA RingWrite ==
  ASSUME MetricTypes, MetricTypes', OnePlace, EntriesFit, LapsKnown, AllKept,
         NEW p \in Producer, WriteEntry(p)
  PROVE  EntriesFit' /\ LapsKnown' /\ AllKept'
<1> DEFINE j == writing[p]
<1>1. /\ j # Null /\ j \in Pending /\ j \in Nat /\ j <= putIndex
      /\ putIndex' = putIndex /\ late' = late /\ putIndex \in Int
  BY PositionsInt, PendingWritten DEF WriteEntry, Pending, history
<1>2. Slot(j) \in 0 .. BufferSize - 1
  BY <1>1, SlotType
<1>3. \A s \in 0 .. BufferSize - 1 :
        entries'[s] = IF s = Slot(j) THEN j ELSE entries[s]
  BY DEF WriteEntry, MetricTypes
<1>4. \A q \in Producer : writing'[q] = IF q = p THEN Null ELSE writing[q]
  BY DEF WriteEntry, MetricTypes
<1>5. Pending' \subseteq Pending /\ \A i \in Pending : i # j => i \in Pending'
  BY <1>4 DEF Pending
<1> HIDE DEF j
<1>6. EntriesFit'
  <2> SUFFICES ASSUME NEW s \in 0 .. BufferSize - 1, entries'[s] # Null
               PROVE  Slot(entries'[s]) = s /\ entries'[s] <= putIndex
    BY <1>1 DEF EntriesFit, Slot
  <2> QED BY <1>1, <1>3 DEF EntriesFit
<1>7. LapsKnown'
  BY <1>1, <1>5 DEF LapsKnown, Slot
<1>8. AllKept'
  <2> SUFFICES ASSUME NEW i \in 0 .. putIndex
               PROVE  \/ i \in Pending'
                      \/ entries'[Slot(i)] # Null /\ entries'[Slot(i)] >= i
                      \/ \E k \in late : k <= i /\ Slot(k) = Slot(i)
    BY <1>1 DEF AllKept, Kept, LateBefore, Slot
  <2>1. Kept(i) /\ i \in Nat /\ Slot(i) \in 0 .. BufferSize - 1
    BY <1>1, SlotType DEF AllKept
  <2>2. CASE Slot(i) = Slot(j) /\ i <= j
    BY <1>1, <1>3, <2>1, <2>2
  <2>3. CASE Slot(i) = Slot(j) /\ j < i
    BY <1>1, <2>3 DEF LapsKnown
  <2>4. CASE Slot(i) # Slot(j)
    <3>1. i # j
      BY <2>4
    <3> QED BY <1>3, <1>5, <2>1, <2>4, <3>1 DEF Kept, LateBefore
  <2> QED BY <1>1, <2>1, <2>2, <2>3, <2>4
<1> QED BY <1>6, <1>7, <1>8

(* Nobody else hands out, writes or forgets a position.                    *)
LEMMA RingStays ==
  ASSUME EntriesFit, LapsKnown, AllKept, late \subseteq late',
         UNCHANGED <<putIndex, entries, writing>>
  PROVE  EntriesFit' /\ LapsKnown' /\ AllKept'
<1>1. Pending' = Pending
  BY DEF Pending
<1>2. EntriesFit' /\ LapsKnown'
  BY <1>1 DEF EntriesFit, LapsKnown, Slot
<1>3. ASSUME NEW i \in 0 .. putIndex PROVE Kept(i)'
  <2>1. Kept(i)
    BY DEF AllKept
  <2> QED BY <1>1, <2>1 DEF Kept, LateBefore, Slot
<1> QED BY <1>2, <1>3 DEF AllKept

-----------------------------------------------------------------------------
(* The invariant.                                                          *)

IInv ==
  /\ MetricTypes /\ Cursor /\ OnePlace /\ Crowd
  /\ EntriesFit /\ LapsKnown /\ AllKept

LEMMA ConsumerLeaves ==
  ASSUME ConsumerStep
  PROVE  /\ UNCHANGED <<putIndex, entries, seen, passed, writing>>
         /\ late \subseteq late'
         /\ Read \/ UNCHANGED <<found, late>>
BY DEF ConsumerStep, TakeNext, Read, TimeOut, GiveUp, TakesDone, Offer, OfferAgain,
       Remove, ForceOffer, Handed, ringVars, producerVars, history

LEMMA ProducerLeaves ==
  ASSUME NEW p \in Producer, ProducerStep(p)
  PROVE  UNCHANGED <<found, untold, consumer>> /\ late \subseteq late'
BY DEF ProducerStep, ReadPut, Check, Reserve, WriteEntry, history, consumerVars

LEMMA WorkerLeaves ==
  ASSUME MetricTypes, NEW w \in Worker, Poll(w) \/ Stored(w)
  PROVE  /\ MetricTypes'
         /\ UNCHANGED <<ringVars, producerVars, consumerVars, history>>
<1>1. CASE Poll(w)
  <2>1. queue[w] - 1 \in 0 .. QueueCap
    BY <1>1, MetricAssumption DEF Poll, MetricTypes
  <2>2. queue' \in [Worker -> 0 .. QueueCap] /\ sending' \in [Worker -> BOOLEAN]
    BY <1>1, <2>1 DEF Poll, MetricTypes
  <2> QED BY <1>1, <2>2 DEF Poll, MetricTypes, ringVars, producerVars,
               consumerVars, history
<1>2. CASE Stored(w)
  BY <1>2 DEF Stored, MetricTypes, ringVars, producerVars, consumerVars, history
<1> QED BY <1>1, <1>2

LEMMA InvInit == Init => IInv
BY TypesInit, CrowdInit, RingInit DEF IInv

LEMMA InvStep ==
  ASSUME IInv, [Next]_vars
  PROVE  IInv'
<1> USE DEF IInv
<1>1. CASE ConsumerStep
  <2>1. MetricTypes' /\ Cursor'
    BY <1>1, ConsumerTypes
  <2>2. OnePlace'
    BY <1>1, ConsumerLeaves DEF OnePlace
  <2>3. Crowd'
    BY <1>1, <2>1, CrowdConsumer
  <2>4. EntriesFit' /\ LapsKnown' /\ AllKept'
    BY <1>1, ConsumerLeaves, RingStays
  <2> QED BY <2>1, <2>2, <2>3, <2>4
<1>2. ASSUME NEW p \in Producer, ProducerStep(p) PROVE IInv'
  <2>1. MetricTypes' /\ Cursor'
    BY <1>2, ProducerTypes
  <2>2. OnePlace'
    BY <1>2, OnePlaceKept
  <2>3. Crowd'
    BY <1>2, <2>1, CrowdProducer
  <2>4. EntriesFit' /\ LapsKnown' /\ AllKept'
    <3>1. CASE Reserve(p)
      BY <2>1, <3>1, RingReserve
    <3>2. CASE WriteEntry(p)
      BY <2>1, <3>2, RingWrite
    <3>3. CASE ReadPut(p) \/ Check(p)
      BY <3>3, RingStays DEF ReadPut, Check, ringVars, history
    <3> QED BY <1>2, <3>1, <3>2, <3>3 DEF ProducerStep
  <2> QED BY <2>1, <2>2, <2>3, <2>4
<1>3. ASSUME NEW w \in Worker, Poll(w) \/ Stored(w) PROVE IInv'
  <2>1. /\ MetricTypes'
        /\ UNCHANGED <<putIndex, takeIndex, entries, seen, passed, writing, consumer,
                       takes, found, late>>
    BY <1>3, WorkerLeaves DEF ringVars, producerVars, consumerVars, history
  <2>2. Cursor' /\ OnePlace'
    BY <2>1 DEF Cursor, OnePlace, Looking
  <2>3. Crowd'
    BY <2>1 DEF Crowd, NextTaken, Looking, Aside
  <2>4. EntriesFit' /\ LapsKnown' /\ AllKept'
    BY <2>1, RingStays
  <2> QED BY <2>1, <2>2, <2>3, <2>4
<1>4. CASE UNCHANGED vars
  <2>1. /\ UNCHANGED <<putIndex, takeIndex, entries, seen, passed, writing, consumer,
                       takes, found, late>>
        /\ UNCHANGED <<batch, tries, position, queue, sending, untold>>
    BY <1>4 DEF vars, ringVars, producerVars, consumerVars, history
  <2>2. MetricTypes' /\ Cursor' /\ OnePlace'
    BY <2>1 DEF MetricTypes, Cursor, OnePlace, Looking
  <2>3. Crowd'
    BY <2>1 DEF Crowd, NextTaken, Looking, Aside
  <2>4. EntriesFit' /\ LapsKnown' /\ AllKept'
    BY <2>1, RingStays
  <2> QED BY <2>2, <2>3, <2>4
<1> QED BY <1>1, <1>2, <1>3, <1>4 DEF Next

THEOREM Invariant == Spec => []IInv
<1>1. Init => IInv
  BY InvInit
<1>2. IInv /\ [Next]_vars => IInv'
  BY InvStep
<1> QED BY <1>1, <1>2, PTL DEF Spec

-----------------------------------------------------------------------------
(* The bound on the lag of the consumer, whatever the number of threads and*)
(* the size of the ring.                                                   *)
THEOREM LagCorrect == Spec => []LagBounded
<1>1. IInv => LagBounded
  BY CrowdBounds DEF IInv
<1> QED BY <1>1, Invariant, PTL

(* As many threads as the ring has positions (1024) would be needed for the*)
(* consumer to find what was logged two laps later.                        *)
FewThreads == Cardinality(Producer) < BufferSize

LEMMA LapsShort ==
  ASSUME IInv, FewThreads, Looking
  PROVE  putIndex - takeIndex < 2 * BufferSize
<1>1. takeIndex \in Int /\ putIndex \in Int /\ takeIndex >= NextTaken
  BY PositionsInt DEF IInv, NextTaken
<1>2. putIndex - (takeIndex + BufferSize) <= Cardinality(Aside(takeIndex))
  BY <1>1 DEF IInv, Crowd
<1>3. /\ Cardinality(Aside(takeIndex)) \in Nat /\ Cardinality(Producer) \in Nat
      /\ Cardinality(Aside(takeIndex)) <= Cardinality(Producer)
  <2>1. Aside(takeIndex) \in SUBSET Producer
    BY DEF Aside
  <2> QED BY <1>1, <2>1, AsideFinite, MetricAssumption, FS_Subset, FS_CardinalityType
<1> QED BY <1>1, <1>2, <1>3, MetricAssumption DEF FewThreads

LEMMA FoundByRead ==
  ASSUME IInv, FewThreads, Read
  PROVE  OldOnlyIfLate'
<1> DEFINE i == takeIndex
           e == entries[Slot(takeIndex)]
<1>1. /\ Looking /\ i < putIndex /\ found' = <<i, e>> /\ found'[1] = i /\ found'[2] = e
      /\ late' = late \cup ({i} \cap Pending)
  BY DEF Read, Looking
<1>2. i \in Nat /\ putIndex \in Int /\ i \in 0 .. putIndex
  BY <1>1, PositionsInt DEF IInv, Cursor
<1>3. Slot(i) \in 0 .. BufferSize - 1
  BY <1>2, SlotType
<1>4. e # Null => e \in Nat /\ Slot(e) = Slot(i) /\ e <= putIndex
  BY <1>3, PositionsInt DEF IInv, EntriesFit
<1>5. Kept(i)
  BY <1>2 DEF IInv, AllKept
<1>6. putIndex - i < 2 * BufferSize
  BY <1>1, LapsShort
<1> HIDE DEF i, e
<1>7. \/ e \in {i, i + BufferSize}
      \/ \E j \in late' : j <= i /\ Slot(j) = Slot(i)
  <2>1. CASE i \in Pending
    BY <1>1, <1>2, <2>1
  <2>2. CASE e # Null /\ e >= i
    <3>1. e \in Nat /\ Slot(e) = Slot(i) /\ i <= e /\ e - i < 2 * BufferSize
      BY <1>2, <1>4, <1>6, <2>2, MetricAssumption
    <3> QED BY <1>2, <3>1, OneLap
  <2>3. CASE LateBefore(i)
    BY <1>1, <2>3 DEF LateBefore
  <2> QED BY <1>5, <2>1, <2>2, <2>3 DEF Kept, e, i
<1> QED BY <1>1, <1>7 DEF OldOnlyIfLate, Slot

LEMMA FoundStays ==
  ASSUME OldOnlyIfLate, found' = found, late \subseteq late'
  PROVE  OldOnlyIfLate'
BY DEF OldOnlyIfLate, Slot

(* What the consumer finds is what was logged at the position, or one lap  *)
(* later, but for the threads that were late.                              *)
THEOREM OldOnlyIfLateCorrect == FewThreads => (Spec => []OldOnlyIfLate)
<1> SUFFICES ASSUME FewThreads PROVE Spec => []OldOnlyIfLate
  OBVIOUS
<1>1. Init => OldOnlyIfLate
  BY DEF Init, OldOnlyIfLate
<1>2. OldOnlyIfLate /\ IInv /\ [Next]_vars => OldOnlyIfLate'
  <2> SUFFICES ASSUME OldOnlyIfLate, IInv, [Next]_vars PROVE OldOnlyIfLate'
    OBVIOUS
  <2>1. CASE ConsumerStep
    BY <2>1, ConsumerLeaves, FoundByRead, FoundStays
  <2>2. ASSUME NEW p \in Producer, ProducerStep(p) PROVE OldOnlyIfLate'
    BY <2>2, ProducerLeaves, FoundStays
  <2>3. ASSUME NEW w \in Worker, Poll(w) \/ Stored(w) PROVE OldOnlyIfLate'
    BY <2>3, FoundStays DEF Poll, Stored, history
  <2>4. CASE UNCHANGED vars
    BY <2>4, FoundStays DEF vars, history
  <2> QED BY <2>1, <2>2, <2>3, <2>4 DEF Next
<1> QED BY <1>1, <1>2, Invariant, PTL DEF Spec

(* Between the remove and the second offer of forcePut only the worker     *)
(* changes the queue, and it takes from it: the offer finds room.          *)
RoomMade == consumer = "force" => HasRoom(Chosen)

LEMMA LossInductive ==
  ASSUME LossTold, RoomMade, MetricTypes, [Next]_vars
  PROVE  LossTold' /\ RoomMade'
<1> USE DEF LossTold, RoomMade, HasRoom
<1>1. CASE ConsumerStep
  <2>1. CASE TakeNext \/ Read \/ TimeOut \/ GiveUp \/ TakesDone
    BY <2>1 DEF TakeNext, Read, TimeOut, GiveUp, TakesDone, history
  <2>2. CASE Offer
    BY <2>2 DEF Offer, Handed, history
  <2>3. CASE OfferAgain
    BY <2>3 DEF OfferAgain, Handed, history
  <2>4. CASE Remove
    <3>1. CASE queue[Chosen] = 0
      <4>1. consumer = "remove" /\ consumer' = "dead" /\ untold' = untold + 1
        BY <2>4, <3>1 DEF Remove
      <4> QED BY <4>1
    <3>2. CASE queue[Chosen] # 0
      <4>1. Chosen \in Worker /\ queue[Chosen] \in 0 .. QueueCap /\ QueueCap \in Nat
        BY MetricAssumption DEF MetricTypes, Worker
      <4>2. queue' = [queue EXCEPT ![Chosen] = @ - 1] /\ untold' = untold + 1
        BY <2>4, <3>2 DEF Remove
      <4>3. consumer = "remove" /\ consumer' = "force"
        BY <2>4, <3>2 DEF Remove
      <4>4. queue'[Chosen] = queue[Chosen] - 1
        BY <4>1, <4>2 DEF MetricTypes
      <4> QED BY <4>1, <4>2, <4>3, <4>4
    <3> QED BY <3>1, <3>2
  <2>5. CASE ForceOffer
    BY <2>5 DEF ForceOffer, Handed
  <2> QED BY <1>1, <2>1, <2>2, <2>3, <2>4, <2>5 DEF ConsumerStep
<1>2. ASSUME NEW p \in Producer, ProducerStep(p) PROVE LossTold' /\ RoomMade'
  BY <1>2 DEF ProducerStep, ReadPut, Check, Reserve, WriteEntry, history, consumerVars
<1>3. ASSUME NEW w \in Worker, Poll(w) PROVE LossTold' /\ RoomMade'
  <2>1. Chosen \in Worker /\ \A v \in Worker : queue[v] \in Int
    BY MetricAssumption DEF MetricTypes, Worker
  <2>2. queue'[Chosen] <= queue[Chosen] /\ queue'[Chosen] \in Int
    BY <1>3, <2>1 DEF Poll, MetricTypes
  <2>3. UNCHANGED <<consumer, untold>>
    BY <1>3 DEF Poll, consumerVars, history
  <2> QED BY <2>1, <2>2, <2>3, MetricAssumption
<1>4. ASSUME NEW w \in Worker, Stored(w) PROVE LossTold' /\ RoomMade'
  BY <1>4 DEF Stored, history, consumerVars
<1>5. CASE UNCHANGED vars
  BY <1>5 DEF vars, history, consumerVars
<1> QED BY <1>1, <1>2, <1>3, <1>4, <1>5 DEF Next

(* Every batch that is thrown away is told of, and nothing else is, but    *)
(* for the one in hand when remove() throws: no second one is lost untold, *)
(* for any number of workers and producers and any size of their queues.   *)
THEOREM LossToldCorrect == Spec => []LossTold
<1>1. Init => LossTold /\ RoomMade
  BY DEF Init, LossTold, RoomMade
<1>2. LossTold /\ RoomMade /\ IInv /\ [Next]_vars => (LossTold /\ RoomMade)'
  BY LossInductive DEF IInv
<1> QED BY <1>1, <1>2, Invariant, PTL DEF Spec

(* The positions are taken one after the other.                            *)
THEOREM NonePassedOverCorrect == Spec => NonePassedOver
<1> DEFINE OneOn == found' # found => found'[1] = found[1] + 1
<1>1. IInv /\ [Next]_vars => [OneOn]_vars
  <2> SUFFICES ASSUME IInv, Next PROVE OneOn
    OBVIOUS
  <2>1. CASE ConsumerStep
    <3>1. CASE Read
      <4>1. found'[1] = takeIndex /\ Looking /\ takeIndex \in Int
        BY <3>1, PositionsInt DEF Read, Looking, IInv
      <4>2. found[1] = takeIndex - 1
        BY <4>1 DEF IInv, Cursor
      <4> QED BY <4>1, <4>2
    <3> QED BY <2>1, <3>1, ConsumerLeaves
  <2>2. ASSUME NEW p \in Producer, ProducerStep(p) PROVE OneOn
    BY <2>2, ProducerLeaves
  <2>3. ASSUME NEW w \in Worker, Poll(w) \/ Stored(w) PROVE OneOn
    BY <2>3 DEF Poll, Stored, history
  <2> QED BY <2>1, <2>2, <2>3 DEF Next
<1> QED BY <1>1, Invariant, PTL DEF Spec, NonePassedOver
=============================================================================

----------------------- MODULE SlotDistributionProofs -----------------------
(***************************************************************************)
(* Theorems about SlotDistribution, for any number of slots, rows, calls,  *)
(* threads and other jobs, and any size of chunk.                          *)
(***************************************************************************)
EXTENDS SlotDistribution, FiniteSetTheorems, SequenceTheorems,
        WellFoundedInduction, TLAPS

-----------------------------------------------------------------------------
(* What the rows of a request ask for.  FlattenSeq is recursive: what it   *)
(* returns is shown by the least prefix for which the claim would fail.    *)

LEMMA LeastOf ==
  ASSUME NEW T, T \subseteq Nat, T # {}
  PROVE  \E x \in T : \A y \in T : x <= y
<1>1. IsWellFoundedOn(OpToRel(<, Nat), Nat)
  BY NatLessThanWellFounded
<1>2. PICK x \in T : \A y \in T : ~(<<y, x>> \in OpToRel(<, Nat))
  BY <1>1, WFMin
<1>3. \A y \in T : ~(y < x)
  BY <1>2 DEF OpToRel
<1> QED BY <1>3

Flattens(f, seqs, n) ==
  f = [i \in 1 .. n |-> IF i = 1 THEN seqs[i] ELSE f[i - 1] \o seqs[i]]

LEMMA FlattenIs ==
  ASSUME NEW seqs, Len(seqs) # 0
  PROVE  FlattenSeq(seqs) = (CHOOSE f : Flattens(f, seqs, Len(seqs)))[Len(seqs)]
BY DEF FlattenSeq, Flattens

LEMMA FlattenExists ==
  ASSUME NEW seqs, NEW n \in Nat
  PROVE  \E f : Flattens(f, seqs, n)
<1> DEFINE T == {m \in Nat : ~\E f : Flattens(f, seqs, m)}
<1> SUFFICES ASSUME T # {} PROVE FALSE
  OBVIOUS
<1>1. PICK m \in T : \A y \in T : m <= y
  BY LeastOf
<1>2. m # 0
  <2>1. Flattens(<<>>, seqs, 0)
    BY DEF Flattens
  <2> QED BY <2>1
<1>3. PICK f : Flattens(f, seqs, m - 1)
  BY <1>1, <1>2
<1> DEFINE g == [i \in 1 .. m |-> IF i = m
                   THEN (IF i = 1 THEN seqs[i] ELSE f[i - 1] \o seqs[i]) ELSE f[i]]
<1>4. \A i \in 1 .. m : g[i] = IF i = 1 THEN seqs[i] ELSE g[i - 1] \o seqs[i]
  <2> SUFFICES ASSUME NEW i \in 1 .. m
               PROVE  g[i] = IF i = 1 THEN seqs[i] ELSE g[i - 1] \o seqs[i]
    OBVIOUS
  <2>1. CASE i = 1
    BY <2>1, <1>3 DEF Flattens
  <2>2. CASE i # 1
    <3>1. g[i - 1] = f[i - 1]
      BY <2>2
    <3>2. CASE i = m
      BY <3>1, <3>2, <2>2
    <3>3. CASE i # m
      <4>1. i \in 1 .. m - 1 /\ g[i] = f[i]
        BY <3>3
      <4>2. f[i] = IF i = 1 THEN seqs[i] ELSE f[i - 1] \o seqs[i]
        BY <1>3, <4>1 DEF Flattens
      <4> QED BY <4>1, <4>2, <3>1, <2>2
    <3> QED BY <3>2, <3>3
  <2> QED BY <2>1, <2>2
<1>5. Flattens(g, seqs, m)
  <2> HIDE DEF g
  <2>1. DOMAIN g = 1 .. m /\ g = [i \in DOMAIN g |-> g[i]]
    BY DEF g
  <2> QED BY <2>1, <1>4 DEF Flattens
<1> QED BY <1>1, <1>5

\* seqs is a sequence of sequences over S ...
Nested(S, seqs) == Len(seqs) \in Nat /\ \A k \in 1 .. Len(seqs) : seqs[k] \in Seq(S)

\* ... and its flattening is one over S that has all their elements.
AllIn(S, seqs) ==
  /\ Len(seqs) # 0 => FlattenSeq(seqs) \in Seq(S)
  /\ \A k \in 1 .. Len(seqs) : \A i \in 1 .. Len(seqs[k]) :
       \E p \in 1 .. Len(FlattenSeq(seqs)) : FlattenSeq(seqs)[p] = seqs[k][i]

(* The sequence is made of elements of its parts, and has each of them.    *)
LEMMA FlattenHas ==
  ASSUME NEW S, NEW seqs, Nested(S, seqs)
  PROVE  AllIn(S, seqs)
<1> USE DEF Nested
<1> SUFFICES ASSUME Len(seqs) # 0
             PROVE  /\ FlattenSeq(seqs) \in Seq(S)
                    /\ \A k \in 1 .. Len(seqs) : \A i \in 1 .. Len(seqs[k]) :
                         \E p \in 1 .. Len(FlattenSeq(seqs)) : FlattenSeq(seqs)[p] = seqs[k][i]
  BY DEF AllIn
<1> DEFINE n == Len(seqs)
           f == CHOOSE h : Flattens(h, seqs, Len(seqs))
           Right(m) == /\ f[m] \in Seq(S)
                       /\ \A k \in 1 .. m : \A i \in 1 .. Len(seqs[k]) :
                            \E p \in 1 .. Len(f[m]) : f[m][p] = seqs[k][i]
           T == {m \in 1 .. n : ~Right(m)}
<1>1. Flattens(f, seqs, n) /\ FlattenSeq(seqs) = f[n]
  BY FlattenExists, FlattenIs
<1>2. \A m \in 1 .. n : f[m] = IF m = 1 THEN seqs[m] ELSE f[m - 1] \o seqs[m]
  BY <1>1 DEF Flattens
<1> HIDE DEF f
<1>3. T = {}
  <2> SUFFICES ASSUME T # {} PROVE FALSE
    OBVIOUS
  <2>1. PICK m \in T : \A y \in T : m <= y
    <3>1. T \subseteq Nat
      OBVIOUS
    <3> HIDE DEF T
    <3> QED BY <3>1, LeastOf
  <2>2. CASE m = 1
    <3>1. f[1] = seqs[1]
      BY <1>2
    <3>2. Right(1)
      BY <3>1
    <3> QED BY <3>2, <2>2
  <2>3. CASE m # 1
    <3>1. f[m] = f[m - 1] \o seqs[m] /\ Right(m - 1)
      <4>1. m \in 1 .. n /\ m - 1 \in 1 .. n /\ ~(m <= m - 1)
        BY <2>3
      <4>2. m - 1 \notin T
        <5> HIDE DEF T
        <5> QED BY <2>1, <4>1
      <4> QED BY <1>2, <2>3, <4>1, <4>2
    <3>2. seqs[m] \in Seq(S) /\ f[m - 1] \in Seq(S)
      BY <3>1
    <3> DEFINE a == f[m - 1]
               b == seqs[m]
    <3>3. a \in Seq(S) /\ b \in Seq(S) /\ f[m] = a \o b
      BY <3>1, <3>2
    <3>4. /\ Len(a) \in Nat /\ Len(b) \in Nat
          /\ f[m] \in Seq(S) /\ Len(f[m]) = Len(a) + Len(b)
          /\ \A j \in 1 .. Len(a) + Len(b) :
               f[m][j] = IF j <= Len(a) THEN a[j] ELSE b[j - Len(a)]
      <4> HIDE DEF a, b
      <4> QED BY <3>3, ConcatProperties
    <3>5. ASSUME NEW j \in Nat, j \in 1 .. Len(b)
          PROVE  Len(a) + j \in 1 .. Len(f[m]) /\ f[m][Len(a) + j] = b[j]
      <4> HIDE DEF a, b
      <4>1. Len(a) + j \in 1 .. Len(a) + Len(b) /\ ~(Len(a) + j <= Len(a))
            /\ (Len(a) + j) - Len(a) = j
        BY <3>4, <3>5
      <4> QED BY <3>4, <4>1
    <3>6. ASSUME NEW j \in Nat, j \in 1 .. Len(a)
          PROVE  j \in 1 .. Len(f[m]) /\ f[m][j] = a[j]
      <4> HIDE DEF a, b
      <4>1. j \in 1 .. Len(a) + Len(b) /\ j <= Len(a)
        BY <3>4, <3>6
      <4> QED BY <3>4, <4>1
    <3>7. ASSUME NEW k \in 1 .. m, NEW i \in 1 .. Len(seqs[k])
          PROVE  \E p \in 1 .. Len(f[m]) : f[m][p] = seqs[k][i]
      <4>1. CASE k = m
        <5>1. i \in Nat /\ i \in 1 .. Len(b)
          BY <4>1
        <5> HIDE DEF T, Right
        <5> QED BY <5>1, <3>5, <4>1
      <4>2. CASE k # m
        <5>1. PICK p \in 1 .. Len(a) : a[p] = seqs[k][i]
          <6>1. k \in 1 .. m - 1
            BY <4>2
          <6>2. \A h \in 1 .. m - 1 : \A j \in 1 .. Len(seqs[h]) :
                  \E p \in 1 .. Len(a) : a[p] = seqs[h][j]
            BY <3>1
          <6> HIDE DEF T, Right, a
          <6> QED BY <6>1, <6>2
        <5>2. p \in Nat
          OBVIOUS
        <5> QED BY <5>1, <5>2, <3>6
      <4> QED BY <4>1, <4>2
    <3>8. Right(m)
      BY <3>4, <3>7
    <3> QED BY <3>8
  <2> QED BY <2>2, <2>3
<1> QED BY <1>1, <1>3, SMTT(30)

(* The rows in front of the first bad one are good.                        *)
LEMMA GoodRows ==
  ASSUME NEW r \in Requests
  PROVE  /\ BadRow[r] \in 0 .. Len(r)
         /\ \A k \in 1 .. IF BadRow[r] = 0 THEN Len(r) ELSE BadRow[r] - 1 : Good(r[k])
<1> DEFINE I == {i \in 1 .. Len(r) : ~Good(r[i])}
<1>1. Len(r) \in Nat
  BY DistributionAssumption
<1>2. BadRow[r] = IF I # {} THEN Min(I) ELSE 0
  BY DEF BadRow, SelectInSeq
<1>3. CASE I = {}
  BY <1>1, <1>2, <1>3
<1>4. CASE I # {}
  <2>1. PICK x \in I : \A y \in I : x <= y
    <3>1. I \subseteq Nat
      BY <1>1
    <3> HIDE DEF I
    <3> QED BY <3>1, <1>4, LeastOf
  <2>2. Min(I) \in I /\ \A y \in I : Min(I) <= y
    <3> HIDE DEF I
    <3> QED BY <2>1 DEF Min
  <2>3. BadRow[r] \in I /\ \A y \in I : BadRow[r] <= y
    <3> HIDE DEF I
    <3> QED BY <2>2, <1>2, <1>4
  <2>4. BadRow[r] \in 1 .. Len(r)
    BY <2>3
  <2> QED BY <2>3, <2>4, <1>1
<1> QED BY <1>3, <1>4

Asks == [slot : SlotId, group : Group]

LEMMA SlotsAsked ==
  ASSUME NEW r \in Requests
  PROVE  /\ SlotsOf[r] \in Seq(Asks)
         /\ BadRow[r] = 0 =>
              \A k \in 1 .. Len(r) : \A s \in r[k].from .. r[k].to :
                s \in SlotId /\ \E p \in 1 .. Len(SlotsOf[r]) : SlotsOf[r][p].slot = s
<1> DEFINE n == IF BadRow[r] = 0 THEN Len(r) ELSE BadRow[r] - 1
           seqs == [k \in 1 .. n |-> RowSlots(r[k])]
<1>1. n \in 0 .. Len(r) /\ Len(r) \in Nat /\ \A k \in 1 .. n : Good(r[k])
  BY GoodRows, DistributionAssumption
<1>2. \A k \in 1 .. n : r[k] \in [from : Int, to : Int, group : Group]
  <2>1. r \in Seq([from : Int, to : Int, group : Group])
    BY DistributionAssumption
  <2>2. \A k \in 1 .. Len(r) : r[k] \in [from : Int, to : Int, group : Group]
    BY <2>1, ElementOfSeq
  <2>3. \A k \in 1 .. n : k \in 1 .. Len(r)
    <3> HIDE DEF n
    <3> QED BY <1>1
  <2> QED BY <2>2, <2>3
<1>3. Len(seqs) = n
  BY <1>1
<1>4. ASSUME NEW k \in 1 .. n
      PROVE  /\ seqs[k] = RowSlots(r[k])
             /\ seqs[k] \in Seq(Asks)
             /\ Len(seqs[k]) = r[k].to - r[k].from + 1
  <2>1. Good(r[k]) /\ r[k].from \in Int /\ r[k].to \in Int /\ r[k].group \in Group
    BY <1>1, <1>2
  <2>2. r[k].to - r[k].from + 1 \in Nat
    BY <2>1 DEF Good
  <2>3. \A i \in 1 .. r[k].to - r[k].from + 1 : r[k].from + i - 1 \in SlotId
    <3> SUFFICES ASSUME NEW i \in 1 .. r[k].to - r[k].from + 1
                 PROVE  r[k].from + i - 1 \in SlotId
      OBVIOUS
    <3>1. 0 <= r[k].from /\ r[k].to <= MaxSlot /\ MaxSlot \in Nat
      BY <2>1, DistributionAssumption DEF Good
    <3> QED BY <2>1, <3>1, SMTT(30) DEF SlotId
  <2>4. RowSlots(r[k]) \in [1 .. r[k].to - r[k].from + 1 -> Asks]
    <3> HIDE DEF n, seqs
    <3>1. r[k].group \in Group
      BY <2>1
    <3> QED BY <2>3, <3>1 DEF RowSlots, Asks
  <2> DEFINE q == RowSlots(r[k])
             size == r[k].to - r[k].from + 1
  <2>5. q \in Seq(Asks) /\ Len(q) = size
    <3> HIDE DEF q, size, Asks
    <3>1. size \in Nat /\ q \in [1 .. size -> Asks]
      BY <2>2, <2>4 DEF q, size
    <3> QED BY <3>1
  <2>6. seqs[k] = q
    <3> HIDE DEF q, n
    <3> QED BY DEF q
  <2> QED BY <2>5, <2>6
<1>5. SlotsOf[r] = FlattenSeq(seqs)
  BY DEF SlotsOf
<1>6. /\ n # 0 => FlattenSeq(seqs) \in Seq(Asks)
      /\ \A k \in 1 .. n : \A i \in 1 .. Len(seqs[k]) :
           \E p \in 1 .. Len(FlattenSeq(seqs)) : FlattenSeq(seqs)[p] = seqs[k][i]
  <2> HIDE DEF n, seqs
  <2>1. Len(seqs) \in Nat /\ \A k \in 1 .. Len(seqs) : seqs[k] \in Seq(Asks)
    BY <1>1, <1>3, <1>4
  <2>2. /\ Len(seqs) # 0 => FlattenSeq(seqs) \in Seq(Asks)
        /\ \A k \in 1 .. Len(seqs) : \A i \in 1 .. Len(seqs[k]) :
             \E p \in 1 .. Len(FlattenSeq(seqs)) : FlattenSeq(seqs)[p] = seqs[k][i]
    <3> HIDE DEF Asks
    <3>1. Nested(Asks, seqs)
      BY <2>1 DEF Nested
    <3>2. AllIn(Asks, seqs)
      BY <3>1, FlattenHas
    <3> QED BY <3>2 DEF AllIn
  <2> QED BY <1>3, <2>2
<1>7. SlotsOf[r] \in Seq(Asks)
  <2>1. CASE n = 0
    <3>1. FlattenSeq(seqs) = seqs
      <4> HIDE DEF n, seqs
      <4> QED BY <1>3, <2>1 DEF FlattenSeq
    <3>2. seqs = <<>>
      BY <2>1
    <3>3. SlotsOf[r] = <<>>
      <4> HIDE DEF n, seqs
      <4> QED BY <3>1, <3>2, <1>5
    <3> QED BY <3>3
  <2> QED BY <2>1, <1>5, <1>6
<1>8. ASSUME BadRow[r] = 0, NEW k \in 1 .. Len(r), NEW s \in r[k].from .. r[k].to
      PROVE  s \in SlotId /\ \E p \in 1 .. Len(SlotsOf[r]) : SlotsOf[r][p].slot = s
  <2>1. k \in 1 .. n /\ Good(r[k])
    BY <1>1, <1>8
  <2>2. r[k].from \in Int /\ r[k].to \in Int
    BY <1>2, <2>1
  <2>3. s \in SlotId
    <3>1. 0 <= r[k].from /\ r[k].to <= MaxSlot /\ MaxSlot \in Nat
      BY <2>1, DistributionAssumption DEF Good
    <3> QED BY <2>2, <3>1 DEF SlotId
  <2> DEFINE i == s - r[k].from + 1
  <2>4. i \in 1 .. r[k].to - r[k].from + 1 /\ r[k].from + i - 1 = s
    BY <2>2, SMTT(30)
  <2>5. RowSlots(r[k])[i].slot = s
    <3> HIDE DEF i
    <3> QED BY <2>4 DEF RowSlots
  <2> HIDE DEF i, n, seqs
  <2>6. PICK p \in 1 .. Len(FlattenSeq(seqs)) : FlattenSeq(seqs)[p] = seqs[k][i]
    BY <1>4, <1>6, <2>1, <2>4
  <2> QED BY <2>3, <2>5, <2>6, <2>1, <1>4, <1>5
<1> QED BY <1>7, <1>8

-----------------------------------------------------------------------------
(* The chunks.                                                             *)

LEMMA ChunkIs ==
  ASSUME NEW p \in Nat, NEW k \in Nat, Chunk * k < p, p <= Chunk * k + Chunk
  PROVE  ChunkOf(p) = k
<1>1. p - 1 \in Nat /\ Chunk * k <= p - 1 /\ p - 1 < Chunk * k + Chunk
  BY DistributionAssumption
<1>2. ASSUME NEW a \in Nat, Chunk * k <= a, a < Chunk * k + Chunk
      PROVE  a \div Chunk = k
  BY <1>2, DistributionAssumption, SMTT(30)
<1> QED BY <1>1, <1>2 DEF ChunkOf

LEMMA ChunkBounds ==
  ASSUME NEW p \in Nat \ {0}
  PROVE  /\ ChunkOf(p) \in Nat
         /\ Chunk * ChunkOf(p) < p /\ p <= Chunk * ChunkOf(p) + Chunk
<1>1. p - 1 \in Nat
  OBVIOUS
<1>2. ASSUME NEW a \in Nat
      PROVE  /\ a \div Chunk \in Nat
             /\ Chunk * (a \div Chunk) <= a /\ a < Chunk * (a \div Chunk) + Chunk
  BY DistributionAssumption, SMTT(30)
<1> DEFINE k == (p - 1) \div Chunk
<1>3. k \in Nat /\ Chunk * k <= p - 1 /\ p - 1 < Chunk * k + Chunk
  BY <1>1, <1>2
<1> HIDE DEF k
<1>4. Chunk * k \in Nat
  BY <1>3, DistributionAssumption
<1>5. Chunk * k < p /\ p <= Chunk * k + Chunk
  BY <1>3, <1>4, DistributionAssumption
<1> QED BY <1>3, <1>5 DEF ChunkOf, k

(* The chunk behind a whole number of chunks holds the places that follow  *)
(* and none of those before.                                               *)
LEMMA ChunkAfter ==
  ASSUME NEW k \in Nat, NEW p \in Nat \ {0}, NEW q \in Nat,
         Chunk * k < q, q <= Chunk * k + Chunk
  PROVE  /\ ChunkOf(q) = k
         /\ p <= Chunk * k => ChunkOf(p) # k
<1>1. ChunkOf(q) = k
  BY ChunkIs
<1>2. ASSUME p <= Chunk * k PROVE ChunkOf(p) # k
  BY <1>2, ChunkBounds, DistributionAssumption
<1> QED BY <1>1, <1>2

-----------------------------------------------------------------------------
(* The jobs of the pool.                                                   *)

Jobs == [call : Call, next : Nat \ {0}, final : Nat, found : {"unasked", "absent", "present"}]

States == {"new", "sent", "letIn", "refused", "failed", "succeeded", "gone"}

DistTypes ==
  /\ running \subseteq Jobs /\ queue \in Seq(Jobs \cup {Other})
  /\ call \in [Call -> States]
  /\ rows \in [Call -> Requests \cup {<<>>}]
  /\ \A c \in Call : call[c] # "new" => rows[c] \in Requests
  /\ sent \in [Call -> Nat]
  /\ known \in BOOLEAN /\ records \in [SlotId -> Group \cup {Null}]
  /\ last \in Call \cup {Null} /\ heard \subseteq Call
  /\ rivals \in BOOLEAN /\ broken \subseteq Call /\ moved \subseteq SlotId

\* The jobs of distSlots that run or wait.
Work == (running \cup Range(queue)) \ {Other}

(* What a call has handed over: whole chunks while it is in its loop, and  *)
(* everything when it succeeded.                                           *)
SentRight ==
  \A c \in Call :
    /\ call[c] \in {"new", "sent"} => sent[c] = 0
    /\ call[c] \in {"letIn", "failed", "succeeded"} => sent[c] <= Len(Asked(c))
    /\ call[c] = "letIn" => \E k \in Nat : sent[c] = Chunk * k
    /\ call[c] = "succeeded" => sent[c] = Len(Asked(c)) /\ BadRow[rows[c]] = 0

(* A job has places of one chunk, up to the last one of the chunk.         *)
Fits(j) ==
  /\ j.call \in LetIn
  /\ j.next <= j.final /\ j.final <= sent[j.call]
  /\ \A p \in j.next .. j.final : ChunkOf(p) = ChunkOf(j.next)
  /\ \A p \in 1 .. sent[j.call] : ChunkOf(p) = ChunkOf(j.next) => p <= j.final

(* No chunk is with two jobs, and no job runs and waits, or waits twice.   *)
JobsApart ==
  /\ \A j, k \in Work : j.call = k.call /\ j.final = k.final => j = k
  /\ \A i, k \in 1 .. Len(queue) : queue[i] = queue[k] /\ queue[i] # Other => i = k
  /\ \A j \in running : \A i \in 1 .. Len(queue) : queue[i] # j

JobsInv == DistTypes /\ SentRight /\ (\A j \in Work : Fits(j)) /\ JobsApart

LEMMA OtherIsNoJob == Other \notin Jobs
BY DistributionAssumption DEF Other, Jobs, Call

LEMMA WorkIs == DistTypes =>
  /\ Work \subseteq Jobs
  /\ Work = running \cup {queue[i] : i \in {k \in 1 .. Len(queue) : queue[k] # Other}}
<1> SUFFICES ASSUME DistTypes
             PROVE  /\ Work \subseteq Jobs
                    /\ Work = running \cup {queue[i] : i \in {k \in 1 .. Len(queue) : queue[k] # Other}}
  OBVIOUS
<1>1. DOMAIN queue = 1 .. Len(queue) /\ \A i \in 1 .. Len(queue) : queue[i] \in Jobs \cup {Other}
  BY DEF DistTypes
<1> QED BY <1>1, OtherIsNoJob DEF DistTypes, Work, Range

LEMMA Executed ==
  ASSUME DistTypes, JobsApart, NEW job \in Jobs, Execute(job),
         \A j \in Work : ~(j.call = job.call /\ j.final = job.final)
  PROVE  /\ running' \subseteq Jobs /\ queue' \in Seq(Jobs \cup {Other})
         /\ Work' = Work \cup {job} /\ JobsApart'
<1>1. job # Other /\ job \notin Work /\ Work \subseteq Jobs
  BY OtherIsNoJob, WorkIs
<1>2. CASE running' = running \cup {job} /\ queue' = queue
  <2>1. running' \subseteq Jobs /\ queue' \in Seq(Jobs \cup {Other})
    BY <1>2 DEF DistTypes
  <2>2. Work' = Work \cup {job}
    BY <1>1, <1>2 DEF Work
  <2>3. \A i \in 1 .. Len(queue) : queue[i] # job
    BY <1>1, WorkIs
  <2>4. JobsApart'
    BY <1>1, <1>2, <2>2, <2>3 DEF JobsApart
  <2> QED BY <2>1, <2>2, <2>4
<1>3. CASE running' = running /\ queue' = Append(queue, job)
  <2>1. /\ running' \subseteq Jobs /\ queue' \in Seq(Jobs \cup {Other})
        /\ Len(queue) \in Nat /\ Len(queue') = Len(queue) + 1
        /\ \A i \in 1 .. Len(queue) : queue'[i] = queue[i]
        /\ queue'[Len(queue) + 1] = job
    BY <1>3 DEF DistTypes
  <2>2. Range(queue') = Range(queue) \cup {job}
    <3>1. DOMAIN queue = 1 .. Len(queue) /\ DOMAIN queue' = 1 .. Len(queue) + 1
      BY <2>1 DEF DistTypes
    <3> QED BY <2>1, <3>1 DEF Range
  <2>3. Work' = Work \cup {job}
    BY <1>1, <1>3, <2>2 DEF Work
  <2>4. \A i \in 1 .. Len(queue) : queue[i] # job
    BY <1>1, WorkIs
  <2>5. job \notin running
    BY <1>1, WorkIs
  <2>6. \A j, k \in Work' : j.call = k.call /\ j.final = k.final => j = k
    BY <2>3 DEF JobsApart
  <2>7. \A i, k \in 1 .. Len(queue) + 1 : queue'[i] = queue'[k] /\ queue'[i] # Other => i = k
    BY <2>1, <2>4 DEF JobsApart
  <2>8. \A j \in running : \A i \in 1 .. Len(queue) + 1 : queue'[i] # j
    BY <2>1, <2>5 DEF JobsApart
  <2> QED BY <2>1, <2>3, <2>6, <2>7, <2>8, <1>3 DEF JobsApart
<1> QED BY <1>2, <1>3 DEF Execute

LEMMA Replaced ==
  ASSUME DistTypes, JobsApart, NEW job \in running, NEW new, new \subseteq Jobs,
         Replace(job, new),
         \A k \in new : k.call = job.call /\ k.final = job.final,
         \A k, l \in new : k = l
  PROVE  /\ running' \subseteq Jobs /\ queue' \in Seq(Jobs \cup {Other})
         /\ Work' = (Work \ {job}) \cup new /\ JobsApart'
<1>1. running' = (running \ {job}) \cup new /\ queue' = queue
  BY DEF Replace
<1>2. running' \subseteq Jobs /\ queue' \in Seq(Jobs \cup {Other})
  BY <1>1 DEF DistTypes
<1>3. job # Other /\ job \in Jobs /\ Other \notin new /\ job \in Work
  BY OtherIsNoJob DEF DistTypes, Work
<1>4. DOMAIN queue = 1 .. Len(queue)
  BY DEF DistTypes
<1>5. job \notin Range(queue)
  BY <1>4 DEF JobsApart, Range
<1>6. Work' = (Work \ {job}) \cup new
  BY <1>1, <1>3, <1>5 DEF Work
<1>7. \A i \in 1 .. Len(queue) : queue[i] \notin new
  <2> SUFFICES ASSUME NEW i \in 1 .. Len(queue), queue[i] \in new PROVE FALSE
    OBVIOUS
  <2>1. queue[i] \in Work
    BY <1>3, <1>4 DEF Work, Range
  <2>2. queue[i] = job
    BY <1>3, <2>1 DEF JobsApart
  <2> QED BY <2>2 DEF JobsApart
<1>8. \A j, k \in Work' : j.call = k.call /\ j.final = k.final => j = k
  BY <1>3, <1>6 DEF JobsApart
<1>9. \A j \in running' : \A i \in 1 .. Len(queue) : queue[i] # j
  BY <1>1, <1>7 DEF JobsApart
<1> QED BY <1>1, <1>2, <1>6, <1>8, <1>9 DEF JobsApart

LEMMA Dequeued ==
  ASSUME DistTypes, JobsApart, Dequeue
  PROVE  /\ running' \subseteq Jobs /\ queue' \in Seq(Jobs \cup {Other})
         /\ Work' = Work /\ JobsApart'
<1> DEFINE n == Len(queue)
<1>1. /\ n \in Nat /\ n # 0 /\ Head(queue) = queue[1]
      /\ DOMAIN queue = 1 .. n /\ queue[1] \in Jobs \cup {Other}
  BY DEF DistTypes, Dequeue
<1>2. /\ queue' \in Seq(Jobs \cup {Other}) /\ Len(queue') = n - 1
      /\ DOMAIN queue' = 1 .. n - 1
      /\ \A i \in 1 .. n - 1 : queue'[i] = queue[i + 1]
  BY <1>1 DEF DistTypes, Dequeue
<1>3. running' = IF queue[1] = Other THEN running ELSE running \cup {queue[1]}
  BY <1>1 DEF Dequeue
<1>4. running' \subseteq Jobs
  BY <1>1, <1>3 DEF DistTypes
<1>5. Range(queue) = Range(queue') \cup {queue[1]}
  <2>1. ASSUME NEW i \in 1 .. n PROVE queue[i] \in Range(queue') \cup {queue[1]}
    <3>1. CASE i = 1
      BY <3>1
    <3>2. CASE i # 1
      <4>1. i - 1 \in 1 .. n - 1 /\ queue'[i - 1] = queue[i]
        BY <1>1, <1>2, <3>2
      <4> QED BY <4>1, <1>2 DEF Range
    <3> QED BY <3>1, <3>2
  <2>2. ASSUME NEW i \in 1 .. n - 1 PROVE queue'[i] \in Range(queue)
    <3>1. i + 1 \in 1 .. n /\ queue'[i] = queue[i + 1]
      BY <1>1, <1>2
    <3> QED BY <3>1, <1>1 DEF Range
  <2>3. queue[1] \in Range(queue)
    BY <1>1 DEF Range
  <2> QED BY <1>1, <1>2, <2>1, <2>2, <2>3 DEF Range
<1>6. Work' = Work
  BY <1>3, <1>5 DEF Work
<1>7. \A i, k \in 1 .. n - 1 : queue'[i] = queue'[k] /\ queue'[i] # Other => i = k
  <2> SUFFICES ASSUME NEW i \in 1 .. n - 1, NEW k \in 1 .. n - 1,
                      queue'[i] = queue'[k], queue'[i] # Other
               PROVE  i = k
    OBVIOUS
  <2>1. i + 1 \in 1 .. n /\ k + 1 \in 1 .. n /\ queue[i + 1] = queue[k + 1] /\ queue[i + 1] # Other
    BY <1>1, <1>2
  <2>2. i + 1 = k + 1
    BY <2>1 DEF JobsApart
  <2> QED BY <2>2
<1>8. \A j \in running' : \A i \in 1 .. n - 1 : queue'[i] # j
  <2> SUFFICES ASSUME NEW j \in running', NEW i \in 1 .. n - 1, queue'[i] = j PROVE FALSE
    OBVIOUS
  <2>1. i + 1 \in 1 .. n /\ queue[i + 1] = j /\ 1 \in 1 .. n /\ i + 1 # 1
    BY <1>1, <1>2
  <2>2. CASE j \in running
    BY <2>1, <2>2 DEF JobsApart
  <2>3. CASE j = queue[1] /\ queue[1] # Other
    BY <2>1, <2>3 DEF JobsApart
  <2> QED BY <2>2, <2>3, <1>3
<1> QED BY <1>2, <1>4, <1>6, <1>7, <1>8 DEF JobsApart

LEMMA SubmittedOther ==
  ASSUME DistTypes, JobsApart, OtherSubmitted
  PROVE  /\ running' \subseteq Jobs /\ queue' \in Seq(Jobs \cup {Other})
         /\ Work' = Work /\ JobsApart'
<1>1. CASE running' = running /\ queue' = queue
  BY <1>1 DEF DistTypes, Work, JobsApart
<1>2. CASE running' = running /\ queue' = Append(queue, Other)
  <2>1. /\ queue' \in Seq(Jobs \cup {Other})
        /\ Len(queue) \in Nat /\ Len(queue') = Len(queue) + 1
        /\ \A i \in 1 .. Len(queue) : queue'[i] = queue[i]
        /\ queue'[Len(queue) + 1] = Other
    BY <1>2 DEF DistTypes
  <2>2. Range(queue') = Range(queue) \cup {Other}
    <3>1. DOMAIN queue = 1 .. Len(queue) /\ DOMAIN queue' = 1 .. Len(queue) + 1
      BY <2>1 DEF DistTypes
    <3> QED BY <2>1, <3>1 DEF Range
  <2>3. Work' = Work
    BY <1>2, <2>2 DEF Work
  <2>4. Other \notin running
    BY OtherIsNoJob DEF DistTypes
  <2>5. \A i, k \in 1 .. Len(queue) + 1 : queue'[i] = queue'[k] /\ queue'[i] # Other => i = k
    BY <2>1 DEF JobsApart
  <2>6. \A j \in running : \A i \in 1 .. Len(queue) + 1 : queue'[i] # j
    BY <2>1, <2>4 DEF JobsApart
  <2> QED BY <1>2, <2>1, <2>3, <2>5, <2>6 DEF DistTypes, JobsApart
<1> QED BY <1>1, <1>2 DEF OtherSubmitted

LEMMA FitsKept ==
  ASSUME JobsInv, NEW j \in Work, sent'[j.call] = sent[j.call], call' \in [Call -> States],
         call'[j.call] \in {"letIn", "failed", "succeeded"}
  PROVE  Fits(j)'
<1>1. j \in Jobs /\ j.call \in Call /\ Fits(j)
  BY WorkIs DEF JobsInv, Jobs
<1>2. \A p : ChunkOf(p)' = ChunkOf(p)
  BY DEF ChunkOf
<1> QED BY <1>1, <1>2 DEF Fits, LetIn

(* A chunk that goes to the executor.                                      *)
LEMMA HandedOver ==
  ASSUME JobsInv, NEW c \in Call, NEW final \in Nat, call[c] = "letIn",
         sent[c] < final, final <= sent[c] + Chunk,
         Execute(Job(c, sent[c] + 1, final)),
         sent' = [sent EXCEPT ![c] = final],
         call' \in [Call -> States], call'[c] \in {"letIn", "succeeded"},
         \A d \in Call \ {c} : call'[d] = call[d]
  PROVE  /\ running' \subseteq Jobs /\ queue' \in Seq(Jobs \cup {Other})
         /\ Work' = Work \cup {Job(c, sent[c] + 1, final)} /\ JobsApart'
         /\ \A j \in Work' : Fits(j)'
<1> DEFINE job == Job(c, sent[c] + 1, final)
<1>1. sent[c] \in Nat /\ Chunk \in Nat \ {0} /\ sent'[c] = final
  BY DistributionAssumption DEF JobsInv, DistTypes
<1>2. PICK k \in Nat : sent[c] = Chunk * k
  BY DEF JobsInv, SentRight
<1>3. /\ job \in Jobs /\ job.call = c /\ job.next = sent[c] + 1 /\ job.final = final
  BY <1>1 DEF Job, Jobs
<1>4. \A j \in Work : /\ j \in Jobs /\ Fits(j) /\ j.call \in LetIn /\ j.call \in Call
                      /\ j.next \in Nat \ {0} /\ j.final \in Nat
  BY WorkIs DEF JobsInv, Fits, Jobs
<1>5. \A j \in Work : ~(j.call = job.call /\ j.final = job.final)
  <2> HIDE DEF job
  <2> QED BY <1>1, <1>3, <1>4 DEF Fits
<1>6. /\ running' \subseteq Jobs /\ queue' \in Seq(Jobs \cup {Other})
      /\ Work' = Work \cup {job} /\ JobsApart'
  <2> HIDE DEF job
  <2>1. Execute(job)
    BY DEF job
  <2> QED BY <2>1, <1>3, <1>5, Executed DEF JobsInv
<1>7. \A p \in sent[c] + 1 .. final : ChunkOf(p) = k
  <2> SUFFICES ASSUME NEW p \in sent[c] + 1 .. final PROVE ChunkOf(p) = k
    OBVIOUS
  <2>1. p \in Nat /\ Chunk * k < p /\ p <= Chunk * k + Chunk
    BY <1>1, <1>2
  <2> QED BY <2>1, ChunkIs
<1>8. \A p \in 1 .. sent[c] : ChunkOf(p) # k
  <2> SUFFICES ASSUME NEW p \in 1 .. sent[c] PROVE ChunkOf(p) # k
    OBVIOUS
  <2>1. p \in Nat \ {0} /\ p <= Chunk * k
    BY <1>1, <1>2
  <2>2. sent[c] + 1 \in Nat /\ Chunk * k < sent[c] + 1 /\ sent[c] + 1 <= Chunk * k + Chunk
    BY <1>1, <1>2
  <2> QED BY <2>1, <2>2, ChunkAfter
<1>9. \A p : ChunkOf(p)' = ChunkOf(p)
  BY DEF ChunkOf
<1>10. ASSUME NEW j \in Work' PROVE Fits(j)'
  <2>1. CASE j = job
    <3> HIDE DEF job
    <3>1. sent[c] + 1 \in sent[c] + 1 .. final
      BY <1>1
    <3>2. ChunkOf(j.next) = k /\ j.next <= j.final /\ j.final = sent'[j.call]
      BY <1>1, <1>3, <1>7, <2>1, <3>1
    <3>3. j.call \in LetIn'
      BY <1>3, <2>1 DEF LetIn
    <3>4. \A p \in j.next .. j.final : ChunkOf(p) = ChunkOf(j.next)
      BY <1>3, <1>7, <2>1, <3>2
    <3> QED BY <1>3, <1>9, <2>1, <3>2, <3>3, <3>4, <1>1 DEF Fits
  <2>2. CASE j \in Work /\ j.call # c
    <3>1. sent'[j.call] = sent[j.call] /\ call'[j.call] = call[j.call]
      BY <1>4, <2>2 DEF JobsInv, DistTypes
    <3> QED BY <1>4, <2>2, <3>1, FitsKept DEF LetIn
  <2>3. CASE j \in Work /\ j.call = c
    <3>1. /\ j.next \in 1 .. sent[c] /\ j.final <= sent[c]
          /\ j.next \in Nat /\ j.final \in Nat
          /\ \A p \in j.next .. j.final : ChunkOf(p) = ChunkOf(j.next)
          /\ \A p \in 1 .. sent[c] : ChunkOf(p) = ChunkOf(j.next) => p <= j.final
          /\ j.next <= j.final
      BY <1>1, <1>4, <2>3 DEF Fits
    <3>2. \A p \in 1 .. final : ChunkOf(p) = ChunkOf(j.next) => p <= j.final
      <4> SUFFICES ASSUME NEW p \in 1 .. final, ChunkOf(p) = ChunkOf(j.next)
                   PROVE  p <= j.final
        OBVIOUS
      <4>1. CASE p <= sent[c]
        BY <1>1, <3>1, <4>1
      <4>2. CASE ~(p <= sent[c])
        <5>1. p \in sent[c] + 1 .. final
          BY <1>1, <4>2
        <5> QED BY <5>1, <3>1, <1>7, <1>8
      <4> QED BY <4>1, <4>2
    <3>3. j.call \in LetIn'
      BY <2>3 DEF LetIn
    <3> QED BY <1>1, <1>9, <2>3, <3>1, <3>2, <3>3 DEF Fits
  <2> QED BY <2>1, <2>2, <2>3, <1>6
<1> QED BY <1>6, <1>10

LEMMA JobsInit == Init => JobsInv
<1> SUFFICES ASSUME Init PROVE JobsInv
  OBVIOUS
<1>1. Work = {}
  BY DEF Init, Work, Range
<1>2. DistTypes
  <2>1. running \subseteq Jobs /\ queue \in Seq(Jobs \cup {Other})
    BY DEF Init
  <2>2. /\ call \in [Call -> States] /\ \A c \in Call : call[c] = "new"
        /\ rows \in [Call -> Requests \cup {<<>>}] /\ sent \in [Call -> Nat]
    BY DEF Init, States
  <2>3. records \in [SlotId -> Group \cup {Null}]
    BY DEF Init
  <2> QED BY <2>1, <2>2, <2>3 DEF Init, DistTypes
<1>3. SentRight
  BY DEF Init, SentRight
<1>4. JobsApart
  BY <1>1 DEF Init, JobsApart
<1> QED BY <1>1, <1>2, <1>3, <1>4 DEF JobsInv

(* An answer to a call, or the answer it gets at a restart.                *)
LEMMA AnswerTypes ==
  ASSUME DistTypes, NEW c \in Call, NEW a \in States, Answered(c, a)
  PROVE  /\ call' \in [Call -> States] /\ call'[c] = a
         /\ \A d \in Call \ {c} : call'[d] = call[d]
BY DEF Answered, DistTypes

\* A step of the calls that leaves the jobs alone.
LEMMA CallsOnly ==
  ASSUME JobsInv, DistTypes', SentRight',
         running' = running, queue' = queue, sent' = sent,
         \A c \in LetIn : call'[c] \in {"letIn", "failed", "succeeded"}
  PROVE  JobsInv'
<1>1. Work' = Work
  BY DEF Work
<1>2. JobsApart'
  BY <1>1 DEF JobsInv, JobsApart
<1>3. ASSUME NEW j \in Work PROVE Fits(j)'
  <2>1. j.call \in LetIn
    BY DEF JobsInv, Fits
  <2> QED BY <2>1, FitsKept DEF DistTypes
<1> QED BY <1>1, <1>2, <1>3 DEF JobsInv

LEMMA CallsKeepJobs ==
  ASSUME JobsInv, NEW c \in Call, Admit(c) \/ Refuse(c) \/ Fail(c) \/ Click(c) \/ Hear(c)
  PROVE  JobsInv'
<1> USE DEF JobsInv
<1>1. CASE Admit(c) \/ Refuse(c) \/ Fail(c)
  <2>1. \E a \in {"letIn", "refused", "failed"} :
          /\ \/ call[c] = "sent" /\ a \in {"letIn", "refused"}
             \/ call[c] = "letIn" /\ a = "failed"
          /\ Answered(c, a)
    <3>1. CASE Admit(c)
      BY <3>1 DEF Admit
    <3>2. CASE Refuse(c)
      BY <3>2 DEF Refuse
    <3>3. CASE Fail(c)
      BY <3>3 DEF Fail
    <3> QED BY <3>1, <3>2, <3>3, <1>1
  <2>2. PICK a \in States :
          /\ \/ call[c] = "sent" /\ a \in {"letIn", "refused"}
             \/ call[c] = "letIn" /\ a = "failed"
          /\ Answered(c, a)
    BY <2>1 DEF States
  <2>3. /\ call' \in [Call -> States] /\ call'[c] = a
        /\ \A d \in Call \ {c} : call'[d] = call[d]
    BY <2>2, AnswerTypes
  <2>4. /\ UNCHANGED <<poolVars, rows, sent, nodeVars, pageVars, broken, moved>>
        /\ rivals' \in BOOLEAN
    BY <1>1 DEF Admit, Refuse, Fail, DistTypes, history
  <2>5. DistTypes'
    BY <2>2, <2>3, <2>4 DEF DistTypes, poolVars, nodeVars, pageVars
  <2>6. SentRight'
    <3> SUFFICES ASSUME NEW d \in Call
                 PROVE  /\ call'[d] \in {"new", "sent"} => sent'[d] = 0
                        /\ call'[d] \in {"letIn", "failed", "succeeded"} => sent'[d] <= Len(Asked(d)')
                        /\ call'[d] = "letIn" => \E k \in Nat : sent'[d] = Chunk * k
                        /\ call'[d] = "succeeded" => sent'[d] = Len(Asked(d)') /\ BadRow[rows'[d]] = 0
      BY DEF SentRight
    <3>1. Asked(d)' = Asked(d) /\ sent'[d] = sent[d] /\ rows'[d] = rows[d]
      BY <2>4 DEF Asked
    <3>2. CASE d # c
      BY <2>3, <3>1, <3>2 DEF SentRight
    <3>3. CASE d = c /\ call[c] = "letIn"
      BY <2>2, <2>3, <3>1, <3>3 DEF SentRight
    <3>4. CASE d = c /\ call[c] = "sent"
      <4>1. sent'[d] = 0 /\ call'[d] \in {"letIn", "refused"}
        BY <2>2, <2>3, <3>1, <3>4 DEF SentRight
      <4>2. rows[d] \in Requests
        BY <3>4 DEF DistTypes
      <4>3. Len(Asked(d)) \in Nat
        BY <4>2, SlotsAsked, LenProperties DEF Asked
      <4>4. 0 = Chunk * 0
        BY DistributionAssumption
      <4> QED BY <3>1, <4>1, <4>3, <4>4
    <3> QED BY <3>2, <3>3, <3>4, <2>2
  <2>7. \A d \in LetIn : call'[d] \in {"letIn", "failed", "succeeded"}
    BY <2>2, <2>3 DEF LetIn
  <2> QED BY <2>4, <2>5, <2>6, <2>7, CallsOnly DEF poolVars
<1>2. CASE Click(c)
  <2>1. /\ call[c] = "new" /\ call' \in [Call -> States] /\ call'[c] = "sent"
        /\ \A d \in Call \ {c} : call'[d] = call[d]
    BY <1>2, AnswerTypes DEF Click, States
  <2>2. PICK r \in Requests : rows' = [rows EXCEPT ![c] = r]
    BY <1>2 DEF Click
  <2>3. /\ last' = c /\ UNCHANGED <<poolVars, sent, nodeVars, heard, history>>
    BY <1>2 DEF Click
  <2>4. rows' \in [Call -> Requests \cup {<<>>}] /\ rows'[c] = r
        /\ \A d \in Call \ {c} : rows'[d] = rows[d]
    BY <2>2 DEF DistTypes
  <2>5. DistTypes'
    BY <2>1, <2>3, <2>4 DEF DistTypes, poolVars, nodeVars, history
  <2>6. SentRight'
    <3>1. \A d \in Call \ {c} : Asked(d)' = Asked(d)
      BY <2>4 DEF Asked
    <3> QED BY <2>1, <2>3, <2>4, <3>1 DEF SentRight
  <2>7. \A d \in LetIn : call'[d] \in {"letIn", "failed", "succeeded"}
    BY <2>1 DEF LetIn
  <2> QED BY <2>3, <2>5, <2>6, <2>7, CallsOnly DEF poolVars
<1>3. CASE Hear(c)
  <2>1. UNCHANGED <<poolVars, callVars, nodeVars, last, history>> /\ heard' \subseteq Call
    BY <1>3 DEF Hear, DistTypes
  <2>2. DistTypes'
    BY <2>1 DEF DistTypes, poolVars, callVars, nodeVars, history
  <2>3. SentRight'
    BY <2>1 DEF SentRight, Asked, callVars
  <2> QED BY <2>1, <2>2, <2>3, CallsOnly DEF poolVars, callVars, LetIn
<1> QED BY <1>1, <1>2, <1>3

LEMMA DispatchKeepsJobs ==
  ASSUME JobsInv, NEW c \in Call, Dispatch(c) \/ Finish(c)
  PROVE  JobsInv'
<1> USE DEF JobsInv
<1> DEFINE n == Len(Asked(c))
<1>1. /\ call[c] = "letIn" /\ rows[c] \in Requests /\ sent[c] \in Nat /\ sent[c] <= n
      /\ Chunk \in Nat \ {0}
  BY DistributionAssumption DEF Dispatch, Finish, DistTypes, SentRight
<1>2. n \in Nat
  BY <1>1, SlotsAsked, LenProperties DEF Asked
<1>3. UNCHANGED <<rows, nodeVars, pageVars, history>>
  BY DEF Dispatch, Finish
<1>4. \A d \in Call : Asked(d)' = Asked(d)
  BY <1>3 DEF Asked
<1>5. PICK k \in Nat : sent[c] = Chunk * k
  BY <1>1 DEF SentRight
<1> HIDE DEF n
<1>6. CASE Dispatch(c)
  <2> DEFINE final == sent[c] + Chunk
  <2>1. /\ final \in Nat /\ sent[c] < final /\ final <= sent[c] + Chunk /\ final <= n
        /\ call' = call /\ sent' = [sent EXCEPT ![c] = final]
        /\ Execute(Job(c, sent[c] + 1, final))
    BY <1>1, <1>6 DEF Dispatch, n
  <2> HIDE DEF final
  <2>2. call' \in [Call -> States] /\ call'[c] = "letIn" /\ \A d \in Call \ {c} : call'[d] = call[d]
    BY <1>1, <2>1 DEF DistTypes
  <2>3. /\ running' \subseteq Jobs /\ queue' \in Seq(Jobs \cup {Other}) /\ JobsApart'
        /\ \A j \in Work' : Fits(j)'
    BY <1>1, <2>1, <2>2, HandedOver
  <2>4. /\ sent' \in [Call -> Nat] /\ sent'[c] = final
        /\ \A d \in Call \ {c} : sent'[d] = sent[d]
    BY <2>1 DEF DistTypes
  <2>5. DistTypes'
    BY <1>3, <2>1, <2>3, <2>4 DEF DistTypes, nodeVars, pageVars, history
  <2>6. k + 1 \in Nat /\ final = Chunk * (k + 1)
    BY <1>1, <1>5 DEF final
  <2>7. SentRight'
    BY <1>1, <1>3, <1>4, <2>1, <2>4, <2>6 DEF SentRight, n
  <2> QED BY <2>3, <2>5, <2>7
<1>7. CASE Finish(c)
  <2>1. /\ sent[c] + Chunk > n /\ BadRow[rows[c]] = 0
        /\ sent' = [sent EXCEPT ![c] = n] /\ Answered(c, "succeeded")
    BY <1>7 DEF Finish, n
  <2>2. /\ call' \in [Call -> States] /\ call'[c] = "succeeded"
        /\ \A d \in Call \ {c} : call'[d] = call[d]
    BY <2>1, AnswerTypes DEF States
  <2>3. /\ sent' \in [Call -> Nat] /\ sent'[c] = n
        /\ \A d \in Call \ {c} : sent'[d] = sent[d]
    BY <1>2, <2>1 DEF DistTypes
  <2>4. SentRight'
    BY <1>2, <1>3, <1>4, <2>1, <2>2, <2>3 DEF SentRight, n
  <2>5. CASE sent[c] < n
    <3>1. Execute(Job(c, sent[c] + 1, n)) /\ n <= sent[c] + Chunk
      BY <1>1, <1>2, <1>7, <2>1, <2>5 DEF Finish, n
    <3>2. /\ running' \subseteq Jobs /\ queue' \in Seq(Jobs \cup {Other}) /\ JobsApart'
          /\ \A j \in Work' : Fits(j)'
      BY <1>1, <1>2, <2>1, <2>2, <2>5, <3>1, HandedOver
    <3>3. DistTypes'
      BY <1>1, <1>3, <2>2, <2>3, <3>2 DEF DistTypes, nodeVars, pageVars, history
    <3> QED BY <2>4, <3>2, <3>3
  <2>6. CASE ~(sent[c] < n)
    <3>1. UNCHANGED poolVars /\ sent' = sent
      BY <1>1, <1>2, <1>7, <2>3, <2>6 DEF Finish, n, DistTypes
    <3>2. DistTypes'
      BY <1>1, <1>3, <2>2, <2>3, <3>1 DEF DistTypes, nodeVars, pageVars, history, poolVars
    <3>3. \A d \in LetIn : call'[d] \in {"letIn", "failed", "succeeded"}
      BY <2>2 DEF LetIn
    <3> QED BY <2>4, <3>1, <3>2, <3>3, CallsOnly DEF poolVars
  <2> QED BY <2>5, <2>6
<1> QED BY <1>6, <1>7

(* What is left of a job after a step of it.                               *)
Left(job, new) ==
  /\ new \subseteq Jobs /\ \A k, l \in new : k = l
  /\ \A k \in new :
       /\ k.call = job.call /\ k.final = job.final /\ k.next <= k.final
       /\ k.next = job.next \/ k.next = job.next + 1

LEMMA WentOn ==
  ASSUME NEW job \in Jobs, job.next <= job.final, GoesOn(job)
  PROVE  \E new : /\ Replace(job, new) /\ Left(job, new)
                  /\ \A k \in new : k.next = job.next + 1 /\ k.found = "unasked"
                  /\ job.next # job.final => new # {}
<1> DEFINE k == [job EXCEPT !.next = @ + 1, !.found = "unasked"]
<1>1. /\ job.next \in Nat \ {0} /\ job.final \in Nat
      /\ k \in Jobs /\ k.call = job.call /\ k.final = job.final
      /\ k.next = job.next + 1 /\ k.found = "unasked"
  <2>1. job.next \in Nat \ {0} /\ job.final \in Nat /\ job.call \in Call
    BY DEF Jobs
  <2>2. ASSUME NEW j \in Jobs, NEW m \in Nat \ {0}
        PROVE  [j EXCEPT !.next = m, !.found = "unasked"] \in Jobs
    BY <2>2 DEF Jobs
  <2>3. job.next + 1 \in Nat \ {0}
    BY <2>1
  <2>4. k \in Jobs
    BY <2>2, <2>3
  <2>5. k.call = job.call /\ k.final = job.final
    BY DEF Jobs
  <2>6. k.next = job.next + 1 /\ k.found = "unasked"
    BY DEF Jobs
  <2> HIDE DEF k
  <2> QED BY <2>1, <2>4, <2>5, <2>6
<1>2. CASE job.next = job.final
  <2>1. Replace(job, {})
    BY <1>2 DEF GoesOn
  <2>2. Left(job, {})
    BY DEF Left
  <2> QED BY <1>2, <2>1, <2>2
<1>3. CASE job.next # job.final
  <2>1. Replace(job, {k})
    BY <1>3 DEF GoesOn
  <2> HIDE DEF k
  <2>2. k.next <= k.final
    BY <1>1, <1>3
  <2>3. Left(job, {k})
    BY <1>1, <2>2 DEF Left
  <2> QED BY <1>1, <2>1, <2>3
<1> QED BY <1>2, <1>3

LEMMA Looked ==
  ASSUME NEW job \in Jobs, job.next <= job.final, Look(job)
  PROVE  \E found \in {"absent", "present"} :
           /\ found = "absent" <=> records[Slot(job)] = Null
           /\ Replace(job, {[job EXCEPT !.found = found]})
           /\ Left(job, {[job EXCEPT !.found = found]})
           /\ [job EXCEPT !.found = found] \in Jobs
<1>1. ASSUME NEW found \in {"absent", "present"}, NEW k, k = [job EXCEPT !.found = found]
      PROVE  /\ k \in Jobs /\ k.call = job.call /\ k.final = job.final
             /\ k.next = job.next /\ k.found = found
  BY <1>1 DEF Jobs
<1>2. \A found \in {"absent", "present"} : Left(job, {[job EXCEPT !.found = found]})
  BY <1>1 DEF Left
<1>3. CASE records[Slot(job)] = Null
  <2>1. Replace(job, {[job EXCEPT !.found = "absent"]})
    BY <1>3 DEF Look
  <2> QED BY <1>1, <1>2, <1>3, <2>1
<1>4. CASE records[Slot(job)] # Null
  <2>1. Replace(job, {[job EXCEPT !.found = "present"]})
    BY <1>4 DEF Look
  <2> QED BY <1>1, <1>2, <1>4, <2>1
<1> QED BY <1>3, <1>4

LEMMA StepOfJob ==
  ASSUME JobsInv, NEW job \in running, NEW new, Replace(job, new), Left(job, new)
  PROVE  /\ running' \subseteq Jobs /\ queue' \in Seq(Jobs \cup {Other})
         /\ Work' = (Work \ {job}) \cup new /\ JobsApart'
         /\ \A j \in Work' : Fits(j)'
         /\ UNCHANGED <<callVars, pageVars>>
<1>1. /\ running' \subseteq Jobs /\ queue' \in Seq(Jobs \cup {Other})
      /\ Work' = (Work \ {job}) \cup new /\ JobsApart'
  BY Replaced DEF JobsInv, Left
<1>2. UNCHANGED <<callVars, pageVars>>
  BY DEF Replace
<1>3. job \in Jobs /\ job \in Work /\ Fits(job)
  BY OtherIsNoJob DEF JobsInv, DistTypes, Work
<1>4. \A p : ChunkOf(p)' = ChunkOf(p)
  BY DEF ChunkOf
<1>5. ASSUME NEW j \in Work' PROVE Fits(j)'
  <2>1. CASE j \in Work
    <3>1. Fits(j)
      BY <2>1 DEF JobsInv
    <3> QED BY <1>2, <1>4, <3>1 DEF Fits, LetIn, callVars
  <2>2. CASE j \in new
    <3>1. /\ j.call = job.call /\ j.final = job.final /\ j.next <= j.final
          /\ j.next \in Nat \ {0} /\ j.final \in Nat /\ job.next \in Nat \ {0}
          /\ j.next = job.next \/ j.next = job.next + 1
      BY <1>3, <2>2 DEF Left, Jobs
    <3>2. j.next \in job.next .. job.final
      BY <3>1
    <3>3. ChunkOf(j.next) = ChunkOf(job.next)
      BY <1>3, <3>2 DEF Fits
    <3>4. \A p \in j.next .. j.final : p \in job.next .. job.final
      BY <3>1
    <3> QED BY <1>2, <1>3, <1>4, <3>1, <3>3, <3>4 DEF Fits, LetIn, callVars
  <2> QED BY <2>1, <2>2, <1>1
<1> QED BY <1>1, <1>2, <1>5

LEMMA JobsKeepJobs ==
  ASSUME JobsInv, NEW job \in running, Look(job) \/ Write(job) \/ WriteLost(job) \/ Dies(job)
  PROVE  JobsInv'
<1> USE DEF JobsInv
<1>1. job \in Jobs /\ job \in Work /\ Fits(job) /\ job.call \in Call /\ job.next <= job.final
  BY OtherIsNoJob DEF DistTypes, Work, Fits, Jobs
<1>2. \E new : Replace(job, new) /\ Left(job, new)
  <2>1. CASE Look(job)
    BY <1>1, <2>1, Looked
  <2>2. CASE Write(job) \/ WriteLost(job)
    BY <1>1, <2>2, WentOn DEF Write, WriteLost
  <2>3. CASE Dies(job)
    BY <2>3 DEF Dies, Left
  <2> QED BY <2>1, <2>2, <2>3
<1>3. /\ running' \subseteq Jobs /\ queue' \in Seq(Jobs \cup {Other})
      /\ JobsApart' /\ \A j \in Work' : Fits(j)'
      /\ UNCHANGED <<callVars, pageVars>>
  BY <1>2, StepOfJob
<1>4. records' \in [SlotId -> Group \cup {Null}]
  <2>1. CASE Write(job)
    <3>1. rows[job.call] \in Requests /\ SlotsOf[rows[job.call]] \in Seq(Asks)
      BY <1>1, SlotsAsked DEF Fits, LetIn, DistTypes
    <3>2. job.next \in 1 .. Len(Asked(job.call))
      <4>1. Len(Asked(job.call)) \in Nat /\ job.next \in Nat \ {0}
            /\ job.final \in Nat /\ sent[job.call] \in Nat
        BY <1>1, <3>1 DEF Asked, Jobs, DistTypes
      <4>2. job.final <= sent[job.call] /\ sent[job.call] <= Len(Asked(job.call))
        BY <1>1 DEF Fits, LetIn, SentRight
      <4> QED BY <1>1, <4>1, <4>2
    <3>3. Asked(job.call)[job.next] \in Asks
      BY <3>1, <3>2, ElementOfSeq DEF Asked
    <3> QED BY <2>1, <3>3 DEF Write, DistTypes, Asks
  <2>2. CASE ~Write(job)
    BY <2>2 DEF Look, WriteLost, Dies, nodeVars, DistTypes
  <2> QED BY <2>1, <2>2
<1>5. /\ known' \in BOOLEAN /\ broken' \subseteq Call /\ UNCHANGED <<rivals, moved>>
  BY <1>1 DEF Look, Write, WriteLost, Dies, nodeVars, history, DistTypes
<1>6. DistTypes'
  BY <1>3, <1>4, <1>5 DEF DistTypes, callVars, pageVars
<1>7. SentRight'
  BY <1>3 DEF SentRight, Asked, callVars
<1> QED BY <1>3, <1>6, <1>7

LEMMA OthersKeepJobs ==
  ASSUME JobsInv,
         \/ Dequeue \/ OtherSubmitted \/ OtherEnds \/ ClientStarts
         \/ (\E s \in SlotId : Migrate(s)) \/ Crash \/ UNCHANGED distVars
  PROVE  JobsInv'
<1> USE DEF JobsInv
<1>1. CASE Dequeue \/ OtherSubmitted
  <2>1. /\ running' \subseteq Jobs /\ queue' \in Seq(Jobs \cup {Other})
        /\ Work' = Work /\ JobsApart'
    BY <1>1, Dequeued, SubmittedOther
  <2>2. UNCHANGED <<callVars, nodeVars, pageVars, history>>
    BY <1>1 DEF Dequeue, OtherSubmitted
  <2>3. DistTypes' /\ SentRight'
    BY <2>1, <2>2 DEF DistTypes, SentRight, Asked, callVars, nodeVars, pageVars, history
  <2>4. ASSUME NEW j \in Work PROVE Fits(j)'
    <3>1. j.call \in LetIn
      BY DEF Fits
    <3> QED BY <2>2, <2>3, <3>1, FitsKept DEF callVars, LetIn, DistTypes
  <2> QED BY <2>1, <2>3, <2>4
<1>2. CASE OtherEnds \/ ClientStarts \/ (\E s \in SlotId : Migrate(s)) \/ UNCHANGED distVars
  <2>1. /\ UNCHANGED <<running, queue, callVars, pageVars, rivals, broken>>
        /\ known' \in BOOLEAN /\ records' \in [SlotId -> Group \cup {Null}]
        /\ moved' \subseteq SlotId
    <3>1. CASE OtherEnds \/ UNCHANGED distVars
      BY <3>1 DEF OtherEnds, distVars, poolVars, callVars, nodeVars, pageVars, history, DistTypes
    <3>2. CASE ClientStarts
      BY <3>2 DEF ClientStarts, poolVars, history, DistTypes
    <3>3. CASE \E s \in SlotId : Migrate(s)
      <4>1. PICK s \in SlotId : Migrate(s)
        BY <3>3
      <4>2. records' \in [SlotId -> Group \cup {Null}]
        BY <4>1 DEF Migrate, DistTypes
      <4> QED BY <4>1, <4>2 DEF Migrate, poolVars, DistTypes
    <3> QED BY <1>2, <3>1, <3>2, <3>3
  <2>2. DistTypes' /\ SentRight'
    BY <2>1 DEF DistTypes, SentRight, Asked, callVars, pageVars
  <2> QED BY <2>1, <2>2, CallsOnly DEF callVars, LetIn
<1>3. CASE Crash
  <2>1. running' = {} /\ queue' = <<>> /\ Work' = {}
    BY <1>3 DEF Crash, Work, Range
  <2>2. call' = [c \in Call |-> IF call[c] \in {"sent", "letIn"} THEN "gone" ELSE call[c]]
        /\ UNCHANGED <<rows, sent, nodeVars, pageVars, rivals, moved>>
    BY <1>3 DEF Crash
  <2>3. broken' \subseteq Call
    <3>1. \A j \in running \cup Range(queue) : j.call \in Call \cup {Null}
      <4>1. DOMAIN queue = 1 .. Len(queue) /\ \A i \in 1 .. Len(queue) : queue[i] \in Jobs \cup {Other}
        BY DEF DistTypes
      <4> QED BY <4>1 DEF DistTypes, Jobs, Other, Range
    <3> QED BY <1>3, <3>1 DEF Crash, DistTypes
  <2>4. /\ call' \in [Call -> States]
        /\ \A c \in Call : /\ call'[c] = "new" => call[c] = "new"
                           /\ call'[c] \in {"new", "sent", "failed", "succeeded"} => call'[c] = call[c]
                           /\ call'[c] # "letIn"
    BY <2>2 DEF DistTypes, States
  <2>5. DistTypes'
    BY <2>1, <2>2, <2>3, <2>4 DEF DistTypes, nodeVars, pageVars
  <2>6. SentRight'
    <3>1. \A c \in Call : Asked(c)' = Asked(c)
      BY <2>2 DEF Asked
    <3> QED BY <2>2, <2>4, <3>1 DEF SentRight
  <2>7. JobsApart'
    BY <2>1 DEF JobsApart
  <2> QED BY <2>1, <2>5, <2>6, <2>7
<1> QED BY <1>1, <1>2, <1>3

LEMMA JobsStep == JobsInv /\ [Next]_distVars => JobsInv'
<1> SUFFICES ASSUME JobsInv, [Next]_distVars PROVE JobsInv'
  OBVIOUS
<1>1. ASSUME NEW c \in Call, Admit(c) \/ Refuse(c) \/ ServerStep(c) \/ Click(c) \/ Hear(c)
      PROVE  JobsInv'
  BY <1>1, CallsKeepJobs, DispatchKeepsJobs DEF ServerStep
<1>2. CASE JobStep
  BY <1>2, JobsKeepJobs DEF JobStep
<1>3. CASE \/ Dequeue \/ OtherSubmitted \/ OtherEnds \/ ClientStarts
           \/ (\E s \in SlotId : Migrate(s)) \/ Crash \/ UNCHANGED distVars
  BY <1>3, OthersKeepJobs
<1> QED BY <1>1, <1>2, <1>3 DEF Next, BackendStep, PageStep

-----------------------------------------------------------------------------
(* What the records owe to the jobs that are done.                         *)

Covers(j, c, p) == j.call = c /\ j.next <= p /\ p <= j.final

\* The job of the place p is through with it.
Done(c, p) == p \in 1 .. sent[c] /\ \A j \in Work : ~Covers(j, c, p)

DoneAt(c, p, s) == Done(c, p) /\ Asked(c)[p].slot = s

\* The last place for s that is done, in its chunk.
LastDone(c, p, s) ==
  /\ DoneAt(c, p, s)
  /\ \A r \in Nat : DoneAt(c, r, s) /\ ChunkOf(r) = ChunkOf(p) => r <= p

Alone == ~rivals => \A c, d \in LetIn : c = d

Kept ==
  /\ \A s \in SlotId : records[s] # Null => known
  /\ \A s \in moved : records[s] # Null

Owed ==
  ~rivals => \A c \in LetIn : \A s \in SlotId :
    records[s] # Null => \E p \in Nat : DoneAt(c, p, s)

Filled ==
  \A c \in LetIn \ broken : \A p \in Nat : Done(c, p) => records[Asked(c)[p].slot] # Null

Named ==
  ~rivals => \A c \in LetIn \ broken : \A s \in SlotId \ moved :
    records[s] # Null =>
      \E p \in Nat : LastDone(c, p, s) /\ records[s] = Asked(c)[p].group

(* A job that found no node is at the first place for it in its chunk.     *)
Unseen ==
  \A j \in Work : j.found = "absent" /\ j.call \notin broken =>
    \A r \in 1 .. j.next - 1 :
      ChunkOf(r) = ChunkOf(j.next) => Asked(j.call)[r].slot # Slot(j)

RecordsInv == Alone /\ Kept /\ Owed /\ Filled /\ Named /\ Unseen

LEMMA AskedType ==
  ASSUME JobsInv, NEW c \in LetIn
  PROVE  /\ c \in Call /\ sent[c] \in Nat /\ sent[c] <= Len(Asked(c)) /\ Len(Asked(c)) \in Nat
         /\ \A p \in 1 .. Len(Asked(c)) :
              Asked(c)[p].slot \in SlotId /\ Asked(c)[p].group \in Group
<1>1. /\ c \in Call /\ call[c] \in {"letIn", "failed", "succeeded"}
      /\ rows[c] \in Requests /\ sent[c] \in Nat /\ sent[c] <= Len(Asked(c))
  BY DEF LetIn, JobsInv, DistTypes, SentRight
<1>2. Asked(c) \in Seq(Asks)
  BY <1>1, SlotsAsked DEF Asked
<1>3. ASSUME NEW p \in 1 .. Len(Asked(c))
      PROVE  Asked(c)[p].slot \in SlotId /\ Asked(c)[p].group \in Group
  <2>1. Asked(c)[p] \in Asks
    BY <1>2, ElementOfSeq
  <2> QED BY <2>1 DEF Asks
<1> QED BY <1>1, <1>2, <1>3, LenProperties

LEMMA JobType ==
  ASSUME JobsInv, NEW j \in Work
  PROVE  /\ j \in Jobs /\ Fits(j) /\ j.call \in LetIn /\ j.call \in Call
         /\ j.next \in Nat \ {0} /\ j.final \in Nat /\ j.next <= j.final
         /\ sent[j.call] \in Nat /\ j.final <= sent[j.call]
         /\ j.next \in 1 .. Len(Asked(j.call))
<1>1. /\ j \in Jobs /\ Fits(j) /\ j.call \in Call /\ j.call \in LetIn
      /\ j.next \in Nat \ {0} /\ j.final \in Nat /\ j.next <= j.final
      /\ j.final <= sent[j.call]
  BY WorkIs DEF JobsInv, Jobs, Fits
<1>2. sent[j.call] \in Nat /\ sent[j.call] <= Len(Asked(j.call)) /\ Len(Asked(j.call)) \in Nat
  BY <1>1, AskedType
<1> QED BY <1>1, <1>2

LEMMA OnePerChunk ==
  ASSUME JobsInv, NEW j \in Work, NEW k \in Work,
         j.call = k.call, ChunkOf(j.next) = ChunkOf(k.next)
  PROVE  j = k
<1>1. /\ j.next \in Nat \ {0} /\ j.final \in Nat /\ j.next <= j.final
      /\ k.next \in Nat \ {0} /\ k.final \in Nat /\ k.next <= k.final
      /\ j.final <= sent[j.call] /\ k.final <= sent[j.call] /\ sent[j.call] \in Nat
      /\ Fits(j) /\ Fits(k)
  BY JobType
<1>2. j.final \in j.next .. j.final /\ k.final \in k.next .. k.final
      /\ j.final \in 1 .. sent[j.call] /\ k.final \in 1 .. sent[j.call]
  BY <1>1
<1>3. ChunkOf(j.final) = ChunkOf(k.next) /\ ChunkOf(k.final) = ChunkOf(j.next)
  BY <1>1, <1>2 DEF Fits
<1>4. j.final <= k.final /\ k.final <= j.final
  BY <1>1, <1>2, <1>3 DEF Fits
<1>5. j.final = k.final
  BY <1>1, <1>4
<1> QED BY <1>5 DEF JobsInv, JobsApart

LEMMA OnlyOneCovers ==
  ASSUME JobsInv, NEW j \in Work, NEW k \in Work, NEW c, NEW p \in Nat,
         Covers(j, c, p), Covers(k, c, p)
  PROVE  j = k
<1>1. Fits(j) /\ Fits(k) /\ j.next \in Nat /\ k.next \in Nat /\ j.final \in Nat /\ k.final \in Nat
  BY JobType
<1>2. p \in j.next .. j.final /\ p \in k.next .. k.final /\ j.call = k.call
  BY <1>1 DEF Covers
<1>3. ChunkOf(j.next) = ChunkOf(k.next)
  BY <1>1, <1>2 DEF Fits
<1> QED BY <1>2, <1>3, OnePerChunk

(* A job takes its chunk from the front.                                   *)
LEMMA DoneInFront ==
  ASSUME JobsInv, NEW j \in Work, NEW r \in 1 .. j.next - 1, ChunkOf(r) = ChunkOf(j.next)
  PROVE  Done(j.call, r)
<1>1. /\ j.next \in Nat /\ j.final \in Nat /\ j.next <= j.final
      /\ sent[j.call] \in Nat /\ j.final <= sent[j.call]
  BY JobType
<1>2. r \in 1 .. sent[j.call] /\ r \in Nat /\ ~(j.next <= r)
  BY <1>1
<1>3. ASSUME NEW k \in Work, Covers(k, j.call, r) PROVE FALSE
  <2>1. Fits(k) /\ k.next \in Nat /\ k.final \in Nat
    BY JobType
  <2>2. r \in k.next .. k.final /\ k.call = j.call
    BY <1>2, <1>3, <2>1 DEF Covers
  <2>3. ChunkOf(k.next) = ChunkOf(j.next)
    BY <2>1, <2>2 DEF Fits
  <2>4. k = j
    BY <2>2, <2>3, OnePerChunk
  <2> QED BY <1>2, <1>3, <2>4 DEF Covers
<1> QED BY <1>2, <1>3 DEF Done

LEMMA DoneStays ==
  ASSUME JobsInv, NEW job \in running, NEW new, Replace(job, new), Left(job, new)
  PROVE  /\ \A c \in Call : \A p \in Nat : Done(c, p) => Done(c, p)'
         /\ \A c \in Call \ {job.call} : \A p \in Nat : Done(c, p)' => Done(c, p)
<1>1. /\ job \in Work /\ Work' = (Work \ {job}) \cup new /\ sent' = sent
  <2>1. job \in Work
    BY OtherIsNoJob DEF JobsInv, DistTypes, Work
  <2> QED BY <2>1, StepOfJob DEF callVars
<1>2. ASSUME NEW k \in new, NEW c, NEW p \in Nat, Covers(k, c, p)
      PROVE  Covers(job, c, p)
  <2>1. job.next \in Nat
    BY <1>1, JobType
  <2> QED BY <1>2, <2>1 DEF Left, Covers
<1>3. ASSUME NEW c \in Call, NEW p \in Nat, Done(c, p) PROVE Done(c, p)'
  BY <1>1, <1>2, <1>3 DEF Done, Covers
<1>4. ASSUME NEW c \in Call \ {job.call}, NEW p \in Nat, Done(c, p)' PROVE Done(c, p)
  BY <1>1, <1>4 DEF Done, Covers
<1> QED BY <1>3, <1>4

LEMMA DoneNext ==
  ASSUME JobsInv, NEW job \in running, NEW new, Replace(job, new), Left(job, new),
         \A k \in new : k.next = job.next + 1,
         job.next # job.final => new # {}
  PROVE  /\ Done(job.call, job.next)'
         /\ \A c \in Call : \A p \in Nat :
              Done(c, p)' => Done(c, p) \/ (c = job.call /\ p = job.next)
<1>1. /\ job \in Work /\ Work' = (Work \ {job}) \cup new /\ sent' = sent
  <2>1. job \in Work
    BY OtherIsNoJob DEF JobsInv, DistTypes, Work
  <2> QED BY <2>1, StepOfJob DEF callVars
<1>2. /\ job.next \in Nat \ {0} /\ job.final \in Nat /\ job.next <= job.final
      /\ sent[job.call] \in Nat /\ job.final <= sent[job.call]
  BY <1>1, JobType
<1>3. Covers(job, job.call, job.next)
  BY <1>2 DEF Covers
<1>4. ASSUME NEW j \in Work', Covers(j, job.call, job.next) PROVE FALSE
  <2>1. CASE j \in Work \ {job}
    BY <1>1, <1>2, <1>3, <1>4, <2>1, OnlyOneCovers
  <2>2. CASE j \in new
    BY <1>2, <1>4, <2>2 DEF Covers
  <2> QED BY <1>1, <2>1, <2>2
<1>5. Done(job.call, job.next)'
  BY <1>1, <1>2, <1>4 DEF Done, Covers
<1>6. ASSUME NEW c \in Call, NEW p \in Nat, Done(c, p)'
      PROVE  Done(c, p) \/ (c = job.call /\ p = job.next)
  <2> SUFFICES ASSUME ~Done(c, p) PROVE c = job.call /\ p = job.next
    OBVIOUS
  <2>1. PICK j \in Work : Covers(j, c, p)
    BY <1>1, <1>6 DEF Done
  <2>2. j = job
    BY <1>1, <1>6, <2>1 DEF Done, Covers
  <2>3. CASE p # job.next
    <3>1. job.next # job.final /\ job.next + 1 <= p /\ p <= job.final
      BY <1>2, <2>1, <2>2, <2>3 DEF Covers
    <3>2. PICK k \in new : TRUE
      BY <3>1
    <3>3. Covers(k, c, p)
      BY <2>1, <2>2, <3>1, <3>2 DEF Covers, Left
    <3> QED BY <1>1, <1>6, <3>3 DEF Done, Covers
  <2> QED BY <2>1, <2>2, <2>3 DEF Covers
<1> QED BY <1>5, <1>6

LEMMA RecordsInit == Init => RecordsInv
<1> SUFFICES ASSUME Init PROVE RecordsInv
  OBVIOUS
<1>1. LetIn = {} /\ Work = {}
  BY DEF Init, LetIn, Work, Range
<1> QED BY <1>1 DEF Init, RecordsInv, Alone, Kept, Owed, Filled, Named, Unseen

(* A step that writes no record keeps what is owed, when no call is let in *)
(* and no place is done that was not, except for calls that lost a write.  *)
LEMMA NothingWritten ==
  ASSUME JobsInv, RecordsInv, records' = records, known => known', rivals' = rivals,
         broken \subseteq broken', moved' = moved, LetIn' \subseteq LetIn,
         \A c \in LetIn : Asked(c)' = Asked(c),
         \A c \in LetIn' : \A p \in Nat : Done(c, p) => Done(c, p)',
         \A c \in LetIn' \ broken' : \A p \in Nat : Done(c, p)' => Done(c, p),
         \A j \in Work' : j.found = "absent" /\ j.call \notin broken' => j \in Work
  PROVE  RecordsInv'
<1> USE DEF RecordsInv
<1>1. \A p : ChunkOf(p)' = ChunkOf(p)
  BY DEF ChunkOf
<1>2. Alone' /\ Kept'
  BY DEF Alone, Kept
<1>3. Owed'
  <2> SUFFICES ASSUME ~rivals, NEW c \in LetIn', NEW s \in SlotId, records[s] # Null
               PROVE  \E p \in Nat : DoneAt(c, p, s)'
    BY DEF Owed
  <2>1. PICK p \in Nat : DoneAt(c, p, s)
    BY DEF Owed
  <2> QED BY <2>1 DEF DoneAt
<1>4. Filled'
  BY DEF Filled
<1>5. Named'
  <2> SUFFICES ASSUME ~rivals, NEW c \in LetIn' \ broken', NEW s \in SlotId \ moved,
                      records[s] # Null
               PROVE  \E p \in Nat : LastDone(c, p, s)' /\ records[s] = Asked(c)'[p].group
    BY DEF Named
  <2>1. c \in LetIn \ broken
    OBVIOUS
  <2>2. PICK p \in Nat : LastDone(c, p, s) /\ records[s] = Asked(c)[p].group
    BY <2>1 DEF Named
  <2>3. \A r \in Nat : DoneAt(c, r, s)' <=> DoneAt(c, r, s)
    BY <2>1 DEF DoneAt
  <2>4. LastDone(c, p, s)'
    BY <1>1, <2>2, <2>3 DEF LastDone
  <2> QED BY <2>1, <2>2, <2>4
<1>6. Unseen'
  <2> SUFFICES ASSUME NEW j \in Work', j.found = "absent", j.call \notin broken',
                      NEW r \in 1 .. j.next - 1, ChunkOf(r) = ChunkOf(j.next)
               PROVE  Asked(j.call)'[r].slot # Slot(j)'
    BY <1>1 DEF Unseen
  <2>1. j \in Work /\ j.call \in LetIn
    BY JobType
  <2> QED BY <2>1 DEF Unseen, Slot
<1> QED BY <1>2, <1>3, <1>4, <1>5, <1>6

\* Steps that neither write a record nor take a place of a job.
LEMMA QuietRecords ==
  ASSUME JobsInv, RecordsInv,
         \/ \E c \in Call : Refuse(c) \/ Fail(c) \/ Click(c) \/ Hear(c)
         \/ Dequeue \/ OtherSubmitted \/ OtherEnds \/ ClientStarts \/ UNCHANGED distVars
  PROVE  RecordsInv'
<1>1. /\ records' = records /\ (known => known') /\ sent' = sent /\ UNCHANGED history
  BY DEF Refuse, Fail, Click, Hear, Dequeue, OtherSubmitted, OtherEnds, ClientStarts,
         distVars, callVars, nodeVars
<1>2. Work' = Work
  <2>1. CASE Dequeue \/ OtherSubmitted
    BY <2>1, Dequeued, SubmittedOther DEF JobsInv
  <2>2. CASE ~(Dequeue \/ OtherSubmitted)
    <3>1. running' = running /\ queue' = queue
      BY <2>2 DEF Refuse, Fail, Click, Hear, OtherEnds, ClientStarts, distVars, poolVars
    <3> QED BY <3>1 DEF Work
  <2> QED BY <2>1, <2>2
<1>3. LetIn' = LetIn /\ \A c \in LetIn : Asked(c)' = Asked(c)
  <2>1. CASE \E c \in Call : Refuse(c) \/ Fail(c)
    <3>1. PICK c \in Call : Refuse(c) \/ Fail(c)
      BY <2>1
    <3>2. \/ call[c] = "sent" /\ Answered(c, "refused")
          \/ call[c] = "letIn" /\ Answered(c, "failed")
      BY <3>1 DEF Refuse, Fail
    <3>3. PICK a \in States : /\ Answered(c, a)
                              /\ \/ call[c] = "sent" /\ a = "refused"
                                 \/ call[c] = "letIn" /\ a = "failed"
      BY <3>2 DEF States
    <3>4. /\ call'[c] = a /\ \A d \in Call \ {c} : call'[d] = call[d]
      BY <3>3, AnswerTypes DEF JobsInv
    <3>5. LetIn' = LetIn
      BY <3>3, <3>4 DEF LetIn
    <3>6. rows' = rows
      BY <3>1 DEF Refuse, Fail
    <3> QED BY <3>5, <3>6 DEF Asked
  <2>2. CASE \E c \in Call : Click(c)
    <3>1. PICK c \in Call : Click(c)
      BY <2>2
    <3>2. PICK r \in Requests : rows' = [rows EXCEPT ![c] = r]
      BY <3>1 DEF Click
    <3>3. /\ call[c] = "new" /\ call'[c] = "sent" /\ \A d \in Call \ {c} : call'[d] = call[d]
      BY <3>1, AnswerTypes DEF Click, States, JobsInv
    <3>4. \A d \in Call \ {c} : rows'[d] = rows[d]
      BY <3>2 DEF JobsInv, DistTypes
    <3>5. LetIn' = LetIn /\ c \notin LetIn /\ LetIn \subseteq Call
      BY <3>3 DEF LetIn
    <3> QED BY <3>4, <3>5 DEF Asked
  <2>3. CASE ~\E c \in Call : Refuse(c) \/ Fail(c) \/ Click(c)
    <3>1. call' = call /\ rows' = rows
      BY <2>3 DEF Hear, Dequeue, OtherSubmitted, OtherEnds, ClientStarts, distVars, callVars
    <3> QED BY <3>1 DEF LetIn, Asked
  <2> QED BY <2>1, <2>2, <2>3
<1>4. \A c, p : Done(c, p)' = Done(c, p)
  BY <1>1, <1>2 DEF Done, Covers
<1> QED BY <1>1, <1>2, <1>3, <1>4, NothingWritten DEF history

LEMMA AdmitRecords ==
  ASSUME JobsInv, RecordsInv, NEW c \in Call, Admit(c)
  PROVE  RecordsInv'
<1> USE DEF RecordsInv
<1>1. /\ call[c] = "sent" /\ call'[c] = "letIn" /\ \A d \in Call \ {c} : call'[d] = call[d]
  BY AnswerTypes DEF Admit, JobsInv, States
<1>2. /\ UNCHANGED <<poolVars, rows, sent, nodeVars, pageVars, broken, moved>>
      /\ rivals' = (rivals \/ known \/ LetIn # {})
  BY DEF Admit
<1>3. LetIn' = LetIn \cup {c} /\ c \notin LetIn
  BY <1>1 DEF LetIn
<1>4. Work' = Work /\ \A d : Asked(d)' = Asked(d)
  BY <1>2 DEF Work, poolVars, Asked
<1>5. \A d, p : Done(d, p)' = Done(d, p)
  BY <1>2, <1>4 DEF Done, Covers
<1>6. sent[c] = 0 /\ \A p \in Nat : ~Done(c, p)
  BY <1>1 DEF JobsInv, SentRight, Done
<1>7. ~rivals' => ~rivals /\ LetIn = {} /\ \A s \in SlotId : records[s] = Null
  BY <1>2 DEF Kept, JobsInv, DistTypes
<1>8. \A p : ChunkOf(p)' = ChunkOf(p)
  BY DEF ChunkOf
<1>9. Alone' /\ Kept'
  BY <1>2, <1>3, <1>7 DEF Alone, Kept, nodeVars
<1>10. Owed' /\ Named'
  BY <1>2, <1>7 DEF Owed, Named, nodeVars
<1>11. Filled'
  BY <1>2, <1>3, <1>4, <1>5, <1>6 DEF Filled, nodeVars
<1>12. Unseen'
  BY <1>2, <1>4, <1>8 DEF Unseen, Slot
<1> QED BY <1>9, <1>10, <1>11, <1>12

LEMMA HandingRecords ==
  ASSUME JobsInv, RecordsInv, NEW c \in Call, Dispatch(c) \/ Finish(c)
  PROVE  RecordsInv'
<1>1. /\ UNCHANGED <<rows, nodeVars, pageVars, history>> /\ call[c] = "letIn"
      /\ \A d : Asked(d)' = Asked(d)
  BY DEF Dispatch, Finish, Asked
<1>2. c \in LetIn /\ sent[c] \in Nat /\ Chunk \in Nat \ {0} /\ Len(Asked(c)) \in Nat
      /\ sent[c] <= Len(Asked(c))
  <2>1. c \in LetIn
    BY <1>1 DEF LetIn
  <2> QED BY <2>1, AskedType, DistributionAssumption
<1>3. \E final \in Nat, a \in {"letIn", "succeeded"} :
        /\ sent[c] <= final /\ final <= sent[c] + Chunk
        /\ sent' = [sent EXCEPT ![c] = final]
        /\ call' = [call EXCEPT ![c] = a]
        /\ IF sent[c] < final THEN Execute(Job(c, sent[c] + 1, final))
           ELSE UNCHANGED poolVars
  <2>1. CASE Dispatch(c)
    <3>1. call' = [call EXCEPT ![c] = "letIn"]
      BY <1>1, <2>1 DEF Dispatch, JobsInv, DistTypes
    <3>2. sent[c] + Chunk \in Nat /\ sent[c] < sent[c] + Chunk /\ sent[c] <= sent[c] + Chunk
          /\ sent[c] + Chunk <= sent[c] + Chunk
      BY <1>2
    <3> QED BY <2>1, <3>1, <3>2 DEF Dispatch
  <2>2. CASE Finish(c)
    <3>1. Len(Asked(c)) <= sent[c] + Chunk
      BY <1>2, <2>2 DEF Finish
    <3> QED BY <1>2, <2>2, <3>1 DEF Finish, Answered
  <2> QED BY <2>1, <2>2
<1>4. PICK final \in Nat, a \in {"letIn", "succeeded"} :
        /\ sent[c] <= final /\ final <= sent[c] + Chunk
        /\ sent' = [sent EXCEPT ![c] = final]
        /\ call' = [call EXCEPT ![c] = a]
        /\ IF sent[c] < final THEN Execute(Job(c, sent[c] + 1, final))
           ELSE UNCHANGED poolVars
  BY <1>3
<1>5. /\ call' \in [Call -> States] /\ call'[c] = a /\ \A d \in Call \ {c} : call'[d] = call[d]
      /\ sent'[c] = final /\ \A d \in Call \ {c} : sent'[d] = sent[d]
  BY <1>4 DEF JobsInv, DistTypes, States
<1>6. LetIn' = LetIn
  BY <1>1, <1>5 DEF LetIn
<1> DEFINE job == Job(c, sent[c] + 1, final)
<1>7. /\ job.call = c /\ job.next = sent[c] + 1 /\ job.final = final /\ job.found = "unasked"
  BY DEF Job
<1>8. IF sent[c] < final THEN Work' = Work \cup {job} ELSE Work' = Work /\ sent' = sent
  <2>1. CASE sent[c] < final
    BY <1>1, <1>4, <1>5, <2>1, HandedOver
  <2>2. CASE ~(sent[c] < final)
    <3>1. UNCHANGED poolVars /\ final = sent[c]
      BY <1>2, <1>4, <2>2
    <3>2. sent' = sent
      BY <1>4, <3>1 DEF JobsInv, DistTypes
    <3> QED BY <2>2, <3>1, <3>2 DEF Work, poolVars
  <2> QED BY <2>1, <2>2
<1> HIDE DEF job
<1>9. ASSUME NEW d \in LetIn, NEW p \in Nat
      PROVE  Done(d, p)' <=> Done(d, p)
  <2>1. CASE sent[c] < final /\ d = c
    <3>1. p \in 1 .. final <=> p \in 1 .. sent[c] \/ Covers(job, c, p)
      BY <1>2, <1>7, <2>1 DEF Covers
    <3>2. p \in 1 .. sent[c] => ~Covers(job, c, p)
      BY <1>2, <1>7 DEF Covers
    <3> QED BY <1>5, <1>8, <2>1, <3>1, <3>2 DEF Done, Covers
  <2>2. CASE sent[c] < final /\ d # c
    <3>1. ~Covers(job, d, p) /\ d \in Call
      BY <1>7, <2>2 DEF Covers, LetIn
    <3> QED BY <1>5, <1>8, <2>2, <3>1 DEF Done, Covers
  <2>3. CASE ~(sent[c] < final)
    BY <1>8, <2>3 DEF Done, Covers
  <2> QED BY <2>1, <2>2, <2>3
<1>10. \A j \in Work' : j.found = "absent" => j \in Work
  BY <1>7, <1>8
<1> QED BY <1>1, <1>6, <1>9, <1>10, NothingWritten DEF nodeVars, history

LEMMA LookRecords ==
  ASSUME JobsInv, RecordsInv, NEW job \in running, Look(job)
  PROVE  RecordsInv'
<1> USE DEF RecordsInv
<1>1. job \in Work
  BY OtherIsNoJob DEF JobsInv, DistTypes, Work
<1>2. /\ job \in Jobs /\ job.call \in LetIn /\ job.call \in Call
      /\ job.next \in Nat \ {0} /\ job.final \in Nat /\ job.next <= job.final
  BY <1>1, JobType
<1>3. PICK found \in {"absent", "present"} :
        /\ found = "absent" <=> records[Slot(job)] = Null
        /\ Replace(job, {[job EXCEPT !.found = found]})
        /\ Left(job, {[job EXCEPT !.found = found]})
        /\ [job EXCEPT !.found = found] \in Jobs
  BY <1>2, Looked
<1> DEFINE k == [job EXCEPT !.found = found]
<1>4. k.call = job.call /\ k.next = job.next /\ k.final = job.final /\ k.found = found
  BY <1>2 DEF Jobs
<1>5. Replace(job, {k}) /\ Left(job, {k})
  BY <1>3
<1> HIDE DEF k
<1>6. Work' = (Work \ {job}) \cup {k} /\ UNCHANGED <<callVars, pageVars>>
  BY <1>5, StepOfJob
<1>7. /\ UNCHANGED <<nodeVars, history>> /\ LetIn' = LetIn /\ sent' = sent
      /\ \A c : Asked(c)' = Asked(c)
  BY <1>6 DEF Look, LetIn, Asked, callVars
<1>8. \A c, p : Done(c, p)' <=> Done(c, p)
  BY <1>1, <1>4, <1>6, <1>7 DEF Done, Covers
<1>9. \A p : ChunkOf(p)' = ChunkOf(p)
  BY DEF ChunkOf
<1>10. Alone' /\ Kept' /\ Owed' /\ Filled'
  BY <1>7, <1>8 DEF Alone, Kept, Owed, Filled, DoneAt, nodeVars, history
<1>11. Named'
  BY <1>7, <1>8, <1>9 DEF Named, LastDone, DoneAt, nodeVars, history
<1>12. Unseen'
  <2> SUFFICES ASSUME NEW j \in Work', j.found = "absent", j.call \notin broken,
                      NEW r \in 1 .. j.next - 1, ChunkOf(r) = ChunkOf(j.next)
               PROVE  Asked(j.call)[r].slot # Asked(j.call)[j.next].slot
    BY <1>7, <1>9 DEF Unseen, Slot, history
  <2>1. CASE j \in Work
    BY <2>1 DEF Unseen, Slot
  <2>2. CASE j = k
    <3>1. r \in 1 .. job.next - 1 /\ ChunkOf(r) = ChunkOf(job.next) /\ job.call \notin broken
          /\ r \in Nat
      BY <1>2, <1>4, <2>2
    <3>2. Done(job.call, r)
      BY <1>1, <3>1, DoneInFront
    <3>3. records[Asked(job.call)[r].slot] # Null
      BY <1>2, <3>1, <3>2 DEF Filled
    <3>4. records[Asked(job.call)[job.next].slot] = Null
      BY <1>3, <1>4, <2>2 DEF Slot
    <3> QED BY <1>4, <2>2, <3>3, <3>4
  <2> QED BY <1>6, <2>1, <2>2
<1> QED BY <1>10, <1>11, <1>12

\* A job that loses a write or dies: nothing more is said of its call.
LEMMA LossRecords ==
  ASSUME JobsInv, RecordsInv, NEW job \in running, WriteLost(job) \/ Dies(job)
  PROVE  RecordsInv'
<1>1. job \in Work
  BY OtherIsNoJob DEF JobsInv, DistTypes, Work
<1>2. job \in Jobs /\ job.call \in Call /\ job.next <= job.final
  BY <1>1, JobType
<1>3. \E new : /\ Replace(job, new) /\ Left(job, new)
               /\ \A k \in new : k.found = "unasked"
  <2>1. CASE WriteLost(job)
    BY <1>2, <2>1, WentOn DEF WriteLost
  <2>2. CASE Dies(job)
    BY <2>2 DEF Dies, Left
  <2> QED BY <2>1, <2>2
<1>4. PICK new : /\ Replace(job, new) /\ Left(job, new)
                 /\ \A k \in new : k.found = "unasked"
  BY <1>3
<1>5. Work' = (Work \ {job}) \cup new /\ UNCHANGED <<callVars, pageVars>>
  BY <1>4, StepOfJob
<1>6. /\ UNCHANGED <<nodeVars, rivals, moved>> /\ LetIn' = LetIn /\ LetIn \subseteq Call
      /\ broken' = broken \cup {job.call} /\ \A c : Asked(c)' = Asked(c)
  BY <1>5 DEF WriteLost, Dies, LetIn, Asked, callVars
<1>7. /\ \A c \in Call : \A p \in Nat : Done(c, p) => Done(c, p)'
      /\ \A c \in Call \ {job.call} : \A p \in Nat : Done(c, p)' => Done(c, p)
  BY <1>4, DoneStays
<1>8. \A j \in Work' : j.found = "absent" => j \in Work
  BY <1>4, <1>5
<1> QED BY <1>6, <1>7, <1>8, NothingWritten DEF nodeVars

LEMMA WriteRecords ==
  ASSUME JobsInv, RecordsInv, NEW job \in running, Write(job)
  PROVE  RecordsInv'
<1> USE DEF RecordsInv
<1> DEFINE c == job.call
           q == job.next
           t == Slot(job)
           g == Asked(c)[q].group
<1>1. job \in Work
  BY OtherIsNoJob DEF JobsInv, DistTypes, Work
<1>2. /\ job \in Jobs /\ Fits(job) /\ c \in LetIn /\ c \in Call
      /\ q \in Nat \ {0} /\ job.final \in Nat /\ q <= job.final
      /\ sent[c] \in Nat /\ job.final <= sent[c] /\ q \in 1 .. Len(Asked(c))
  BY <1>1, JobType
<1>3. t \in SlotId /\ g \in Group /\ g # Null /\ t = Asked(c)[q].slot
  BY <1>2, AskedType, DistributionAssumption DEF Slot
<1>4. PICK new : /\ Replace(job, new) /\ Left(job, new)
                 /\ \A k \in new : k.next = q + 1 /\ k.found = "unasked"
                 /\ q # job.final => new # {}
  BY <1>2, WentOn DEF Write
<1>5. Work' = (Work \ {job}) \cup new /\ UNCHANGED <<callVars, pageVars>>
  BY <1>4, StepOfJob
<1>6. /\ known' = TRUE /\ UNCHANGED history /\ LetIn' = LetIn /\ LetIn \subseteq Call
      /\ sent' = sent /\ \A d : Asked(d)' = Asked(d)
  BY <1>5 DEF Write, LetIn, Asked, callVars
<1>7. \/ records' = records /\ job.found = "absent" /\ records[t] # Null
      \/ records' = [records EXCEPT ![t] = g]
  BY DEF Write
<1>8. /\ \A s \in SlotId : s # t => records'[s] = records[s]
      /\ records'[t] # Null
      /\ records'[t] = g \/ (records'[t] = records[t] /\ job.found = "absent" /\ records[t] # Null)
  BY <1>3, <1>7 DEF JobsInv, DistTypes
<1>9. \A d \in Call : \A p \in Nat : Done(d, p) => Done(d, p)'
  BY <1>4, DoneStays
<1>10. Done(c, q)'
  BY <1>4, DoneNext
<1>11. \A d \in Call : \A p \in Nat : Done(d, p)' => Done(d, p) \/ (d = c /\ p = q)
  BY <1>4, DoneNext
<1>12. \A p : ChunkOf(p)' = ChunkOf(p)
  BY DEF ChunkOf
<1> HIDE DEF c, q, t, g
<1>13. Alone' /\ Kept'
  <2>1. \A s \in moved : s \in SlotId
    BY DEF JobsInv, DistTypes
  <2> QED BY <1>6, <1>8, <2>1 DEF Alone, Kept, history
<1>14. Owed'
  <2> SUFFICES ASSUME ~rivals, NEW d \in LetIn, NEW s \in SlotId, records'[s] # Null
               PROVE  \E p \in Nat : DoneAt(d, p, s)'
    BY <1>6 DEF Owed, history
  <2>1. d = c
    BY <1>2 DEF Alone
  <2>2. CASE s = t
    <3>1. DoneAt(d, q, s)'
      BY <1>3, <1>6, <1>10, <2>1, <2>2 DEF DoneAt
    <3> QED BY <1>2, <3>1
  <2>3. CASE s # t
    <3>1. PICK p \in Nat : DoneAt(d, p, s)
      BY <1>8, <2>3 DEF Owed
    <3>2. DoneAt(d, p, s)'
      BY <1>6, <1>9, <3>1 DEF DoneAt
    <3> QED BY <3>2
  <2> QED BY <2>2, <2>3
<1>15. Filled'
  <2> SUFFICES ASSUME NEW d \in LetIn \ broken, NEW p \in Nat, Done(d, p)'
               PROVE  records'[Asked(d)[p].slot] # Null
    BY <1>6 DEF Filled, history
  <2>1. CASE d = c /\ p = q
    BY <1>3, <1>8, <2>1
  <2>2. CASE Done(d, p)
    <3>1. records[Asked(d)[p].slot] # Null
      BY <2>2 DEF Filled
    <3>2. p \in 1 .. Len(Asked(d))
      BY <2>2, AskedType DEF Done
    <3>3. Asked(d)[p].slot \in SlotId
      BY <3>2, AskedType
    <3> QED BY <1>8, <3>1, <3>3
  <2> QED BY <1>6, <1>11, <2>1, <2>2
<1>16. Named'
  <2> SUFFICES ASSUME ~rivals, NEW d \in LetIn \ broken, NEW s \in SlotId \ moved,
                      records'[s] # Null
               PROVE  \E p \in Nat : LastDone(d, p, s)' /\ records'[s] = Asked(d)[p].group
    BY <1>6 DEF Named, history
  <2>1. d = c /\ c \notin broken
    BY <1>2 DEF Alone
  <2>2. CASE s # t
    <3>1. PICK p \in Nat : LastDone(d, p, s) /\ records[s] = Asked(d)[p].group
      BY <1>8, <2>2 DEF Named
    <3>2. DoneAt(d, p, s)'
      BY <1>6, <1>9, <3>1 DEF LastDone, DoneAt
    <3>3. ASSUME NEW r \in Nat, DoneAt(d, r, s)' PROVE DoneAt(d, r, s)
      BY <1>3, <1>6, <1>11, <2>1, <2>2, <3>3 DEF DoneAt
    <3>4. LastDone(d, p, s)'
      BY <1>12, <3>1, <3>2, <3>3 DEF LastDone
    <3> QED BY <1>8, <2>2, <3>1, <3>4
  <2>3. CASE s = t /\ records'[t] = g
    <3>1. DoneAt(d, q, s)'
      BY <1>3, <1>6, <1>10, <2>1, <2>3 DEF DoneAt
    <3>2. ASSUME NEW r \in Nat, DoneAt(d, r, s)', ChunkOf(r) = ChunkOf(q) PROVE r <= q
      <4>1. Done(d, r) \/ r = q
        BY <1>6, <1>11, <3>2 DEF DoneAt
      <4>2. CASE r # q
        <5>1. r \in 1 .. sent[c] /\ ~Covers(job, c, r)
          BY <1>1, <2>1, <4>1, <4>2 DEF Done
        <5>2. r <= job.final
          BY <1>2, <3>2, <5>1 DEF Fits, c, q
        <5>3. ~(q <= r)
          BY <5>1, <5>2 DEF Covers, c, q
        <5> QED BY <1>2, <5>3
      <4> QED BY <1>2, <4>2
    <3>3. LastDone(d, q, s)'
      BY <1>12, <3>1, <3>2 DEF LastDone
    <3> QED BY <1>2, <2>1, <2>3, <3>3 DEF g
  <2>4. CASE s = t /\ records'[t] = records[t] /\ job.found = "absent" /\ records[t] # Null
    <3>1. PICK p \in Nat : LastDone(d, p, s) /\ records[s] = Asked(d)[p].group
      BY <2>4 DEF Named
    <3>2. DoneAt(d, p, s)'
      BY <1>6, <1>9, <3>1 DEF LastDone, DoneAt
    <3>3. ASSUME NEW r \in Nat, DoneAt(d, r, s)', ChunkOf(r) = ChunkOf(p) PROVE r <= p
      <4>1. CASE DoneAt(d, r, s)
        BY <3>1, <3>3, <4>1 DEF LastDone
      <4>2. CASE r = q
        <5>1. CASE p < q
          <6>1. p \in 1 .. job.next - 1 /\ ChunkOf(p) = ChunkOf(job.next)
            BY <1>2, <3>1, <3>3, <4>2, <5>1 DEF LastDone, DoneAt, Done, q
          <6>2. Asked(job.call)[p].slot # Slot(job)
            BY <1>1, <2>1, <2>4, <6>1 DEF Unseen, c
          <6>3. Asked(c)[p].slot = t
            BY <2>1, <2>4, <3>1 DEF LastDone, DoneAt
          <6> QED BY <6>2, <6>3 DEF c, t
        <5>2. CASE ~(p < q)
          BY <1>2, <4>2, <5>2
        <5> QED BY <5>1, <5>2
      <4> QED BY <1>6, <1>11, <3>3, <4>1, <4>2 DEF DoneAt
    <3>4. LastDone(d, p, s)'
      BY <1>12, <3>2, <3>3 DEF LastDone
    <3> QED BY <2>4, <3>1, <3>4
  <2> QED BY <1>8, <2>2, <2>3, <2>4
<1>17. Unseen'
  <2> SUFFICES ASSUME NEW j \in Work', j.found = "absent", j.call \notin broken,
                      NEW r \in 1 .. j.next - 1, ChunkOf(r) = ChunkOf(j.next)
               PROVE  Asked(j.call)[r].slot # Asked(j.call)[j.next].slot
    BY <1>6, <1>12 DEF Unseen, Slot, history
  <2>1. j \in Work
    BY <1>4, <1>5
  <2> QED BY <2>1 DEF Unseen, Slot
<1> QED BY <1>13, <1>14, <1>15, <1>16, <1>17

LEMMA MigrateRecords ==
  ASSUME JobsInv, RecordsInv, NEW s \in SlotId, Migrate(s)
  PROVE  RecordsInv'
<1> USE DEF RecordsInv
<1>1. /\ UNCHANGED <<poolVars, callVars, known, rivals, broken>>
      /\ moved' = moved \cup {s} /\ records[s] # Null
  BY DEF Migrate
<1>2. PICK g \in Group : records' = [records EXCEPT ![s] = g]
  BY DEF Migrate
<1>3. /\ records'[s] # Null /\ \A x \in SlotId : x # s => records'[x] = records[x]
      /\ \A x \in SlotId : records'[x] # Null <=> records[x] # Null
  BY <1>1, <1>2, DistributionAssumption DEF JobsInv, DistTypes
<1>4. LetIn' = LetIn /\ Work' = Work /\ \A c : Asked(c)' = Asked(c)
  BY <1>1 DEF LetIn, Work, Asked, poolVars, callVars
<1>5. \A c, p : Done(c, p)' <=> Done(c, p)
  BY <1>1, <1>4 DEF Done, Covers, callVars
<1>6. \A p : ChunkOf(p)' = ChunkOf(p)
  BY DEF ChunkOf
<1>7. Alone' /\ Kept'
  BY <1>1, <1>3, <1>4 DEF Alone, Kept, JobsInv, DistTypes
<1>8. Owed'
  BY <1>1, <1>3, <1>4, <1>5 DEF Owed, DoneAt
<1>9. Filled'
  <2> SUFFICES ASSUME NEW d \in LetIn \ broken, NEW p \in Nat, Done(d, p)
               PROVE  records'[Asked(d)[p].slot] # Null
    BY <1>1, <1>4, <1>5 DEF Filled
  <2>1. p \in 1 .. Len(Asked(d))
    BY AskedType DEF Done
  <2>2. Asked(d)[p].slot \in SlotId
    BY <2>1, AskedType
  <2> QED BY <1>3, <2>2 DEF Filled
<1>10. Named'
  <2> SUFFICES ASSUME ~rivals, NEW d \in LetIn \ broken, NEW x \in SlotId \ moved, x # s,
                      records[x] # Null
               PROVE  \E p \in Nat : LastDone(d, p, x)' /\ records[x] = Asked(d)[p].group
    BY <1>1, <1>3, <1>4 DEF Named
  <2>1. PICK p \in Nat : LastDone(d, p, x) /\ records[x] = Asked(d)[p].group
    BY DEF Named
  <2>2. LastDone(d, p, x)'
    BY <1>4, <1>5, <1>6, <2>1 DEF LastDone, DoneAt
  <2> QED BY <2>1, <2>2
<1>11. Unseen'
  BY <1>1, <1>4, <1>6 DEF Unseen, Slot
<1> QED BY <1>7, <1>8, <1>9, <1>10, <1>11

LEMMA CrashRecords ==
  ASSUME JobsInv, RecordsInv, Crash
  PROVE  RecordsInv'
<1>1. Work' = {}
  BY DEF Crash, Work, Range
<1>2. /\ UNCHANGED <<rows, sent, nodeVars, pageVars, rivals, moved>>
      /\ call' = [c \in Call |-> IF call[c] \in {"sent", "letIn"} THEN "gone" ELSE call[c]]
      /\ broken' = broken \cup ({j.call : j \in running \cup Range(queue)} \ {Null})
  BY DEF Crash
<1>3. LetIn' \subseteq LetIn /\ LetIn' \subseteq Call
  BY <1>2 DEF LetIn
<1>4. \A c : Asked(c)' = Asked(c)
  BY <1>2 DEF Asked
<1>5. \A c, p : Done(c, p) => Done(c, p)'
  BY <1>1, <1>2 DEF Done
<1>6. ASSUME NEW c \in LetIn' \ broken', NEW p \in Nat, Done(c, p)'
      PROVE  Done(c, p)
  <2>1. \A j \in Work : j.call # c
    <3> SUFFICES ASSUME NEW j \in Work, j.call = c PROVE FALSE
      OBVIOUS
    <3>1. c # Null
      BY <1>3, DistributionAssumption DEF Call
    <3> QED BY <1>2, <3>1 DEF Work
  <2> QED BY <1>2, <1>6, <2>1 DEF Done, Covers
<1> QED BY <1>1, <1>2, <1>3, <1>4, <1>5, <1>6, NothingWritten DEF nodeVars

LEMMA RecordsStep == JobsInv /\ RecordsInv /\ [Next]_distVars => RecordsInv'
<1> SUFFICES ASSUME JobsInv, RecordsInv, [Next]_distVars PROVE RecordsInv'
  OBVIOUS
<1>1. ASSUME NEW c \in Call, Admit(c) \/ Refuse(c) \/ ServerStep(c) \/ Click(c) \/ Hear(c)
      PROVE  RecordsInv'
  BY <1>1, AdmitRecords, QuietRecords, HandingRecords DEF ServerStep
<1>2. CASE JobStep
  BY <1>2, LookRecords, WriteRecords, LossRecords DEF JobStep
<1>3. CASE Dequeue \/ OtherSubmitted \/ OtherEnds \/ ClientStarts \/ UNCHANGED distVars
  BY <1>3, QuietRecords
<1>4. CASE (\E s \in SlotId : Migrate(s)) \/ Crash
  BY <1>4, MigrateRecords, CrashRecords
<1> QED BY <1>1, <1>2, <1>3, <1>4 DEF Next, BackendStep, PageStep

-----------------------------------------------------------------------------
(* The theorems.                                                           *)

IInv == JobsInv /\ RecordsInv

LEMMA Inductive == Spec => []IInv
<1>1. Init => IInv
  BY JobsInit, RecordsInit DEF IInv
<1>2. IInv /\ [Next]_distVars => IInv'
  BY JobsStep, RecordsStep DEF IInv
<1> QED BY <1>1, <1>2, PTL DEF Spec

\* The places of a call are among its slots, and those it handed over among them.
LEMMA PlacesOf ==
  ASSUME JobsInv, NEW c \in LetIn, NEW s
  PROVE  /\ IsFiniteSet(Places(c, s))
         /\ \A p \in 1 .. sent[c] : Asked(c)[p].slot = s => p \in Places(c, s)
<1>1. sent[c] \in Nat /\ Len(Asked(c)) \in Nat /\ sent[c] <= Len(Asked(c))
  BY AskedType
<1>2. Taken(c) \in Nat /\ sent[c] <= Taken(c)
  BY <1>1 DEF Taken
<1>3. IsFiniteSet(1 .. Taken(c))
  BY <1>2, FS_Interval
<1>4. IsFiniteSet(Places(c, s))
  BY <1>3, FS_Subset DEF Places
<1> QED BY <1>1, <1>2, <1>4 DEF Places

(* Once a call that was alone is through, and none of its writes was lost, *)
(* every slot that the executor took has a group its rows ask for, and no  *)
(* other slot has one; and when the answer was success, no row and no slot *)
(* of its rows is left out.                                                *)
THEOREM DistributedCorrect == Spec => []DistributedAsAsked
<1>1. ASSUME IInv, NEW c \in Call, Settled(c), c \notin broken, ~rivals
      PROVE  /\ \A s \in SlotId \ moved :
                  IF Places(c, s) = {} THEN records[s] = Null ELSE records[s] \in Wanted(c, s)
             /\ call[c] = "succeeded" =>
                  \A k \in DOMAIN rows[c] : \A s \in rows[c][k].from .. rows[c][k].to :
                    s \in SlotId /\ records[s] # Null
  <2> USE <1>1 DEF IInv
  <2>1. c \in LetIn /\ call[c] \in {"failed", "succeeded"} /\ rows[c] \in Requests
    BY DEF Settled, LetIn, JobsInv, DistTypes
  <2>2. \A j \in Work : j.call # c
    BY DEF Settled, InPool, Work
  <2>3. \A p : Done(c, p) <=> p \in 1 .. sent[c]
    BY <2>2 DEF Done, Covers
  <2>4. Taken(c) = sent[c] /\ sent[c] \in Nat
    BY <2>1, AskedType DEF Taken, JobsInv, SentRight
  <2>5. ASSUME NEW s \in SlotId \ moved
        PROVE  IF Places(c, s) = {} THEN records[s] = Null ELSE records[s] \in Wanted(c, s)
    <3>1. \A p \in Nat : DoneAt(c, p, s) <=> p \in Places(c, s)
      BY <2>3, <2>4 DEF DoneAt, Places
    <3>2. CASE Places(c, s) = {}
      BY <2>1, <3>1, <3>2 DEF RecordsInv, Owed
    <3>3. CASE Places(c, s) # {}
      <4>1. PICK q \in Nat : q \in Places(c, s)
        BY <2>4, <3>3 DEF Places
      <4>2. records[s] # Null
        BY <2>1, <3>1, <4>1 DEF RecordsInv, Filled, DoneAt
      <4>3. PICK p \in Nat : LastDone(c, p, s) /\ records[s] = Asked(c)[p].group
        BY <2>1, <4>2 DEF RecordsInv, Named
      <4>4. p \in Places(c, s) /\ \A r \in Places(c, s) : r \in Nat
        BY <3>1, <4>3 DEF LastDone, Places
      <4>5. \A r \in Places(c, s) : ChunkOf(r) = ChunkOf(p) => r <= p
        BY <3>1, <4>3, <4>4 DEF LastDone
      <4> QED BY <3>3, <4>3, <4>4, <4>5 DEF Wanted
    <3> QED BY <3>2, <3>3
  <2>6. ASSUME call[c] = "succeeded", NEW k \in DOMAIN rows[c],
               NEW s \in rows[c][k].from .. rows[c][k].to
        PROVE  s \in SlotId /\ records[s] # Null
    <3>1. sent[c] = Len(Asked(c)) /\ BadRow[rows[c]] = 0
      BY <2>6 DEF JobsInv, SentRight
    <3>2. k \in 1 .. Len(rows[c])
      BY <2>1, DistributionAssumption
    <3>3. /\ s \in SlotId
          /\ \E p \in 1 .. Len(SlotsOf[rows[c]]) : SlotsOf[rows[c]][p].slot = s
      BY <2>1, <3>1, <3>2, SlotsAsked
    <3>4. PICK p \in 1 .. sent[c] : Asked(c)[p].slot = s
      BY <3>1, <3>3 DEF Asked
    <3>5. p \in Nat /\ Done(c, p)
      BY <2>3, <2>4
    <3> QED BY <2>1, <3>3, <3>4, <3>5 DEF RecordsInv, Filled
  <2> QED BY <2>5, <2>6
<1>2. IInv => DistributedAsAsked
  BY <1>1 DEF DistributedAsAsked
<1> QED BY <1>2, Inductive, PTL

(* A slot that migrated while the rest of its instance was distributed is  *)
(* never taken back, unless two calls were let in or the rows name the slot*)
(* twice: the job that would do so stands at another place than the one    *)
(* the slot has its record from.                                           *)
THEOREM StaysCorrect == Spec => MigratedStays
<1>1. ASSUME IInv, [Next]_distVars, NEW s \in moved, records'[s] # records[s], ~rivals
      PROVE  \E c \in LetIn : Cardinality(Places(c, s)) > 1
  <2> USE <1>1 DEF IInv
  <2>1. s \in SlotId /\ records[s] # Null
    BY DEF JobsInv, DistTypes, RecordsInv, Kept
  <2>2. ~\E x \in SlotId : Migrate(x)
    <3> SUFFICES ASSUME NEW x \in SlotId, Migrate(x) PROVE FALSE
      OBVIOUS
    <3>1. x # s /\ \E g \in Group \ {records[x]} : records' = [records EXCEPT ![x] = g]
      BY DEF Migrate
    <3> QED BY <2>1, <3>1 DEF JobsInv, DistTypes
  <2>3. PICK job \in running : Write(job)
    BY <2>2 DEF Next, BackendStep, PageStep, ServerStep, JobStep, Admit, Refuse, Dispatch,
         Finish, Fail, Look, WriteLost, Dies, Dequeue, OtherSubmitted, OtherEnds, ClientStarts,
         Crash, Click, Hear, nodeVars, distVars
  <2> DEFINE c == job.call
             q == job.next
  <2>4. job \in Work
    BY OtherIsNoJob DEF JobsInv, DistTypes, Work
  <2>5. /\ c \in LetIn /\ q \in Nat \ {0} /\ job.final \in Nat /\ q <= job.final
        /\ sent[c] \in Nat /\ job.final <= sent[c]
    BY <2>4, JobType
  <2>6. Asked(c)[q].slot = s
    BY <2>1, <2>3 DEF Write, Slot, JobsInv, DistTypes
  <2>7. PICK p \in Nat : DoneAt(c, p, s)
    BY <2>1, <2>5 DEF RecordsInv, Owed
  <2>8. p # q
    BY <2>4, <2>5, <2>7 DEF DoneAt, Done, Covers
  <2> HIDE DEF c, q
  <2>9. q \in Places(c, s) /\ p \in Places(c, s) /\ IsFiniteSet(Places(c, s))
    <3>1. q \in 1 .. sent[c] /\ p \in 1 .. sent[c] /\ Asked(c)[p].slot = s
      BY <2>5, <2>7 DEF DoneAt, Done
    <3> QED BY <2>5, <2>6, <3>1, PlacesOf
  <2>10. Cardinality({p, q}) = 2
    <3>1. IsFiniteSet({p}) /\ Cardinality({p}) = 1
      BY FS_Singleton
    <3>2. Cardinality({p} \cup {q}) = 2
      <4>1. q \notin {p}
        BY <2>8
      <4>2. Cardinality({p} \cup {q}) = Cardinality({p}) + 1
        BY <3>1, <4>1, FS_AddElement
      <4> QED BY <3>1, <4>2
    <3>3. {p} \cup {q} = {p, q}
      OBVIOUS
    <3> QED BY <3>2, <3>3
  <2>11. Cardinality({p, q}) <= Cardinality(Places(c, s)) /\ Cardinality(Places(c, s)) \in Nat
    BY <2>9, FS_Subset, FS_CardinalityType
  <2> QED BY <2>5, <2>10, <2>11
<1>2. IInv /\ [Next]_distVars =>
        [\A s \in moved : records'[s] # records[s] =>
           \/ rivals
           \/ \E c \in LetIn : Cardinality(Places(c, s)) > 1]_distVars
  BY <1>1
<1> QED BY <1>2, Inductive, PTL DEF Spec, MigratedStays

-----------------------------------------------------------------------------
(* What the page shows.                                                    *)

\* An answer that was heard stays, and a failure of the last click shows.
Shown ==
  /\ \A c \in heard : call[c] \in {"refused", "failed", "succeeded"}
  /\ LastFailureShown

LEMMA ShownStep == JobsInv /\ Shown /\ [Next]_distVars => Shown'
<1> SUFFICES ASSUME JobsInv, Shown, [Next]_distVars PROVE Shown'
  OBVIOUS
<1> USE DEF Shown, LastFailureShown
<1>1. heard \subseteq Call
  BY DEF JobsInv, DistTypes
<1>2. ASSUME NEW c \in Call, NEW a \in States, Answered(c, a), c \notin heard,
             heard' = heard, last' = last, alert' = alert
      PROVE  Shown'
  <2>1. \A d \in Call \ {c} : call'[d] = call[d]
    BY <1>2, AnswerTypes DEF JobsInv
  <2>2. \A d \in heard : call'[d] = call[d]
    BY <1>1, <1>2, <2>1
  <2> QED BY <1>2, <2>2
<1>3. ASSUME NEW c \in Call, Admit(c) \/ Refuse(c) \/ Fail(c) \/ Finish(c)
      PROVE  Shown'
  <2>1. c \notin heard /\ heard' = heard /\ last' = last /\ alert' = alert
    BY <1>3 DEF Admit, Refuse, Fail, Finish, pageVars
  <2>2. \E a \in {"letIn", "refused", "failed", "succeeded"} : Answered(c, a)
    BY <1>3 DEF Admit, Refuse, Fail, Finish
  <2>3. \E a \in States : Answered(c, a)
    BY <2>2 DEF States
  <2> QED BY <1>2, <2>1, <2>3
<1>4. ASSUME NEW c \in Call, Click(c) PROVE Shown'
  <2>1. /\ call[c] = "new" /\ last' = c /\ heard' = heard
        /\ \A d \in Call \ {c} : call'[d] = call[d]
    BY <1>4, AnswerTypes DEF Click, JobsInv, States
  <2>2. c \notin heard
    BY <2>1
  <2> QED BY <1>1, <2>1, <2>2
<1>5. ASSUME NEW c \in Call, Hear(c) PROVE Shown'
  BY <1>5 DEF Hear, callVars
<1>6. CASE Crash
  <2>1. /\ UNCHANGED pageVars
        /\ call' = [c \in Call |-> IF call[c] \in {"sent", "letIn"} THEN "gone" ELSE call[c]]
    BY <1>6 DEF Crash
  <2>2. \A c \in heard : call'[c] = call[c]
    BY <1>1, <2>1
  <2> QED BY <2>1, <2>2 DEF pageVars
<1>7. CASE UNCHANGED <<call, pageVars>>
  BY <1>7 DEF pageVars
<1>8. ASSUME NEW c \in Call, Dispatch(c) PROVE UNCHANGED <<call, pageVars>>
  BY <1>8 DEF Dispatch
<1>9. JobStep => UNCHANGED <<call, pageVars>>
  BY DEF JobStep, Look, Write, WriteLost, Dies, GoesOn, Replace, callVars
<1>10. Dequeue \/ OtherSubmitted \/ OtherEnds \/ ClientStarts \/ (\E s \in SlotId : Migrate(s))
         \/ UNCHANGED distVars
       => UNCHANGED <<call, pageVars>>
  BY DEF Dequeue, OtherSubmitted, OtherEnds, ClientStarts, Migrate, callVars, distVars
<1> QED BY <1>3, <1>4, <1>5, <1>6, <1>7, <1>8, <1>9, <1>10
        DEF Next, BackendStep, PageStep, ServerStep

(* Once the answer to the last click has come and is a failure, the page   *)
(* does not show success, whatever answers to earlier clicks come then.    *)
THEOREM FailureCorrect == Spec => []LastFailureShown
<1>1. Init => Shown
  BY DEF Init, Shown, LastFailureShown
<1>2. Spec => []JobsInv
  BY Inductive, PTL DEF IInv
<1> QED BY <1>1, <1>2, ShownStep, PTL DEF Spec, Shown
=============================================================================

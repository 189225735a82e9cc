-------------------------- MODULE MetricStoreProofs --------------------------
(***************************************************************************)
(* Theorems about MetricStore, for any number of workers and servers and   *)
(* any size of the pools.                                                  *)
(***************************************************************************)
EXTENDS MetricStore, FiniteSetTheorems, SequenceTheorems, TLAPS

-----------------------------------------------------------------------------
(* Sequences without duplicates.                                           *)

Elements(q) == {q[i] : i \in DOMAIN q}

Distinct(q) == \A i, j \in DOMAIN q : q[i] = q[j] => i = j

LEMMA TakeHead ==
  ASSUME NEW q \in Seq(Nat), q # <<>>, Distinct(q)
  PROVE  /\ Head(q) \in Elements(q) /\ Head(q) \in Nat
         /\ Tail(q) \in Seq(Nat)
         /\ Elements(Tail(q)) = Elements(q) \ {Head(q)}
         /\ Distinct(Tail(q))
<1>1. /\ DOMAIN q = 1 .. Len(q) /\ Len(q) \in Nat \ {0} /\ Head(q) = q[1]
      /\ Tail(q) \in Seq(Nat) /\ DOMAIN Tail(q) = 1 .. Len(q) - 1
      /\ \A i \in 1 .. Len(q) - 1 : Tail(q)[i] = q[i + 1]
  BY EmptySeq, LenProperties, HeadTailProperties
<1>2. Head(q) \in Elements(q) /\ Head(q) \in Nat
  BY <1>1, HeadTailProperties DEF Elements
<1>3. Elements(Tail(q)) = Elements(q) \ {Head(q)}
  <2>1. ASSUME NEW x \in Elements(Tail(q)) PROVE x \in Elements(q) \ {Head(q)}
    <3>1. PICK i \in 1 .. Len(q) - 1 : x = q[i + 1]
      BY <1>1, <2>1 DEF Elements
    <3>2. i + 1 \in DOMAIN q /\ 1 \in DOMAIN q /\ i + 1 # 1
      BY <1>1
    <3> QED BY <1>1, <3>1, <3>2 DEF Elements, Distinct
  <2>2. ASSUME NEW x \in Elements(q) \ {Head(q)} PROVE x \in Elements(Tail(q))
    <3>1. PICK i \in DOMAIN q : x = q[i] /\ i # 1
      BY <1>1, <2>2 DEF Elements
    <3>2. i - 1 \in 1 .. Len(q) - 1 /\ Tail(q)[i - 1] = x
      BY <1>1, <3>1
    <3> QED BY <1>1, <3>2 DEF Elements
  <2> QED BY <2>1, <2>2
<1>4. Distinct(Tail(q))
  <2> SUFFICES ASSUME NEW i \in 1 .. Len(q) - 1, NEW j \in 1 .. Len(q) - 1,
                      q[i + 1] = q[j + 1]
               PROVE  i = j
    BY <1>1 DEF Distinct
  <2>1. i + 1 \in DOMAIN q /\ j + 1 \in DOMAIN q
    BY <1>1
  <2>2. i + 1 = j + 1
    BY <2>1 DEF Distinct
  <2> QED BY <2>2
<1> QED BY <1>1, <1>2, <1>3, <1>4

LEMMA PutLast ==
  ASSUME NEW q \in Seq(Nat), NEW e \in Nat, e \notin Elements(q), Distinct(q)
  PROVE  /\ Append(q, e) \in Seq(Nat)
         /\ Elements(Append(q, e)) = Elements(q) \cup {e}
         /\ Distinct(Append(q, e))
<1>1. /\ DOMAIN q = 1 .. Len(q) /\ Len(q) \in Nat
      /\ Append(q, e) \in Seq(Nat) /\ DOMAIN Append(q, e) = 1 .. Len(q) + 1
      /\ \A i \in 1 .. Len(q) : Append(q, e)[i] = q[i]
      /\ Append(q, e)[Len(q) + 1] = e
  BY LenProperties, AppendProperties
<1>2. Elements(Append(q, e)) = Elements(q) \cup {e}
  <2>1. ASSUME NEW x \in Elements(Append(q, e)) PROVE x \in Elements(q) \cup {e}
    <3>1. PICK i \in 1 .. Len(q) + 1 : x = Append(q, e)[i]
      BY <1>1, <2>1 DEF Elements
    <3>2. i \in 1 .. Len(q) \/ i = Len(q) + 1
      BY <1>1
    <3> QED BY <1>1, <3>1, <3>2 DEF Elements
  <2>2. ASSUME NEW x \in Elements(q) PROVE x \in Elements(Append(q, e))
    <3>1. PICK i \in 1 .. Len(q) : x = q[i]
      BY <1>1, <2>2 DEF Elements
    <3>2. i \in 1 .. Len(q) + 1 /\ Append(q, e)[i] = x
      BY <1>1, <3>1
    <3> QED BY <1>1, <3>2 DEF Elements
  <2>3. e \in Elements(Append(q, e))
    <3>1. Len(q) + 1 \in 1 .. Len(q) + 1
      BY <1>1
    <3> QED BY <1>1, <3>1 DEF Elements
  <2> QED BY <2>1, <2>2, <2>3
<1>3. Distinct(Append(q, e))
  <2> SUFFICES ASSUME NEW i \in 1 .. Len(q) + 1, NEW j \in 1 .. Len(q) + 1,
                      Append(q, e)[i] = Append(q, e)[j]
               PROVE  i = j
    BY <1>1 DEF Distinct
  <2>1. \A k \in 1 .. Len(q) : q[k] # e
    BY <1>1 DEF Elements
  <2>2. (i \in 1 .. Len(q) \/ i = Len(q) + 1) /\ (j \in 1 .. Len(q) \/ j = Len(q) + 1)
    BY <1>1
  <2> QED BY <1>1, <2>1, <2>2 DEF Distinct
<1> QED BY <1>1, <1>2, <1>3

-----------------------------------------------------------------------------
(* Types, and what a worker knows of its own batch.                        *)

Trying(w) == step[w] \notin {"idle", "choose"}

LocalOK ==
  \A w \in Worker :
    /\ failed[w] = IF Trying(w) THEN tries[w] - 1 ELSE tries[w]
    /\ step[w] = "use" => client[w] \in Nat

LEMMA TypesInit == Init => StoreTypes /\ LocalOK
<1> SUFFICES ASSUME Init PROVE StoreTypes /\ LocalOK
  OBVIOUS
<1>1. /\ <<>> \in Seq(Nat) /\ <<>> \in Seq(Worker) /\ 0 \in Server
      /\ 0 \in 0 .. 2^Width - 1
  BY StoreAssumption, EmptySeq DEF Server
<1> QED BY <1>1, StoreAssumption DEF Init, StoreTypes, Place, LocalOK, Trying

LEMMA WithoutType ==
  ASSUME NEW q \in Seq(Worker), NEW w \in Worker
  PROVE  Without(q, w) \in Seq(Worker)
<1>1. CASE \A i \in DOMAIN q : q[i] # w
  BY <1>1 DEF Without
<1>2. CASE \E i \in DOMAIN q : q[i] = w
  <2> DEFINE i == CHOOSE j \in DOMAIN q : q[j] = w
  <2>1. i \in DOMAIN q /\ DOMAIN q = 1 .. Len(q) /\ Len(q) \in Nat
    BY <1>2, LenProperties
  <2>2. \A j \in 1 .. Len(q) : q[j] \in Worker
    BY ElementOfSeq
  <2> HIDE DEF i
  <2>3. /\ \A j \in 1 .. i - 1 : q[j] \in Worker
        /\ \A j \in i + 1 .. Len(q) : q[j] \in Worker
    BY <2>1, <2>2
  <2>4. SubSeq(q, 1, i - 1) \in Seq(Worker) /\ SubSeq(q, i + 1, Len(q)) \in Seq(Worker)
    BY <2>1, <2>3, SubSeqProperties
  <2>5. SubSeq(q, 1, i - 1) \o SubSeq(q, i + 1, Len(q)) \in Seq(Worker)
    BY <2>4, ConcatProperties
  <2> QED BY <1>2, <2>5 DEF Without, i
<1> QED BY <1>1, <1>2

LEMMA LeaveTypes ==
  ASSUME StoreTypes, LocalOK, NEW w \in Worker, Leave(w)
  PROVE  /\ step' \in [Worker -> Place] /\ tries' \in [Worker -> 0 .. Tries]
         /\ failed' \in [Worker -> 0 .. Tries] /\ server' \in [Worker -> Server]
         /\ UNCHANGED client => LocalOK'
         /\ (client' = [client EXCEPT ![w] = Null]) => LocalOK'
<1>1. 0 \in Server
  BY StoreAssumption DEF Server
<1>2. /\ step' = [step EXCEPT ![w] = "idle"] /\ tries' = [tries EXCEPT ![w] = 0]
      /\ failed' = [failed EXCEPT ![w] = 0] /\ server' = [server EXCEPT ![w] = 0]
  BY DEF Leave, Goto
<1>3. /\ step' \in [Worker -> Place] /\ tries' \in [Worker -> 0 .. Tries]
      /\ failed' \in [Worker -> 0 .. Tries] /\ server' \in [Worker -> Server]
  BY <1>1, <1>2, StoreAssumption DEF StoreTypes, Place
<1>4. ASSUME UNCHANGED client \/ client' = [client EXCEPT ![w] = Null]
      PROVE  LocalOK'
  BY <1>2, <1>4 DEF StoreTypes, LocalOK, Trying
<1> QED BY <1>3, <1>4

LEMMA TryFailsTypes ==
  ASSUME StoreTypes, LocalOK, NEW w \in Worker, Trying(w), TryFails(w)
  PROVE  /\ step' \in [Worker -> Place] /\ tries' \in [Worker -> 0 .. Tries]
         /\ failed' \in [Worker -> 0 .. Tries] /\ server' \in [Worker -> Server]
         /\ UNCHANGED client => LocalOK'
         /\ (client' = [client EXCEPT ![w] = Null]) => LocalOK'
BY StoreAssumption DEF TryFails, Goto, StoreTypes, Place, LocalOK, Trying

LEMMA LoopTypes ==
  ASSUME StoreTypes, LocalOK, NEW w \in Worker, Trying(w), Loop(w, server[w]),
         UNCHANGED <<storage, batch>>
  PROVE  /\ step' \in [Worker -> Place] /\ client' \in [Worker -> Nat \cup {Null}]
         /\ opened' \in [Server -> Nat]
         /\ leaseSet' \in [Server -> SUBSET (Nat \cup {Null})]
         /\ freeList' \in [Server -> Seq(Nat)] /\ waiting' \in [Server -> Seq(Worker)]
         /\ lock' \in [Server -> Worker \cup {Null}]
         /\ LocalOK'
<1> DEFINE s == server[w]
<1>1. s \in Server /\ freeList[s] \in Seq(Nat) /\ waiting[s] \in Seq(Worker)
  BY DEF StoreTypes
<1> USE DEF Loop, pool, batch, storage
<1>2. CASE freeList[s] # <<>>
  <2>1. Head(freeList[s]) \in Nat /\ Tail(freeList[s]) \in Seq(Nat)
    BY <1>1, <1>2, HeadTailProperties
  <2>2. /\ UNCHANGED <<opened, waiting, lock>>
        /\ client' = [client EXCEPT ![w] = Head(freeList[s])]
        /\ freeList' = [freeList EXCEPT ![s] = Tail(freeList[s])]
        /\ leaseSet' = [leaseSet EXCEPT ![s] = leaseSet[s] \cup {Head(freeList[s])}]
        /\ step' = [step EXCEPT ![w] = "use"]
    BY <1>2 DEF Goto
  <2> QED BY <1>1, <2>1, <2>2 DEF StoreTypes, Place, LocalOK, Trying
<1>3. CASE freeList[s] = <<>> /\ MayCreate(s)
  <2>1. /\ UNCHANGED <<client, opened, leaseSet, freeList, waiting>>
        /\ lock' = [lock EXCEPT ![s] = w] /\ step' = [step EXCEPT ![w] = "connect"]
    BY <1>3 DEF Goto
  <2> QED BY <1>1, <2>1 DEF StoreTypes, Place, LocalOK, Trying
<1>4. CASE freeList[s] = <<>> /\ ~MayCreate(s)
  <2>1. /\ UNCHANGED <<client, opened, leaseSet, freeList, lock>>
        /\ waiting' = [waiting EXCEPT ![s] = Append(waiting[s], w)]
        /\ step' = [step EXCEPT ![w] = "wait"]
    BY <1>4 DEF Goto
  <2>2. Append(waiting[s], w) \in Seq(Worker)
    BY <1>1, AppendProperties
  <2> QED BY <1>1, <2>1, <2>2 DEF StoreTypes, Place, LocalOK, Trying
<1> QED BY <1>2, <1>3, <1>4

LEMMA ReturnTypes ==
  ASSUME StoreTypes, LocalOK, NEW w \in Worker, step[w] = "use", Return(w, server[w])
  PROVE  /\ client' = [client EXCEPT ![w] = Null]
         /\ client' \in [Worker -> Nat \cup {Null}]
         /\ UNCHANGED <<policy, position, opened, expired, lock>>
         /\ leaseSet' \in [Server -> SUBSET (Nat \cup {Null})]
         /\ freeList' \in [Server -> Seq(Nat)] /\ waiting' \in [Server -> Seq(Worker)]
<1> DEFINE s == server[w]
<1>1. /\ s \in Server /\ freeList[s] \in Seq(Nat) /\ waiting[s] \in Seq(Worker)
      /\ client[w] \in Nat
  BY DEF StoreTypes, LocalOK
<1>2. Append(freeList[s], client[w]) \in Seq(Nat)
  BY <1>1, AppendProperties
<1>3. waiting[s] # <<>> => Tail(waiting[s]) \in Seq(Worker)
  BY <1>1, HeadTailProperties
<1> QED BY <1>1, <1>2, <1>3 DEF StoreTypes, Return, storage

LEMMA TypesNext == StoreTypes /\ LocalOK /\ [Next]_vars => StoreTypes' /\ LocalOK'
<1> SUFFICES ASSUME StoreTypes, LocalOK, [Next]_vars PROVE StoreTypes' /\ LocalOK'
  OBVIOUS
<1> USE DEF storage, batch, pool
<1>1. ASSUME NEW w \in Worker, Take(w) PROVE StoreTypes' /\ LocalOK'
  BY <1>1 DEF Take, Goto, StoreTypes, Place, LocalOK, Trying
<1>2. ASSUME NEW w \in Worker, Choose(w) PROVE StoreTypes' /\ LocalOK'
  <2>1. position' \in 0 .. 2^Width - 1
    <3>1. (position - 1) % 2^Width \in 0 .. 2^Width - 1
      BY StoreAssumption DEF StoreTypes
    <3> QED BY <1>2, <3>1 DEF Choose, Index, Decremented, StoreTypes
  <2>2. UNCHANGED <<policy, client, pool, waiting, expired, lock>>
    BY <1>2 DEF Choose
  <2>3. CASE Leave(w)
    BY <2>1, <2>2, <2>3, LeaveTypes DEF StoreTypes
  <2>4. CASE /\ \E i \in Server : server' = [server EXCEPT ![w] = i]
             /\ tries' = [tries EXCEPT ![w] = @ + 1] /\ Goto(w, "lease")
             /\ UNCHANGED failed
    <3>1. step[w] = "choose" /\ tries[w] + 1 \in 0 .. Tries
      BY <1>2, StoreAssumption DEF Choose, StoreTypes
    <3>2. PICK i \in Server : server' = [server EXCEPT ![w] = i]
      BY <2>4
    <3>3. /\ tries' = [tries EXCEPT ![w] = tries[w] + 1]
          /\ step' = [step EXCEPT ![w] = "lease"] /\ failed' = failed
      BY <2>4 DEF Goto, StoreTypes
    <3>4. /\ step' \in [Worker -> Place] /\ tries' \in [Worker -> 0 .. Tries]
          /\ failed' \in [Worker -> 0 .. Tries] /\ server' \in [Worker -> Server]
      BY <3>1, <3>2, <3>3 DEF StoreTypes, Place
    <3>5. ASSUME NEW v \in Worker, v # w
          PROVE  /\ step'[v] = step[v] /\ tries'[v] = tries[v]
                 /\ failed'[v] = failed[v] /\ client'[v] = client[v]
      <4>1. step'[v] = step[v] /\ tries'[v] = tries[v]
        BY <3>3, <3>5 DEF StoreTypes
      <4> QED BY <2>2, <3>3, <4>1
    <3>6. step'[w] = "lease" /\ tries'[w] - 1 = failed'[w]
      BY <3>1, <3>3 DEF StoreTypes, LocalOK, Trying
    <3>7. LocalOK'
      BY <3>5, <3>6 DEF LocalOK, Trying
    <3> QED BY <2>1, <2>2, <3>4, <3>7 DEF StoreTypes
  <2> QED BY <1>2, <2>3, <2>4, StoreAssumption DEF Choose, Server
<1>3. ASSUME NEW w \in Worker, Abandon(w) PROVE StoreTypes' /\ LocalOK'
  BY <1>3, LeaveTypes DEF Abandon, StoreTypes
<1>4. ASSUME NEW w \in Worker, Lease(w) PROVE StoreTypes' /\ LocalOK'
  <2>1. Trying(w) /\ Loop(w, server[w]) /\ UNCHANGED <<storage, batch, expired>>
    BY <1>4 DEF Lease, Trying
  <2> QED BY <2>1, LoopTypes DEF StoreTypes
<1>5. ASSUME NEW w \in Worker, Connect(w) PROVE StoreTypes' /\ LocalOK'
  <2>1. opened[server[w]] + 1 \in Nat /\ server[w] \in Server
    BY DEF StoreTypes
  <2>2. /\ opened' = [opened EXCEPT ![server[w]] = opened[server[w]] + 1]
        /\ client' = [client EXCEPT ![w] = opened[server[w]] + 1]
        /\ leaseSet' = [leaseSet EXCEPT ![server[w]] = @ \cup {opened[server[w]] + 1}]
        /\ lock' = [lock EXCEPT ![server[w]] = Null]
        /\ step' = [step EXCEPT ![w] = "use"] /\ step[w] = "connect"
        /\ UNCHANGED <<storage, batch, freeList, waiting, expired>>
    BY <1>5, <2>1 DEF Connect, Goto, StoreTypes
  <2> QED BY <2>1, <2>2 DEF StoreTypes, Place, LocalOK, Trying
<1>6. ASSUME NEW w \in Worker, ConnectFails(w) PROVE StoreTypes' /\ LocalOK'
  <2>1. Trying(w) /\ server[w] \in Server
    BY <1>6 DEF ConnectFails, Trying, StoreTypes
  <2>2. /\ step' \in [Worker -> Place] /\ tries' \in [Worker -> 0 .. Tries]
        /\ failed' \in [Worker -> 0 .. Tries] /\ server' \in [Worker -> Server]
        /\ LocalOK'
    BY <1>6, <2>1, TryFailsTypes DEF ConnectFails
  <2> QED BY <1>6, <2>1, <2>2 DEF ConnectFails, StoreTypes
<1>7. ASSUME NEW w \in Worker, WakeUp(w) PROVE StoreTypes' /\ LocalOK'
  <2>1. Trying(w) /\ Loop(w, server[w]) /\ UNCHANGED <<storage, batch, expired>>
    BY <1>7 DEF WakeUp, Trying
  <2> QED BY <2>1, LoopTypes DEF StoreTypes
<1>8. ASSUME NEW w \in Worker, TimeOut(w) PROVE StoreTypes' /\ LocalOK'
  <2>1. /\ Trying(w) /\ server[w] \in Server
        /\ Without(waiting[server[w]], w) \in Seq(Worker)
    BY <1>8, WithoutType DEF TimeOut, Trying, StoreTypes
  <2>2. /\ step' \in [Worker -> Place] /\ tries' \in [Worker -> 0 .. Tries]
        /\ failed' \in [Worker -> 0 .. Tries] /\ server' \in [Worker -> Server]
        /\ LocalOK'
    BY <1>8, <2>1, TryFailsTypes DEF TimeOut
  <2> QED BY <1>8, <2>1, <2>2 DEF TimeOut, StoreTypes
<1>9. ASSUME NEW w \in Worker, Stored(w) PROVE StoreTypes' /\ LocalOK'
  BY <1>9, ReturnTypes, LeaveTypes DEF Stored, StoreTypes
<1>10. ASSUME NEW w \in Worker, Thrown(w) PROVE StoreTypes' /\ LocalOK'
  BY <1>10, ReturnTypes, TryFailsTypes DEF Thrown, Trying, StoreTypes
<1>11. ASSUME NEW w \in Worker, Deadline(w) PROVE StoreTypes' /\ LocalOK'
  BY <1>11 DEF Deadline, StoreTypes, LocalOK, Trying
<1>12. CASE UNCHANGED vars
  BY <1>12 DEF vars, StoreTypes, LocalOK, Trying
<1> QED BY <1>1, <1>2, <1>3, <1>4, <1>5, <1>6, <1>7, <1>8, <1>9, <1>10, <1>11, <1>12
        DEF Next, WorkerStep

-----------------------------------------------------------------------------
(* The lock, and the accounting of the clients.                            *)

LockOK ==
  /\ \A w \in Worker : step[w] = "connect" => lock[server[w]] = w
  /\ \A s \in Server : lock[s] # Null => freeList[s] = <<>> /\ MayCreate(s)

\* What is lent or returned at one server is nothing to another one.
LEMMA AccountedSame ==
  ASSUME NEW s \in Server, Accounted(s),
         Users(s)' = Users(s), \A w \in Users(s) : client'[w] = client[w],
         freeList'[s] = freeList[s], opened'[s] = opened[s],
         leaseSet'[s] \ {Null} = leaseSet[s] \ {Null},
         StoreTypes
  PROVE  Accounted(s)'
<1>1. FreeSet(s)' = FreeSet(s)
  BY DEF FreeSet
<1>2. Null \notin FreeSet(s)
  <2>1. freeList[s] \in Seq(Nat)
    BY DEF StoreTypes
  <2> QED BY <2>1, LenProperties, StoreAssumption DEF FreeSet
<1>3. {client'[w] : w \in Users(s)} = {client[w] : w \in Users(s)}
  OBVIOUS
<1> QED BY <1>1, <1>2, <1>3 DEF Accounted

\* A client of the free list, or a new one, is lent to w.
LEMMA AccountedLent ==
  ASSUME StoreTypes, LocalOK, \A s \in Server : Accounted(s),
         NEW w \in Worker, step[w] # "use", NEW c \in Nat,
         step' = [step EXCEPT ![w] = "use"], client' = [client EXCEPT ![w] = c],
         UNCHANGED server,
         leaseSet' = [leaseSet EXCEPT ![server[w]] = @ \cup {c}],
         c \notin leaseSet[server[w]],
         \A s \in Server \ {server[w]} :
           freeList'[s] = freeList[s] /\ opened'[s] = opened[s],
         FreeSet(server[w])' = FreeSet(server[w]) \ {c},
         1 .. opened'[server[w]] = 1 .. opened[server[w]] \cup {c},
         Distinct(freeList'[server[w]])
  PROVE  \A s \in Server : Accounted(s)'
<1> DEFINE r == server[w]
<1>1. r \in Server /\ Users(r)' = Users(r) \cup {w} /\ w \notin Users(r)
  BY DEF StoreTypes, Users
<1>2. Null # c
  BY StoreAssumption
<1>3. leaseSet'[r] = leaseSet[r] \cup {c}
  BY <1>1 DEF StoreTypes
<1>4. /\ client'[w] = c
      /\ \A v \in Users(r) : client'[v] = client[v] /\ client[v] \in leaseSet[r]
  BY <1>1 DEF StoreTypes, Users, Accounted
<1>5. {client'[v] : v \in Users(r)'} = {client[v] : v \in Users(r)} \cup {c}
  BY <1>1, <1>4
<1>6. leaseSet'[r] \ {Null} = {client'[v] : v \in Users(r)'}
  <2>1. leaseSet[r] \ {Null} = {client[v] : v \in Users(r)}
    BY <1>1 DEF Accounted
  <2>2. leaseSet'[r] \ {Null} = (leaseSet[r] \ {Null}) \cup {c}
    BY <1>2, <1>3
  <2> QED BY <1>5, <2>1, <2>2
<1>7. FreeSet(r)' \cap leaseSet'[r] = {}
  BY <1>1, <1>3 DEF Accounted
<1>8. FreeSet(r)' \cup (leaseSet'[r] \ {Null}) = 1 .. opened'[r]
  BY <1>1, <1>2, <1>3 DEF Accounted
<1>9. \A v, u \in Users(r)' : client'[v] = client'[u] => v = u
  BY <1>1, <1>4 DEF Accounted
<1>10. Accounted(r)'
  BY <1>6, <1>7, <1>8, <1>9 DEF Accounted, Distinct
<1>11. ASSUME NEW s \in Server \ {r} PROVE Accounted(s)'
  <2>1. /\ Users(s)' = Users(s) /\ leaseSet'[s] = leaseSet[s]
        /\ \A v \in Users(s) : client'[v] = client[v]
    BY <1>11 DEF StoreTypes, Users
  <2> QED BY <1>11, <2>1, AccountedSame
<1> QED BY <1>10, <1>11

LEMMA AccountedLoop ==
  ASSUME StoreTypes, LocalOK, \A s \in Server : Accounted(s),
         NEW w \in Worker, step[w] # "use", Loop(w, server[w]), UNCHANGED server
  PROVE  \A s \in Server : Accounted(s)'
<1> DEFINE r == server[w]
<1>1. r \in Server /\ freeList[r] \in Seq(Nat) /\ Distinct(freeList[r])
  BY DEF StoreTypes, Accounted, Distinct
<1>2. CASE freeList[r] # <<>>
  <2> DEFINE c == Head(freeList[r])
  <2>1. /\ c \in Nat /\ c \in FreeSet(r)
        /\ Elements(Tail(freeList[r])) = FreeSet(r) \ {c} /\ Distinct(Tail(freeList[r]))
    BY <1>1, <1>2, TakeHead DEF FreeSet, Elements
  <2>2. /\ step' = [step EXCEPT ![w] = "use"] /\ client' = [client EXCEPT ![w] = c]
        /\ leaseSet' = [leaseSet EXCEPT ![r] = @ \cup {c}]
        /\ freeList' = [freeList EXCEPT ![r] = Tail(freeList[r])] /\ UNCHANGED opened
    BY <1>2 DEF Loop, Goto, pool
  <2>3. freeList'[r] = Tail(freeList[r]) /\ FreeSet(r)' = FreeSet(r) \ {c}
    BY <1>1, <2>1, <2>2 DEF StoreTypes, FreeSet, Elements
  <2>4. c \notin leaseSet[r] /\ 1 .. opened'[r] = 1 .. opened[r] \cup {c}
    BY <1>1, <2>1, <2>2 DEF Accounted
  <2>5. \A s \in Server \ {r} : freeList'[s] = freeList[s] /\ opened'[s] = opened[s]
    BY <2>2 DEF StoreTypes
  <2> HIDE DEF c
  <2> QED BY <2>1, <2>2, <2>3, <2>4, <2>5, AccountedLent
<1>3. CASE freeList[r] = <<>>
  <2>1. /\ UNCHANGED pool /\ UNCHANGED client
        /\ \E place \in {"connect", "wait"} : step' = [step EXCEPT ![w] = place]
    BY <1>3 DEF Loop, Goto
  <2>2. ASSUME NEW s \in Server PROVE Accounted(s)'
    <3>1. Users(s)' = Users(s)
      BY <2>1 DEF Users, StoreTypes
    <3> QED BY <2>1, <3>1, AccountedSame DEF pool
  <2> QED BY <2>2
<1> QED BY <1>2, <1>3

LEMMA AccountedReturn ==
  ASSUME StoreTypes, LocalOK, \A s \in Server : Accounted(s),
         NEW w \in Worker, step[w] = "use",
         NEW r \in Server, server[w] = r, Return(w, r),
         NEW place \in {"idle", "choose"}, Goto(w, place),
         \A v \in Worker \ {w} : server'[v] = server[v]
  PROVE  \A s \in Server : Accounted(s)'
<1> DEFINE c == client[w]
<1>1. /\ freeList[r] \in Seq(Nat) /\ Distinct(freeList[r])
      /\ c \in Nat /\ c # Null /\ w \in Users(r)
  BY StoreAssumption DEF StoreTypes, LocalOK, Accounted, Distinct, Users
<1>2. /\ c \in leaseSet[r] /\ c \notin FreeSet(r)
  BY <1>1 DEF Accounted
<1>3. /\ Elements(Append(freeList[r], c)) = FreeSet(r) \cup {c}
      /\ Distinct(Append(freeList[r], c))
  BY <1>1, <1>2, PutLast DEF FreeSet, Elements
<1>4. /\ leaseSet' = [leaseSet EXCEPT ![r] = leaseSet[r] \ {c}]
      /\ freeList' = [freeList EXCEPT ![r] = Append(freeList[r], c)]
      /\ client' = [client EXCEPT ![w] = Null] /\ UNCHANGED opened
      /\ step' = [step EXCEPT ![w] = place]
  BY <1>1 DEF Return, Goto, StoreTypes
<1>5. /\ freeList'[r] = Append(freeList[r], c) /\ FreeSet(r)' = FreeSet(r) \cup {c}
      /\ leaseSet'[r] = leaseSet[r] \ {c} /\ opened'[r] = opened[r]
      /\ Distinct(freeList'[r])
  <2>1. /\ freeList'[r] = Append(freeList[r], c) /\ opened'[r] = opened[r]
        /\ leaseSet'[r] = leaseSet[r] \ {c}
    BY <1>4 DEF StoreTypes
  <2>2. FreeSet(r)' = Elements(freeList'[r])
    BY DEF FreeSet, Elements
  <2> QED BY <1>3, <2>1, <2>2
<1>6. \A s \in Server : Users(s)' = Users(s) \ {w}
  BY <1>4 DEF Users, StoreTypes
<1>7. \A v \in Worker \ {w} : client'[v] = client[v]
  BY <1>4 DEF StoreTypes
<1>8. Accounted(r)'
  <2>1. {client'[v] : v \in Users(r)'} = {client[v] : v \in Users(r)} \ {c}
    <3>1. \A v \in Users(r) : v \in Worker /\ (client[v] = c => v = w)
      BY <1>1 DEF Accounted, Users
    <3>2. \A v \in Users(r) \ {w} : client'[v] = client[v]
      BY <1>7 DEF Users
    <3>3. Users(r)' = Users(r) \ {w}
      BY <1>6
    <3>4. {client'[v] : v \in Users(r)'} = {client[v] : v \in Users(r) \ {w}}
      BY <3>2, <3>3
    <3> QED BY <1>1, <3>1, <3>4
  <2>2. leaseSet'[r] \ {Null} = {client'[v] : v \in Users(r)'}
    <3>1. leaseSet[r] \ {Null} = {client[v] : v \in Users(r)}
      BY DEF Accounted
    <3> QED BY <1>5, <2>1, <3>1
  <2>3. FreeSet(r)' \cap leaseSet'[r] = {}
    BY <1>1, <1>5 DEF Accounted
  <2>4. FreeSet(r)' \cup (leaseSet'[r] \ {Null}) = 1 .. opened'[r]
    BY <1>1, <1>2, <1>4, <1>5 DEF Accounted
  <2>5. \A v, u \in Users(r)' : client'[v] = client'[u] => v = u
    <3>1. \A v, u \in Users(r) : client[v] = client[u] => v = u
      BY DEF Accounted
    <3>2. Users(r)' = Users(r) \ {w}
      BY <1>6
    <3>3. \A v \in Users(r)' : v \in Users(r) /\ client'[v] = client[v]
      BY <1>7, <3>2 DEF Users
    <3> QED BY <3>1, <3>3
  <2> QED BY <1>5, <2>2, <2>3, <2>4, <2>5 DEF Accounted, Distinct
<1>9. ASSUME NEW s \in Server \ {r} PROVE Accounted(s)'
  <2>1. w \notin Users(s)
    BY <1>9 DEF Users
  <2>2. /\ Users(s)' = Users(s) /\ leaseSet'[s] = leaseSet[s]
        /\ freeList'[s] = freeList[s] /\ opened'[s] = opened[s]
        /\ \A v \in Users(s) : client'[v] = client[v]
    BY <1>4, <1>6, <1>7, <1>9, <2>1 DEF StoreTypes, Users
  <2> QED BY <1>9, <2>2, AccountedSame
<1> QED BY <1>8, <1>9

-----------------------------------------------------------------------------
(* How many clients a pool has opened.                                     *)

LEMMA IntervalCardinality ==
  ASSUME NEW n \in Nat
  PROVE  IsFiniteSet(1 .. n) /\ Cardinality(1 .. n) = n
<1>1. IsFiniteSet(1 .. n) /\ Cardinality(1 .. n) = IF 1 > n THEN 0 ELSE n - 1 + 1
  BY FS_Interval, Z3
<1> QED BY <1>1

LEMMA CountFacts ==
  ASSUME StoreTypes, NEW s \in Server, Accounted(s), freeList[s] = <<>>
  PROVE  /\ Count(s) \in Nat
         /\ opened[s] <= Count(s) /\ Count(s) <= opened[s] + 1
<1>1. /\ opened[s] \in Nat /\ leaseSet[s] \in SUBSET (Nat \cup {Null})
      /\ Len(freeList[s]) = 0 /\ FreeSet(s) = {}
  BY EmptySeq DEF StoreTypes, FreeSet
<1>2. leaseSet[s] \ {Null} = 1 .. opened[s]
  BY <1>1 DEF Accounted
<1>3. /\ IsFiniteSet(1 .. opened[s]) /\ Cardinality(1 .. opened[s]) = opened[s]
  BY <1>1, IntervalCardinality
<1>4. CASE Null \in leaseSet[s]
  <2>1. leaseSet[s] = (1 .. opened[s]) \cup {Null} /\ Null \notin 1 .. opened[s]
    BY <1>2, <1>4, StoreAssumption
  <2>2. Cardinality(leaseSet[s]) = opened[s] + 1
    BY <1>3, <2>1, FS_AddElement, ZenonT(30)
  <2> QED BY <1>1, <2>2 DEF Count
<1>5. CASE Null \notin leaseSet[s]
  <2>1. leaseSet[s] = 1 .. opened[s]
    BY <1>2, <1>5
  <2> QED BY <1>1, <1>3, <2>1 DEF Count
<1> QED BY <1>4, <1>5

LEMMA LockLoop ==
  ASSUME StoreTypes, LockOK, NEW w \in Worker, step[w] # "connect",
         lock[server[w]] = Null, Loop(w, server[w]), UNCHANGED server
  PROVE  LockOK'
<1> DEFINE r == server[w]
<1>1. r \in Server /\ Null # w
  BY StoreAssumption DEF StoreTypes
<1>2. \A v \in Worker : step[v] = "connect" => server[v] # r
  BY <1>1, StoreAssumption DEF LockOK
<1>3. CASE freeList[r] # <<>> \/ ~MayCreate(r)
  <2>1. /\ UNCHANGED lock
        /\ \E place \in {"use", "wait"} : step' = [step EXCEPT ![w] = place]
    BY <1>3 DEF Loop, Goto
  <2>2. \A s \in Server \ {r} : freeList'[s] = freeList[s] /\ leaseSet'[s] = leaseSet[s]
    BY <1>3 DEF Loop, pool, StoreTypes
  <2>3. \A s \in Server : lock[s] # Null => freeList'[s] = <<>> /\ MayCreate(s)'
    BY <2>2 DEF LockOK, MayCreate, Count
  <2> QED BY <2>1, <2>3 DEF LockOK, StoreTypes
<1>4. CASE freeList[r] = <<>> /\ MayCreate(r)
  <2>1. /\ UNCHANGED pool /\ lock' = [lock EXCEPT ![r] = w]
        /\ step' = [step EXCEPT ![w] = "connect"]
    BY <1>4 DEF Loop, Goto
  <2>2. \A s \in Server : MayCreate(s)' <=> MayCreate(s)
    BY <2>1 DEF pool, MayCreate, Count
  <2>3. \A v \in Worker : step'[v] = "connect" => lock'[server'[v]] = v
    BY <1>1, <1>2, <2>1 DEF LockOK, StoreTypes
  <2>4. \A s \in Server : lock'[s] # Null => freeList'[s] = <<>> /\ MayCreate(s)'
    BY <1>1, <1>4, <2>1, <2>2 DEF LockOK, StoreTypes, pool
  <2> QED BY <2>3, <2>4 DEF LockOK
<1> QED BY <1>3, <1>4

\* Steps outside of the lock.
LEMMA LockApart ==
  ASSUME StoreTypes, LockOK, NEW w \in Worker, UNCHANGED <<pool, lock>>,
         NEW place \in Place \ {"connect"}, Goto(w, place),
         \A v \in Worker \ {w} : server'[v] = server[v]
  PROVE  LockOK'
<1>1. \A s \in Server : MayCreate(s)' <=> MayCreate(s)
  BY DEF pool, MayCreate, Count
<1> QED BY <1>1 DEF LockOK, StoreTypes, Goto, pool

\* The holder of the lock leaves it.
LEMMA LockReleased ==
  ASSUME StoreTypes, LockOK, NEW w \in Worker, NEW r \in Server,
         step[w] = "connect", server[w] = r,
         NEW place \in Place \ {"connect"}, Goto(w, place),
         lock' = [lock EXCEPT ![r] = Null], UNCHANGED <<server, freeList>>,
         \A s \in Server \ {r} : leaseSet'[s] = leaseSet[s]
  PROVE  LockOK'
<1>1. lock[r] = w
  BY DEF LockOK
<1>2. \A v \in Worker \ {w} : step[v] = "connect" => server[v] # r
  BY <1>1 DEF LockOK
<1>3. \A s \in Server \ {r} : MayCreate(s)' <=> MayCreate(s)
  BY DEF MayCreate, Count
<1>4. \A v \in Worker : step'[v] = "connect" => lock'[server'[v]] = v
  BY <1>2 DEF LockOK, StoreTypes, Goto
<1>5. \A s \in Server : lock'[s] # Null => freeList'[s] = <<>> /\ MayCreate(s)'
  BY <1>3 DEF LockOK, StoreTypes
<1> QED BY <1>4, <1>5 DEF LockOK

LEMMA LockReturn ==
  ASSUME StoreTypes, LockOK, NEW w \in Worker, NEW r \in Server, step[w] = "use",
         server[w] = r, Return(w, r),
         NEW place \in {"idle", "choose"}, Goto(w, place),
         \A v \in Worker \ {w} : server'[v] = server[v]
  PROVE  LockOK'
<1>1. /\ lock[r] = Null /\ UNCHANGED lock
      /\ \A s \in Server \ {r} : freeList'[s] = freeList[s] /\ leaseSet'[s] = leaseSet[s]
  BY DEF Return, StoreTypes
<1>2. \A s \in Server \ {r} : MayCreate(s)' <=> MayCreate(s)
  BY <1>1 DEF MayCreate, Count
<1>3. \A v \in Worker : step'[v] = "connect" => lock'[server'[v]] = v
  BY <1>1 DEF LockOK, StoreTypes, Goto
<1>4. \A s \in Server : lock'[s] # Null => freeList'[s] = <<>> /\ MayCreate(s)'
  BY <1>1, <1>2 DEF LockOK, StoreTypes
<1> QED BY <1>3, <1>4 DEF LockOK

OpenedOK ==
  /\ \A s \in Server : opened[s] <= MaxClient + 1
  /\ \A w \in Worker : step[w] = "wait" => opened[server[w]] >= MaxClient

-----------------------------------------------------------------------------
(* The inductive invariant.                                                *)

PoolInv == LockOK /\ (\A s \in Server : Accounted(s)) /\ OpenedOK

IInv == StoreTypes /\ LocalOK /\ PoolInv

LEMMA IInvInit == Init => IInv
<1> SUFFICES ASSUME Init PROVE IInv
  OBVIOUS
<1>1. LockOK
  BY DEF Init, LockOK
<1>2. ASSUME NEW s \in Server PROVE Accounted(s)
  <2>1. Users(s) = {} /\ FreeSet(s) = {} /\ freeList[s] = <<>>
    BY EmptySeq DEF Init, Users, FreeSet
  <2>2. leaseSet[s] = {} /\ opened[s] = 0
    BY DEF Init
  <2> QED BY <2>1, <2>2 DEF Accounted
<1>3. OpenedOK
  BY StoreAssumption DEF Init, OpenedOK
<1> QED BY <1>1, <1>2, <1>3, TypesInit DEF IInv, PoolInv

\* A step that leaves the pools alone, of a worker that is not in sendData
\* before or afterwards.
LEMMA PoolInvApart ==
  ASSUME IInv, NEW w \in Worker, UNCHANGED <<pool, client, lock>>, step[w] # "use",
         NEW place \in {"idle", "choose", "lease"}, Goto(w, place),
         \A v \in Worker \ {w} : server'[v] = server[v]
  PROVE  PoolInv'
<1>1. LockOK'
  BY LockApart DEF IInv, PoolInv, Place
<1>2. ASSUME NEW s \in Server PROVE Accounted(s)'
  <2>1. Users(s)' = Users(s)
    BY DEF IInv, StoreTypes, Users, Goto
  <2> QED BY <2>1, AccountedSame DEF IInv, PoolInv, pool
<1>3. OpenedOK'
  BY DEF IInv, PoolInv, OpenedOK, StoreTypes, Goto, pool
<1> QED BY <1>1, <1>2, <1>3 DEF PoolInv

LEMMA PoolInvLoop ==
  ASSUME IInv, NEW w \in Worker, step[w] \in {"lease", "wait"},
         lock[server[w]] = Null, Loop(w, server[w]), UNCHANGED server
  PROVE  PoolInv'
<1> DEFINE r == server[w]
<1>1. r \in Server
  BY DEF IInv, StoreTypes
<1>2. LockOK' /\ \A s \in Server : Accounted(s)'
  BY LockLoop, AccountedLoop DEF IInv, PoolInv
<1>3. CASE freeList[r] # <<>> \/ MayCreate(r)
  <2>1. /\ UNCHANGED opened
        /\ \E place \in {"use", "connect"} : step' = [step EXCEPT ![w] = place]
    BY <1>3 DEF Loop, Goto, pool
  <2>2. OpenedOK'
    BY <2>1 DEF IInv, PoolInv, OpenedOK, StoreTypes
  <2> QED BY <1>2, <2>2 DEF PoolInv
<1>4. CASE freeList[r] = <<>> /\ ~MayCreate(r)
  <2>1. UNCHANGED opened /\ step' = [step EXCEPT ![w] = "wait"]
    BY <1>4 DEF Loop, Goto, pool
  <2>2. Count(r) \in Nat /\ Count(r) <= opened[r] + 1 /\ opened[r] \in Nat
    BY <1>1, <1>4, CountFacts DEF IInv, PoolInv, StoreTypes
  <2>3. opened[r] >= MaxClient
    BY <1>4, <2>2, StoreAssumption DEF MayCreate
  <2>4. OpenedOK'
    BY <1>1, <2>1, <2>3 DEF IInv, PoolInv, OpenedOK, StoreTypes
  <2> QED BY <1>2, <2>4 DEF PoolInv
<1> QED BY <1>3, <1>4

LEMMA PoolInvReturn ==
  ASSUME IInv, NEW w \in Worker, step[w] = "use", Return(w, server[w]),
         NEW place \in {"idle", "choose"}, Goto(w, place),
         \A v \in Worker \ {w} : server'[v] = server[v]
  PROVE  PoolInv'
<1>1. PICK r \in Server : server[w] = r
  BY DEF IInv, StoreTypes
<1>2. LockOK'
  BY <1>1, LockReturn DEF IInv, PoolInv
<1>3. \A s \in Server : Accounted(s)'
  BY <1>1, AccountedReturn DEF IInv, PoolInv
<1>4. OpenedOK'
  BY DEF IInv, PoolInv, OpenedOK, StoreTypes, Goto, Return
<1> QED BY <1>2, <1>3, <1>4 DEF PoolInv

LEMMA PoolInvConnect ==
  ASSUME IInv, NEW w \in Worker, Connect(w)
  PROVE  PoolInv'
<1>1. PICK r \in Server : server[w] = r
  BY DEF IInv, StoreTypes
<1> DEFINE c == opened[r] + 1
<1>2. /\ step[w] = "connect" /\ UNCHANGED <<server, freeList>>
      /\ lock' = [lock EXCEPT ![r] = Null]
      /\ opened' = [opened EXCEPT ![r] = c] /\ client' = [client EXCEPT ![w] = c]
      /\ leaseSet' = [leaseSet EXCEPT ![r] = @ \cup {c}]
      /\ Goto(w, "use")
  BY <1>1 DEF Connect, batch, IInv, StoreTypes
<1>3. opened[r] \in Nat /\ c \in Nat /\ opened'[r] = c
  BY <1>1, <1>2 DEF IInv, StoreTypes
<1>4. \A s \in Server \ {r} : opened'[s] = opened[s] /\ leaseSet'[s] = leaseSet[s]
  BY <1>2 DEF IInv, StoreTypes
<1>5. LockOK'
  BY <1>1, <1>2, <1>4, LockReleased DEF IInv, PoolInv, Place
<1>6. \A s \in Server : Accounted(s)'
  <2>1. c \notin FreeSet(r) /\ c \notin leaseSet[r] /\ Distinct(freeList'[r])
    BY <1>2, <1>3, StoreAssumption DEF IInv, PoolInv, Accounted, Distinct
  <2>2. FreeSet(r)' = FreeSet(r) \ {c}
    BY <1>2, <2>1 DEF FreeSet
  <2>3. 1 .. opened'[r] = 1 .. opened[r] \cup {c}
    BY <1>3
  <2>4. step' = [step EXCEPT ![w] = "use"] /\ step[w] # "use"
    BY <1>2 DEF Goto
  <2> HIDE DEF c
  <2> QED BY <1>1, <1>2, <1>3, <1>4, <2>1, <2>2, <2>3, <2>4, AccountedLent DEF IInv, PoolInv
<1>7. opened[r] <= MaxClient
  <2>1. lock[r] # Null
    BY <1>1, <1>2, StoreAssumption DEF IInv, PoolInv, LockOK
  <2>2. freeList[r] = <<>> /\ Count(r) <= MaxClient
    BY <2>1 DEF IInv, PoolInv, LockOK, MayCreate
  <2>3. Count(r) \in Nat /\ opened[r] <= Count(r)
    BY <2>2, CountFacts DEF IInv, PoolInv
  <2> QED BY <1>3, <2>2, <2>3, StoreAssumption
<1>8. OpenedOK'
  <2>1. \A s \in Server : opened'[s] <= MaxClient + 1
    BY <1>3, <1>4, <1>7, StoreAssumption DEF IInv, PoolInv, OpenedOK
  <2>2. \A s \in Server : opened'[s] >= opened[s] /\ opened[s] \in Int /\ opened'[s] \in Int
    BY <1>3, <1>4, SMTT(30) DEF IInv, StoreTypes
  <2>3. ASSUME NEW v \in Worker, step'[v] = "wait" PROVE opened'[server'[v]] >= MaxClient
    <3>1. step[v] = "wait" /\ server'[v] = server[v] /\ server[v] \in Server
      BY <1>2, <2>3 DEF IInv, StoreTypes, Goto
    <3> QED BY <2>2, <3>1, StoreAssumption DEF IInv, PoolInv, OpenedOK
  <2> QED BY <2>1, <2>3 DEF OpenedOK
<1> QED BY <1>5, <1>6, <1>8 DEF PoolInv

LEMMA PoolInvConnectFails ==
  ASSUME IInv, NEW w \in Worker, ConnectFails(w)
  PROVE  PoolInv'
<1>1. PICK r \in Server : server[w] = r
  BY DEF IInv, StoreTypes
<1>2. /\ step[w] = "connect" /\ UNCHANGED <<server, freeList, opened, client>>
      /\ lock' = [lock EXCEPT ![r] = Null]
      /\ leaseSet' = [leaseSet EXCEPT ![r] = @ \cup {Null}]
      /\ Goto(w, "choose")
  BY <1>1 DEF ConnectFails, TryFails
<1>3. \A s \in Server \ {r} : leaseSet'[s] = leaseSet[s]
  BY <1>2 DEF IInv, StoreTypes
<1>4. LockOK'
  BY <1>1, <1>2, <1>3, LockReleased DEF IInv, PoolInv, Place
<1>5. ASSUME NEW s \in Server PROVE Accounted(s)'
  <2>1. Users(s)' = Users(s) /\ leaseSet'[s] \ {Null} = leaseSet[s] \ {Null}
    BY <1>2 DEF IInv, StoreTypes, Users, Goto
  <2> QED BY <1>2, <2>1, AccountedSame DEF IInv, PoolInv
<1>6. OpenedOK'
  BY <1>2 DEF IInv, PoolInv, OpenedOK, StoreTypes, Goto
<1> QED BY <1>4, <1>5, <1>6 DEF PoolInv

LEMMA IInvNext == IInv /\ [Next]_vars => IInv'
<1> SUFFICES ASSUME IInv, [Next]_vars PROVE PoolInv'
  BY TypesNext DEF IInv
<1>1. ASSUME NEW w \in Worker, Take(w) PROVE PoolInv'
  BY <1>1, PoolInvApart DEF Take, batch
<1>2. ASSUME NEW w \in Worker, Choose(w) PROVE PoolInv'
  <2>1. /\ step[w] = "choose" /\ UNCHANGED <<pool, client, lock>>
        /\ Goto(w, "idle") \/ Goto(w, "lease")
        /\ \A v \in Worker \ {w} : server'[v] = server[v]
    BY <1>2 DEF Choose, Leave, IInv, StoreTypes
  <2> QED BY <2>1, PoolInvApart
<1>3. ASSUME NEW w \in Worker, Abandon(w) PROVE PoolInv'
  <2>1. \A v \in Worker \ {w} : server'[v] = server[v]
    BY <1>3 DEF Abandon, Leave, IInv, StoreTypes
  <2> QED BY <1>3, <2>1, PoolInvApart DEF Abandon, Leave
<1>4. ASSUME NEW w \in Worker, Lease(w) \/ WakeUp(w) PROVE PoolInv'
  BY <1>4, PoolInvLoop DEF Lease, WakeUp, batch
<1>5. ASSUME NEW w \in Worker, Connect(w) PROVE PoolInv'
  BY <1>5, PoolInvConnect
<1>6. ASSUME NEW w \in Worker, ConnectFails(w) PROVE PoolInv'
  BY <1>6, PoolInvConnectFails
<1>7. ASSUME NEW w \in Worker, TimeOut(w) PROVE PoolInv'
  BY <1>7, PoolInvApart DEF TimeOut, TryFails
<1>8. ASSUME NEW w \in Worker, Stored(w) PROVE PoolInv'
  <2>1. \A v \in Worker \ {w} : server'[v] = server[v]
    BY <1>8 DEF Stored, Leave, IInv, StoreTypes
  <2> QED BY <1>8, <2>1, PoolInvReturn DEF Stored, Leave
<1>9. ASSUME NEW w \in Worker, Thrown(w) PROVE PoolInv'
  BY <1>9, PoolInvReturn DEF Thrown, TryFails
<1>10. ASSUME UNCHANGED <<step, server, client, pool, lock>> PROVE PoolInv'
  <2>1. ASSUME NEW s \in Server PROVE Accounted(s)'
    BY <1>10 DEF IInv, PoolInv, Accounted, Users, FreeSet, pool
  <2>2. LockOK' /\ OpenedOK'
    BY <1>10 DEF IInv, PoolInv, LockOK, OpenedOK, MayCreate, Count, pool
  <2> QED BY <2>1, <2>2 DEF PoolInv
<1>11. ASSUME NEW w \in Worker, Deadline(w) PROVE PoolInv'
  BY <1>10, <1>11 DEF Deadline, batch
<1>12. CASE UNCHANGED vars
  BY <1>10, <1>12 DEF vars, batch
<1> QED BY <1>1, <1>2, <1>3, <1>4, <1>5, <1>6, <1>7, <1>8, <1>9, <1>11, <1>12
        DEF Next, WorkerStep

-----------------------------------------------------------------------------
(* What follows from it.                                                   *)

(* Every client that a pool ever opened is in its free list, once, or      *)
(* leased to one thread inside sendData, whatever fails in lease(), in     *)
(* sendData or at the server, and the variables have their types.          *)
THEOREM NothingForgottenCorrect == Spec => []NothingForgotten
<1>1. IInv => NothingForgotten
  BY DEF IInv, PoolInv, NothingForgotten
<1> QED BY IInvInit, IInvNext, <1>1, PTL DEF Spec

(* lease() makes a thread wait only while its pool has opened maxClient    *)
(* clients: the null of a server that did not answer takes no place of a   *)
(* client.                                                                 *)
THEOREM WaitsForClientsCorrect == Spec => []WaitsForClients
<1>1. IInv => WaitsForClients
  BY DEF IInv, PoolInv, OpenedOK, WaitsForClients
<1> QED BY IInvInit, IInvNext, <1>1, PTL DEF Spec

(* store() gives up a batch after all of its tries, or for the index that  *)
(* RoundRobinStorage computes behind the end of its list.                  *)
THEOREM LossCorrect == Spec => LossExplained
<1>1. ASSUME IInv, Next, NEW w \in Worker
      PROVE  step[w] = "choose" /\ step'[w] = "idle" =>
               \/ failed[w] = Tries
               \/ policy = "RoundRobin" /\ Masked(position', Servers, Servers)
  <2> SUFFICES ASSUME step[w] = "choose", step'[w] = "idle"
               PROVE  \/ failed[w] = Tries
                      \/ policy = "RoundRobin" /\ Masked(position', Servers, Servers)
    OBVIOUS
  <2>1. step \in [Worker -> Place] /\ failed[w] = tries[w]
    BY <1>1 DEF IInv, StoreTypes, LocalOK, Trying
  <2>2. PICK v \in Worker : Take(v) \/ WorkerStep(v) \/ Deadline(v)
    BY <1>1 DEF Next
  <2>3. v = w
    <3>1. \/ UNCHANGED step
          \/ \E place \in Place : step' = [step EXCEPT ![v] = place]
      BY <2>2 DEF Take, WorkerStep, Choose, Abandon, Lease, Loop, Connect, ConnectFails,
                  WakeUp, TimeOut, Stored, Thrown, Deadline, Leave, TryFails, Goto, Place
    <3> QED BY <2>1, <3>1
  <2>4. Choose(w) \/ Abandon(w)
    BY <2>1, <2>2, <2>3 DEF Take, WorkerStep, Lease, Connect, ConnectFails,
                       WakeUp, TimeOut, Stored, Thrown, Deadline
  <2>5. CASE Abandon(w)
    BY <2>1, <2>5 DEF Abandon
  <2>6. CASE Choose(w)
    <3>1. PICK i \in 0 .. Servers :
            /\ Index(i)
            /\ i # Servers => Goto(w, "lease")
      BY <2>6 DEF Choose
    <3>2. i = Servers
      BY <2>1, <3>1 DEF Goto
    <3>3. position' = Decremented /\ policy = "RoundRobin" /\ Masked(Decremented, Servers, i)
      BY <3>1, <3>2, StoreAssumption DEF Index
    <3> QED BY <3>2, <3>3
  <2> QED BY <2>4, <2>5, <2>6
<1>2. IInv /\ [Next]_vars =>
        [\A w \in Worker :
           step[w] = "choose" /\ step'[w] = "idle" =>
             \/ failed[w] = Tries
             \/ policy = "RoundRobin" /\ Masked(position', Servers, Servers)]_vars
  BY <1>1
<1> QED BY IInvInit, IInvNext, <1>2, PTL DEF Spec, LossExplained
-----------------------------------------------------------------------------
(* The pool of server 0 as the abstract one.                               *)

AskingNow ==
  {w \in Worker : step[w] \in {"lease", "connect", "wait"} /\ server[w] = 0}

HeldNow == [w \in Worker |-> IF w \in Users(0) THEN client[w] ELSE Null]

LEMMA OpenIs ==
  ASSUME IInv
  PROVE  /\ 0 \in Server /\ opened[0] \in Nat /\ opened[0] <= MaxClient + 1
         /\ FreeSet(0) \cup ({HeldNow[w] : w \in Worker} \ {Null}) = 1 .. opened[0]
<1>1. 0 \in Server
  BY StoreAssumption DEF Server
<1>2. \A w \in Users(0) : w \in Worker /\ client[w] # Null
  BY StoreAssumption DEF Users, IInv, LocalOK
<1>3. {HeldNow[w] : w \in Worker} \ {Null} = {client[w] : w \in Users(0)}
  BY <1>2 DEF HeldNow, Users
<1> QED BY <1>1, <1>3 DEF IInv, PoolInv, OpenedOK, StoreTypes, Accounted

\* A step that is nothing to this pool, or that it does not show.
LEMMA Unseen ==
  ASSUME IInv, NEW w \in Worker, NEW place \in Place, Goto(w, place),
         \A v \in Worker \ {w} : server'[v] = server[v] /\ client'[v] = client[v],
         freeList'[0] = freeList[0],
         w \in AskingNow <=> server'[w] = 0 /\ place \in {"lease", "connect", "wait"},
         w \notin Users(0), ~(server'[w] = 0 /\ place = "use")
  PROVE  UNCHANGED <<AskingNow, HeldNow, FreeSet(0)>>
<1>1. step'[w] = place /\ \A v \in Worker \ {w} : step'[v] = step[v]
  BY DEF IInv, StoreTypes, Goto
<1>2. AskingNow' = AskingNow
  BY <1>1 DEF AskingNow
<1>3. Users(0)' = Users(0)
  BY <1>1 DEF Users
<1>4. HeldNow' = HeldNow
  BY <1>3 DEF HeldNow
<1>5. FreeSet(0)' = FreeSet(0)
  BY DEF FreeSet
<1> QED BY <1>2, <1>4, <1>5

\* A step of w at server 0 that ends its use of a client or its request,
\* or begins one of them.
LEMMA Seen ==
  ASSUME IInv, NEW w \in Worker, NEW place \in Place, Goto(w, place),
         server'[w] = 0 \/ place \in {"idle", "choose"},
         server[w] = 0 \/ step[w] \in {"idle", "choose"},
         \A v \in Worker \ {w} : server'[v] = server[v] /\ client'[v] = client[v]
  PROVE  /\ AskingNow' = IF place \in {"lease", "connect", "wait"}
                         THEN AskingNow \cup {w} ELSE AskingNow \ {w}
         /\ HeldNow' = [HeldNow EXCEPT ![w] = IF place = "use" THEN client'[w] ELSE Null]
<1>1. step'[w] = place /\ \A v \in Worker \ {w} : step'[v] = step[v]
  BY DEF IInv, StoreTypes, Goto
<1>2. AskingNow' = IF place \in {"lease", "connect", "wait"}
                   THEN AskingNow \cup {w} ELSE AskingNow \ {w}
  BY <1>1 DEF AskingNow
<1>3. Users(0)' = IF place = "use" THEN Users(0) \cup {w} ELSE Users(0) \ {w}
  BY <1>1 DEF Users
<1>4. HeldNow' = [HeldNow EXCEPT ![w] = IF place = "use" THEN client'[w] ELSE Null]
  <2> DEFINE c == IF place = "use" THEN client'[w] ELSE Null
  <2>1. (w \in Users(0)' <=> place = "use")
        /\ \A v \in Worker \ {w} : v \in Users(0)' <=> v \in Users(0)
    BY <1>3
  <2>2. \A v \in Worker \ {w} : client'[v] = client[v]
    OBVIOUS
  <2> QED BY <2>1, <2>2 DEF HeldNow
<1> QED BY <1>2, <1>4
PoolStep == [Pool!Next]_(Pool!vars)

LEMMA PoolStutters ==
  ASSUME UNCHANGED <<AskingNow, HeldNow, FreeSet(0)>>
  PROVE  PoolStep
BY DEF PoolStep, Pool!vars, AskingNow, HeldNow

LEMMA PoolAsks ==
  ASSUME NEW w \in Worker, w \notin AskingNow, HeldNow[w] = Null,
         AskingNow' = AskingNow \cup {w}, UNCHANGED <<HeldNow, FreeSet(0)>>
  PROVE  PoolStep
<1>1. Pool!Ask(w)
  BY DEF Pool!Ask, AskingNow, HeldNow
<1> QED BY <1>1 DEF PoolStep, Pool!Next

LEMMA PoolRefuses ==
  ASSUME NEW w \in Worker, w \in AskingNow,
         AskingNow' = AskingNow \ {w}, UNCHANGED <<HeldNow, FreeSet(0)>>
  PROVE  PoolStep
<1>1. Pool!Refuse(w)
  BY DEF Pool!Refuse, AskingNow, HeldNow
<1> QED BY <1>1 DEF PoolStep, Pool!Next

LEMMA PoolGrants ==
  ASSUME IInv, NEW w \in Worker, w \in AskingNow, NEW c \in Nat,
         c \in FreeSet(0) \/ (c = opened[0] + 1 /\ opened[0] <= MaxClient),
         AskingNow' = AskingNow \ {w}, HeldNow' = [HeldNow EXCEPT ![w] = c],
         FreeSet(0)' = FreeSet(0) \ {c}
  PROVE  PoolStep
<1>1. Pool!Open = 1 .. opened[0] /\ opened[0] \in Nat
  BY OpenIs DEF Pool!Open, HeldNow
<1>2. c \in FreeSet(0) \cup (Pool!Client \ Pool!Open)
  BY <1>1, StoreAssumption DEF Pool!Client
<1>3. Pool!Grant(w)
  BY <1>2 DEF Pool!Grant, AskingNow, HeldNow
<1> QED BY <1>3 DEF PoolStep, Pool!Next

LEMMA PoolTakesBack ==
  ASSUME NEW w \in Worker, HeldNow[w] # Null,
         UNCHANGED AskingNow, HeldNow' = [HeldNow EXCEPT ![w] = Null],
         FreeSet(0)' = FreeSet(0) \cup {HeldNow[w]}
  PROVE  PoolStep
<1>1. Pool!GiveBack(w)
  BY DEF Pool!GiveBack, AskingNow, HeldNow
<1> QED BY <1>1 DEF PoolStep, Pool!Next

LEMMA RefinesLoop ==
  ASSUME IInv, NEW w \in Worker, step[w] \in {"lease", "wait"}, Loop(w, server[w]),
         UNCHANGED server
  PROVE  PoolStep
<1>1. /\ server[w] \in Server /\ w \notin Users(0)
      /\ client \in [Worker -> Nat \cup {Null}] /\ freeList \in [Server -> Seq(Nat)]
      /\ Server = 0 .. Servers - 1 /\ 0 \in Server
  BY OpenIs DEF IInv, StoreTypes, Users, Server
<1>2. CASE server[w] # 0
  <2>1. PICK place \in {"use", "connect", "wait"} : Goto(w, place)
    BY DEF Loop
  <2>2. /\ freeList'[0] = freeList[0]
        /\ \A v \in Worker \ {w} : client'[v] = client[v]
    BY <1>1, <1>2 DEF Loop, pool
  <2>3. w \notin AskingNow
    BY <1>2 DEF AskingNow
  <2> QED BY <1>1, <1>2, <2>1, <2>2, <2>3, Unseen, PoolStutters DEF Place
<1>3. CASE server[w] = 0 /\ freeList[0] = <<>>
  <2>1. /\ UNCHANGED <<client, freeList>>
        /\ \E place \in {"connect", "wait"} : Goto(w, place)
    BY <1>3 DEF Loop, pool
  <2>2. w \in AskingNow
    BY <1>3 DEF AskingNow
  <2> QED BY <1>1, <1>3, <2>1, <2>2, Unseen, PoolStutters DEF Place
<1>4. CASE server[w] = 0 /\ freeList[0] # <<>>
  <2> DEFINE c == Head(freeList[0])
  <2>1. /\ Goto(w, "use") /\ client' = [client EXCEPT ![w] = c]
        /\ freeList'[0] = Tail(freeList[0])
    BY <1>1, <1>4 DEF Loop
  <2>2. /\ c \in Elements(freeList[0]) /\ c \in Nat
        /\ Elements(Tail(freeList[0])) = Elements(freeList[0]) \ {c}
    BY <1>1, <1>4, TakeHead DEF IInv, PoolInv, Accounted, Distinct
  <2>3. c \in FreeSet(0) /\ FreeSet(0)' = FreeSet(0) \ {c}
    BY <2>1, <2>2 DEF FreeSet, Elements
  <2>4. w \in AskingNow /\ client'[w] = c
    BY <1>1, <1>4, <2>1 DEF AskingNow
  <2>5. \A v \in Worker \ {w} : client'[v] = client[v]
    BY <1>1, <2>1
  <2> HIDE DEF c
  <2>6. AskingNow' = AskingNow \ {w} /\ HeldNow' = [HeldNow EXCEPT ![w] = c]
    BY <1>4, <2>1, <2>4, <2>5, Seen DEF Place
  <2> QED BY <2>2, <2>3, <2>4, <2>6, PoolGrants
<1> QED BY <1>2, <1>3, <1>4

LEMMA RefinesConnect ==
  ASSUME IInv, NEW w \in Worker, Connect(w)
  PROVE  PoolStep
<1> DEFINE c == opened[server[w]] + 1
<1>1. /\ step[w] = "connect" /\ Goto(w, "use") /\ UNCHANGED <<server, freeList>>
      /\ opened' = [opened EXCEPT ![server[w]] = c]
      /\ client' = [client EXCEPT ![w] = c]
      /\ server[w] \in Server /\ opened[server[w]] \in Nat
      /\ client \in [Worker -> Nat \cup {Null}]
  BY DEF Connect, batch, IInv, StoreTypes
<1>2. client'[w] = c /\ \A v \in Worker \ {w} : client'[v] = client[v]
  BY <1>1
<1>3. w \notin Users(0) /\ UNCHANGED FreeSet(0)
  BY <1>1 DEF Users, FreeSet
<1>4. CASE server[w] # 0
  <2>1. w \notin AskingNow
    BY <1>4 DEF AskingNow
  <2> QED BY <1>1, <1>2, <1>3, <1>4, <2>1, Unseen, PoolStutters DEF Place
<1>5. CASE server[w] = 0
  <2>1. w \in AskingNow /\ c \in Nat /\ c = opened[0] + 1
    BY <1>1, <1>5 DEF AskingNow
  <2>2. opened[0] <= MaxClient
    <3>1. OpenedOK' /\ opened'[0] = opened[0] + 1
      BY <1>1, <1>5, PoolInvConnect DEF PoolInv, IInv, StoreTypes
    <3> QED BY <1>1, <1>5, <3>1, StoreAssumption DEF OpenedOK
  <2>3. c \notin FreeSet(0)
    BY <2>1, OpenIs
  <2>4. FreeSet(0)' = FreeSet(0) \ {c}
    BY <1>3, <2>3
  <2> HIDE DEF c
  <2>5. AskingNow' = AskingNow \ {w} /\ HeldNow' = [HeldNow EXCEPT ![w] = c]
    BY <1>1, <1>2, <1>5, Seen DEF Place
  <2> QED BY <2>1, <2>2, <2>4, <2>5, PoolGrants
<1> QED BY <1>4, <1>5

\* A request ends without a client.
LEMMA RefinesRefusal ==
  ASSUME IInv, NEW w \in Worker, step[w] \in {"connect", "wait"}, TryFails(w),
         UNCHANGED <<client, freeList>>
  PROVE  PoolStep
<1>1. Goto(w, "choose") /\ UNCHANGED <<server, FreeSet(0)>> /\ w \notin Users(0)
  BY DEF TryFails, Users, FreeSet
<1>2. CASE server[w] # 0
  <2>1. w \notin AskingNow
    BY <1>2 DEF AskingNow
  <2> QED BY <1>1, <1>2, <2>1, Unseen, PoolStutters DEF Place
<1>3. CASE server[w] = 0
  <2>1. w \in AskingNow /\ HeldNow[w] = Null
    BY <1>1, <1>3 DEF AskingNow, HeldNow
  <2>2. AskingNow' = AskingNow \ {w} /\ HeldNow' = [HeldNow EXCEPT ![w] = Null]
    BY <1>1, <1>3, Seen DEF Place
  <2>3. UNCHANGED HeldNow
    BY <2>1, <2>2 DEF HeldNow
  <2> QED BY <1>1, <2>1, <2>2, <2>3, PoolRefuses
<1> QED BY <1>2, <1>3

LEMMA RefinesReturn ==
  ASSUME IInv, NEW w \in Worker, step[w] = "use", Return(w, server[w]),
         NEW place \in {"idle", "choose"}, Goto(w, place),
         \A v \in Worker \ {w} : server'[v] = server[v]
  PROVE  PoolStep
<1>1. /\ server[w] \in Server /\ w \notin AskingNow /\ client[w] \in Nat
      /\ client \in [Worker -> Nat \cup {Null}] /\ freeList \in [Server -> Seq(Nat)]
      /\ 0 \in Server /\ client' = [client EXCEPT ![w] = Null]
  BY OpenIs DEF IInv, StoreTypes, LocalOK, AskingNow, Return
<1>2. \A v \in Worker \ {w} : client'[v] = client[v]
  BY <1>1
<1>3. CASE server[w] # 0
  <2>1. freeList'[0] = freeList[0] /\ w \notin Users(0)
    BY <1>1, <1>3 DEF Return, Users
  <2> QED BY <1>1, <1>2, <1>3, <2>1, Unseen, PoolStutters DEF Place
<1>4. CASE server[w] = 0
  <2>1. HeldNow[w] = client[w] /\ HeldNow[w] # Null
    BY <1>1, <1>4, StoreAssumption DEF HeldNow, Users
  <2>2. FreeSet(0)' = FreeSet(0) \cup {client[w]}
    <3>1. /\ client[w] \notin Elements(freeList[0]) /\ Distinct(freeList[0])
          /\ freeList[0] \in Seq(Nat)
      <4>1. client[w] \in leaseSet[0]
        BY <1>1, <1>4 DEF IInv, PoolInv, Accounted, Users
      <4> QED BY <1>1, <4>1 DEF IInv, PoolInv, Accounted, FreeSet, Elements, Distinct
    <3>2. freeList'[0] = Append(freeList[0], client[w])
      BY <1>1, <1>4 DEF Return
    <3>3. Elements(Append(freeList[0], client[w])) = Elements(freeList[0]) \cup {client[w]}
      BY <1>1, <3>1, PutLast
    <3> QED BY <3>2, <3>3 DEF FreeSet, Elements
  <2>3. AskingNow' = AskingNow \ {w} /\ HeldNow' = [HeldNow EXCEPT ![w] = Null]
    BY <1>2, <1>4, Seen DEF Place
  <2> QED BY <1>1, <2>1, <2>2, <2>3, PoolTakesBack
<1> QED BY <1>3, <1>4

LEMMA RefinesChoose ==
  ASSUME IInv, NEW w \in Worker, Choose(w)
  PROVE  PoolStep
<1>1. /\ step[w] = "choose" /\ UNCHANGED <<client, freeList, FreeSet(0)>>
      /\ Goto(w, "idle") \/ Goto(w, "lease")
      /\ \A v \in Worker \ {w} : server'[v] = server[v]
  BY DEF Choose, Leave, pool, FreeSet, IInv, StoreTypes
<1>2. w \notin AskingNow /\ w \notin Users(0) /\ HeldNow[w] = Null
  BY <1>1 DEF AskingNow, HeldNow, Users
<1>3. CASE Goto(w, "lease") /\ server'[w] = 0
  <2>1. /\ AskingNow' = AskingNow \cup {w}
        /\ HeldNow' = [HeldNow EXCEPT ![w] = Null]
    BY <1>1, <1>3, Seen DEF Place
  <2>2. UNCHANGED HeldNow
    BY <1>2, <2>1 DEF HeldNow
  <2> QED BY <1>1, <1>2, <2>1, <2>2, PoolAsks
<1>4. CASE Goto(w, "idle") \/ server'[w] # 0
  BY <1>1, <1>2, <1>4, Unseen, PoolStutters DEF Place
<1> QED BY <1>1, <1>3, <1>4

(* Whatever its lock, its condition, its deadlines and its null, an        *)
(* InfluxdbPool with maxClient + 1 clients makes the steps of LeasePool,   *)
(* and no other: a client is lent to one thread, and comes back free.      *)
THEOREM PoolSafe == Spec => Pool!Init /\ [][Pool!Next]_(Pool!vars)
<1>1. Init => Pool!Init
  <2> SUFFICES ASSUME Init PROVE Pool!Init
    OBVIOUS
  <2>1. AskingNow = {} /\ HeldNow = [w \in Worker |-> Null]
    BY DEF Init, AskingNow, HeldNow, Users
  <2>2. FreeSet(0) = {}
    BY OpenIs, IInvInit, EmptySeq DEF Init, FreeSet
  <2> QED BY <2>1, <2>2 DEF Pool!Init, AskingNow, HeldNow
<1>2. ASSUME IInv, [Next]_vars PROVE PoolStep
  <2> USE <1>2
  <2>1. ASSUME NEW w \in Worker, Take(w) \/ Abandon(w) PROVE PoolStep
    <3>1. /\ step[w] \in {"idle", "choose"} /\ UNCHANGED <<client, freeList>>
          /\ Goto(w, "choose") \/ Goto(w, "idle")
          /\ \A v \in Worker \ {w} : server'[v] = server[v]
      BY <2>1 DEF Take, Abandon, Leave, batch, pool, IInv, StoreTypes
    <3>2. w \notin AskingNow /\ w \notin Users(0)
      BY <3>1 DEF AskingNow, Users
    <3> QED BY <3>1, <3>2, Unseen, PoolStutters DEF Place
  <2>2. ASSUME NEW w \in Worker, Lease(w) \/ WakeUp(w) PROVE PoolStep
    BY <2>2, RefinesLoop DEF Lease, WakeUp, batch
  <2>3. ASSUME NEW w \in Worker, ConnectFails(w) \/ TimeOut(w) PROVE PoolStep
    BY <2>3, RefinesRefusal DEF ConnectFails, TimeOut, pool
  <2>4. ASSUME NEW w \in Worker, Stored(w) \/ Thrown(w) PROVE PoolStep
    <3>1. \A v \in Worker \ {w} : server'[v] = server[v]
      BY <2>4 DEF Stored, Thrown, Leave, TryFails, IInv, StoreTypes
    <3> QED BY <2>4, <3>1, RefinesReturn DEF Stored, Thrown, Leave, TryFails
  <2>5. ASSUME UNCHANGED <<step, server, client, freeList>> PROVE PoolStep
    BY <2>5, PoolStutters DEF AskingNow, HeldNow, Users, FreeSet
  <2>6. ASSUME NEW w \in Worker, Deadline(w) PROVE PoolStep
    BY <2>5, <2>6 DEF Deadline, batch, pool
  <2>7. CASE UNCHANGED vars
    BY <2>5, <2>7 DEF vars, batch, pool
  <2> QED BY <2>1, <2>2, <2>3, <2>4, <2>6, <2>7, RefinesChoose, RefinesConnect
          DEF Next, WorkerStep
<1> QED BY <1>1, <1>2, IInvInit, IInvNext, PTL DEF Spec, PoolStep
=============================================================================

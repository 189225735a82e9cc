---------------------------- MODULE MetricStore ----------------------------
(***************************************************************************)
(* store() of the metrics: each SendAgent tries a batch up to three times, *)
(* on a server that RandomStorage or RoundRobinStorage chooses, with a     *)
(* client of the InfluxdbPool of that server.  MetricPipeline has it as    *)
(* one step, Stored.                                                       *)
(*                                                                         *)
(* A client is named by the order in which its pool opened it.  A section  *)
(* under the pool's lock is one step, except the connection to a server,   *)
(* during which the lock is held.  Time is left open: a deadline may pass  *)
(* at any moment.  releaseClose and close have no caller.  A batch that    *)
(* InfluxdbConvertUtil cannot convert, an exception before the first try,  *)
(* is left out.                                                            *)
(***************************************************************************)
EXTENDS Integers, Sequences, FiniteSets

CONSTANTS
  Worker,      \* threads of SendAgents
  Servers,     \* number of servers in the configuration
  MaxClient,   \* of a pool (100)
  Tries,       \* of a batch (3)
  Width,       \* bits kept of RoundRobinStorage.position
  Null

ASSUME StoreAssumption ==
  /\ Servers \in Nat \ {0} /\ MaxClient \in Nat /\ Tries \in Nat
  /\ Width \in Nat /\ 2^Width \in Nat /\ Servers < 2^Width
  /\ Null \notin Int \cup Worker

Server == 0 .. Servers - 1

VARIABLES
  policy,    \* SendPolicy
  position,  \* of the RoundRobinStorage, modulo 2^Width
  step,      \* where the thread of a worker stands
  tries, server, client,  \* locals of its store() and sendData()
  failed,    \* history: tries of the batch that have failed
  opened, leaseSet, freeList,  \* of the pool of a server
  waiting,   \* threads in its condition, the longest waiting first
  expired,   \* workers whose deadline has passed
  lock       \* who holds the pool's lock while it connects

storage == <<policy, position>>
batch == <<tries, server, failed>>
pool == <<opened, leaseSet, freeList>>
vars == <<storage, step, batch, client, pool, waiting, expired, lock>>

Init ==
  /\ policy \in {"Random", "RoundRobin"}
  /\ position = 0
  /\ step = [w \in Worker |-> "idle"]
  /\ tries = [w \in Worker |-> 0] /\ server = [w \in Worker |-> 0]
  /\ client = [w \in Worker |-> Null]
  /\ failed = [w \in Worker |-> 0]
  /\ opened = [s \in Server |-> 0] /\ leaseSet = [s \in Server |-> {}]
  /\ freeList = [s \in Server |-> <<>>] /\ waiting = [s \in Server |-> <<>>]
  /\ expired = {} /\ lock = [s \in Server |-> Null]

Goto(w, place) == step' = [step EXCEPT ![w] = place]

-----------------------------------------------------------------------------
(* RandomStorage.store and RoundRobinStorage.store.                        *)

\* A SendAgent has polled a batch.
Take(w) ==
  /\ step[w] = "idle"
  /\ Goto(w, "choose")
  /\ UNCHANGED <<storage, batch, client, pool, waiting, expired, lock>>

\* store() returns or throws, and its locals are gone.
Leave(w) ==
  /\ Goto(w, "idle")
  /\ tries' = [tries EXCEPT ![w] = 0] /\ failed' = [failed EXCEPT ![w] = 0]
  /\ server' = [server EXCEPT ![w] = 0]

Bit(n, b) == (n \div 2^b) % 2

\* i is the bitwise & of p and n.
Masked(p, n, i) == \A b \in 0 .. Width - 1 : Bit(i, b) = Bit(p, b) * Bit(n, b)

Decremented == (position - 1) % 2^Width

\* The index is masked with the number of servers, so it may equal it.
Index(i) ==
  \/ policy = "Random" /\ i \in 0 .. Servers - 1 /\ UNCHANGED position
  \/ /\ policy = "RoundRobin" /\ i \in 0 .. Servers /\ Masked(Decremented, Servers, i)
     /\ position' = Decremented

\* List.get is outside of the try block: a wrong index ends store().
Choose(w) ==
  /\ step[w] = "choose" /\ tries[w] < Tries
  /\ \E i \in 0 .. Servers :
       /\ Index(i)
       /\ IF i = Servers
          THEN Leave(w)
          ELSE /\ server' = [server EXCEPT ![w] = i]
               /\ tries' = [tries EXCEPT ![w] = @ + 1]
               /\ Goto(w, "lease")
               /\ UNCHANGED failed
  /\ UNCHANGED <<policy, client, pool, waiting, expired, lock>>

\* Mutant: ++i in the place of i++ in the condition of the loop.
AbandonEarly(w) ==
  /\ step[w] = "choose" /\ tries[w] >= Tries - 1
  /\ Leave(w)
  /\ UNCHANGED <<storage, client, pool, waiting, expired, lock>>

\* The last try has failed: the batch is gone.
Abandon(w) ==
  /\ step[w] = "choose" /\ tries[w] = Tries
  /\ Leave(w)
  /\ UNCHANGED <<storage, client, pool, waiting, expired, lock>>

\* sendData has thrown an exception, and store() goes round again.
TryFails(w) ==
  /\ Goto(w, "choose")
  /\ failed' = [failed EXCEPT ![w] = @ + 1]
  /\ UNCHANGED <<tries, server>>

-----------------------------------------------------------------------------
(* InfluxdbPool.lease.                                                     *)

Count(s) == Len(freeList[s]) + Cardinality(leaseSet[s])

\* Mutant: the comparison that the name of maxClient suggests.
MayCreateStrictly(s) == Count(s) < MaxClient

\* Mutant: only the free clients are counted.
MayCreateFree(s) == Len(freeList[s]) <= MaxClient

MayCreate(s) == Count(s) <= MaxClient

\* The body of the loop, with the lock held: a free client, a new one,
\* or the condition.
Loop(w, s) ==
  \/ /\ freeList[s] # <<>>
     /\ client' = [client EXCEPT ![w] = Head(freeList[s])]
     /\ freeList' = [freeList EXCEPT ![s] = Tail(@)]
     /\ leaseSet' = [leaseSet EXCEPT ![s] = @ \cup {Head(freeList[s])}]
     /\ Goto(w, "use")
     /\ UNCHANGED <<opened, waiting, lock>>
  \/ /\ freeList[s] = <<>> /\ MayCreate(s)
     /\ lock' = [lock EXCEPT ![s] = w]
     /\ Goto(w, "connect")
     /\ UNCHANGED <<client, pool, waiting>>
  \/ /\ freeList[s] = <<>> /\ ~MayCreate(s)
     /\ waiting' = [waiting EXCEPT ![s] = Append(@, w)]
     /\ Goto(w, "wait")
     /\ UNCHANGED <<client, pool, lock>>

\* The deadline is taken once the lock is held.
Lease(w) ==
  /\ step[w] = "lease" /\ lock[server[w]] = Null
  /\ Loop(w, server[w])
  /\ UNCHANGED <<storage, batch, expired>>

\* Mutant: a client is opened and not noted.
ConnectUnnoted(w) ==
  /\ step[w] = "connect"
  /\ lock' = [lock EXCEPT ![server[w]] = Null]
  /\ opened' = [opened EXCEPT ![server[w]] = @ + 1]
  /\ client' = [client EXCEPT ![w] = opened'[server[w]]]
  /\ Goto(w, "use")
  /\ UNCHANGED <<storage, batch, leaseSet, freeList, waiting, expired>>

\* createToLease: the server answers the ping.
Connect(w) ==
  /\ step[w] = "connect"
  /\ lock' = [lock EXCEPT ![server[w]] = Null]
  /\ opened' = [opened EXCEPT ![server[w]] = @ + 1]
  /\ client' = [client EXCEPT ![w] = opened'[server[w]]]
  /\ leaseSet' = [leaseSet EXCEPT ![server[w]] = @ \cup {opened'[server[w]]}]
  /\ Goto(w, "use")
  /\ UNCHANGED <<storage, batch, freeList, waiting, expired>>

\* It does not: null is leased, for good, and sendData fails on it.
ConnectFails(w) ==
  /\ step[w] = "connect"
  /\ lock' = [lock EXCEPT ![server[w]] = Null]
  /\ leaseSet' = [leaseSet EXCEPT ![server[w]] = @ \cup {Null}]
  /\ TryFails(w)
  /\ UNCHANGED <<storage, client, opened, freeList, waiting, expired>>

Signalled(w) == \A i \in DOMAIN waiting[server[w]] : waiting[server[w]][i] # w

Deadline(w) ==
  /\ step[w] = "wait" /\ w \notin expired
  /\ expired' = expired \cup {w}
  /\ UNCHANGED <<storage, step, batch, client, pool, waiting, lock>>

Without(q, w) ==
  IF \A i \in DOMAIN q : q[i] # w THEN q
  ELSE LET i == CHOOSE j \in DOMAIN q : q[j] = w
       IN SubSeq(q, 1, i - 1) \o SubSeq(q, i + 1, Len(q))

\* awaitUntil returns.  The deadline counts, not whether there is a client.
WakeUp(w) ==
  /\ step[w] = "wait" /\ lock[server[w]] = Null
  /\ Signalled(w) /\ w \notin expired
  /\ Loop(w, server[w])
  /\ UNCHANGED <<storage, batch, expired>>

TimeOut(w) ==
  /\ step[w] = "wait" /\ lock[server[w]] = Null
  /\ w \in expired
  /\ waiting' = [waiting EXCEPT ![server[w]] = Without(@, w)]
  /\ expired' = expired \ {w}
  /\ TryFails(w)
  /\ UNCHANGED <<storage, client, pool, lock>>

-----------------------------------------------------------------------------
(* AbstractStorage.sendData and InfluxdbPool.release.                      *)

\* release() of the client, which signals to one that waits.
Return(w, s) ==
  /\ lock[s] = Null
  /\ leaseSet' = [leaseSet EXCEPT ![s] = @ \ {client[w]}]
  /\ freeList' = [freeList EXCEPT ![s] = Append(@, client[w])]
  /\ client' = [client EXCEPT ![w] = Null]
  /\ waiting' = [waiting EXCEPT ![s] = IF @ = <<>> THEN @ ELSE Tail(@)]
  /\ UNCHANGED <<storage, opened, expired, lock>>

\* createDatabase and write have succeeded, or one of them has thrown.
Stored(w) ==
  /\ step[w] = "use" /\ Return(w, server[w])
  /\ Leave(w)

\* Mutant: a client whose use has failed does not come back.
ThrownAway(w) ==
  /\ step[w] = "use" /\ TryFails(w)
  /\ client' = [client EXCEPT ![w] = Null]
  /\ UNCHANGED <<storage, pool, waiting, expired, lock>>

Thrown(w) ==
  /\ step[w] = "use" /\ Return(w, server[w])
  /\ TryFails(w)

-----------------------------------------------------------------------------
WorkerStep(w) ==
  \/ Choose(w) \/ Abandon(w) \/ Lease(w) \/ Connect(w) \/ ConnectFails(w)
  \/ WakeUp(w) \/ TimeOut(w) \/ Stored(w) \/ Thrown(w)

Next == \E w \in Worker : Take(w) \/ WorkerStep(w) \/ Deadline(w)

Spec == Init /\ [][Next]_vars

\* Clocks run, calls of a server end by their timeouts, and the lock lets a
\* thread in that asks for it again and again.
FairSpec ==
  /\ Spec
  /\ \A w \in Worker : SF_vars(WorkerStep(w)) /\ WF_vars(Deadline(w))

-----------------------------------------------------------------------------
(* Properties.                                                             *)

Place == {"idle", "choose", "lease", "connect", "wait", "use"}

Users(s) == {w \in Worker : step[w] = "use" /\ server[w] = s}

FreeSet(s) == {freeList[s][i] : i \in DOMAIN freeList[s]}

StoreTypes ==
  /\ policy \in {"Random", "RoundRobin"}
  /\ position \in 0 .. 2^Width - 1
  /\ step \in [Worker -> Place] /\ tries \in [Worker -> 0 .. Tries]
  /\ server \in [Worker -> Server] /\ client \in [Worker -> Nat \cup {Null}]
  /\ failed \in [Worker -> 0 .. Tries]
  /\ opened \in [Server -> Nat] /\ leaseSet \in [Server -> SUBSET (Nat \cup {Null})]
  /\ freeList \in [Server -> Seq(Nat)] /\ waiting \in [Server -> Seq(Worker)]
  /\ expired \in SUBSET Worker /\ lock \in [Server -> Worker \cup {Null}]

\* What the pool of s knows of its clients is what there is.
Accounted(s) ==
  /\ leaseSet[s] \ {Null} = {client[w] : w \in Users(s)}
  /\ FreeSet(s) \cap leaseSet[s] = {}
  /\ FreeSet(s) \cup (leaseSet[s] \ {Null}) = 1 .. opened[s]
  /\ \A i, j \in DOMAIN freeList[s] : freeList[s][i] = freeList[s][j] => i = j
  /\ \A v, w \in Users(s) : client[v] = client[w] => v = w

(* Every variable has its type, and every client that a pool ever opened   *)
(* is in its free list, once, or leased to one thread that is inside       *)
(* sendData: whatever fails, no client is forgotten and none is lent twice.*)
NothingForgotten == StoreTypes /\ \A s \in Server : Accounted(s)

(* A thread waits in lease() without a signal only while its pool has      *)
(* opened as many clients as it may: that null, which a server that did    *)
(* not answer leaves in leaseSet for good, never takes the place of the    *)
(* last client, is owed to the <= of lease().                              *)
WaitsForClients ==
  \A w \in Worker :
    step[w] = "wait" /\ ~Signalled(w) => opened[server[w]] >= MaxClient

(* A batch that is given up has failed Tries times, or round robin has     *)
(* computed an index behind the list of the servers.                       *)
LossExplained ==
  [][\A w \in Worker :
       step[w] = "choose" /\ step'[w] = "idle" =>
         \/ failed[w] = Tries
         \/ policy = "RoundRobin" /\ Masked(position', Servers, Servers)]_vars

\* The pool of server 0, which stands for any of them, as the abstract one.
Pool ==
  INSTANCE LeasePool WITH
    User <- Worker, Bound <- MaxClient + 1, NoClient <- Null,
    asking <- {w \in Worker : step[w] \in {"lease", "connect", "wait"} /\ server[w] = 0},
    held <- [w \in Worker |-> IF w \in Users(0) THEN client[w] ELSE Null],
    free <- FreeSet(0)

(* An InfluxdbPool implements LeasePool: its lock, its condition, its      *)
(* deadlines and the null it may lend never show, its bound is one more    *)
(* than maxClient, and lease() ends.                                       *)
PoolImplements == Pool!Spec
=============================================================================

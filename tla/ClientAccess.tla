---------------------------- MODULE ClientAccess ----------------------------
(***************************************************************************)
(* What a command of one client needs besides its slot: the throttle of    *)
(* ClusterInfoCacheManager.checkLimit and the connections that             *)
(* JedisClientPoolManager leases (JedisClientCommand).                     *)
(*                                                                         *)
(* The limit is kept three times, and nobody keeps the copies equal but    *)
(* the order of events: in the client's ZooKeeper node, which the          *)
(* administrator edits and every acknowledgement of a slot overwrites, in  *)
(* the event that the custom listener has in hand, and in atomicCustom,    *)
(* which that listener and the slot listener both set.                     *)
(*                                                                         *)
(* Abstracted: what a command does to the keys (module MigrationData); a   *)
(* slot is whatever record a command may find, also two slots that move in *)
(* opposite directions, as one left in MIGRATE by an earlier task does.    *)
(* Whether a limited command sleeps is drawn by lot.                       *)
(***************************************************************************)
EXTENDS Integers, FiniteSets

CONSTANTS
  Thread,    \* threads of the application
  Gid,       \* Redis groups, with one pool each
  MaxTotal,  \* connections of a pool
  Null

ASSUME AccessAssumption ==
  /\ IsFiniteSet(Thread) /\ MaxTotal \in Nat \ {0}
  /\ Null \notin Gid /\ Null \notin {"registered", "acked", "limited"}

VARIABLES
  groupMap,  \* the groups that init() has found
  step, src, to,  \* the command of a thread; to is Null if nothing moves
  leased,    \* connections each pool has given out
  lost,      \* history: those that nobody will give back
  custom,    \* the client's node: "registered", "acked", "limited" or Null
  changed,   \* the listener's watch on it has fired
  event,     \* the content that the custom listener has in hand, or Null
  ack,       \* the slot listener in updateCustom(custom, true)
  answer,    \* what it will put in atomicCustom
  atomicCustom,
  apart      \* history: an edit came between an acknowledgement's write to
             \* ZooKeeper and to atomicCustom, or the first one was lost

commandVars == <<step, src, to>>
poolVars == <<groupMap, leased, lost>>
customVars == <<custom, changed, event, ack, answer, atomicCustom, apart>>
vars == <<commandVars, poolVars, customVars>>

Custom == {"registered", "acked", "limited"}

\* Only an edit sets a limit above zero: registerCustom sets -1, and the new
\* Custom of an acknowledgement has 0.
Limited(c) == c = "limited"

Init ==
  /\ groupMap \in SUBSET Gid
  /\ step = [t \in Thread |-> "idle"]
  /\ src = [t \in Thread |-> Null] /\ to = [t \in Thread |-> Null]
  /\ leased = [g \in Gid |-> 0] /\ lost = [g \in Gid |-> 0]
  /\ custom = "registered" /\ changed = FALSE
  /\ event = Null /\ ack = "none" /\ answer = Null
  /\ atomicCustom = Null /\ apart = FALSE

-----------------------------------------------------------------------------
(* A command.                                                              *)

Ends(t) ==
  /\ step' = [step EXCEPT ![t] = "idle"]
  /\ src' = [src EXCEPT ![t] = Null] /\ to' = [to EXCEPT ![t] = Null]

\* Every group of the slot must be known; one that was added after init()
\* is not, and the command fails.
LookUp(t) ==
  \/ \E g \in groupMap :
       /\ src' = [src EXCEPT ![t] = g]
       /\ \/ to' = to /\ step' = [step EXCEPT ![t] = "lease"]
          \/ \E h \in groupMap \ {g} :
               /\ to' = [to EXCEPT ![t] = h]
               /\ step' = [step EXCEPT ![t] = "moveLease"]
  \/ Ends(t)

Run(t) ==
  /\ step[t] = "idle"
  /\ LookUp(t)
  /\ UNCHANGED <<poolVars, customVars>>

Sleep(t) ==
  /\ step[t] = "idle" /\ Limited(atomicCustom)
  /\ step' = [step EXCEPT ![t] = "sleep"]
  /\ UNCHANGED <<src, to, poolVars, customVars>>

Wake(t) ==
  /\ step[t] = "sleep"
  /\ LookUp(t)
  /\ UNCHANGED <<poolVars, customVars>>

\* The group whose connection a command waits for or has.
Target(t) == IF step[t] \in {"moveLease", "move"} \/ to[t] = Null
             THEN src[t] ELSE to[t]

Waiting(t) == step[t] \in {"moveLease", "lease"}

\* lease(): getResource blocks while the pool is exhausted.
Lease(t) ==
  /\ Waiting(t) /\ leased[Target(t)] < MaxTotal
  /\ leased' = [leased EXCEPT ![Target(t)] = @ + 1]
  /\ step' = [step EXCEPT ![t] = IF @ = "lease" THEN "execute" ELSE "move"]
  /\ UNCHANGED <<src, to, groupMap, lost, customVars>>

\* The server cannot be reached.  In migrate() the handler fails in its turn,
\* on the connection that it has not got.
LeaseFails(t) ==
  /\ Waiting(t) /\ leased[Target(t)] < MaxTotal
  /\ Ends(t)
  /\ UNCHANGED <<poolVars, customVars>>

Release(g) == leased' = [leased EXCEPT ![g] = @ - 1]

\* Mutant: migrate() keeps its connection until the command has its own.
MoveKeeps(t) ==
  /\ step[t] = "move"
  /\ leased[to[t]] < MaxTotal
  /\ leased' = [leased EXCEPT ![src[t]] = @ - 1, ![to[t]] = @ + 1]
  /\ step' = [step EXCEPT ![t] = "execute"]
  /\ UNCHANGED <<src, to, groupMap, lost, customVars>>

\* migrate() gives its connection back, sound or broken, whatever happened,
\* before the command leases one of the destination.
Move(t) ==
  /\ step[t] = "move"
  /\ Release(src[t])
  /\ step' = [step EXCEPT ![t] = "lease"]
  /\ UNCHANGED <<src, to, groupMap, lost, customVars>>

\* Mutant: the connection of a command that moved its key first goes back to
\* the pool of the source.
ExecuteReleasesSource(t) ==
  /\ step[t] = "execute"
  /\ Release(src[t]) /\ Ends(t)
  /\ UNCHANGED <<groupMap, lost, customVars>>

Execute(t) ==
  /\ step[t] = "execute"
  /\ Release(Target(t)) /\ Ends(t)
  /\ UNCHANGED <<groupMap, lost, customVars>>

\* Jedis throws neither of the exceptions that are caught: nobody gives the
\* connection back, and nothing is tried again.
ExecuteFails(t) ==
  /\ step[t] = "execute"
  /\ lost' = [lost EXCEPT ![Target(t)] = @ + 1]
  /\ Ends(t)
  /\ UNCHANGED <<groupMap, leased, customVars>>

-----------------------------------------------------------------------------
(* The limit.                                                              *)

\* updateCustom of CustomController: a limit, or -1.
AdminEdit ==
  /\ custom # Null
  /\ custom' \in {"limited", "registered"} /\ changed' = TRUE
  /\ apart' = (ack = "set")
  /\ UNCHANGED <<commandVars, poolVars, event, ack, answer, atomicCustom>>

\* The session expires, and the node is gone for good.
Expire ==
  /\ custom' = Null /\ changed' = FALSE /\ apart' = FALSE
  /\ UNCHANGED <<commandVars, poolVars, event, ack, answer, atomicCustom>>

\* A slot event asks for an acknowledgement ...
SlotEvent ==
  /\ ack = "none" /\ ack' = "write"
  /\ UNCHANGED <<commandVars, poolVars, custom, changed, event, answer,
                 atomicCustom, apart>>

\* ... which is written if the node is there, and else answers null ...
AckWrite ==
  /\ ack = "write" /\ ack' = "set"
  /\ IF custom = Null
     THEN answer' = Null /\ UNCHANGED <<custom, changed>>
     ELSE answer' = "acked" /\ custom' = "acked" /\ changed' = TRUE
  /\ apart' = FALSE
  /\ UNCHANGED <<commandVars, poolVars, event, atomicCustom>>

\* ... unless the connection is lost: nothing was read, or nothing written.
AckLost ==
  /\ ack = "write" /\ ack' = "set"
  /\ answer' \in {Null, "acked"}
  /\ apart' = TRUE
  /\ UNCHANGED <<commandVars, poolVars, custom, changed, event, atomicCustom>>

\* ... and put into atomicCustom.
AckSet ==
  /\ ack = "set" /\ ack' = "none"
  /\ atomicCustom' = answer /\ answer' = Null
  /\ UNCHANGED <<commandVars, poolVars, custom, changed, event, apart>>

\* The TreeCache reads the node again; several writes are one event.
Fetch ==
  /\ changed /\ event = Null
  /\ changed' = FALSE /\ event' = custom
  /\ UNCHANGED <<commandVars, poolVars, custom, ack, answer, atomicCustom,
                 apart>>

\* Mutant: the custom listener leaves atomicCustom alone.
ApplyNothing ==
  /\ event # Null /\ event' = Null
  /\ UNCHANGED <<commandVars, poolVars, custom, changed, ack, answer,
                 atomicCustom, apart>>

\* CustomStatusListener.
Apply ==
  /\ event # Null /\ event' = Null
  /\ atomicCustom' = event
  /\ UNCHANGED <<commandVars, poolVars, custom, changed, ack, answer, apart>>

-----------------------------------------------------------------------------
CommandStep(t) ==
  \/ Run(t) \/ Sleep(t) \/ Wake(t) \/ Lease(t) \/ LeaseFails(t)
  \/ Move(t) \/ Execute(t) \/ ExecuteFails(t)

CustomStep ==
  \/ AdminEdit \/ Expire \/ SlotEvent \/ AckWrite \/ AckLost \/ AckSet \/ Fetch \/ Apply

Next == CustomStep \/ \E t \in Thread : CommandStep(t)

Spec == Init /\ [][Next]_vars

\* A thread that has a connection goes on: Jedis has a socket timeout.
FairSpec ==
  Spec /\ \A t \in Thread : WF_vars(Move(t)) /\ WF_vars(Execute(t) \/ ExecuteFails(t))

-----------------------------------------------------------------------------
(* Properties.                                                             *)

(* Every variable holds a value of its type; no pool gives out more        *)
(* connections than it has.                                                *)
AccessTypeOK ==
  /\ groupMap \subseteq Gid
  /\ step \in [Thread -> {"idle", "sleep", "moveLease", "move", "lease", "execute"}]
  /\ src \in [Thread -> Gid \cup {Null}] /\ to \in [Thread -> Gid \cup {Null}]
  /\ leased \in [Gid -> 0 .. MaxTotal] /\ lost \in [Gid -> 0 .. MaxTotal]
  /\ custom \in Custom \cup {Null} /\ event \in Custom \cup {Null}
  /\ answer \in Custom \cup {Null} /\ atomicCustom \in Custom \cup {Null}
  /\ ack \in {"none", "write", "set"}
  /\ changed \in BOOLEAN /\ apart \in BOOLEAN

\* The threads that have a connection of g.
Holders(g) == {t \in Thread : step[t] \in {"move", "execute"} /\ Target(t) = g}

(* A connection that is out is in the hands of a command, or a failed      *)
(* command has left it there: the move of a key, whose errors are caught,  *)
(* and a lease that fails lose none, and all come back to their own pool.  *)
LeasesAccounted ==
  \A g \in Gid : leased[g] = Cardinality(Holders(g)) + lost[g]

(* An exhausted pool has a connection again, unless failed commands have   *)
(* lost all of them: commands that move keys in opposite directions, and   *)
(* need two pools each, never wait for each other.                         *)
PoolRecovers ==
  \A g \in Gid :
    (leased[g] = MaxTotal) ~> (leased[g] < MaxTotal \/ lost[g] = MaxTotal)

(* When no event and no acknowledgement is on its way, commands are        *)
(* limited exactly if the client's node says so, whatever order the two    *)
(* listeners and the administrator have come in; only an edit in the       *)
(* middle of an acknowledgement, or one whose connection was lost, leaves  *)
(* the client with another limit, until the node is next written.          *)
LimitFollowsNode ==
  custom # Null /\ ~changed /\ event = Null /\ ack = "none" /\ ~apart =>
    (Limited(atomicCustom) <=> Limited(custom))
=============================================================================

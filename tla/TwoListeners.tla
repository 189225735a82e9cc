---------------------------- MODULE TwoListeners ----------------------------
(***************************************************************************)
(* The clients of a JedisxFactory, whose getJedisxClient calls init() once *)
(* more than the constructor of JedisDirectClient does: a second TreeCache *)
(* on the slots with a SlotStatusListener and a thread of its own, and the *)
(* slots read once more.  Both listeners put into the same slotMap and     *)
(* acknowledge by the same node.                                           *)
(*                                                                         *)
(* The first listener, the reads of init() and the task are those of       *)
(* SlotMigration.  The second registration of the CustomStatusListener     *)
(* changes nothing of them.                                                *)
(***************************************************************************)
EXTENDS SlotMigration

VARIABLES
  inits,               \* calls of ClusterInfoCacheManager.init() begun
  watch2, queued2, acking2  \* of the second listener, as watch, queued, acking

secondVars == <<inits, watch2, queued2, acking2>>
twiceVars == <<vars, secondVars>>

\* Clients that are up are settled with both of their listeners.
TwiceInit ==
  /\ Init
  /\ inits = [c \in Client |-> IF c \in clients THEN 2 ELSE 1]
  /\ watch2 = [c \in Client |-> [s \in SlotId |-> IF c \in clients THEN "clean" ELSE "none"]]
  /\ queued2 = [c \in Client |-> Null] /\ acking2 = [c \in Client |-> FALSE]

\* The task has written the slot in its hands, unless the call was lost.
TaskWrites == pc \in {"set", "setMigrate"} /\ pc' \in {"await", "setRecord"}

\* The second TreeCache has a watch of its own on each node.
Notified(s) ==
  watch2' = [c \in Client |->
               [watch2[c] EXCEPT ![s] = IF @ = "clean" THEN "dirty" ELSE @]]

OnceStep ==
  /\ Next
  /\ \/ TaskWrites /\ Notified(cur)
     \/ (~TaskWrites \/ CallLost) /\ UNCHANGED watch2
  /\ UNCHANGED <<inits, queued2, acking2>>

\* The factory has the client: init() again, which reads every slot again.
InitAgain(c) ==
  /\ c \in Running /\ inits[c] = 1
  /\ \A s \in SlotId : loadStep[c][s] = "done"
  /\ inits' = [inits EXCEPT ![c] = 2]
  /\ loadStep' = [loadStep EXCEPT ![c] = [s \in SlotId |-> "unread"]]
  /\ UNCHANGED <<life, loaded, watch, queued, acking, slotMap, historyVars,
                 outsideClients, watch2, queued2, acking2>>

\* NODE_ADDED, ignored.
WatchSlot2(c, s) ==
  /\ c \in Running /\ inits[c] = 2 /\ watch2[c][s] = "none"
  /\ watch2' = [watch2 EXCEPT ![c][s] = "clean"]
  /\ UNCHANGED <<vars, inits, queued2, acking2>>

Fetch2(c, s) ==
  /\ c \in Running /\ watch2[c][s] = "dirty" /\ queued2[c] = Null
  /\ watch2' = [watch2 EXCEPT ![c][s] = "clean"]
  /\ queued2' = [queued2 EXCEPT ![c] = [id |-> s, slot |-> zkSlot[s]]]
  /\ UNCHANGED <<vars, inits, acking2>>

Apply2(c) ==
  /\ c \in Running /\ queued2[c] # Null /\ ~acking2[c]
  /\ slotMap' = [slotMap EXCEPT ![c][queued2[c].id] = queued2[c].slot]
  /\ acking2' = [acking2 EXCEPT ![c] = queued2[c].slot.status # "MIGRATE"]
  /\ queued2' = [queued2 EXCEPT ![c] = Null]
  /\ UNCHANGED <<life, loadStep, loaded, watch, queued, acking, historyVars,
                 outsideClients, inits, watch2>>

Ack2(c) ==
  /\ c \in Running /\ acking2[c]
  /\ acking2' = [acking2 EXCEPT ![c] = FALSE]
  /\ IF c \in clients THEN UpdateClientNode(c) ELSE UNCHANGED upd
  /\ UNCHANGED <<zkVars, taskVars, adminWatch, gone, clientVars, historyVars,
                 inits, watch2, queued2>>

SecondStep(c) ==
  \/ InitAgain(c) \/ Apply2(c) \/ Ack2(c)
  \/ \E s \in SlotId : WatchSlot2(c, s) \/ Fetch2(c, s)

TwiceNext == OnceStep \/ \E c \in Client : SecondStep(c)

TwiceSpec == TwiceInit /\ [][TwiceNext]_twiceVars

\* The second thread is scheduled as the first one is.
TwiceFairness ==
  /\ Fairness
  /\ \A c \in Client :
       /\ WF_twiceVars(InitAgain(c)) /\ WF_twiceVars(Apply2(c) \/ Ack2(c))
       /\ WF_twiceVars(\E s \in SlotId : WatchSlot2(c, s))
       /\ \A s \in SlotId : SF_twiceVars(Fetch2(c, s))

TwiceFairSpec == TwiceSpec /\ TwiceFairness
=============================================================================

-------------------------- MODULE ClientAccessProofs --------------------------
(***************************************************************************)
(* Theorems about ClientAccess, for any number of threads and groups and   *)
(* any size of the pools.                                                  *)
(***************************************************************************)
EXTENDS ClientAccess, FiniteSetTheorems, TLAPS

\* A command that waits for a connection, or has one, has its groups.
RouteOK ==
  \A t \in Thread :
    /\ Waiting(t) \/ step[t] \in {"move", "execute"} => src[t] \in Gid
    /\ step[t] \in {"moveLease", "move"} => to[t] \in Gid

\* The types that do not depend on how many connections are out.
Types ==
  /\ groupMap \subseteq Gid
  /\ step \in [Thread -> {"idle", "sleep", "moveLease", "move", "lease", "execute"}]
  /\ src \in [Thread -> Gid \cup {Null}] /\ to \in [Thread -> Gid \cup {Null}]
  /\ custom \in Custom \cup {Null} /\ event \in Custom \cup {Null}
  /\ answer \in Custom \cup {Null} /\ atomicCustom \in Custom \cup {Null}
  /\ ack \in {"none", "write", "set"}
  /\ changed \in BOOLEAN /\ apart \in BOOLEAN

PoolTypes ==
  /\ leased \in [Gid -> 0 .. MaxTotal] /\ lost \in [Gid -> 0 .. MaxTotal]

LEMMA TypesInit == Init => Types /\ RouteOK
  BY DEF Init, Types, RouteOK, Waiting, Custom

LEMMA TypesNext == Types /\ RouteOK /\ [Next]_vars => Types' /\ RouteOK'
<1> SUFFICES ASSUME Types, RouteOK, [Next]_vars PROVE Types' /\ RouteOK'
  OBVIOUS
<1> USE DEF vars, commandVars, poolVars, customVars
<1>1. ASSUME NEW t \in Thread, LookUp(t), UNCHANGED <<poolVars, customVars>>
      PROVE  Types' /\ RouteOK'
  <2>1. Types'
    BY <1>1 DEF LookUp, Ends, Types
  <2>2. RouteOK'
    BY <1>1, AccessAssumption DEF LookUp, Ends, Types, RouteOK, Waiting
  <2> QED BY <2>1, <2>2
<1>2. ASSUME NEW t \in Thread, Ends(t), UNCHANGED <<groupMap, customVars>>
      PROVE  Types' /\ RouteOK'
  BY <1>2 DEF Ends, Types, RouteOK, Waiting
<1>3. ASSUME NEW t \in Thread, Sleep(t) \/ Lease(t) \/ Move(t)
      PROVE  Types' /\ RouteOK'
  BY <1>3 DEF Sleep, Lease, Move, Types, RouteOK, Waiting
<1>4. ASSUME CustomStep
      PROVE  Types' /\ RouteOK'
  <2>1. UNCHANGED <<commandVars, poolVars>>
    BY <1>4 DEF CustomStep, AdminEdit, Expire, SlotEvent, AckWrite, AckLost,
                AckSet, Fetch, Apply
  <2>2. /\ custom' \in Custom \cup {Null} /\ event' \in Custom \cup {Null}
        /\ answer' \in Custom \cup {Null}
        /\ atomicCustom' \in Custom \cup {Null}
        /\ ack' \in {"none", "write", "set"}
        /\ changed' \in BOOLEAN /\ apart' \in BOOLEAN
    <3> USE DEF Types, Custom
    <3>1. CASE AdminEdit
      BY <3>1 DEF AdminEdit
    <3>2. CASE Expire
      BY <3>2 DEF Expire
    <3>3. CASE SlotEvent
      BY <3>3 DEF SlotEvent
    <3>4. CASE AckWrite
      BY <3>4 DEF AckWrite
    <3>5. CASE AckSet
      BY <3>5 DEF AckSet
    <3>6. CASE Fetch
      BY <3>6 DEF Fetch
    <3>7. CASE Apply
      BY <3>7 DEF Apply
    <3>8. CASE AckLost
      BY <3>8 DEF AckLost
    <3> QED BY <1>4, <3>1, <3>2, <3>3, <3>4, <3>5, <3>6, <3>7, <3>8 DEF CustomStep
  <2>3. Types'
    BY <2>1, <2>2 DEF Types
  <2>4. RouteOK'
    BY <2>1 DEF RouteOK, Waiting
  <2> QED BY <2>3, <2>4
<1>5. CASE UNCHANGED vars
  BY <1>5 DEF Types, RouteOK, Waiting
<1> QED
  BY <1>1, <1>2, <1>3, <1>4, <1>5
  DEF Next, CommandStep, Run, Wake, LeaseFails, Execute, ExecuteFails

-----------------------------------------------------------------------------
(* The connections.                                                        *)

\* Whoever leaves the holders of a group, or joins them, changes their
\* number by one.
LEMMA Counting ==
  ASSUME NEW g \in Gid
  PROVE  /\ IsFiniteSet(Holders(g)) /\ Cardinality(Holders(g)) \in Nat
         /\ \A t \in Thread :
              /\ t \in Holders(g) =>
                   Cardinality(Holders(g) \ {t}) = Cardinality(Holders(g)) - 1
              /\ t \notin Holders(g) =>
                   Cardinality(Holders(g) \cup {t}) = Cardinality(Holders(g)) + 1
<1>1. IsFiniteSet(Holders(g))
  BY FS_Subset, AccessAssumption DEF Holders
<1> QED BY <1>1, FS_CardinalityType, FS_AddElement, FS_RemoveElement

LEMMA PoolsInit == Init => LeasesAccounted /\ PoolTypes
<1> SUFFICES ASSUME Init PROVE LeasesAccounted /\ PoolTypes
  OBVIOUS
<1>1. \A g \in Gid : Holders(g) = {}
  BY DEF Init, Holders
<1> QED BY <1>1, FS_EmptySet, AccessAssumption DEF Init, LeasesAccounted, PoolTypes

LEMMA PoolsNext ==
  Types /\ RouteOK /\ LeasesAccounted /\ PoolTypes /\ [Next]_vars
    => LeasesAccounted' /\ PoolTypes'
<1> SUFFICES ASSUME Types, RouteOK, LeasesAccounted, PoolTypes, [Next]_vars
             PROVE  LeasesAccounted' /\ PoolTypes'
  OBVIOUS
<1> USE DEF vars, commandVars, poolVars, customVars
<1>1. ASSUME UNCHANGED <<leased, lost>>, \A g \in Gid : Holders(g)' = Holders(g)
      PROVE  LeasesAccounted' /\ PoolTypes'
  BY <1>1 DEF LeasesAccounted, PoolTypes
<1>2. ASSUME NEW t \in Thread, LookUp(t) \/ Sleep(t) \/ LeaseFails(t),
             step[t] \in {"idle", "sleep", "moveLease", "lease"},
             UNCHANGED <<leased, lost>>
      PROVE  LeasesAccounted' /\ PoolTypes'
  <2>1. \A g \in Gid : Holders(g)' = Holders(g)
    BY <1>2 DEF LookUp, Sleep, LeaseFails, Ends, Types, Holders, Target
  <2> QED BY <1>1, <1>2, <2>1
<1>3. ASSUME NEW t \in Thread, Lease(t)
      PROVE  LeasesAccounted' /\ PoolTypes'
  <2>1. Target(t) \in Gid
    BY <1>3 DEF Lease, Waiting, Target, RouteOK, Types
  <2> PICK n \in Gid : n = Target(t)
    BY <2>1
  <2>2. Holders(n)' = Holders(n) \cup {t} /\ t \notin Holders(n)
    BY <1>3 DEF Lease, Waiting, Holders, Target, Types
  <2>3. \A g \in Gid \ {n} : Holders(g)' = Holders(g)
    BY <1>3 DEF Lease, Waiting, Holders, Target, Types
  <2>4. /\ leased' = [leased EXCEPT ![n] = @ + 1] /\ leased[n] < MaxTotal
        /\ lost' = lost
    BY <1>3 DEF Lease
  <2>5. Cardinality(Holders(n)') = Cardinality(Holders(n)) + 1
    BY <2>1, <2>2, Counting
  <2>6. LeasesAccounted'
    BY <2>1, <2>3, <2>4, <2>5, Counting DEF LeasesAccounted, PoolTypes
  <2>7. PoolTypes'
    BY <2>1, <2>4, AccessAssumption DEF PoolTypes
  <2> QED BY <2>6, <2>7
<1>4. ASSUME NEW t \in Thread, Move(t) \/ Execute(t)
      PROVE  LeasesAccounted' /\ PoolTypes'
  <2>1. Target(t) \in Gid
    BY <1>4 DEF Move, Execute, Target, RouteOK, Waiting, Types
  <2> PICK n \in Gid : n = Target(t)
    BY <2>1
  <2>2. Holders(n)' = Holders(n) \ {t} /\ t \in Holders(n)
    BY <1>4 DEF Move, Execute, Ends, Holders, Target, Types
  <2>3. \A g \in Gid \ {n} : Holders(g)' = Holders(g)
    BY <1>4 DEF Move, Execute, Ends, Holders, Target, Types
  <2>4. leased' = [leased EXCEPT ![n] = @ - 1] /\ lost' = lost
    BY <1>4 DEF Move, Execute, Release, Target
  <2>5. /\ Cardinality(Holders(n)') = Cardinality(Holders(n)) - 1
        /\ Cardinality(Holders(n)') \in Nat
    BY <2>1, <2>2, Counting, FS_CardinalityType, FS_RemoveElement
  <2>6. leased[n] = Cardinality(Holders(n)) + lost[n]
    BY <2>1 DEF LeasesAccounted
  <2>7. LeasesAccounted'
    BY <2>1, <2>3, <2>4, <2>5, <2>6, Counting DEF LeasesAccounted, PoolTypes
  <2>8. PoolTypes'
    BY <2>1, <2>4, <2>5, <2>6, Counting, AccessAssumption DEF PoolTypes
  <2> QED BY <2>7, <2>8
<1>5. ASSUME NEW t \in Thread, ExecuteFails(t)
      PROVE  LeasesAccounted' /\ PoolTypes'
  <2>1. Target(t) \in Gid
    BY <1>5 DEF ExecuteFails, Target, RouteOK, Waiting, Types
  <2> PICK n \in Gid : n = Target(t)
    BY <2>1
  <2>2. Holders(n)' = Holders(n) \ {t} /\ t \in Holders(n)
    BY <1>5 DEF ExecuteFails, Ends, Holders, Target, Types
  <2>3. \A g \in Gid \ {n} : Holders(g)' = Holders(g)
    BY <1>5 DEF ExecuteFails, Ends, Holders, Target, Types
  <2>4. lost' = [lost EXCEPT ![n] = @ + 1] /\ leased' = leased
    BY <1>5 DEF ExecuteFails
  <2>5. /\ Cardinality(Holders(n)') = Cardinality(Holders(n)) - 1
        /\ Cardinality(Holders(n)') \in Nat
    BY <2>1, <2>2, Counting, FS_CardinalityType, FS_RemoveElement
  <2>6. leased[n] = Cardinality(Holders(n)) + lost[n]
    BY <2>1 DEF LeasesAccounted
  <2>7. LeasesAccounted'
    BY <2>1, <2>3, <2>4, <2>5, <2>6, Counting DEF LeasesAccounted, PoolTypes
  <2>8. PoolTypes'
    BY <2>1, <2>4, <2>5, <2>6, Counting, AccessAssumption DEF PoolTypes
  <2> QED BY <2>7, <2>8
<1>6. CASE CustomStep \/ UNCHANGED vars
  <2>1. UNCHANGED <<leased, lost>> /\ \A g \in Gid : Holders(g)' = Holders(g)
    BY <1>6 DEF CustomStep, AdminEdit, Expire, SlotEvent, AckWrite, AckLost,
                AckSet, Fetch, Apply, Holders, Target
  <2> QED BY <1>1, <2>1
<1>7. ASSUME NEW t \in Thread, Run(t) \/ Wake(t) \/ Sleep(t) \/ LeaseFails(t)
      PROVE  LeasesAccounted' /\ PoolTypes'
  BY <1>2, <1>7 DEF Run, Wake, Sleep, LeaseFails, Waiting
<1> QED BY <1>3, <1>4, <1>5, <1>6, <1>7 DEF Next, CommandStep

(* The inductive invariant of the commands.                                *)
AccessInv == Types /\ RouteOK /\ LeasesAccounted /\ PoolTypes

LEMMA AccessInvariant == Spec => []AccessInv
<1>1. Init => AccessInv
  BY TypesInit, PoolsInit DEF AccessInv
<1>2. AccessInv /\ [Next]_vars => AccessInv'
  BY TypesNext, PoolsNext DEF AccessInv
<1> QED BY <1>1, <1>2, PTL DEF Spec

(* Every variable keeps its type, and no pool gives out more connections   *)
(* than it has or takes back more than it gave.                            *)
THEOREM AccessTypeCorrect == Spec => []AccessTypeOK
<1>1. AccessInv => AccessTypeOK
  BY DEF AccessInv, Types, PoolTypes, AccessTypeOK
<1> QED BY <1>1, AccessInvariant, PTL

(* A connection that is out is held by a command or was lost by one.       *)
THEOREM LeasesCorrect == Spec => []LeasesAccounted
<1>1. AccessInv => LeasesAccounted
  BY DEF AccessInv
<1> QED BY <1>1, AccessInvariant, PTL

-----------------------------------------------------------------------------
(* The limit.                                                              *)

(* What the copies of the limit have to do with each other: an event that  *)
(* is not outdated holds what the node holds; an acknowledgement on its    *)
(* way to atomicCustom is what the node holds, or the copies are apart;    *)
(* and if neither is there, atomicCustom limits as the node does.          *)
LimitInv ==
  /\ custom # Null /\ ~changed /\ event # Null => event = custom
  /\ custom # Null /\ ~apart /\ ack = "set" =>
       answer = "acked" /\ custom = "acked"
  /\ custom # Null /\ ~changed /\ event = Null /\ ~apart /\ ack # "set" =>
       (Limited(atomicCustom) <=> Limited(custom))

LEMMA LimitInvNext == Types /\ LimitInv /\ [Next]_vars => LimitInv'
<1> SUFFICES ASSUME Types, LimitInv, [Next]_vars PROVE LimitInv'
  OBVIOUS
<1> USE DEF vars, commandVars, poolVars, customVars, LimitInv
<1>1. CASE AdminEdit
  BY <1>1 DEF AdminEdit
<1>2. CASE Expire
  BY <1>2 DEF Expire
<1>3. CASE SlotEvent
  BY <1>3 DEF SlotEvent
<1>4. CASE AckWrite
  BY <1>4 DEF AckWrite
<1>5. CASE AckLost
  BY <1>5 DEF AckLost
<1>6. CASE AckSet
  BY <1>6 DEF AckSet, Limited
<1>7. CASE Fetch
  BY <1>7, AccessAssumption DEF Fetch, Types, Custom
<1>8. CASE Apply
  BY <1>8 DEF Apply
<1>9. ASSUME UNCHANGED customVars PROVE LimitInv'
  BY <1>9
<1>10. ASSUME NEW t \in Thread, CommandStep(t) PROVE UNCHANGED customVars
  BY <1>10 DEF CommandStep, Run, Sleep, Wake, Lease, LeaseFails, Move, Execute,
               ExecuteFails
<1> QED
  BY <1>1, <1>2, <1>3, <1>4, <1>5, <1>6, <1>7, <1>8, <1>9, <1>10
  DEF Next, CustomStep

(* The three copies of a client's limit agree whenever nothing is on its   *)
(* way between them and no write has come between the two of an            *)
(* acknowledgement.                                                        *)
THEOREM LimitCorrect == Spec => []LimitFollowsNode
<1>1. Init => LimitInv
  BY AccessAssumption DEF Init, LimitInv, Limited
<1>2. AccessInv /\ LimitInv /\ [Next]_vars => LimitInv'
  BY LimitInvNext DEF AccessInv
<1>3. LimitInv => LimitFollowsNode
  BY DEF LimitInv, LimitFollowsNode
<1> QED BY <1>1, <1>2, <1>3, AccessInvariant, PTL DEF Spec
=============================================================================

----------------------------- MODULE LeasePool -----------------------------
(***************************************************************************)
(* What a pool of clients promises its users, whatever locks, lists and    *)
(* deadlines it is made of (the interface Pool of padis-common): a client  *)
(* is lent to one user at a time, there are never more than Bound of them, *)
(* none is forgotten, and a request is answered in the end, if only by a   *)
(* refusal.                                                                *)
(***************************************************************************)
EXTENDS Integers, FiniteSets

CONSTANTS
  User,
  Bound,    \* a natural number
  NoClient  \* no integer

VARIABLES
  asking,  \* users that wait for an answer
  held,    \* the client a user has, or NoClient
  free     \* clients that nobody has

vars == <<asking, held, free>>

Client == 1 .. Bound

Open == free \cup ({held[u] : u \in User} \ {NoClient})

Init == asking = {} /\ held = [u \in User |-> NoClient] /\ free = {}

Ask(u) ==
  /\ u \notin asking /\ held[u] = NoClient
  /\ asking' = asking \cup {u}
  /\ UNCHANGED <<held, free>>

\* A free client, or a new one.
Grant(u) ==
  /\ u \in asking
  /\ \E c \in free \cup (Client \ Open) :
       /\ held' = [held EXCEPT ![u] = c]
       /\ free' = free \ {c}
  /\ asking' = asking \ {u}

Refuse(u) ==
  /\ u \in asking
  /\ asking' = asking \ {u}
  /\ UNCHANGED <<held, free>>

GiveBack(u) ==
  /\ held[u] # NoClient
  /\ held' = [held EXCEPT ![u] = NoClient]
  /\ free' = free \cup {held[u]}
  /\ UNCHANGED asking

Next == \E u \in User : Ask(u) \/ Grant(u) \/ Refuse(u) \/ GiveBack(u)

Spec ==
  /\ Init /\ [][Next]_vars
  /\ \A u \in User : WF_vars(Grant(u) \/ Refuse(u))
=============================================================================

------------------------------ MODULE Console ------------------------------
(***************************************************************************)
(* A tab of the web console on the server: the table of the groups, which  *)
(* app.js opens first, then the page that distributes slots.  A route      *)
(* destroys the scope of the page before it, watchers and all.             *)
(***************************************************************************)
EXTENDS SlotDistribution

CONSTANTS Lists, Queries, Matches, PerPage, FirstPerPage, MaxDisplayed, TTL, Unset, MaxLoads

ASSUME TableAssumption ==
  /\ "" \in Queries
  /\ Lists \subseteq Seq(Matches[""]) /\ \A l \in Lists : IsInjective(l)
  /\ PerPage \subseteq Nat \ {0} /\ FirstPerPage \in PerPage
  /\ TTL \in Nat /\ TTL > 1 /\ MaxLoads \in Nat \ {0}

VARIABLES
  route,  \* the page that is open
  dataList, load, table, watchers, cursor, dirty, lastDirty, ttl

T == INSTANCE GroupTable

groupVars == <<dataList, load, table, watchers, cursor, dirty, lastDirty, ttl>>
consoleVars == <<distVars, route, groupVars>>

ConsoleInit == Init /\ T!Init /\ route = "/group"

\* Bounds: a tab leaves the groups after MaxLoads answers and does not come
\* back to them.
Go ==
  /\ route = "/group" /\ cursor = 0 /\ load = MaxLoads
  /\ route' = "/distSlot"
  /\ dataList' = <<>> /\ load' = 0 /\ table' = T!NewTable(<<>>) /\ watchers' = <<>>
  /\ ttl' = TTL
  /\ UNCHANGED <<distVars, cursor, dirty, lastDirty>>

GroupPage == route = "/group" /\ T!Next /\ UNCHANGED <<distVars, route>>

DistSlotPage == route = "/distSlot" /\ PageStep /\ UNCHANGED <<route, groupVars>>

\* Bound: only then, as the table of the groups shares no state with it.
Server == route = "/distSlot" /\ BackendStep /\ UNCHANGED <<route, groupVars>>

ConsoleNext == Go \/ GroupPage \/ DistSlotPage \/ Server

ConsoleSpec == ConsoleInit /\ [][ConsoleNext]_consoleVars /\ Fairness

(* The table of the groups is consistent after every digest; see           *)
(* PageConsistent of module GroupTable.                                    *)
TableConsistent == T!PageConsistent
=============================================================================

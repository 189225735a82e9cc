----------------------------- MODULE GroupTable -----------------------------
(***************************************************************************)
(* The page of GroupListCtrl: the table of BaseTableService over the list  *)
(* of the groups, and the digest of Angular that keeps it together.  The   *)
(* numbers that the page shows are set by six watchers, each of which may  *)
(* make another one dirty.  They stay registered when a refresh replaces   *)
(* the table, so that after two answers there are two sets of them, which  *)
(* all work on the last table.                                             *)
(*                                                                         *)
(* Left out: sorting, which the page has no header for (its watcher runs   *)
(* once, without effect), and the watchers of the HTML, which change       *)
(* nothing but may add a round.  What the user filters by is one of        *)
(* Queries; the list is what the server answers, one of Lists.             *)
(***************************************************************************)
EXTENDS Integers, Sequences, FiniteSets, SequencesExt, FiniteSetsExt

CONSTANTS
  Lists,       \* the lists of groups that the server may answer
  Queries,     \* what the user may filter by, "" among them
  Matches,     \* the groups that match a query
  PerPage,     \* recordPerPageOptions
  FirstPerPage,
  MaxDisplayed,\* maxPageNumDisplayed (5)
  TTL,         \* of a digest (10)
  Unset,       \* initWatchVal
  MaxLoads     \* bound: answers to refreshData

VARIABLES
  dataList,    \* $scope.dataList: objects [load, group]
  load,        \* answers to refreshData so far
  table,       \* $scope.table
  watchers,    \* of the scope, in the order of their registration
  cursor,      \* the watcher that the digest looks at, 0 between digests
  dirty, lastDirty, ttl  \* locals of $digest

digestVars == <<cursor, dirty, lastDirty, ttl>>
tableVars == <<dataList, load, table, watchers, digestVars>>

Watched == <<"currentPage", "selectedRecordPerPage", "total", "query", "dataList">>

Pages(n, per) == (n + per - 1) \div per

NewTable(list) ==
  [displayed |-> list, total |-> Len(list), query |-> "",
   page |-> 1, per |-> FirstPerPage, pages |-> Pages(Len(list), FirstPerPage),
   start |-> 1, end |-> Min({FirstPerPage, Len(list)})]

Init ==
  /\ dataList = <<>> /\ load = 0
  /\ table = NewTable(<<>>) /\ watchers = <<>>
  /\ cursor = 0 /\ dirty = FALSE /\ lastDirty = 0 /\ ttl = TTL

-----------------------------------------------------------------------------
(* The table.                                                              *)

UpdateIndexes(t) ==
  LET start == (t.page - 1) * t.per + 1
  IN [t EXCEPT !.start = start, !.end = Min({start + t.per - 1, t.total})]

UpdatePageNumber(t) == [t EXCEPT !.pages = Pages(t.total, t.per)]

\* filterFilter, which pushes the objects that match.
Filtered(list, query) ==
  LET filtered[i \in 0 .. Len(list)] ==
        IF i = 0 THEN <<>>
        ELSE IF list[i].group \in Matches[query] THEN Append(filtered[i - 1], list[i])
        ELSE filtered[i - 1]
  IN filtered[Len(list)]

Show(t, list) == [t EXCEPT !.displayed = list, !.total = Len(list)]

\* Mutant: the page stays.
QueryKeepsPage(t) == Show(t, Filtered(dataList, t.query))

\* The listeners of the watchers.
QueryListener(t) == [Show(t, Filtered(dataList, t.query)) EXCEPT !.page = 1]

PerPageListener(t) == UpdatePageNumber(UpdateIndexes([t EXCEPT !.page = 1]))

TotalListener(t) ==
  IF t.total = 0 THEN [t EXCEPT !.start = 0, !.end = 0]
  ELSE UpdatePageNumber(UpdateIndexes(t))

DataListListener(t) == Show(t, Filtered(dataList, t.query))

Listener(what, t) ==
  CASE what = "currentPage" -> UpdateIndexes(t)
    [] what = "selectedRecordPerPage" -> PerPageListener(t)
    [] what = "total" -> TotalListener(t)
    [] what = "query" -> QueryListener(t)
    [] what = "dataList" -> DataListListener(t)

\* getCurrentPageNumDisplay: two pages either side of the current one.  The
\* loops that fill it up stop half way, as the array grows under them.
Displayed(t) ==
  LET first == Max({t.page - 2, 1})
      final == Min({t.pages, t.page + 2})
      missing == Min({MaxDisplayed, t.pages}) - (final - first + 1)
      added == IF missing > 0 THEN missing \div 2 + 1 ELSE 0
  IN IF t.total = 0 THEN {}
     ELSE IF first = 1 THEN first .. final + added
     ELSE first - added .. final

-----------------------------------------------------------------------------
(* $rootScope.$digest.                                                     *)

Get(what) ==
  CASE what = "currentPage" -> table.page
    [] what = "selectedRecordPerPage" -> table.per
    [] what = "total" -> table.total
    [] what = "query" -> table.query
    [] what = "dataList" -> dataList

Begin == cursor' = 1 /\ dirty' = FALSE /\ lastDirty' = 0 /\ ttl' = TTL

End == cursor' = 0 /\ dirty' = FALSE /\ lastDirty' = 0 /\ UNCHANGED ttl

\* A watcher is dirty: it notes the value and runs its listener.
Fire ==
  /\ cursor # 0 /\ cursor <= Len(watchers)
  /\ LET what == watchers[cursor].what
     IN /\ Get(what) # watchers[cursor].last
        /\ watchers' = [watchers EXCEPT ![cursor].last = Get(what)]
        /\ table' = Listener(what, table)
  /\ dirty' = TRUE /\ lastDirty' = cursor /\ cursor' = cursor + 1
  /\ UNCHANGED <<dataList, load, ttl>>

\* It is clean; when it was the last dirty one, all are.
Pass ==
  /\ cursor # 0 /\ cursor <= Len(watchers)
  /\ Get(watchers[cursor].what) = watchers[cursor].last
  /\ IF cursor = lastDirty THEN End
     ELSE cursor' = cursor + 1 /\ UNCHANGED <<dirty, lastDirty, ttl>>
  /\ UNCHANGED <<dataList, load, table, watchers>>

\* Behind the last watcher: another round, or the end, at TTL by an exception.
Round ==
  /\ cursor = Len(watchers) + 1
  /\ IF dirty /\ ttl > 0
     THEN cursor' = 1 /\ dirty' = FALSE /\ ttl' = ttl - 1 /\ UNCHANGED lastDirty
     ELSE End
  /\ UNCHANGED <<dataList, load, table, watchers>>

DigestStep == Fire \/ Pass \/ Round

-----------------------------------------------------------------------------
(* What happens between digests; $apply starts one.                        *)

\* refreshData: an answer arrives, with objects of its own.
Refresh ==
  /\ cursor = 0 /\ load < MaxLoads
  /\ load' = load + 1
  /\ \E l \in Lists :
       dataList' = [i \in DOMAIN l |-> [load |-> load', group |-> l[i]]]
  /\ table' = NewTable(dataList')
  /\ watchers' = watchers \o [i \in DOMAIN Watched |-> [what |-> Watched[i], last |-> Unset]]
  /\ Begin

\* The user sets a field of the table.
Set(t) ==
  /\ cursor = 0 /\ load > 0
  /\ table' = t
  /\ Begin
  /\ UNCHANGED <<dataList, load, watchers>>

ChangePage == \E n \in Displayed(table) : Set([table EXCEPT !.page = n])
PreviousPage == table.page > 1 /\ Set([table EXCEPT !.page = @ - 1])
NextPage == table.page < table.pages /\ Set([table EXCEPT !.page = @ + 1])
GotoFirstPage == Set([table EXCEPT !.page = 1])
GotoLastPage == Set([table EXCEPT !.page = table.pages])
SelectPerPage == \E n \in PerPage : Set([table EXCEPT !.per = n])
Filter == \E q \in Queries : Set([table EXCEPT !.query = q])

UserStep ==
  \/ ChangePage \/ PreviousPage \/ NextPage \/ GotoFirstPage \/ GotoLastPage
  \/ SelectPerPage \/ Filter

Next == DigestStep \/ Refresh \/ UserStep

Spec == Init /\ [][Next]_tableVars

-----------------------------------------------------------------------------
(* Properties.                                                             *)

\* The rows of the page: displayedDataList.slice(startIndex - 1, endIndex).
Rows == IF table.start < 1 THEN <<>> ELSE SubSeq(table.displayed, table.start, table.end)

(* A digest settles within three rounds, far from the limit at which       *)
(* Angular throws, also with the watchers of earlier tables.  It leaves no *)
(* watcher dirty, and then the rows are those of the current page of the   *)
(* groups that match the filter, the label counts them, and when there are *)
(* any, the current page exists and is among the up to MaxDisplayed        *)
(* neighbours that are offered, whatever the user has done before.         *)
PageConsistent ==
  /\ ttl > TTL - 3
  /\ cursor = 0 /\ load > 0 =>
       LET found == Filtered(dataList, table.query)
           pages == Pages(Len(found), table.per)
       IN /\ \A i \in DOMAIN watchers : watchers[i].last = Get(watchers[i].what)
          /\ table.total = Len(found)
          /\ found = <<>> => Rows = <<>>
          /\ found # <<>> =>
               /\ table.pages = pages /\ table.page \in 1 .. pages
               /\ table.start = (table.page - 1) * table.per + 1
               /\ table.end = Min({table.page * table.per, Len(found)})
               /\ Rows = SubSeq(found, table.start, table.end)
               /\ table.page \in Displayed(table) /\ Displayed(table) \subseteq 1 .. pages
               /\ Cardinality(Displayed(table)) = Min({MaxDisplayed, pages})
=============================================================================

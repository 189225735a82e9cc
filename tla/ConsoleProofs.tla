---------------------------- MODULE ConsoleProofs ----------------------------
(***************************************************************************)
(* Theorems about Console: the table of the groups, for any lists, queries *)
(* and sizes of a page and any number of answers, and the distribution.    *)
(***************************************************************************)
EXTENDS Console, SlotDistributionProofs

-----------------------------------------------------------------------------
(* What the filter finds.  As with FlattenSeq, the least prefix for which a*)
(* claim would fail.                                                       *)

Objects == [load : Nat, group : Matches[""]]

Filters(f, list, query, n) ==
  f = [i \in 0 .. n |->
         IF i = 0 THEN <<>>
         ELSE IF list[i].group \in Matches[query] THEN Append(f[i - 1], list[i])
         ELSE f[i - 1]]

LEMMA FilteredIs ==
  ASSUME NEW list, NEW query
  PROVE  T!Filtered(list, query) = (CHOOSE f : Filters(f, list, query, Len(list)))[Len(list)]
BY DEF T!Filtered, Filters

LEMMA FiltersExist ==
  ASSUME NEW list, NEW query, NEW n \in Nat
  PROVE  \E f : Filters(f, list, query, n)
<1> DEFINE Bad == {m \in Nat : ~\E f : Filters(f, list, query, m)}
<1> SUFFICES ASSUME Bad # {} PROVE FALSE
  OBVIOUS
<1>1. PICK m \in Bad : \A y \in Bad : m <= y
  BY LeastOf
<1>2. CASE m = 0
  <2> DEFINE e == [i \in 0 .. 0 |-> <<>>]
  <2>1. Filters(e, list, query, 0)
    BY DEF Filters
  <2> QED BY <1>1, <1>2, <2>1
<1>3. CASE m # 0
  <2>1. PICK f : Filters(f, list, query, m - 1)
    BY <1>1, <1>3
  <2> DEFINE final == IF list[m].group \in Matches[query] THEN Append(f[m - 1], list[m])
                     ELSE f[m - 1]
             g == [i \in 0 .. m |-> IF i = m THEN final ELSE f[i]]
  <2>2. ASSUME NEW i \in 0 .. m
        PROVE  g[i] = IF i = 0 THEN <<>>
                      ELSE IF list[i].group \in Matches[query] THEN Append(g[i - 1], list[i])
                      ELSE g[i - 1]
    <3>1. CASE i = m
      <4>1. g[i] = final /\ g[i - 1] = f[m - 1]
        <5> HIDE DEF final
        <5> QED BY <1>3, <3>1
      <4> QED BY <1>3, <3>1, <4>1
    <3>2. CASE i # m
      <4>1. i \in 0 .. m - 1 /\ (i # 0 => i - 1 \in 0 .. m - 1)
        BY <1>3, <3>2
      <4>2. f[i] = IF i = 0 THEN <<>>
                   ELSE IF list[i].group \in Matches[query] THEN Append(f[i - 1], list[i])
                   ELSE f[i - 1]
        BY <2>1, <4>1 DEF Filters
      <4>3. g[i] = f[i] /\ (i # 0 => g[i - 1] = f[i - 1])
        <5> HIDE DEF final
        <5> QED BY <3>2, <4>1
      <4> HIDE DEF g
      <4> QED BY <4>2, <4>3
    <3> QED BY <3>1, <3>2
  <2>3. Filters(g, list, query, m)
    <3>1. DOMAIN g = 0 .. m /\ g = [i \in DOMAIN g |-> g[i]]
      <4> HIDE DEF final
      <4> QED OBVIOUS
    <3> HIDE DEF g
    <3> QED BY <2>2, <3>1 DEF Filters
  <2> HIDE DEF g
  <2> QED BY <1>1, <2>3
<1> QED BY <1>2, <1>3

(* A list of objects, and all of them when each matches.                   *)
LEMMA FilteredType ==
  ASSUME NEW list \in Seq(Objects), NEW query
  PROVE  T!Filtered(list, query) \in Seq(Objects)
<1> DEFINE n == Len(list)
           f == CHOOSE h : Filters(h, list, query, Len(list))
           Bad == {m \in 0 .. n : f[m] \notin Seq(Objects)}
<1>1. n \in Nat /\ Filters(f, list, query, n) /\ T!Filtered(list, query) = f[n]
  <2>1. n \in Nat
    OBVIOUS
  <2> QED BY <2>1, FiltersExist, FilteredIs
<1>2. \A m \in 0 .. n : f[m] = IF m = 0 THEN <<>>
                               ELSE IF list[m].group \in Matches[query]
                                    THEN Append(f[m - 1], list[m]) ELSE f[m - 1]
  BY <1>1 DEF Filters
<1> HIDE DEF f
<1>3. Bad = {}
  <2> SUFFICES ASSUME Bad # {} PROVE FALSE
    OBVIOUS
  <2>1. PICK m \in Bad : \A y \in Bad : m <= y
    <3>1. Bad \subseteq Nat
      BY <1>1
    <3> HIDE DEF Bad
    <3> QED BY <3>1, LeastOf
  <2>2. m # 0
    <3>1. 0 \in 0 .. n
      BY <1>1
    <3>2. f[0] = <<>>
      <4> HIDE DEF n
      <4> QED BY <1>2, <3>1
    <3>3. f[m] \notin Seq(Objects)
      OBVIOUS
    <3>4. <<>> \in Seq(Objects)
      OBVIOUS
    <3> HIDE DEF Bad
    <3> QED BY <3>2, <3>3, <3>4
  <2>3. m - 1 \in 0 .. n /\ ~(m <= m - 1) /\ m \in 1 .. n
    BY <1>1, <2>2
  <2>4. f[m - 1] \in Seq(Objects)
    BY <2>1, <2>3
  <2>5. list[m] \in Objects
    BY <2>3, ElementOfSeq
  <2>6. Append(f[m - 1], list[m]) \in Seq(Objects)
    BY <2>4, <2>5
  <2>7. f[m] = Append(f[m - 1], list[m]) \/ f[m] = f[m - 1]
    <3>1. m \in 0 .. n
      BY <2>3, <1>1
    <3> HIDE DEF n
    <3> QED BY <1>2, <2>2, <3>1
  <2>8. f[m] \in Seq(Objects)
    BY <2>4, <2>6, <2>7
  <2> QED BY <2>8
<1>4. n \in 0 .. n
  BY <1>1
<1> QED BY <1>1, <1>3, <1>4

LEMMA FilteredAll ==
  ASSUME NEW list \in Seq(Objects)
  PROVE  T!Filtered(list, "") = list
<1> DEFINE n == Len(list)
           f == CHOOSE h : Filters(h, list, "", Len(list))
           Right(m) == /\ f[m] \in Seq(Objects) /\ Len(f[m]) = m
                       /\ \A i \in 1 .. m : f[m][i] = list[i]
           Bad == {m \in 0 .. n : ~Right(m)}
<1>0. n \in Nat
  OBVIOUS
<1>1. Filters(f, list, "", n) /\ T!Filtered(list, "") = f[n]
  BY <1>0, FiltersExist, FilteredIs
<1>2. \A m \in 0 .. n : f[m] = IF m = 0 THEN <<>>
                               ELSE IF list[m].group \in Matches[""]
                                    THEN Append(f[m - 1], list[m]) ELSE f[m - 1]
  BY <1>1 DEF Filters
<1> HIDE DEF f
<1>3. Bad = {}
  <2> SUFFICES ASSUME Bad # {} PROVE FALSE
    OBVIOUS
  <2>1. PICK m \in Bad : \A y \in Bad : m <= y
    <3>1. Bad \subseteq Nat
      <4> HIDE DEF Right
      <4> QED BY <1>0
    <3> HIDE DEF Bad
    <3> QED BY <3>1, LeastOf
  <2>2. CASE m = 0
    <3>1. f[0] = <<>>
      <4>1. 0 \in 0 .. n
        BY <1>0
      <4> HIDE DEF n
      <4> QED BY <1>2, <4>1
    <3>2. Right(0)
      BY <3>1
    <3> QED BY <2>2, <3>2
  <2>3. CASE m # 0
    <3>1. m \in 1 .. n /\ m - 1 \in 0 .. n /\ ~(m <= m - 1)
      <4> HIDE DEF Right
      <4> QED BY <1>0, <2>1, <2>3
    <3>2. Right(m - 1)
      <4>1. m - 1 \notin Bad
        <5> HIDE DEF Bad
        <5> QED BY <2>1, <3>1
      <4> QED BY <3>1, <4>1
    <3>3. list[m] \in Objects /\ list[m].group \in Matches[""]
      <4>1. list[m] \in Objects
        BY <3>1, ElementOfSeq
      <4> QED BY <4>1 DEF Objects
    <3>4. f[m] = Append(f[m - 1], list[m])
      BY <1>2, <2>3, <3>1, <3>3
    <3> DEFINE a == f[m - 1]
    <3>5. a \in Seq(Objects) /\ Len(a) = m - 1 /\ \A i \in 1 .. m - 1 : a[i] = list[i]
      BY <3>2
    <3> HIDE DEF a
    <3>6. /\ Append(a, list[m]) \in Seq(Objects) /\ Len(Append(a, list[m])) = m
          /\ \A i \in 1 .. m : Append(a, list[m])[i] = list[i]
      <4>1. m \in Nat /\ Len(a) + 1 = m
        BY <3>1, <3>5
      <4>2. /\ Append(a, list[m]) \in Seq(Objects) /\ Len(Append(a, list[m])) = Len(a) + 1
            /\ \A i \in 1 .. Len(a) + 1 :
                 Append(a, list[m])[i] = IF i <= Len(a) THEN a[i] ELSE list[m]
        <5> HIDE DEF Bad, Right
        <5>1. a \in Seq(Objects) /\ list[m] \in Objects
          BY <3>3, <3>5
        <5>2. Len(a) \in Nat
          BY <5>1, LenProperties
        <5> QED BY <5>1, <5>2, AppendProperties
      <4>3. ASSUME NEW i \in 1 .. m PROVE Append(a, list[m])[i] = list[i]
        <5>1. CASE i = m
          BY <3>5, <4>1, <4>2, <5>1
        <5>2. CASE i # m
          <6>1. i \in 1 .. m - 1 /\ i <= Len(a) /\ i \in 1 .. Len(a) + 1
            BY <3>5, <4>1, <5>2
          <6> QED BY <3>5, <4>2, <6>1
        <5> QED BY <5>1, <5>2
      <4> QED BY <4>1, <4>2, <4>3
    <3>7. Right(m)
      BY <3>4, <3>6 DEF a
    <3> QED BY <3>7
  <2> QED BY <2>2, <2>3
<1>4. Right(n)
  <2>1. n \in 0 .. n
    BY <1>0
  <2> HIDE DEF n, Right
  <2> QED BY <1>3, <2>1
<1>5. f[n] \in Seq(Objects) /\ Len(f[n]) = Len(list) /\ \A i \in 1 .. Len(list) : f[n][i] = list[i]
  BY <1>4
<1> QED BY <1>1, <1>5, SeqEqual

-----------------------------------------------------------------------------
(* Numbers of pages.                                                       *)

LEMMA MinOfTwo ==
  ASSUME NEW a \in Int, NEW b \in Int
  PROVE  T!Min({a, b}) = IF a <= b THEN a ELSE b
<1>1. ASSUME NEW m \in {a, b}, \A y \in {a, b} : m <= y
      PROVE  m = IF a <= b THEN a ELSE b
  BY <1>1
<1>2. \E m \in {a, b} : \A y \in {a, b} : m <= y
  OBVIOUS
<1>3. T!Min({a, b}) \in {a, b} /\ \A y \in {a, b} : T!Min({a, b}) <= y
  BY <1>2 DEF T!Min
<1> HIDE DEF T!Min
<1> QED BY <1>1, <1>3

LEMMA MaxOfTwo ==
  ASSUME NEW a \in Int, NEW b \in Int
  PROVE  T!Max({a, b}) = IF a <= b THEN b ELSE a
<1>1. ASSUME NEW m \in {a, b}, \A y \in {a, b} : m >= y
      PROVE  m = IF a <= b THEN b ELSE a
  BY <1>1
<1>2. \E m \in {a, b} : \A y \in {a, b} : m >= y
  OBVIOUS
<1>3. T!Max({a, b}) \in {a, b} /\ \A y \in {a, b} : T!Max({a, b}) >= y
  BY <1>2 DEF T!Max
<1> HIDE DEF T!Max
<1> QED BY <1>1, <1>3

LEMMA PagesAre ==
  ASSUME NEW n \in Nat, NEW per \in Nat \ {0}
  PROVE  T!Pages(n, per) \in Nat /\ (n > 0 => T!Pages(n, per) >= 1)
<1>1. ASSUME NEW a \in Nat
      PROVE  a \div per \in Nat /\ (a >= per => a \div per >= 1)
  BY <1>1, SMTT(30)
<1>2. n + per - 1 \in Nat /\ (n > 0 => n + per - 1 >= per)
  OBVIOUS
<1> QED BY <1>1, <1>2 DEF T!Pages

(* The pages that are offered, when there are any, are as many as fit, and *)
(* the current page is among them.                                         *)
LEMMA DisplayedAre ==
  ASSUME NEW t, MaxDisplayed = 5, t.total # 0, t.pages \in Nat, t.page \in 1 .. t.pages
  PROVE  /\ T!Displayed(t) \subseteq 1 .. t.pages /\ t.page \in T!Displayed(t)
         /\ Cardinality(T!Displayed(t)) = T!Min({MaxDisplayed, t.pages})
<1> DEFINE p == t.page
           n == t.pages
           first == IF p - 2 <= 1 THEN 1 ELSE p - 2
           final == IF n <= p + 2 THEN n ELSE p + 2
           most == IF 5 <= n THEN 5 ELSE n
           missing == most - (final - first + 1)
           added == IF missing > 0 THEN missing \div 2 + 1 ELSE 0
<1>1. p \in Int /\ n \in Int /\ p >= 1 /\ p <= n
  OBVIOUS
<1>2. T!Displayed(t) = IF first = 1 THEN first .. final + added ELSE first - added .. final
  <2>1. T!Max({p - 2, 1}) = first /\ T!Min({n, p + 2}) = final /\ T!Min({MaxDisplayed, n}) = most
    <3>1. T!Max({p - 2, 1}) = first
      BY <1>1, MaxOfTwo
    <3>2. T!Min({n, p + 2}) = final
      BY <1>1, MinOfTwo
    <3>3. T!Min({5, n}) = most
      BY <1>1, MinOfTwo
    <3> QED BY <3>1, <3>2, <3>3
  <2> HIDE DEF first, final, most
  <2> QED BY <2>1 DEF T!Displayed
<1>3. missing \in Int /\ (missing \in {0, 1, 2} \/ missing < 0)
  BY <1>1
<1>4. added = (IF missing = 1 THEN 1 ELSE IF missing = 2 THEN 2 ELSE 0)
  <2> HIDE DEF missing
  <2>1. 1 \div 2 = 0 /\ 2 \div 2 = 1
    OBVIOUS
  <2> QED BY <1>3, <2>1
<1>5. \E a, b \in Int :
        /\ T!Displayed(t) = a .. b /\ 1 <= a /\ a <= p /\ p <= b /\ b <= n
        /\ b - a + 1 = most
  <2>1. CASE first = 1
    <3>1. T!Displayed(t) = 1 .. final + added
      <4> HIDE DEF first, final, added
      <4> QED BY <1>2, <2>1
    <3>2. /\ final + added \in Int /\ p <= final + added /\ final + added <= n
          /\ final + added = most
      <4> HIDE DEF added
      <4> QED BY <1>1, <1>4, <2>1
    <3> HIDE DEF final, added, most
    <3> QED BY <1>1, <3>1, <3>2
  <2>2. CASE first # 1
    <3>1. T!Displayed(t) = first - added .. final
      <4> HIDE DEF first, final, added
      <4> QED BY <1>2, <2>2
    <3>2. /\ first - added \in Int /\ final \in Int
          /\ 1 <= first - added /\ first - added <= p /\ p <= final /\ final <= n
          /\ final - (first - added) + 1 = most
      <4> HIDE DEF added
      <4>1. first = p - 2 /\ p - 2 > 1
        BY <1>1, <2>2
      <4>2. CASE n > p + 2
        <5>1. final = p + 2 /\ most = 5 /\ missing = 0 /\ added = 0
          BY <1>1, <1>4, <4>1, <4>2
        <5> HIDE DEF first, final, most, missing
        <5> QED BY <1>1, <4>1, <4>2, <5>1
      <4>3. CASE n <= p + 2
        <5>1. final = n /\ missing = most - (n - p + 3)
          BY <1>1, <4>1, <4>3
        <5>2. /\ most \in Int /\ most <= n /\ most - (n - p + 3) \in {0, 1, 2}
              /\ (most = n \/ most = 5)
          BY <1>1, <4>1, <4>3
        <5>3. added = missing
          <6> HIDE DEF missing, most
          <6> QED BY <1>4, <5>1, <5>2
        <5> HIDE DEF first, final, most, missing
        <5> QED BY <1>1, <4>1, <4>3, <5>1, <5>2, <5>3
      <4> QED BY <1>1, <4>2, <4>3
    <3> HIDE DEF first, final, added, most
    <3> QED BY <3>1, <3>2
  <2> QED BY <2>1, <2>2
<1>6. PICK a \in Int, b \in Int :
        /\ T!Displayed(t) = a .. b /\ 1 <= a /\ a <= p /\ p <= b /\ b <= n
        /\ b - a + 1 = most
  BY <1>5
<1>7. Cardinality(a .. b) = b - a + 1
  <2> HIDE DEF most
  <2>1. ~(a > b)
    BY <1>1, <1>6
  <2> QED BY <2>1, FS_Interval
<1>8. T!Min({MaxDisplayed, n}) = most
  BY <1>1, MinOfTwo
<1> QED BY <1>1, <1>6, <1>7, <1>8

-----------------------------------------------------------------------------
(* The digest.                                                             *)

Kinds == {"currentPage", "selectedRecordPerPage", "total", "query", "dataList"}

\* What no listener changes.
Inputs == {"selectedRecordPerPage", "query", "dataList"}

Values == Nat \cup Queries \cup Seq(Objects) \cup {Unset}

Tables == [displayed : Seq(Objects), total : Nat, query : Queries, page : Nat,
           per : PerPage, pages : Nat, start : Int, end : Int]

Watchers == [what : Kinds, last : Values]

TableTypes ==
  /\ dataList \in Seq(Objects) /\ load \in Nat /\ table \in Tables
  /\ watchers \in Seq(Watchers)
  /\ cursor \in 0 .. Len(watchers) + 1 /\ dirty \in BOOLEAN
  /\ lastDirty \in 0 .. Len(watchers) /\ ttl \in {TTL, TTL - 1, TTL - 2}
  /\ load = 0 => cursor = 0
  /\ cursor = 0 => lastDirty = 0
  /\ load = 0 => watchers = <<>>
  /\ load > 0 => Len(watchers) >= 5 /\ \A i \in 1 .. 5 : watchers[i].what = T!Watched[i]

Clean(i) == watchers[i].last = T!Get(watchers[i].what)

AllClean == \A i \in 1 .. Len(watchers) : Clean(i)

\* Some watcher of one of these kinds is dirty.
Due(kinds) == \E i \in 1 .. Len(watchers) : watchers[i].what \in kinds /\ ~Clean(i)

\* The rows are those of the filter.
Fit ==
  /\ table.displayed = T!Filtered(dataList, table.query)
  /\ table.total = Len(table.displayed)

(* In its second round only watchers of the page and of the total are      *)
(* dirty, and what they do makes no watcher dirty, so that the third round *)
(* finds none.  Until a listener sets the page to the first one, or filters*)
(* the rows, the first watchers of the page and of the total are clean.    *)
Digest ==
  cursor # 0 =>
    /\ \A i \in 1 .. Len(watchers) :
         (i < cursor \/ ttl # TTL) /\ watchers[i].what \in Inputs => Clean(i)
    /\ ttl = TTL - 1 => \A i \in 1 .. Len(watchers) : i < cursor => Clean(i)
    /\ ttl = TTL - 2 => AllClean /\ ~dirty
    /\ lastDirty = 0 => /\ ~dirty /\ ttl = TTL
                        /\ \A i \in 1 .. Len(watchers) : i < cursor => Clean(i)
    /\ lastDirty # 0 /\ dirty =>
         /\ lastDirty < cursor
         /\ \A i \in 1 .. Len(watchers) : lastDirty <= i /\ i < cursor => Clean(i)
    /\ lastDirty # 0 /\ ~dirty =>
         /\ cursor <= lastDirty /\ ttl # TTL
         /\ \A i \in 1 .. Len(watchers) : lastDirty <= i => Clean(i)
    /\ cursor > 1 /\ table.page # 1 => Clean(1)
    /\ cursor > 3 /\ ~Fit => Clean(3)

Between == cursor = 0 /\ load > 0 => AllClean

-----------------------------------------------------------------------------
(* What is wrong in the table is the task of a watcher that is dirty.      *)

PagesRight == table.total = 0 \/ table.pages = T!Pages(table.total, table.per)

IndexesRight ==
  \/ /\ table.start = (table.page - 1) * table.per + 1
     /\ table.end = T!Min({table.start + table.per - 1, table.total})
  \/ table.total = 0 /\ table.start = 0 /\ table.end = 0

PageExists == table.total = 0 \/ table.page \in 1 .. T!Pages(table.total, table.per)

Tasks ==
  load > 0 =>
    /\ Fit \/ Due({"query"})
    /\ PagesRight \/ Due({"total", "selectedRecordPerPage"})
    /\ IndexesRight \/ Due({"currentPage", "total", "selectedRecordPerPage"})
    /\ PageExists \/ Due({"query", "selectedRecordPerPage"})

TableInv == TableTypes /\ Digest /\ Between /\ Tasks

-----------------------------------------------------------------------------
(* What the listeners do.                                                  *)

SameRows(t, u) == u.displayed = t.displayed /\ u.total = t.total /\ u.query = t.query

Indexed(u) == u.start = (u.page - 1) * u.per + 1 /\ u.end = T!Min({u.start + u.per - 1, u.total})

LEMMA IndexesAre ==
  ASSUME NEW t \in Tables
  PROVE  /\ T!UpdateIndexes(t) \in Tables /\ SameRows(t, T!UpdateIndexes(t))
         /\ T!UpdateIndexes(t).page = t.page /\ T!UpdateIndexes(t).per = t.per
         /\ T!UpdateIndexes(t).pages = t.pages /\ Indexed(T!UpdateIndexes(t))
<1> DEFINE start == (t.page - 1) * t.per + 1
           end == T!Min({start + t.per - 1, t.total})
           u == [t EXCEPT !.start = start, !.end = end]
<1>1. t.page \in Nat /\ t.per \in Nat /\ t.total \in Nat
  BY TableAssumption DEF Tables
<1>2. start \in Int
  BY <1>1
<1>3. end \in Int
  <2> HIDE DEF start
  <2>1. start + t.per - 1 \in Int /\ t.total \in Int
    BY <1>1, <1>2
  <2> QED BY <2>1, MinOfTwo
<1>4. T!UpdateIndexes(t) = u
  BY DEF T!UpdateIndexes
<1>5. /\ u \in Tables /\ SameRows(t, u) /\ u.page = t.page /\ u.per = t.per /\ u.pages = t.pages
      /\ u.start = start /\ u.end = end
  <2> HIDE DEF start, end
  <2> QED BY <1>2, <1>3 DEF Tables, SameRows
<1>6. Indexed(u)
  <2> HIDE DEF u
  <2> QED BY <1>5 DEF Indexed, SameRows
<1> HIDE DEF u
<1> QED BY <1>4, <1>5, <1>6

LEMMA PageNumberIs ==
  ASSUME NEW t \in Tables
  PROVE  /\ T!UpdatePageNumber(t) \in Tables /\ SameRows(t, T!UpdatePageNumber(t))
         /\ T!UpdatePageNumber(t).page = t.page /\ T!UpdatePageNumber(t).per = t.per
         /\ T!UpdatePageNumber(t).pages = T!Pages(t.total, t.per)
         /\ T!UpdatePageNumber(t).start = t.start /\ T!UpdatePageNumber(t).end = t.end
<1>1. T!Pages(t.total, t.per) \in Nat
  <2>1. t.total \in Nat /\ t.per \in Nat \ {0}
    BY TableAssumption DEF Tables
  <2> QED BY <2>1, PagesAre
<1> QED BY <1>1 DEF Tables, SameRows, T!UpdatePageNumber

LEMMA PageListener ==
  ASSUME NEW t \in Tables, NEW u, u = T!Listener("currentPage", t)
  PROVE  /\ u \in Tables /\ SameRows(t, u) /\ u.page = t.page /\ u.per = t.per
         /\ u.pages = t.pages /\ Indexed(u)
<1>1. u = T!UpdateIndexes(t)
  BY DEF T!Listener
<1> QED BY <1>1, IndexesAre

LEMMA PerListener ==
  ASSUME NEW t \in Tables, NEW u, u = T!Listener("selectedRecordPerPage", t)
  PROVE  /\ u \in Tables /\ SameRows(t, u) /\ u.page = 1 /\ u.per = t.per
         /\ u.pages = T!Pages(t.total, t.per) /\ Indexed(u)
<1> DEFINE a == [t EXCEPT !.page = 1]
           b == T!UpdateIndexes(a)
<1>1. u = T!UpdatePageNumber(b)
  BY DEF T!Listener, T!PerPageListener
<1>2. a \in Tables /\ SameRows(t, a) /\ a.page = 1 /\ a.per = t.per
  BY DEF Tables, SameRows
<1> HIDE DEF a
<1>3. b \in Tables /\ SameRows(a, b) /\ b.page = 1 /\ b.per = t.per /\ Indexed(b)
  BY <1>2, IndexesAre
<1> HIDE DEF b
<1>4. /\ u \in Tables /\ SameRows(b, u) /\ u.page = 1 /\ u.per = t.per
      /\ u.pages = T!Pages(b.total, b.per) /\ u.start = b.start /\ u.end = b.end
  BY <1>1, <1>3, PageNumberIs
<1> QED BY <1>2, <1>3, <1>4 DEF SameRows, Indexed

LEMMA TotalListener ==
  ASSUME NEW t \in Tables, NEW u, u = T!Listener("total", t)
  PROVE  /\ u \in Tables /\ SameRows(t, u) /\ u.page = t.page /\ u.per = t.per
         /\ t.total = 0 => u.start = 0 /\ u.end = 0
         /\ t.total # 0 => u.pages = T!Pages(t.total, t.per) /\ Indexed(u)
<1>1. u = T!TotalListener(t)
  BY DEF T!Listener
<1>2. CASE t.total = 0
  <2> DEFINE none == 0
  <2>1. none \in Int /\ u = [t EXCEPT !.start = none, !.end = none]
    BY <1>1, <1>2 DEF T!TotalListener
  <2>2. /\ u \in Tables /\ SameRows(t, u) /\ u.page = t.page /\ u.per = t.per
        /\ u.start = none /\ u.end = none
    <3> HIDE DEF none
    <3> QED BY <2>1 DEF Tables, SameRows
  <2> QED BY <1>2, <2>2
<1>3. CASE t.total # 0
  <2> DEFINE b == T!UpdateIndexes(t)
  <2>1. u = T!UpdatePageNumber(b)
    BY <1>1, <1>3 DEF T!TotalListener
  <2>2. b \in Tables /\ SameRows(t, b) /\ b.page = t.page /\ b.per = t.per /\ Indexed(b)
    BY IndexesAre
  <2> HIDE DEF b
  <2>3. /\ u \in Tables /\ SameRows(b, u) /\ u.page = b.page /\ u.per = b.per
        /\ u.pages = T!Pages(b.total, b.per) /\ u.start = b.start /\ u.end = b.end
    BY <2>1, <2>2, PageNumberIs
  <2> QED BY <1>3, <2>2, <2>3 DEF SameRows, Indexed
<1> QED BY <1>2, <1>3

LEMMA ShownIs ==
  ASSUME NEW t \in Tables, NEW list \in Seq(Objects), NEW u, u = T!Show(t, list)
  PROVE  /\ u \in Tables /\ u.displayed = list /\ u.total = Len(list) /\ u.query = t.query
         /\ u.page = t.page /\ u.per = t.per /\ u.pages = t.pages
         /\ u.start = t.start /\ u.end = t.end
<1>1. Len(list) \in Nat
  OBVIOUS
<1> HIDE DEF Objects
<1> QED BY <1>1 DEF T!Show, Tables

LEMMA QueryListener ==
  ASSUME NEW t \in Tables, NEW u, u = T!Listener("query", t), dataList \in Seq(Objects)
  PROVE  /\ u \in Tables /\ u.displayed = T!Filtered(dataList, t.query)
         /\ u.total = Len(u.displayed) /\ u.query = t.query /\ u.page = 1 /\ u.per = t.per
         /\ u.pages = t.pages /\ u.start = t.start /\ u.end = t.end
<1> DEFINE list == T!Filtered(dataList, t.query)
           a == T!Show(t, list)
<1>1. list \in Seq(Objects)
  BY FilteredType
<1>2. u = [a EXCEPT !.page = 1]
  BY DEF T!Listener, T!QueryListener
<1> HIDE DEF list
<1>3. /\ a \in Tables /\ a.displayed = list /\ a.total = Len(list) /\ a.query = t.query
      /\ a.per = t.per /\ a.pages = t.pages /\ a.start = t.start /\ a.end = t.end
  BY <1>1, ShownIs
<1> HIDE DEF a
<1> QED BY <1>2, <1>3 DEF Tables, list

LEMMA DataListListener ==
  ASSUME NEW t \in Tables, NEW u, u = T!Listener("dataList", t), dataList \in Seq(Objects)
  PROVE  /\ u \in Tables /\ u.displayed = T!Filtered(dataList, t.query)
         /\ u.total = Len(u.displayed) /\ u.query = t.query /\ u.page = t.page /\ u.per = t.per
         /\ u.pages = t.pages /\ u.start = t.start /\ u.end = t.end
<1>1. u = T!Show(t, T!Filtered(dataList, t.query))
  BY DEF T!Listener, T!DataListListener
<1> QED BY <1>1, FilteredType, ShownIs

-----------------------------------------------------------------------------
(* A watcher fires.                                                        *)

\* The kinds whose value it leaves alone.
Same(kind) ==
  \/ kind \in Inputs
  \/ kind = "currentPage" /\ table'.page = table.page
  \/ kind = "total" /\ table'.total = table.total

LEMMA FireDoes ==
  ASSUME TableTypes, T!Fire, NEW c, c = cursor
  PROVE  /\ c \in 1 .. Len(watchers) /\ ~Clean(c) /\ Clean(c)'
         /\ Len(watchers') = Len(watchers)
         /\ table' = T!Listener(watchers[c].what, table)
         /\ \A i \in 1 .. Len(watchers) : watchers'[i].what = watchers[i].what
         /\ \A i \in 1 .. Len(watchers) :
              i # c /\ Same(watchers[i].what) => (Clean(i)' <=> Clean(i))
         /\ \A i \in 1 .. Len(watchers) :
              i # c /\ Clean(i) /\ ~Same(watchers[i].what) => ~Clean(i)'
         /\ TableTypes'
<1> DEFINE n == Len(watchers)
           what == watchers[c].what
           v == T!Get(what)
<1>1. n \in Nat /\ c \in 1 .. n /\ watchers \in Seq(Watchers)
  BY DEF TableTypes, T!Fire
<1>2. /\ v # watchers[c].last
      /\ watchers' = [watchers EXCEPT ![c].last = v]
      /\ table' = T!Listener(what, table)
  BY DEF T!Fire
<1>3. \A i \in 1 .. n : watchers[i] \in Watchers
  BY <1>1, ElementOfSeq
<1>4. what \in Kinds /\ table \in Tables /\ dataList \in Seq(Objects)
  BY <1>1, <1>3 DEF Watchers, TableTypes
<1>5. v \in Values
  BY <1>4, TableAssumption DEF Kinds, T!Get, Values, Tables
<1>6. /\ watchers' \in Seq(Watchers) /\ Len(watchers') = n
      /\ \A i \in 1 .. n : i # c => watchers'[i] = watchers[i]
      /\ watchers'[c].what = what /\ watchers'[c].last = v
  <2> DEFINE w == [watchers[c] EXCEPT !.last = v]
  <2>1. w \in Watchers /\ w.what = what /\ w.last = v
    <3> HIDE DEF v
    <3> QED BY <1>1, <1>3, <1>5 DEF Watchers
  <2>2. watchers' = [watchers EXCEPT ![c] = w]
    BY <1>2
  <2> HIDE DEF w, v
  <2> QED BY <1>1, <2>1, <2>2
<1> HIDE DEF v
<1>7. dataList' = dataList
  BY DEF T!Fire
<1>8. table' \in Tables /\ table'.per = table.per /\ table'.query = table.query
  <2>1. CASE what = "currentPage"
    BY <1>2, <1>4, <2>1, PageListener DEF SameRows
  <2>2. CASE what = "selectedRecordPerPage"
    BY <1>2, <1>4, <2>2, PerListener DEF SameRows
  <2>3. CASE what = "total"
    BY <1>2, <1>4, <2>3, TotalListener DEF SameRows
  <2>4. CASE what = "query"
    BY <1>2, <1>4, <2>4, QueryListener
  <2>5. CASE what = "dataList"
    BY <1>2, <1>4, <2>5, DataListListener
  <2> HIDE DEF what
  <2> QED BY <1>4, <2>1, <2>2, <2>3, <2>4, <2>5 DEF Kinds
<1>9. \A k \in Kinds : (Same(k) => T!Get(k)' = T!Get(k)) /\ (~Same(k) => T!Get(k)' # T!Get(k))
  BY <1>7, <1>8 DEF Kinds, Inputs, Same, T!Get
<1>10. Clean(c)'
  <2>1. what = "total" => table'.total = table.total
    BY <1>2, <1>4, TotalListener DEF SameRows
  <2>2. what = "currentPage" => table'.page = table.page
    BY <1>2, <1>4, PageListener
  <2>3. Same(what)
    <3> HIDE DEF what
    <3> QED BY <1>4, <2>1, <2>2 DEF Same, Kinds, Inputs
  <2>4. PICK k \in Kinds : k = what
    BY <1>4
  <2>5. T!Get(k)' = v
    BY <1>9, <2>3, <2>4 DEF v
  <2>6. watchers'[c].what = k /\ watchers'[c].last = v
    BY <1>6, <2>4
  <2> QED BY <2>5, <2>6 DEF Clean
<1>11. \A i \in 1 .. n : watchers'[i].what = watchers[i].what
  BY <1>6
<1>12. ASSUME NEW i \in 1 .. n, i # c
       PROVE  /\ Same(watchers[i].what) => (Clean(i)' <=> Clean(i))
              /\ Clean(i) /\ ~Same(watchers[i].what) => ~Clean(i)'
  <2>1. watchers'[i] = watchers[i] /\ watchers[i].what \in Kinds
    BY <1>3, <1>6, <1>12 DEF Watchers
  <2> QED BY <1>9, <2>1 DEF Clean
<1>13. TableTypes'
  <2>1. dirty' = TRUE /\ lastDirty' = c /\ cursor' = c + 1 /\ load' = load /\ ttl' = ttl
    BY DEF T!Fire
  <2> QED BY <1>1, <1>6, <1>7, <1>8, <1>11, <2>1 DEF TableTypes
<1> QED BY <1>1, <1>2, <1>6, <1>10, <1>11, <1>12, <1>13 DEF Clean, v

(* What that does to the table.                                            *)
LEMMA FireTable ==
  ASSUME TableTypes, T!Fire, NEW c, c = cursor
  PROVE  /\ load > 0 /\ load' = load /\ dataList' = dataList /\ ttl' = ttl
         /\ cursor' = c + 1 /\ lastDirty' = c /\ dirty' = TRUE
         /\ Len(watchers) >= 5
         /\ watchers[1].what = "currentPage" /\ watchers[2].what = "selectedRecordPerPage"
         /\ watchers[3].what = "total" /\ watchers[4].what = "query"
         /\ watchers[c].what \in Kinds /\ (watchers[c].what \in {"query", "dataList"} => c > 3)
         /\ table'.query = table.query /\ table'.per = table.per
         /\ table'.page \in {table.page, 1}
         /\ watchers[c].what \in {"query", "dataList"} => Fit'
         /\ watchers[c].what \notin {"query", "dataList"} => SameRows(table, table') /\ (Fit' <=> Fit)
<1>1. /\ c \in 1 .. Len(watchers) /\ table' = T!Listener(watchers[c].what, table)
      /\ table \in Tables /\ dataList \in Seq(Objects)
  BY FireDoes DEF TableTypes
<1>2. /\ load > 0 /\ load' = load /\ dataList' = dataList /\ ttl' = ttl
      /\ cursor' = c + 1 /\ lastDirty' = c /\ dirty' = TRUE
  BY DEF T!Fire, TableTypes
<1>3. /\ Len(watchers) >= 5
      /\ watchers[1].what = "currentPage" /\ watchers[2].what = "selectedRecordPerPage"
      /\ watchers[3].what = "total" /\ watchers[4].what = "query"
  BY <1>2 DEF TableTypes, T!Watched
<1>4. watchers[c].what \in Kinds
  <2>1. watchers[c] \in Watchers
    BY <1>1, ElementOfSeq DEF TableTypes
  <2> QED BY <2>1 DEF Watchers
<1>5. watchers[c].what \in {"query", "dataList"} => c > 3
  <2>1. c \in Int /\ c >= 1
    BY <1>1
  <2>2. c # 1 /\ c # 2 /\ c # 3 => c > 3
    BY <2>1
  <2> QED BY <1>3, <2>2
<1>6. CASE watchers[c].what = "currentPage"
  BY <1>1, <1>2, <1>3, <1>6, PageListener DEF SameRows, Fit, Kinds
<1>7. CASE watchers[c].what = "selectedRecordPerPage"
  BY <1>1, <1>2, <1>3, <1>7, PerListener DEF SameRows, Fit, Kinds
<1>8. CASE watchers[c].what = "total"
  BY <1>1, <1>2, <1>3, <1>8, TotalListener DEF SameRows, Fit, Kinds
<1>9. CASE watchers[c].what = "query"
  BY <1>1, <1>2, <1>3, <1>5, <1>9, QueryListener DEF Fit, Kinds
<1>10. CASE watchers[c].what = "dataList"
  BY <1>1, <1>2, <1>3, <1>5, <1>10, DataListListener DEF Fit, Kinds
<1> QED BY <1>4, <1>6, <1>7, <1>8, <1>9, <1>10 DEF Kinds

LEMMA LimitIs == TTL \in Int /\ TTL > 1
<1>1. TTL \in Nat /\ TTL > 1
  BY TableAssumption
<1> QED BY <1>1

LEMMA FireDigest ==
  ASSUME TableTypes, Digest, T!Fire
  PROVE  Digest'
<1> DEFINE n == Len(watchers)
<1>0. PICK c : c = cursor
  OBVIOUS
<1>1. /\ c \in 1 .. n /\ ~Clean(c) /\ Clean(c)' /\ Len(watchers') = n
      /\ \A i \in 1 .. n : watchers'[i].what = watchers[i].what
      /\ \A i \in 1 .. n : i # c /\ Same(watchers[i].what) => (Clean(i)' <=> Clean(i))
  BY <1>0, FireDoes
<1>2. /\ ttl' = ttl /\ cursor' = c + 1 /\ lastDirty' = c /\ dirty' = TRUE /\ n >= 5
      /\ watchers[1].what = "currentPage" /\ watchers[3].what = "total"
      /\ table'.page \in {table.page, 1} /\ dataList' = dataList
      /\ watchers[c].what \in Kinds /\ (watchers[c].what \in {"query", "dataList"} => c > 3 /\ Fit')
      /\ watchers[c].what \notin {"query", "dataList"} => SameRows(table, table') /\ (Fit' <=> Fit)
  BY <1>0, FireTable
<1>3. n \in Nat /\ c \in Int /\ c # 0 /\ ttl \in {TTL, TTL - 1, TTL - 2} /\ TTL \in Int
  <2>1. n \in Nat
    BY DEF TableTypes
  <2>2. c \in Int /\ c # 0
    BY <1>1, <2>1
  <2>3. TTL \in Int
    BY LimitIs
  <2>4. ttl \in {TTL, TTL - 1, TTL - 2}
    BY DEF TableTypes
  <2> QED BY <2>1, <2>2, <2>3, <2>4
<1>4. ASSUME NEW i \in 1 .. n, i < c + 1 \/ ttl # TTL, watchers[i].what \in Inputs
      PROVE  Clean(i)'
  <2>1. CASE i = c
    BY <1>1, <2>1
  <2>2. CASE i # c
    <3>1. i < c \/ ttl # TTL
      BY <1>3, <1>4, <2>2
    <3>2. Clean(i)
      BY <1>0, <1>3, <1>4, <3>1 DEF Digest
    <3> QED BY <1>1, <1>4, <2>2, <3>2 DEF Same
  <2> QED BY <2>1, <2>2
<1>5. ASSUME ttl = TTL - 1, NEW i \in 1 .. n, i < c + 1
      PROVE  Clean(i)'
  <2>1. watchers[c].what \notin Inputs
    BY <1>0, <1>1, <1>3, <1>5 DEF Digest
  <2>2. \A k : Same(k) \/ k \notin Kinds
    <3>1. watchers[c].what \in {"currentPage", "total"}
      BY <1>2, <2>1 DEF Kinds, Inputs
    <3>2. table'.page = table.page /\ table'.total = table.total
      <4>1. table' = T!Listener(watchers[c].what, table) /\ table \in Tables
        BY <1>0, FireDoes DEF TableTypes
      <4>2. CASE watchers[c].what = "currentPage"
        BY <4>1, <4>2, PageListener DEF SameRows
      <4>3. CASE watchers[c].what = "total"
        BY <4>1, <4>3, TotalListener DEF SameRows
      <4> QED BY <3>1, <4>2, <4>3
    <3> QED BY <3>2 DEF Same, Kinds, Inputs
  <2>3. CASE i # c
    <3>1. watchers[i].what \in Kinds
      <4>1. watchers[i] \in Watchers
        BY ElementOfSeq DEF TableTypes
      <4> QED BY <4>1 DEF Watchers
    <3>2. i < c
      BY <1>3, <1>5, <2>3
    <3>3. Clean(i)
      BY <1>0, <1>3, <1>5, <3>2 DEF Digest
    <3> QED BY <1>1, <2>2, <2>3, <3>1, <3>3
  <2> QED BY <1>1, <2>3
<1>6. ttl # TTL - 2
  BY <1>0, <1>1, <1>3 DEF Digest, AllClean
<1>7. table'.page # 1 => Clean(1)'
  <2>1. CASE c = 1
    BY <1>1, <2>1
  <2>2. CASE c # 1
    <3> SUFFICES ASSUME table'.page # 1 PROVE Clean(1)'
      OBVIOUS
    <3>1. table'.page = table.page /\ table.page # 1
      BY <1>2
    <3>2. c > 1
      BY <1>1, <2>2
    <3>3. Clean(1) /\ Same(watchers[1].what) /\ 1 \in 1 .. n
      BY <1>0, <1>2, <1>3, <3>1, <3>2 DEF Digest, Same
    <3> QED BY <1>1, <2>2, <3>3
  <2> QED BY <2>1, <2>2
<1>8. c + 1 > 3 /\ ~Fit' => Clean(3)'
  <2>1. CASE c = 3
    BY <1>1, <2>1
  <2>2. CASE c # 3
    <3> SUFFICES ASSUME c + 1 > 3, ~Fit' PROVE Clean(3)'
      OBVIOUS
    <3>1. SameRows(table, table') /\ ~Fit /\ c > 3
      BY <1>2, <1>3, <2>2
    <3>2. Clean(3) /\ Same(watchers[3].what) /\ 3 \in 1 .. n
      BY <1>0, <1>2, <1>3, <3>1 DEF Digest, Same, SameRows
    <3> QED BY <1>1, <2>2, <3>2
  <2> QED BY <2>1, <2>2
<1> HIDE DEF n
<1>9. \A i \in 1 .. Len(watchers') : (i < cursor' \/ ttl' # TTL) /\ watchers'[i].what \in Inputs => Clean(i)'
  BY <1>1, <1>2, <1>4
<1>10. \A i \in 1 .. Len(watchers') : c <= i /\ i < cursor' => Clean(i)'
  <2>1. \A i \in 1 .. n : c <= i /\ i < c + 1 => i = c
    BY <1>3
  <2> QED BY <1>1, <1>2, <2>1
<1>11. ttl' = TTL - 1 => \A i \in 1 .. Len(watchers') : i < cursor' => Clean(i)'
  BY <1>1, <1>2, <1>5
<1>12. c # 0 /\ c < c + 1
  BY <1>3
<1> QED BY <1>2, <1>6, <1>7, <1>8, <1>9, <1>10, <1>11, <1>12 DEF Digest

(* There is a first page.                                                  *)
LEMMA FirstExists ==
  ASSUME NEW t \in Tables, t.page = 1
  PROVE  t.total = 0 \/ t.page \in 1 .. T!Pages(t.total, t.per)
<1>1. t.total \in Nat /\ t.per \in Nat \ {0}
  BY TableAssumption DEF Tables
<1> QED BY <1>1, PagesAre

LEMMA FireTasks ==
  ASSUME TableTypes, Digest, Tasks, T!Fire
  PROVE  Tasks'
<1> DEFINE n == Len(watchers)
           kind == {"query", "dataList"}
           Rest(ks, c) == \E i \in 1 .. n : i # c /\ watchers[i].what \in ks /\ ~Clean(i)
<1>0. PICK c : c = cursor
  OBVIOUS
<1>1. /\ c \in 1 .. n /\ ~Clean(c) /\ Clean(c)' /\ Len(watchers') = n
      /\ table' = T!Listener(watchers[c].what, table)
      /\ \A i \in 1 .. n : watchers'[i].what = watchers[i].what
      /\ \A i \in 1 .. n : i # c /\ Same(watchers[i].what) => (Clean(i)' <=> Clean(i))
      /\ \A i \in 1 .. n : i # c /\ Clean(i) /\ ~Same(watchers[i].what) => ~Clean(i)'
  BY <1>0, FireDoes
<1>2. /\ load > 0 /\ n >= 5 /\ dataList' = dataList
      /\ watchers[1].what = "currentPage" /\ watchers[3].what = "total"
      /\ table'.per = table.per /\ table'.query = table.query
      /\ table'.page \in {table.page, 1}
      /\ watchers[c].what \in Kinds /\ (watchers[c].what \in kind => c > 3 /\ Fit')
      /\ watchers[c].what \notin kind => SameRows(table, table') /\ (Fit' <=> Fit)
  BY <1>0, FireTable
<1>3. n \in Nat /\ c \in Int /\ c # 0
  <2>1. n \in Nat
    BY DEF TableTypes
  <2> QED BY <1>1, <2>1
<1>4. table \in Tables /\ dataList \in Seq(Objects) /\ table' \in Tables
  BY FireDoes DEF TableTypes
<1>5. /\ Fit \/ Due({"query"})
      /\ PagesRight \/ Due({"total", "selectedRecordPerPage"})
      /\ IndexesRight \/ Due({"currentPage", "total", "selectedRecordPerPage"})
      /\ PageExists \/ Due({"query", "selectedRecordPerPage"})
  BY <1>2 DEF Tasks
\* Another watcher that was dirty still is, while its value is left alone.
<1>6. ASSUME NEW ks, watchers[c].what \notin ks, \A k \in ks : Same(k), Due(ks)
      PROVE  Due(ks)'
  <2>1. PICK i \in 1 .. n : watchers[i].what \in ks /\ ~Clean(i)
    BY <1>6 DEF Due
  <2>2. i # c /\ Same(watchers[i].what)
    BY <1>6, <2>1
  <2> QED BY <1>1, <2>1, <2>2 DEF Due
\* A value that changes makes the first watcher of it dirty.
<1>7. watchers[c].what \in kind /\ table'.page # table.page =>
        \A ks : "currentPage" \in ks => Due(ks)'
  <2> SUFFICES ASSUME watchers[c].what \in kind, table'.page # table.page, NEW ks,
                      "currentPage" \in ks
               PROVE  Due(ks)'
    OBVIOUS
  <2>1. c > 3 /\ table'.page = 1 /\ 1 \in 1 .. n
    BY <1>2, <1>3
  <2>2. Clean(1) /\ 1 # c
    BY <1>0, <1>3, <2>1 DEF Digest
  <2>3. ~Same(watchers[1].what)
    BY <1>2 DEF Same, Inputs
  <2>4. ~Clean(1)' /\ watchers'[1].what = "currentPage"
    BY <1>1, <1>2, <2>1, <2>2, <2>3
  <2> QED BY <1>1, <2>1, <2>4 DEF Due
<1>8. watchers[c].what \in kind /\ table'.total # table.total =>
        ~Fit /\ \A ks : "total" \in ks => Due(ks)'
  <2> SUFFICES ASSUME watchers[c].what \in kind, table'.total # table.total
               PROVE  ~Fit /\ \A ks : "total" \in ks => Due(ks)'
    OBVIOUS
  <2>1. ~Fit
    BY <1>2 DEF Fit
  <2>2. c > 3 /\ 3 \in 1 .. n
    BY <1>2, <1>3
  <2>3. Clean(3) /\ 3 # c
    BY <1>0, <1>3, <2>1, <2>2 DEF Digest
  <2>4. ~Same(watchers[3].what)
    BY <1>2 DEF Same, Inputs
  <2>5. ~Clean(3)' /\ watchers'[3].what = "total"
    BY <1>1, <1>2, <2>2, <2>3, <2>4
  <2> QED BY <1>1, <2>1, <2>2, <2>5 DEF Due
<1> HIDE DEF n
<1>9. CASE watchers[c].what = "currentPage"
  <2>1. SameRows(table, table') /\ table'.page = table.page /\ table'.pages = table.pages
    BY <1>1, <1>4, <1>9, PageListener
  <2>2. Indexed(table')
    BY <1>1, <1>4, <1>9, PageListener
  <2>3. \A k \in Kinds : Same(k)
    BY <2>1 DEF Same, Kinds, Inputs, SameRows
  <2>4. (Fit' <=> Fit) /\ (PagesRight' <=> PagesRight) /\ (PageExists' <=> PageExists)
    BY <1>2, <1>9, <2>1 DEF SameRows, PagesRight, PageExists
  <2>5. IndexesRight'
    BY <2>2 DEF IndexesRight, Indexed
  <2>6. Due({"query"}) => Due({"query"})'
    BY <1>6, <1>9, <2>3 DEF Kinds
  <2>7. Due({"total", "selectedRecordPerPage"}) => Due({"total", "selectedRecordPerPage"})'
    BY <1>6, <1>9, <2>3 DEF Kinds
  <2>8. Due({"query", "selectedRecordPerPage"}) => Due({"query", "selectedRecordPerPage"})'
    BY <1>6, <1>9, <2>3 DEF Kinds
  <2> QED BY <1>5, <2>4, <2>5, <2>6, <2>7, <2>8 DEF Tasks
<1>10. CASE watchers[c].what = "selectedRecordPerPage"
  <2>1. SameRows(table, table') /\ table'.page = 1 /\ table'.per = table.per
    BY <1>1, <1>4, <1>10, PerListener
  <2>2. Indexed(table') /\ table'.pages = T!Pages(table.total, table.per)
    BY <1>1, <1>4, <1>10, PerListener
  <2>3. PagesRight'
    BY <2>1, <2>2 DEF PagesRight, SameRows
  <2>4. IndexesRight'
    BY <2>2 DEF IndexesRight, Indexed
  <2>5. PageExists'
    BY <1>4, <2>1, FirstExists DEF PageExists
  <2>6. Due({"query"}) => Due({"query"})'
    BY <1>6, <1>10 DEF Same, Inputs
  <2> QED BY <1>2, <1>5, <1>10, <2>3, <2>4, <2>5, <2>6 DEF Tasks
<1>11. CASE watchers[c].what = "total"
  <2>1. SameRows(table, table') /\ table'.page = table.page /\ table'.per = table.per
    BY <1>1, <1>4, <1>11, TotalListener
  <2>2. /\ table.total = 0 => table'.start = 0 /\ table'.end = 0
        /\ table.total # 0 => table'.pages = T!Pages(table.total, table.per) /\ Indexed(table')
    BY <1>1, <1>4, <1>11, TotalListener
  <2>3. PagesRight' /\ (PageExists' <=> PageExists)
    BY <2>1, <2>2 DEF PagesRight, PageExists, SameRows
  <2>4. IndexesRight'
    BY <2>1, <2>2 DEF IndexesRight, Indexed, SameRows
  <2>5. Due({"query"}) => Due({"query"})'
    BY <1>6, <1>11 DEF Same, Inputs
  <2>6. Due({"query", "selectedRecordPerPage"}) => Due({"query", "selectedRecordPerPage"})'
    BY <1>6, <1>11 DEF Same, Inputs
  <2> QED BY <1>2, <1>5, <1>11, <2>3, <2>4, <2>5, <2>6 DEF Tasks
<1>12. CASE watchers[c].what = "query"
  <2>1. /\ table'.page = 1 /\ table'.per = table.per /\ table'.pages = table.pages
        /\ table'.start = table.start /\ table'.end = table.end
    BY <1>1, <1>4, <1>12, QueryListener
  <2>2. PageExists'
    BY <1>4, <2>1, FirstExists DEF PageExists
  <2>3. PagesRight' \/ Due({"total", "selectedRecordPerPage"})'
    <3>1. CASE table'.total # table.total
      BY <1>8, <1>12, <3>1
    <3>2. CASE table'.total = table.total
      <4>1. PagesRight' <=> PagesRight
        BY <2>1, <3>2 DEF PagesRight
      <4>2. Due({"total", "selectedRecordPerPage"}) => Due({"total", "selectedRecordPerPage"})'
        BY <1>6, <1>12, <3>2 DEF Same, Inputs
      <4> QED BY <1>5, <4>1, <4>2
    <3> QED BY <3>1, <3>2
  <2>4. IndexesRight' \/ Due({"currentPage", "total", "selectedRecordPerPage"})'
    <3>1. CASE table'.total # table.total
      BY <1>8, <1>12, <3>1
    <3>2. CASE table'.page # table.page
      BY <1>7, <1>12, <3>2
    <3>3. CASE table'.total = table.total /\ table'.page = table.page
      <4>1. IndexesRight' <=> IndexesRight
        BY <2>1, <3>3 DEF IndexesRight
      <4>2. Due({"currentPage", "total", "selectedRecordPerPage"})
              => Due({"currentPage", "total", "selectedRecordPerPage"})'
        BY <1>6, <1>12, <3>3 DEF Same, Inputs
      <4> QED BY <1>5, <4>1, <4>2
    <3> QED BY <3>1, <3>2, <3>3
  <2> QED BY <1>2, <1>12, <2>2, <2>3, <2>4 DEF Tasks
<1>13. CASE watchers[c].what = "dataList"
  <2>1. /\ table'.page = table.page /\ table'.per = table.per /\ table'.pages = table.pages
        /\ table'.start = table.start /\ table'.end = table.end
    BY <1>1, <1>4, <1>13, DataListListener
  <2>2. PagesRight' \/ Due({"total", "selectedRecordPerPage"})'
    <3>1. CASE table'.total # table.total
      BY <1>8, <1>13, <3>1
    <3>2. CASE table'.total = table.total
      <4>1. PagesRight' <=> PagesRight
        BY <2>1, <3>2 DEF PagesRight
      <4>2. Due({"total", "selectedRecordPerPage"}) => Due({"total", "selectedRecordPerPage"})'
        BY <1>6, <1>13, <3>2 DEF Same, Inputs
      <4> QED BY <1>5, <4>1, <4>2
    <3> QED BY <3>1, <3>2
  <2>3. IndexesRight' \/ Due({"currentPage", "total", "selectedRecordPerPage"})'
    <3>1. CASE table'.total # table.total
      BY <1>8, <1>13, <3>1
    <3>2. CASE table'.total = table.total
      <4>1. IndexesRight' <=> IndexesRight
        BY <2>1, <3>2 DEF IndexesRight
      <4>2. Due({"currentPage", "total", "selectedRecordPerPage"})
              => Due({"currentPage", "total", "selectedRecordPerPage"})'
        BY <1>6, <1>13, <2>1, <3>2 DEF Same, Inputs
      <4> QED BY <1>5, <4>1, <4>2
    <3> QED BY <3>1, <3>2
  <2>4. PageExists' \/ Due({"query", "selectedRecordPerPage"})'
    <3>1. Due({"query", "selectedRecordPerPage"}) => Due({"query", "selectedRecordPerPage"})'
      BY <1>6, <1>13 DEF Same, Inputs
    <3>2. CASE table'.total # table.total
      <4>1. Due({"query"})
        BY <1>5, <1>8, <1>13, <3>2
      <4>2. Due({"query", "selectedRecordPerPage"})
        BY <4>1 DEF Due
      <4> QED BY <3>1, <4>2
    <3>3. CASE table'.total = table.total
      <4>1. PageExists' <=> PageExists
        BY <2>1, <3>3 DEF PageExists
      <4> QED BY <1>5, <3>1, <4>1
    <3> QED BY <3>2, <3>3
  <2> QED BY <1>2, <1>13, <2>2, <2>3, <2>4 DEF Tasks
<1> QED BY <1>2, <1>9, <1>10, <1>11, <1>12, <1>13 DEF Kinds

LEMMA FireKeeps ==
  ASSUME TableInv, T!Fire
  PROVE  TableInv'
<1>1. TableTypes' /\ Digest' /\ Tasks'
  BY FireDoes, FireDigest, FireTasks DEF TableInv
<1>2. cursor' # 0
  <2>1. cursor \in Nat
    BY DEF TableInv, TableTypes
  <2> QED BY <2>1 DEF T!Fire
<1> QED BY <1>1, <1>2 DEF TableInv, Between

-----------------------------------------------------------------------------
(* The digest goes on.                                                     *)

\* What the tasks are said about stays.
Still == UNCHANGED <<dataList, load, table, watchers>>

LEMMA StillTasks ==
  ASSUME Still, Tasks
  PROVE  Tasks'
BY DEF Still, Tasks, Fit, Due, Clean, T!Get, PagesRight, IndexesRight, PageExists

LEMMA StillClean ==
  ASSUME Still, NEW i
  PROVE  Clean(i)' <=> Clean(i)
BY DEF Still, Clean, T!Get

LEMMA StillTypes ==
  ASSUME Still, TableTypes, dirty' \in BOOLEAN, cursor' \in 0 .. Len(watchers) + 1,
         lastDirty' \in 0 .. Len(watchers), ttl' \in {TTL, TTL - 1, TTL - 2},
         load = 0 => cursor' = 0, cursor' = 0 => lastDirty' = 0
  PROVE  TableTypes'
BY DEF Still, TableTypes

LEMMA PassKeeps ==
  ASSUME TableInv, T!Pass
  PROVE  TableInv'
<1> DEFINE n == Len(watchers)
<1>1. /\ n \in Nat /\ cursor \in 1 .. n /\ lastDirty \in 0 .. n /\ load > 0
      /\ ttl \in {TTL, TTL - 1, TTL - 2} /\ TTL \in Int /\ dirty \in BOOLEAN
  <2>1. n \in Nat /\ cursor \in 0 .. n + 1 /\ cursor # 0 /\ cursor <= n
    BY DEF TableInv, TableTypes, T!Pass
  <2>2. load > 0
    BY <2>1 DEF TableInv, TableTypes
  <2>3. TTL \in Int
    BY LimitIs
  <2> QED BY <2>1, <2>2, <2>3 DEF TableInv, TableTypes
<1>2. Still /\ Clean(cursor)
  BY DEF T!Pass, Still, Clean
<1>3. Tasks'
  BY <1>2, StillTasks DEF TableInv
<1>4. \A i : Clean(i)' <=> Clean(i)
  BY <1>2, StillClean
<1>5. Fit' <=> Fit
  BY <1>2 DEF Still, Fit
<1>6. CASE cursor = lastDirty
  <2>1. cursor' = 0 /\ dirty' = FALSE /\ lastDirty' = 0 /\ ttl' = ttl
    BY <1>6 DEF T!Pass, T!End
  <2>2. TableTypes'
    <3>1. 0 \in 0 .. n /\ 0 \in 0 .. n + 1
      BY <1>1
    <3> QED BY <1>1, <1>2, <2>1, <3>1, StillTypes DEF TableInv
  <2>3. AllClean
    <3>1. ~dirty /\ ttl # TTL /\ \A i \in 1 .. n : lastDirty <= i => Clean(i)
      BY <1>1, <1>6 DEF TableInv, Digest
    <3>2. CASE ttl = TTL - 1
      <4>1. \A i \in 1 .. n : i < cursor => Clean(i)
        BY <1>1, <3>2 DEF TableInv, Digest
      <4>2. \A i \in 1 .. n : i < cursor \/ lastDirty <= i
        BY <1>1, <1>6
      <4> QED BY <3>1, <4>1, <4>2 DEF AllClean
    <3>3. CASE ttl = TTL - 2
      BY <1>1, <3>3 DEF TableInv, Digest
    <3> QED BY <1>1, <3>1, <3>2, <3>3
  <2>4. Between'
    BY <1>2, <1>4, <2>3 DEF Between, AllClean, Still
  <2> QED BY <1>3, <2>1, <2>2, <2>4 DEF TableInv, Digest
<1>7. CASE cursor # lastDirty
  <2>1. cursor' = cursor + 1 /\ dirty' = dirty /\ lastDirty' = lastDirty /\ ttl' = ttl
    BY <1>7 DEF T!Pass
  <2>2. TableTypes'
    <3>1. cursor + 1 \in 0 .. n + 1 /\ cursor + 1 # 0
      BY <1>1
    <3> QED BY <1>1, <1>2, <2>1, <3>1, StillTypes DEF TableInv
  <2>3. \A i \in 1 .. n : i < cursor + 1 => i < cursor \/ i = cursor
    BY <1>1
  <2>4. Len(watchers') = n /\ watchers' = watchers /\ table' = table
    BY <1>2 DEF Still
  <2>5. cursor # 0 /\ cursor' # 0
    BY <1>1, <2>1
  <2>6. \A i \in 1 .. n : (i < cursor + 1 \/ ttl # TTL) /\ watchers[i].what \in Inputs => Clean(i)
    BY <1>2, <2>3, <2>5 DEF TableInv, Digest
  <2>7. ttl = TTL - 1 => \A i \in 1 .. n : i < cursor + 1 => Clean(i)
    BY <1>2, <2>3, <2>5 DEF TableInv, Digest
  <2>8. ttl = TTL - 2 => AllClean /\ ~dirty
    BY <2>5 DEF TableInv, Digest
  <2>9. lastDirty = 0 => /\ ~dirty /\ ttl = TTL
                         /\ \A i \in 1 .. n : i < cursor + 1 => Clean(i)
    BY <1>2, <2>3, <2>5 DEF TableInv, Digest
  <2>10. lastDirty # 0 /\ dirty =>
           /\ lastDirty < cursor + 1
           /\ \A i \in 1 .. n : lastDirty <= i /\ i < cursor + 1 => Clean(i)
    <3>1. lastDirty < cursor => lastDirty < cursor + 1
      BY <1>1
    <3> QED BY <1>2, <2>3, <2>5, <3>1 DEF TableInv, Digest
  <2>11. lastDirty # 0 /\ ~dirty =>
           /\ cursor + 1 <= lastDirty /\ ttl # TTL
           /\ \A i \in 1 .. n : lastDirty <= i => Clean(i)
    <3>1. cursor <= lastDirty => cursor + 1 <= lastDirty
      BY <1>1, <1>7
    <3> QED BY <2>5, <3>1 DEF TableInv, Digest
  <2>12. table.page # 1 => Clean(1)
    <3>1. cursor = 1 \/ cursor > 1
      BY <1>1
    <3> QED BY <1>2, <2>5, <3>1 DEF TableInv, Digest
  <2>13. cursor + 1 > 3 /\ ~Fit => Clean(3)
    <3>1. cursor + 1 > 3 => cursor = 3 \/ cursor > 3
      BY <1>1
    <3> QED BY <1>2, <2>5, <3>1 DEF TableInv, Digest
  <2>14. Digest'
    <3> HIDE DEF n
    <3> QED BY <1>4, <1>5, <2>1, <2>4, <2>6, <2>7, <2>8, <2>9, <2>10, <2>11, <2>12, <2>13
            DEF Digest, AllClean, n
  <2> QED BY <1>3, <2>2, <2>5, <2>14 DEF TableInv, Between
<1> QED BY <1>6, <1>7

LEMMA RoundKeeps ==
  ASSUME TableInv, T!Round
  PROVE  TableInv'
<1> DEFINE n == Len(watchers)
<1>1. /\ n \in Nat /\ cursor = n + 1 /\ lastDirty \in 0 .. n
      /\ ttl \in {TTL, TTL - 1, TTL - 2} /\ TTL \in Int /\ TTL > 1 /\ dirty \in BOOLEAN
  <2>1. TTL \in Int /\ TTL > 1
    BY LimitIs
  <2> QED BY <2>1 DEF TableInv, TableTypes, T!Round
<1>2. Still /\ cursor # 0
  BY <1>1 DEF T!Round, Still
<1>3. Tasks'
  BY <1>2, StillTasks DEF TableInv
<1>4. \A i : Clean(i)' <=> Clean(i)
  BY <1>2, StillClean
<1>5. \A i \in 1 .. n : i < cursor
  BY <1>1
<1>6. CASE dirty
  <2>1. ttl # TTL - 2 /\ ttl > 0 /\ lastDirty # 0
    <3>1. ttl # TTL - 2
      BY <1>2, <1>6 DEF TableInv, Digest
    <3>2. lastDirty # 0
      BY <1>2, <1>6 DEF TableInv, Digest
    <3> QED BY <1>1, <3>1, <3>2
  <2>2. cursor' = 1 /\ dirty' = FALSE /\ ttl' = ttl - 1 /\ lastDirty' = lastDirty
    BY <1>6, <2>1 DEF T!Round
  <2>3. TableTypes'
    <3>1. ttl' \in {TTL, TTL - 1, TTL - 2} /\ 1 \in 0 .. n + 1
      BY <1>1, <2>1, <2>2
    <3>2. load # 0
      BY <1>2 DEF TableInv, TableTypes
    <3>3. TableTypes
      BY DEF TableInv
    <3> HIDE DEF n
    <3>4. cursor' \in 0 .. n + 1 /\ cursor' # 0
      BY <2>2, <3>1
    <3>5. dirty' \in BOOLEAN /\ lastDirty' \in 0 .. n
      BY <1>1, <2>2
    <3> QED BY <1>2, <3>1, <3>2, <3>3, <3>4, <3>5, StillTypes DEF n
  <2>4. Len(watchers') = n /\ watchers' = watchers /\ table' = table
    BY <1>2 DEF Still
  <2>5. \A i \in 1 .. n : watchers[i].what \in Inputs => Clean(i)
    BY <1>2, <1>5 DEF TableInv, Digest
  <2>6. ttl' = TTL - 2 => AllClean
    <3>1. ttl' = TTL - 2 => ttl = TTL - 1
      BY <1>1, <2>1, <2>2
    <3> QED BY <1>2, <1>5, <3>1 DEF TableInv, Digest, AllClean
  <2>7. \A i \in 1 .. n : lastDirty <= i => Clean(i)
    BY <1>2, <1>5, <1>6, <2>1 DEF TableInv, Digest
  <2>8. ttl' # TTL /\ 1 <= lastDirty /\ \A i \in 1 .. n : ~(i < 1)
    BY <1>1, <2>1, <2>2
  <2>9. Digest'
    <3> HIDE DEF n
    <3> QED BY <1>4, <2>1, <2>2, <2>4, <2>5, <2>6, <2>7, <2>8 DEF Digest, AllClean, n
  <2> QED BY <1>3, <2>2, <2>3, <2>9 DEF TableInv, Between
<1>7. CASE ~dirty
  <2>1. cursor' = 0 /\ dirty' = FALSE /\ lastDirty' = 0 /\ ttl' = ttl
    BY <1>7 DEF T!Round, T!End
  <2>2. TableTypes'
    <3>1. 0 \in 0 .. n /\ 0 \in 0 .. n + 1
      BY <1>1
    <3> QED BY <1>1, <1>2, <2>1, <3>1, StillTypes DEF TableInv
  <2>3. AllClean
    <3>1. lastDirty = 0
      <4>1. ~(cursor <= lastDirty)
        BY <1>1
      <4> QED BY <1>2, <1>7, <4>1 DEF TableInv, Digest
    <3> QED BY <1>2, <1>5, <3>1 DEF TableInv, Digest, AllClean
  <2>4. Between'
    BY <1>2, <1>4, <2>3 DEF Between, AllClean, Still
  <2> QED BY <1>3, <2>1, <2>2, <2>4 DEF TableInv, Digest
<1> QED BY <1>1, <1>6, <1>7

-----------------------------------------------------------------------------
(* A digest starts.                                                        *)

LEMMA BeginTypes ==
  ASSUME TableTypes', T!Begin
  PROVE  Digest' /\ Between'
<1>1. TTL \in Int
  BY LimitIs
<1>2. cursor' = 1 /\ dirty' = FALSE /\ lastDirty' = 0 /\ ttl' = TTL
  BY DEF T!Begin
<1>3. \A i \in 1 .. Len(watchers') : ~(i < 1)
  OBVIOUS
<1>4. ttl' # TTL - 1 /\ ttl' # TTL - 2 /\ ~(cursor' > 1) /\ ~(cursor' > 3)
  BY <1>1, <1>2
<1> QED BY <1>2, <1>3, <1>4 DEF Digest, Between

LEMMA NewTableIs ==
  ASSUME NEW list \in Seq(Objects), NEW t, t = T!NewTable(list)
  PROVE  /\ t \in Tables /\ t.displayed = list /\ t.total = Len(list) /\ t.query = ""
         /\ t.page = 1 /\ t.per = FirstPerPage
         /\ t.pages = T!Pages(t.total, t.per) /\ Indexed(t)
<1> DEFINE blank == ""
           pages == T!Pages(Len(list), FirstPerPage)
           final == T!Min({FirstPerPage, Len(list)})
<1>1. FirstPerPage \in PerPage /\ PerPage \subseteq Nat \ {0} /\ blank \in Queries
  BY TableAssumption
<1>2. t = [displayed |-> list, total |-> Len(list), query |-> blank, page |-> 1,
           per |-> FirstPerPage, pages |-> pages, start |-> 1, end |-> final]
  BY DEF T!NewTable
<1> HIDE DEF blank
<1>3. FirstPerPage \in Nat \ {0} /\ FirstPerPage \in Int /\ Len(list) \in Nat /\ Len(list) \in Int
  <2> HIDE DEF Objects, pages, final
  <2>1. FirstPerPage \in Nat \ {0} /\ FirstPerPage \in Int
    BY <1>1
  <2>2. Len(list) \in Nat /\ Len(list) \in Int
    OBVIOUS
  <2> QED BY <2>1, <2>2
<1>4. pages \in Nat /\ final \in Int
  BY <1>3, PagesAre, MinOfTwo, ZenonT(30)
<1> HIDE DEF pages, final, Objects
<1>5. /\ t \in Tables /\ t.displayed = list /\ t.total = Len(list) /\ t.query = blank
      /\ t.page = 1 /\ t.per = FirstPerPage /\ t.pages = pages
      /\ t.start = 1 /\ t.end = final
  BY <1>1, <1>2, <1>3, <1>4 DEF Tables
<1>6. (1 - 1) * FirstPerPage + 1 = 1 /\ 1 + FirstPerPage - 1 = FirstPerPage
  BY <1>3
<1>7. Indexed(t)
  BY <1>5, <1>6 DEF Indexed, final
<1> QED BY <1>5, <1>7 DEF pages, blank

LEMMA RefreshKeeps ==
  ASSUME TableInv, T!Refresh
  PROVE  TableInv'
<1> DEFINE new == [i \in DOMAIN T!Watched |-> [what |-> T!Watched[i], last |-> Unset]]
           n == Len(watchers)
<1>1. PICK l \in Lists : dataList' = [i \in DOMAIN l |-> [load |-> load', group |-> l[i]]]
  BY DEF T!Refresh
<1>2. /\ load' = load + 1 /\ load \in Nat /\ table' = T!NewTable(dataList')
      /\ watchers' = watchers \o new /\ T!Begin
  BY DEF T!Refresh, TableInv, TableTypes
<1>3. dataList' \in Seq(Objects)
  <2> DEFINE every == Matches[""]
  <2>1. l \in Seq(every)
    BY TableAssumption
  <2> HIDE DEF every
  <2>2. DOMAIN l = 1 .. Len(l) /\ Len(l) \in Nat
    BY <2>1
  <2>3. \A i \in 1 .. Len(l) : l[i] \in every
    BY <2>1, ElementOfSeq
  <2>4. load' \in Nat
    BY <1>2
  <2>5. \A i \in 1 .. Len(l) : [load |-> load', group |-> l[i]] \in Objects
    BY <2>3, <2>4 DEF Objects, every
  <2>6. dataList' = [i \in 1 .. Len(l) |-> [load |-> load', group |-> l[i]]]
    BY <1>1, <2>2
  <2> HIDE DEF Objects
  <2> QED BY <2>2, <2>5, <2>6
<1>4. /\ table' \in Tables /\ table'.displayed = dataList' /\ table'.total = Len(dataList')
      /\ table'.query = "" /\ table'.page = 1 /\ table'.per = FirstPerPage
      /\ table'.pages = T!Pages(table'.total, table'.per) /\ Indexed(table')
  BY <1>2, <1>3, NewTableIs
<1>5. Tasks'
  <2>1. Fit'
    BY <1>3, <1>4, FilteredAll DEF Fit
  <2>2. PagesRight' /\ IndexesRight'
    BY <1>4 DEF PagesRight, IndexesRight, Indexed
  <2>3. PageExists'
    BY <1>4, FirstExists DEF PageExists
  <2> QED BY <2>1, <2>2, <2>3 DEF Tasks
<1>6. new \in Seq(Watchers) /\ Len(new) = 5
  <2>1. DOMAIN T!Watched = 1 .. 5 /\ \A i \in 1 .. 5 : T!Watched[i] \in Kinds
    BY DEF T!Watched, Kinds
  <2>2. \A i \in 1 .. 5 : [what |-> T!Watched[i], last |-> Unset] \in Watchers
    BY <2>1 DEF Watchers, Values
  <2> HIDE DEF Watchers
  <2> QED BY <2>1, <2>2
<1>7. TableTypes'
  <2>1. /\ n \in Nat /\ watchers' \in Seq(Watchers) /\ Len(watchers') = n + 5
        /\ \A i \in 1 .. n : watchers'[i] = watchers[i]
        /\ \A i \in 1 .. 5 : watchers'[n + i] = new[i]
    <3> HIDE DEF new
    <3>1. watchers \in Seq(Watchers)
      BY DEF TableInv, TableTypes
    <3>2. n \in Nat
      BY <3>1
    <3>3. /\ watchers' \in Seq(Watchers) /\ Len(watchers') = n + 5
          /\ \A i \in 1 .. n + 5 : watchers'[i] = IF i <= n THEN watchers[i] ELSE new[i - n]
      <4>1. watchers' = watchers \o new
        BY <1>2
      <4>2. new \in Seq(Watchers) /\ Len(new) = 5
        BY <1>6
      <4> HIDE DEF new
      <4>3. /\ watchers \o new \in Seq(Watchers)
            /\ Len(watchers \o new) = Len(watchers) + Len(new)
            /\ \A i \in 1 .. Len(watchers) + Len(new) :
                 (watchers \o new)[i] = IF i <= Len(watchers) THEN watchers[i]
                                        ELSE new[i - Len(watchers)]
        BY <3>1, <4>2, ConcatProperties
      <4> QED BY <4>1, <4>2, <4>3
    <3> HIDE DEF n, new
    <3>4. \A i \in 1 .. n : i \in 1 .. n + 5 /\ i <= n
      BY <3>2
    <3>5. ASSUME NEW i \in 1 .. 5 PROVE watchers'[n + i] = new[i]
      <4> DEFINE j == n + i
      <4>1. i \in Int /\ 1 <= i /\ i <= 5
        OBVIOUS
      <4>2. j \in 1 .. n + 5 /\ ~(j <= n) /\ j - n = i
        BY <3>2, <4>1
      <4> HIDE DEF j
      <4>3. watchers'[j] = new[j - n]
        BY <3>3, <4>2
      <4> QED BY <4>2, <4>3 DEF j
    <3>6. \A i \in 1 .. n : watchers'[i] = watchers[i]
      BY <3>3, <3>4
    <3> QED BY <3>2, <3>3, <3>5, <3>6
  <2>2. n + 5 >= 5 /\ \A i \in 1 .. 5 : watchers'[i].what = T!Watched[i]
    <3>1. CASE load = 0
      <4>1. n = 0
        BY <3>1 DEF TableInv, TableTypes
      <4>2. \A i \in 1 .. 5 : new[i].what = T!Watched[i]
        BY DEF T!Watched
      <4>3. \A i \in 1 .. 5 : watchers'[i] = new[i]
        BY <2>1, <4>1
      <4> QED BY <2>1, <4>2, <4>3
    <3>2. CASE load > 0
      <4>1. n >= 5 /\ \A i \in 1 .. 5 : watchers[i].what = T!Watched[i]
        BY <3>2 DEF TableInv, TableTypes
      <4>2. \A i \in 1 .. 5 : i \in 1 .. n
        BY <2>1, <4>1
      <4> QED BY <2>1, <4>1, <4>2
    <3>3. load = 0 \/ load > 0
      BY <1>2
    <3>4. n + 5 >= 5
      BY <2>1
    <3> HIDE DEF n
    <3> QED BY <3>1, <3>2, <3>3, <3>4
  <2>3. cursor' = 1 /\ dirty' = FALSE /\ lastDirty' = 0 /\ ttl' = TTL
    BY <1>2 DEF T!Begin
  <2>4. load' \in Nat /\ load' # 0
    BY <1>2
  <2>5. cursor' \in 0 .. Len(watchers') + 1 /\ lastDirty' \in 0 .. Len(watchers') /\ cursor' # 0
    BY <2>1, <2>3
  <2> HIDE DEF n, new
  <2> QED BY <1>3, <1>4, <2>1, <2>2, <2>3, <2>4, <2>5 DEF TableTypes
<1> QED BY <1>2, <1>5, <1>7, BeginTypes DEF TableInv

(* The user sets the page, the rows of a page or the filter: the others    *)
(* stay, and the watcher of what was set is dirty when it changes.         *)
LEMMA SetKeeps ==
  ASSUME TableInv, NEW t \in Tables, T!Set(t),
         t.displayed = table.displayed, t.total = table.total, t.pages = table.pages,
         t.start = table.start, t.end = table.end,
         \/ /\ t.per = table.per /\ t.query = table.query
            /\ table.total = 0 \/ t.page \in 1 .. table.pages
         \/ t.page = table.page /\ t.query = table.query
         \/ t.page = table.page /\ t.per = table.per
  PROVE  TableInv'
<1> DEFINE n == Len(watchers)
<1>1. /\ cursor = 0 /\ load > 0 /\ table' = t /\ T!Begin
      /\ dataList' = dataList /\ load' = load /\ watchers' = watchers
  BY DEF T!Set
<1>2. /\ n \in Nat /\ n >= 5 /\ watchers[1].what = "currentPage"
      /\ watchers[2].what = "selectedRecordPerPage" /\ watchers[4].what = "query"
  BY <1>1 DEF TableInv, TableTypes, T!Watched
<1>3. \A i \in 1 .. n : Clean(i)
  BY <1>1 DEF TableInv, Between, AllClean
<1>4. Fit /\ PagesRight /\ IndexesRight /\ PageExists
  BY <1>1, <1>3 DEF TableInv, Tasks, Due
<1>5. TableTypes'
  <2>1. cursor' = 1 /\ dirty' = FALSE /\ lastDirty' = 0 /\ ttl' = TTL
    BY <1>1 DEF T!Begin
  <2>2. 1 \in 0 .. n + 1 /\ 0 \in 0 .. n /\ load # 0
    BY <1>1, <1>2
  <2>3. TableTypes
    BY DEF TableInv
  <2> HIDE DEF n
  <2>4. cursor' \in 0 .. n + 1 /\ cursor' # 0
    BY <2>1, <2>2
  <2>5. lastDirty' \in 0 .. n /\ dirty' \in BOOLEAN
    BY <2>1, <2>2
  <2> QED BY <1>1, <2>1, <2>2, <2>3, <2>4, <2>5 DEF TableTypes, n
<1>6. Tasks'
  <2>1. 1 \in 1 .. n /\ 2 \in 1 .. n /\ 4 \in 1 .. n
    BY <1>2
  <2>2. t.page # table.page => \A ks : "currentPage" \in ks => Due(ks)'
    <3>1. t.page # table.page => ~Clean(1)'
      BY <1>1, <1>2, <1>3, <2>1 DEF Clean, T!Get
    <3> QED BY <1>1, <1>2, <2>1, <3>1 DEF Due
  <2>3. t.per # table.per => \A ks : "selectedRecordPerPage" \in ks => Due(ks)'
    <3>1. t.per # table.per => ~Clean(2)'
      BY <1>1, <1>2, <1>3, <2>1 DEF Clean, T!Get
    <3> QED BY <1>1, <1>2, <2>1, <3>1 DEF Due
  <2>4. t.query # table.query => \A ks : "query" \in ks => Due(ks)'
    <3>1. t.query # table.query => ~Clean(4)'
      BY <1>1, <1>2, <1>3, <2>1 DEF Clean, T!Get
    <3> QED BY <1>1, <1>2, <2>1, <3>1 DEF Due
  <2>5. t.query = table.query => Fit'
    BY <1>1, <1>4 DEF Fit
  <2>6. t.per = table.per => PagesRight'
    BY <1>1, <1>4 DEF PagesRight
  <2>7. t.per = table.per /\ t.page = table.page => IndexesRight'
    BY <1>1, <1>4 DEF IndexesRight
  <2>8. t.per = table.per => PageExists'
    BY <1>1, <1>4 DEF PageExists, PagesRight
  <2> HIDE DEF n
  <2> QED BY <2>2, <2>3, <2>4, <2>5, <2>6, <2>7, <2>8 DEF Tasks
<1> QED BY <1>1, <1>5, <1>6, BeginTypes DEF TableInv

LEMMA UserKeeps ==
  ASSUME TableInv, T!UserStep, MaxDisplayed = 5
  PROVE  TableInv'
<1> DEFINE Page(n) == [table EXCEPT !.page = n]
<1>1. table \in Tables /\ table.page \in Nat /\ table.pages \in Nat /\ table.total \in Nat
  BY DEF TableInv, TableTypes, Tables
<1>2. ASSUME NEW n \in Nat, T!Set(Page(n)), table.total = 0 \/ n \in 1 .. table.pages
      PROVE  TableInv'
  <2> DEFINE t == Page(n)
  <2>1. /\ t \in Tables /\ SameRows(table, t) /\ t.pages = table.pages
        /\ t.start = table.start /\ t.end = table.end /\ t.per = table.per /\ t.page = n
    BY <1>1 DEF Tables, SameRows
  <2>2. T!Set(t)
    BY <1>2
  <2> HIDE DEF t
  <2> QED BY <1>2, <2>1, <2>2, SetKeeps DEF SameRows
\* Between digests the page is one of the table.
<1>3. ASSUME cursor = 0, load > 0
      PROVE  table.total = 0 \/ table.page \in 1 .. table.pages
  <2>1. \A i \in 1 .. Len(watchers) : Clean(i)
    BY <1>3 DEF TableInv, Between, AllClean
  <2>2. PagesRight /\ PageExists
    BY <1>3, <2>1 DEF TableInv, Tasks, Due
  <2> QED BY <2>2 DEF PagesRight, PageExists
<1>4. ASSUME NEW u, T!Set(u)
      PROVE  cursor = 0 /\ load > 0
  BY <1>4 DEF T!Set
<1>5. CASE T!ChangePage
  <2>1. PICK n \in T!Displayed(table) : T!Set(Page(n))
    BY <1>5 DEF T!ChangePage
  <2>2. table.total # 0 /\ n \in 1 .. table.pages
    <3>1. table.total # 0
      BY <2>1 DEF T!Displayed
    <3>2. table.page \in 1 .. table.pages
      BY <1>3, <1>4, <2>1, <3>1
    <3> QED BY <1>1, <2>1, <3>1, <3>2, DisplayedAre
  <2>3. n \in Nat
    BY <1>1, <2>2
  <2> HIDE DEF Page
  <2> QED BY <1>2, <2>1, <2>2, <2>3
<1>6. CASE T!PreviousPage
  <2>1. table.page > 1 /\ T!Set(Page(table.page - 1))
    BY <1>6 DEF T!PreviousPage
  <2>2. table.total = 0 \/ table.page \in 1 .. table.pages
    BY <1>3, <1>4, <2>1
  <2>3. table.page - 1 \in Nat /\ (table.total = 0 \/ table.page - 1 \in 1 .. table.pages)
    BY <1>1, <2>1, <2>2
  <2> HIDE DEF Page
  <2> QED BY <1>2, <2>1, <2>3
<1>7. CASE T!NextPage
  <2>1. table.page < table.pages /\ T!Set(Page(table.page + 1))
    BY <1>7 DEF T!NextPage
  <2>2. table.total = 0 \/ table.page \in 1 .. table.pages
    BY <1>3, <1>4, <2>1
  <2>3. table.page + 1 \in Nat /\ (table.total = 0 \/ table.page + 1 \in 1 .. table.pages)
    BY <1>1, <2>1, <2>2
  <2> HIDE DEF Page
  <2> QED BY <1>2, <2>1, <2>3
<1>8. CASE T!GotoFirstPage
  <2>1. T!Set(Page(1))
    BY <1>8 DEF T!GotoFirstPage
  <2>2. table.total = 0 \/ table.page \in 1 .. table.pages
    BY <1>3, <1>4, <2>1
  <2>3. table.total = 0 \/ 1 \in 1 .. table.pages
    BY <1>1, <2>2
  <2> HIDE DEF Page
  <2> QED BY <1>2, <2>1, <2>3
<1>9. CASE T!GotoLastPage
  <2>1. T!Set(Page(table.pages))
    BY <1>9 DEF T!GotoLastPage
  <2>2. table.total = 0 \/ table.page \in 1 .. table.pages
    BY <1>3, <1>4, <2>1
  <2>3. table.total = 0 \/ table.pages \in 1 .. table.pages
    BY <1>1, <2>2
  <2> HIDE DEF Page
  <2> QED BY <1>1, <1>2, <2>1, <2>3
<1>10. CASE T!SelectPerPage
  <2>1. PICK n \in PerPage : T!Set([table EXCEPT !.per = n])
    BY <1>10 DEF T!SelectPerPage
  <2> DEFINE t == [table EXCEPT !.per = n]
  <2>2. /\ t \in Tables /\ SameRows(table, t) /\ t.pages = table.pages
        /\ t.start = table.start /\ t.end = table.end /\ t.page = table.page
    BY <1>1, <2>1 DEF Tables, SameRows
  <2>3. T!Set(t)
    BY <2>1
  <2> HIDE DEF t
  <2> QED BY <2>2, <2>3, SetKeeps DEF SameRows
<1>11. CASE T!Filter
  <2>1. PICK q \in Queries : T!Set([table EXCEPT !.query = q])
    BY <1>11 DEF T!Filter
  <2> DEFINE t == [table EXCEPT !.query = q]
  <2>2. /\ t \in Tables /\ t.displayed = table.displayed /\ t.total = table.total
        /\ t.pages = table.pages /\ t.per = table.per
        /\ t.start = table.start /\ t.end = table.end /\ t.page = table.page
    BY <1>1, <2>1 DEF Tables
  <2>3. T!Set(t)
    BY <2>1
  <2> HIDE DEF t
  <2> QED BY <2>2, <2>3, SetKeeps
<1> QED BY <1>5, <1>6, <1>7, <1>8, <1>9, <1>10, <1>11 DEF T!UserStep

-----------------------------------------------------------------------------
(* The invariant, and what it says between digests.                        *)

LEMMA TableInit == ConsoleInit => TableInv
<1> SUFFICES ASSUME T!Init PROVE TableInv
  BY DEF ConsoleInit
<1>1. /\ dataList = <<>> /\ load = 0 /\ table = T!NewTable(<<>>) /\ watchers = <<>>
      /\ cursor = 0 /\ dirty = FALSE /\ lastDirty = 0 /\ ttl = TTL
  BY DEF T!Init
<1>2. <<>> \in Seq(Objects) /\ <<>> \in Seq(Watchers) /\ Len(watchers) = 0
  <2> HIDE DEF Objects, Watchers
  <2> QED BY <1>1
<1>3. table \in Tables
  BY <1>1, <1>2, NewTableIs
<1>4. cursor \in 0 .. Len(watchers) + 1 /\ lastDirty \in 0 .. Len(watchers) /\ load \in Nat /\ ~(load > 0)
  BY <1>1, <1>2
<1>5. dataList \in Seq(Objects) /\ watchers \in Seq(Watchers)
  BY <1>1, <1>2
<1>6. TableTypes
  BY <1>1, <1>3, <1>4, <1>5 DEF TableTypes
<1> QED BY <1>1, <1>4, <1>6 DEF TableInv, Digest, Between, Tasks

LEMMA TableStep ==
  ASSUME MaxDisplayed = 5, TableInv, [ConsoleNext]_consoleVars
  PROVE  TableInv'
<1>1. CASE GroupPage
  <2>1. T!DigestStep \/ T!Refresh \/ T!UserStep
    BY <1>1 DEF GroupPage, T!Next
  <2> QED BY <2>1, FireKeeps, PassKeeps, RoundKeeps, RefreshKeeps, UserKeeps DEF T!DigestStep
<1>2. CASE Go
  <2>1. /\ dataList' = <<>> /\ load' = 0 /\ table' = T!NewTable(<<>>) /\ watchers' = <<>>
        /\ ttl' = TTL /\ cursor = 0 /\ cursor' = cursor /\ dirty' = dirty /\ lastDirty' = lastDirty
    BY <1>2 DEF Go
  <2>2. <<>> \in Seq(Objects) /\ <<>> \in Seq(Watchers) /\ Len(watchers') = 0
    <3> HIDE DEF Objects, Watchers
    <3> QED BY <2>1
  <2>3. table' \in Tables
    BY <2>1, <2>2, NewTableIs
  <2>4. dirty \in BOOLEAN /\ lastDirty = 0
    BY <2>1 DEF TableInv, TableTypes
  <2>5. /\ cursor' \in 0 .. Len(watchers') + 1 /\ lastDirty' \in 0 .. Len(watchers')
        /\ load' \in Nat /\ ~(load' > 0)
    BY <2>1, <2>2, <2>4
  <2>6. dataList' \in Seq(Objects) /\ watchers' \in Seq(Watchers)
    BY <2>1, <2>2
  <2>7. TableTypes'
    BY <2>1, <2>3, <2>4, <2>5, <2>6 DEF TableTypes
  <2> QED BY <2>1, <2>5, <2>7 DEF TableInv, Digest, Between, Tasks
<1>3. CASE UNCHANGED groupVars
  <2>1. Still /\ UNCHANGED <<cursor, dirty, lastDirty, ttl>>
    BY <1>3 DEF groupVars, Still
  <2>2. TableTypes' /\ Tasks'
    <3>1. Tasks'
      BY <2>1, StillTasks DEF TableInv
    <3>2. TableTypes'
      BY <2>1 DEF TableInv, TableTypes, Still
    <3> QED BY <3>1, <3>2
  <2>3. Digest' /\ Between'
    BY <2>1, ZenonT(30) DEF TableInv, Digest, Between, AllClean, Clean, Fit, T!Get, Still
  <2> QED BY <2>2, <2>3 DEF TableInv
<1> QED BY <1>1, <1>2, <1>3 DEF ConsoleNext, DistSlotPage, Server, consoleVars

LEMMA Consistent ==
  ASSUME MaxDisplayed = 5, TableInv
  PROVE  TableConsistent
<1> DEFINE found == T!Filtered(dataList, table.query)
           start == (table.page - 1) * table.per + 1
<1>1. ttl > TTL - 3
  BY LimitIs DEF TableInv, TableTypes
<1>2. ASSUME cursor = 0, load > 0
      PROVE  /\ \A i \in DOMAIN watchers : watchers[i].last = T!Get(watchers[i].what)
             /\ table.total = Len(found)
             /\ found = <<>> => T!Rows = <<>>
             /\ found # <<>> =>
                  /\ table.pages = T!Pages(Len(found), table.per)
                  /\ table.page \in 1 .. T!Pages(Len(found), table.per)
                  /\ table.start = start
                  /\ table.end = T!Min({table.page * table.per, Len(found)})
                  /\ T!Rows = SubSeq(found, table.start, table.end)
                  /\ table.page \in T!Displayed(table)
                  /\ T!Displayed(table) \subseteq 1 .. T!Pages(Len(found), table.per)
                  /\ Cardinality(T!Displayed(table))
                       = T!Min({MaxDisplayed, T!Pages(Len(found), table.per)})
  <2>1. \A i \in 1 .. Len(watchers) : Clean(i)
    BY <1>2 DEF TableInv, Between, AllClean
  <2>2. Fit /\ PagesRight /\ IndexesRight /\ PageExists
    BY <1>2, <2>1 DEF TableInv, Tasks, Due
  <2>3. \A i \in DOMAIN watchers : watchers[i].last = T!Get(watchers[i].what)
    <3>1. DOMAIN watchers = 1 .. Len(watchers)
      BY DEF TableInv, TableTypes
    <3> QED BY <2>1, <3>1 DEF Clean
  <2>4. /\ table.displayed = found /\ table.total = Len(found)
        /\ found \in Seq(Objects) /\ Len(found) \in Nat
    <3>1. found \in Seq(Objects)
      BY FilteredType DEF TableInv, TableTypes
    <3> HIDE DEF Objects, found
    <3>2. Len(found) \in Nat
      BY <3>1
    <3> QED BY <2>2, <3>1, <3>2 DEF Fit, found
  <2>5. /\ table.page \in Nat /\ table.per \in Nat \ {0} /\ table.pages \in Nat
        /\ table.start \in Int /\ table.end \in Int
    BY TableAssumption DEF TableInv, TableTypes, Tables
  <2>6. start \in Int /\ start + table.per - 1 = table.page * table.per /\ table.page * table.per \in Nat
    <3>1. \A p \in Nat, m \in Nat : /\ (p - 1) * m + 1 \in Int /\ p * m \in Nat
                                   /\ (p - 1) * m + 1 + m - 1 = p * m
      OBVIOUS
    <3> QED BY <2>5, <3>1
  <2>7. found = <<>> => T!Rows = <<>>
    <3> SUFFICES ASSUME found = <<>> PROVE T!Rows = <<>>
      OBVIOUS
    <3>1. Len(found) = 0
      OBVIOUS
    <3>2. table.start < 1 \/ table.end < table.start
      <4>1. CASE table.start = 0
        BY <4>1
      <4>2. CASE table.start = start /\ table.end = T!Min({start + table.per - 1, 0})
        <5>1. table.end = 0
          <6>1. T!Min({table.page * table.per, 0}) = 0
            BY <2>6, MinOfTwo
          <6> QED BY <2>6, <4>2, <6>1
        <5> QED BY <2>5, <5>1
      <4> QED BY <2>2, <2>4, <3>1, <4>1, <4>2 DEF IndexesRight
    <3>3. CASE table.start < 1
      BY <3>3 DEF T!Rows
    <3>4. CASE ~(table.start < 1) /\ table.end < table.start
      <4>1. T!Rows = SubSeq(found, table.start, table.end)
        BY <2>4, <3>4 DEF T!Rows
      <4> HIDE DEF found, Objects
      <4> QED BY <2>4, <2>5, <3>4, <4>1
    <3> QED BY <3>2, <3>3, <3>4
  <2>8. ASSUME found # <<>>
        PROVE  /\ table.pages = T!Pages(Len(found), table.per)
               /\ table.page \in 1 .. T!Pages(Len(found), table.per)
               /\ table.start = start
               /\ table.end = T!Min({table.page * table.per, Len(found)})
               /\ T!Rows = SubSeq(found, table.start, table.end)
               /\ table.page \in T!Displayed(table)
               /\ T!Displayed(table) \subseteq 1 .. T!Pages(Len(found), table.per)
               /\ Cardinality(T!Displayed(table))
                    = T!Min({MaxDisplayed, T!Pages(Len(found), table.per)})
    <3>1. table.total # 0
      <4> HIDE DEF found, Objects
      <4> QED BY <2>4, <2>8
    <3>2. table.pages = T!Pages(Len(found), table.per) /\ table.page \in 1 .. table.pages
      BY <2>2, <2>4, <3>1 DEF PagesRight, PageExists
    <3>3. table.start = start /\ table.end = T!Min({table.page * table.per, Len(found)})
      <4>1. table.start = start /\ table.end = T!Min({table.start + table.per - 1, table.total})
        BY <2>2, <3>1 DEF IndexesRight
      <4> HIDE DEF start, found
      <4> QED BY <2>4, <2>6, <4>1
    <3>4. ~(table.start < 1)
      <4>1. \A p \in Nat \ {0}, m \in Nat : ~((p - 1) * m + 1 < 1)
        <5> TAKE p \in Nat \ {0}, m \in Nat
        <5>1. p - 1 \in Nat
          OBVIOUS
        <5>2. \A a \in Nat : ~(a * m + 1 < 1)
          OBVIOUS
        <5> QED BY <5>1, <5>2
      <4>2. table.page # 0
        BY <2>5, <3>2
      <4> QED BY <2>5, <3>3, <4>1, <4>2
    <3>5. T!Rows = SubSeq(found, table.start, table.end)
      BY <2>4, <3>4 DEF T!Rows
    <3>6. /\ table.page \in T!Displayed(table) /\ T!Displayed(table) \subseteq 1 .. table.pages
          /\ Cardinality(T!Displayed(table)) = T!Min({MaxDisplayed, table.pages})
      BY <2>5, <3>1, <3>2, DisplayedAre
    <3> HIDE DEF found, start
    <3> QED BY <3>2, <3>3, <3>5, <3>6
  <2> HIDE DEF found, start
  <2> QED BY <2>3, <2>4, <2>7, <2>8
<1>3. \A S : T!Cardinality(S) = Cardinality(S)
  BY DEF T!Cardinality, Cardinality
<1> QED BY <1>1, <1>2, <1>3, Zenon DEF TableConsistent, T!PageConsistent

-----------------------------------------------------------------------------
(* Theorems.                                                               *)

(* Whatever the server answers and the user does, a digest of the page of  *)
(* the groups takes at most three rounds and leaves the table consistent.  *)
(* Five is the number in baseTableSrv.js: with three, the two pages either *)
(* side of the current one are too many, with seven a page 0 is offered.   *)
THEOREM TableCorrect == MaxDisplayed = 5 => (ConsoleSpec => []TableConsistent)
<1> SUFFICES ASSUME MaxDisplayed = 5 PROVE ConsoleSpec => []TableConsistent
  OBVIOUS
<1>1. TableInv /\ [ConsoleNext]_consoleVars => TableInv'
  BY TableStep
<1>2. TableInv => TableConsistent
  BY Consistent
<1> QED BY <1>1, <1>2, TableInit, PTL DEF ConsoleSpec

\* A step of the console is one of the distribution or leaves it alone.
LEMMA ConsoleImplements == ConsoleSpec => Spec
<1>1. ConsoleInit => Init
  BY DEF ConsoleInit
<1>2. [ConsoleNext]_consoleVars => [Next]_distVars
  <2>1. Go \/ GroupPage \/ UNCHANGED consoleVars => UNCHANGED distVars
    BY DEF Go, GroupPage, consoleVars
  <2> QED BY <2>1 DEF ConsoleNext, DistSlotPage, Server, Next
<1> QED BY <1>1, <1>2, PTL DEF ConsoleSpec, Spec

(* The console, whose page of the distribution is opened after the table,  *)
(* keeps what is proved of the distribution alone.                         *)
THEOREM ConsoleDistributes ==
  ConsoleSpec => []DistributedAsAsked /\ MigratedStays /\ []LastFailureShown
BY ConsoleImplements, DistributedCorrect, StaysCorrect, FailureCorrect

=============================================================================

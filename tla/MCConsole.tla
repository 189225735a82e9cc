----------------------------- MODULE MCConsole -----------------------------
EXTENDS Console

CONSTANTS g1, g2

Row(a, b, g) == [from |-> a, to |-> b, group |-> g]

\* A slot twice in a chunk, and a chunk that is not full; a row out of
\* range behind a chunk and a half.
RowLists == {
  <<Row(0, 0, g1), Row(0, 0, g2), Row(1, 1, g1)>>,
  <<Row(0, 1, g1), Row(0, 0, g2), Row(1, 2, g1)>> }

\* No group, one page and a half, and more pages than are offered.
GroupLists == {<<>>, <<1, 2, 3>>, <<1, 2, 3, 4, 5, 6, 7>>}

Found == [q \in {"", "odd", "none"} |->
  IF q = "" THEN 1 .. 7 ELSE IF q = "odd" THEN {1, 3, 5, 7} ELSE {}]
=============================================================================

-------------------------------- MODULE Queries --------------------------------
(***************************************************************************)
(* What the queries of db/query/ say in SQL: ORDER BY, LIMIT and OFFSET,   *)
(* and SUM, over the rows that a WHERE has selected.                       *)
(***************************************************************************)
EXTENDS Integers, Sequences, FiniteSets, FiniteSetsExt

\* The rows of S in an order; ahead[r] has the rows that come before r in it.
OrderBy(S, ahead) ==
    LET placed == {<<r, Cardinality(S \cap ahead[r])>> : r \in S}
    IN  [k \in 1 .. Cardinality(S) |-> CHOOSE r \in S : <<r, k - 1>> \in placed]

\* The orders of rows that are numbered as they are inserted.
Oldest == [i \in Nat |-> {j \in Nat : j < i}]
Latest == [i \in Nat |-> {j \in Nat : j > i}]

\* LIMIT and OFFSET, as far as there are rows.
Cut(list, limit, offset) ==
    SubSeq(list, offset + 1, IF offset + limit > Len(list) THEN Len(list) ELSE offset + limit)

\* The SUM of a column.
SumOf(f, S) == MapThenSumSet(LAMBDA x : f[x], S)
================================================================================

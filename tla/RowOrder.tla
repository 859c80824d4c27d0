------------------------------ MODULE RowOrder ------------------------------
(***************************************************************************)
(* The rows a statement finds, one after the other, in the order of their  *)
(* ids, which are positions in the models.                                 *)
(***************************************************************************)
EXTENDS Naturals, FiniteSets

\* The n-th of some rows.
Nth(ids, n) == CHOOSE i \in ids : Cardinality({j \in ids : j <= i}) = n

\* Some rows of a table, and only these.
RowsOf(rows, ids) == [n \in 1 .. Cardinality(ids) |-> rows[Nth(ids, n)]]
=============================================================================

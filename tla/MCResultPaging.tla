--------------------------- MODULE MCResultPaging ---------------------------
(***************************************************************************)
(* All combinations of small tables, LIMIT and OFFSET clauses and page     *)
(* sizes, 0 among them, and connectors that apply less or more of the      *)
(* clauses; the client may need one page more than there are rows.         *)
(***************************************************************************)
EXTENDS ResultPaging

SomeLimits == {NoLimit, 0, 1, 3, 4}
AnyPageSize == {NoLimit, 0, 1, 2, 3}
=============================================================================

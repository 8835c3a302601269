------------------------- MODULE MCMaterializedViews -------------------------
(***************************************************************************)
(* A view that is replaced by one with another query, or with the same,    *)
(* a request in flight beside the scheduler, and a source that changes.    *)
(***************************************************************************)
EXTENDS MaterializedViews

CONSTANTS h1, h2

QueryTexts == {"select_a", "select_b"}
TwoHandlers == {h1, h2}
OneHandler == {h1}
==============================================================================

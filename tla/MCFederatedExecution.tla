------------------------ MODULE MCFederatedExecution ------------------------
(***************************************************************************)
(* Three queries on two datasources: a single-source query, a union with   *)
(* fewer permits than sources and a join overlap.                          *)
(***************************************************************************)
EXTENDS FederatedExecution

MCDatasources == {"a", "b"}
MCQueries == {"s", "u", "j"}
MCKind == [s |-> "single", u |-> "union", j |-> "join"]
MCRefs == [s |-> <<"a">>, u |-> <<"a", "b", "a">>, j |-> <<"b", "a">>]
MCConcurrency == [a |-> 2, b |-> 1]
=============================================================================

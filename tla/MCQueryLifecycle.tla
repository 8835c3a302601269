-------------------------- MODULE MCQueryLifecycle --------------------------
(***************************************************************************)
(* Two queries: enough for one to be cancelled or to disconnect while the  *)
(* other runs, finishes, or arrives while the server drains.               *)
(***************************************************************************)
EXTENDS QueryLifecycle

CONSTANTS q1, q2

MCQueries == {q1, q2}
=============================================================================

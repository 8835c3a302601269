---------------------------- MODULE MCTransactions ----------------------------
(***************************************************************************)
(* Three ids, which are reused, in a store for two; three writes, one of   *)
(* them of two batches; two COMMITs in flight.                             *)
(***************************************************************************)
EXTENDS Transactions

CONSTANTS t1, t2, t3, w1, w2, w3, r1, r2

TxnIds == {t1, t2, t3}
WriteIds == {w1, w2, w3}
RequestIds == {r1, r2}
BatchesOf == [w \in WriteIds |-> IF w = w1 THEN 2 ELSE 1]
=============================================================================

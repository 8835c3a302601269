---------------------------- MODULE MCQueryCache ----------------------------
(***************************************************************************)
(* Three keys against room for two, and results of one, two and four bytes *)
(* against a budget of three: both eviction loops run, together and alone, *)
(* and a result may be over the budget by itself.                          *)
(***************************************************************************)
EXTENDS QueryCache

CONSTANTS k1, k2, k3

MCKeys == {k1, k2, k3}
MCBatches == {1, 2, 4}
MCSizeOf == [b \in MCBatches |-> b]
MCTtls == {0, 1}
Symmetry == Permutations(MCKeys)
=============================================================================

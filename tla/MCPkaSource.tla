----------------------------- MODULE MCPkaSource -----------------------------
(* Bounds for model-checking PkaSource.                                    *)
EXTENDS PkaSource, TLC

Symmetry == Permutations(Subscriptions)
=============================================================================

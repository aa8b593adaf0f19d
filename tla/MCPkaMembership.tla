--------------------------- MODULE MCPkaMembership ---------------------------
(* Two subscriptions, two sources and a channel that may have both: one    *)
(* call of the channel can then reach several subscriptions, and one call  *)
(* of a subscription several sources.                                      *)
EXTENDS PkaMembership, TLC

Symmetry == Permutations(Subscriptions) \cup Permutations(Sources)
=============================================================================

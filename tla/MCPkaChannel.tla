---------------------------- MODULE MCPkaChannel ----------------------------
(* One channel with two sources and two processes it could spawn.          *)
EXTENDS PkaChannel, TLC

CONSTANTS s1, s2, p1, p2

Symmetry == Permutations({s1, s2}) \cup Permutations({p1, p2})
=============================================================================

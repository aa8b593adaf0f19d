-------------------------- MODULE MCPkaSharedWorker --------------------------
(* Two sources, one sampled on every tick of the clock and one on every    *)
(* second tick.                                                            *)
EXTENDS PkaSharedWorker

CONSTANTS fast, slow

MCFreq == [s \in {fast, slow} |-> IF s = fast THEN 1 ELSE 2]
=============================================================================

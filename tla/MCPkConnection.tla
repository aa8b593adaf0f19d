--------------------------- MODULE MCPkConnection ---------------------------
(* Two threads and three calls: two that nest and one from elsewhere.      *)
EXTENDS PkConnection

CONSTANTS main, worker
=============================================================================

---------------------------- MODULE MCPkaSampling ----------------------------
(* One source; its channel attaches to a process or to none, so that only  *)
(* calls stop it (the channel's own run has the inferior).                 *)
EXTENDS PkaSampling

CONSTANT s1
=============================================================================

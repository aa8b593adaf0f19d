---------------------------- MODULE MCPkDelivery ----------------------------
EXTENDS PkDelivery, TLC

CONSTANTS s1, s2

(* One whose handlers are replaced, and one whose arrival disturbs it.     *)
OneReplaced == (s1 :> 2) @@ (s2 :> 1)
=============================================================================

------------------------------- MODULE PkValues -------------------------------
(***************************************************************************)
(* The two values that the client library and the agent have in common:    *)
(* the null pointer and the string without characters.                     *)
(***************************************************************************)
EXTENDS Integers

CONSTANTS
  NULL,
  Empty   \* the string ""

\* NULL is no number.
ASSUME ValuesAssumption == NULL # Empty /\ NULL \notin Int
=============================================================================

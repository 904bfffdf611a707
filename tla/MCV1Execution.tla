--------------------------- MODULE MCV1Execution ---------------------------
(* Instances of V1Execution for TLC. *)
EXTENDS V1Execution
=============================================================================

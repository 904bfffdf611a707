---------------------------- MODULE MCLifecycle ----------------------------
(* Instances of AnalysisLifecycle for TLC. *)
EXTENDS AnalysisLifecycle, TLC

\* Requests are interchangeable.
Symmetry == Permutations(Request)
=============================================================================

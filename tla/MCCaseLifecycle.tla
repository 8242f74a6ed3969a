-------------------------- MODULE MCCaseLifecycle --------------------------
(* Small instances of CaseLifecycle for TLC. *)
EXTENDS CaseLifecycle, TLC

\* Calls are interchangeable.
Symmetry == Permutations(Calls)
=============================================================================

------------------------------ MODULE MCJobRun ------------------------------
(* Small instances of JobRun for TLC. *)
EXTENDS JobRun, TLC

\* Triggers and submissions are interchangeable.
Symmetry == Permutations(Runs) \cup Permutations(Submits)
=============================================================================

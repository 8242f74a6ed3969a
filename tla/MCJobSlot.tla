----------------------------- MODULE MCJobSlot -----------------------------
(* Small instances of JobSlot for TLC. *)
EXTENDS JobSlot, TLC

\* Acquisitions are interchangeable.
Symmetry == Permutations(Runs)
=============================================================================

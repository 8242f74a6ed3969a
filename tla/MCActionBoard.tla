---------------------------- MODULE MCActionBoard ----------------------------
\* Calls are interchangeable.
EXTENDS ActionBoard, TLC

Symmetry == Permutations(Calls)
=============================================================================

---------------------------- MODULE MCProposal ----------------------------
(* Small instances of Proposal for TLC. *)
EXTENDS Proposal, TLC

\* Calls are interchangeable, and so are workspaces.
Symmetry == Permutations(Calls) \cup Permutations(Workspaces)
=============================================================================

---------------------------- MODULE MCAgentProc ----------------------------
(* Small instances of AgentProc for TLC. *)
EXTENDS AgentProc, TLC

\* Processes, instances, subjects, keys and event ids are interchangeable.
Symmetry == Permutations(Procs) \cup Permutations(Actors)
              \cup Permutations(Subjects) \cup Permutations(EventIDs)
=============================================================================

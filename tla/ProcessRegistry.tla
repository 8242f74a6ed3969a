-------------------------- MODULE ProcessRegistry --------------------------
(***************************************************************************)
(* What the durable Process store promises its callers, with no documents, *)
(* revisions or leases in it: a subject (one thread, one Job on one case)  *)
(* has at most one open Process, an idempotency key starts at most one     *)
(* Process ever, and a Process that ended stays ended.  AgentProc is shown *)
(* to implement this specification.                                        *)
(***************************************************************************)

CONSTANTS Procs,      \* process ids
          Subjects,   \* what a process may hold exclusively while it is open
          Keys        \* idempotency keys

VARIABLES holders,    \* subject -> the open processes that hold it
          started,    \* key -> the processes ever started under it
          ended       \* the processes that reached a terminal status

vars == <<holders, started, ended>>

Init ==
  /\ holders = [s \in Subjects |-> {}]
  /\ started = [k \in Keys |-> {}]
  /\ ended = {}

\* One change set starts a batch of processes.  on[s] and under[k] are the
\* newcomers that hold s and carry k: at most one of each, and only where
\* nobody was before.
Start ==
  \E on \in [Subjects -> SUBSET Procs], under \in [Keys -> SUBSET Procs] :
    /\ \A s \in Subjects : on[s] # {} =>
         /\ holders[s] = {}
         /\ \A p, q \in on[s] : p = q
         /\ on[s] \cap ended = {}
    /\ \A k \in Keys : under[k] # {} =>
         /\ started[k] = {}
         /\ \A p, q \in under[k] : p = q
         /\ under[k] \cap ended = {}
    /\ holders' = [s \in Subjects |-> holders[s] \cup on[s]]
    /\ started' = [k \in Keys |-> started[k] \cup under[k]]
    /\ UNCHANGED ended

\* A process ends: it gives its subject up and keeps its key.
End(p) ==
  /\ p \notin ended
  /\ ended' = ended \cup {p}
  /\ holders' = [s \in Subjects |-> holders[s] \ {p}]
  /\ UNCHANGED started

Next == Start \/ \E p \in Procs : End(p)

Spec == Init /\ [][Next]_vars
=============================================================================

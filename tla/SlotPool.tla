------------------------------ MODULE SlotPool ------------------------------
(***************************************************************************)
(* What the deployment-wide limit on scheduled runs promises, with no      *)
(* records, clocks or heartbeats in it: a counting semaphore whose holds   *)
(* may lapse.  A run is admitted while fewer than Limit are; one whose     *)
(* hold lapsed goes on outside the limit, and counts again only if there   *)
(* is room; a run is over once.  JobSlot is shown to implement this        *)
(* specification.                                                          *)
(***************************************************************************)
EXTENDS Naturals, FiniteSets

CONSTANTS Runs, Limit

VARIABLE state     \* run -> asking, admitted, lapsed or over

Admitted == {r \in Runs : state[r] = "admitted"}
Room     == Cardinality(Admitted) < Limit

Init == state = [r \in Runs |-> "asking"]

\* A slot is taken, or taken again by a late renewal.
Admit(r) ==
  /\ state[r] \in {"asking", "lapsed"} /\ Room
  /\ state' = [state EXCEPT ![r] = "admitted"]

\* Time passes, and some holds lapse at once.
Lapse ==
  \E late \in SUBSET Admitted :
    state' = [r \in Runs |-> IF r \in late THEN "lapsed" ELSE state[r]]

\* The run has ended, or its instance is dead.
End(r) ==
  /\ state[r] \in {"admitted", "lapsed"}
  /\ state' = [state EXCEPT ![r] = "over"]

Next == Lapse \/ \E r \in Runs : Admit(r) \/ End(r)

Spec == Init /\ [][Next]_state
=============================================================================

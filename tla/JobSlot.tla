------------------------------ MODULE JobSlot ------------------------------
(***************************************************************************)
(* The deployment-wide limit on concurrently executing scheduled runs:     *)
(* ConcurrencyLimiter in pkg/usecase/job/slot.go over the slot documents   *)
(* of pkg/repository/firestore/job_slot.go, asked once per claim by        *)
(* slotGuard in pkg/agent/kernel/slot.go.                                  *)
(*                                                                         *)
(* There are Limit slot documents.  A run holds one by a record that       *)
(* expires TTL after its last renewal; a heartbeat renews it while the run *)
(* executes.  Instants are kept as the time left until them, so there is   *)
(* no clock to bound: Tick lets one unit of time pass everywhere.  The     *)
(* instances' clocks differ by at most Skew, and the offset of a run is    *)
(* how far its instance's clock is ahead of the slowest.                   *)
(***************************************************************************)
EXTENDS Naturals, FiniteSets

CONSTANTS Runs,           \* acquisitions, each with a holder id of its own
          Limit,          \* number of slots
          TTL, RenewInterval, MaxHold,
          Skew,           \* how far apart two instances' clocks may be
          MaxFailures,    \* bound: failed calls and crashes in a behaviour
          None

ASSUME LimiterAssumption ==
  /\ Limit \in Nat \ {0} /\ TTL \in Nat \ {0} /\ MaxFailures \in Nat
  /\ RenewInterval \in Nat \ {0} /\ RenewInterval < TTL
  /\ MaxHold \in Nat /\ TTL <= MaxHold
  /\ None \notin Runs

\* Not checked by the code: clocks are closer than the slack of one heartbeat.
ASSUME ClockAssumption == Skew \in Nat /\ RenewInterval + Skew < TTL

VARIABLES
  slots,     \* index -> the record: its holder and the time left to ExpiresAt
  stage,     \* run -> waiting, probing, running, done or dead
  toTry,     \* run -> the indices that looked free and were not tried yet
  index,     \* run -> the slot it acquired
  beat,      \* run -> time left to the heartbeat's next tick
  age,       \* run -> time since it acquired, up to just past MaxHold
  renewing,  \* run -> is its heartbeat goroutine alive?
  inflight,  \* run -> is a renewal on its way to the repository?
  fails,     \* run -> consecutiveFailures of its heartbeat
  told,      \* run -> time left to the last ExpiresAt it wrote successfully
  offset,    \* run -> its clock's lead over the slowest clock
  failures   \* failed calls and crashes so far

vars == <<slots, stage, toTry, index, beat, age, renewing, inflight, fails,
          told, offset, failures>>

Indices == 0..(Limit - 1)
Free == [holder |-> None, left |-> 0]

\* Faulty: the record outlives its TTL by a heartbeat.
OccupiedLonger(r) ==
  [holder |-> r, left |-> TTL + RenewInterval + offset[r]]

\* The record r writes: ExpiresAt is TTL after the present on its own clock.
Occupied(r) == [holder |-> r, left |-> TTL + offset[r]]

TypeOK ==
  /\ slots \in [Indices -> [holder : Runs \cup {None}, left : 0..(TTL + Skew)]]
  /\ stage \in [Runs -> {"waiting", "probing", "running", "done", "dead"}]
  /\ toTry \in [Runs -> SUBSET Indices]
  /\ index \in [Runs -> Indices]
  /\ beat \in [Runs -> 0..RenewInterval]
  /\ age \in [Runs -> 0..(MaxHold + 1)]
  /\ renewing \in [Runs -> BOOLEAN]
  /\ inflight \in [Runs -> BOOLEAN]
  /\ fails \in [Runs -> Nat]
  /\ told \in [Runs -> 0..(TTL + Skew)]
  /\ offset \in [Runs -> 0..Skew]
  /\ failures \in Nat

Init ==
  /\ slots = [i \in Indices |-> Free]
  /\ stage = [r \in Runs |-> "waiting"]
  /\ toTry = [r \in Runs |-> {}]
  /\ index = [r \in Runs |-> 0]
  /\ beat = [r \in Runs |-> 0]
  /\ age = [r \in Runs |-> 0]
  /\ renewing = [r \in Runs |-> FALSE]
  /\ inflight = [r \in Runs |-> FALSE]
  /\ fails = [r \in Runs |-> 0]
  /\ told = [r \in Runs |-> 0]
  /\ offset \in [Runs -> 0..Skew]
  /\ failures = 0
-----------------------------------------------------------------------------
(***************************************************************************)
(* Admission.                                                              *)
(***************************************************************************)

\* Faulty: a record is held for as long as it is stored.
HeldWhileStored(i, r) == slots[i].holder # None

\* JobSlot.IsHeld on the clock of r: a record that expires right now is free.
IsHeld(i, r) == slots[i].holder # None /\ slots[i].left > offset[r]

\* The gate lists the slots and keeps the indices that look free.
List(r) ==
  /\ stage[r] = "waiting"
  /\ stage' = [stage EXCEPT ![r] = "probing"]
  /\ toTry' = [toTry EXCEPT ![r] = {i \in Indices : ~IsHeld(i, r)}]
  /\ UNCHANGED <<slots, index, beat, age, renewing, inflight, fails, told,
                 offset, failures>>

\* Faulty: an index that looked free in the list is taken without a second look.
TakeListed(r, i) ==
  /\ stage[r] = "probing" /\ i \in toTry[r]
  /\ slots' = [slots EXCEPT ![i] = Occupied(r)]
  /\ told' = [told EXCEPT ![r] = TTL + offset[r]]
  /\ stage' = [stage EXCEPT ![r] = "running"]
  /\ toTry' = [toTry EXCEPT ![r] = {}]
  /\ index' = [index EXCEPT ![r] = i]
  /\ beat' = [beat EXCEPT ![r] = RenewInterval]
  /\ renewing' = [renewing EXCEPT ![r] = TRUE]
  /\ UNCHANGED <<age, inflight, fails, offset, failures>>

\* A transaction takes the index if it is free now as well; the heartbeat
\* starts.
TryAcquire(r, i) ==
  /\ stage[r] = "probing" /\ i \in toTry[r]
  /\ ~IsHeld(i, r)
  /\ slots' = [slots EXCEPT ![i] = Occupied(r)]
  /\ told' = [told EXCEPT ![r] = TTL + offset[r]]
  /\ stage' = [stage EXCEPT ![r] = "running"]
  /\ toTry' = [toTry EXCEPT ![r] = {}]
  /\ index' = [index EXCEPT ![r] = i]
  /\ beat' = [beat EXCEPT ![r] = RenewInterval]
  /\ renewing' = [renewing EXCEPT ![r] = TRUE]
  /\ UNCHANGED <<age, inflight, fails, offset, failures>>

\* The race for the index was lost: the next one that looked free.
LoseIndex(r, i) ==
  /\ stage[r] = "probing" /\ i \in toTry[r]
  /\ IsHeld(i, r)
  /\ toTry' = [toTry EXCEPT ![r] = @ \ {i}]
  /\ UNCHANGED <<slots, stage, index, beat, age, renewing, inflight, fails,
                 told, offset, failures>>

\* No index is left, or the repository failed: the claim is refused and asked
\* for again after a backoff.
Refuse(r) ==
  /\ stage[r] = "probing"
  /\ \/ toTry[r] = {} /\ UNCHANGED failures
     \/ toTry[r] # {} /\ failures < MaxFailures /\ failures' = failures + 1
  /\ stage' = [stage EXCEPT ![r] = "waiting"]
  /\ toTry' = [toTry EXCEPT ![r] = {}]
  /\ UNCHANGED <<slots, index, beat, age, renewing, inflight, fails, told,
                 offset>>
-----------------------------------------------------------------------------
(***************************************************************************)
(* The heartbeat.                                                          *)
(***************************************************************************)

\* Faulty: the heartbeat has no deadline.
NeverPastDeadline(r) == FALSE

PastDeadline(r) == age[r] > MaxHold

\* The ticker fires: past the deadline the heartbeat ends, before it a renewal
\* is sent.
Beat(r) ==
  /\ renewing[r] /\ ~inflight[r] /\ beat[r] = 0
  /\ beat' = [beat EXCEPT ![r] = RenewInterval]
  /\ renewing' = [renewing EXCEPT ![r] = ~PastDeadline(r)]
  /\ inflight' = [inflight EXCEPT ![r] = ~PastDeadline(r)]
  /\ UNCHANGED <<slots, stage, toTry, index, age, fails, told, offset,
                 failures>>

\* Faulty: a renewal does not look at whose record it extends.
HoldsAnyRecord(r) == slots[index[r]].holder # None

\* The record is still there and still names this acquisition.
HoldsRecord(r) == slots[index[r]].holder = r

\* Renew: extend the record, or learn that it is gone or taken over.
Renew(r) ==
  /\ inflight[r]
  /\ inflight' = [inflight EXCEPT ![r] = FALSE]
  /\ IF HoldsRecord(r)
     THEN /\ slots' = [slots EXCEPT ![index[r]] = Occupied(r)]
          /\ told' = [told EXCEPT ![r] = TTL + offset[r]]
          /\ fails' = [fails EXCEPT ![r] = 0]
          /\ UNCHANGED renewing
     ELSE /\ renewing' = [renewing EXCEPT ![r] = FALSE]
          /\ UNCHANGED <<slots, told, fails>>
  /\ UNCHANGED <<stage, toTry, index, beat, age, offset, failures>>

\* A transient failure does not end the heartbeat.
RenewFails(r) ==
  /\ inflight[r] /\ failures < MaxFailures
  /\ inflight' = [inflight EXCEPT ![r] = FALSE]
  /\ fails' = [fails EXCEPT ![r] = @ + 1]
  /\ failures' = failures + 1
  /\ UNCHANGED <<slots, stage, toTry, index, beat, age, renewing, told, offset>>
-----------------------------------------------------------------------------
(***************************************************************************)
(* The end of the claim.                                                   *)
(***************************************************************************)

\* Faulty: the slot at the index is deleted, whoever holds it.
FreedBlindly(r) == [slots EXCEPT ![index[r]] = Free]

\* Release deletes the record only if it still names this acquisition.
Freed(r) ==
  IF HoldsRecord(r) THEN [slots EXCEPT ![index[r]] = Free] ELSE slots

\* The run is over: the heartbeat is stopped but not waited for, and the slot
\* is given back, or the call fails and the record is left to expire.
Release(r) ==
  /\ stage[r] = "running"
  /\ stage' = [stage EXCEPT ![r] = "done"]
  /\ renewing' = [renewing EXCEPT ![r] = FALSE]
  /\ \/ slots' = Freed(r) /\ UNCHANGED failures
     \/ /\ failures < MaxFailures /\ failures' = failures + 1
        /\ UNCHANGED slots
  /\ UNCHANGED <<toTry, index, beat, age, inflight, fails, told, offset>>

\* The instance dies; nobody releases, nobody renews.
Crash(r) ==
  /\ stage[r] = "running" /\ failures < MaxFailures
  /\ failures' = failures + 1
  /\ stage' = [stage EXCEPT ![r] = "dead"]
  /\ renewing' = [renewing EXCEPT ![r] = FALSE]
  /\ inflight' = [inflight EXCEPT ![r] = FALSE]
  /\ UNCHANGED <<slots, toTry, index, beat, age, fails, told, offset>>
-----------------------------------------------------------------------------
Less(n) == IF n > 0 THEN n - 1 ELSE 0

\* Time passes.  A heartbeat that is due fires, and a renewal that is on its
\* way arrives or fails, within one unit.
Tick ==
  /\ \A r \in Runs : ~inflight[r] /\ (renewing[r] => beat[r] > 0)
  /\ slots' = [i \in Indices |-> [slots[i] EXCEPT !.left = Less(@)]]
  /\ beat' = [r \in Runs |-> Less(beat[r])]
  /\ told' = [r \in Runs |-> Less(told[r])]
  /\ age' = [r \in Runs |-> IF stage[r] = "running" /\ age[r] <= MaxHold
                            THEN age[r] + 1 ELSE age[r]]
  /\ UNCHANGED <<stage, toTry, index, renewing, inflight, fails, offset,
                 failures>>

RunNext(r) ==
  \/ List(r)
  \/ \E i \in Indices : TryAcquire(r, i) \/ LoseIndex(r, i)
  \/ Refuse(r)
  \/ Beat(r) \/ Renew(r) \/ RenewFails(r)
  \/ Release(r) \/ Crash(r)

Next == Tick \/ \E r \in Runs : RunNext(r)

Spec == Init /\ [][Next]_vars

\* The worker asks again after every refusal, the heartbeat runs and time
\* passes.  A run need never end.
Fairness ==
  /\ WF_vars(Tick)
  /\ \A r \in Runs :
       /\ WF_vars(List(r))
       /\ WF_vars(\E i \in Indices : TryAcquire(r, i) \/ LoseIndex(r, i))
       /\ WF_vars(Refuse(r))
       /\ WF_vars(Beat(r))
       /\ WF_vars(Renew(r))

FairSpec == Spec /\ Fairness
-----------------------------------------------------------------------------
(***************************************************************************)
(* Properties.                                                             *)
(***************************************************************************)

\* The runs whose last successful renewal no clock sees as expired.
Covered == {r \in Runs : stage[r] = "running" /\ told[r] > Skew}

\* At most Limit runs execute under a hold that has not lapsed: what exceeds
\* the limit are only runs the documentation lets exceed it, whose record
\* expired under them.
CoveredWithinLimit == Cardinality(Covered) <= Limit

\* A run whose heartbeat works is never one of the excess: no other instance
\* takes its slot, whatever its clock, until the hold is older than MaxHold.
HealthyRunKeepsSlot ==
  \A r \in Runs :
    stage[r] = "running" /\ renewing[r] /\ fails[r] = 0 /\ age[r] <= MaxHold
      => HoldsRecord(r) /\ slots[index[r]].left > Skew

\* A slot changes hands only when its holder gives it up or some clock sees its
\* record as expired; a late renewal or release of a former holder never evicts
\* the present one.
NobodyEvicted ==
  [][\A i \in Indices :
       slots[i].holder # None /\ slots'[i].holder # slots[i].holder =>
         \/ slots[i].left <= Skew
         \/ stage'[slots[i].holder] = "done"]_vars

\* No slot is lost: the record of a run that crashed, leaked its hold or failed
\* to release expires, with no sweep to clean it up.
NoSlotPinned ==
  \A i \in Indices, r \in Runs :
    slots[i].holder = r ~> slots[i].holder # r \/ slots[i].left = 0

\* A full gate delays a claim and never strands it: a run that keeps asking is
\* admitted, even if the runs before it never end.
WaitingIsAdmitted ==
  \A r \in Runs : stage[r] = "waiting" ~> stage[r] \in {"running", "done", "dead"}

\* How a run stands with the limit: its hold counts while no clock sees it as
\* lapsed.
Standing(r) ==
  IF stage[r] \in {"waiting", "probing"} THEN "asking"
  ELSE IF stage[r] # "running" THEN "over"
  ELSE IF told[r] > Skew THEN "admitted" ELSE "lapsed"

\* The limiter implements the semaphore it promises.
Pool == INSTANCE SlotPool WITH state <- [r \in Runs |-> Standing(r)]

\* Refinement of the abstract semaphore: nobody is admitted, or counted again by a
\* late renewal, while Limit others are, whatever clocks, crashes and renewals do.
ImplementsPool == Pool!Spec
=============================================================================

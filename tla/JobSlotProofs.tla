---------------------------- MODULE JobSlotProofs ----------------------------
(***************************************************************************)
(* Proofs about JobSlot, for any number of runs and slots, any TTL,        *)
(* renewal interval and skew that satisfy the assumptions, and any number  *)
(* of failures.                                                            *)
(*                                                                         *)
(* A record and its holder agree on when it expires (RecordsTold).  So a   *)
(* record that a run takes over was one whose holder was no longer         *)
(* covered, and a covered run still has its record (CoveredHold).  That a  *)
(* healthy run is covered is a matter of time (InTime): a renewal is sent  *)
(* and has arrived before the last one is as old as its record lives.      *)
(*                                                                         *)
(* Last, the slots implement SlotPool: a slot at which no covered run is   *)
(* has room for another, whether it is empty or its record is left over.   *)
(***************************************************************************)
EXTENDS JobSlot, FiniteSetTheorems, TLAPS
-----------------------------------------------------------------------------
(***************************************************************************)
(* The inductive invariant.                                                *)
(***************************************************************************)

\* A record is that of the run it names, which knows where it is and until when.
RecordsTold ==
  \A i \in Indices, r \in Runs :
    slots[i].holder = r =>
      /\ index[r] = i /\ slots[i].left = told[r]
      /\ stage[r] \in {"running", "done", "dead"}

CoveredHold == \A r \in Covered : HoldsRecord(r)

\* While no renewal fails, what is left of the hold is what was left when the
\* last one arrived, less what the ticker has run down since.
InTime ==
  \A r \in Runs :
    /\ renewing[r] => stage[r] = "running"
    /\ inflight[r] => beat[r] = RenewInterval
                      /\ stage[r] \in {"running", "done"}
    /\ renewing[r] /\ fails[r] = 0 =>
         told[r] + RenewInterval
           >= TTL + offset[r] + (IF inflight[r] THEN 0 ELSE beat[r])

IInv == TypeOK /\ RecordsTold /\ CoveredHold /\ InTime
-----------------------------------------------------------------------------
\* The types of what a step of a run reads.
LEMMA Fields ==
  ASSUME TypeOK
  PROVE  /\ TTL \in Nat /\ Skew \in Nat /\ RenewInterval \in Nat
         /\ RenewInterval > 0 /\ RenewInterval < TTL /\ MaxHold \in Nat
         /\ RenewInterval + Skew < TTL /\ Limit \in Nat /\ Limit > 0
         /\ None \notin Runs
         /\ \A i \in Indices :
              /\ slots[i].left \in 0..(TTL + Skew) /\ slots[i].left \in Nat
              /\ slots[i].holder \in Runs \cup {None}
         /\ \A r \in Runs :
              /\ index[r] \in Indices /\ told[r] \in Nat
              /\ beat[r] \in 0..RenewInterval /\ beat[r] \in Nat
              /\ age[r] \in Nat /\ age[r] <= MaxHold + 1 /\ fails[r] \in Nat
              /\ offset[r] \in 0..Skew /\ offset[r] \in Nat
              /\ offset[r] <= Skew /\ told[r] <= TTL + Skew
              /\ TTL + offset[r] \in 0..(TTL + Skew)
BY LimiterAssumption, ClockAssumption DEF TypeOK

\* A record that a run writes is one, and names the run.
LEMMA OccupiedTyped ==
  ASSUME TypeOK, NEW r \in Runs
  PROVE  /\ Occupied(r) \in [holder : Runs \cup {None}, left : 0..(TTL + Skew)]
         /\ Occupied(r).holder = r /\ Occupied(r).left = TTL + offset[r]
BY Fields DEF Occupied

\* A free slot is a record of nobody.
LEMMA FreeTyped ==
  TypeOK => /\ Free \in [holder : Runs \cup {None}, left : 0..(TTL + Skew)]
            /\ Free.holder = None /\ Free.left = 0
BY LimiterAssumption, ClockAssumption DEF Free

\* One unit less, and never less than nothing.
LEMMA LessTyped ==
  ASSUME NEW n \in Nat
  PROVE  /\ Less(n) \in Nat /\ Less(n) <= n
         /\ \A m \in Nat : n <= m => Less(n) \in 0..m
         /\ n > 0 => Less(n) = n - 1
BY DEF Less
-----------------------------------------------------------------------------
(***************************************************************************)
(* The steps.                                                              *)
(***************************************************************************)

\* A run enters or leaves the queue of the gate.
LEMMA GateStep ==
  ASSUME IInv, NEW r \in Runs,
         \/ List(r) \/ Refuse(r) \/ \E i \in Indices : LoseIndex(r, i)
  PROVE  IInv'
<1>1. TypeOK'
  <2>1. {i \in Indices : ~IsHeld(i, r)} \in SUBSET Indices
    OBVIOUS
  <2>2. CASE List(r)
    BY <2>1, <2>2 DEF IInv, TypeOK, List
  <2>3. CASE Refuse(r)
    BY <2>3 DEF IInv, TypeOK, Refuse
  <2>4. CASE \E i \in Indices : LoseIndex(r, i)
    BY <2>4 DEF IInv, TypeOK, LoseIndex
  <2> QED
    BY <2>2, <2>3, <2>4
<1>2. /\ UNCHANGED <<slots, index, beat, age, renewing, inflight, fails, told,
                     offset>>
      /\ \A s \in Runs : stage'[s] = stage[s]
            \/ /\ stage[s] \in {"waiting", "probing"}
               /\ stage'[s] \in {"waiting", "probing"}
  BY DEF IInv, TypeOK, List, Refuse, LoseIndex
<1>3. \A s \in Runs : stage'[s] \in {"running", "done", "dead"}
                        <=> stage[s] \in {"running", "done", "dead"}
  BY <1>2
<1>4. \A s \in Runs : /\ stage'[s] = "running" <=> stage[s] = "running"
                      /\ stage'[s] = "done" <=> stage[s] = "done"
  BY <1>2
<1>5. RecordsTold' /\ CoveredHold' /\ InTime'
  <2>1. RecordsTold'
    BY <1>2, <1>3 DEF IInv, RecordsTold
  <2>2. CoveredHold'
    BY <1>2, <1>4 DEF IInv, CoveredHold, Covered, HoldsRecord
  <2>3. InTime'
    BY <1>2, <1>4 DEF IInv, InTime
  <2> QED
    BY <2>1, <2>2, <2>3
<1> QED
  BY <1>1, <1>5 DEF IInv

\* Taking a slot over does not uncover a run: the record there had lapsed.
LEMMA AcquireStep ==
  ASSUME IInv, NEW r \in Runs, NEW i \in Indices, TryAcquire(r, i)
  PROVE  IInv'
<1> TypeOK
  BY DEF IInv
<1>1. TypeOK'
  BY OccupiedTyped, Fields DEF TypeOK, TryAcquire
<1>2. /\ slots'[i] = Occupied(r) /\ told'[r] = TTL + offset[r]
      /\ stage'[r] = "running" /\ index'[r] = i /\ beat'[r] = RenewInterval
      /\ stage[r] = "probing" /\ ~IsHeld(i, r)
      /\ UNCHANGED <<inflight, fails, offset>>
      /\ \A j \in Indices \ {i} : slots'[j] = slots[j]
      /\ \A s \in Runs \ {r} :
           /\ told'[s] = told[s] /\ stage'[s] = stage[s] /\ index'[s] = index[s]
           /\ beat'[s] = beat[s] /\ renewing'[s] = renewing[s]
  BY DEF TypeOK, TryAcquire
<1>3. \A j \in Indices : slots[j].holder # r
  BY <1>2 DEF IInv, RecordsTold
<1>4. RecordsTold'
  <2>1. ASSUME NEW j \in Indices, NEW s \in Runs, slots'[j].holder = s
        PROVE  /\ index'[s] = j /\ slots'[j].left = told'[s]
               /\ stage'[s] \in {"running", "done", "dead"}
    <3>1. CASE j = i
      BY <1>2, <2>1, <3>1, OccupiedTyped
    <3>2. CASE j # i
      BY <1>2, <1>3, <2>1, <3>2 DEF IInv, RecordsTold
    <3> QED
      BY <3>1, <3>2
  <2> QED
    BY <2>1 DEF RecordsTold
<1>5. CoveredHold'
  <2>1. ASSUME NEW s \in Runs \ {r}, stage'[s] = "running", told'[s] > Skew
        PROVE  slots'[index'[s]].holder = s
    <3>1. slots[index[s]].holder = s /\ index[s] \in Indices
      BY <1>2, <2>1, Fields DEF IInv, CoveredHold, Covered, HoldsRecord
    <3>2. index[s] # i
      <4>1. ASSUME index[s] = i PROVE FALSE
        <5>1. slots[i].left = told[s] /\ slots[i].holder # None
          BY <3>1, <4>1, Fields DEF IInv, RecordsTold
        <5> QED
          BY <1>2, <2>1, <5>1, Fields DEF IsHeld
      <4> QED
        BY <4>1
    <3> QED
      BY <1>2, <2>1, <3>1, <3>2
  <2>2. slots'[index'[r]].holder = r
    BY <1>2, OccupiedTyped
  <2> QED
    BY <2>1, <2>2 DEF CoveredHold, Covered, HoldsRecord
<1>6. InTime'
  <2>1. ~inflight[r]
    BY <1>2 DEF IInv, InTime
  <2>2. ASSUME NEW s \in Runs \ {r}
        PROVE  /\ renewing'[s] => stage'[s] = "running"
               /\ inflight'[s] => beat'[s] = RenewInterval
                                  /\ stage'[s] \in {"running", "done"}
               /\ renewing'[s] /\ fails'[s] = 0 =>
                    told'[s] + RenewInterval
                      >= TTL + offset'[s]
                         + (IF inflight'[s] THEN 0 ELSE beat'[s])
    BY <1>2 DEF IInv, InTime
  <2>3. told'[r] + RenewInterval >= TTL + offset'[r] + beat'[r]
    BY <1>2, Fields
  <2> QED
    BY <1>2, <2>1, <2>2, <2>3 DEF InTime
<1> QED
  BY <1>1, <1>4, <1>5, <1>6 DEF IInv

\* The ticker ends the heartbeat or sends a renewal before the next beat.
LEMMA BeatStep ==
  ASSUME IInv, NEW r \in Runs, Beat(r)
  PROVE  IInv'
<1> TypeOK
  BY DEF IInv
<1>1. TypeOK'
  BY Fields DEF TypeOK, Beat, PastDeadline
<1>2. /\ UNCHANGED <<slots, stage, index, told, fails, offset>>
      /\ beat'[r] = RenewInterval /\ beat[r] = 0 /\ ~inflight[r] /\ renewing[r]
      /\ renewing'[r] = inflight'[r]
      /\ \A s \in Runs \ {r} :
           /\ beat'[s] = beat[s] /\ renewing'[s] = renewing[s]
           /\ inflight'[s] = inflight[s]
  BY DEF TypeOK, Beat
<1>3. RecordsTold' /\ CoveredHold'
  BY <1>2 DEF IInv, RecordsTold, CoveredHold, Covered, HoldsRecord
<1>4. InTime'
  <2>1. /\ stage[r] = "running"
        /\ fails[r] = 0 => told[r] + RenewInterval >= TTL + offset[r]
    BY <1>2, Fields DEF IInv, InTime
  <2> QED
    BY <1>2, <2>1, Fields DEF IInv, InTime
<1> QED
  BY <1>1, <1>3, <1>4 DEF IInv

\* A renewal extends the run's own record only.
LEMMA RenewStep ==
  ASSUME IInv, NEW r \in Runs, Renew(r)
  PROVE  IInv'
<1> TypeOK
  BY DEF IInv
<1>1. TypeOK'
  <2>1. CASE HoldsRecord(r)
    <3>1. slots' = [slots EXCEPT ![index[r]] = Occupied(r)]
            /\ told' = [told EXCEPT ![r] = TTL + offset[r]]
            /\ fails' = [fails EXCEPT ![r] = 0]
            /\ inflight' = [inflight EXCEPT ![r] = FALSE]
            /\ UNCHANGED <<stage, toTry, index, beat, age, renewing, offset,
                           failures>>
      BY <2>1 DEF Renew
    <3>2. /\ slots' \in [Indices -> [holder : Runs \cup {None},
                                     left : 0..(TTL + Skew)]]
          /\ told' \in [Runs -> 0..(TTL + Skew)]
      BY <3>1, OccupiedTyped, Fields DEF TypeOK
    <3> QED
      BY <3>1, <3>2 DEF TypeOK
  <2>2. CASE ~HoldsRecord(r)
    BY <2>2 DEF TypeOK, Renew
  <2> QED
    BY <2>1, <2>2
<1>2. /\ UNCHANGED <<stage, index, beat, offset>>
      /\ inflight[r] /\ ~inflight'[r]
      /\ \A s \in Runs \ {r} :
           /\ inflight'[s] = inflight[s] /\ renewing'[s] = renewing[s]
           /\ told'[s] = told[s] /\ fails'[s] = fails[s]
  BY DEF TypeOK, Renew
<1>3. CASE HoldsRecord(r)
  <2>1. /\ slots'[index[r]] = Occupied(r) /\ told'[r] = TTL + offset[r]
        /\ \A j \in Indices \ {index[r]} : slots'[j] = slots[j]
        /\ renewing' = renewing /\ slots[index[r]].holder = r
    BY <1>3 DEF TypeOK, Renew, HoldsRecord
  <2>2. \A j \in Indices : slots'[j].holder = slots[j].holder
    BY <2>1, OccupiedTyped
  <2>3. RecordsTold'
    <3>1. ASSUME NEW j \in Indices, NEW s \in Runs, slots'[j].holder = s
          PROVE  /\ index'[s] = j /\ slots'[j].left = told'[s]
                 /\ stage'[s] \in {"running", "done", "dead"}
      <4>1. /\ index[s] = j /\ slots[j].left = told[s]
            /\ stage[s] \in {"running", "done", "dead"}
        BY <2>2, <3>1 DEF IInv, RecordsTold
      <4>2. CASE s = r
        BY <1>2, <2>1, <4>1, <4>2, OccupiedTyped
      <4>3. CASE s # r
        BY <1>2, <2>1, <3>1, <4>1, <4>3, OccupiedTyped
      <4> QED
        BY <4>2, <4>3
    <3> QED
      BY <3>1 DEF RecordsTold
  <2>4. CoveredHold'
    <3>1. ASSUME NEW s \in Runs, stage'[s] = "running", told'[s] > Skew
          PROVE  slots'[index'[s]].holder = s
      <4>1. CASE s = r
        BY <1>2, <2>1, <4>1, OccupiedTyped
      <4>2. CASE s # r
        BY <1>2, <2>2, <3>1, <4>2, Fields
        DEF IInv, CoveredHold, Covered, HoldsRecord
      <4> QED
        BY <4>1, <4>2
    <3> QED
      BY <3>1 DEF CoveredHold, Covered, HoldsRecord
  <2>5. InTime'
    <3>1. ASSUME NEW s \in Runs \ {r}
          PROVE  /\ renewing'[s] => stage'[s] = "running"
                 /\ inflight'[s] => beat'[s] = RenewInterval
                                    /\ stage'[s] \in {"running", "done"}
                 /\ renewing'[s] /\ fails'[s] = 0 =>
                      told'[s] + RenewInterval
                        >= TTL + offset'[s]
                           + (IF inflight'[s] THEN 0 ELSE beat'[s])
      BY <1>2 DEF IInv, InTime
    <3>2. /\ renewing'[r] => stage'[r] = "running"
          /\ told'[r] + RenewInterval >= TTL + offset'[r] + beat'[r]
      BY <1>2, <2>1, Fields DEF IInv, InTime
    <3> QED
      BY <1>2, <3>1, <3>2 DEF InTime
  <2> QED
    BY <1>1, <2>3, <2>4, <2>5 DEF IInv
<1>4. CASE ~HoldsRecord(r)
  <2>1. UNCHANGED <<slots, told, fails>> /\ ~renewing'[r]
    BY <1>4 DEF TypeOK, Renew
  <2>2. RecordsTold' /\ CoveredHold'
    BY <1>2, <2>1 DEF IInv, RecordsTold, CoveredHold, Covered, HoldsRecord
  <2>3. InTime'
    BY <1>2, <2>1 DEF IInv, InTime
  <2> QED
    BY <1>1, <2>2, <2>3 DEF IInv
<1> QED
  BY <1>3, <1>4

\* A renewal that fails leaves the record as it was.
LEMMA RenewFailsStep ==
  ASSUME IInv, NEW r \in Runs, RenewFails(r)
  PROVE  IInv'
<1> TypeOK
  BY DEF IInv
<1>1. TypeOK'
  BY DEF TypeOK, RenewFails
<1>2. /\ UNCHANGED <<slots, stage, index, beat, told, offset, renewing>>
      /\ ~inflight'[r] /\ fails'[r] = fails[r] + 1
      /\ \A s \in Runs \ {r} :
           inflight'[s] = inflight[s] /\ fails'[s] = fails[s]
  BY DEF TypeOK, RenewFails
<1>3. RecordsTold' /\ CoveredHold'
  BY <1>2 DEF IInv, RecordsTold, CoveredHold, Covered, HoldsRecord
<1>4. InTime'
  <2>1. fails'[r] # 0
    BY <1>2, Fields
  <2> QED
    BY <1>2, <2>1 DEF IInv, InTime
<1> QED
  BY <1>1, <1>3, <1>4 DEF IInv

\* What a release leaves of the slots.
LEMMA FreedKeeps ==
  ASSUME TypeOK, NEW r \in Runs
  PROVE  /\ Freed(r) \in [Indices -> [holder : Runs \cup {None},
                                      left : 0..(TTL + Skew)]]
         /\ \A i \in Indices : \/ Freed(r)[i] = slots[i]
                               \/ Freed(r)[i] = Free /\ slots[i].holder = r
BY FreeTyped DEF TypeOK, Freed, HoldsRecord

\* A run ends or dies, and frees no more than its own slot.
LEMMA EndStep ==
  ASSUME IInv, NEW r \in Runs, Release(r) \/ Crash(r)
  PROVE  IInv'
<1> TypeOK
  BY DEF IInv
<1>1. /\ UNCHANGED <<index, beat, told, offset, fails>>
      /\ stage[r] = "running" /\ stage'[r] \in {"done", "dead"} /\ ~renewing'[r]
      /\ inflight'[r] => inflight[r] /\ stage'[r] = "done"
      /\ \A s \in Runs \ {r} :
           /\ stage'[s] = stage[s] /\ renewing'[s] = renewing[s]
           /\ inflight'[s] = inflight[s]
  <2>1. CASE Release(r)
    BY <2>1 DEF TypeOK, Release
  <2>2. CASE Crash(r)
    BY <2>2 DEF TypeOK, Crash
  <2> QED
    BY <2>1, <2>2
<1>2. /\ slots' \in [Indices -> [holder : Runs \cup {None},
                                 left : 0..(TTL + Skew)]]
      /\ \A i \in Indices : \/ slots'[i] = slots[i]
                            \/ slots'[i] = Free /\ slots[i].holder = r
  BY FreedKeeps DEF TypeOK, Release, Crash
<1>3. TypeOK'
  <2>1. CASE Release(r)
    BY <1>2, <2>1 DEF TypeOK, Release
  <2>2. CASE Crash(r)
    BY <2>2 DEF TypeOK, Crash
  <2> QED
    BY <2>1, <2>2
<1>4. RecordsTold'
  <2>1. \A i \in Indices : slots'[i].holder \in Runs => slots'[i] = slots[i]
    BY <1>2, FreeTyped, Fields
  <2> QED
    BY <1>1, <2>1 DEF IInv, RecordsTold
<1>5. CoveredHold'
  <2>1. ASSUME NEW s \in Runs, stage'[s] = "running", told'[s] > Skew
        PROVE  slots'[index'[s]].holder = s
    <3>1. s # r /\ slots[index[s]].holder = s /\ index[s] \in Indices
      BY <1>1, <2>1, Fields DEF IInv, CoveredHold, Covered, HoldsRecord
    <3> QED
      BY <1>1, <1>2, <3>1
  <2> QED
    BY <2>1 DEF CoveredHold, Covered, HoldsRecord
<1>6. InTime'
  BY <1>1 DEF IInv, InTime
<1> QED
  BY <1>3, <1>4, <1>5, <1>6 DEF IInv

\* Time runs alike for a record, for its holder and for the ticker.
LEMMA TickStep ==
  ASSUME IInv, Tick
  PROVE  IInv'
<1> TypeOK
  BY DEF IInv
<1>1. /\ UNCHANGED <<stage, toTry, index, renewing, inflight, fails, offset,
                     failures>>
      /\ \A i \in Indices : /\ slots'[i].holder = slots[i].holder
                            /\ slots'[i].left = Less(slots[i].left)
      /\ \A r \in Runs : /\ beat'[r] = Less(beat[r]) /\ told'[r] = Less(told[r])
                         /\ ~inflight[r] /\ (renewing[r] => beat[r] > 0)
  BY DEF TypeOK, Tick
<1>2. TypeOK'
  <2>1. slots' \in [Indices -> [holder : Runs \cup {None},
                                left : 0..(TTL + Skew)]]
    <3>1. ASSUME NEW i \in Indices
          PROVE  [slots[i] EXCEPT !.left = Less(slots[i].left)]
                   \in [holder : Runs \cup {None}, left : 0..(TTL + Skew)]
      <4>1. Less(slots[i].left) \in 0..(TTL + Skew)
        BY Fields DEF Less
      <4> QED
        BY <4>1 DEF TypeOK
    <3> QED
      BY <3>1 DEF Tick
  <2>2. beat' \in [Runs -> 0..RenewInterval]
    <3>1. \A r \in Runs : Less(beat[r]) \in 0..RenewInterval
      BY Fields DEF Less
    <3> QED
      BY <3>1 DEF Tick
  <2>3. told' \in [Runs -> 0..(TTL + Skew)]
    <3>1. \A r \in Runs : Less(told[r]) \in 0..(TTL + Skew)
      BY Fields DEF Less
    <3> QED
      BY <3>1 DEF Tick
  <2>4. age' \in [Runs -> 0..(MaxHold + 1)]
    <3>1. \A r \in Runs :
            (IF stage[r] = "running" /\ age[r] <= MaxHold
             THEN age[r] + 1 ELSE age[r]) \in 0..(MaxHold + 1)
      BY Fields
    <3> QED
      BY <3>1 DEF Tick
  <2> QED
    BY <1>1, <2>1, <2>2, <2>3, <2>4 DEF TypeOK
<1>3. RecordsTold'
  BY <1>1 DEF IInv, RecordsTold
<1>4. CoveredHold'
  <2>1. ASSUME NEW r \in Runs, told'[r] > Skew PROVE told[r] > Skew
    BY <1>1, <2>1, Fields, LessTyped
  <2> QED
    BY <1>1, <2>1, Fields DEF IInv, CoveredHold, Covered, HoldsRecord
<1>5. InTime'
  <2>1. ASSUME NEW r \in Runs, renewing[r], fails[r] = 0
        PROVE  told'[r] + RenewInterval >= TTL + offset[r] + beat'[r]
    <3>1. /\ beat[r] > 0 /\ beat[r] <= RenewInterval
          /\ told[r] + RenewInterval >= TTL + offset[r] + beat[r]
      BY <1>1, <2>1, Fields DEF IInv, InTime
    <3>2. told[r] > 0
      BY <3>1, Fields
    <3> QED
      BY <1>1, <3>1, <3>2, Fields DEF Less
  <2> QED
    BY <1>1, <2>1 DEF IInv, InTime
<1> QED
  BY <1>2, <1>3, <1>4, <1>5 DEF IInv
-----------------------------------------------------------------------------
(***************************************************************************)
(* The theorems.                                                           *)
(***************************************************************************)

\* Nobody has a slot when the deployment starts.
LEMMA InitHolds == Init => IInv
<1> SUFFICES ASSUME Init PROVE IInv
  OBVIOUS
<1>1. TypeOK
  <2>1. 0 \in Indices
    BY LimiterAssumption DEF Indices
  <2> QED
    BY <2>1, FreeTyped, LimiterAssumption, ClockAssumption
    DEF Init, TypeOK, Free
<1>2. \A i \in Indices, r \in Runs : slots[i].holder # r
  BY LimiterAssumption DEF Init, Free
<1> QED
  BY <1>1, <1>2
  DEF Init, IInv, RecordsTold, CoveredHold, Covered, HoldsRecord, InTime

\* Every step keeps the invariant.
LEMMA NextKeeps == IInv /\ [Next]_vars => IInv'
<1> SUFFICES ASSUME IInv, [Next]_vars PROVE IInv'
  OBVIOUS
<1>1. CASE Tick
  BY <1>1, TickStep
<1>2. ASSUME NEW r \in Runs, RunNext(r) PROVE IInv'
  BY <1>2, GateStep, AcquireStep, BeatStep, RenewStep, RenewFailsStep, EndStep
  DEF RunNext
<1>3. CASE UNCHANGED vars
  BY <1>3
  DEF vars, IInv, TypeOK, RecordsTold, CoveredHold, Covered, HoldsRecord, InTime
<1> QED
  BY <1>1, <1>2, <1>3 DEF Next

\* The inductive invariant holds of every behaviour.
THEOREM Invariance == Spec => []IInv
<1> QED
  BY InitHolds, NextKeeps, PTL DEF Spec

\* Records, runs and the times left to them have their types; no record
\* outlives its TTL by more than the clocks differ.
THEOREM TypeCorrect == Spec => []TypeOK
<1>1. IInv => TypeOK
  BY DEF IInv
<1> QED
  BY <1>1, Invariance, PTL

\* At most Limit runs execute under a hold that no clock sees as lapsed: a
\* covered run holds a record, and a record is at one index.
THEOREM LimitKept == Spec => []CoveredWithinLimit
<1>1. ASSUME IInv PROVE CoveredWithinLimit
  <2> DEFINE at == [r \in Covered |-> index[r]]
  <2>1. IsFiniteSet(Indices) /\ Cardinality(Indices) = Limit
    BY LimiterAssumption, FS_Interval DEF Indices
  <2>2. at \in [Covered -> Indices]
    BY <1>1, Fields DEF IInv, Covered
  <2>3. ASSUME NEW r \in Covered, NEW s \in Covered, at[r] = at[s]
        PROVE  r = s
    <3>1. slots[index[r]].holder = r /\ slots[index[s]].holder = s
      BY <1>1 DEF IInv, CoveredHold, HoldsRecord
    <3> QED
      BY <2>3, <3>1
  <2> HIDE DEF at
  <2>4. at \in Injection(Covered, Indices)
    BY <2>2, <2>3 DEF Injection, IsInjective
  <2> QED
    BY <2>1, <2>4, FS_Injection DEF CoveredWithinLimit
<1> QED
  BY <1>1, Invariance, PTL

\* A run whose heartbeat works keeps its slot, on every clock, for as long as
\* the heartbeat goes on.
THEOREM HealthyKeep == Spec => []HealthyRunKeepsSlot
<1>1. ASSUME IInv, NEW r \in Runs, renewing[r], fails[r] = 0
      PROVE  HoldsRecord(r) /\ slots[index[r]].left > Skew
  <2>1. /\ TypeOK /\ stage[r] = "running"
        /\ told[r] + RenewInterval >= TTL + offset[r]
    BY <1>1, Fields DEF IInv, InTime
  <2>2. told[r] > Skew
    BY <2>1, Fields
  <2>3. HoldsRecord(r)
    BY <1>1, <2>1, <2>2 DEF IInv, CoveredHold, Covered
  <2> QED
    BY <1>1, <2>1, <2>2, <2>3, Fields DEF IInv, RecordsTold, HoldsRecord
<1>2. IInv => HealthyRunKeepsSlot
  BY <1>1 DEF HealthyRunKeepsSlot
<1> QED
  BY <1>2, Invariance, PTL

\* A slot changes hands only when its holder gives it up or some clock sees its
\* record as expired: neither a late renewal nor a late release of a former
\* holder evicts the present one.
THEOREM Eviction == Spec => NobodyEvicted
<1>1. ASSUME IInv, [Next]_vars, NEW i \in Indices, slots[i].holder # None,
             slots'[i].holder # slots[i].holder
      PROVE  slots[i].left <= Skew \/ stage'[slots[i].holder] = "done"
  <2> TypeOK
    BY <1>1 DEF IInv
  <2>1. CASE \E r \in Runs : Renew(r)
    <3>1. PICK r \in Runs : Renew(r)
      BY <2>1
    <3>2. \/ slots' = slots
          \/ HoldsRecord(r) /\ slots' = [slots EXCEPT ![index[r]] = Occupied(r)]
      BY <3>1 DEF Renew
    <3> QED
      BY <1>1, <3>2, OccupiedTyped DEF TypeOK, HoldsRecord
  <2>2. CASE \E r \in Runs : Release(r)
    <3>1. PICK r \in Runs : Release(r)
      BY <2>2
    <3>2. slots[i].holder = r
      BY <1>1, <3>1, FreedKeeps DEF Release
    <3> QED
      BY <3>1, <3>2 DEF TypeOK, Release
  <2>3. CASE \E r \in Runs, j \in Indices : TryAcquire(r, j)
    BY <1>1, <2>3, Fields DEF TypeOK, TryAcquire, IsHeld
  <2>4. CASE Tick
    BY <1>1, <2>4 DEF TypeOK, Tick
  <2>5. CASE slots' = slots
    BY <1>1, <2>5
  <2> QED
    BY <1>1, <2>1, <2>2, <2>3, <2>4, <2>5
    DEF Next, RunNext, vars, List, LoseIndex, Refuse, Beat, RenewFails, Crash
<1>2. IInv /\ [Next]_vars =>
        [\A i \in Indices :
           slots[i].holder # None /\ slots'[i].holder # slots[i].holder =>
             \/ slots[i].left <= Skew
             \/ stage'[slots[i].holder] = "done"]_vars
  BY <1>1
<1> QED
  BY <1>2, Invariance, PTL DEF Spec, NobodyEvicted
-----------------------------------------------------------------------------
(***************************************************************************)
(* The limiter implements SlotPool.                                        *)
(***************************************************************************)

\* A slot that no covered run is at is room for one more.
LEMMA RoomIs ==
  ASSUME IInv, NEW i \in Indices, \A r \in Covered : index[r] # i
  PROVE  Cardinality(Covered) < Limit
<1> DEFINE at == [r \in Covered |-> index[r]]
<1>1. IsFiniteSet(Indices) /\ Cardinality(Indices) = Limit /\ Limit \in Nat
  BY LimiterAssumption, FS_Interval DEF Indices
<1>2. IsFiniteSet(Indices \ {i}) /\ Cardinality(Indices \ {i}) = Limit - 1
  BY <1>1, FS_RemoveElement
<1>3. at \in [Covered -> Indices \ {i}]
  BY Fields DEF IInv, Covered
<1>4. ASSUME NEW r \in Covered, NEW s \in Covered, at[r] = at[s]
      PROVE  r = s
  <2>1. slots[index[r]].holder = r /\ slots[index[s]].holder = s
    BY DEF IInv, CoveredHold, HoldsRecord
  <2> QED
    BY <1>4, <2>1
<1> HIDE DEF at
<1>5. at \in Injection(Covered, Indices \ {i})
  BY <1>3, <1>4 DEF Injection, IsInjective
<1>6. IsFiniteSet(Covered) /\ Cardinality(Covered) <= Limit - 1
  BY <1>2, <1>5, FS_Injection
<1>7. Cardinality(Covered) \in Nat
  BY <1>6, FS_CardinalityType
<1> QED
  BY <1>1, <1>6, <1>7

\* Those the semaphore has admitted are the covered runs.
LEMMA AdmittedIs == Pool!Admitted = Covered
BY DEF Pool!Admitted, Standing, Covered

\* Both modules count alike.
LEMMA CardinalityIs == ASSUME NEW S PROVE Pool!Cardinality(S) = Cardinality(S)
BY DEF Pool!Cardinality, Cardinality

\* How the runs stand with the limit.
Standings == [r \in Runs |-> Standing(r)]

\* A step that leaves all but one run where they stand.
LEMMA StandingsOf ==
  ASSUME NEW r \in Runs, \A s \in Runs \ {r} : Standing(s)' = Standing(s)
  PROVE  Standings' = [Standings EXCEPT ![r] = Standing(r)']
<1>1. \A s \in Runs : Standings'[s] = [Standings EXCEPT ![r] = Standing(r)'][s]
  BY DEF Standings
<1> QED
  BY <1>1 DEF Standings

\* Taking a slot, or renewing it, is an admission, or changes nothing.
LEMMA AdmitsStep ==
  ASSUME IInv, NEW r \in Runs, NEW i \in Indices,
         \A s \in Covered \ {r} : index[s] # i,
         \A s \in Runs \ {r} : Standing(s)' = Standing(s),
         Standing(r) \in {"asking", "lapsed", "admitted"},
         Standing(r)' = "admitted"
  PROVE  Pool!Next \/ Standings' = Standings
<1>1. Standings' = [Standings EXCEPT ![r] = "admitted"]
  BY StandingsOf
<1>2. CASE Standing(r) = "admitted"
  <2>1. Standings' = Standings
    BY <1>1, <1>2 DEF Standings
  <2> QED
    BY <2>1
<1>3. CASE Standing(r) \in {"asking", "lapsed"}
  <2>1. r \notin Covered
    BY <1>3 DEF Standing, Covered
  <2>2. \A s \in Covered : index[s] # i
    BY <2>1
  <2>3. Cardinality(Covered) < Limit
    BY <2>2, RoomIs
  <2>4. Pool!Room
    BY <2>3, AdmittedIs, CardinalityIs DEF Pool!Room
  <2>5. Pool!Admit(r)
    BY <1>1, <1>3, <2>4 DEF Pool!Admit, Standings
  <2> QED
    BY <2>5 DEF Pool!Next
<1> QED
  BY <1>2, <1>3

\* The transaction of an acquisition finds a record that has lapsed on the clock of
\* the run, so its holder is not covered.
LEMMA AcquireAdmits ==
  ASSUME IInv, NEW r \in Runs, NEW i \in Indices, TryAcquire(r, i)
  PROVE  Pool!Next \/ Standings' = Standings
<1>1. TypeOK
  BY DEF IInv
<1>2. ASSUME NEW s \in Covered PROVE index[s] # i
  <2>1. s \in Runs /\ told[s] > Skew /\ slots[index[s]].holder = s
    BY DEF IInv, CoveredHold, HoldsRecord, Covered
  <2>2. slots[index[s]].left = told[s]
    BY <1>1, <2>1, Fields DEF IInv, RecordsTold
  <2>3. slots[i].holder # None => slots[i].left <= Skew
    BY <1>1, Fields DEF TryAcquire, IsHeld
  <2>4. s # None
    BY <1>1, <2>1, Fields
  <2> QED
    BY <1>1, <2>1, <2>2, <2>3, <2>4, Fields
<1>3. Standing(r) = "asking"
  BY DEF TryAcquire, Standing
<1>4. stage'[r] = "running" /\ told'[r] > Skew
  <2>1. stage'[r] = "running" /\ told'[r] = TTL + offset[r]
    BY <1>1 DEF TryAcquire, TypeOK
  <2> QED
    BY <1>1, <2>1, Fields
<1>5. Standing(r)' = "admitted"
  BY <1>4 DEF Standing
<1>6. \A s \in Runs \ {r} : Standing(s)' = Standing(s)
  BY <1>1 DEF TryAcquire, TypeOK, Standing
<1> QED
  BY <1>2, <1>3, <1>5, <1>6, AdmitsStep

\* A renewal that finds its record makes the run count, and there is room: nobody
\* else can be at its slot.
LEMMA RenewAdmits ==
  ASSUME IInv, NEW r \in Runs, Renew(r)
  PROVE  Pool!Next \/ Standings' = Standings
<1>1. TypeOK /\ stage[r] \in {"running", "done"} /\ stage' = stage
  BY DEF IInv, InTime, Renew
<1>2. \A s \in Runs \ {r} : Standing(s)' = Standing(s)
  BY <1>1 DEF Renew, TypeOK, Standing
<1>3. CASE told' = told \/ stage[r] = "done"
  <2>1. Standing(r)' = Standing(r)
    BY <1>1, <1>3 DEF Standing
  <2>2. Standings' = Standings
    BY <1>2, <2>1 DEF Standings
  <2> QED
    BY <2>2
<1>4. CASE stage[r] = "running" /\ HoldsRecord(r)
  <2>1. told'[r] > Skew
    <3>1. told'[r] = TTL + offset[r]
      BY <1>1, <1>4 DEF Renew, TypeOK
    <3> QED
      BY <1>1, <3>1, Fields
  <2>2. Standing(r)' = "admitted" /\ Standing(r) \in {"lapsed", "admitted"}
    BY <1>1, <1>4, <2>1 DEF Standing
  <2>3. ASSUME NEW s \in Covered \ {r} PROVE index[s] # index[r]
    BY <1>4 DEF IInv, CoveredHold, HoldsRecord
  <2>4. index[r] \in Indices
    BY <1>1, Fields
  <2> QED
    BY <1>2, <2>2, <2>3, <2>4, AdmitsStep
<1> QED
  BY <1>1, <1>3, <1>4 DEF Renew

\* A run that is released, or whose instance dies, is over.
LEMMA EndsPool ==
  ASSUME IInv, NEW r \in Runs, Release(r) \/ Crash(r)
  PROVE  Pool!Next
<1>1. TypeOK
  BY DEF IInv
<1>2. Standing(r) \in {"admitted", "lapsed"} /\ Standing(r)' = "over"
  BY <1>1 DEF Release, Crash, Standing, TypeOK
<1>3. \A s \in Runs \ {r} : Standing(s)' = Standing(s)
  BY <1>1 DEF Release, Crash, TypeOK, Standing
<1>4. Standings' = [Standings EXCEPT ![r] = "over"]
  BY <1>2, <1>3, StandingsOf
<1>5. Pool!End(r)
  BY <1>2, <1>4 DEF Pool!End, Standings
<1> QED
  BY <1>5 DEF Pool!Next

\* Time only makes holds lapse.
LEMMA TickLapses ==
  ASSUME IInv, Tick
  PROVE  Pool!Next
<1> DEFINE late == {r \in Covered : told'[r] <= Skew}
<1>1. /\ TypeOK /\ stage' = stage
      /\ \A r \in Runs : told'[r] <= told[r] /\ told'[r] \in Nat
  <2>1. TypeOK /\ stage' = stage
    BY DEF IInv, Tick
  <2>2. ASSUME NEW r \in Runs PROVE told'[r] <= told[r] /\ told'[r] \in Nat
    <3>1. told'[r] = Less(told[r]) /\ told[r] \in Nat
      BY <2>1, Fields DEF Tick
    <3> QED
      BY <3>1, LessTyped
  <2> QED
    BY <2>1, <2>2
<1>2. ASSUME NEW r \in Runs
      PROVE  Standing(r)' = IF r \in late THEN "lapsed" ELSE Standing(r)
  <2>1. told[r] \in Nat /\ Skew \in Nat
    BY <1>1, Fields
  <2> QED
    BY <1>1, <2>1 DEF Standing, Covered
<1> HIDE DEF late
<1>3. Standings' = [r \in Runs |-> IF r \in late THEN "lapsed" ELSE Standings[r]]
  BY <1>2 DEF Standings
<1>4. late \in SUBSET Pool!Admitted
  BY AdmittedIs DEF late
<1>5. Pool!Lapse
  BY <1>3, <1>4 DEF Pool!Lapse, Standings
<1> QED
  BY <1>5 DEF Pool!Next

\* The limiter is the semaphore it promises: whatever clocks, crashes, late renewals
\* and releases there are, a run comes to count against the limit only while fewer
\* than Limit others do.
THEOREM Refinement == Spec => ImplementsPool
<1>1. Init => Pool!Init
  BY DEF Init, Pool!Init, Standing
<1>2. ASSUME IInv, [Next]_vars
      PROVE  Pool!Next \/ Standings' = Standings
  <2>1. CASE \E r \in Runs : \/ List(r) \/ Refuse(r) \/ Beat(r) \/ RenewFails(r)
                             \/ \E i \in Indices : LoseIndex(r, i)
    <3>1. PICK r \in Runs : \/ List(r) \/ Refuse(r) \/ Beat(r) \/ RenewFails(r)
                            \/ \E i \in Indices : LoseIndex(r, i)
      BY <2>1
    <3>2. told' = told /\ \A s \in Runs :
            stage'[s] = stage[s] \/ {stage[s], stage'[s]} = {"waiting", "probing"}
      BY <1>2, <3>1 DEF List, Refuse, Beat, RenewFails, LoseIndex, IInv, TypeOK
    <3>3. \A s \in Runs : Standing(s)' = Standing(s)
      BY <3>2 DEF Standing
    <3> QED
      BY <3>3 DEF Standings
  <2>2. CASE UNCHANGED vars
    BY <2>2 DEF vars, Standings, Standing
  <2>3. CASE Tick
    BY <1>2, <2>3, TickLapses
  <2>4. CASE \E r \in Runs, i \in Indices : TryAcquire(r, i)
    BY <1>2, <2>4, AcquireAdmits
  <2>5. CASE \E r \in Runs : Renew(r)
    BY <1>2, <2>5, RenewAdmits
  <2>6. CASE \E r \in Runs : Release(r) \/ Crash(r)
    BY <1>2, <2>6, EndsPool
  <2> QED
    BY <1>2, <2>1, <2>2, <2>3, <2>4, <2>5, <2>6 DEF Next, RunNext
<1>3. IInv /\ [Next]_vars => [Pool!Next]_Standings
  BY <1>2
<1> QED
  BY <1>1, <1>3, Invariance, PTL DEF Spec, ImplementsPool, Pool!Spec, Standings
=============================================================================

---------------------------- MODULE JobRunProofs ----------------------------
(***************************************************************************)
(* Proofs about JobRun, for any triggers, submissions, questions and        *)
(* faults: types, truthful outcomes, owners of running logs, the slot of an *)
(* open question and late submissions.                                      *)
(***************************************************************************)
EXTENDS JobRun, TLAPS

-----------------------------------------------------------------------------
(* The inductive invariant. *)

\* Where a trigger, a submission and the sweep can be.
TriggerAt == {"new", "leased", "judging", "orphan", "finalizing", "cleared",
              "preparing", "logged", "failing", "recording", "leaving", "done",
              "dead"}
SubmitAt  == {"new", "seen", "resuming", "restoring", "responding", "failing",
              "recording", "leaving", "done", "dead"}
SweepAt   == {"new", "seen", "leased", "orphan", "finalizing", "recording",
              "leaving", "dead"}

\* Between taking the lease and giving it back.
Working == {"leased", "judging", "orphan", "finalizing", "cleared", "preparing",
            "logged", "resuming", "restoring", "responding", "failing",
            "recording"}

Answering == {"restoring", "responding", "failing"}

\* Every actor is on its own path, and knows the run it is about to read.
Stages ==
  /\ \A r \in Runs : pc[r] \in TriggerAt
  /\ \A u \in Submits : pc[u] \in SubmitAt
  /\ pc[Sweep] \in SweepAt
  /\ \A a \in Actors :
       pc[a] \in {"judging", "orphan", "finalizing", "resuming", "restoring",
                  "responding"} => seen[a] \in Runs
  /\ \A u \in Submits : pc[u] = "seen" => seen[u] \in Runs
  /\ \A r \in Runs : pc[r] = "logged" => seen[r] = r

\* A Process is started by its trigger's last act, asks while it is active or was
\* overrun, and is closed once it ended.
Started ==
  \A r \in Runs :
    /\ proc[r] # "none" => pc[r] \in {"leaving", "done", "dead"}
    /\ closing[r] # "no" <=> proc[r] \in {"succeeded", "failed"}
    /\ asking[r] # "no" => proc[r] \in {"active", "failed"} /\ asked[r] > 0

\* Only a failed log carries an error, in the store and in memory.
ErrorsFail ==
  /\ \A r \in Runs : log[r].error => log[r].stage = "failed"
  /\ \A x \in Readers : copies[x].error => copies[x].stage = "failed"

\* A success is one, and so is the Job's last outcome.
SuccessHeld ==
  /\ \A r \in Runs : log[r].stage = "success" => proc[r] = "succeeded"
  /\ last.ok => last.run \in Runs /\ proc[last.run] = "succeeded"

\* The runs some actor is about to close, or died before it could.
Carried == {r \in Runs : \E a \in Runs \cup Submits :
              /\ seen[a] = r
              /\ pc[a] \in {"logged", "responding", "failing", "dead"}}

\* The runs whose handler read a log it will be able to close.
Closable == {r \in Runs :
  /\ closing[r] = "read"
  /\ copies[Closer(r)].stage # "awaiting"
  /\ proc[r] = "succeeded" => ~copies[Closer(r)].error}

Owned ==
  errors \cap {"failing", "finish"} = {} =>
    \A r \in Runs : log[r].stage = "running" =>
      \/ proc[r] \in Open
      \/ closing[r] \in {"due", "lost"}
      \/ r \in Closable
      \/ r \in Carried

\* As long as no lease was stolen, whoever relies on it has it.
LeaseHeld == ~stolen => \A a \in Actors : pc[a] \in Working => holder = a

\* The questions that are open, or will be when their Process is committed.
OpenQuestions == {q \in Runs : /\ log[q].stage = "awaiting"
                               /\ proc[q] = "waiting" \/ asking[q] = "marked"}

\* A trigger that passed the suspension marker found no open question behind it.
Judged ==
  ~stolen => \A r \in Runs :
    /\ pc[r] = "judging" => seen[r] = suspendedRun
    /\ pc[r] \in {"orphan", "finalizing", "cleared", "preparing", "logged"}
         => stale \/ "judging" \in errors \/ suspendedRun \notin OpenQuestions

\* The questions whose log was parked: a run parks on each question once.
WasParked == {p \in Runs \X (1..MaxQuestions) :
                /\ p[2] <= asked[p[1]]
                /\ p[2] = asked[p[1]] => asking[p[1]] # "read"}

\* A question on record, in an actor's copy or answered is one that was parked; a
\* question on record is unanswered, and so is the one an actor under its lease is
\* about to answer or to fail.
AnswersOnce ==
  /\ \A r \in Runs : log[r].stage = "awaiting" =>
       /\ <<r, log[r].await>> \in WasParked
       /\ delivered[r][log[r].await] = 0
  /\ \A u \in Submits : pc[u] \in Answering =>
       /\ <<seen[u], copies[u].await>> \in WasParked
       /\ pc[u] = "restoring" => copies[u].stage = "awaiting"
       /\ pc[u] = "responding" /\ log[seen[u]].stage = "awaiting"
            => log[seen[u]].await # copies[u].await
       /\ ~stolen => delivered[seen[u]][copies[u].await] = 0
  /\ \A r \in Runs, q \in 1..MaxQuestions :
       delivered[r][q] # 0 => <<r, q>> \in WasParked

IInv ==
  /\ TypeOK
  /\ Stages
  /\ Started
  /\ ErrorsFail
  /\ SuccessHeld
  /\ Owned
  /\ LeaseHeld
  /\ Judged
  /\ AnswersOnce

-----------------------------------------------------------------------------
(* The steps, by who takes them. *)

\* What every actor does the same way.
CommonStep(a) ==
  FinishFailed(a) \/ RecordFailed(a) \/ Leave(a) \/ Crash(a) \/ CallFails(a)

TriggerOwn(r) ==
  \/ Trigger(r) \/ CheckSuspension(r) \/ SuspensionIsActive(r)
  \/ ReadOrphan(r, "cleared") \/ FinalizeOrphan(r, "cleared")
  \/ CheckLive(r) \/ CreateLog(r) \/ Spawn(r) \/ PrepareFails(r) \/ GateRefuses(r)

SubmitOwn(u) ==
  \/ ResumeLease(u) \/ ResumeRead(u) \/ ResumeWrite(u) \/ Respond(u)
  \/ \E r \in Runs : Submit(u, r)

SweepOwn ==
  \/ Scan \/ ExpireLease \/ Recheck \/ NextTick
  \/ ReadOrphan(Sweep, "recording") \/ FinalizeOrphan(Sweep, "recording")

ProcessOwn(r) ==
  \/ Ask(r) \/ Park(r) \/ Mark(r) \/ Suspend(r) \/ End(r) \/ Reclaim(r)
  \/ Die(r) \/ Overrun(r)

CloserOwn(r) ==
  FinishRead(r) \/ FinishWrite(r) \/ FinishRecord(r) \/ FinishLost(r) \/ FinishFails(r)

TimeOwn == Timeout \/ LeaseExpires \/ LeaseOverrun

\* A step is taken by an actor, a Process, a handler or time.
LEMMA StepCases ==
  ASSUME [Next]_vars
  PROVE  \/ UNCHANGED vars
         \/ \E a \in Actors : CommonStep(a)
         \/ \E r \in Runs : TriggerOwn(r) \/ ProcessOwn(r) \/ CloserOwn(r)
         \/ \E u \in Submits : SubmitOwn(u)
         \/ SweepOwn
         \/ TimeOwn
  BY Zenon DEF Next, TriggerStep, ProcessStep, CloseStep, SubmitStep, SweepStep, Actors,
     CommonStep, TriggerOwn, SubmitOwn, SweepOwn, ProcessOwn, CloserOwn, TimeOwn

-----------------------------------------------------------------------------
(* What a step writes of the actors. *)

\* Nobody moves, or one actor does: along its own path, to a run it knows, into the
\* lease only when nobody has it, and never back to work once its trigger is over.
ActorsMove ==
  \/ UNCHANGED <<pc, seen, form>>
  \/ \E a \in Actors, there \in TriggerAt \cup SubmitAt \cup SweepAt :
       /\ pc' = [pc EXCEPT ![a] = there]
       /\ a \in Runs => there \in TriggerAt
       /\ a \in Submits => there \in SubmitAt
       /\ a = Sweep => there \in SweepAt
       /\ \E v \in Runs \cup {None} : seen' = seen \/ seen' = [seen EXCEPT ![a] = v]
       /\ \/ form' = form
          \/ \E q \in Questions : form' = [form EXCEPT ![a] = q]
       /\ there \in {"judging", "orphan", "finalizing", "resuming", "restoring",
                     "responding"} => seen'[a] \in Runs
       /\ a \in Submits /\ there = "seen" => seen'[a] \in Runs
       /\ there = "logged" => seen'[a] = a
       /\ there \in Working => \/ pc[a] \in Working
                               \/ holder = None /\ holder' = a
       /\ a \in Runs /\ pc[a] \in {"leaving", "done", "dead"}
            => there \in {"leaving", "done", "dead"}


\* Failing, leaving and crashing are moves of the one actor that does it.
LEMMA CommonActorsMove ==
  ASSUME TypeOK, Stages, NEW a \in Actors, CommonStep(a)
  PROVE  ActorsMove
  <1> USE JobRunAssumption DEF Actors, TypeOK, Stages, TriggerAt, SubmitAt, SweepAt,
        Working
  <1>1. CASE FinishFailed(a)
    BY <1>1 DEF FinishFailed, Goto, ActorsMove
  <1>2. CASE RecordFailed(a)
    BY <1>2 DEF RecordFailed, Goto, ActorsMove
  <1>3. CASE Leave(a)
    BY <1>3 DEF Leave, Goto, Forget, ActorsMove
  <1>4. CASE Crash(a)
    BY <1>4 DEF Crash, Goto, ActorsMove
  <1>5. CASE CallFails(a)
    <2>1. pc' = [pc EXCEPT ![a] = OnError(a)] /\ UNCHANGED <<seen, form>>
      BY <1>5 DEF CallFails, Goto
    <2>2. pc[a] \in Calls
      BY <1>5 DEF CallFails
    <2>3. OnError(a) \in {"leaving", "orphan", "recording", "cleared", "preparing",
                          "failing"}
      BY <2>2 DEF OnError, Calls
    <2>4. /\ OnError(a) = "orphan" => pc[a] = "judging"
          /\ a \in Submits => OnError(a) \in {"leaving", "failing", "recording"}
          /\ a = Sweep => OnError(a) \in {"leaving", "recording"}
          /\ a \in Runs => OnError(a) \in {"leaving", "orphan", "recording", "cleared",
                                            "preparing", "failing"}
      BY <2>2, <2>3 DEF OnError, Calls
    <2>5. pc[a] \in Working
      BY <2>2 DEF Calls
    <2>6. pc[a] = "judging" => seen[a] \in Runs
      OBVIOUS
    <2> DEFINE there == OnError(a)
    <2>7. pc' = [pc EXCEPT ![a] = there]
      BY <2>1
    <2> HIDE DEF there
    <2>8. /\ there \in TriggerAt \cup SubmitAt \cup SweepAt
          /\ there \in {"leaving", "orphan", "recording", "cleared", "preparing",
                        "failing"}
          /\ there = "orphan" => seen[a] \in Runs
          /\ a \in Submits => there \in {"leaving", "failing", "recording"}
          /\ a = Sweep => there \in {"leaving", "recording"}
          /\ a \in Runs => there \in TriggerAt
      BY <2>3, <2>4, <2>6 DEF there
    <2> HIDE DEF TypeOK, Stages
    <2>9. \E v \in Runs \cup {None} : seen' = seen \/ seen' = [seen EXCEPT ![a] = v]
      BY <2>1
    <2> QED
      BY <2>1, <2>5, <2>7, <2>8, <2>9 DEF ActorsMove
  <1> QED
    BY <1>1, <1>2, <1>3, <1>4, <1>5 DEF CommonStep

\* So is every step of a trigger: it is spawned from its own log only.
LEMMA TriggerActorsMove ==
  ASSUME TypeOK, Stages, NEW r \in Runs, TriggerOwn(r)
  PROVE  ActorsMove
  <1> USE JobRunAssumption DEF Actors, TypeOK, Stages, TriggerAt, SubmitAt, SweepAt,
        Working
  <1>1. CASE Trigger(r)
    <2>1. PICK there \in {"leased", "done"} :
            /\ pc' = [pc EXCEPT ![r] = there]
            /\ there = "leased" => holder = None /\ holder' = r
      BY <1>1 DEF Trigger, TryAcquireLease, Goto
    <2>2. UNCHANGED <<seen, form>> /\ pc[r] = "new"
      BY <1>1 DEF Trigger
    <2> QED
      BY <2>1, <2>2 DEF ActorsMove
  <1>2. CASE CheckSuspension(r)
    <2>1. PICK there \in {"cleared", "orphan", "judging"} :
            /\ pc' = [pc EXCEPT ![r] = there]
            /\ there # "cleared" => suspendedRun # None
      BY <1>2 DEF CheckSuspension, Goto
    <2>2. /\ seen' = [seen EXCEPT ![r] = suspendedRun] /\ form' = form
          /\ pc[r] = "leased"
      BY <1>2 DEF CheckSuspension
    <2>3. seen'[r] = suspendedRun /\ suspendedRun \in Runs \cup {None}
      BY <2>2
    <2>4. there = "orphan" \/ there = "judging" => seen'[r] \in Runs
      BY <2>1, <2>3
    <2>5. \E v \in Runs \cup {None} : seen' = [seen EXCEPT ![r] = v]
      BY <2>2, <2>3
    <2> HIDE DEF TypeOK, Stages
    <2> QED
      BY <2>1, <2>2, <2>4, <2>5 DEF ActorsMove
  <1>3. CASE SuspensionIsActive(r)
    BY <1>3 DEF SuspensionIsActive, Goto, ActorsMove
  <1>4. CASE ReadOrphan(r, "cleared")
    BY <1>4 DEF ReadOrphan, Goto, ActorsMove
  <1>5. CASE FinalizeOrphan(r, "cleared")
    <2>1. /\ pc[r] = "finalizing" /\ pc' = [pc EXCEPT ![r] = "cleared"]
          /\ UNCHANGED <<seen, form>>
      BY <1>5 DEF FinalizeOrphan, Goto
    <2>2. \E v \in Runs \cup {None} : seen' = seen \/ seen' = [seen EXCEPT ![r] = v]
      BY <2>1
    <2> HIDE DEF TypeOK, Stages
    <2> QED
      BY <2>1, <2>2 DEF ActorsMove
  <1>6. CASE CheckLive(r) \/ PrepareFails(r) \/ GateRefuses(r)
    <2>1. PICK there \in {"preparing", "leaving"} :
            /\ pc[r] \in {"cleared", "preparing"}
            /\ pc' = [pc EXCEPT ![r] = there]
            /\ UNCHANGED <<seen, form>>
      BY <1>6 DEF CheckLive, PrepareFails, GateRefuses, Goto
    <2> QED
      BY <2>1 DEF ActorsMove
  <1>7. CASE CreateLog(r)
    BY <1>7 DEF CreateLog, Goto, ActorsMove
  <1>8. CASE Spawn(r)
    <2>1. PICK there \in {"failing", "leaving"} : pc' = [pc EXCEPT ![r] = there]
      BY <1>8 DEF Spawn, Goto
    <2>2. UNCHANGED <<seen, form>> /\ pc[r] = "logged"
      BY <1>8 DEF Spawn
    <2>3. \E v \in Runs \cup {None} : seen' = seen \/ seen' = [seen EXCEPT ![r] = v]
      BY <2>2
    <2> HIDE DEF TypeOK, Stages
    <2> QED
      BY <2>1, <2>2, <2>3 DEF ActorsMove
  <1> QED
    BY <1>1, <1>2, <1>3, <1>4, <1>5, <1>6, <1>7, <1>8 DEF TriggerOwn

\* A submission moves alone, and knows the run it resumes.
LEMMA SubmitActorsMove ==
  ASSUME TypeOK, Stages, NEW u \in Submits, SubmitOwn(u)
  PROVE  ActorsMove
  <1> USE JobRunAssumption DEF Actors, TypeOK, Stages, TriggerAt, SubmitAt, SweepAt,
        Working
  <1>1. CASE ResumeLease(u)
    BY <1>1 DEF ResumeLease, TryAcquireLease, Goto, ActorsMove
  <1>2. CASE ResumeRead(u)
    BY <1>2 DEF ResumeRead, Goto, ActorsMove
  <1>3. CASE ResumeWrite(u)
    BY <1>3 DEF ResumeWrite, Goto, ActorsMove
  <1>4. CASE Respond(u)
    BY <1>4 DEF Respond, Goto, ActorsMove
  <1>5. CASE \E r \in Runs : Submit(u, r)
    <2>1. PICK r \in Runs : Submit(u, r)
      BY <1>5
    <2>2. log[r].await \in Questions
      BY DEF Log
    <2>3. /\ pc' = [pc EXCEPT ![u] = "seen"] /\ seen' = [seen EXCEPT ![u] = r]
          /\ form' = [form EXCEPT ![u] = log[r].await] /\ seen'[u] = r
          /\ pc[u] = "new"
      BY <2>1 DEF Submit, Goto
    <2> QED
      BY <2>2, <2>3 DEF ActorsMove
  <1> QED
    BY <1>1, <1>2, <1>3, <1>4, <1>5 DEF SubmitOwn

\* The sweep moves alone, and knows the run it fails.
LEMMA SweepActorsMove ==
  ASSUME TypeOK, Stages, SweepOwn
  PROVE  ActorsMove
  <1> USE JobRunAssumption DEF Actors, TypeOK, Stages, TriggerAt, SubmitAt, SweepAt,
        Working
  <1>1. CASE Scan \/ NextTick
    BY <1>1 DEF Scan, NextTick, Goto, ActorsMove
  <1>2. CASE ExpireLease
    BY <1>2 DEF ExpireLease, TryAcquireLease, Goto, ActorsMove
  <1>3. CASE Recheck
    <2>1. PICK there \in {"orphan", "leaving"} :
            /\ pc' = [pc EXCEPT ![Sweep] = there]
            /\ there = "orphan" => suspendedRun # None
      BY <1>3 DEF Recheck, Goto
    <2>2. /\ seen' = [seen EXCEPT ![Sweep] = suspendedRun] /\ form' = form
          /\ pc[Sweep] = "leased"
      BY <1>3 DEF Recheck
    <2>3. seen'[Sweep] = suspendedRun /\ suspendedRun \in Runs \cup {None}
      BY <2>2
    <2>4. there = "orphan" => seen'[Sweep] \in Runs
      BY <2>1, <2>3
    <2>5. \E v \in Runs \cup {None} : seen' = [seen EXCEPT ![Sweep] = v]
      BY <2>2, <2>3
    <2> HIDE DEF TypeOK, Stages
    <2> QED
      BY <2>1, <2>2, <2>4, <2>5 DEF ActorsMove
  <1>4. CASE ReadOrphan(Sweep, "recording")
    BY <1>4 DEF ReadOrphan, Goto, ActorsMove
  <1>5. CASE FinalizeOrphan(Sweep, "recording")
    BY <1>5 DEF FinalizeOrphan, Goto, ActorsMove
  <1> QED
    BY <1>1, <1>2, <1>3, <1>4, <1>5 DEF SweepOwn

\* The Process, its handler and time leave the actors alone.
LEMMA OthersLeaveActors ==
  ASSUME NEW r \in Runs, ProcessOwn(r) \/ CloserOwn(r) \/ TimeOwn
  PROVE  UNCHANGED <<pc, seen, form>>
  BY Zenon DEF ProcessOwn, CloserOwn, TimeOwn, Ask, Park, Mark, Suspend, End, Reclaim,
     Die, Overrun, FinishRead, FinishWrite, FinishRecord, FinishLost, FinishFails,
     Timeout, LeaseExpires, LeaseOverrun, actors

\* One actor moves at a time.
LEMMA ActorsMoveOnly ==
  ASSUME TypeOK, Stages, [Next]_vars
  PROVE  ActorsMove
  <1>1. CASE UNCHANGED vars
    BY <1>1 DEF vars, actors, ActorsMove
  <1>2. CASE \E r \in Runs : ProcessOwn(r) \/ CloserOwn(r)
    BY <1>2, OthersLeaveActors DEF ActorsMove
  <1>3. CASE TimeOwn
    BY <1>3 DEF TimeOwn, Timeout, LeaseExpires, LeaseOverrun, actors, ActorsMove
  <1> QED
    BY <1>1, <1>2, <1>3, StepCases, CommonActorsMove, TriggerActorsMove,
       SubmitActorsMove, SweepActorsMove

\* Every actor stays on its path.
LEMMA StagesKept ==
  ASSUME TypeOK, Stages, ActorsMove
  PROVE  /\ Stages'
         /\ seen' \in [Actors -> Runs \cup {None}]
         /\ form' \in [Submits -> Questions]
         /\ pc' \in [Actors -> TriggerAt \cup SubmitAt \cup SweepAt]
  <1>1. /\ pc \in [Actors -> TriggerAt \cup SubmitAt \cup SweepAt]
        /\ seen \in [Actors -> Runs \cup {None}]
        /\ form \in [Submits -> Questions]
    BY DEF TypeOK, Stages, Actors
  <1>2. CASE UNCHANGED <<pc, seen, form>>
    BY <1>1, <1>2 DEF Stages
  <1>3. CASE ~UNCHANGED <<pc, seen, form>>
    <2>1. PICK a \in Actors, there \in TriggerAt \cup SubmitAt \cup SweepAt :
       /\ pc' = [pc EXCEPT ![a] = there]
       /\ a \in Runs => there \in TriggerAt
       /\ a \in Submits => there \in SubmitAt
       /\ a = Sweep => there \in SweepAt
       /\ \E v \in Runs \cup {None} : seen' = seen \/ seen' = [seen EXCEPT ![a] = v]
       /\ \/ form' = form
          \/ \E q \in Questions : form' = [form EXCEPT ![a] = q]
       /\ there \in {"judging", "orphan", "finalizing", "resuming", "restoring",
                     "responding"} => seen'[a] \in Runs
       /\ a \in Submits /\ there = "seen" => seen'[a] \in Runs
       /\ there = "logged" => seen'[a] = a
      BY <1>3 DEF ActorsMove
    <2>2. /\ pc' \in [Actors -> TriggerAt \cup SubmitAt \cup SweepAt]
          /\ seen' \in [Actors -> Runs \cup {None}]
          /\ form' \in [Submits -> Questions]
      BY <1>1, <2>1
    <2>3. \A b \in Actors : b # a => pc'[b] = pc[b] /\ seen'[b] = seen[b]
      BY <1>1, <2>1
    <2>4. pc'[a] = there
      BY <1>1, <2>1
    <2> QED
      BY <2>1, <2>2, <2>3, <2>4 DEF Stages, Actors
  <1> QED
    BY <1>2, <1>3

-----------------------------------------------------------------------------
(* What a step writes of the Processes, their questions and their handlers. *)

RunTypes ==
  /\ proc \in [Runs -> Open \cup {"none", "succeeded", "failed"}]
  /\ waitsFor \in [Runs -> Questions]
  /\ asked \in [Runs -> Questions]
  /\ asking \in [Runs -> {"no", "read", "parked", "marked"}]
  /\ closing \in [Runs -> {"no", "due", "read", "wrote", "done", "lost"}]
  /\ delivered \in [Runs -> [1..MaxQuestions -> Questions]]

\* What Started says, the trigger apart.
Lifecycle ==
  \A r \in Runs :
    /\ closing[r] # "no" <=> proc[r] \in {"succeeded", "failed"}
    /\ asking[r] # "no" => proc[r] \in {"active", "failed"} /\ asked[r] > 0

\* A Process that ended stays as it ended, and one that was started was started by
\* its trigger.
ProcessesMove ==
  \A r \in Runs :
    /\ proc[r] \in {"succeeded", "failed"} => proc'[r] = proc[r]
    /\ proc'[r] # "none" => \/ proc[r] # "none"
                            \/ pc[r] = "logged" /\ pc'[r] = "leaving"
    /\ proc[r] # "none" => proc'[r] # "none"

\* A transition of a Process keeps it well formed and takes no end back.
LEMMA ProcessRuns ==
  ASSUME RunTypes, Lifecycle, NEW r \in Runs, ProcessOwn(r)
  PROVE  RunTypes' /\ Lifecycle' /\ ProcessesMove
  <1> USE JobRunAssumption DEF RunTypes, Lifecycle, ProcessesMove, Open, Questions
  <1>1. CASE Ask(r)
    <2>1. asked[r] + 1 \in Questions
      BY <1>1 DEF Ask
    <2> QED
      BY <1>1, <2>1 DEF Ask
  <1>2. CASE Park(r)
    <2>1. /\ asking[r] = "read" /\ UNCHANGED <<waitsFor, asked, delivered>>
          /\ \E s \in {"no", "parked"} : asking' = [asking EXCEPT ![r] = s]
          /\ \/ UNCHANGED <<proc, closing>>
             \/ /\ proc[r] = "active" /\ proc' = [proc EXCEPT ![r] = "failed"]
                /\ closing' = [closing EXCEPT ![r] = "due"]
                /\ asking' = [asking EXCEPT ![r] = "no"]
      BY <1>2 DEF Park, Ends
    <2> QED
      BY <2>1
  <1>3. CASE Mark(r)
    BY <1>3 DEF Mark, process
  <1>4. CASE Suspend(r)
    <2>1. /\ asking' = [asking EXCEPT ![r] = "no"]
          /\ UNCHANGED <<asked, delivered, closing>>
          /\ \/ UNCHANGED <<proc, waitsFor>>
             \/ /\ proc[r] = "active" /\ proc' = [proc EXCEPT ![r] = "waiting"]
                /\ waitsFor' = [waitsFor EXCEPT ![r] = asked[r]]
      BY <1>4 DEF Suspend
    <2> QED
      BY <2>1
  <1>5. CASE End(r)
    <2>1. /\ proc[r] = "active" /\ asking[r] = "no"
          /\ UNCHANGED <<waitsFor, asked, delivered, asking>>
          /\ closing' = [closing EXCEPT ![r] = "due"]
          /\ \E status \in {"succeeded", "failed"} : proc' = [proc EXCEPT ![r] = status]
      BY <1>5 DEF End, Ends
    <2> QED
      BY <2>1
  <1>6. CASE Reclaim(r)
    BY <1>6 DEF Reclaim, Ends
  <1>7. CASE Die(r)
    BY <1>7 DEF Die
  <1>8. CASE Overrun(r)
    BY <1>8 DEF Overrun, Ends
  <1> QED
    BY <1>1, <1>2, <1>3, <1>4, <1>5, <1>6, <1>7, <1>8 DEF ProcessOwn

\* Its completion handler leaves the Process alone.
LEMMA CloserRuns ==
  ASSUME RunTypes, Lifecycle, NEW r \in Runs, CloserOwn(r)
  PROVE  RunTypes' /\ Lifecycle' /\ ProcessesMove
  <1>1. /\ UNCHANGED <<process, asking>>
        /\ closing[r] # "no"
        /\ \E s \in {"read", "wrote", "done", "lost"} :
             closing' = [closing EXCEPT ![r] = s]
    BY DEF CloserOwn, FinishRead, FinishWrite, FinishRecord, FinishLost, FinishFails,
           RunTypes
  <1> QED
    BY <1>1 DEF process, RunTypes, Lifecycle, ProcessesMove, Open

\* The trigger starts a Process that was not started before.
LEMMA SpawnRuns ==
  ASSUME RunTypes, Lifecycle, TypeOK, NEW r \in Runs, Spawn(r), proc[r] = "none"
  PROVE  RunTypes' /\ Lifecycle' /\ ProcessesMove
  <1>1. /\ UNCHANGED <<waitsFor, asked, delivered, asking, closing>>
        /\ pc[r] = "logged" /\ pc \in [Actors -> TriggerAt \cup SubmitAt \cup SweepAt]
        /\ \/ UNCHANGED proc
           \/ proc' = [proc EXCEPT ![r] = "active"] /\ pc' = [pc EXCEPT ![r] = "leaving"]
    BY DEF Spawn, Goto, TypeOK, TriggerAt, SubmitAt, SweepAt
  <1> QED
    BY <1>1 DEF RunTypes, Lifecycle, ProcessesMove, Open, Actors

\* The submission wakes a Process that waits.
LEMMA RespondRuns ==
  ASSUME RunTypes, Lifecycle, TypeOK, Stages, NEW u \in Submits, Respond(u)
  PROVE  RunTypes' /\ Lifecycle' /\ ProcessesMove
  <1> DEFINE r == seen[u]
             q == copies[u].await
  <1>1. /\ UNCHANGED <<asked, asking, closing>> /\ form[u] \in Questions
        /\ r \in Runs
        /\ \/ UNCHANGED <<proc, waitsFor, delivered>>
           \/ /\ proc[r] = "waiting" /\ proc' = [proc EXCEPT ![r] = "active"]
              /\ waitsFor' = [waitsFor EXCEPT ![r] = 0]
              /\ delivered' = [delivered EXCEPT ![r][q] = form[u]]
    BY DEF Respond, TypeOK, Stages, Actors
  <1> HIDE DEF r, q
  <1>2. 0 \in Questions
    BY JobRunAssumption DEF Questions
  <1>3. RunTypes'
    <2>1. CASE UNCHANGED <<proc, waitsFor, delivered>>
      BY <1>1, <2>1 DEF RunTypes
    <2>2. CASE ~UNCHANGED <<proc, waitsFor, delivered>>
      <3>1. [delivered[r] EXCEPT ![q] = form[u]] \in [1..MaxQuestions -> Questions]
        BY <1>1 DEF RunTypes
      <3>2. delivered' \in [Runs -> [1..MaxQuestions -> Questions]]
        BY <1>1, <2>2, <3>1 DEF RunTypes
      <3> QED
        BY <1>1, <1>2, <2>2, <3>2 DEF RunTypes, Open
    <2> QED
      BY <2>1, <2>2
  <1> QED
    BY <1>1, <1>3 DEF RunTypes, Lifecycle, ProcessesMove, Open

\* Every other step leaves the Processes alone.
LEMMA OthersLeaveRuns ==
  ASSUME NEW r, NEW u, NEW a,
         \/ CommonStep(a)
         \/ TriggerOwn(r) /\ ~Spawn(r)
         \/ SubmitOwn(u) /\ ~Respond(u)
         \/ SweepOwn
         \/ TimeOwn
         \/ UNCHANGED vars
  PROVE  UNCHANGED <<process, asking, closing>>
  <1>1. CASE CommonStep(a)
    BY Zenon, <1>1 DEF CommonStep, FinishFailed, RecordFailed, Leave, Crash, CallFails
  <1>2. CASE TriggerOwn(r) /\ ~Spawn(r)
    BY Zenon, <1>2 DEF TriggerOwn, Trigger, CheckSuspension, SuspensionIsActive, ReadOrphan,
       FinalizeOrphan, CheckLive, CreateLog, PrepareFails, GateRefuses
  <1>3. CASE SubmitOwn(u) /\ ~Respond(u)
    BY Zenon, <1>3 DEF SubmitOwn, ResumeLease, ResumeRead, ResumeWrite, Submit
  <1>4. CASE SweepOwn
    BY Zenon, <1>4 DEF SweepOwn, Scan, ExpireLease, Recheck, NextTick, ReadOrphan,
       FinalizeOrphan
  <1>5. CASE TimeOwn \/ UNCHANGED vars
    BY Zenon, <1>5 DEF TimeOwn, Timeout, LeaseExpires, LeaseOverrun, vars
  <1> QED
    BY <1>1, <1>2, <1>3, <1>4, <1>5

\* Every step keeps the Processes well formed and takes no end back.
LEMMA RunsMove ==
  ASSUME TypeOK, Stages, Started, [Next]_vars
  PROVE  RunTypes' /\ Lifecycle' /\ ProcessesMove
  <1>1. RunTypes /\ Lifecycle
    BY DEF TypeOK, RunTypes, Started, Lifecycle
  <1>2. CASE UNCHANGED <<process, asking, closing>>
    BY <1>1, <1>2 DEF process, RunTypes, Lifecycle, ProcessesMove
  <1>3. CASE \E r \in Runs : Spawn(r)
    <2>1. PICK r \in Runs : Spawn(r)
      BY <1>3
    <2>2. pc[r] = "logged"
      BY <2>1 DEF Spawn
    <2>3. proc[r] = "none"
      BY <2>2 DEF Started
    <2> QED
      BY <1>1, <2>1, <2>3, SpawnRuns
  <1>4. CASE \E u \in Submits : Respond(u)
    BY <1>1, <1>4, RespondRuns
  <1>5. CASE \E r \in Runs : ProcessOwn(r) \/ CloserOwn(r)
    BY <1>1, <1>5, ProcessRuns, CloserRuns
  <1> QED
    BY <1>2, <1>3, <1>4, <1>5, StepCases, OthersLeaveRuns

\* A Process is started by its trigger, works or waits, and is closed once it ended.
LEMMA StartedKept ==
  ASSUME TypeOK, Stages, Started, [Next]_vars
  PROVE  Started'
  <1>1. ActorsMove /\ Lifecycle' /\ ProcessesMove
    BY ActorsMoveOnly, RunsMove
  <1>2. ASSUME NEW r \in Runs, proc'[r] # "none"
        PROVE  pc'[r] \in {"leaving", "done", "dead"}
    <2>1. CASE proc[r] = "none"
      BY <1>1, <1>2, <2>1 DEF ProcessesMove
    <2>2. CASE proc[r] # "none"
      <3>1. pc[r] \in {"leaving", "done", "dead"}
        BY <2>2 DEF Started
      <3>2. r \in Actors /\ pc \in [Actors -> TriggerAt \cup SubmitAt \cup SweepAt]
        BY DEF Actors, TypeOK, TriggerAt, SubmitAt, SweepAt
      <3> QED
        BY <1>1, <3>1, <3>2 DEF ActorsMove
    <2> QED
      BY <2>1, <2>2
  <1> QED
    BY <1>1, <1>2 DEF Started, Lifecycle

-----------------------------------------------------------------------------
(* What a step writes of the logs, in the store and in memory. *)

\* The log of one run is written: it is failed, closed as what the Process was,
\* running for whoever wrote it, or parked on the question being asked.
LogsMove ==
  \/ log' = log
  \/ \E r \in Runs, l \in Log :
       /\ log' = [log EXCEPT ![r] = l]
       /\ l.error => l.stage = "failed"
       /\ \/ l.stage = "failed"
          \/ l.stage = "success" /\ proc[r] = "succeeded"
          \/ /\ l.stage = "running"
             /\ \E a \in Runs \cup Submits : /\ seen'[a] = r
                                             /\ pc'[a] \in {"logged", "responding"}
          \/ /\ l.stage = "awaiting" /\ asking[r] = "read" /\ l.await = asked[r]
             /\ asking' = [asking EXCEPT ![r] = "parked"]
             /\ UNCHANGED <<proc, asked, delivered>>

\* A copy is what the store holds, or gone.
CopiesMove ==
  \/ copies' = copies
  \/ \E x \in Readers, l \in Log :
       /\ copies' = [copies EXCEPT ![x] = l]
       /\ l = NoLog \/ \E r \in Runs : l = log[r]

\* The log that was never created is well formed, and open for nobody.
LEMMA NoLogIs == NoLog \in Log /\ ~NoLog.error /\ NoLog.stage = "none" /\ NoLog.await = 0
  BY JobRunAssumption DEF NoLog, Log, Questions

\* The readers are apart.
LEMMA ReadersApart ==
  ASSUME NEW r \in Runs
  PROVE  /\ Asker(r) \in Readers /\ Closer(r) \in Readers
         /\ Asker(r) \notin Actors /\ Closer(r) \notin Actors
         /\ \A s \in Runs : /\ Closer(r) = Closer(s) => r = s
                            /\ Asker(r) # Closer(s)
  <1>1. /\ Asker(r) \in {Asker(s) : s \in Runs}
        /\ Closer(r) \in {Closer(s) : s \in Runs}
    OBVIOUS
  <1> QED
    BY <1>1, ReaderAssumption DEF Asker, Closer, Readers

\* A closed copy of a log.
LEMMA ClosedIs ==
  ASSUME NEW l \in Log
  PROVE  LET c == [l EXCEPT !.stage = "failed", !.error = TRUE] IN
         c \in Log /\ c.stage = "failed" /\ c.error
  BY DEF Log, Closed

\* Every write of a log is one of those: the parts of the invariant about copies in
\* memory are what makes the stale ones among them harmless.
LEMMA LogsMoveOnly ==
  ASSUME TypeOK, Stages, Started, ErrorsFail, AnswersOnce, [Next]_vars
  PROVE  LogsMove
  <1> USE NoLogIs
  <1>1. ASSUME NEW a \in Actors, FinishFailed(a)
        PROVE  LogsMove
    <2> DEFINE l == [NoLog EXCEPT !.stage = "failed", !.error = TRUE]
    <2>1. log' = [log EXCEPT ![seen[a]] = l] /\ l \in Log /\ l.stage = "failed"
      BY <1>1 DEF FinishFailed, Log, Closed
    <2>2. seen[a] \notin Runs => log' = log
      BY <2>1 DEF TypeOK
    <2> QED
      BY <2>1, <2>2 DEF LogsMove
  <1>2. ASSUME NEW a \in Actors, NEW there, FinalizeOrphan(a, there)
        PROVE  LogsMove
    <2> DEFINE l == [copies[a] EXCEPT !.stage = "failed", !.error = TRUE]
    <2>1. log' = [log EXCEPT ![seen[a]] = l] /\ seen[a] \in Runs
      BY <1>2 DEF FinalizeOrphan, Stages
    <2>2. copies[a] \in Log
      BY DEF TypeOK, Readers
    <2>3. l \in Log /\ l.stage = "failed"
      BY <2>2, ClosedIs
    <2> QED
      BY <2>1, <2>3 DEF LogsMove
  <1>3. ASSUME NEW r \in Runs, CreateLog(r)
        PROVE  LogsMove
    <2> DEFINE l == [NoLog EXCEPT !.stage = "running"]
    <2>1. /\ log' = [log EXCEPT ![r] = l] /\ l \in Log /\ l.stage = "running"
          /\ ~l.error
      BY <1>3 DEF CreateLog, Log
    <2>2. seen'[r] = r /\ pc'[r] = "logged"
      BY <1>3 DEF CreateLog, Goto, TypeOK, Actors
    <2> QED
      BY <2>1, <2>2 DEF LogsMove
  <1>4. ASSUME NEW r \in Runs, Park(r)
        PROVE  LogsMove
    <2> DEFINE copy == copies[Asker(r)]
               l    == [copy EXCEPT !.stage = "awaiting", !.await = asked[r]]
    <2>1. copy \in Log /\ (copy.error => copy.stage = "failed") /\ asked[r] \in Questions
      BY ReadersApart DEF TypeOK, ErrorsFail
    <2>2. CASE copy.stage \in Closed
      BY <1>4, <2>2 DEF Park, LogsMove
    <2>3. CASE copy.stage \notin Closed
      <3>1. /\ log' = [log EXCEPT ![r] = l] /\ asking[r] = "read"
            /\ asking' = [asking EXCEPT ![r] = "parked"]
            /\ UNCHANGED <<proc, asked, delivered>>
        BY <1>4, <2>3 DEF Park, Parked
      <3>2. l \in Log /\ l.stage = "awaiting" /\ l.await = asked[r] /\ ~l.error
        BY <2>1, <2>3 DEF Log, Closed
      <3> QED
        BY <3>1, <3>2 DEF LogsMove
    <2> QED
      BY <2>2, <2>3
  <1>5. ASSUME NEW r \in Runs, FinishWrite(r)
        PROVE  LogsMove
    <2> DEFINE copy   == copies[Closer(r)]
               closed == Finished(r, copy)
    <2>1. copy \in Log /\ (copy.error => copy.stage = "failed")
      BY ReadersApart DEF TypeOK, ErrorsFail
    <2>2. \/ log' = log
          \/ /\ log' = [log EXCEPT ![r] = closed]
             /\ closed.stage = "success" => ~closed.error
      BY <1>5 DEF FinishWrite
    <2>3. /\ closed \in Log
          /\ closed.stage = (IF proc[r] = "succeeded" THEN "success" ELSE "failed")
      BY <2>1 DEF Finished, Log, Closed
    <2> QED
      BY <2>2, <2>3 DEF LogsMove
  <1>6. ASSUME NEW u \in Submits, ResumeWrite(u)
        PROVE  LogsMove
    <2> DEFINE l == [copies[u] EXCEPT !.stage = "running", !.await = 0]
    <2>1. /\ log' = [log EXCEPT ![seen[u]] = l] /\ seen[u] \in Runs
          /\ pc'[u] = "responding" /\ seen' = seen /\ pc[u] = "restoring"
      BY <1>6 DEF ResumeWrite, Stages, Goto, TypeOK, Actors
    <2>2. copies[u] \in Log /\ copies[u].stage = "awaiting" /\ ~copies[u].error
      BY <2>1 DEF TypeOK, Readers, Actors, AnswersOnce, Answering, ErrorsFail
    <2>3. l \in Log /\ l.stage = "running" /\ ~l.error
      BY <2>2, JobRunAssumption DEF Log, Questions
    <2> QED
      BY <2>1, <2>3 DEF LogsMove
  <1>7. CASE log' = log
    BY <1>7 DEF LogsMove
  <1>8. ASSUME NEW r \in Runs, ProcessOwn(r) \/ CloserOwn(r), log' # log
        PROVE  LogsMove
    BY <1>4, <1>5, <1>8
    DEF ProcessOwn, Ask, Mark, Suspend, End, Reclaim, Die, Overrun,
        CloserOwn, FinishRead, FinishRecord, FinishLost, FinishFails
  <1>9. ASSUME NEW r \in Runs, TriggerOwn(r), log' # log
        PROVE  LogsMove
    BY <1>2, <1>3, <1>9
    DEF Actors, TriggerOwn, Trigger, CheckSuspension, SuspensionIsActive, ReadOrphan,
        CheckLive, Spawn, PrepareFails, GateRefuses
  <1>10. ASSUME NEW u \in Submits, SubmitOwn(u), log' # log
         PROVE  LogsMove
    BY <1>6, <1>10 DEF SubmitOwn, ResumeLease, ResumeRead, Respond, Submit
  <1>11. ASSUME SweepOwn, log' # log
         PROVE  LogsMove
    BY <1>2, <1>11 DEF Actors, SweepOwn, Scan, ExpireLease, Recheck, NextTick, ReadOrphan
  <1>12. ASSUME NEW a \in Actors, CommonStep(a), log' # log
         PROVE  LogsMove
    BY <1>1, <1>12 DEF CommonStep, RecordFailed, Leave, Crash, CallFails
  <1>13. ASSUME TimeOwn \/ UNCHANGED vars
         PROVE  log' = log
    BY <1>13 DEF TimeOwn, Timeout, LeaseExpires, LeaseOverrun, vars
  <1> QED
    BY <1>7, <1>8, <1>9, <1>10, <1>11, <1>12, <1>13, StepCases

\* Every read takes a log as it is.
LEMMA CopiesMoveOnly ==
  ASSUME TypeOK, Stages, [Next]_vars
  PROVE  CopiesMove
  <1> USE NoLogIs
  <1>1. ASSUME NEW x \in Readers, NEW r \in Runs, Read(x, r)
        PROVE  CopiesMove
    <2>1. log[r] \in Log
      BY DEF TypeOK
    <2> QED
      BY <1>1, <2>1 DEF Read, CopiesMove
  <1>2. ASSUME NEW x \in Readers, copies' = [copies EXCEPT ![x] = NoLog]
        PROVE  CopiesMove
    BY <1>2 DEF CopiesMove
  <1>3. ASSUME NEW a \in Actors, NEW there, ReadOrphan(a, there)
        PROVE  CopiesMove
    BY <1>1, <1>3 DEF ReadOrphan, Readers, Stages, CopiesMove
  <1>4. ASSUME NEW u \in Submits, ResumeRead(u)
        PROVE  CopiesMove
    BY <1>1, <1>4 DEF ResumeRead, Readers, Actors, Stages, CopiesMove
  <1>5. ASSUME NEW r \in Runs, ProcessOwn(r) \/ CloserOwn(r), copies' # copies
        PROVE  CopiesMove
    BY <1>1, <1>2, <1>5, ReadersApart
    DEF ProcessOwn, Ask, Park, Mark, Suspend, End, Reclaim, Die, Overrun,
        CloserOwn, FinishRead, FinishWrite, FinishRecord, FinishLost, FinishFails
  <1>6. ASSUME NEW r \in Runs, TriggerOwn(r), copies' # copies
        PROVE  CopiesMove
    BY <1>3, <1>6
    DEF Actors, TriggerOwn, Trigger, CheckSuspension, SuspensionIsActive, FinalizeOrphan,
        CheckLive, CreateLog, Spawn, PrepareFails, GateRefuses
  <1>7. ASSUME NEW u \in Submits, SubmitOwn(u), copies' # copies
        PROVE  CopiesMove
    BY <1>4, <1>7 DEF SubmitOwn, ResumeLease, ResumeWrite, Respond, Submit
  <1>8. ASSUME SweepOwn, copies' # copies
        PROVE  CopiesMove
    BY <1>3, <1>8
    DEF Actors, SweepOwn, Scan, ExpireLease, Recheck, NextTick, FinalizeOrphan
  <1>9. ASSUME NEW a \in Actors, CommonStep(a), copies' # copies
        PROVE  CopiesMove
    BY <1>2, <1>9
    DEF CommonStep, FinishFailed, RecordFailed, Leave, Forget, Crash, CallFails, Readers
  <1>10. ASSUME TimeOwn \/ UNCHANGED vars
         PROVE  copies' = copies
    BY <1>10 DEF TimeOwn, Timeout, LeaseExpires, LeaseOverrun, vars
  <1> QED
    BY <1>5, <1>6, <1>7, <1>8, <1>9, <1>10, StepCases DEF CopiesMove

\* Logs stay well formed, and only failed ones carry errors.
LEMMA LogsKept ==
  ASSUME TypeOK, ErrorsFail, LogsMove, CopiesMove
  PROVE  log' \in [Runs -> Log] /\ copies' \in [Readers -> Log] /\ ErrorsFail'
  <1>1. log \in [Runs -> Log] /\ copies \in [Readers -> Log]
    BY DEF TypeOK
  <1>2. /\ log' \in [Runs -> Log]
        /\ \A r \in Runs : log'[r].error => log'[r].stage = "failed"
    BY <1>1 DEF LogsMove, ErrorsFail
  <1>3. /\ copies' \in [Readers -> Log]
        /\ \A x \in Readers : copies'[x].error => copies'[x].stage = "failed"
    BY <1>1, NoLogIs DEF CopiesMove, ErrorsFail
  <1> QED
    BY <1>2, <1>3 DEF ErrorsFail

-----------------------------------------------------------------------------
(* What a step writes of the JobRun document. *)

\* The marker and the last outcome are written by whoever clears the lease, and the
\* marker grows stale; the lease is taken when it is free, cleared, or expires when
\* its holder is dead.
SlotMoves ==
  \/ UNCHANGED <<holder, stolen, suspendedRun, stale, last>>
  \/ /\ \E a \in Actors : holder = None /\ holder' = a
     /\ UNCHANGED <<stolen, suspendedRun, stale, last>>
  \/ \E a \in Actors \cup {None} :
       /\ ClearLease(a)
       /\ a \in Actors => pc'[a] \notin Working
       /\ \/ UNCHANGED <<suspendedRun, stale, last>>
          \/ \E r \in Runs : suspendedRun' = r /\ stale' = FALSE /\ last' = last
          \/ /\ suspendedRun' = None /\ stale' = FALSE
             /\ \E r \in Runs \cup {None}, ok \in BOOLEAN :
                  /\ last' = [run |-> r, ok |-> ok]
                  /\ ok => r \in Runs /\ proc[r] = "succeeded"
       /\ \A b \in Actors : pc'[b] \in Working => pc[b] \in Working
  \/ /\ holder # None /\ pc[holder] = "dead" /\ holder' = None
     /\ UNCHANGED <<stolen, suspendedRun, stale, last, pc>>
  \/ UNCHANGED <<holder, stolen, suspendedRun, last, pc>> /\ stale' = TRUE

\* Every write of the document is one of those.
LEMMA SlotMovesOnly ==
  ASSUME TypeOK, Stages, Started, [Next]_vars
  PROVE  SlotMoves
  <1>0. pc \in [Actors -> TriggerAt \cup SubmitAt \cup SweepAt]
    BY DEF TypeOK, TriggerAt, SubmitAt, SweepAt
  <1>1. ASSUME NEW a \in Actors, RecordFailed(a)
        PROVE  SlotMoves
    <2>1. /\ ClearLease(a) /\ suspendedRun' = None /\ stale' = FALSE
          /\ last' = [run |-> seen[a], ok |-> FALSE]
          /\ pc' = [pc EXCEPT ![a] = "leaving"]
      BY <1>1 DEF RecordFailed, RecordRun, Goto
    <2>2. /\ \A b \in Actors : pc'[b] \in Working => pc[b] \in Working
          /\ pc'[a] \notin Working
      BY <1>0, <2>1 DEF Working
    <2>3. seen[a] \in Runs \cup {None}
      BY DEF TypeOK
    <2> QED
      BY <2>1, <2>2, <2>3 DEF SlotMoves
  <1>2. ASSUME NEW r \in Runs, PrepareFails(r)
        PROVE  SlotMoves
    <2>1. /\ ClearLease(r) /\ suspendedRun' = None /\ stale' = FALSE
          /\ last' = [run |-> None, ok |-> FALSE]
          /\ pc' = [pc EXCEPT ![r] = "leaving"] /\ r \in Actors
      BY <1>2 DEF PrepareFails, RecordRun, Goto, Actors
    <2>2. /\ \A b \in Actors : pc'[b] \in Working => pc[b] \in Working
          /\ pc'[r] \notin Working
      BY <1>0, <2>1 DEF Working
    <2> QED
      BY <2>1, <2>2 DEF SlotMoves
  <1>3. ASSUME NEW r \in Runs, FinishRecord(r)
        PROVE  SlotMoves
    <2> DEFINE ok == proc[r] = "succeeded"
    <2>1. /\ ClearLease(None) /\ suspendedRun' = None /\ stale' = FALSE
          /\ last' = [run |-> r, ok |-> ok] /\ pc' = pc
      BY <1>3 DEF FinishRecord, RecordRun, actors
    <2>2. ok \in BOOLEAN /\ None \notin Actors
      BY JobRunAssumption DEF Actors
    <2> QED
      BY <2>1, <2>2 DEF SlotMoves
  <1>4. ASSUME NEW r \in Runs, Mark(r)
        PROVE  SlotMoves
    <2>1. /\ ClearLease(r) /\ suspendedRun' = r /\ stale' = FALSE /\ last' = last
          /\ pc' = pc /\ asking[r] # "no" /\ r \in Actors
      BY <1>4 DEF Mark, actors, Actors
    <2>2. pc[r] \in {"leaving", "done", "dead"}
      BY <2>1 DEF Started
    <2>3. pc'[r] \notin Working
      BY <2>1, <2>2 DEF Working
    <2> QED
      BY <2>1, <2>3 DEF SlotMoves
  <1>5. ASSUME NEW a \in Actors, Leave(a)
        PROVE  SlotMoves
    <2>1. /\ ClearLease(a) /\ UNCHANGED <<suspendedRun, stale, last>>
          /\ \E there \in {"new", "done"} : pc' = [pc EXCEPT ![a] = there]
      BY <1>5 DEF Leave, Goto
    <2>2. /\ \A b \in Actors : pc'[b] \in Working => pc[b] \in Working
          /\ pc'[a] \notin Working
      BY <1>0, <2>1 DEF Working
    <2> QED
      BY <2>1, <2>2 DEF SlotMoves
  <1>6. ASSUME LeaseOverrun
        PROVE  SlotMoves
    <2>1. /\ ClearLease(None) /\ UNCHANGED <<suspendedRun, stale, last>> /\ pc' = pc
      BY <1>6 DEF LeaseOverrun, actors
    <2>2. None \notin Actors
      BY JobRunAssumption DEF Actors
    <2> QED
      BY <2>1, <2>2 DEF SlotMoves
  <1>7. ASSUME Timeout \/ LeaseExpires
        PROVE  SlotMoves
    BY <1>7 DEF Timeout, LeaseExpires, actors, SlotMoves
  <1>8. ASSUME NEW a \in Actors, NEW there, NEW otherwise,
               TryAcquireLease(a, there, otherwise),
               UNCHANGED <<suspendedRun, stale, last, stolen>>
        PROVE  SlotMoves
    BY <1>8 DEF TryAcquireLease, SlotMoves
  <1>9. CASE UNCHANGED jobRun
    BY <1>9 DEF jobRun, SlotMoves
  <1>10. ASSUME NEW r \in Runs, ProcessOwn(r) \/ CloserOwn(r), ~UNCHANGED jobRun
         PROVE  SlotMoves
    BY <1>3, <1>4, <1>10
    DEF ProcessOwn, Ask, Park, Suspend, End, Reclaim, Die, Overrun,
        CloserOwn, FinishRead, FinishWrite, FinishLost, FinishFails
  <1>11. ASSUME NEW r \in Runs, TriggerOwn(r), ~UNCHANGED jobRun
         PROVE  SlotMoves
    BY <1>2, <1>8, <1>11
    DEF Actors, TriggerOwn, Trigger, CheckSuspension, SuspensionIsActive, ReadOrphan,
        FinalizeOrphan, CheckLive, CreateLog, Spawn, GateRefuses
  <1>12. ASSUME NEW u \in Submits, SubmitOwn(u), ~UNCHANGED jobRun
         PROVE  SlotMoves
    BY <1>8, <1>12
    DEF Actors, SubmitOwn, ResumeLease, ResumeRead, ResumeWrite, Respond, Submit
  <1>13. ASSUME SweepOwn, ~UNCHANGED jobRun
         PROVE  SlotMoves
    BY <1>8, <1>13
    DEF Actors, SweepOwn, Scan, ExpireLease, Recheck, NextTick, ReadOrphan,
        FinalizeOrphan
  <1>14. ASSUME NEW a \in Actors, CommonStep(a), ~UNCHANGED jobRun
         PROVE  SlotMoves
    BY <1>1, <1>5, <1>14 DEF CommonStep, FinishFailed, Crash, CallFails
  <1>15. CASE TimeOwn \/ UNCHANGED vars
    BY <1>6, <1>7, <1>9, <1>15 DEF TimeOwn, vars
  <1> QED
    BY <1>9, <1>10, <1>11, <1>12, <1>13, <1>14, <1>15, StepCases

\* Errors add up.
LEMMA ErrorsAddUp ==
  ASSUME TypeOK, [Next]_vars
  PROVE  /\ errors \subseteq errors' /\ errors' \subseteq Calls \cup {"finish"}
         /\ faults' \in Nat
  <1>1. errors \subseteq Calls \cup {"finish"} /\ faults \in Nat
    BY DEF TypeOK
  <1>2. CASE UNCHANGED failures
    BY <1>1, <1>2 DEF failures
  <1>3. CASE faults' = faults + 1 /\ errors' = errors
    BY <1>1, <1>3
  <1>4. ASSUME NEW a \in Actors, CallFails(a)
        PROVE  /\ errors \subseteq errors' /\ errors' \subseteq Calls \cup {"finish"}
               /\ faults' \in Nat
    BY <1>1, <1>4 DEF CallFails
  <1>5. ASSUME NEW r \in Runs, FinishFails(r)
        PROVE  /\ errors \subseteq errors' /\ errors' \subseteq Calls \cup {"finish"}
               /\ faults' \in Nat
    BY <1>1, <1>5 DEF FinishFails
  <1>6. ASSUME NEW r \in Runs, ProcessOwn(r) \/ CloserOwn(r), ~FinishFails(r)
        PROVE  UNCHANGED failures \/ (faults' = faults + 1 /\ errors' = errors)
    BY Zenon, <1>6
    DEF ProcessOwn, Ask, Park, Mark, Suspend, End, Reclaim, Die, Overrun,
        CloserOwn, FinishRead, FinishWrite, FinishRecord, FinishLost
  <1>7. ASSUME NEW r \in Runs, TriggerOwn(r)
        PROVE  UNCHANGED failures \/ (faults' = faults + 1 /\ errors' = errors)
    BY Zenon, <1>7
    DEF TriggerOwn, Trigger, CheckSuspension, SuspensionIsActive, ReadOrphan,
        FinalizeOrphan, CheckLive, CreateLog, Spawn, PrepareFails, GateRefuses
  <1>8. ASSUME NEW u \in Submits, SubmitOwn(u)
        PROVE  UNCHANGED failures
    BY Zenon, <1>8 DEF SubmitOwn, ResumeLease, ResumeRead, ResumeWrite, Respond, Submit
  <1>9. ASSUME SweepOwn
        PROVE  UNCHANGED failures
    BY Zenon, <1>9
    DEF SweepOwn, Scan, ExpireLease, Recheck, NextTick, ReadOrphan, FinalizeOrphan
  <1>10. ASSUME NEW a \in Actors, CommonStep(a), ~CallFails(a)
         PROVE  UNCHANGED failures \/ (faults' = faults + 1 /\ errors' = errors)
    BY Zenon, <1>10 DEF CommonStep, FinishFailed, RecordFailed, Leave, Crash
  <1>11. ASSUME TimeOwn \/ UNCHANGED vars
         PROVE  UNCHANGED failures \/ (faults' = faults + 1 /\ errors' = errors)
    BY Zenon, <1>11 DEF TimeOwn, Timeout, LeaseExpires, LeaseOverrun, vars
  <1> QED
    BY <1>2, <1>3, <1>4, <1>5, <1>6, <1>7, <1>8, <1>9, <1>10, <1>11, StepCases

-----------------------------------------------------------------------------
(* The parts of the invariant. *)

\* A step is the moves it makes.
LEMMA StepMoves ==
  ASSUME IInv, [Next]_vars
  PROVE  /\ ActorsMove /\ ProcessesMove /\ LogsMove /\ CopiesMove /\ SlotMoves
         /\ errors \subseteq errors'
  BY ActorsMoveOnly, RunsMove, LogsMoveOnly, CopiesMoveOnly, SlotMovesOnly, ErrorsAddUp
  DEF IInv

\* Every step keeps the types, the paths, the Processes and the errors.
LEMMA TypesKept ==
  ASSUME IInv, [Next]_vars
  PROVE  TypeOK' /\ Stages' /\ Started' /\ ErrorsFail'
  <1>1. TypeOK /\ Stages /\ Started /\ ErrorsFail
    BY DEF IInv
  <1>2. RunTypes'
    BY <1>1, RunsMove
  <1>3. /\ holder' \in Actors \cup {None} /\ stolen' \in BOOLEAN
        /\ suspendedRun' \in Runs \cup {None} /\ stale' \in BOOLEAN
        /\ last' \in [run : Runs \cup {None}, ok : BOOLEAN]
    <2>1. /\ holder \in Actors \cup {None} /\ stolen \in BOOLEAN
          /\ suspendedRun \in Runs \cup {None} /\ stale \in BOOLEAN
          /\ last \in [run : Runs \cup {None}, ok : BOOLEAN]
      BY <1>1 DEF TypeOK
    <2>2. ASSUME NEW a, ClearLease(a)
          PROVE  holder' = None /\ stolen' \in BOOLEAN
      BY <2>2 DEF ClearLease
    <2>3. last' \in [run : Runs \cup {None}, ok : BOOLEAN]
      <3>1. \/ last' = last
            \/ \E r \in Runs \cup {None}, ok \in BOOLEAN : last' = [run |-> r, ok |-> ok]
        BY StepMoves DEF SlotMoves
      <3> QED
        BY <2>1, <3>1
    <2>4. /\ suspendedRun' \in Runs \cup {None}
          /\ stale' \in BOOLEAN
      BY <2>1, StepMoves DEF SlotMoves
    <2>5. holder' \in Actors \cup {None} /\ stolen' \in BOOLEAN
      BY <2>1, <2>2, StepMoves DEF SlotMoves
    <2> QED
      BY <2>3, <2>4, <2>5
  <1>4. /\ Stages'
        /\ seen' \in [Actors -> Runs \cup {None}]
        /\ form' \in [Submits -> Questions]
        /\ pc' \in [Actors -> TriggerAt \cup SubmitAt \cup SweepAt]
    BY <1>1, StepMoves, StagesKept
  <1>5. log' \in [Runs -> Log] /\ copies' \in [Readers -> Log] /\ ErrorsFail'
    BY <1>1, StepMoves, LogsKept
  <1>6. errors' \subseteq Calls \cup {"finish"} /\ faults' \in Nat
    BY <1>1, ErrorsAddUp
  <1>7. pc' \in [Actors -> {"new", "seen", "leased", "judging", "orphan",
                            "finalizing", "cleared", "preparing", "logged",
                            "resuming", "restoring", "responding", "failing",
                            "recording", "leaving", "done", "dead"}]
    BY <1>4 DEF TriggerAt, SubmitAt, SweepAt
  <1>8. TypeOK'
    BY <1>2, <1>3, <1>4, <1>5, <1>6, <1>7 DEF TypeOK, RunTypes
  <1> QED
    BY <1>1, <1>4, <1>5, <1>8, StartedKept

\* Who closes a log as a success, or stamps one, saw the Process succeed; and a
\* Process that succeeded stays so.
LEMMA SuccessKept ==
  ASSUME IInv, [Next]_vars
  PROVE  SuccessHeld'
  <1>1. LogsMove /\ ProcessesMove /\ SlotMoves /\ TypeOK /\ SuccessHeld
    BY StepMoves DEF IInv
  <1>2. \A r \in Runs : proc[r] = "succeeded" => proc'[r] = "succeeded"
    BY <1>1 DEF ProcessesMove
  <1>3. ASSUME NEW r \in Runs, log'[r].stage = "success"
        PROVE  proc'[r] = "succeeded"
    <2>1. log'[r].stage = log[r].stage \/ proc[r] = "succeeded"
      BY <1>1, <1>3 DEF LogsMove, TypeOK
    <2> QED
      BY <1>1, <1>2, <1>3, <2>1 DEF SuccessHeld
  <1>4. ASSUME last'.ok
        PROVE  last'.run \in Runs /\ proc'[last'.run] = "succeeded"
    <2>1. CASE last' = last
      BY <1>1, <1>2, <1>4, <2>1 DEF SuccessHeld
    <2>2. CASE last' # last
      <3>1. PICK r \in Runs \cup {None}, ok \in BOOLEAN :
              /\ last' = [run |-> r, ok |-> ok]
              /\ ok => r \in Runs /\ proc[r] = "succeeded"
        BY <1>1, <2>2 DEF SlotMoves
      <3> QED
        BY <1>2, <1>4, <3>1
    <2> QED
      BY <2>1, <2>2
  <1> QED
    BY <1>3, <1>4 DEF SuccessHeld

\* The lease is taken when it is free, so nobody else was working under it; taken
\* away from somebody who works, it is stolen.
LEMMA LeaseKept ==
  ASSUME IInv, [Next]_vars
  PROVE  LeaseHeld' /\ (stolen => stolen')
  <1>1. ActorsMove /\ SlotMoves /\ TypeOK /\ LeaseHeld
    BY StepMoves DEF IInv
  <1>2. pc \in [Actors -> TriggerAt \cup SubmitAt \cup SweepAt]
    BY <1>1 DEF TypeOK, TriggerAt, SubmitAt, SweepAt
  <1>3. None \notin Actors
    BY JobRunAssumption DEF Actors
  <1>4. stolen => stolen'
    BY <1>1 DEF SlotMoves, ClearLease
  <1>5. ASSUME ~stolen', NEW a \in Actors, pc'[a] \in Working
        PROVE  holder' = a
    <2>1. ~stolen
      BY <1>4, <1>5
    <2>2. CASE pc[a] \notin Working
      BY <1>1, <1>2, <1>5, <2>2 DEF ActorsMove
    <2>3. CASE pc[a] \in Working
      <3>1. holder = a
        BY <1>1, <2>1, <2>3 DEF LeaseHeld
      <3>2. CASE holder' = holder
        BY <3>1, <3>2
      <3>3. ASSUME NEW b \in Actors \cup {None}, ClearLease(b),
                   b \in Actors => pc'[b] \notin Working
            PROVE  FALSE
        <4>1. b # a
          BY <1>5, <3>3
        <4>2. InUse
          BY <1>3, <2>3, <3>1 DEF InUse, Working
        <4> QED
          BY <1>5, <3>1, <3>3, <4>1, <4>2 DEF ClearLease
      <3>4. pc[holder] # "dead"
        BY <2>3, <3>1 DEF Working
      <3> QED
        BY <1>1, <1>3, <3>1, <3>2, <3>3, <3>4 DEF SlotMoves
    <2> QED
      BY <2>2, <2>3
  <1> QED
    BY <1>4, <1>5 DEF LeaseHeld

Passed == {"orphan", "finalizing", "cleared", "preparing", "logged"}

\* How a trigger comes to judge a suspension, and to pass it.
LEMMA TriggersJudge ==
  ASSUME TypeOK, Stages, [Next]_vars, NEW r \in Runs
  PROVE  /\ pc'[r] = "judging" => \/ pc[r] = "judging" /\ seen'[r] = seen[r]
                                  \/ seen'[r] = suspendedRun
         /\ pc'[r] \in Passed =>
              \/ pc[r] \in Passed
              \/ suspendedRun = None
              \/ stale
              \/ /\ pc[r] = "judging"
                 /\ "judging" \in errors' \/ log[seen[r]].stage # "awaiting"
  <1> DEFINE Judges ==
        /\ pc'[r] = "judging" => \/ pc[r] = "judging" /\ seen'[r] = seen[r]
                                 \/ seen'[r] = suspendedRun
        /\ pc'[r] \in Passed =>
             \/ pc[r] \in Passed
             \/ suspendedRun = None
             \/ stale
             \/ /\ pc[r] = "judging"
                /\ "judging" \in errors' \/ log[seen[r]].stage # "awaiting"
  <1>0. /\ pc \in [Actors -> TriggerAt \cup SubmitAt \cup SweepAt]
        /\ seen \in [Actors -> Runs \cup {None}]
        /\ r \in Actors /\ r \notin Submits /\ r # Sweep
    BY JobRunAssumption DEF TypeOK, TriggerAt, SubmitAt, SweepAt, Actors
  <1>1. CASE pc'[r] = pc[r] /\ seen'[r] = seen[r]
    BY <1>1
  <1>2. ASSUME NEW a, a # r, NEW there, pc' = [pc EXCEPT ![a] = there],
               NEW v, seen' = seen \/ seen' = [seen EXCEPT ![a] = v]
        PROVE  Judges
    BY <1>0, <1>1, <1>2
  <1>3. ASSUME pc'[r] \notin Passed \cup {"judging"}
        PROVE  Judges
    BY <1>3
  <1>4. ASSUME NEW s \in Runs, TriggerOwn(s)
        PROVE  Judges
    <2>1. CASE s # r
      <3>1. \E there, v : /\ pc' = [pc EXCEPT ![s] = there]
                          /\ seen' = seen \/ seen' = [seen EXCEPT ![s] = v]
        BY <1>4
        DEF TriggerOwn, Trigger, CheckSuspension, SuspensionIsActive, ReadOrphan,
            FinalizeOrphan, CheckLive, CreateLog, Spawn, PrepareFails, GateRefuses,
            Goto, TryAcquireLease
      <3> QED
        BY <1>2, <2>1, <3>1
    <2>2. CASE s = r
      <3>1. CASE Trigger(r)
        BY <1>0, <3>1 DEF Trigger, TryAcquireLease, Goto, Passed
      <3>2. CASE CheckSuspension(r)
        <4>1. /\ seen'[r] = suspendedRun
              /\ \/ suspendedRun = None /\ pc'[r] = "cleared"
                 \/ stale /\ pc'[r] = "orphan"
                 \/ pc'[r] = "judging"
          BY <1>0, <3>2 DEF CheckSuspension, Goto
        <4> QED
          BY <4>1 DEF Passed
      <3>3. CASE SuspensionIsActive(r)
        BY <1>0, <3>3 DEF SuspensionIsActive, Goto, Passed
      <3>4. CASE ReadOrphan(r, "cleared") \/ FinalizeOrphan(r, "cleared")
        BY <1>0, <3>4 DEF ReadOrphan, FinalizeOrphan, Goto, Passed
      <3>5. CASE CheckLive(r) \/ CreateLog(r) \/ PrepareFails(r) \/ GateRefuses(r)
        BY <1>0, <3>5 DEF CheckLive, CreateLog, PrepareFails, GateRefuses, Goto, Passed
      <3>6. CASE Spawn(r)
        BY <1>0, <3>6 DEF Spawn, Goto, Passed
      <3> QED
        BY <1>4, <2>2, <3>1, <3>2, <3>3, <3>4, <3>5, <3>6 DEF TriggerOwn
    <2> QED
      BY <2>1, <2>2
  <1>5. ASSUME NEW u \in Submits, SubmitOwn(u)
        PROVE  Judges
    <2>1. \E there, v : /\ pc' = [pc EXCEPT ![u] = there]
                        /\ seen' = seen \/ seen' = [seen EXCEPT ![u] = v]
      BY <1>5
      DEF SubmitOwn, ResumeLease, ResumeRead, ResumeWrite, Respond, Submit, Goto,
          TryAcquireLease
    <2> QED
      BY <1>0, <1>2, <2>1
  <1>6. ASSUME SweepOwn
        PROVE  Judges
    <2>1. \E there, v : /\ pc' = [pc EXCEPT ![Sweep] = there]
                        /\ seen' = seen \/ seen' = [seen EXCEPT ![Sweep] = v]
      BY <1>6
      DEF SweepOwn, Scan, ExpireLease, Recheck, NextTick, ReadOrphan, FinalizeOrphan,
          Goto, TryAcquireLease
    <2> QED
      BY <1>0, <1>2, <2>1
  <1>7. ASSUME NEW a \in Actors, CommonStep(a)
        PROVE  Judges
    <2>1. \E there, v : /\ pc' = [pc EXCEPT ![a] = there]
                        /\ seen' = seen \/ seen' = [seen EXCEPT ![a] = v]
      BY <1>7
      DEF CommonStep, FinishFailed, RecordFailed, Leave, Forget, Crash, CallFails, Goto
    <2>2. CASE a = r /\ ~CallFails(r)
      <3>1. pc'[r] \in {"recording", "leaving", "new", "done", "dead"}
        BY <1>0, <1>7, <2>2
        DEF CommonStep, FinishFailed, RecordFailed, Leave, Crash, Goto
      <3> QED
        BY <1>3, <3>1 DEF Passed
    <2>3. CASE a = r /\ CallFails(r)
      <3>1. /\ pc[r] \in Calls /\ pc'[r] = OnError(r) /\ seen' = seen
            /\ errors' = errors \cup {pc[r]}
        BY <1>0, <2>3 DEF CallFails, Goto
      <3>2. CASE pc[r] = "judging"
        <4>1. "judging" \in errors'
          BY <3>1, <3>2
        <4>2. pc'[r] = "orphan"
          BY <3>1, <3>2 DEF OnError
        <4> QED
          BY <3>2, <4>1, <4>2
      <3>3. CASE pc[r] \in Passed
        <4>1. pc[r] \in {"orphan", "finalizing", "cleared", "logged"}
          BY <3>1, <3>3 DEF Calls, Passed
        <4>2. pc'[r] \in {"cleared", "preparing", "failing"}
          BY <1>0, <3>1, <4>1 DEF OnError
        <4> QED
          BY <3>3, <4>2
      <3>4. CASE pc[r] \in {"leased", "resuming", "restoring", "recording",
                            "responding", "failing"}
        <4>1. pc'[r] \in {"leaving", "failing", "recording"}
          BY <3>1, <3>4 DEF OnError
        <4> QED
          BY <1>3, <4>1 DEF Passed
      <3> QED
        BY <3>1, <3>2, <3>3, <3>4 DEF Calls, Passed
    <2> QED
      BY <1>2, <2>1, <2>2, <2>3
  <1>8. CASE UNCHANGED <<pc, seen, form>>
    BY <1>1, <1>8
  <1>9. CASE TimeOwn \/ UNCHANGED vars
    BY <1>1, <1>9 DEF TimeOwn, Timeout, LeaseExpires, LeaseOverrun, vars, actors
  <1> QED
    BY <1>4, <1>5, <1>6, <1>7, <1>8, <1>9, StepCases, OthersLeaveActors

\* A Process suspends only behind the marker.
LEMMA SuspensionsMarked ==
  ASSUME TypeOK, [Next]_vars, NEW q \in Runs
  PROVE  /\ asking'[q] = "marked" => asking[q] = "marked" \/ holder' = None
         /\ proc'[q] = "waiting" => proc[q] = "waiting" \/ asking[q] = "marked"
  <1> DEFINE Suspends ==
        /\ asking'[q] = "marked" => asking[q] = "marked" \/ holder' = None
        /\ proc'[q] = "waiting" => proc[q] = "waiting" \/ asking[q] = "marked"
  <1>0. RunTypes
    BY DEF TypeOK, RunTypes
  <1>1. CASE UNCHANGED <<process, asking, closing>>
    BY <1>1 DEF process
  <1>2. ASSUME NEW r \in Runs, CloserOwn(r)
        PROVE  Suspends
    BY <1>2
    DEF CloserOwn, FinishRead, FinishWrite, FinishRecord, FinishLost, FinishFails, process
  <1>3. ASSUME NEW r \in Runs, Spawn(r)
        PROVE  Suspends
    BY <1>0, <1>3 DEF Spawn, RunTypes
  <1>4. ASSUME NEW u \in Submits, Respond(u)
        PROVE  Suspends
    BY <1>0, <1>4 DEF Respond, RunTypes
  <1>5. ASSUME NEW r \in Runs, Mark(r)
        PROVE  Suspends
    BY <1>5 DEF Mark, ClearLease, process
  <1>6. ASSUME NEW r \in Runs, Suspend(r)
        PROVE  Suspends
    BY <1>0, <1>6 DEF Suspend, RunTypes
  <1>7. ASSUME NEW r \in Runs, Park(r)
        PROVE  Suspends
    BY <1>0, <1>7 DEF Park, Ends, RunTypes
  <1>8. ASSUME NEW r \in Runs,
               Ask(r) \/ End(r) \/ Reclaim(r) \/ Die(r) \/ Overrun(r)
        PROVE  Suspends
    BY <1>0, <1>8 DEF Ask, End, Reclaim, Die, Overrun, Ends, RunTypes
  <1> QED
    BY <1>1, <1>2, <1>3, <1>4, <1>5, <1>6, <1>7, <1>8, StepCases, OthersLeaveRuns
    DEF ProcessOwn

\* No trigger passes an open question, and none is opened behind its back.
LEMMA JudgedKept ==
  ASSUME IInv, [Next]_vars
  PROVE  Judged'
  <1>1. /\ LeaseHeld' /\ (stolen => stolen') /\ errors \subseteq errors'
        /\ SlotMoves /\ LogsMove /\ TypeOK /\ Judged /\ Started
    BY LeaseKept, StepMoves DEF IInv
  <1>2. None \notin Actors /\ None \notin Runs
    BY JobRunAssumption DEF Actors
  <1> SUFFICES ASSUME ~stolen', NEW r \in Runs, pc'[r] \in Passed \cup {"judging"}
               PROVE  /\ pc'[r] = "judging" => seen'[r] = suspendedRun'
                      /\ pc'[r] \in Passed => \/ stale' \/ "judging" \in errors'
                                              \/ suspendedRun' \notin OpenQuestions'
    BY DEF Judged, Passed
  <1>3. ~stolen /\ holder' = r /\ holder' # None
    BY <1>1, <1>2 DEF LeaseHeld, Working, Passed, Actors
  <1>4. suspendedRun' = suspendedRun /\ (stale => stale')
    <2>1. ASSUME NEW b, ClearLease(b)
          PROVE  FALSE
      BY <1>3, <2>1 DEF ClearLease
    <2> QED
      BY <1>1, <1>3, <2>1 DEF SlotMoves
  <1>5. OpenQuestions' \subseteq OpenQuestions
    <2> SUFFICES ASSUME NEW q \in Runs, log'[q].stage = "awaiting",
                        proc'[q] = "waiting" \/ asking'[q] = "marked"
                 PROVE  q \in OpenQuestions
      BY DEF OpenQuestions
    <2>1. proc[q] = "waiting" \/ asking[q] = "marked"
      BY <1>1, <1>3, SuspensionsMarked
    <2>2. asking[q] # "read"
      BY <1>1, <2>1 DEF Started
    <2>3. log[q].stage = "awaiting"
      BY <1>1, <2>1, <2>2, JobRunAssumption DEF LogsMove, TypeOK
    <2> QED
      BY <2>1, <2>3 DEF OpenQuestions
  <1>6. pc'[r] = "judging" => seen'[r] = suspendedRun'
    BY <1>1, <1>3, <1>4, TriggersJudge DEF Judged, IInv
  <1>7. ASSUME pc'[r] \in Passed, ~stale', "judging" \notin errors'
        PROVE  suspendedRun' \notin OpenQuestions'
    <2>1. ~stale /\ "judging" \notin errors
      BY <1>1, <1>4, <1>7
    <2>2. None \notin OpenQuestions
      BY <1>2 DEF OpenQuestions
    <2>3. \/ pc[r] \in Passed
          \/ suspendedRun = None
          \/ pc[r] = "judging" /\ log[seen[r]].stage # "awaiting"
      BY <1>7, <2>1, TriggersJudge DEF IInv
    <2>4. CASE pc[r] \in Passed
      BY <1>1, <1>3, <1>4, <1>5, <2>1, <2>4 DEF Judged, Passed
    <2>5. CASE pc[r] = "judging" /\ log[seen[r]].stage # "awaiting"
      BY <1>1, <1>3, <1>4, <1>5, <2>5 DEF Judged, OpenQuestions
    <2> QED
      BY <1>4, <1>5, <2>2, <2>3, <2>4, <2>5
  <1> QED
    BY <1>6, <1>7

Holds == {"logged", "responding", "failing", "dead"}

\* A Process that ends is due to be closed; the handler reads the log, closes it,
\* fails to or is lost.
LEMMA HandlersClose ==
  ASSUME TypeOK, Lifecycle, [Next]_vars, NEW r \in Runs
  PROVE  /\ proc[r] \in Open => proc'[r] \in Open \/ closing'[r] = "due"
         /\ closing[r] = "lost" => closing'[r] = "lost"
         /\ closing[r] = "due" =>
              \/ closing'[r] \in {"due", "lost"}
              \/ closing'[r] = "read" /\ copies'[Closer(r)] = log[r] /\ log' = log
         /\ closing[r] = "read" =>
              \/ closing'[r] = "read" /\ copies'[Closer(r)] = copies[Closer(r)]
              \/ closing'[r] = "lost"
              \/ "finish" \in errors'
              \/ FinishWrite(r)
  <1> DEFINE Closes ==
         /\ proc[r] \in Open => proc'[r] \in Open \/ closing'[r] = "due"
         /\ closing[r] = "lost" => closing'[r] = "lost"
         /\ closing[r] = "due" =>
              \/ closing'[r] \in {"due", "lost"}
              \/ closing'[r] = "read" /\ copies'[Closer(r)] = log[r] /\ log' = log
         /\ closing[r] = "read" =>
              \/ closing'[r] = "read" /\ copies'[Closer(r)] = copies[Closer(r)]
              \/ closing'[r] = "lost"
              \/ "finish" \in errors'
              \/ FinishWrite(r)
  <1>0. RunTypes /\ Closer(r) \in Readers /\ copies \in [Readers -> Log]
    BY ReadersApart DEF TypeOK, RunTypes
  <1>1. ASSUME NEW x, x # Closer(r), NEW l,
               copies' = copies \/ copies' = [copies EXCEPT ![x] = l]
        PROVE  copies'[Closer(r)] = copies[Closer(r)]
    BY <1>0, <1>1
  <1>2. ASSUME UNCHANGED <<process, asking, closing>>,
               copies'[Closer(r)] = copies[Closer(r)]
        PROVE  Closes
    BY <1>2 DEF process
  <1>3. ASSUME NEW a \in Actors, CommonStep(a)
        PROVE  Closes
    <2>1. copies' = copies \/ copies' = [copies EXCEPT ![a] = NoLog]
      BY <1>3 DEF CommonStep, FinishFailed, RecordFailed, Leave, Forget, Crash, CallFails
    <2> QED
      BY <1>1, <1>2, <1>3, <2>1, ReadersApart, OthersLeaveRuns
  <1>4. ASSUME NEW s \in Runs, TriggerOwn(s)
        PROVE  Closes
    <2>1. \E l : copies' = copies \/ copies' = [copies EXCEPT ![s] = l]
      BY <1>4
      DEF TriggerOwn, Trigger, CheckSuspension, SuspensionIsActive, ReadOrphan, Read,
          FinalizeOrphan, CheckLive, CreateLog, Spawn, PrepareFails, GateRefuses
    <2>2. copies'[Closer(r)] = copies[Closer(r)]
      BY <1>1, <2>1, ReadersApart DEF Actors
    <2>3. CASE Spawn(s)
      BY <1>0, <2>2, <2>3 DEF Spawn, RunTypes, Open
    <2> QED
      BY <1>2, <1>4, <2>2, <2>3, OthersLeaveRuns
  <1>5. ASSUME NEW u \in Submits, SubmitOwn(u)
        PROVE  Closes
    <2>1. \E l : copies' = copies \/ copies' = [copies EXCEPT ![u] = l]
      BY <1>5 DEF SubmitOwn, ResumeLease, ResumeRead, ResumeWrite, Respond, Submit, Read
    <2>2. copies'[Closer(r)] = copies[Closer(r)]
      BY <1>1, <2>1, ReadersApart DEF Actors
    <2>3. CASE Respond(u)
      BY <1>0, <2>2, <2>3 DEF Respond, RunTypes, Open
    <2> QED
      BY <1>2, <1>5, <2>2, <2>3, OthersLeaveRuns
  <1>6. ASSUME SweepOwn
        PROVE  Closes
    <2>1. \E l : copies' = copies \/ copies' = [copies EXCEPT ![Sweep] = l]
      BY <1>6
      DEF SweepOwn, Scan, ExpireLease, Recheck, NextTick, ReadOrphan, FinalizeOrphan, Read
    <2>2. copies'[Closer(r)] = copies[Closer(r)]
      BY <1>1, <2>1, ReadersApart DEF Actors
    <2> QED
      BY <1>2, <1>6, <2>2, OthersLeaveRuns
  <1>7. ASSUME NEW s \in Runs, ProcessOwn(s)
        PROVE  Closes
    <2>1. \E l : copies' = copies \/ copies' = [copies EXCEPT ![Asker(s)] = l]
      BY <1>7 DEF ProcessOwn, Ask, Park, Mark, Suspend, End, Reclaim, Die, Overrun, Read
    <2>2. copies'[Closer(r)] = copies[Closer(r)]
      BY <1>1, <2>1, ReadersApart
    <2>3. /\ proc[r] \in Open => proc'[r] \in Open \/ closing'[r] = "due"
          /\ closing'[r] = closing[r] \/ proc[r] \in Open
      <3>1. CASE Ask(s) \/ Mark(s)
        BY <3>1 DEF Ask, Mark, process
      <3>2. CASE Park(s)
        BY <1>0, <3>2 DEF Park, Ends, RunTypes, Open
      <3>3. CASE Suspend(s)
        BY <1>0, <3>3 DEF Suspend, RunTypes, Open
      <3>4. CASE End(s)
        BY <1>0, <3>4 DEF End, Ends, RunTypes, Open
      <3>5. CASE Reclaim(s) \/ Overrun(s)
        BY <1>0, <3>5 DEF Reclaim, Overrun, Ends, RunTypes, Open
      <3>6. CASE Die(s)
        BY <1>0, <3>6 DEF Die, RunTypes, Open
      <3> QED
        BY <1>7, <3>1, <3>2, <3>3, <3>4, <3>5, <3>6 DEF ProcessOwn
    <2>4. closing[r] # "no" => proc[r] \notin Open
      BY DEF Lifecycle, Open
    <2> QED
      BY <2>2, <2>3, <2>4
  <1>8. ASSUME NEW s \in Runs, CloserOwn(s)
        PROVE  Closes
    <2>1. proc' = proc
      BY <1>8
      DEF CloserOwn, FinishRead, FinishWrite, FinishRecord, FinishLost, FinishFails,
          process
    <2>2. CASE s # r
      <3>1. /\ \E l : copies' = copies \/ copies' = [copies EXCEPT ![Closer(s)] = l]
            /\ closing'[r] = closing[r]
        BY <1>0, <1>8, <2>2
        DEF CloserOwn, FinishRead, FinishWrite, FinishRecord, FinishLost, FinishFails,
            Read, RunTypes
      <3>2. Closer(s) # Closer(r)
        BY <2>2, ReadersApart
      <3> QED
        BY <1>1, <2>1, <3>1, <3>2
    <2>3. CASE s = r
      <3>1. CASE FinishRead(r)
        BY <1>0, <2>1, <3>1 DEF FinishRead, Read, RunTypes
      <3>2. CASE FinishWrite(r)
        BY <2>1, <3>2 DEF FinishWrite
      <3>3. CASE FinishRecord(r)
        BY <2>1, <3>3 DEF FinishRecord
      <3>4. CASE FinishLost(r)
        BY <1>0, <2>1, <3>4 DEF FinishLost, RunTypes
      <3>5. CASE FinishFails(r)
        BY <2>1, <3>5 DEF FinishFails
      <3> QED
        BY <1>8, <2>3, <3>1, <3>2, <3>3, <3>4, <3>5 DEF CloserOwn
    <2> QED
      BY <2>2, <2>3
  <1>9. CASE TimeOwn \/ UNCHANGED vars
    <2>1. copies' = copies /\ UNCHANGED <<process, asking, closing>>
      BY <1>9 DEF TimeOwn, Timeout, LeaseExpires, LeaseOverrun, vars
    <2> QED
      BY <1>2, <2>1
  <1> QED
    BY <1>3, <1>4, <1>5, <1>6, <1>7, <1>8, <1>9, StepCases

\* Who carries a run carries it on, hands it to its Process, or closes it, unless the
\* write that closes it fails.
LEMMA CarriersCarryOn ==
  ASSUME TypeOK, Stages, [Next]_vars, NEW a \in Runs \cup Submits,
         pc[a] \in Holds, seen[a] \in Runs
  PROVE  \/ pc'[a] \in Holds /\ seen'[a] = seen[a]
         \/ proc'[seen[a]] \in Open
         \/ "failing" \in errors'
         \/ log'[seen[a]].stage = "failed"
  <1> DEFINE Carries ==
         \/ pc'[a] \in Holds /\ seen'[a] = seen[a]
         \/ proc'[seen[a]] \in Open
         \/ "failing" \in errors'
         \/ log'[seen[a]].stage = "failed"
  <1>0. /\ pc \in [Actors -> TriggerAt \cup SubmitAt \cup SweepAt]
        /\ seen \in [Actors -> Runs \cup {None}]
        /\ log \in [Runs -> Log] /\ RunTypes
        /\ a \in Actors /\ a # Sweep
        /\ a \in Runs /\ pc[a] = "logged" => seen[a] = a
        /\ a \in Runs => pc[a] \in TriggerAt
        /\ a \in Submits => pc[a] \in SubmitAt
        /\ (a \in Runs <=> a \notin Submits)
    BY JobRunAssumption
    DEF TypeOK, Stages, RunTypes, TriggerAt, SubmitAt, SweepAt, Actors
  <1>1. ASSUME NEW b, b # a, NEW there, pc' = [pc EXCEPT ![b] = there],
               NEW v, seen' = seen \/ seen' = [seen EXCEPT ![b] = v]
        PROVE  Carries
    BY <1>0, <1>1
  <1>2. ASSUME NEW s \in Runs, TriggerOwn(s)
        PROVE  Carries
    <2>1. CASE s # a
      <3>1. \E there, v : /\ pc' = [pc EXCEPT ![s] = there]
                          /\ seen' = seen \/ seen' = [seen EXCEPT ![s] = v]
        BY <1>2
        DEF TriggerOwn, Trigger, CheckSuspension, SuspensionIsActive, ReadOrphan,
            FinalizeOrphan, CheckLive, CreateLog, Spawn, PrepareFails, GateRefuses,
            Goto, TryAcquireLease
      <3> QED
        BY <1>1, <2>1, <3>1
    <2>2. CASE s = a
      <3>1. Spawn(a) /\ pc[a] = "logged"
        BY <1>2, <2>2
        DEF TriggerOwn, Trigger, CheckSuspension, SuspensionIsActive, ReadOrphan,
            FinalizeOrphan, CheckLive, CreateLog, Spawn, PrepareFails, GateRefuses, Holds
      <3>2. /\ \/ pc' = [pc EXCEPT ![a] = "failing"]
               \/ proc' = [proc EXCEPT ![a] = "active"]
            /\ seen' = seen /\ seen[a] = a /\ a \in Runs
        BY <1>0, <2>2, <3>1 DEF Spawn, Goto
      <3> QED
        BY <1>0, <3>2 DEF Holds, Open, RunTypes
    <2> QED
      BY <2>1, <2>2
  <1>3. ASSUME NEW u \in Submits, SubmitOwn(u)
        PROVE  Carries
    <2>1. CASE u # a
      <3>1. \E there, v : /\ pc' = [pc EXCEPT ![u] = there]
                          /\ seen' = seen \/ seen' = [seen EXCEPT ![u] = v]
        BY <1>3
        DEF SubmitOwn, ResumeLease, ResumeRead, ResumeWrite, Respond, Submit, Goto,
            TryAcquireLease
      <3> QED
        BY <1>1, <2>1, <3>1
    <2>2. CASE u = a
      <3>1. Respond(a)
        BY <1>3, <2>2
        DEF SubmitOwn, ResumeLease, ResumeRead, ResumeWrite, Respond, Submit, Holds
      <3>2. /\ \/ pc' = [pc EXCEPT ![a] = "failing"]
               \/ proc' = [proc EXCEPT ![seen[a]] = "active"]
            /\ seen' = seen
        BY <3>1 DEF Respond, Goto
      <3> QED
        BY <1>0, <3>2 DEF Holds, Open, RunTypes
    <2> QED
      BY <2>1, <2>2
  <1>4. ASSUME SweepOwn
        PROVE  Carries
    <2>1. \E there, v : /\ pc' = [pc EXCEPT ![Sweep] = there]
                        /\ seen' = seen \/ seen' = [seen EXCEPT ![Sweep] = v]
      BY <1>4
      DEF SweepOwn, Scan, ExpireLease, Recheck, NextTick, ReadOrphan, FinalizeOrphan,
          Goto, TryAcquireLease
    <2> QED
      BY <1>0, <1>1, <2>1
  <1>5. ASSUME NEW b \in Actors, CommonStep(b)
        PROVE  Carries
    <2>1. \E there, v : /\ pc' = [pc EXCEPT ![b] = there]
                        /\ seen' = seen \/ seen' = [seen EXCEPT ![b] = v]
      BY <1>5
      DEF CommonStep, FinishFailed, RecordFailed, Leave, Forget, Crash, CallFails, Goto
    <2>2. CASE b # a
      BY <1>1, <2>1, <2>2
    <2>3. CASE b = a
      <3>1. FinishFailed(a) \/ Crash(a) \/ CallFails(a)
        BY <1>5, <2>3 DEF CommonStep, RecordFailed, Leave, Holds
      <3>2. CASE FinishFailed(a)
        BY <1>0, <3>2 DEF FinishFailed
      <3>3. CASE Crash(a)
        BY <1>0, <3>3 DEF Crash, Goto, Holds
      <3>4. CASE CallFails(a)
        <4>1. /\ pc[a] \in {"logged", "responding", "failing"}
              /\ pc' = [pc EXCEPT ![a] = OnError(a)] /\ seen' = seen
              /\ errors' = errors \cup {pc[a]}
          BY <3>4 DEF CallFails, Goto, Calls, Holds
        <4>2. CASE pc[a] = "failing"
          BY <4>1, <4>2
        <4>3. CASE pc[a] # "failing"
          <5>1. OnError(a) = "failing"
            BY <4>1, <4>3 DEF OnError
          <5> QED
            BY <1>0, <4>1, <5>1 DEF Holds
        <4> QED
          BY <4>2, <4>3
      <3> QED
        BY <3>1, <3>2, <3>3, <3>4
    <2> QED
      BY <2>2, <2>3
  <1>6. CASE UNCHANGED <<pc, seen, form>>
    BY <1>6
  <1>7. CASE TimeOwn \/ UNCHANGED vars
    BY <1>6, <1>7 DEF TimeOwn, Timeout, LeaseExpires, LeaseOverrun, vars, actors
  <1> QED
    BY <1>2, <1>3, <1>4, <1>5, <1>6, <1>7, StepCases, OthersLeaveActors

\* A handler that read a log it can close, closes it.
LEMMA ClosableCloses ==
  ASSUME TypeOK, NEW r \in Closable, FinishWrite(r)
  PROVE  log'[r].stage \in Closed
  <1> DEFINE copy   == copies[Closer(r)]
             closed == Finished(r, copy)
  <1>1. /\ copy \in Log /\ copy.stage # "awaiting" /\ r \in Runs
        /\ proc[r] = "succeeded" => ~copy.error
    BY ReadersApart DEF Closable, TypeOK
  <1>2. closed.stage \in Closed /\ (closed.stage = "success" => ~closed.error)
    BY <1>1 DEF Finished, Log, Closed
  <1>3. log' = [log EXCEPT ![r] = closed]
    BY <1>1, <1>2 DEF FinishWrite
  <1> QED
    BY <1>1, <1>2, <1>3 DEF TypeOK

\* A log in stage running passes from one owner to the next.
LEMMA OwnedKept ==
  ASSUME IInv, [Next]_vars
  PROVE  Owned'
  <1>1. /\ TypeOK /\ Stages /\ Started /\ ErrorsFail /\ Owned
        /\ LogsMove /\ ProcessesMove /\ errors \subseteq errors' /\ Lifecycle
    BY StepMoves DEF IInv, Started, Lifecycle
  <1> SUFFICES ASSUME errors' \cap {"failing", "finish"} = {},
                      NEW r \in Runs, log'[r].stage = "running"
               PROVE  \/ proc'[r] \in Open
                      \/ closing'[r] \in {"due", "lost"}
                      \/ r \in Closable'
                      \/ r \in Carried'
    BY DEF Owned
  <1>2. errors \cap {"failing", "finish"} = {}
    BY <1>1
  <1>3. CASE log'[r] # log[r]
    <2>1. \E a \in Runs \cup Submits : seen'[a] = r /\ pc'[a] \in {"logged", "responding"}
      BY <1>1, <1>3 DEF LogsMove, TypeOK
    <2> QED
      BY <2>1 DEF Carried
  <1>4. CASE log'[r] = log[r]
    <2>1. \/ proc[r] \in Open
          \/ closing[r] \in {"due", "lost"}
          \/ r \in Closable
          \/ r \in Carried
      BY <1>1, <1>2, <1>4 DEF Owned
    <2>2. CASE proc[r] \in Open \/ closing[r] = "lost"
      BY <1>1, <2>2, HandlersClose
    <2>3. CASE closing[r] = "due"
      <3>1. \/ closing'[r] \in {"due", "lost"}
            \/ closing'[r] = "read" /\ copies'[Closer(r)] = log[r]
        BY <1>1, <2>3, HandlersClose
      <3>2. log[r].stage = "running" /\ ~log[r].error
        BY <1>1, <1>4 DEF ErrorsFail
      <3> QED
        BY <3>1, <3>2 DEF Closable
    <2>4. CASE r \in Closable
      <3>1. /\ closing[r] = "read" /\ copies[Closer(r)].stage # "awaiting"
            /\ proc[r] = "succeeded" => ~copies[Closer(r)].error
        BY <2>4 DEF Closable
      <3>2. ~FinishWrite(r)
        BY <1>1, <2>4, ClosableCloses DEF Closed
      <3>3. \/ closing'[r] = "read" /\ copies'[Closer(r)] = copies[Closer(r)]
            \/ closing'[r] = "lost"
        BY <1>1, <3>1, <3>2, HandlersClose
      <3>4. proc'[r] = proc[r]
        BY <1>1, <3>1 DEF Started, ProcessesMove
      <3> QED
        BY <3>1, <3>3, <3>4 DEF Closable
    <2>5. CASE r \in Carried
      <3>1. PICK a \in Runs \cup Submits : seen[a] = r /\ pc[a] \in Holds
        BY <2>5 DEF Carried, Holds
      <3>2. \/ pc'[a] \in Holds /\ seen'[a] = r
            \/ proc'[r] \in Open
        BY <1>1, <3>1, CarriersCarryOn
      <3> QED
        BY <3>2 DEF Carried, Holds
    <2> QED
      BY <2>1, <2>2, <2>3, <2>4, <2>5
  <1> QED
    BY <1>3, <1>4

\* A question that was parked stays so: a run asks one at a time.
LEMMA ParkedOnce ==
  ASSUME TypeOK, Stages, [Next]_vars
  PROVE  WasParked \subseteq WasParked'
  <1>0. RunTypes
    BY DEF TypeOK, RunTypes
  <1>1. ASSUME NEW r \in Runs
        PROVE  \/ asked'[r] = asked[r] /\ (asking'[r] = "read" => asking[r] = "read")
               \/ asked'[r] = asked[r] + 1
    <2> DEFINE AsksOn == \/ asked'[r] = asked[r]
                            /\ (asking'[r] = "read" => asking[r] = "read")
                         \/ asked'[r] = asked[r] + 1
    <2>1. CASE UNCHANGED <<process, asking, closing>>
      BY <2>1 DEF process
    <2>2. ASSUME NEW s \in Runs, CloserOwn(s) \/ Spawn(s)
          PROVE  AsksOn
      BY <2>2
      DEF CloserOwn, FinishRead, FinishWrite, FinishRecord, FinishLost, FinishFails,
          Spawn, process
    <2>3. ASSUME NEW u \in Submits, Respond(u)
          PROVE  AsksOn
      BY <2>3 DEF Respond
    <2>4. ASSUME NEW s \in Runs, Ask(s)
          PROVE  AsksOn
      BY <1>0, <2>4 DEF Ask, RunTypes, Questions
    <2>5. ASSUME NEW s \in Runs, Park(s) \/ Mark(s) \/ Suspend(s) \/ Die(s)
          PROVE  AsksOn
      <3>1. asked' = asked /\ \E t \in {"no", "parked", "marked"} :
                                asking' = [asking EXCEPT ![s] = t]
        BY <2>5 DEF Park, Mark, Suspend, Die, process
      <3> QED
        BY <1>0, <3>1 DEF RunTypes
    <2>6. ASSUME NEW s \in Runs, End(s) \/ Reclaim(s) \/ Overrun(s)
          PROVE  AsksOn
      BY <2>6 DEF End, Reclaim, Overrun
    <2> QED
      BY <2>1, <2>2, <2>3, <2>4, <2>5, <2>6, StepCases, OthersLeaveRuns DEF ProcessOwn
  <1>2. \A r \in Runs : asked[r] \in Nat
    BY <1>0, JobRunAssumption DEF RunTypes, Questions
  <1> SUFFICES ASSUME NEW r \in Runs, NEW q \in 1..MaxQuestions, <<r, q>> \in WasParked
               PROVE  <<r, q>> \in WasParked'
    BY DEF WasParked
  <1>3. q <= asked[r] /\ (q = asked[r] => asking[r] # "read") /\ q \in Nat
    BY DEF WasParked
  <1>4. q <= asked'[r] /\ (q = asked'[r] => asking'[r] # "read")
    BY <1>1, <1>2, <1>3
  <1> QED
    BY <1>4 DEF WasParked

\* The answer that is delivered is that of a submission which is done with it.
LEMMA AnswersMove ==
  ASSUME TypeOK, [Next]_vars
  PROVE  \/ delivered' = delivered
         \/ \E u \in Submits :
              /\ pc[u] = "responding" /\ pc'[u] = "leaving" /\ log' = log
              /\ delivered' = [delivered EXCEPT ![seen[u]][copies[u].await] = form[u]]
  <1>1. CASE UNCHANGED <<process, asking, closing>>
    BY <1>1 DEF process
  <1>2. ASSUME NEW r \in Runs, Spawn(r) \/ ProcessOwn(r) \/ CloserOwn(r)
        PROVE  delivered' = delivered
    BY <1>2
    DEF Spawn, ProcessOwn, Ask, Park, Mark, Suspend, End, Reclaim, Die, Overrun,
        CloserOwn, FinishRead, FinishWrite, FinishRecord, FinishLost, FinishFails, process
  <1>3. ASSUME NEW u \in Submits, Respond(u), delivered' # delivered
        PROVE  /\ pc[u] = "responding" /\ pc'[u] = "leaving" /\ log' = log
               /\ delivered' = [delivered EXCEPT ![seen[u]][copies[u].await] = form[u]]
    BY <1>3 DEF Respond, Goto, TypeOK, Actors
  <1> QED
    BY <1>1, <1>2, <1>3, StepCases, OthersLeaveRuns

\* A submission answers the question it found under the lease, and knows it until it
\* is done with it.
LEMMA SubmitsAnswer ==
  ASSUME TypeOK, Stages, [Next]_vars, NEW u \in Submits, pc'[u] \in Answering
  PROVE  \/ /\ pc[u] = "resuming" /\ pc'[u] = "restoring"
            /\ log[seen[u]].stage = "awaiting"
            /\ copies'[u] = log[seen[u]] /\ seen'[u] = seen[u]
            /\ UNCHANGED delivered
         \/ /\ pc[u] \in Answering
            /\ copies'[u] = copies[u] /\ seen'[u] = seen[u]
            /\ pc'[u] = "restoring" => pc[u] = "restoring"
            /\ pc'[u] = "responding" => \/ pc[u] = "responding"
                                        \/ log'[seen[u]].stage = "running"
  <1> DEFINE Answers ==
         \/ /\ pc[u] = "resuming" /\ pc'[u] = "restoring"
            /\ log[seen[u]].stage = "awaiting"
            /\ copies'[u] = log[seen[u]] /\ seen'[u] = seen[u]
            /\ UNCHANGED delivered
         \/ /\ pc[u] \in Answering
            /\ copies'[u] = copies[u] /\ seen'[u] = seen[u]
            /\ pc'[u] = "restoring" => pc[u] = "restoring"
            /\ pc'[u] = "responding" => \/ pc[u] = "responding"
                                        \/ log'[seen[u]].stage = "running"
  <1>0. /\ pc \in [Actors -> TriggerAt \cup SubmitAt \cup SweepAt]
        /\ seen \in [Actors -> Runs \cup {None}]
        /\ copies \in [Readers -> Log] /\ log \in [Runs -> Log]
        /\ u \in Actors /\ u # Sweep /\ u \notin Runs /\ u \in Readers
        /\ pc[u] \in SubmitAt
        /\ \A s \in Runs : Asker(s) # u /\ Closer(s) # u
    BY JobRunAssumption, ReadersApart
    DEF TypeOK, Stages, TriggerAt, SubmitAt, SweepAt, Actors, Readers
  <1>1. ASSUME NEW b, b # u, NEW there, pc' = [pc EXCEPT ![b] = there] \/ pc' = pc,
               NEW v, seen' = seen \/ seen' = [seen EXCEPT ![b] = v],
               NEW l, copies' = copies \/ copies' = [copies EXCEPT ![b] = l]
        PROVE  Answers
    BY <1>0, <1>1
  <1>2. ASSUME NEW s \in Runs, TriggerOwn(s)
        PROVE  Answers
    <2>1. \E there, v, l : /\ pc' = [pc EXCEPT ![s] = there]
                           /\ seen' = seen \/ seen' = [seen EXCEPT ![s] = v]
                           /\ copies' = copies \/ copies' = [copies EXCEPT ![s] = l]
      BY <1>2
      DEF TriggerOwn, Trigger, CheckSuspension, SuspensionIsActive, ReadOrphan,
          FinalizeOrphan, CheckLive, CreateLog, Spawn, PrepareFails, GateRefuses,
          Goto, TryAcquireLease, Read
    <2> QED
      BY <1>0, <1>1, <2>1
  <1>3. ASSUME NEW w \in Submits, SubmitOwn(w)
        PROVE  Answers
    <2>1. CASE w # u
      <3>1. \E there, v, l : /\ pc' = [pc EXCEPT ![w] = there]
                             /\ seen' = seen \/ seen' = [seen EXCEPT ![w] = v]
                             /\ copies' = copies \/ copies' = [copies EXCEPT ![w] = l]
        BY <1>3
        DEF SubmitOwn, ResumeLease, ResumeRead, ResumeWrite, Respond, Submit, Goto,
            TryAcquireLease, Read
      <3> QED
        BY <1>1, <2>1, <3>1
    <2>2. CASE w = u
      <3>1. ~ResumeLease(u) /\ ~ \E r \in Runs : Submit(u, r)
        BY <1>0 DEF ResumeLease, Submit, TryAcquireLease, Goto, Answering
      <3>2. CASE ResumeRead(u)
        <4>1. /\ log[seen[u]].stage = "awaiting" /\ pc' = [pc EXCEPT ![u] = "restoring"]
              /\ copies' = [copies EXCEPT ![u] = log[seen[u]]] /\ seen' = seen
              /\ pc[u] = "resuming" /\ delivered' = delivered
          BY <1>0, <3>2 DEF ResumeRead, Goto, Read, Answering, process
        <4> QED
          BY <1>0, <4>1
      <3>3. CASE ResumeWrite(u)
        <4>1. /\ pc[u] = "restoring" /\ pc' = [pc EXCEPT ![u] = "responding"]
              /\ log' = [log EXCEPT ![seen[u]] =
                            [copies[u] EXCEPT !.stage = "running", !.await = 0]]
              /\ UNCHANGED <<seen, copies>> /\ seen[u] \in Runs
          BY <1>0, <3>3 DEF ResumeWrite, Goto, Stages
        <4>2. copies[u] \in Log
          BY <1>0
        <4>3. log'[seen[u]].stage = "running"
          BY <1>0, <4>1, <4>2 DEF Log
        <4> QED
          BY <1>0, <4>1, <4>3 DEF Answering
      <3>4. CASE Respond(u)
        <4>1. /\ pc[u] = "responding" /\ UNCHANGED <<seen, copies>>
              /\ \E there \in {"leaving", "failing"} : pc' = [pc EXCEPT ![u] = there]
          BY <3>4 DEF Respond, Goto
        <4> QED
          BY <1>0, <4>1 DEF Answering
      <3> QED
        BY <1>3, <2>2, <3>1, <3>2, <3>3, <3>4 DEF SubmitOwn
    <2> QED
      BY <2>1, <2>2
  <1>4. ASSUME SweepOwn
        PROVE  Answers
    <2>1. \E there, v, l : /\ pc' = [pc EXCEPT ![Sweep] = there]
                           /\ seen' = seen \/ seen' = [seen EXCEPT ![Sweep] = v]
                           /\ copies' = copies \/ copies' = [copies EXCEPT ![Sweep] = l]
      BY <1>4
      DEF SweepOwn, Scan, ExpireLease, Recheck, NextTick, ReadOrphan, FinalizeOrphan,
          Goto, TryAcquireLease, Read
    <2> QED
      BY <1>0, <1>1, <2>1
  <1>5. ASSUME NEW b \in Actors, CommonStep(b)
        PROVE  Answers
    <2>1. CASE b # u
      <3>1. \E there, v, l : /\ pc' = [pc EXCEPT ![b] = there]
                             /\ seen' = seen \/ seen' = [seen EXCEPT ![b] = v]
                             /\ copies' = copies \/ copies' = [copies EXCEPT ![b] = l]
        <4>1. /\ \/ UNCHANGED seen
                 \/ seen' = [seen EXCEPT ![b] = None]
              /\ \/ UNCHANGED copies
                 \/ copies' = [copies EXCEPT ![b] = NoLog]
          BY <1>5 DEF CommonStep, FinishFailed, RecordFailed, Leave, Forget, Crash, CallFails
        <4>2. \E there : pc' = [pc EXCEPT ![b] = there]
          BY <1>5
          DEF CommonStep, FinishFailed, RecordFailed, Leave, Crash, CallFails, Goto
        <4> QED
          BY <4>1, <4>2
      <3> QED
        BY <1>1, <2>1, <3>1
    <2>2. CASE b = u
      <3>1. CallFails(u)
        BY <1>0, <1>5, <2>2
        DEF CommonStep, FinishFailed, RecordFailed, Leave, Crash, Goto, Answering
      <3>2. /\ pc[u] \in Calls \cap SubmitAt /\ pc'[u] = OnError(u)
            /\ UNCHANGED <<seen, copies>>
        BY <1>0, <3>1 DEF CallFails, Goto
      <3>3. pc[u] = "responding" /\ pc'[u] = "failing"
        BY <3>2 DEF OnError, Calls, SubmitAt, Answering
      <3> QED
        BY <3>2, <3>3 DEF Answering
    <2> QED
      BY <2>1, <2>2
  <1>6. ASSUME NEW s \in Runs, ProcessOwn(s)
        PROVE  Answers
    <2>1. \E l : copies' = copies \/ copies' = [copies EXCEPT ![Asker(s)] = l]
      BY <1>6 DEF ProcessOwn, Ask, Park, Mark, Suspend, End, Reclaim, Die, Overrun, Read
    <2> QED
      BY <1>0, <1>1, <1>6, <2>1, OthersLeaveActors
  <1>7. ASSUME NEW s \in Runs, CloserOwn(s)
        PROVE  Answers
    <2>1. \E l : copies' = copies \/ copies' = [copies EXCEPT ![Closer(s)] = l]
      BY <1>7
      DEF CloserOwn, FinishRead, FinishWrite, FinishRecord, FinishLost, FinishFails, Read
    <2> QED
      BY <1>0, <1>1, <1>7, <2>1, OthersLeaveActors
  <1>8. CASE TimeOwn \/ UNCHANGED vars
    <2>1. UNCHANGED <<pc, seen, copies>>
      BY <1>8 DEF TimeOwn, Timeout, LeaseExpires, LeaseOverrun, vars, actors
    <2> QED
      BY <1>0, <1>1, <2>1
  <1> QED
    BY <1>2, <1>3, <1>4, <1>5, <1>6, <1>7, <1>8, StepCases

\* A question is parked once and answered once: the form on record is unanswered, and
\* nobody but the holder of the lease is about to answer it.
LEMMA AnswersOnceKept ==
  ASSUME IInv, [Next]_vars
  PROVE  AnswersOnce'
  <1>1. /\ TypeOK /\ Stages /\ Started /\ AnswersOnce /\ LeaseHeld /\ LogsMove
        /\ (stolen => stolen') /\ Started'
    BY StepMoves, LeaseKept, TypesKept DEF IInv
  <1>2. WasParked \subseteq WasParked'
    BY <1>1, ParkedOnce
  <1>3. /\ log \in [Runs -> Log] /\ delivered \in [Runs -> [1..MaxQuestions -> Questions]]
        /\ pc \in [Actors -> TriggerAt \cup SubmitAt \cup SweepAt]
        /\ asked \in [Runs -> Nat] /\ asking \in [Runs -> {"no", "read", "parked", "marked"}]
    BY <1>1, JobRunAssumption
    DEF TypeOK, TriggerAt, SubmitAt, SweepAt, Questions
  \* A log is parked on a question just asked.
  <1>4. ASSUME NEW r \in Runs, log'[r].stage = "awaiting", log'[r] # log[r]
        PROVE  /\ log'[r].await = asked[r] /\ asking[r] = "read"
               /\ <<r, asked[r]>> \in WasParked' /\ delivered'[r][asked[r]] = 0
    <2>1. /\ log'[r].await = asked[r] /\ asking[r] = "read"
          /\ asking' = [asking EXCEPT ![r] = "parked"]
          /\ UNCHANGED <<asked, delivered>>
      BY <1>1, <1>3, <1>4 DEF LogsMove
    <2>2. asked[r] \in 1..MaxQuestions
      BY <1>1, <2>1 DEF Started, TypeOK, Questions
    <2>3. <<r, asked[r]>> \in WasParked'
      BY <1>3, <2>1, <2>2 DEF WasParked
    <2>4. <<r, asked[r]>> \notin WasParked
      BY <2>1, <2>2 DEF WasParked
    <2>5. delivered[r][asked[r]] = 0
      BY <1>1, <2>2, <2>4 DEF AnswersOnce
    <2> QED
      BY <2>1, <2>3, <2>5
  \* The question that was just answered was parked, is no longer on record, and nobody
  \* else is about to answer it.
  <1>5. ASSUME NEW r \in Runs, NEW q \in 1..MaxQuestions, delivered'[r][q] # delivered[r][q]
        PROVE  /\ <<r, q>> \in WasParked
               /\ log' = log /\ (log[r].stage = "awaiting" => log[r].await # q)
               /\ ~stolen => \A u \in Submits : ~(pc[u] \in Answering /\ pc'[u] \in Answering)
    <2>1. PICK w \in Submits :
            /\ pc[w] = "responding" /\ pc'[w] = "leaving" /\ log' = log
            /\ delivered' = [delivered EXCEPT ![seen[w]][copies[w].await] = form[w]]
      BY <1>1, <1>5, AnswersMove
    <2>2. seen[w] = r /\ copies[w].await = q
      BY <1>3, <1>5, <2>1
    <2>3. /\ <<seen[w], copies[w].await>> \in WasParked
          /\ log[seen[w]].stage = "awaiting" => log[seen[w]].await # copies[w].await
      BY <1>1, <2>1 DEF AnswersOnce, Answering
    <2>4. ASSUME NEW u \in Submits, ~stolen, pc'[u] \in Answering, pc[u] \in Answering
          PROVE  FALSE
      <3>1. pc[u] \in Working /\ pc[w] \in Working /\ u \in Actors /\ w \in Actors
        BY <2>1, <2>4 DEF Working, Answering, Actors
      <3>2. u = w
        BY <1>1, <2>4, <3>1 DEF LeaseHeld
      <3> QED
        BY <2>1, <2>4, <3>2 DEF Answering
    <2> QED
      BY <2>1, <2>2, <2>3, <2>4
  <1>6. ASSUME NEW r \in Runs, log'[r].stage = "awaiting"
        PROVE  /\ <<r, log'[r].await>> \in WasParked'
               /\ delivered'[r][log'[r].await] = 0
    <2>1. CASE log'[r] # log[r]
      BY <1>4, <1>6, <2>1
    <2>2. CASE log'[r] = log[r]
      <3>1. <<r, log[r].await>> \in WasParked /\ delivered[r][log[r].await] = 0
        BY <1>1, <1>6, <2>2 DEF AnswersOnce
      <3>2. log[r].await \in 1..MaxQuestions
        BY <3>1 DEF WasParked
      <3> QED
        BY <1>2, <1>5, <1>6, <2>2, <3>1, <3>2
    <2> QED
      BY <2>1, <2>2
  <1>7. ASSUME NEW u \in Submits, pc'[u] \in Answering
        PROVE  /\ <<seen'[u], copies'[u].await>> \in WasParked'
               /\ pc'[u] = "restoring" => copies'[u].stage = "awaiting"
               /\ pc'[u] = "responding" /\ log'[seen'[u]].stage = "awaiting"
                    => log'[seen'[u]].await # copies'[u].await
               /\ ~stolen' => delivered'[seen'[u]][copies'[u].await] = 0
    <2>1. CASE /\ pc[u] = "resuming" /\ pc'[u] = "restoring"
               /\ log[seen[u]].stage = "awaiting"
               /\ copies'[u] = log[seen[u]] /\ seen'[u] = seen[u]
               /\ UNCHANGED delivered
      <3>1. seen[u] \in Runs
        BY <1>1, <2>1 DEF Stages, Actors
      <3>2. <<seen[u], log[seen[u]].await>> \in WasParked
            /\ delivered[seen[u]][log[seen[u]].await] = 0
        BY <1>1, <2>1, <3>1 DEF AnswersOnce
      <3> QED
        BY <1>2, <2>1, <3>2
    <2>2. CASE /\ pc[u] \in Answering
               /\ copies'[u] = copies[u] /\ seen'[u] = seen[u]
               /\ pc'[u] = "restoring" => pc[u] = "restoring"
               /\ pc'[u] = "responding" => \/ pc[u] = "responding"
                                           \/ log'[seen[u]].stage = "running"
      <3> DEFINE r == seen[u]
                 q == copies[u].await
      <3>1. /\ <<r, q>> \in WasParked
            /\ pc[u] = "restoring" => copies[u].stage = "awaiting"
            /\ pc[u] = "responding" /\ log[r].stage = "awaiting" => log[r].await # q
            /\ ~stolen => delivered[r][q] = 0
        BY <1>1, <2>2 DEF AnswersOnce
      <3>2. r \in Runs /\ q \in 1..MaxQuestions /\ (q = asked[r] => asking[r] # "read")
        BY <3>1 DEF WasParked
      <3> HIDE DEF r, q
      <3>3. ASSUME pc'[u] = "responding", log'[r].stage = "awaiting"
            PROVE  log'[r].await # q
        BY <1>4, <2>2, <3>1, <3>2, <3>3 DEF r
      <3>4. ASSUME ~stolen'
            PROVE  delivered'[r][q] = 0
        BY <1>1, <1>5, <1>7, <2>2, <3>1, <3>2, <3>4
      <3> QED
        BY <1>2, <2>2, <3>1, <3>3, <3>4 DEF r, q
    <2> QED
      BY <1>1, <1>7, <2>1, <2>2, SubmitsAnswer
  <1>8. ASSUME NEW r \in Runs, NEW q \in 1..MaxQuestions, delivered'[r][q] # 0
        PROVE  <<r, q>> \in WasParked'
    BY <1>1, <1>2, <1>5, <1>8 DEF AnswersOnce
  <1> QED
    BY <1>6, <1>7, <1>8 DEF AnswersOnce

-----------------------------------------------------------------------------
(* The theorems. *)

\* At first there is nothing to own, to answer or to close.
LEMMA InitHolds == Init => IInv
  <1> SUFFICES ASSUME Init
               PROVE  IInv
    OBVIOUS
  <1> USE JobRunAssumption, NoLogIs DEF Init
  <1>1. TypeOK
    <2>1. 0 \in Questions /\ "none" \in Open \cup {"none", "succeeded", "failed"}
      BY DEF Questions
    <2>2. /\ log \in [Runs -> Log] /\ copies \in [Readers -> Log]
          /\ delivered \in [Runs -> [1..MaxQuestions -> Questions]]
      BY <2>1
    <2>3. last \in [run : Runs \cup {None}, ok : BOOLEAN]
      OBVIOUS
    <2> QED
      BY <2>1, <2>2, <2>3 DEF TypeOK
  <1>2. Stages
    BY DEF Stages, TriggerAt, SubmitAt, SweepAt, Actors
  <1>3. Started
    BY DEF Started
  <1>4. ErrorsFail
    BY DEF ErrorsFail
  <1>5. SuccessHeld
    BY DEF SuccessHeld
  <1>6. Owned
    BY DEF Owned
  <1>7. LeaseHeld
    BY DEF LeaseHeld, Working
  <1>8. Judged
    BY DEF Judged, Actors
  <1>9. AnswersOnce
    BY DEF AnswersOnce, Answering, Actors
  <1> QED
    BY <1>1, <1>2, <1>3, <1>4, <1>5, <1>6, <1>7, <1>8, <1>9 DEF IInv

\* Every step keeps every part.
LEMMA StepKeeps == IInv /\ [Next]_vars => IInv'
  BY TypesKept, SuccessKept, OwnedKept, LeaseKept, JudgedKept, AnswersOnceKept DEF IInv

\* The invariant holds of every state the JobRun document, the logs, the Processes and
\* those that read and write them can be in.
THEOREM Invariance == Spec => []IInv
  BY InitHolds, StepKeeps, PTL DEF Spec

\* Every document stays well formed, and every actor on its path.
THEOREM TypeCorrect == Spec => []TypeOK
  <1>1. IInv => TypeOK
    BY DEF IInv
  <1> QED
    BY <1>1, Invariance, PTL

\* No run is shown as a success that was none, in its log or as the Job's last outcome.
THEOREM OutcomesTrue == Spec => []SuccessIsTrue
  <1>1. IInv => SuccessIsTrue
    BY DEF IInv, SuccessHeld, SuccessIsTrue
  <1> QED
    BY <1>1, Invariance, PTL

\* A log in stage running has somebody who will close it, or an instance died or a
\* write failed on the way to closing it.
THEOREM RunningLogsOwned == Spec => []RunningLogHasOwner
  <1>1. IInv => RunningLogHasOwner
    BY DEF IInv, Owned, Closable, Carried, RunningLogHasOwner
  <1> QED
    BY <1>1, Invariance, PTL

\* While a run waits for an answer that has not timed out, no trigger opens a second
\* run of the Job, unless a lease was lost or the log could not be read.
THEOREM QuestionsKeepSlot == Spec => []OpenQuestionKeepsItsSlot
  <1>1. IInv => OpenQuestionKeepsItsSlot
    BY DEF IInv, Judged, OpenQuestions, OpenQuestionKeepsItsSlot
  <1> QED
    BY <1>1, Invariance, PTL

\* A submission that comes too late fails no run another one has answered, as long as
\* no lease was lost.
THEOREM LateSubmits == Spec => []LateSubmitIsHarmless
  <1>1. IInv => LateSubmitIsHarmless
    BY DEF IInv, AnswersOnce, Answering, LateSubmitIsHarmless
  <1> QED
    BY <1>1, Invariance, PTL

\* What a step may never do to a Process: one that ended stays as it ended, so no
\* resume, retry or late handler changes the outcome of a run.
EndsStay ==
  [][\A r \in Runs : proc[r] \in {"succeeded", "failed"} => proc'[r] = proc[r]]_vars

\* An outcome is final.
THEOREM OutcomesStay == Spec => EndsStay
  <1>1. IInv /\ [Next]_vars
          => [\A r \in Runs : proc[r] \in {"succeeded", "failed"} => proc'[r] = proc[r]]_vars
    BY StepMoves DEF ProcessesMove
  <1> QED
    BY <1>1, Invariance, PTL DEF Spec, EndsStay
=============================================================================

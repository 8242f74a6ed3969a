------------------------------- MODULE JobRun -------------------------------
(***************************************************************************)
(* The runs of one Job on one Case: the JobRun document (lease, suspension *)
(* marker, last outcome), the run logs, and who reads and writes them.     *)
(*                                                                         *)
(*   - a trigger (JobRunner.Run) checks that nothing is in its way and     *)
(*     spawns a durable Process, one per trigger: a run;                   *)
(*   - the run's Process works on the agent worker, may ask the user and   *)
(*     wait (jobAsker.Ask, JobInteractor.Solicit), and ends;               *)
(*   - its completion handler closes the log and records the outcome       *)
(*     (runtrace.FinishRun), after the Process ended;                      *)
(*   - a submitted form resumes the run (HandleQuestionSubmit, Resume);    *)
(*   - the scheduled sweep fails a run nobody answers (expireSuspendedRun).*)
(*                                                                         *)
(* Each read and each write of a document is one step, and any other       *)
(* actor may come in between.  The Process itself is an open or ended one  *)
(* of AgentProc, whose guard keeps the open ones of this Job and Case to   *)
(* one.  Runs on the in-process executor are not modelled.                 *)
(***************************************************************************)
EXTENDS Naturals

CONSTANTS Runs,          \* triggers, each with the run id it generates
          Submits,       \* submissions of question forms
          Sweep,         \* the scheduled scan
          MaxQuestions,  \* bound: questions a run may ask
          MaxFaults,     \* bound: crashes, lost leases, failed calls
          None

ASSUME JobRunAssumption ==
  /\ MaxQuestions \in Nat /\ MaxFaults \in Nat
  /\ None \notin Runs \cup Submits \cup {Sweep}
  /\ Sweep \notin Runs \cup Submits /\ Runs \cap Submits = {}

VARIABLES
  holder,        \* who took the lease now in force, or None.  The document
                 \* has only LeaseUntil: nothing in the code reads the name
  suspendedRun,  \* SuspendedRunID
  stale,         \* has the question timeout passed since SuspendedAt?
  last,          \* LastRunID and LastStatus
  log,           \* run -> its JobRunLog
  proc,          \* run -> status of its Process
  waitsFor,      \* run -> the question its Process waits for, 0 if none
  asked,         \* run -> questions it asked so far
  asking,        \* run -> how far the question now being asked has come
  closing,       \* run -> how far its completion handler has come
  pc,            \* trigger, submission or sweep -> where it is
  seen,          \* the same -> the run id it read
  form,          \* submission -> the question its form was posted for
  copies,        \* actor -> the log it read and will write back
  delivered,     \* history: run -> question -> form it was answered by
  stolen,        \* history: was a lease lost by an actor that relied on it?
  errors,        \* history: the places where a call returned an error
  faults         \* faults so far

jobRun == <<holder, suspendedRun, stale, last, stolen>>
process == <<proc, waitsFor, asked, delivered>>
actors == <<pc, seen, form>>
failures == <<faults, errors>>
vars == <<jobRun, log, process, asking, closing, actors, copies, failures>>
-----------------------------------------------------------------------------
Actors == Runs \cup Submits \cup {Sweep}
Asker(r) == <<"ask", r>>
Closer(r) == <<"close", r>>
Readers == Actors \cup {Asker(r) : r \in Runs} \cup {Closer(r) : r \in Runs}

ASSUME ReaderAssumption == Actors \cap {Asker(r) : r \in Runs} = {}
                           /\ Actors \cap {Closer(r) : r \in Runs} = {}

Closed == {"success", "failed"}
Questions == 0..MaxQuestions

\* A run log: its stage, whether Error is set, and the await the answer must
\* reach.  EndedAt is set exactly in the closed stages and PendingInteraction
\* exactly in stage awaiting, which Validate checks at every write.
Log == [stage : {"none", "running", "awaiting"} \cup Closed,
        error : BOOLEAN, await : Questions]

NoLog == [stage |-> "none", error |-> FALSE, await |-> 0]

\* Where a call may fail and the code that made it goes on.
Calls == {"leased", "judging", "orphan", "finalizing", "cleared", "logged",
          "resuming", "restoring", "responding", "failing", "recording"}

Open == {"active", "waiting", "lost"}
Busy == \E r \in Runs : proc[r] \in Open

TypeOK ==
  /\ holder \in Actors \cup {None}
  /\ suspendedRun \in Runs \cup {None}
  /\ stale \in BOOLEAN
  /\ last \in [run : Runs \cup {None}, ok : BOOLEAN]
  /\ log \in [Runs -> Log]
  /\ proc \in [Runs -> Open \cup {"none", "succeeded", "failed"}]
  /\ waitsFor \in [Runs -> Questions]
  /\ asked \in [Runs -> Questions]
  /\ asking \in [Runs -> {"no", "read", "parked", "marked"}]
  /\ closing \in [Runs -> {"no", "due", "read", "wrote", "done", "lost"}]
  /\ pc \in [Actors -> {"new", "seen", "leased", "judging", "orphan",
                        "finalizing", "cleared", "preparing", "logged",
                        "resuming", "restoring", "responding", "failing",
                        "recording", "leaving", "done", "dead"}]
  /\ seen \in [Actors -> Runs \cup {None}]
  /\ form \in [Submits -> Questions]
  /\ copies \in [Readers -> Log]
  /\ delivered \in [Runs -> [1..MaxQuestions -> Questions]]
  /\ stolen \in BOOLEAN
  /\ errors \subseteq Calls \cup {"finish"}
  /\ faults \in Nat

Init ==
  /\ holder = None /\ suspendedRun = None /\ stale = FALSE
  /\ last = [run |-> None, ok |-> FALSE]
  /\ log = [r \in Runs |-> NoLog]
  /\ proc = [r \in Runs |-> "none"]
  /\ waitsFor = [r \in Runs |-> 0]
  /\ asked = [r \in Runs |-> 0]
  /\ asking = [r \in Runs |-> "no"]
  /\ closing = [r \in Runs |-> "no"]
  /\ pc = [a \in Actors |-> "new"]
  /\ seen = [a \in Actors |-> None]
  /\ form = [u \in Submits |-> 0]
  /\ copies = [x \in Readers |-> NoLog]
  /\ delivered = [r \in Runs |-> [q \in 1..MaxQuestions |-> 0]]
  /\ stolen = FALSE
  /\ errors = {}
  /\ faults = 0
-----------------------------------------------------------------------------
(***************************************************************************)
(* The JobRun document.                                                    *)
(***************************************************************************)
Goto(a, there) == pc' = [pc EXCEPT ![a] = there]

\* Does the holder of the lease still rely on it?
InUse == holder # None /\ pc[holder] \notin {"leaving", "dead"}

\* LeaseUntil := zero, by a: no write that does this looks at who holds it.
ClearLease(a) ==
  /\ stolen' = (stolen \/ (InUse /\ holder # a))
  /\ holder' = None

\* TryAcquireLease: taken and on to `there`, or somebody has it.
TryAcquireLease(a, there, otherwise) ==
  IF holder = None
  THEN holder' = a /\ Goto(a, there)
  ELSE UNCHANGED holder /\ Goto(a, otherwise)

\* RecordRun: the outcome is stamped, the lease and the marker are cleared.
RecordRun(a, run, ok) ==
  /\ last' = [run |-> run, ok |-> ok]
  /\ suspendedRun' = None /\ stale' = FALSE
  /\ ClearLease(a)

Read(x, run) == copies' = [copies EXCEPT ![x] = log[run]]

\* What an actor holds in memory is gone when it returns.
Forget(a) ==
  /\ copies' = [copies EXCEPT ![a] = NoLog]
  /\ seen' = [seen EXCEPT ![a] = None]

\* Faulty: a skipped trigger returns without giving the lease back.
LeaveWithLease(a) ==
  /\ pc[a] = "leaving" /\ Goto(a, IF a = Sweep THEN "new" ELSE "done")
  /\ Forget(a)
  /\ UNCHANGED <<jobRun, log, process, asking, closing, form, failures>>

\* The deferred ReleaseLease.
Leave(a) ==
  /\ pc[a] = "leaving" /\ Goto(a, IF a = Sweep THEN "new" ELSE "done")
  /\ ClearLease(a)
  /\ Forget(a)
  /\ UNCHANGED <<suspendedRun, stale, last, log, process, asking, closing,
                 form, failures>>
-----------------------------------------------------------------------------
(***************************************************************************)
(* A trigger: JobRunner.Run.                                               *)
(***************************************************************************)
Trigger(r) ==
  /\ pc[r] = "new"
  /\ TryAcquireLease(r, "leased", "done")
  /\ UNCHANGED <<suspendedRun, stale, last, stolen, log, process, asking,
                 closing, seen, form, copies, failures>>

\* Get the JobRun: a marker past its timeout is not asked about any further.
CheckSuspension(r) ==
  /\ pc[r] = "leased"
  /\ seen' = [seen EXCEPT ![r] = suspendedRun]
  /\ Goto(r, CASE suspendedRun = None -> "cleared"
               [] suspendedRun # None /\ stale -> "orphan"
               [] OTHER -> "judging")
  /\ UNCHANGED <<jobRun, log, process, asking, closing, form, copies, failures>>

\* Faulty: a marker blocks nothing.
JudgedLoosely(r) ==
  /\ pc[r] = "judging" /\ Goto(r, "orphan")
  /\ UNCHANGED <<jobRun, log, process, asking, closing, seen, form, copies,
                 failures>>

\* suspensionIsActive: step aside for an open question, and only for one.
SuspensionIsActive(r) ==
  /\ pc[r] = "judging"
  /\ Goto(r, IF log[seen[r]].stage = "awaiting" THEN "leaving" ELSE "orphan")
  /\ UNCHANGED <<jobRun, log, process, asking, closing, seen, form, copies,
                 failures>>

\* The log behind a suspension that is over is read ...
ReadOrphan(a, closedAlready) ==
  /\ pc[a] = "orphan"
  /\ IF log[seen[a]].stage \in Closed
     THEN Goto(a, closedAlready) /\ UNCHANGED copies
     ELSE Goto(a, "finalizing") /\ Read(a, seen[a])
  /\ UNCHANGED <<jobRun, log, process, asking, closing, seen, form, failures>>

\* ... and failed.
FinalizeOrphan(a, there) ==
  /\ pc[a] = "finalizing" /\ Goto(a, there)
  /\ log' = [log EXCEPT ![seen[a]] =
               [copies[a] EXCEPT !.stage = "failed", !.error = TRUE]]
  /\ UNCHANGED <<jobRun, process, asking, closing, seen, form, copies, failures>>

\* alreadyLive: no trace of a run while another one's Process is open.
CheckLive(r) ==
  /\ pc[r] = "cleared"
  /\ Goto(r, IF Busy THEN "leaving" ELSE "preparing")
  /\ UNCHANGED <<jobRun, log, process, asking, closing, seen, form, copies,
                 failures>>

PrepareFails(r) ==
  /\ pc[r] = "preparing" /\ faults < MaxFaults /\ faults' = faults + 1
  /\ RecordRun(r, None, FALSE)
  /\ Goto(r, "leaving")
  /\ UNCHANGED <<log, process, asking, closing, seen, form, copies, errors>>

\* The concurrency gate is full or cannot be asked: nothing is recorded, the
\* next tick finds the run due again.
GateRefuses(r) ==
  /\ pc[r] = "preparing" /\ Goto(r, "leaving")
  /\ UNCHANGED <<jobRun, log, process, asking, closing, seen, form, copies,
                 failures>>

CreateLog(r) ==
  /\ pc[r] = "preparing" /\ Goto(r, "logged")
  /\ log' = [log EXCEPT ![r] = [NoLog EXCEPT !.stage = "running"]]
  /\ seen' = [seen EXCEPT ![r] = r]
  /\ UNCHANGED <<jobRun, process, asking, closing, form, copies, failures>>

\* The Process is started, unless the subject is held.
Spawn(r) ==
  /\ pc[r] = "logged"
  /\ IF Busy
     THEN Goto(r, "failing") /\ UNCHANGED proc
     ELSE Goto(r, "leaving") /\ proc' = [proc EXCEPT ![r] = "active"]
  /\ UNCHANGED <<jobRun, log, waitsFor, asked, delivered, asking, closing,
                 seen, form, copies, failures>>

\* Faulty: a run that failed to start or to resume keeps its log.
FailsSilently(a) ==
  /\ pc[a] = "failing" /\ Goto(a, "recording")
  /\ UNCHANGED <<jobRun, log, process, asking, closing, seen, form, copies,
                 failures>>

\* finishRun with an error: the log first, then the outcome.
FinishFailed(a) ==
  /\ pc[a] = "failing" /\ Goto(a, "recording")
  /\ log' = [log EXCEPT ![seen[a]] =
               [NoLog EXCEPT !.stage = "failed", !.error = TRUE]]
  /\ UNCHANGED <<jobRun, process, asking, closing, seen, form, copies, failures>>

RecordFailed(a) ==
  /\ pc[a] = "recording" /\ Goto(a, "leaving")
  /\ RecordRun(a, seen[a], FALSE)
  /\ UNCHANGED <<log, process, asking, closing, seen, form, copies, failures>>
-----------------------------------------------------------------------------
(***************************************************************************)
(* The Process and the question it asks.                                   *)
(***************************************************************************)

\* A transition that asks reads the log ...
Ask(r) ==
  /\ proc[r] = "active" /\ asking[r] = "no" /\ asked[r] < MaxQuestions
  /\ asked' = [asked EXCEPT ![r] = @ + 1]
  /\ asking' = [asking EXCEPT ![r] = "read"]
  /\ Read(Asker(r), r)
  /\ UNCHANGED <<jobRun, log, proc, waitsFor, delivered, closing, actors,
                 failures>>

Ends(r, status) ==
  /\ proc' = [proc EXCEPT ![r] = status]
  /\ closing' = [closing EXCEPT ![r] = "due"]

\* Faulty: the log names the await of the next round.
ParkedAhead(r, copy) ==
  [copy EXCEPT !.stage = "awaiting", !.await = asked[r] + 1]

\* The log as it is parked: it names the await the answer must reach.
Parked(r, copy) == [copy EXCEPT !.stage = "awaiting", !.await = asked[r]]

\* ... posts the form and parks the log on it.  A log closed in the meantime
\* has its EndedAt set, is not valid as a parked one, and fails the Process.
Park(r) ==
  LET copy == copies[Asker(r)] IN
  /\ asking[r] = "read"
  /\ IF copy.stage \in Closed
     THEN /\ asking' = [asking EXCEPT ![r] = "no"]
          /\ IF proc[r] = "active" THEN Ends(r, "failed")
             ELSE UNCHANGED <<proc, closing>>
          /\ UNCHANGED log
     ELSE /\ asking' = [asking EXCEPT ![r] = "parked"]
          /\ log' = [log EXCEPT ![r] = Parked(r, copy)]
          /\ UNCHANGED <<proc, closing>>
  /\ UNCHANGED <<jobRun, waitsFor, asked, delivered, actors, copies, failures>>

\* Only then is the JobRun marked and its lease cleared ...
Mark(r) ==
  /\ asking[r] = "parked"
  /\ asking' = [asking EXCEPT ![r] = "marked"]
  /\ suspendedRun' = r /\ stale' = FALSE
  /\ ClearLease(r)
  /\ UNCHANGED <<last, log, process, closing, actors, copies, failures>>

\* ... and last the Process is committed as waiting.
Suspend(r) ==
  /\ asking[r] = "marked"
  /\ asking' = [asking EXCEPT ![r] = "no"]
  /\ copies' = [copies EXCEPT ![Asker(r)] = NoLog]
  /\ IF proc[r] = "active"
     THEN /\ proc' = [proc EXCEPT ![r] = "waiting"]
          /\ waitsFor' = [waitsFor EXCEPT ![r] = asked[r]]
     ELSE UNCHANGED <<proc, waitsFor>>
  /\ UNCHANGED <<jobRun, log, asked, delivered, closing, actors, failures>>

End(r) ==
  /\ proc[r] = "active" /\ asking[r] = "no"
  /\ \E status \in {"succeeded", "failed"} : Ends(r, status)
  /\ UNCHANGED <<jobRun, log, waitsFor, asked, delivered, asking, actors,
                 copies, failures>>

\* The instance dies in the middle of a transition, ...
Die(r) ==
  /\ proc[r] = "active" /\ faults < MaxFaults /\ faults' = faults + 1
  /\ proc' = [proc EXCEPT ![r] = "lost"]
  /\ asking' = [asking EXCEPT ![r] = "no"]
  /\ copies' = [copies EXCEPT ![Asker(r)] = NoLog]
  /\ UNCHANGED <<jobRun, log, waitsFor, asked, delivered, closing, actors,
                 errors>>

\* ... or overruns its claim and goes on.
Overrun(r) ==
  /\ proc[r] = "active" /\ faults < MaxFaults /\ faults' = faults + 1
  /\ Ends(r, "failed")
  /\ UNCHANGED <<jobRun, log, waitsFor, asked, delivered, asking, actors,
                 copies, errors>>

\* No unclean reclaim is tolerated, so whoever takes the Process over fails it.
Reclaim(r) ==
  /\ proc[r] = "lost"
  /\ Ends(r, "failed")
  /\ UNCHANGED <<jobRun, log, waitsFor, asked, delivered, asking, actors,
                 copies, failures>>
-----------------------------------------------------------------------------
(***************************************************************************)
(* The completion handler: runtrace.FinishRun.                             *)
(***************************************************************************)
FinishRead(r) ==
  /\ closing[r] = "due"
  /\ closing' = [closing EXCEPT ![r] = "read"]
  /\ Read(Closer(r), r)
  /\ UNCHANGED <<jobRun, log, process, asking, actors, failures>>

\* Faulty: every run that ended is a success.
FinishedOk(r, copy) == [copy EXCEPT !.stage = "success"]

\* The closed log.  Error is set on failure and never taken back.
Finished(r, copy) ==
  IF proc[r] = "succeeded" THEN [copy EXCEPT !.stage = "success"]
  ELSE [copy EXCEPT !.stage = "failed", !.error = TRUE]

\* Validate refuses a log that still carries a question, and a success that
\* carries an error; the refusal is reported and the handler goes on.
FinishWrite(r) ==
  LET copy == copies[Closer(r)]
      closed == Finished(r, copy)
      valid == /\ copy.stage # "awaiting"
               /\ closed.stage = "success" => ~closed.error IN
  /\ closing[r] = "read"
  /\ closing' = [closing EXCEPT ![r] = "wrote"]
  /\ log' = IF valid THEN [log EXCEPT ![r] = closed] ELSE log
  /\ copies' = [copies EXCEPT ![Closer(r)] = NoLog]
  /\ UNCHANGED <<jobRun, process, asking, actors, failures>>

FinishRecord(r) ==
  /\ closing[r] = "wrote"
  /\ closing' = [closing EXCEPT ![r] = "done"]
  /\ RecordRun(None, r, proc[r] = "succeeded")
  /\ UNCHANGED <<log, process, asking, actors, copies, failures>>

\* The handler is best-effort: its instance dies, or it cannot read the log,
\* and nobody calls it again.
FinishLost(r) ==
  /\ closing[r] \in {"due", "read", "wrote"}
  /\ faults < MaxFaults /\ faults' = faults + 1
  /\ closing' = [closing EXCEPT ![r] = "lost"]
  /\ copies' = [copies EXCEPT ![Closer(r)] = NoLog]
  /\ UNCHANGED <<jobRun, log, process, asking, actors, errors>>

\* A write of the handler fails: it is reported and the handler goes on.
FinishFails(r) ==
  /\ closing[r] \in {"read", "wrote"}
  /\ faults < MaxFaults /\ faults' = faults + 1
  /\ closing' = [closing EXCEPT ![r] = IF @ = "read" THEN "wrote" ELSE "done"]
  /\ errors' = errors \cup {"finish"}
  /\ UNCHANGED <<jobRun, log, process, asking, actors, copies>>
-----------------------------------------------------------------------------
(***************************************************************************)
(* A submitted form: HandleQuestionSubmit and Resume.                      *)
(***************************************************************************)

\* The answers are parsed against the question the log is parked on; a form
\* that does not match it, or finds no question, is turned away.
Submit(u, r) ==
  /\ pc[u] = "new" /\ log[r].stage = "awaiting"
  /\ Goto(u, "seen")
  /\ seen' = [seen EXCEPT ![u] = r]
  /\ form' = [form EXCEPT ![u] = log[r].await]
  /\ UNCHANGED <<jobRun, log, process, asking, closing, copies, failures>>

ResumeLease(u) ==
  /\ pc[u] = "seen"
  /\ TryAcquireLease(u, "resuming", "done")
  /\ UNCHANGED <<suspendedRun, stale, last, stolen, log, process, asking,
                 closing, seen, form, copies, failures>>

\* Faulty: the question read before the lease is taken for granted.
ResumesBlindly(u) ==
  /\ pc[u] = "resuming" /\ Goto(u, "restoring")
  /\ copies' = [copies EXCEPT ![u] =
       [stage |-> "awaiting", error |-> FALSE, await |-> form[u]]]
  /\ UNCHANGED <<jobRun, log, process, asking, closing, seen, form, failures>>

\* Read again under the lease: somebody else may have answered.
ResumeRead(u) ==
  /\ pc[u] = "resuming"
  /\ IF log[seen[u]].stage = "awaiting"
     THEN Goto(u, "restoring") /\ Read(u, seen[u])
     ELSE Goto(u, "leaving") /\ UNCHANGED copies
  /\ UNCHANGED <<jobRun, log, process, asking, closing, seen, form, failures>>

\* Back to running, before the answer is delivered.
ResumeWrite(u) ==
  /\ pc[u] = "restoring" /\ Goto(u, "responding")
  /\ log' = [log EXCEPT ![seen[u]] =
               [copies[u] EXCEPT !.stage = "running", !.await = 0]]
  /\ UNCHANGED <<jobRun, process, asking, closing, seen, form, copies, failures>>

\* Kernel.Respond: accepted only by a Process waiting for just this question.
Respond(u) ==
  LET r == seen[u]
      q == copies[u].await IN
  /\ pc[u] = "responding"
  /\ IF proc[r] = "waiting" /\ waitsFor[r] = q
     THEN /\ proc' = [proc EXCEPT ![r] = "active"]
          /\ waitsFor' = [waitsFor EXCEPT ![r] = 0]
          /\ delivered' = [delivered EXCEPT ![r][q] = form[u]]
          /\ Goto(u, "leaving")
     ELSE /\ Goto(u, "failing")
          /\ UNCHANGED <<proc, waitsFor, delivered>>
  /\ UNCHANGED <<jobRun, log, asked, asking, closing, seen, form, copies,
                 failures>>
-----------------------------------------------------------------------------
(***************************************************************************)
(* The sweep: expireSuspendedRun.                                          *)
(***************************************************************************)

\* The list shows a suspension past its timeout.
Scan ==
  /\ pc[Sweep] = "new" /\ suspendedRun # None /\ stale
  /\ Goto(Sweep, "seen")
  /\ UNCHANGED <<jobRun, log, process, asking, closing, seen, form, copies,
                 failures>>

ExpireLease ==
  /\ pc[Sweep] = "seen"
  /\ TryAcquireLease(Sweep, "leased", "new")
  /\ UNCHANGED <<suspendedRun, stale, last, stolen, log, process, asking,
                 closing, seen, form, copies, failures>>

\* Read again under the lease, and on to ReadOrphan.
Recheck ==
  /\ pc[Sweep] = "leased"
  /\ seen' = [seen EXCEPT ![Sweep] = suspendedRun]
  /\ Goto(Sweep, IF suspendedRun # None /\ stale THEN "orphan" ELSE "leaving")
  /\ UNCHANGED <<jobRun, log, process, asking, closing, form, copies, failures>>
-----------------------------------------------------------------------------
(***************************************************************************)
(* Time and failure.                                                       *)
(***************************************************************************)
Timeout ==
  /\ suspendedRun # None /\ ~stale
  /\ stale' = TRUE
  /\ UNCHANGED <<holder, suspendedRun, last, stolen, log, process, asking,
                 closing, actors, copies, failures>>

\* The lease of a dead actor expires, ...
LeaseExpires ==
  /\ holder # None /\ pc[holder] = "dead"
  /\ holder' = None
  /\ UNCHANGED <<suspendedRun, stale, last, stolen, log, process, asking,
                 closing, actors, copies, failures>>

\* ... or that of one which is only slow.
LeaseOverrun ==
  /\ InUse /\ faults < MaxFaults /\ faults' = faults + 1
  /\ ClearLease(None)
  /\ UNCHANGED <<suspendedRun, stale, last, log, process, asking, closing,
                 actors, copies, errors>>

\* Where an actor goes on after a call that returned an error.
OnError(a) ==
  CASE pc[a] \in {"leased", "resuming", "restoring", "recording"} -> "leaving"
    [] pc[a] = "judging" -> "orphan"
    [] pc[a] \in {"orphan", "finalizing"} ->
         IF a = Sweep THEN "recording" ELSE "cleared"
    [] pc[a] = "cleared" -> "preparing"
    [] pc[a] \in {"logged", "responding"} -> "failing"
    [] pc[a] = "failing" -> "recording"

\* A read or a write fails and has no effect.
CallFails(a) ==
  /\ pc[a] \in Calls
  /\ faults < MaxFaults /\ faults' = faults + 1
  /\ errors' = errors \cup {pc[a]}
  /\ Goto(a, OnError(a))
  /\ UNCHANGED <<jobRun, log, process, asking, closing, seen, form, copies>>

Crash(a) ==
  /\ pc[a] \notin {"new", "done", "dead"}
  /\ faults < MaxFaults /\ faults' = faults + 1
  /\ Goto(a, "dead")
  /\ copies' = [copies EXCEPT ![a] = NoLog]
  /\ UNCHANGED <<jobRun, log, process, asking, closing, seen, form, errors>>

\* The next tick scans again, its predecessor dead or not.
NextTick ==
  /\ pc[Sweep] = "dead" /\ holder # Sweep
  /\ Goto(Sweep, "new")
  /\ UNCHANGED <<jobRun, log, process, asking, closing, seen, form, copies,
                 failures>>
-----------------------------------------------------------------------------
\* What an actor does once it is under way.
TriggerStep(r) ==
  \/ CheckSuspension(r) \/ SuspensionIsActive(r)
  \/ ReadOrphan(r, "cleared") \/ FinalizeOrphan(r, "cleared")
  \/ CheckLive(r) \/ CreateLog(r) \/ Spawn(r)
  \/ FinishFailed(r) \/ RecordFailed(r) \/ Leave(r)

ProcessStep(r) == Park(r) \/ Mark(r) \/ Suspend(r) \/ End(r) \/ Reclaim(r)

CloseStep(r) == FinishRead(r) \/ FinishWrite(r) \/ FinishRecord(r)

SubmitStep(u) ==
  \/ ResumeLease(u) \/ ResumeRead(u) \/ ResumeWrite(u) \/ Respond(u)
  \/ FinishFailed(u) \/ RecordFailed(u) \/ Leave(u)

SweepStep ==
  \/ Scan \/ ExpireLease \/ Recheck
  \/ ReadOrphan(Sweep, "recording") \/ FinalizeOrphan(Sweep, "recording")
  \/ RecordFailed(Sweep) \/ Leave(Sweep) \/ NextTick

Next ==
  \/ \E r \in Runs :
       \/ Trigger(r) \/ TriggerStep(r) \/ PrepareFails(r) \/ GateRefuses(r)
       \/ Ask(r) \/ ProcessStep(r) \/ Die(r) \/ Overrun(r)
       \/ CloseStep(r) \/ FinishLost(r) \/ FinishFails(r)
  \/ \E u \in Submits : SubmitStep(u) \/ \E r \in Runs : Submit(u, r)
  \/ SweepStep
  \/ Timeout \/ LeaseExpires \/ LeaseOverrun
  \/ \E a \in Actors : Crash(a) \/ CallFails(a)

Spec == Init /\ [][Next]_vars

\* What is under way is carried on, a Process ends, the sweep ticks and time
\* passes.  Nothing makes a trigger fire, a run ask or a user answer.
Fairness ==
  /\ \A r \in Runs : /\ WF_vars(TriggerStep(r))
                     /\ WF_vars(ProcessStep(r))
                     /\ WF_vars(CloseStep(r))
  /\ \A u \in Submits : WF_vars(SubmitStep(u))
  /\ WF_vars(SweepStep)
  /\ WF_vars(Timeout)
  /\ WF_vars(LeaseExpires)

FairSpec == Spec /\ Fairness
-----------------------------------------------------------------------------
(***************************************************************************)
(* Properties.  Two of them assume that no actor lost its lease to another *)
(* one while it relied on it; the code lets that happen, and what follows  *)
(* from it is BusyNeverReachesSpawn, below.                                *)
(***************************************************************************)

\* A log in stage running belongs to somebody who will close it: a trigger
\* about to spawn, an open Process, a completion handler, or a submission that
\* is delivering an answer.  Only an instance that died, or a write that
\* failed on the way to closing it, leaves such a log behind.
RunningLogHasOwner ==
  errors \cap {"failing", "finish"} = {} =>
    \A r \in Runs : log[r].stage = "running" =>
      \/ proc[r] \in Open
      \/ closing[r] \in {"due", "read", "lost"}
      \/ \E a \in Runs \cup Submits :
           seen[a] = r /\ pc[a] \in {"logged", "responding", "failing", "dead"}

\* No run is shown as a success that was none: neither its log nor the Job's
\* last outcome says so unless its Process succeeded, whatever the trigger, the
\* handler, the sweep and a submission write over each other.
SuccessIsTrue ==
  /\ \A r \in Runs : log[r].stage = "success" => proc[r] = "succeeded"
  /\ last.ok => proc[last.run] = "succeeded"

\* While a run waits for the answer to its question, and the question has not
\* timed out, no trigger opens a second run of the Job (model/job_run.go:89),
\* except one that could not read the log with the question.
OpenQuestionKeepsItsSlot ==
  \A q, r \in Runs :
    /\ ~stolen /\ ~stale /\ "judging" \notin errors
    /\ suspendedRun = q /\ proc[q] = "waiting" /\ log[q].stage = "awaiting"
    => pc[r] \notin {"finalizing", "preparing", "logged"}

\* A submission that comes too late to answer does not fail the run another one
\* has answered: the question of an answer the kernel refuses is unanswered.
LateSubmitIsHarmless ==
  \A u \in Submits :
    pc[u] = "failing" /\ ~stolen => delivered[seen[u]][copies[u].await] = 0

\* Neither the lease nor the suspension marker blocks the Job for ever, whoever
\* crashed while it held the one or left the other behind.
SlotComesFree == []<>(holder = None /\ suspendedRun = None)

\* What runner.go:643 says: no other attempt can start a run between a
\* trigger's check for a live one and its Spawn.
BusyNeverReachesSpawn == \A r \in Runs : pc[r] = "logged" => ~Busy

\* What scanner.go:210 says: the sweep leaves a run alone that was resumed, here
\* even with no lease lost: one whose last question was answered.
ResumedRunIsLeftAlone ==
  pc[Sweep] = "finalizing" /\ ~stolen =>
    \A q \in 1..MaxQuestions :
      q = asked[seen[Sweep]] => delivered[seen[Sweep]][q] = 0

\* What runner.go:226 says: a question nobody answers does not keep the Job
\* from running for ever.
QuestionNeverBlocksJob ==
  \A r \in Runs : proc[r] = "waiting" ~> ~Busy
=============================================================================

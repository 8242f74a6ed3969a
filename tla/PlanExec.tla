------------------------------ MODULE PlanExec ------------------------------
(***************************************************************************)
(* One plan-execute run (usecase/agent/planexec): a planner that is asked   *)
(* for tasks, the ReAct children that work on them (agent/react), the       *)
(* rounds of observations, the question to a human and the terminal output, *)
(* under the budget of agent/budget.                                        *)
(*                                                                          *)
(* A transition of a Process is one call of Step.  Its state, its           *)
(* conversation, its children and its awaits are committed together by      *)
(* agentkit; a transition that fails leaves the checkpoint as it was and is *)
(* tried again.  Both strategies live by two rules of the providers: every  *)
(* tool call of a model turn is answered before the next request, and a     *)
(* request ends with a turn that is not the model's.                        *)
(*                                                                          *)
(* Prompts, schemas and progress lines are left out; what the model is told *)
(* is kept as a tag.  Calls that are nil, which no provider returns, are    *)
(* left out too.                                                            *)
(***************************************************************************)
EXTENDS Integers, Sequences, FiniteSets, SequencesExt, FiniteSetsExt

CONSTANTS
  Tasks,            \* names a planner can give to tasks
  MaxTasks,         \* maxTasksPerPhase
  MaxSteps,         \* the run's ceiling, in transitions of its tree
  NoticeAt,         \* the number of steps from which the run is told to wrap up
  MaxTaskSteps,     \* a child's own ceiling
  MaxAttempts,      \* failed attempts of one transition before the Process fails
  MaxCalls,         \* bound: tool calls in one model turn
  MaxRetries,       \* finalOutputMaxRetry
  MaxTrail,         \* what the checkpointed trail may hold, in results and notes
  MaxFaults,        \* bound: transitions that fail
  None

Direct == "direct"                              \* directTaskID
Names  == Tasks \cup {Direct}

ASSUME BudgetAssumption ==
  /\ MaxSteps \in Nat \ {0} /\ NoticeAt \in 1..MaxSteps
  /\ MaxTaskSteps \in Nat \ {0}
  /\ {MaxTasks, MaxCalls} \subseteq Nat \ {0}
  /\ {MaxAttempts, MaxRetries, MaxTrail, MaxFaults} \subseteq Nat
  /\ Direct \notin Tasks

Tags     == {"request", "correction", "observations", "answer", "rejection"}
Outcomes == {"direct", "fallback", "question", "final"}

ASSUME NoneAssumption == None \notin Names \cup Outcomes \cup (Tags \X Nat)

VARIABLES
  input,   \* the flags of the launch input and of the host's Config
  st,      \* the checkpointed state
  conv,    \* the committed conversation: its last turn, and the calls nobody answered
  proc,    \* the Process: status, steps charged, attempts of this transition, output
  kids,    \* the children of the current round
  awaits,  \* the awaits the run opened: key -> open or responded
  heard,   \* what of the rounds' observations and answers a model was sent
  faults

vars == <<input, st, conv, proc, kids, awaits, heard, faults>>

-----------------------------------------------------------------------------
(* Conversations. *)

\* A request of one user turn, or of none, is one a provider takes.
Takes(c, text) ==
  /\ c.open = 0
  /\ IF text THEN c.last \in {"none", "model"} ELSE c.last = "results"

Nothing    == [last |-> "none", open |-> 0]
Calling(n) == [last |-> "calls", open |-> n]
Saying     == [last |-> "model", open |-> 0]

\* CallTool appends a result to the trailing tool message, failed or not.
Answering(c) == [last |-> "results", open |-> c.open - 1]

-----------------------------------------------------------------------------
(* The budget: every Stop is tested before any Notice. *)

Limit(steps, ceiling, notice) ==
  IF steps >= ceiling THEN "stop" ELSE IF steps >= notice THEN "notice" ELSE "pass"

RunLimit   == Limit(proc.steps, MaxSteps, NoticeAt)
Charged(n) == n + 1                       \* one committed transition

-----------------------------------------------------------------------------
(* What a planner may answer.  A field that is missing, malformed or breaks *)
(* its own rules counts as an answer without action.                        *)

Plans == [tasks : SUBSET Tasks, direct : BOOLEAN, question : BOOLEAN, finalize : BOOLEAN]

TaskListOk(ts) == IsFiniteSet(ts) /\ Cardinality(ts) \in 1..MaxTasks

\* The opening round: tasks, or the direct path where the host allows it.
PlanOk(p) ==
  IF p.direct THEN input.allowDirect /\ p.tasks = {} ELSE TaskListOk(p.tasks)

\* Every later round: exactly one of tasks, question and finalize.
ReplanOk(p) ==
  /\ Cardinality({a \in {"tasks", "question", "finalize"} :
                    CASE a = "tasks" -> p.tasks # {}
                      [] a = "question" -> p.question
                      [] a = "finalize" -> p.finalize}) = 1
  /\ p.question => input.allowQuestion
  /\ p.tasks # {} => TaskListOk(p.tasks)

-----------------------------------------------------------------------------
(* The trail of observations: one entry a round, the oldest dropped when the *)
(* checkpoint outgrows its bound, each drop noted on the new oldest entry.   *)

EntrySize(e) == Cardinality(DOMAIN e.results) + Cardinality(e.notes)
TrailSize(trail) == FoldSeq(LAMBDA e, n : n + EntrySize(e), 0, trail)

DropOldest(trail, k) ==
  IF k = 0 THEN trail
  ELSE [SubSeq(trail, k + 1, Len(trail)) EXCEPT ![1].notes = @ \cup {trail[k].round}]

AppendObservations(trail, entry) ==
  LET all  == Append(trail, entry)
      fits == {k \in 0..(Len(all) - 1) :
                 k = Len(all) - 1 \/ TrailSize(DropOldest(all, k)) <= MaxTrail}
  IN  DropOldest(all, Min(fits))

RoundsIn(trail) == {trail[i].round : i \in 1..Len(trail)}

-----------------------------------------------------------------------------
(* The hosts that launch runs. *)

Launch(direct, question, suspend, textOnly) ==
  [allowDirect |-> direct, allowQuestion |-> question,
   suspend |-> suspend, textOnly |-> textOnly]

Job            == Launch(TRUE, FALSE, FALSE, TRUE)    \* and the workspace agent
InteractiveJob == Launch(TRUE, TRUE, TRUE, TRUE)
ThreadMention  == Launch(TRUE, TRUE, FALSE, FALSE)
ThreadCreate   == Launch(FALSE, TRUE, FALSE, FALSE)   \* and the draft of a case

-----------------------------------------------------------------------------
(* The Process of the run. *)

Init ==
  /\ input \in {Job, InteractiveJob, ThreadMention, ThreadCreate}
  /\ st = [phase |-> "plan", round |-> 1, next |-> <<"request", 0>>, obs |-> <<>>,
           current |-> {}, direct |-> FALSE, roundKey |-> None,
           retries |-> 0, wrap |-> FALSE, pending |-> 0, after |-> None,
           answered |-> FALSE, answerKey |-> None]
  \* A turn that an answer starts inherits the conversation of the run that asked.
  /\ conv \in {Nothing} \cup (IF input.textOnly THEN {} ELSE {Saying})
  /\ proc = [status |-> "running", steps |-> 0, attempts |-> 0, out |-> None]
  /\ kids = <<>>
  /\ awaits = <<>>
  /\ heard = {}
  /\ faults = 0

\* Mutant: the notice is enforced, not told.
ToldTooLate == [st EXCEPT !.wrap = @ \/ RunLimit = "stop"]

\* The state a transition starts from: a budget notice is recorded on it.
Told == [st EXCEPT !.wrap = @ \/ RunLimit = "notice"]

Runs(phase) ==
  /\ proc.status = "running"
  /\ RunLimit # "stop"
  /\ st.phase = phase

Commits(status, out) ==
  proc' = [status |-> status, steps |-> Charged(proc.steps), attempts |-> 0, out |-> out]

Continue   == Commits("running", None)
Done(kind) == Commits("succeeded", kind)

\* plannerInput: nothing behind answered calls, otherwise one turn.
PlannerSends == IF st.answered \/ st.next = None THEN {} ELSE {st.next}
SendsText    == ~st.answered

\* The planning calls, unless the run was told to wrap up, and the terminal call.
Generates ==
  \/ (Runs("plan") \/ Runs("replan")) /\ ~Told.wrap
  \/ Runs("final")

\* Mutant: the answered calls stay on record.
AskedAgain == Told

\* A call that succeeded continued from the answered calls.
Asked == [Told EXCEPT !.answered = FALSE]

\* The budget is nearly gone: answer with what there is.
WrapUp ==
  /\ Runs("plan") \/ Runs("replan")
  /\ Told.wrap
  /\ st' = [Told EXCEPT !.phase = "final"]
  /\ Continue
  /\ UNCHANGED <<input, conv, kids, awaits, heard, faults>>

\* What the terminal call is told: the trail, or why its last output was rejected.
FinalSends ==
  IF st.retries = 0 \/ st.next = None
  THEN {<<"observations", r>> : r \in RoundsIn(st.obs)} ELSE {st.next}

Sends == IF st.phase = "final" THEN FinalSends ELSE PlannerSends

\* The model asks for tools instead of deciding.
Diverted(s, n) ==
  [s EXCEPT !.pending = n, !.after = s.phase, !.phase = "planner_tool", !.next = None]

DivertToTools ==
  /\ Generates
  /\ \E n \in 1..MaxCalls :
       /\ st' = Diverted(Asked, n)
       /\ conv' = Calling(n)
  /\ heard' = heard \cup Sends
  /\ Continue
  /\ UNCHANGED <<input, kids, awaits, faults>>

\* Mutant: the first call ends the tool phase.
CalledOnce(s) == [s EXCEPT !.pending = @ - 1, !.answered = TRUE, !.phase = s.after]

\* One call is made and answered.
Called(s) == [s EXCEPT !.pending = @ - 1, !.answered = TRUE,
                       !.phase = IF s.pending = 1 THEN s.after ELSE @]

StepPlannerTool ==
  /\ Runs("planner_tool")
  /\ st' = Called(Told)
  /\ conv' = Answering(conv)
  /\ Continue
  /\ UNCHANGED <<input, kids, awaits, heard, faults>>

-----------------------------------------------------------------------------
(* Children. *)

NewChild == [phase |-> "generate", prompt |-> TRUE, pending |-> 0, answered |-> FALSE,
             text |-> FALSE, conv |-> Nothing,
             status |-> "running", steps |-> 0]

\* The awaits with the one the run suspends on.
Opened(key) ==
  [k \in DOMAIN awaits \cup {key} |-> IF k = key THEN "open" ELSE awaits[k]]

\* The run waits until every child it launched has ended.
Suspend(s, key, names) ==
  /\ st' = s
  /\ awaits' = Opened(key)
  /\ kids' = [t \in names |-> NewChild]
  /\ Commits("waiting", None)

LaunchRound(s, tasks) ==
  LET key == <<"tasks", s.round>> IN
  Suspend([s EXCEPT !.current = tasks, !.direct = FALSE, !.roundKey = key,
                    !.phase = "collect"], key, tasks)

LaunchDirect(s) ==
  LET key == <<Direct, 0>> IN
  Suspend([s EXCEPT !.current = {Direct}, !.direct = TRUE, !.roundKey = key,
                    !.phase = "collect"], key, {Direct})

\* A child's request, and what becomes of it.
ChildText(k) == k.prompt \/ ~k.answered

\* Mutant: the await is resolved when every child has succeeded.
ChildSucceeds(t, k, status) ==
  /\ kids' = [kids EXCEPT ![t] = [k EXCEPT !.status = status]]
  /\ LET over == \A o \in DOMAIN kids : kids'[o].status = "succeeded" IN
     /\ proc' = [proc EXCEPT !.steps = @ + k.steps,
                             !.status = IF over THEN "running" ELSE @]
     /\ awaits' = IF over THEN [awaits EXCEPT ![st.roundKey] = "responded"] ELSE awaits

\* The child's spend is folded into its parent when it ends; the last one to end
\* resolves the await.
ChildEnds(t, k, status) ==
  /\ kids' = [kids EXCEPT ![t] = [k EXCEPT !.status = status]]
  /\ LET over == \A o \in DOMAIN kids \ {t} : kids[o].status # "running" IN
     /\ proc' = [proc EXCEPT !.steps = @ + k.steps,
                             !.status = IF over THEN "running" ELSE @]
     /\ awaits' = IF over THEN [awaits EXCEPT ![st.roundKey] = "responded"] ELSE awaits

ChildRuns(t, phase) ==
  /\ proc.status = "waiting" /\ t \in DOMAIN kids
  /\ kids[t].status = "running" /\ kids[t].phase = phase
  /\ Limit(kids[t].steps, MaxTaskSteps, MaxTaskSteps) # "stop"

\* A call that succeeded: the prompt was sent, the answered calls were continued
\* from, and the reply may carry text.
Generated(k, text) ==
  [k EXCEPT !.prompt = FALSE, !.answered = FALSE, !.text = @ \/ text,
            !.steps = Charged(@)]

ChildCallsTools(t) ==
  /\ ChildRuns(t, "generate")
  /\ \E n \in 1..MaxCalls, text \in BOOLEAN :
       kids' = [kids EXCEPT ![t] =
                  [Generated(@, text) EXCEPT !.pending = n, !.phase = "tool",
                                             !.conv = Calling(n)]]
  /\ UNCHANGED <<input, st, conv, proc, awaits, heard, faults>>

ChildAnswers(t) ==
  /\ ChildRuns(t, "generate")
  /\ \E text \in BOOLEAN :
       ChildEnds(t, [Generated(kids[t], text) EXCEPT !.conv = Saying], "succeeded")
  /\ UNCHANGED <<input, st, conv, heard, faults>>

\* stepTool
ChildCalled(k) ==
  [k EXCEPT !.pending = @ - 1, !.answered = TRUE, !.steps = Charged(@),
            !.conv = Answering(@), !.phase = IF k.pending = 1 THEN "generate" ELSE @]

ChildTool(t) ==
  /\ ChildRuns(t, "tool")
  /\ kids' = [kids EXCEPT ![t] = ChildCalled(@)]
  /\ UNCHANGED <<input, st, conv, proc, awaits, heard, faults>>

\* Its ceiling is reached, or a transition of it failed too often.
ChildFails(t) ==
  /\ proc.status = "waiting" /\ t \in DOMAIN kids /\ kids[t].status = "running"
  /\ \/ kids[t].steps >= MaxTaskSteps /\ UNCHANGED faults
     \/ kids[t].steps < MaxTaskSteps /\ faults < MaxFaults /\ faults' = faults + 1
  /\ ChildEnds(t, kids[t], "failed")
  /\ UNCHANGED <<input, st, conv, heard>>

-----------------------------------------------------------------------------
(* Planning, collecting and replanning. *)

\* A rejected output: the reason goes to the next planning call.
CarryCorrection(s) == st' = [s EXCEPT !.next = <<"correction", 0>>]

Planned(p) ==
  \/ /\ ~PlanOk(p)
     /\ CarryCorrection(Asked)
     /\ Continue
     /\ UNCHANGED <<kids, awaits>>
  \/ PlanOk(p) /\ p.direct /\ LaunchDirect(Asked)
  \/ PlanOk(p) /\ ~p.direct /\ LaunchRound(Asked, p.tasks)

StepPlan ==
  /\ Runs("plan") /\ ~Told.wrap
  /\ \E p \in Plans : Planned(p)
  /\ conv' = Saying
  /\ heard' = heard \cup Sends
  /\ UNCHANGED <<input, faults>>

\* A direct child that succeeded with some text is the reply.
CollectDirect ==
  /\ Runs("collect") /\ st.direct
  /\ awaits[st.roundKey] = "responded"
  /\ st' = Told
  /\ Done(IF kids[Direct].status = "succeeded" /\ kids[Direct].text
          THEN "direct" ELSE "fallback")
  /\ UNCHANGED <<input, conv, kids, awaits, heard, faults>>

\* collectResults
TaskResult(k) == IF k.status = "succeeded" THEN "completed" ELSE "failed"

Collected(s) ==
  LET entry == [round |-> s.round, notes |-> {},
                results |-> [t \in s.current |-> TaskResult(kids[t])]]
  IN  [s EXCEPT !.obs = AppendObservations(s.obs, entry),
                !.next = <<"observations", s.round>>, !.current = {},
                !.roundKey = None, !.phase = "replan"]

StepCollect ==
  /\ Runs("collect") /\ ~st.direct
  /\ awaits[st.roundKey] = "responded"
  /\ st' = Collected(Told)
  /\ kids' = <<>>
  /\ Continue
  /\ UNCHANGED <<input, conv, awaits, heard, faults>>

\* The host is handed the question before the run suspends on its await, which is
\* the round's own.
AskAndWait(s) ==
  LET key == <<"question", s.round>> IN
  /\ st' = [s EXCEPT !.answerKey = key, !.phase = "answer"]
  /\ awaits' = Opened(key)
  /\ Commits("waiting", None)

NextRound(s) == [s EXCEPT !.round = @ + 1]

Replanned(p) ==
  \/ /\ ~ReplanOk(p)
     /\ CarryCorrection(Asked)
     /\ Continue
     /\ UNCHANGED <<kids, awaits>>
  \/ /\ ReplanOk(p) /\ p.question /\ input.suspend
     /\ AskAndWait(Asked)
     /\ UNCHANGED kids
  \/ /\ ReplanOk(p) /\ p.question /\ ~input.suspend
     /\ st' = Asked
     /\ Done("question")
     /\ UNCHANGED <<kids, awaits>>
  \/ /\ ReplanOk(p) /\ p.finalize
     /\ st' = [Asked EXCEPT !.phase = "final"]
     /\ Continue
     /\ UNCHANGED <<kids, awaits>>
  \/ ReplanOk(p) /\ p.tasks # {} /\ LaunchRound(NextRound(Asked), p.tasks)

StepReplan ==
  /\ Runs("replan") /\ ~Told.wrap
  /\ \E p \in Plans : Replanned(p)
  /\ conv' = Saying
  /\ heard' = heard \cup Sends
  /\ UNCHANGED <<input, faults>>

\* The host responds to the await with what the person submitted.
Respond ==
  /\ proc.status = "waiting" /\ st.phase = "answer"
  /\ awaits' = [awaits EXCEPT ![st.answerKey] = "responded"]
  /\ proc' = [proc EXCEPT !.status = "running"]
  /\ UNCHANGED <<input, st, conv, kids, heard, faults>>

\* Mutants: the answer is dropped; the question's round goes on.
AnsweredUnsaid(s) ==
  NextRound([s EXCEPT !.answerKey = None, !.next = None, !.phase = "replan"])
AnsweredInRound(s) ==
  [s EXCEPT !.answerKey = None, !.next = <<"answer", s.round>>, !.phase = "replan"]

\* The answer is what the next planning call is to be sent.
Answered(s) ==
  NextRound([s EXCEPT !.answerKey = None, !.next = <<"answer", s.round>>,
                      !.phase = "replan"])

StepAnswer ==
  /\ Runs("answer")
  /\ awaits[st.answerKey] = "responded"
  /\ st' = Answered(Told)
  /\ Continue
  /\ UNCHANGED <<input, conv, kids, awaits, heard, faults>>

-----------------------------------------------------------------------------
(* The terminal output. *)

\* An output that cannot be decoded, validated or finalized is written again, with
\* the reason, MaxRetries times.
Rejected(s) ==
  LET retried == [s EXCEPT !.retries = @ + 1] IN
  IF retried.retries > MaxRetries THEN st' = retried /\ Done("fallback")
  ELSE st' = [retried EXCEPT !.next = <<"rejection", 0>>] /\ Continue

FinalReply ==
  \/ st' = Asked /\ Done("fallback")                    \* an empty reply
  \/ st' = Asked /\ Done("final")                       \* prose, or data that passes
  \/ ~input.textOnly /\ Rejected(Asked)

StepFinal ==
  /\ Runs("final")
  /\ FinalReply
  /\ conv' = Saying
  /\ heard' = heard \cup Sends
  /\ UNCHANGED <<input, kids, awaits, faults>>

-----------------------------------------------------------------------------
(* Failure. *)

\* A transition fails: a call of the model, the store or the host, or a refused
\* tool.  The checkpoint stays; too many attempts fail the Process.
TransitionFails ==
  /\ proc.status = "running" /\ RunLimit # "stop"
  /\ faults < MaxFaults
  /\ faults' = faults + 1
  /\ proc' = IF proc.attempts < MaxAttempts
             THEN [proc EXCEPT !.attempts = @ + 1]
             ELSE [proc EXCEPT !.status = "failed"]
  /\ UNCHANGED <<input, st, conv, kids, awaits, heard>>

\* The ceiling is reached between two transitions.
Stopped ==
  /\ proc.status = "running" /\ RunLimit = "stop"
  /\ proc' = [proc EXCEPT !.status = "failed"]
  /\ UNCHANGED <<input, st, conv, kids, awaits, heard, faults>>

-----------------------------------------------------------------------------
ChildStep == \E t \in Names :
  ChildCallsTools(t) \/ ChildAnswers(t) \/ ChildTool(t) \/ ChildFails(t)

RunStep ==
  \/ WrapUp \/ DivertToTools \/ StepPlannerTool
  \/ StepPlan \/ CollectDirect \/ StepCollect \/ StepReplan \/ StepAnswer \/ StepFinal
  \/ TransitionFails \/ Stopped

Next == RunStep \/ ChildStep \/ Respond

Spec == Init /\ [][Next]_vars

\* Instances keep claiming Processes that are runnable.  Nobody has to answer.
FairSpec == Spec /\ WF_vars(RunStep) /\ WF_vars(ChildStep)

-----------------------------------------------------------------------------
(* Properties. *)

Ended == proc.status \in {"succeeded", "failed"}

Convs == [last : {"none", "model", "calls", "results"}, open : 0..MaxCalls]

\* The state, the children and the output are well formed, and every phase comes
\* with what it needs: calls to make, children to collect, an await to read
\* (Step, strategy.go:389-415, decodes any state and trusts it).
TypeOK ==
  /\ st.phase \in {"plan", "collect", "replan", "final", "planner_tool", "answer"}
  /\ st.round \in Nat \ {0} /\ st.retries \in 0..(MaxRetries + 1)
  /\ {st.wrap, st.direct, st.answered} \subseteq BOOLEAN
  /\ st.next = None \/ st.next[1] \in Tags
  /\ conv \in Convs
  /\ proc.status \in {"running", "waiting", "succeeded", "failed"}
  /\ (proc.status = "succeeded") <=> (proc.out # None)
  /\ proc.attempts \in 0..MaxAttempts
  /\ st.pending \in 0..MaxCalls /\ (st.phase = "planner_tool" <=> st.pending > 0)
  /\ st.phase = "collect" => /\ st.current = DOMAIN kids /\ st.current # {}
                             /\ st.roundKey \in DOMAIN awaits
  /\ st.phase = "answer" => st.answerKey \in DOMAIN awaits
  /\ proc.status = "waiting" => st.phase \in {"collect", "answer"}
  /\ \A t \in DOMAIN kids : kids[t].conv \in Convs /\ kids[t].steps \in 0..MaxTaskSteps

\* Every request either strategy is about to send is one a provider takes: each
\* call of the model is answered, a text is not put behind the results, and
\* nothing ends on the model's own turn, however calls, corrections, answers,
\* failed attempts and the wrap-up alternate.
RequestsWellFormed ==
  /\ Generates => Takes(conv, SendsText)
  /\ \A t \in DOMAIN kids :
       kids[t].status = "running" /\ kids[t].phase = "generate"
         => Takes(kids[t].conv, ChildText(kids[t]))

\* A run that reports a conclusion has put before the model the observations of
\* every round it collected, and every answer it waited for unless the budget told
\* it to wrap up.
AnsweredRounds == {k[2] : k \in {a \in DOMAIN awaits :
                                   a[1] = "question" /\ awaits[a] = "responded"}}

ConclusionsAreInformed ==
  proc.out = "final" =>
    /\ \A r \in RoundsIn(st.obs) : <<"observations", r>> \in heard
    /\ st.wrap \/ \A r \in AnsweredRounds : <<"answer", r>> \in heard

\* What the code says of the answer to a question (strategy.go:749-753): it is
\* folded into the next planning round.  Without the exception above.
AnswersAreHeard ==
  proc.out = "final" => \A r \in AnsweredRounds : <<"answer", r>> \in heard

\* What the code says of the rounds it drops (strategy.go:1125-1127): a note
\* replaces each, so the planner can tell them from rounds that found nothing.
DroppedRoundsAreNoted ==
  \A k \in DOMAIN awaits :
    k[1] = "tasks" /\ (st.roundKey # k)
      => \/ k[2] \in RoundsIn(st.obs)
         \/ \E i \in 1..Len(st.obs) : k[2] \in st.obs[i].notes

\* Children are charged when they end, so a round may carry the run past its
\* ceiling; but none is launched once the notice is due, so the tree spends its
\* ceiling at most, or one round of children more than the notice.
Working  == {t \in DOMAIN kids : proc.status = "waiting" /\ kids[t].status = "running"}
Unfolded == Cardinality(UNION {{t} \X (1..kids[t].steps) : t \in Working})

SpendIsBounded ==
  proc.steps + Unfolded <= Max({MaxSteps, NoticeAt + MaxTasks * MaxTaskSteps})

\* No await is opened under a key the run used before: agentkit closes an await
\* once it is answered, so the second question would be answered already.
AwaitsAreFresh ==
  [][\A k \in DOMAIN awaits' : awaits'[k] = "open" => k \notin DOMAIN awaits
                                                       \/ awaits[k] = "open"]_vars

\* A run ends, or waits for a person: no planner, tool or child keeps it for ever.
RunEnds == <>[](Ended \/ (proc.status = "waiting" /\ st.phase = "answer"))
=============================================================================

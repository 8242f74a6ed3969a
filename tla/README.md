# Hecatoncheires: a TLA+ model of its cases and durable agent runs

Hecatoncheires is a Go program that manages cases in Slack and on the web and
lets agents (LLM loops) work on them: on a mention, on a form, on a schedule.
Several instances of it run against one Firestore database. This directory holds
TLA+ modules translated from its source, TLC configurations that check them on
small instances, and theorems about them proved with TLAPS.

Paths below are relative to `pkg/` in the repository unless they start with
`docs/`. `PROJECT.json` lists every definition with the source lines it models.

## 1. Inventory

### Components

| Component | State it keeps | Operations | Correct if |
|---|---|---|---|
| Durable process store (`repository/agentproc`) | Process rows with a revision, key and subject guards, awaits, event rows | `ClaimNextProcess`, `Apply`, lookups | one claim at a time, stale writes refused, one open Process per subject, one Process ever per key, events numbered without gaps, nothing lost after a crash |
| Agent kernel (agentkit, an external library; wiring in `agent/kernel`) | none of its own; what an instance read and works on | claim, transition, commit, `Respond`, progress events | side effects of a transition are not repeated without bound |
| Job concurrency slots (`usecase/job/slot.go`) | slot documents with a holder and `ExpiresAt`; a heartbeat per run | acquire, renew, release | no more runs than the limit, no slot lost for ever, a healthy run keeps its slot |
| Job runs (`usecase/job`, `agent/runtrace`) | `JobRun` (lease, suspension marker, last outcome), run logs, the question posted | `Run`, `Resume`, `HandleQuestionSubmit`, completion handler, sweep | one run of a Job and case at a time, truthful outcomes, a question keeps its slot until answered or timed out, nothing blocks the Job for ever |
| Job scheduler (`usecase/job/scanner.go`) | none; reads Jobs, `JobRun`s | `Scan`, `IsDue`, expiry of suspended runs | a due Job fires, one that is not does not |
| Plan-execute strategy (`usecase/agent/planexec`, sub-agents in `agent/react`) | plan, rounds, observations, tool calls and the question in the Process state; a conversation | step functions, sub-agents, ask and wait, finalise | every request is one a provider takes, a conclusion has seen what was found, the budget bounds the whole tree, the run ends |
| Run trace (`agent/runtrace`, `repository/firestore/job_run.go`) | events of a run, numbered | `AppendNext` | numbered without gaps or duplicates |
| Notification slots (`usecase/notification_slot.go`) | one rolling message per channel and window | enqueue a line, roll over | a line is lost only to a race or a deleted message |
| Thread case creation (`usecase/threadcase*.go`, `reactioncase.go`) | reaction claims, the Session of a thread, the create turn, the question form | trigger, claim, question, submit, completion handler, fallback | one case per thread and per reacted message, a claim nothing comes of is given back, no answer forgotten |
| Draft proposals (`usecase/slack_mention_proposal*.go`) | drafts, the Session's active draft, the inference lock | mention, reply, answer, switch, edit, submit, cancel; completion handler | one turn per thread, its result in its own draft, a draft never stays locked |
| Cases (`usecase/case.go`) | cases DRAFT, OPEN, CLOSED, their home, board status, assignees, request keys | create, draft, submit, edit, assign, close, reopen, move, delete | a failed submission leaves nothing behind, an OPEN case has a home, edits keep what they are not about, a form is applied once |
| Actions (`usecase/action*.go`) | Actions, steps, comments, the feed of events | create, update, archive, step and comment changes | the feed accounts for the documents |
| Import (`usecase/import.go`) | import sessions | validate, execute | rows created once |
| Authentication (`usecase/auth*.go`) | tokens and a cache per instance | login, validate, logout | a revoked token stops working |
| Assignee ranking, Slack user refresh | cached lists | recompute, replace | readers see a complete list |
| Budgets (`agent/budget`) | what a run was charged | notice and stop, over the run and over a sub-agent | the run is told before it is stopped |
| Async dispatch, drain | a WaitGroup | dispatch, wait | nothing is cut off |
| Sources, knowledge, memos, tags, dashboard | single documents | create, read, update, delete | no protocol over them |
| Slack handling, HTTP/GraphQL, CLI, export, evaluation, frontend | none of their own | routing, rendering, wiring | not modelled |

### How they interact

A trigger (a lifecycle event of a case, or the scheduler) takes the `JobRun`
lease, writes a run log and **spawns** a Process. The **agent worker** of any
instance polls the process store and claims it; the claim passes the
**concurrency gate** (`slotGuard`) first. The transition runs the plan-execute
strategy, which may post a form in Slack, park the run log, mark the `JobRun` as
suspended and make the Process wait. A submission of the form **resumes** it
through `Kernel.Respond`. When the Process ends, its completion handler closes
the log and records the outcome, after the Process is terminal and its subject
is free. The scheduled **sweep** fails runs whose question timed out. All of
these share documents and none shares memory; each document read or write may be
followed by anybody else's.

A Slack event in a monitored channel starts a **create turn**, a Process under the
subject of the thread's Session, whose completion handler stores the case, posts a
form, or reports that nothing came of it. A reaction elsewhere first takes a
**claim** on the message and posts the root of the thread. The submitted form is a
trigger again, of the next turn.

A **mention** of the bot outside such a channel saves a locked **draft**, claims the
Session of the thread and starts a turn for the draft; the turn's handler shows a
preview with buttons and unlocks it. Whatever a case comes from (a modal, a draft,
a create turn, an import), `CaseUseCase` stores it and gives it its **home**, a
channel or a thread. Its **Actions** report to that channel through the
notification slot, one message that is edited until its window is over.

### What is hard

- *Interleaving.* Transitions run outside any transaction between a claim and an
  `Apply`; triggers, submissions, the sweep and completion handlers write the
  same log and `JobRun` with no fence on either.
- *Leases without names.* `JobRun.LeaseUntil` says that somebody holds the
  lease, not who; `ReleaseLease`, `RecordRun` and `Suspend` clear whichever is there.
- *Crashes and overruns.* An instance dies in a transition, between two writes of
  a protocol, or in a best-effort completion handler nobody calls again.
- *Retries and timeouts.* Unclean reclaims, two answers to a question, an answer
  against the timeout, heartbeats against expiry, clocks that differ.
- *Whole documents.* Only assignments, claims and Session fields are changed in a
  transaction; cases, Actions, drafts, logs and slots are read, changed in memory
  and stored whole, over whatever was stored in between.
- *Several stores at once.* A submission, a preview or an Action writes a document,
  calls Slack, and writes again; each can fail, die, or be stored and still reported
  as failed, and the code undoes some of what it did.
- *Checkpoints.* A transition that fails is run again from the last checkpoint, with
  its posts and its model turns; state, conversation and children must fit together
  in every phase a checkpoint can hold.
- *Failed calls.* Much of the run record is best effort: an error is reported and
  the code goes on, each place in its own way.

`PROJECT.json` lists each hazard at its line with the properties that cover it.

## 2. The modules

| Module | Models | Role |
|---|---|---|
| `ProcessRegistry` | what the process store promises | abstract specification |
| `AgentProc` | `repository/agentproc/firestore.go` and what the kernel asks of it | implements `ProcessRegistry` |
| `SlotPool` | what the limit on scheduled runs promises: a counting semaphore whose holds may lapse | abstract specification |
| `JobSlot` | slots, gate, heartbeat | implements `SlotPool` |
| `JobRun` | trigger, run, question, submission, sweep, completion | state machine |
| `ThreadCase` | from an event to a case: claim, Session, create turn, form, handler | state machine |
| `CaseLifecycle` | a Case from draft or creation to deletion, its home, board, assignees, request key | state machine |
| `Proposal` | drafts from mentions in one thread: Session, turns, lock, preview, form | state machine |
| `PlanExec` | one plan-execute run: planner, rounds of sub-agents, question, final output, budget | state machine |
| `ActionBoard` | an Action, its step, the feed of events and the rolling channel message | state machine |
| `AgentProcProofs`, `JobSlotProofs`, `JobRunProofs`, `ThreadCaseProofs`, `CaseLifecycleProofs`, `ProposalProofs`, `PlanExecProofs`, `ActionBoardProofs` | theorems about the module they are named for, and their proofs | TLAPS |
| `MC`... | an instance of each of the state machines, and its symmetry, for TLC | |

### AgentProc

A row (`rows`) is an agentkit `Process`: status, key, subject, whether its lease
and wake instants are set, unclean reclaims, and its revision (0: not stored).
Instants are abstracted to `due[p]`: has the instant that `claimAtFor` derives
passed? `views` is what an instance holds in memory between two transactions.

| Action | Code |
|---|---|
| `Poll`, `Claim`, `SkipCandidate` | the query and the per-row transaction of `ClaimNextProcess` / `claimOne` |
| `Apply` = `Accepts` and `Write` | `Repository.Apply`: all preconditions, then all writes, or `ErrConflict` and none |
| `Spawn`, `Commit`, `Progress` | change sets of the kernel: new Processes (one, or a batch), a decided transition, events alone under a guard |
| `ReadQuestion`, `Answer` | the two halves of `Kernel.Respond` |
| `ComesDue`, `Overrun`, `Crash` | time; a lease that runs out under a live instance; the death of one |

The kernel is not in this repository. Its actions are modelled from the fields
`firestore.go` reads and writes and from how `pkg/` calls it, and are marked
external. The paged query is one snapshot: rows beyond the page are found by the
next poll, which is the same behaviour.

### JobSlot

Slot records carry the time *left* to `ExpiresAt`, so there is no clock to bound
and `Tick` lets a unit pass everywhere. Each run sees the records through its
own clock (`offset`, at most `Skew`). `List`, `TryAcquire`, `LoseIndex`,
`Refuse` are `ConcurrencyLimiter.acquire` and the gate's answer; `Beat`, `Renew`,
`RenewFails` the heartbeat goroutine; `Release`, `Crash` the ends of a claim. The
heartbeat is stopped but not joined, so a renewal in flight may arrive after the
release. `ClockAssumption` (clocks differ by less than `TTL - RenewInterval`) is
needed by the properties and not checked by the code, which compares instants of
different instances as they are.

`SlotPool` has no records and no clocks: a run asks, is admitted while fewer than
`Limit` are, may find its hold lapsed, and ends. `Standing(r)` maps a run of
`JobSlot` to it: a running run counts as admitted while no clock sees its record
expired. A renewal that arrives late and still finds its record is an `Admit`, so
the refinement also says that it finds room. `CoveredWithinLimit` follows from it, and
is proved and checked (`MCJobSlot_gate`) in its own right as well.

### JobRun

One Job on one case. Triggers (`Runs`), submissions (`Submits`) and the sweep are
actors with a program counter; the Process of a run and its completion handler
progress on their own. Each read or write of a document is one action; a copy
read is kept in `copies` and written back blindly, as the code does. `holder` is
who took the lease in force; the document has no such field and no guard reads
the name, only the histories do. The Process is abstracted to open or ended with
at most one open per subject, which is what `AgentProc` establishes
(`SubjectGuardExact`). `CallFails` lets any call fail and continues where the
code does (`OnError`); `FinishFails` and `FinishLost` do so for the handler.

The in-process executor path of `JobRunner.Run`, the text of questions and
answers, the run's events, reflection, and Slack markers are left out.

### ThreadCase

A *delivery* (`Calls`) is one arrival of a trigger (`Keys`): a post, a reaction, a
mention, or a click on the form of a question. It walks through `pc` and keeps in
`sess` the Session it read or made; the turn it starts and that turn's completion
handler go by its name.

| Action | Code |
|---|---|
| `Deliver` | the dispatch in `usecase/slack.go`, `reactioncase.go` and the form's submit button |
| `Claim`, `PostRoot`, `Unclaim` | `reactionCreateCrossChannel` |
| `Check`, `Match`, `Incomplete`, `Answer`, `ClearPending` | `GetBySlackThread`; the steps of `HandleThreadCaseQuestionSubmit` |
| `LoadOrCreateSession`, `Supersede`, `PersistSession`, `StartTurn` | `runThreadCaseCreation` and `Durable.StartTurn` |
| `TurnEnds` | the Process ends, `onCreateFinish` branches |
| `CommitCreate`, `FindCase`, `CreateCase`, `BindCase`, `PostOutcome` | `commitCreate` and `threadcaseHost.CreateCase` |
| `AskQuestion`, `RecordQuestion` | `threadcaseHost.AskQuestion` |
| `ReportFallback`, `ReleaseClaim`, `FailRoot` | `threadcaseHost.ReportFallback` |
| `CallFails`, `Crash`, `HandlerFails`, `HandlerLost` | the error branches; the death of an instance |

The Process is its status, subject and key: that at most one open Process holds a
subject and that a key starts one for ever is what `AgentProc` establishes. Of a
Session the model keeps the id, the reaction and the pending question. Turns on a
thread that is a case already, threads of the workspace agent, and the
conversation handed to the agent are left out. A reaction in the monitored channel
itself behaves like a post.

### CaseLifecycle

A *call* of the use case walks through `pc` with `held`, its copy of the Case, and
`base`, the Case as it last saw it; a Case is its status, home, board status, request
key and assignees. `mode` is the workspace's, channel or thread.

| Action | Code |
|---|---|
| `CreateCase`, `FindRequest`, `MissRequest`, `PostRoot`, `TakeId`, `StoreCase`, `Undo` | `createChannelModeCase`, `createThreadModeCase`, `persistCase` and the repository's `Create` |
| `CreateDraft`, `SubmitDraft`, `Activate`, `ReadBack`, `Cleanup`, `Publish` | `CreateDraft`, `SubmitDraft` with its flip, binding and rollback, `publishLifecycle` |
| `UpdateCase`, `UpdateAgentSettings`, `SyncChannelUsers`, `MaterializeThreadCase`, `CloseCase`, `ReopenCase`, `UpdateCaseStatus` | the use cases of these names: read, check, change the copy |
| `CheckExists`, `SetDoc` | the repository's `Update`: a read and a blind `Set` |
| `BeginAssign`, `Assign` | `AssignCase`, `UnassignCase` over `Transact` |
| `BeginRemove`, `Remove` | `DiscardDraft`, `DeleteCase` |
| `AfterFailure`, `AfterLostResponse`, `Continue` | what a call does when a write failed, was stored but reported as failed, or went through |
| `Die` | the death of an instance |

`want` and `stale` are histories: what the assignments made of the list, and the
cases over which a call stored a copy that was out of date.

### Proposal

A call is an event or a click; the draft a mention makes and the turn a call starts
go by its name. `req[c]` is what it has read, `hpc[t]` and `hcopy[t]` where the
completion handler of turn `t` is and the draft as it read it.

| Action | Code |
|---|---|
| `Mention`, `Claim`, `Associate`, `Discard` | `HandleAppMention`, `claimDraftSession`, `discardDraft` |
| `Reply`, `Reload`, `LoadDraft` | `shouldResumeOnReply`, `HandleThreadReply` |
| `HandleQuestionSubmit`, `ClearQuestion` | the form of a question |
| `CheckStarted`, `Spawn` | `Durable.StartTurn`: the idempotency key, the thread's subject |
| `HandleSelectWorkspace`, `Lock`, `FindSession`, `Restore` | the workspace selector |
| `HandleSubmit`, `CreateCase`, `HandleEdit`, `HandleEditSubmit`, `HandleCancel`, `Delete` | the buttons of the preview and the edit modal |
| `Finish` | the Process ends; `onFinish` branches |
| `Materialize`, `ReloadDraft`, `Show`, `SavePreview`, `AssociateShown` | `slackDraftHandler.Materialize` |
| `PostForm`, `RecordQuestion`, `Fallback`, `Unlock`, `EndSession` | the other outcomes, `unlockDraft`, `endSession` |

### PlanExec

One run with its sub-agents. `st` is the checkpointed `state` of the strategy,
`conv` the shape of the committed conversation (who spoke last, how many of the
model's calls nobody answered), `proc` the Process, `kids` the sub-agents of the
round with a conversation each, `awaits` what the run waited for, `heard` which
observations and answers a model was sent. Each phase is one action, which includes
everything the `Step` function does in it; the model's reply is any of those the
schemas let through, and those `parsePlanResult` and its kin refuse.

| Action | Code |
|---|---|
| `StepPlan`, `StepPlannerTool`, `StepCollect`, `StepReplan`, `StepAnswer`, `StepFinal` | the strategy's functions of these names |
| `LaunchRound`, `LaunchDirect`, `AskAndWait`, `DivertToTools`, `AppendObservations`, `CarryCorrection` (operators) | what those functions call |
| `ChildCallsTools`, `ChildAnswers`, `ChildTool`, `ChildFails` | `agent/react`: generate, run tools, answer, fail |
| `Told`, `Limit`, `RunLimit` | `Step`'s notice, `Config.Limiter`, `Root.Limiter` |
| `Respond`, `TransitionFails`, `Stopped` | agentkit: an answer, a failed attempt, the budget's stop |

`Launch` lists the hosts' configurations: a Job with and without questions, a turn
of a thread, a create turn. agentkit commits the state, the conversation and the
children of a transition together, and delivers the results of children once.

### ActionBoard

A call walks through `pc` with `job`, the document as it read it and as it writes
it, and `seen`, its copy of the slot. One Action with one step, one channel.

| Action | Code |
|---|---|
| `CreateAction`, `UpdateAction`, `ArchiveAction`, `UnarchiveAction`, `PostSlackMessageToAction` | the use cases in `action.go` |
| `AddStep`, `SetDone`, `Rename`, `DeleteStep`, `Comment` | `action_step.go`, `action_comment.go` |
| `Create`, `Write`, `Record` | the repositories' `Create`, `Update`, `Put`; the events of a change |
| `PostCard` | the Action's own message and the save of its timestamp |
| `GetActive`, `PostSlot`, `UpdateSlot`, `SaveSlot`, `DropSlot` | `enqueueChannelLine`, `postNewSlot`, `updateExistingSlot` |
| `Expire`, `DeleteMessage`, `Die` | time; a user of Slack; the death of an instance |

Histories: `stale` (a copy out of date was stored), `unrecorded` (an event could not
be recorded), `overlaps` (calls that met at the slot), `kept` (lines saved while
nobody else was at the slot), `lost` (the deleted message that swallowed a line).

## 3. What is checked

| Run | Question | Result |
|---|---|---|
| `AgentProc_store` | Do guards, fences, answers and event numbers survive two instances racing over two Processes, with one crash or overrun? Does the store implement the registry? | holds |
| `AgentProc_live` | Does a Process that can go on get on? | holds |
| `JobSlot` | Two claims, one slot, clocks one unit apart, two failures: do the slots implement `SlotPool` and so keep the limit, does a healthy run keep its slot, and does a claim get in though runs crash or never end? | holds |
| `JobRun_races` | Two triggers, a form, the sweep, one fault: do logs have owners, are successes true, does an open question keep its slot? | holds |
| `JobRun_live` | Is a late submission harmless, and do lease and marker always come free? | holds |
| `ThreadCase_races` | Two reactions, two clicks, one fault: one case per message and thread, no answer forgotten, claims given back? | holds |
| `CaseLifecycle` | Any three calls on two cases, two faults: does a rollback leave a draft unbound, does an OPEN case get its home, do edits keep assignees, does a redelivered form make no second case? | holds |
| `Proposal` | Three events or clicks in a thread: one turn at a time, its result in its own draft, no lock without a reason? | holds |
| `PlanExec` | Any run of rounds, tools, questions and retries: well-formed requests, informed conclusions, bounded spending, an end? | holds |
| `ActionBoard` | Three calls on an Action, one dead call, one deleted or expired message: does the feed add up, do lines stay, does the next line start afresh? | holds |
| `ThreadCase_turns` | Is there one turn at a time in a thread, as `docs/operations.md:600` says? | violated |
| `CaseLifecycle_assign` | Do assignments survive concurrent edits, as `usecase/case.go:987` says? | violated |

Further configurations are kept here and not listed in `PROJECT.json`. Run them as
`tlc -config MCX_y.cfg MCX`:

| Configuration | Checks | Result |
|---|---|---|
| `MCAgentProc_more` | `KeyGuardExact`, `RunsBounded`, `NobodyWaitsForNothing`, `EventsNumbered`, `ViewsAgree` | holds |
| `MCJobSlot_gate` | the safety of slots for three claims and two slots | holds |
| `MCJobSlot_more` | `NobodyEvicted`, `NoSlotPinned` | holds |
| `MCCaseLifecycle_more` | `ClosedOncePerClosing`, `LegalMoves` | holds |
| `MCProposal_more` | `RefusedIsNotTheThreads`, `ContentFits` | holds |
| `MCPlanExec_more` | `AwaitsAreFresh` | holds |
| `MCJobRun_busy`, `MCJobRun_resumed`, `MCJobRun_unanswered`, `MCThreadCase_retry`, `MCCaseLifecycle_board`, `MCProposal_submit`, `MCPlanExec_answer`, `MCPlanExec_trail` | statements of the code about itself, below | violated |

### The disagreements

Listed runs:

1. **`ThreadCase_turns`.** `loadOrCreateSession` reads and `persistCreateSession`
   overwrites; nothing claims the Session before the spawn. Two first mentions of a
   thread get two ids, two subjects and two turns at once, and both may store a
   case. `OneCasePerThread` is therefore checked without mentions, where every
   trigger of a thread is a consequence of the one before it. (`Proposal`, whose
   mentions do claim the Session, has one turn per thread.)
2. **`CaseLifecycle_assign`.** `case.go:987-990` says that assignments share one
   race-free path and no edit can clobber them. They do, but `UpdateCase` and the
   other edits store the whole case as they read it, the old assignees included.

Of the further configurations:

3. **`JobRun_busy`** (`runner.go:643`: a busy subject cannot reach the spawn). The
   completion handler of the run before clears the lease of the trigger after it.
   Two triggers then pass `alreadyLive`; one spawns, the other records a failed run.
4. **`JobRun_resumed`** (`scanner.go:210`: a resumed run is left untouched).
   `Resume` on the durable path never clears `SuspendedRunID`, so when the timeout
   counted from the question passes while the answered run is working, the sweep
   fails its log.
5. **`JobRun_unanswered`** (`runner.go:226`: the Job is not blocked forever). Timing
   out a question fails the log and clears the marker but does not end the Process
   that waits, and it holds the subject.
6. **`ThreadCase_retry`** (`threadcase_durable.go:108`: a pending question is a flow
   that waits). A mention retires the form but not `PendingQuestion`. If the
   mention's turn comes to nothing, the fallback leaves the claim and the root as
   they are, for an answer that cannot come.
7. **`CaseLifecycle_board`** (`domain/model/case.go:60`: the lifecycle status is kept
   in sync with the board). A draft moved to a closed column stays a DRAFT; its
   submission makes it OPEN, binds it to a thread and leaves the board status.
8. **`Proposal_submit`** (`slack_mention_interaction.go:184`: a lock prevents double
   submits). Two clicks both read the draft unlocked, and make a case each.
9. **`PlanExec_answer`** (`strategy.go:749`: an answer is folded into the next
   planning round). An answer that arrives when the budget's notice is due is
   dropped: the wrap-up replaces the input of that turn.
10. **`PlanExec_trail`** (`strategy.go:1125`: a note replaces a dropped round). The
    note is put on the oldest round that stays, and goes with it when that one is
    dropped next.

Met while modelling, without a run of their own:

- Two closers of a case each announce `CaseClosed` when both read it open.
- An edit that read a case before its deletion and checked that it exists writes it
  back; an `Update` that was stored and reported as failed leaves an OPEN case
  without a home, for `SubmitDraft` then returns without its rollback.
- `domain/model/case_proposal.go:49-51` speaks of interactions being refused while a
  draft is materialised; turns from replies and answered questions do not lock it.
- A question asked for a draft is answered into the Session's active draft, which
  may be a later one; the first then stays locked. A preview is saved as its handler
  read it, so it can restore a lock. A reply that finds the thread busy is dropped
  after its question was cleared.
- `fix_unsent_action.go:42-45` counts on `ErrSlackMessageAlreadyPosted` to catch a
  concurrent post; two that both passed the check make two cards.
- The asker's form is posted inside a transition, so a retried one posts it again.
- `import.go:165-166` says that the first failure halts the loop and skips the rest;
  the loop goes on.

### Bounds, and why they are enough

- *AgentProc*: two Processes are needed for two inserts of one change set and for
  a successor on a freed subject; two instances for every race of the store, which
  decides between one writer and whoever changed the row first. `MaxRev = 3`
  makes a third revision's transition terminal: insert, claim, commit, reclaim,
  commit all occur, and asking, answering and ending a Process fit. `MaxFaults`
  counts crashes and overruns. `MaxUncleanReclaims = 0` is the value of
  `NoDuplicateSideEffects`. Liveness is checked without events and keys, which do
  not enter into what is claimable; there `MaxRev` also stands for the fact that
  a strategy takes finitely many steps.
- *JobSlot*: one claim more than there are slots gives a loser that takes over a slot;
  `TTL = 3`, `RenewInterval = 1` are the proportions of `job_runtime.go`, and
  `MaxHold = 3` lets the heartbeat's deadline pass. One unit of skew is the most
  `ClockAssumption` allows there. `JobSlot` has two claims and one slot, for its
  liveness; `MCJobSlot_gate` has three and two.
- *JobRun*: two triggers, one submission and the sweep are every pair of writers
  of a log; one question and one fault. `JobRun_live` takes two submissions of
  one form, `MCJobRun_busy` three triggers, as the disagreement needs them.
- *ThreadCase*: two reactions race for one claim, and the second retries after the
  first is given back; one question with two clicks covers the double submission
  and a follow-up turn; one fault. Mentions occur in the violating runs only, which
  need no fault. A failed call is one that took no effect: a write that is stored
  and still reported as failed is not modelled.
- *CaseLifecycle*: three calls are a submission, one that interferes and one that
  interferes with its rollback; two cases and one request key give a form its own
  case and somebody else's. Two faults: a step fails and so does its undoing. One
  user is enough for an assignee to be lost or to come back.
- *Proposal*: `MaxEvents` counts calls, failed steps and lost handlers together, so
  three mentions race or one of two calls fails. Two workspaces make a switch; a
  draft with a preview is there from the start, so that clicks need no turn first.
- *PlanExec*: two tasks a round, two tool calls a turn, one correction, one retried
  attempt and one failed transition; ten steps hold a planning round, its children,
  a question or a second round, the notice and the final turns. The trail holds two
  entries, so the third drops one. Prices and tokens are steps: `Limit` compares
  each of them in the same way.
- *ActionBoard*: three calls at one slot are a reader, a writer and a late one; two
  entries make the cap bite; one message is lost or expires, one call fails or dies.
  One Action: calls on different ones meet only at the slot, where Actions do not
  matter.
- Symmetry is used where a run states no liveness and its cfg says SYMMETRY.

### Fairness

- *AgentProc*: the worker loop polls as long as the program runs, tries its
  candidates, and finishes what it claimed (`Poll`, `Claim`/`SkipCandidate`,
  `Commit`, `Answer`), and time passes (`ComesDue`). There is none on `Spawn`,
  `Progress`, `ReadQuestion` or faults: nobody has to start or answer anything.
- *JobSlot*: time, the heartbeat and the worker's repeated claims; none on
  `Release`: a run need never end.
- *JobRun*: an actor that is under way goes on or crashes, a Process ends or
  waits, a handler finishes or is lost, the scheduler ticks, time passes; none on
  `Trigger`, `Ask`, `Submit`.
- *ThreadCase*: what was delivered is carried on unless it fails, a turn ends (every
  run has a step limit), its handler goes on unless it is lost; none on `Deliver`:
  nobody has to react, mention or answer.
- *PlanExec*: a transition that can run is run (`RunStep`, `ChildStep`: what
  `NoProcessStalls` gives), none on `Respond`: a run that waits for a human may
  wait for ever, and `RunEnds` says so.
- *CaseLifecycle*, *Proposal*, *ActionBoard* state safety only: what their calls do not
  finish nobody takes up again, so there is nothing they must reach.

All fairness is weak: every loop in the code retries on its own ticker.

## 4. What is proved

Eight modules hold the proofs, each extending the module it is about. A theorem holds
for every value of the constants that satisfies the module's assumptions: any number
of instances, calls, triggers, threads, drafts or tasks, any ceilings, any number of
faults. The runs of section 3 show the same properties on small instances, where
TLC also confirmed every inductive invariant before it was proved.

| Module | Theorem | States |
|---|---|---|
| `AgentProcProofs` | `TypeCorrect`, `SubjectsExclusive`, `KeysExclusive`, `ReadsHold` | `TypeOK`, `SubjectGuardExact`, `KeyGuardExact`, `ViewsAgree` always |
| | `LookupExact` | `FindOpenProcessBySubject` finds the open Process of a subject exactly if there is one |
| | `OneCommits` | at most one instance can still commit a transition |
| | `EndedStays`, `AnswerStays` | no step rewrites an ended Process, or replaces an answer |
| | `RunsAreBounded`, `WaitersAsk`, `EventsInOrder` | `RunsBounded`, `NobodyWaitsForNothing`, `EventsNumbered` always |
| | `Refinement` | the store implements `ProcessRegistry` |
| `JobSlotProofs` | `TypeCorrect`, `LimitKept` | `TypeOK`, `CoveredWithinLimit` always |
| | `HealthyKeep` | `HealthyRunKeepsSlot` always |
| | `Eviction` | `NobodyEvicted`: a late renewal or release costs nobody a slot |
| | `Refinement` | the slots implement `SlotPool` |
| `JobRunProofs` | `TypeCorrect`, `OutcomesTrue`, `RunningLogsOwned`, `QuestionsKeepSlot`, `LateSubmits` | `TypeOK`, `SuccessIsTrue`, `RunningLogHasOwner`, `OpenQuestionKeepsItsSlot`, `LateSubmitIsHarmless` always |
| | `OutcomesStay` | a Process that ended stays as it ended |
| `ThreadCaseProofs` | `TypeCorrect` | `TypeOK` always |
| | `PlainOneCase`, `ThreadsOneCase` | a thread with one first trigger becomes one case; without mentions that is `OneCasePerThread` |
| | `ReactionsOneCase`, `AnswersResume` | `OneCasePerReaction`, `AnswerResumes`, under hypotheses about mentions (below) |
| `CaseLifecycleProofs` | `TypeCorrect`, `DraftsUnbound`, `OpenCasesHomed`, `AssigneesStay`, `RedeliveryHarmless` | `TypeOK`, `DraftUnbound`, `OpenHasHome`, `AssignmentsKept`, `RedeliveryMakesNoCase` always |
| | `MovesLegal` | `LegalMoves` |
| | `ClosingsHeardOnce` | `ClosedOncePerClosing` always |
| `ProposalProofs` | `TypeCorrect`, `TurnsExclusive`, `ResultsAtHome`, `LocksExplained` | `TypeOK`, `OneTurnPerThread`, `ResultInOwnDraft`, `LockHasReason` always |
| | `ContentInPlace`, `RefusedStayOut` | `ContentFits`, `RefusedIsNotTheThreads` |
| `PlanExecProofs` | `TypeCorrect`, `RequestsTaken`, `ConclusionsInformed` | `TypeOK`, `RequestsWellFormed`, `ConclusionsAreInformed` always |
| | `SpendBounded` | `SpendIsBounded` always |
| | `AwaitsNew` | `AwaitsAreFresh` |
| `ActionBoardProofs` | `TypeCorrect`, `FeedAccounts`, `SavedLinesStay`, `DeletedMessageIsMetOnce` | `TypeOK`, `FeedBalances`, `LinesStay`, `NextStartsAfresh` always |

Each module also has a theorem `Invariance`, `Spec => []IInv`, from which the others
follow.

### Assumptions

Every module assumes that its bounds are naturals and that `None` is not one of the
things it stands beside; what else is assumed:

- *`None` and documents* (`NoneAssumption` in `CaseLifecycle`, `Proposal`, `PlanExec`,
  `ActionBoard`; `ReaderAssumption` in `JobRun`): the value that stands for an absent
  document is no document, and the names of those who hold copies are distinct. The
  code has `nil` and pointers; TLA+ has to be told.
- *Clocks* (`ClockAssumption` in `JobSlot`): clocks differ by less than what a heartbeat
  leaves of the TTL. The code relies on it and does not check it. `LimitKept` and
  `HealthyKeep` are false without it.
- *Mentions* (`ThreadCase`). `ThreadsOneCase` and `AnswersResume` assume that nobody
  mentions the bot; `ReactionsOneCase` that mentions, if there are any, are in a thread
  that a post opened. Without these hypotheses TLC finds all three violated on small
  instances, in the way `ThreadCase_turns` shows: two mentions make two cases, and a
  form answered before a mention supersedes its question starts no turn. `PlainOneCase`
  has no hypothesis; it is about the threads without mentions, wherever else they are.

### The arguments

*AgentProc.* `IInv` is `TypeOK`, `SubjectGuardExact`, `KeyGuardExact` and `ViewsAgree`. The
guards' exactness is not inductive alone: a commit writes the row *as the instance
read it*, so deleting the subject guard is right only if the key and subject it read
are those stored. `ViewsAgree` supplies that: what an instance read is what the
store holds, as long as the revision is the same. `WellFormed(cs)` collects what the
proof needs of a change set; each action of the kernel is shown to send only such
change sets, and `Write` of any accepted one to keep each conjunct. `OneCommits` needs
that a claim raises the revision. `Refinement` maps the rows to
who holds a subject, who was ever started under a key, and who ended; a step of the
store is a start, an end or a stutter, and a start finds its subject free and its key
fresh because the guards it checked are exact. The three bounds on a row come from
invariants of their own: its runs are at most one more than its unclean reclaims, and
none unless it runs; who waits without a deadline has asked; and the events of two
batches are counted as many as both together, so the next number is the count.

*JobSlot.* `told[r]` is what a run knows of its record. `RecordsTold` ties the two, and
says that a record is of one run; `CoveredHold` that a run some clock sees as covered
holds its record; `InTime` that while no renewal fails, what is left of the record
grows with what the ticker has run down. The limit follows from an injection of the
covered runs into the indices. For `Refinement`, what a step does to the set of
admitted runs is said once for each kind of step: taking a slot and renewing late add
a run whose slot no covered run was at, so `Limit` of them were not there before;
a tick only lets holds lapse.

*JobRun.* Nothing fences the log or the `JobRun`, so `IInv` is about what each actor's copy
says at each of its steps. `Owned` strengthens `RunningLogHasOwner` from "somebody is
there" to "somebody who will be able to write"; `SuccessHeld` says of every copy what
`SuccessIsTrue` says of the documents; `AnswersOnce` follows a question from parked to
delivered, since a submission checks one document and answers by another. `LeaseHeld`
and `Judged` hold until a lease is stolen, and say what goes wrong then.

*ThreadCase.* A Session id names the delivery that made it, so the thread of everything
that is read, stored or running is known (`SessionsOwn`, `OneTurn`). A chain of question
and answer has one active link: only the question of a turn that is over is pending
(`PendingWaited`), and below a turn there are only such turns (`BelowWaited`). Hence a
chain makes one case. For reactions `ClaimOrQuiet` is added: a reaction that no longer
holds the claim has a chain where nothing can happen any more.

*CaseLifecycle.* `CallKnows` says of `held` and `base` what a call may rely on at each of its
steps; a blind write is harmless as far as it goes. `HomesComing` is more than `OpenHasHome`:
a case closed without a home may be reopened, so it is about closed ones too. `IdsFresh`
and `PriorKnown` carry a request key from one delivery to the next. For
`ClosedOncePerClosing` the invariant `Closings` counts: the calls that announced a
closing or are about to are at most the reopenings, and one more while the case is
closed or gone (`Shut`). Without a stale write each step that moves one side moves the
other.

*Proposal.* There is one subject in a thread, the id of the Session that was first
(`IsSubject`); copies and handlers carry results of the turn they belong to
(`OwnResult`), so a save of an old copy puts nothing where it does not belong. `LockHasReason`
needs a second invariant, about who owns a draft (`OwnersKnown`) and what a locked
draft waits for (`LocksReasoned`).

*PlanExec.* `Shape` says what a checkpoint of each phase comes with, `Talk` and
`ChildrenTalk` that state and conversation agree: the calls nobody answered are those
the run still has to make. `KeysPast` orders awaits by rounds, which makes the next one
new. `AnswersComing` has, for each answer, where it is on its way to the model, and its
one exception is `st.wrap`: the disagreement 9 above. `SpendBounded` reckons every
working child with its whole ceiling (`Spending`): a launch finds the run short of its
notice and adds at most `MaxTasks` such children, and a child that ends gives the run no
more than it was reckoned with. What children did take (`Unfolded`) is stated as the
number of pairs of a child and a step of it, so that comparing the two takes facts
about finite sets and no induction.

*ActionBoard.* Of each kind of event the feed, with the events that are about to be
recorded (`Due`), is a path from the first value of a field to the last (`Balances`). A
write and its record both keep it, in whatever order those of different calls
come; the field's own value never has to be looked at. In the channel, `Lines` says
of every message and every copy of the slot (`Views`) that it shows each line once;
`Alone` what a call that met nobody knows; `Kept` that lines are kept in order and the
older makes room first, in all views at once, because a view may be written back
later. `Losses` follows a deleted message until its slot is dropped.

The larger proofs go by groups of variables: a relation says how any step changes a
group (`Moves` and `ChannelStep` in `ActionBoard`, for instance), it is proved once from
all the actions, and the parts of the invariant are proved from the relations.

Proving changed the models in three places. In `Proposal` the alternatives of a turn's
end overlapped in one `CASE`, which leaves the choice open; `HandlerFor` has them apart,
as the code's switch does. In `ActionBoard` a comment whose call failed was counted as
a change without an event, which made `FeedBalances` weaker than meant: comments have
no events. In `PlanExec` `Unfolded` was a fold and is a cardinality, and `TaskListOk`
says that a task list is finite, as a slice is.

### What stays with TLC

- Liveness: `NoProcessStalls`, `WaitingIsAdmitted`, `ClaimSettles`, `SlotComesFree`,
  `RunEnds`, `NoSlotPinned`. Fairness and `ENABLED` are outside the prover's reach.
- The violated runs, which are about instances.

## 5. Not modelled

The components table of `PROJECT.json` names the reason for each. In short:
transport, rendering, configuration and single-document storage keep no protocol;
agentkit and Firestore are external and appear as what the code asks of them and
relies on (a Firestore transaction is one atomic step); the in-memory
repositories are a second implementation for tests. Some 34,000 lines are
generated GraphQL code and its resolvers.

Of the modelled parts: field values and their validation, access rules, private
cases, invitations, bookmarks and welcome posts of a case; the deletion of what
hangs on a deleted case (an Action created meanwhile is left behind, see
`case.go:1338`); texts, prompts and progress messages of a run; assignees, due
dates, and edits and deletions of comments of an Action; the expiry of drafts after
a day. In `PlanExec`, a plan of more tasks than a round takes (the schema's
validation refuses it first), nil calls and a missing await cannot happen and have
no action.

## 6. Plan

In order of weight:

1. `ThreadCase`: turns on a thread that is a case (`HandleThreadCaseMention`) and the
   mention cursor.
2. `Import`, `RunTrace.AppendNext`, `AuthCache`, `SlackUserRefresh`: a loop with its
   status written last, numbering, and caches against writers.
3. `Schedule`: `IsDue` and the cron arithmetic as functions, checked against a
   reference definition over bounded inputs; the tick's drain.
4. `JobRun`: runs for an answer delivered to a later question and for an answer that
   overtakes the wait, as the hazards list them.

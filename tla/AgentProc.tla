----------------------------- MODULE AgentProc -----------------------------
(***************************************************************************)
(* The durable store of agent Processes: Repository in                     *)
(* pkg/repository/agentproc/firestore.go, driven by the agentkit kernel.   *)
(*                                                                         *)
(* A Process row is claimed by one instance at a time, worked on outside   *)
(* any transaction, and written back by a ChangeSet that is accepted only  *)
(* if the row still has the revision it was read at.  Two guard documents  *)
(* per row keep the idempotency key and the subject unique.  Every         *)
(* operation of the store is one transaction and so one step; the reads    *)
(* and the work between two transactions are separate steps, and any other *)
(* instance's transaction may come in between.                             *)
(*                                                                         *)
(* Instants are abstracted: of LeaseUntil and WakeAt a row keeps whether   *)
(* they are set, and due[p] says whether the instant p's ClaimAt names has *)
(* passed.  The kernel itself (agentkit) is not part of this repository;   *)
(* the actions of the last section model what it asks of the store.        *)
(***************************************************************************)
EXTENDS Naturals, Sequences, FiniteSets

CONSTANTS Procs,       \* process ids
          Keys,        \* idempotency keys
          Subjects,    \* subjects
          Actors,      \* instances of the program, each running the kernel
          AwaitKeys,   \* the questions a process may wait for
          EventIDs,    \* ids of timeline events
          None,        \* absence of a key, subject, process or question
          MaxUncleanReclaims,  \* WithMaxUncleanReclaims of the kernel
          MaxRev,      \* bound: from this revision on, a transition is terminal
          MaxFaults    \* bound: crashes and overrun leases in a behaviour

ASSUME ConstantsAssumption ==
  /\ None \notin Procs \cup Keys \cup Subjects \cup AwaitKeys
  /\ {"none", "open"} \cap Actors = {}
  /\ MaxUncleanReclaims \in Nat /\ MaxRev \in Nat /\ MaxFaults \in Nat

VARIABLES
  rows,           \* process id -> its Process; Rev 0 is a row not stored
  due,            \* process id -> has the instant in its ClaimAt passed?
  keyGuards,      \* key -> the process its guard document names, or None
  subjectGuards,  \* subject -> likewise
  awaits,         \* process id -> question -> "none", "open" or who answered
  events,         \* the stored event rows
  eventSeq,       \* process id -> EventSeq of its row
  views,          \* actor -> what it read from the store and works on
  ran,            \* history: process id -> times the current step was run
  appended,       \* history: the events accepted, in the order of acceptance
  faults          \* crashes and overruns so far

stored == <<rows, due, keyGuards, subjectGuards, awaits, events, eventSeq>>
vars == <<stored, views, ran, appended, faults>>
-----------------------------------------------------------------------------
Terminal == {"completed", "failed"}
Status == {"pending", "running", "waiting"} \cup Terminal

Process == [status : Status, key : Keys \cup {None},
            subject : Subjects \cup {None}, lease : BOOLEAN, wake : BOOLEAN,
            unclean : Nat, rev : Nat]

NewProcess(key, subject) ==
  [status |-> "pending", key |-> key, subject |-> subject,
   lease |-> FALSE, wake |-> FALSE, unclean |-> 0, rev |-> 0]

Absent == NewProcess(None, None)

\* A view is what an actor holds in memory between two transactions.
View == [doing : {"idle", "polling", "working", "answering"},
         cands : SUBSET Procs, pid : Procs \cup {None}, row : Process,
         await : AwaitKeys \cup {None}]

Idle == [doing |-> "idle", cands |-> {}, pid |-> None, row |-> Absent,
         await |-> None]

Exists(p) == rows[p].rev > 0
IsOpen(p) == Exists(p) /\ rows[p].status \notin Terminal

TypeOK ==
  /\ rows \in [Procs -> Process]
  /\ due \in [Procs -> BOOLEAN]
  /\ keyGuards \in [Keys -> Procs \cup {None}]
  /\ subjectGuards \in [Subjects -> Procs \cup {None}]
  /\ awaits \in [Procs -> [AwaitKeys -> {"none", "open"} \cup Actors]]
  /\ events \subseteq [pid : Procs, id : EventIDs, seq : Nat]
  /\ eventSeq \in [Procs -> Nat]
  /\ views \in [Actors -> View]
  /\ ran \in [Procs -> Nat]
  /\ appended \in Seq([pid : Procs, id : EventIDs])
  /\ faults \in Nat

Init ==
  /\ rows = [p \in Procs |-> Absent]
  /\ due = [p \in Procs |-> FALSE]
  /\ keyGuards = [k \in Keys |-> None]
  /\ subjectGuards = [s \in Subjects |-> None]
  /\ awaits = [p \in Procs |-> [k \in AwaitKeys |-> "none"]]
  /\ events = {}
  /\ eventSeq = [p \in Procs |-> 0]
  /\ views = [a \in Actors |-> Idle]
  /\ ran = [p \in Procs |-> 0]
  /\ appended = << >>
  /\ faults = 0
-----------------------------------------------------------------------------
(***************************************************************************)
(* Claiming.                                                               *)
(***************************************************************************)

\* Faulty: a running row is never offered again, its lease expired or not.
ClaimAtForgetsRunning(row) ==
  CASE row.status \in Terminal \cup {"running"} -> "never"
    [] row.status = "waiting" /\ ~row.wake -> "never"
    [] row.wake -> "later"
    [] OTHER -> "immediately"

\* From when a row may be claimed: never, at once, or at the instant it names.
ClaimAt(row) ==
  CASE row.status \in Terminal -> "never"
    [] row.status = "running" -> IF row.lease THEN "later" ELSE "immediately"
    [] row.status = "waiting" -> IF row.wake THEN "later" ELSE "never"
    [] OTHER -> IF row.wake THEN "later" ELSE "immediately"

Claimable(p) ==
  /\ Exists(p)
  /\ \/ ClaimAt(rows[p]) = "immediately"
     \/ ClaimAt(rows[p]) = "later" /\ due[p]

\* Faulty: taking over a running row does not count as an unclean reclaim.
ClaimedUncounted(row) ==
  [row EXCEPT !.status = "running", !.lease = TRUE, !.wake = FALSE,
              !.rev = @ + 1]

\* Faulty: the claim keeps the row's revision.
ClaimedSameRev(row) ==
  [row EXCEPT !.status = "running", !.lease = TRUE, !.wake = FALSE,
              !.unclean = IF row.status = "running" THEN @ + 1 ELSE @]

\* Faulty: every clean claim takes one unclean reclaim off the count.
ClaimedForgiven(row) ==
  [row EXCEPT !.status = "running", !.lease = TRUE, !.wake = FALSE,
              !.unclean = IF row.status = "running" THEN @ + 1 ELSE @ - 1,
              !.rev = @ + 1]

\* The row as a claim leaves it.
Claimed(row) ==
  [row EXCEPT !.status = "running", !.lease = TRUE, !.wake = FALSE,
              !.unclean = IF row.status = "running" THEN @ + 1 ELSE @,
              !.rev = @ + 1]

\* The query half of ClaimNextProcess: a snapshot of the claimable rows.
Poll(a) ==
  /\ views[a].doing = "idle"
  /\ \E p \in Procs : Claimable(p)
  /\ views' = [views EXCEPT ![a] =
       [Idle EXCEPT !.doing = "polling",
                    !.cands = {p \in Procs : Claimable(p)}]]
  /\ UNCHANGED <<stored, ran, appended, faults>>

\* The transaction half: the candidate is read again and taken if it is still
\* eligible.  The kernel then runs the transition, unless the row was already
\* abandoned too often.
Claim(a, p) ==
  /\ views[a].doing = "polling" /\ p \in views[a].cands
  /\ Claimable(p)
  /\ rows' = [rows EXCEPT ![p] = Claimed(@)]
  /\ due' = [due EXCEPT ![p] = FALSE]
  /\ views' = [views EXCEPT ![a] =
       [Idle EXCEPT !.doing = "working", !.pid = p, !.row = Claimed(rows[p])]]
  /\ ran' = [ran EXCEPT ![p] =
       IF Claimed(rows[p]).unclean <= MaxUncleanReclaims THEN @ + 1 ELSE @]
  /\ UNCHANGED <<keyGuards, subjectGuards, awaits, events, eventSeq,
                 appended, faults>>

Without(v, p) ==
  IF v.cands = {p} THEN Idle ELSE [v EXCEPT !.cands = v.cands \ {p}]

\* The candidate was taken or moved on: try the next, give up after the last.
SkipCandidate(a, p) ==
  /\ views[a].doing = "polling" /\ p \in views[a].cands
  /\ ~Claimable(p)
  /\ views' = [views EXCEPT ![a] = Without(@, p)]
  /\ UNCHANGED <<stored, ran, appended, faults>>
-----------------------------------------------------------------------------
(***************************************************************************)
(* Apply: one ChangeSet, evaluated and written in one transaction.  cs is  *)
(* a record: guards (revisions to hold), procs (process id -> row to write *)
(* with the revision it was read at), answers (the awaits to write) and    *)
(* events (in order).                                                      *)
(***************************************************************************)
Inserts(cs) == {p \in DOMAIN cs.procs : cs.procs[p].rev = 0}

\* Two inserts of one ChangeSet may not share a key or a subject.
ChangeSetUnique(cs) ==
  \A p, q \in Inserts(cs) : p # q =>
    /\ cs.procs[p].key = None \/ cs.procs[p].key # cs.procs[q].key
    /\ cs.procs[p].subject = None \/ cs.procs[p].subject # cs.procs[q].subject

RevsHeld(cs) ==
  /\ \A g \in cs.guards : Exists(g.pid) /\ rows[g.pid].rev = g.rev
  /\ \A p \in DOMAIN cs.procs : rows[p].rev = cs.procs[p].rev

GuardsFree(cs) ==
  \A p \in Inserts(cs) :
    /\ cs.procs[p].key # None => keyGuards[cs.procs[p].key] = None
    /\ cs.procs[p].subject # None => subjectGuards[cs.procs[p].subject] = None

\* Every event has a process to be appended to and an id not used before.
EventsAppendable(cs) ==
  \A i \in DOMAIN cs.events :
    /\ Exists(cs.events[i].pid) \/ cs.events[i].pid \in Inserts(cs)
    /\ \A e \in events : <<e.pid, e.id>> # <<cs.events[i].pid, cs.events[i].id>>
    /\ \A j \in DOMAIN cs.events : cs.events[i] = cs.events[j] => i = j

\* Faulty: two inserts of one ChangeSet are not compared with each other.
AcceptsTwins(cs) == RevsHeld(cs) /\ GuardsFree(cs) /\ EventsAppendable(cs)

\* Faulty: a row is overwritten whatever its revision.
AcceptsStale(cs) ==
  /\ ChangeSetUnique(cs) /\ GuardsFree(cs) /\ EventsAppendable(cs)
  /\ \A p \in DOMAIN cs.procs : Exists(p) <=> cs.procs[p].rev > 0

Accepts(cs) ==
  /\ ChangeSetUnique(cs)
  /\ RevsHeld(cs)
  /\ GuardsFree(cs)
  /\ EventsAppendable(cs)

RowsAfter(cs) ==
  [p \in Procs |-> IF p \in DOMAIN cs.procs
                   THEN [cs.procs[p] EXCEPT !.rev = @ + 1]
                   ELSE rows[p]]

\* Faulty: the key is given back when its process ends.
KeyGuardsReleased(cs) ==
  [k \in Keys |->
     IF \E p \in Inserts(cs) : cs.procs[p].key = k
     THEN CHOOSE p \in Inserts(cs) : cs.procs[p].key = k
     ELSE IF \E p \in DOMAIN cs.procs : /\ cs.procs[p].key = k
                                        /\ cs.procs[p].status \in Terminal
     THEN None ELSE keyGuards[k]]

KeyGuardsAfter(cs) ==
  [k \in Keys |-> IF \E p \in Inserts(cs) : cs.procs[p].key = k
                  THEN CHOOSE p \in Inserts(cs) : cs.procs[p].key = k
                  ELSE keyGuards[k]]

\* Faulty: the commit that ends a process leaves its subject guard behind.
SubjectGuardsKept(cs) ==
  [s \in Subjects |-> IF \E p \in Inserts(cs) : cs.procs[p].subject = s
                      THEN CHOOSE p \in Inserts(cs) : cs.procs[p].subject = s
                      ELSE subjectGuards[s]]

\* Set by the insert, deleted by the write that makes the row terminal.
SubjectGuardsAfter(cs) ==
  [s \in Subjects |->
     IF \E p \in DOMAIN cs.procs : /\ cs.procs[p].subject = s
                                   /\ cs.procs[p].status \in Terminal
     THEN None
     ELSE IF \E p \in Inserts(cs) : cs.procs[p].subject = s
     THEN CHOOSE p \in Inserts(cs) : cs.procs[p].subject = s
     ELSE subjectGuards[s]]

\* Faulty: the await documents of a change set are not written.
AwaitsForgotten(cs) == awaits

AwaitsAfter(cs) ==
  [p \in Procs |-> [k \in AwaitKeys |->
     IF \E w \in cs.answers : w.pid = p /\ w.key = k
     THEN (CHOOSE w \in cs.answers : w.pid = p /\ w.key = k).state
     ELSE awaits[p][k]]]

EventsOf(cs, p) == {i \in DOMAIN cs.events : cs.events[i].pid = p}

\* Faulty: a row rewritten without events restarts its numbering.
EventSeqRestarted(cs) ==
  [p \in Procs |-> IF p \in DOMAIN cs.procs
                   THEN Cardinality(EventsOf(cs, p))
                   ELSE eventSeq[p] + Cardinality(EventsOf(cs, p))]

EventSeqAfter(cs) ==
  [p \in Procs |-> eventSeq[p] + Cardinality(EventsOf(cs, p))]

EventsAfter(cs) ==
  events \cup
    {[pid |-> cs.events[i].pid, id |-> cs.events[i].id,
      seq |-> eventSeq[cs.events[i].pid]
              + Cardinality({j \in EventsOf(cs, cs.events[i].pid) : j < i})] :
     i \in DOMAIN cs.events}

\* The write phase.  An accepted ChangeSet ends the step it reports, so the
\* processes it writes start their next one unrun.
Write(cs) ==
  /\ rows' = RowsAfter(cs)
  /\ due' = [p \in Procs |-> IF p \in DOMAIN cs.procs THEN FALSE ELSE due[p]]
  /\ keyGuards' = KeyGuardsAfter(cs)
  /\ subjectGuards' = SubjectGuardsAfter(cs)
  /\ awaits' = AwaitsAfter(cs)
  /\ events' = EventsAfter(cs)
  /\ eventSeq' = EventSeqAfter(cs)
  /\ ran' = [p \in Procs |-> IF p \in DOMAIN cs.procs THEN 0 ELSE ran[p]]
  /\ appended' = appended \o cs.events

\* A refused ChangeSet writes nothing; the caller sees ErrConflict.
Apply(cs) ==
  \/ Accepts(cs) /\ Write(cs)
  \/ ~Accepts(cs) /\ UNCHANGED <<stored, ran, appended>>
-----------------------------------------------------------------------------
(***************************************************************************)
(* Lookups.                                                                *)
(***************************************************************************)

\* FindOpenProcessBySubject: the process, or None for ErrProcessNotFound.
FindOpenProcessBySubject(s) ==
  IF /\ subjectGuards[s] # None
     /\ rows[subjectGuards[s]].status \notin Terminal
  THEN subjectGuards[s]
  ELSE None
-----------------------------------------------------------------------------
(***************************************************************************)
(* What the kernel asks of the store.                                      *)
(***************************************************************************)

\* Event ids are fresh uuids.
Fresh == {i \in EventIDs : \A e \in events : e.id # i}

\* The events a transition appends: none, one or two, in order.
Batches(p) ==
  {<< >>} \cup {<<[pid |-> p, id |-> i]>> : i \in Fresh}
    \cup {<<[pid |-> p, id |-> ij[1]], [pid |-> p, id |-> ij[2]]>> :
          ij \in {ij \in Fresh \X Fresh : ij[1] # ij[2]}}

SpawnChange(batch, log) ==
  [guards |-> {}, procs |-> batch, answers |-> {}, events |-> log]

\* Start one process, or a parent's children together, under fresh ids, each
\* perhaps with its first events.
Spawn(batch) ==
  /\ \A p \in DOMAIN batch : ~Exists(p)
  /\ \E p \in DOMAIN batch : \E log \in Batches(p) :
       Apply(SpawnChange(batch, log))
  /\ UNCHANGED <<views, faults>>

NewBatches ==
  UNION {[ps -> {NewProcess(k, s) : k \in Keys \cup {None},
                                    s \in Subjects \cup {None}}] :
         ps \in {q \in SUBSET Procs : Cardinality(q) \in {1, 2}}}

\* A claimed process's transition: what the step decided, written over the row
\* as it was claimed.  The actor is done with it, accepted or refused.
CommitChange(a, status, wake, ask, log) ==
  LET v == views[a] IN
  [guards |-> {},
   procs |-> [p \in {v.pid} |->
                [v.row EXCEPT !.status = status, !.lease = FALSE,
                              !.wake = wake]],
   answers |-> IF ask = None THEN {}
               ELSE {[pid |-> v.pid, key |-> ask, state |-> "open"]},
   events |-> log]

\* What a transition may decide: go on now or after a backoff, wait for an
\* answer or an instant, or end.  A process abandoned too often only fails.
MayDecide(a, status, wake, ask) ==
  LET v == views[a] IN
  /\ v.row.unclean > MaxUncleanReclaims => status = "failed"
  /\ status \notin Terminal => v.row.rev < MaxRev
  /\ status \in Terminal => ~wake
  /\ IF status = "waiting" THEN wake \/ ask # None ELSE ask = None
  /\ ask # None => awaits[v.pid][ask] = "none"

Commit(a) ==
  /\ views[a].doing = "working"
  /\ \E status \in {"pending", "waiting"} \cup Terminal, wake \in BOOLEAN,
        ask \in AwaitKeys \cup {None}, log \in Batches(views[a].pid) :
       /\ MayDecide(a, status, wake, ask)
       /\ Apply(CommitChange(a, status, wake, ask, log))
  /\ views' = [views EXCEPT ![a] = Idle]
  /\ UNCHANGED faults

ProgressChange(a, id) ==
  LET v == views[a] IN
  [guards |-> {[pid |-> v.pid, rev |-> v.row.rev]}, procs |-> << >>,
   answers |-> {}, events |-> <<[pid |-> v.pid, id |-> id]>>]

\* Events appended mid-transition, guarded by the revision of the claim but
\* without rewriting the row.  A refusal tells the actor it lost the claim.
Progress(a, id) ==
  /\ views[a].doing = "working"
  /\ Apply(ProgressChange(a, id))
  /\ views' = IF Accepts(ProgressChange(a, id)) THEN views
              ELSE [views EXCEPT ![a] = Idle]
  /\ UNCHANGED faults

\* Respond, in two steps: the waiting row and its open question are read ...
ReadQuestion(a, p, k) ==
  /\ views[a].doing = "idle"
  /\ Exists(p) /\ rows[p].status = "waiting" /\ awaits[p][k] = "open"
  /\ views' = [views EXCEPT ![a] =
       [Idle EXCEPT !.doing = "answering", !.pid = p, !.row = rows[p],
                    !.await = k]]
  /\ UNCHANGED <<stored, ran, appended, faults>>

AnswerChange(a) ==
  LET v == views[a] IN
  [guards |-> {},
   procs |-> [p \in {v.pid} |->
                [v.row EXCEPT !.status = "pending", !.wake = FALSE]],
   answers |-> {[pid |-> v.pid, key |-> v.await, state |-> a]},
   events |-> << >>]

\* ... and the answer and the woken row are written together.
Answer(a) ==
  /\ views[a].doing = "answering"
  /\ Apply(AnswerChange(a))
  /\ views' = [views EXCEPT ![a] = Idle]
  /\ UNCHANGED faults
-----------------------------------------------------------------------------
(***************************************************************************)
(* Time and failure.                                                       *)
(***************************************************************************)
Held(p) == \E a \in Actors : /\ views[a].doing = "working"
                             /\ views[a].pid = p
                             /\ views[a].row.rev = rows[p].rev

\* The instant in ClaimAt passes: a backoff or a deadline, or the lease of an
\* instance that is gone.
ComesDue(p) ==
  /\ Exists(p) /\ ClaimAt(rows[p]) = "later" /\ ~due[p]
  /\ ~Held(p)
  /\ due' = [due EXCEPT ![p] = TRUE]
  /\ UNCHANGED <<rows, keyGuards, subjectGuards, awaits, events, eventSeq,
                 views, ran, appended, faults>>

\* The lease of an instance that is still working on the transition runs out.
Overrun(p) ==
  /\ Exists(p) /\ ClaimAt(rows[p]) = "later" /\ ~due[p]
  /\ Held(p) /\ faults < MaxFaults
  /\ due' = [due EXCEPT ![p] = TRUE]
  /\ faults' = faults + 1
  /\ UNCHANGED <<rows, keyGuards, subjectGuards, awaits, events, eventSeq,
                 views, ran, appended>>

\* An instance dies and restarts: what it held in memory is lost.
Crash(a) ==
  /\ views[a].doing # "idle" /\ faults < MaxFaults
  /\ views' = [views EXCEPT ![a] = Idle]
  /\ faults' = faults + 1
  /\ UNCHANGED <<stored, ran, appended>>
-----------------------------------------------------------------------------
ActorNext(a) ==
  \/ Poll(a)
  \/ \E p \in Procs : Claim(a, p) \/ SkipCandidate(a, p)
  \/ Commit(a)
  \/ \E id \in Fresh : Progress(a, id)
  \/ \E p \in Procs, k \in AwaitKeys : ReadQuestion(a, p, k)
  \/ Answer(a)
  \/ Crash(a)

Next ==
  \/ \E batch \in NewBatches : Spawn(batch)
  \/ \E a \in Actors : ActorNext(a)
  \/ \E p \in Procs : ComesDue(p) \/ Overrun(p)

Spec == Init /\ [][Next]_vars

\* The agent worker polls for as long as the program runs and finishes the
\* transition it claimed, an answer being written is finished too, and time
\* passes.  Nothing obliges a user to answer or a trigger to fire.
Fairness ==
  /\ \A a \in Actors :
       /\ WF_vars(Poll(a))
       /\ WF_vars(\E p \in Procs : Claim(a, p) \/ SkipCandidate(a, p))
       /\ WF_vars(Commit(a))
       /\ WF_vars(Answer(a))
  /\ \A p \in Procs : WF_vars(ComesDue(p))

FairSpec == Spec /\ Fairness
-----------------------------------------------------------------------------
(***************************************************************************)
(* Properties.                                                             *)
(***************************************************************************)

\* A subject guard names a process exactly when that process is open and holds
\* the subject: a trigger is neither let through while a run is live nor
\* refused for a run that ended (the contract at firestore.go:263).
SubjectGuardExact ==
  \A s \in Subjects, p \in Procs :
    subjectGuards[s] = p <=> IsOpen(p) /\ rows[p].subject = s

\* An idempotency key stays with the one process started under it, after that
\* process ended too.
KeyGuardExact ==
  \A k \in Keys, p \in Procs :
    keyGuards[k] = p <=> Exists(p) /\ rows[p].key = k

\* The stored numbers of a process's events are 0, 1, 2, ... in the order the
\* events were accepted, across claims, rewrites and appends by different
\* instances, and the row's counter is their number.
EventsNumbered ==
  /\ events = {[pid |-> appended[i].pid, id |-> appended[i].id,
                seq |-> Cardinality({j \in 1..(i - 1) :
                                       appended[j].pid = appended[i].pid})] :
               i \in DOMAIN appended}
  /\ \A p \in Procs :
       eventSeq[p] = Cardinality({i \in DOMAIN appended : appended[i].pid = p})

\* A transition is run once, and again only as often as the kernel's limit on
\* unclean reclaims allows, however many instances crash or overrun meanwhile.
RunsBounded == \A p \in Procs : ran[p] <= MaxUncleanReclaims + 1

\* A process that waits with no deadline has a question somebody can answer.
NobodyWaitsForNothing ==
  \A p \in Procs :
    rows[p].status = "waiting" /\ ~rows[p].wake =>
      \E k \in AwaitKeys : awaits[p][k] = "open"

\* At most one instance can still commit a transition of a given process: all
\* others hold a revision the store has moved past.
OneCanCommit ==
  \A a, b \in Actors :
    /\ views[a].doing = "working" /\ views[b].doing = "working"
    /\ views[a].pid = views[b].pid
    /\ views[a].row.rev = rows[views[a].pid].rev
    /\ views[b].row.rev = rows[views[b].pid].rev
    => a = b

\* What an actor read is still what the store holds, as long as the store holds
\* the revision it read; and a row may be rewritten, but never gets back to an
\* earlier revision or changes its key or subject.  It is what makes comparing
\* the revision at Apply enough for everything decided since the read.
ViewAgrees(v) ==
  /\ v.doing \in {"working", "answering"} =>
       /\ v.pid \in Procs
       /\ 0 < v.row.rev /\ v.row.rev <= rows[v.pid].rev
       /\ v.row.key = rows[v.pid].key /\ v.row.subject = rows[v.pid].subject
       /\ v.row.status = (IF v.doing = "working" THEN "running" ELSE "waiting")
       /\ v.row.rev = rows[v.pid].rev => rows[v.pid].status = v.row.status
  /\ v.doing = "answering" =>
       /\ v.await \in AwaitKeys
       /\ v.row.rev = rows[v.pid].rev => awaits[v.pid][v.await] = "open"

ViewsAgree == \A a \in Actors : ViewAgrees(views[a])

\* A process that ended is never written again: a late commit of an instance
\* that lost its claim, or a late answer, changes nothing.
EndedIsFinal ==
  [][\A p \in Procs : Exists(p) /\ ~IsOpen(p) => rows'[p] = rows[p]]_vars

\* The first answer to a question stands: a second one, read before the first
\* was written, does not replace it.
FirstAnswerStands ==
  [][\A p \in Procs, k \in AwaitKeys :
       awaits[p][k] \in Actors => awaits'[p][k] = awaits[p][k]]_vars

\* The store implements the registry it promises.
Registry ==
  INSTANCE ProcessRegistry WITH
    holders <- [s \in Subjects |->
                  {p \in Procs : IsOpen(p) /\ rows[p].subject = s}],
    started <- [k \in Keys |-> {p \in Procs : Exists(p) /\ rows[p].key = k}],
    ended <- {p \in Procs : Exists(p) /\ ~IsOpen(p)}

\* Refinement of the abstract registry of processes.
ImplementsRegistry == Registry!Spec

\* A process that can go on gets there: with instances that keep polling, one
\* that is pending or being worked on ends or comes to wait for somebody, the
\* instance working on it having crashed or not.
NoProcessStalls ==
  \A p \in Procs :
    Exists(p) /\ rows[p].status \in {"pending", "running"}
      ~> rows[p].status \in Terminal \cup {"waiting"}
=============================================================================

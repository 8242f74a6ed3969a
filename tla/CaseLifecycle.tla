--------------------------- MODULE CaseLifecycle ---------------------------
(***************************************************************************)
(* The life of a Case under concurrent calls: pkg/usecase/case.go over     *)
(* pkg/repository/firestore/case.go.                                       *)
(*                                                                         *)
(*   - A case is saved as a draft, or created OPEN; a draft is submitted   *)
(*     or discarded.  Becoming OPEN, it gets its home: a Slack channel of  *)
(*     its own in a channel-mode workspace, a thread in the monitored      *)
(*     channel in a thread-mode one.                                       *)
(*   - An OPEN case is edited, assigned, closed, reopened, moved on the    *)
(*     board (thread mode), deleted.                                       *)
(*   - Assigning runs in a transaction.  Every other change reads the      *)
(*     case, patches the copy, checks that the case still exists and       *)
(*     writes the whole copy back.                                         *)
(*                                                                         *)
(* Each read and each write is a step, so calls interleave anywhere        *)
(* between them.  Any step can fail, a write can be stored and reported    *)
(* as failed, and a call can die.  A call that is refused by its first     *)
(* read or by validation changes nothing and is left out, as are titles,   *)
(* fields, privacy and what is posted to Slack.  A workspace without Slack *)
(* has no homes and is left out.                                           *)
(***************************************************************************)
EXTENDS Naturals, FiniteSets

CONSTANTS Calls,     \* calls of the use case; also the home each would make
          Before,    \* the home of a case that is there from the start
          MaxCases,  \* bound: case ids
          Users,     \* users who may be assigned
          Keys,      \* request keys of submitted forms
          MaxFaults, \* bound: failed steps, lost responses, dead calls
          None

ASSUME CaseAssumption ==
  /\ MaxCases \in Nat \ {0} /\ MaxFaults \in Nat
  /\ Before \notin Calls
  /\ None \notin Calls \cup {Before} \cup Keys

VARIABLES
  mode,     \* is the workspace in channel or in thread mode?
  cases,    \* id -> the stored Case, or None
  counter,  \* the id handed out last
  pc,       \* call -> where it is
  id,       \* call -> the case it is about
  held,     \* call -> its copy of the Case, with its changes
  base,     \* call -> the Case as it last read or wrote it
  pre,      \* submission -> the binding to restore; None for other calls
  checked,  \* call -> has its Update seen that the case exists?
  deed,     \* call -> the event it published, or that it reopened a case
  prior,    \* delivery -> deliveries of its form answered before it began
  want,     \* history: id -> who should be assigned
  stale,    \* history: ids over which a stale copy was written
  faults    \* faults so far

store == <<cases, counter>>
call == <<pc, id, held, base, pre, checked, deed, prior>>
history == <<want, stale>>
vars == <<mode, store, call, history, faults>>
-----------------------------------------------------------------------------
Ids == 1..MaxCases
Boards == {"unset", "todo", "closed"}
Homes == Calls \cup {Before}

Case == [status : {"DRAFT", "OPEN", "CLOSED"}, home : Homes \cup {None},
         board : Boards, assignees : SUBSET Users, key : Keys \cup {None}]

\* How a case was bound before a promotion.
Binding == [home : Homes \cup {None}, board : Boards]

\* An absent case or binding is told from every other.
ASSUME NoneAssumption == None \notin Case \cup Binding

Channel == mode = "channel"

\* The submission of a draft in its steps, the other creations in theirs, and
\* the calls that write a changed copy back.
Updating == {"patch", "flip", "bind", "rollback", "write"}
Ended == {"done", "failed", "lost"}
Steps == {"idle", "lookup", "post", "take", "store", "activate", "readback",
          "undo", "transact", "remove", "publish"} \cup Updating \cup Ended

\* A new Case.
NewCase(s, who, key) ==
  [status |-> s, home |-> None, board |-> "unset", assignees |-> who,
   key |-> key]

\* A Case bound to the home the call made; a thread-mode case gets its initial
\* board status unless it has a valid one.
Bound(c, doc) ==
  [doc EXCEPT !.home = c,
              !.board = IF ~Channel /\ @ = "unset" THEN "todo" ELSE @]

IsThreadBound(doc) == ~Channel /\ doc.home # None

\* Faulty: the board status is taken for the lifecycle status.
SyncedVerbatim(doc) ==
  IF doc.status = "DRAFT" THEN doc ELSE [doc EXCEPT !.status = doc.board]

\* SyncLifecycleFromBoardStatus: closed on the board is CLOSED, anything else
\* is OPEN, and a draft stays one.
Synced(doc) ==
  IF doc.status = "DRAFT" THEN doc
  ELSE [doc EXCEPT !.status = IF doc.board = "closed" THEN "CLOSED" ELSE "OPEN"]

Nobody == NewCase("DRAFT", {}, None)   \* the copy of a call that has none

TypeOK ==
  /\ mode \in {"channel", "thread"}
  /\ cases \in [Ids -> Case \cup {None}]
  /\ counter \in 0..MaxCases
  /\ pc \in [Calls -> Steps]
  /\ id \in [Calls -> 0..MaxCases]
  /\ held \in [Calls -> Case]
  /\ base \in [Calls -> Case]
  /\ pre \in [Calls -> Binding \cup {None}]
  /\ checked \in [Calls -> BOOLEAN]
  /\ deed \in [Calls -> {"none", "created", "closed", "reopened"}]
  /\ prior \in [Calls -> SUBSET Calls]
  /\ want \in [Ids -> SUBSET Users]
  /\ stale \in SUBSET Ids
  /\ faults \in 0..MaxFaults

\* Case 1 may be there already: a draft, or an OPEN case with its home.
Init ==
  /\ mode \in {"channel", "thread"}
  /\ \E first \in {None, NewCase("DRAFT", {}, None),
                   Bound(Before, NewCase("OPEN", {}, None))} :
       /\ cases = [i \in Ids |-> IF i = 1 THEN first ELSE None]
       /\ counter = IF first = None THEN 0 ELSE 1
  /\ pc = [c \in Calls |-> "idle"]
  /\ id = [c \in Calls |-> 0]
  /\ held = [c \in Calls |-> Nobody]
  /\ base = [c \in Calls |-> Nobody]
  /\ pre = [c \in Calls |-> None]
  /\ checked = [c \in Calls |-> FALSE]
  /\ deed = [c \in Calls |-> "none"]
  /\ prior = [c \in Calls |-> {}]
  /\ want = [i \in Ids |-> {}]
  /\ stale = {}
  /\ faults = 0

Goto(c, p) == pc' = [pc EXCEPT ![c] = p]
Fault == faults < MaxFaults /\ faults' = faults + 1

\* The end of a call: its copies are gone.
Forget(c) ==
  /\ held' = [held EXCEPT ![c] = Nobody]
  /\ base' = [base EXCEPT ![c] = Nobody]
  /\ pre' = [pre EXCEPT ![c] = None]

End(c, p) == Goto(c, p) /\ Forget(c)
Going == UNCHANGED <<held, base, pre>>
-----------------------------------------------------------------------------
(***************************************************************************)
(* Creation.                                                               *)
(***************************************************************************)

\* CreateCase: the form of a Slack modal carries a request key, the web and
\* the agent send none.  The calls of this form that were answered already are
\* noted for RedeliveryMakesNoCase.
CreateCase(c, key, who) ==
  /\ pc[c] = "idle"
  /\ held' = [held EXCEPT ![c] = NewCase("OPEN", who, key)]
  /\ Goto(c, IF key # None THEN "lookup" ELSE IF Channel THEN "take" ELSE "post")
  /\ prior' = [prior EXCEPT ![c] =
       {d \in Calls : key # None /\ pc[d] = "done" /\ id[d] # 0
                      /\ cases[id[d]] # None /\ cases[id[d]].key = key}]
  /\ UNCHANGED <<mode, store, id, base, pre, checked, deed, history, faults>>

\* CreateDraft.
CreateDraft(c, who) ==
  /\ pc[c] = "idle"
  /\ held' = [held EXCEPT ![c] = NewCase("DRAFT", who, None)]
  /\ Goto(c, "take")
  /\ UNCHANGED <<mode, store, id, base, pre, checked, deed, prior, history,
                 faults>>

\* Faulty: the key is looked up among the OPEN cases only.
WithKeyAmongOpen(key) ==
  {i \in Ids : cases[i] # None /\ cases[i].key = key /\ cases[i].status = "OPEN"}

\* GetByRequestKey.
WithKey(key) == {i \in Ids : cases[i] # None /\ cases[i].key = key}

\* The case of an earlier delivery is returned, and in channel mode activated
\* when it is OPEN and has no channel.
FindRequest(c) ==
  /\ pc[c] = "lookup"
  /\ \E i \in WithKey(held[c].key) :
       /\ id' = [id EXCEPT ![c] = i]
       /\ IF Channel /\ cases[i].status = "OPEN" /\ cases[i].home = None
          THEN /\ Goto(c, "activate")
               /\ held' = [held EXCEPT ![c] = cases[i]]
               /\ base' = [base EXCEPT ![c] = cases[i]]
               /\ UNCHANGED pre
          ELSE End(c, "done")
  /\ UNCHANGED <<mode, store, checked, deed, prior, history, faults>>

\* No case has the key, or the look-up failed, which stops nothing.
MissRequest(c) ==
  /\ pc[c] = "lookup"
  /\ \/ WithKey(held[c].key) = {} /\ UNCHANGED faults
     \/ Fault
  /\ Goto(c, IF Channel THEN "take" ELSE "post")
  /\ UNCHANGED <<mode, store, id, held, base, pre, checked, deed, prior, history>>

\* Thread mode posts the root of the case's thread before there is a case.
PostRoot(c) ==
  /\ pc[c] = "post"
  /\ \/ /\ Goto(c, "take")
        /\ held' = [held EXCEPT ![c] = Bound(c, @)]
        /\ UNCHANGED <<base, pre, faults>>
     \/ Fault /\ End(c, "failed")
  /\ UNCHANGED <<mode, store, id, checked, deed, prior, history>>

\* getNextID: a transaction on the counter.
TakeId(c) ==
  /\ pc[c] = "take" /\ counter < MaxCases
  /\ \/ /\ counter' = counter + 1
        /\ id' = [id EXCEPT ![c] = counter + 1]
        /\ Goto(c, "store") /\ Going /\ UNCHANGED faults
     \/ /\ Fault /\ End(c, "failed")
        /\ counter' \in {counter, counter + 1}
        /\ UNCHANGED id
  /\ UNCHANGED <<mode, cases, checked, deed, prior, history>>

\* Create writes the document.  An OPEN case of a channel-mode workspace has
\* its channel yet to come; one of a thread-mode workspace has its thread.
StoreCase(c) ==
  /\ pc[c] = "store"
  /\ LET stored == cases' = [cases EXCEPT ![id[c]] = held[c]]
         next == IF held[c].status = "DRAFT" THEN "done"
                 ELSE IF Channel THEN "activate" ELSE "publish"
     IN \/ /\ stored /\ UNCHANGED faults
           /\ want' = [want EXCEPT ![id[c]] = held[c].assignees]
           /\ IF next = "done" THEN End(c, next)
              ELSE /\ Goto(c, next)
                   /\ base' = [base EXCEPT ![c] = held[c]]
                   /\ UNCHANGED <<held, pre>>
        \/ /\ Fault /\ stored
           /\ want' = [want EXCEPT ![id[c]] = held[c].assignees]
           /\ End(c, "lost")
        \/ /\ Fault /\ UNCHANGED <<cases, want>>
           /\ End(c, "failed")
  /\ UNCHANGED <<mode, counter, id, checked, deed, prior, stale>>

\* createChannelModeCase discards the case it could not activate.
Undo(c) ==
  /\ pc[c] = "undo"
  /\ \/ /\ cases' = [cases EXCEPT ![id[c]] = None]
        /\ End(c, "failed") /\ UNCHANGED faults
     \/ Fault /\ UNCHANGED cases /\ End(c, "lost")
  /\ UNCHANGED <<mode, counter, id, checked, deed, prior, history>>
-----------------------------------------------------------------------------
(***************************************************************************)
(* A case becomes OPEN.                                                    *)
(***************************************************************************)

\* Faulty: any case may be submitted.
SubmittableAny(doc) == doc # None

\* GetDraft lets only drafts through.
Submittable(doc) == doc # None /\ doc.status = "DRAFT"

\* The flip to OPEN, on the copy.
Opened(doc) == [doc EXCEPT !.status = "OPEN"]

\* SubmitDraft reads the draft; last edits, when there are some, are written
\* before the flip.
SubmitDraft(c, i, edited) ==
  /\ pc[c] = "idle" /\ Submittable(cases[i])
  /\ id' = [id EXCEPT ![c] = i]
  /\ base' = [base EXCEPT ![c] = cases[i]]
  /\ held' = [held EXCEPT ![c] = IF edited THEN cases[i] ELSE Opened(cases[i])]
  /\ Goto(c, IF edited THEN "patch" ELSE "flip")
  /\ UNCHANGED <<mode, store, pre, checked, deed, prior, history, faults>>

\* Faulty: a submission that cannot be activated is just reported.
NoCleanup(c) == "failed"

\* What a call does whose case could not get its home: a submission restores
\* the draft, a creation deletes the case.
Cleanup(c) == IF pre[c] # None THEN "readback" ELSE "undo"

\* activateChannelModeCase makes the channel, or postMonitoredThreadAnchor the
\* root of the thread; invitations, bookmark and welcome are best effort.
Activate(c) ==
  /\ pc[c] = "activate"
  /\ \/ /\ Goto(c, "bind")
        /\ held' = [held EXCEPT ![c] = Bound(c, @)]
        /\ UNCHANGED faults
     \/ /\ Fault /\ Goto(c, Cleanup(c))
        /\ UNCHANGED held
  /\ UNCHANGED <<mode, store, id, base, pre, checked, deed, prior, history>>

\* Faulty: only the status goes back; the binding is left as it is stored.
UnflippedOnly(c) == [cases[id[c]] EXCEPT !.status = "DRAFT"]

\* The draft as it was before the promotion, whatever was stored meanwhile.
Unflipped(c) ==
  [cases[id[c]] EXCEPT !.status = "DRAFT", !.home = pre[c].home,
                       !.board = pre[c].board]

\* The rollback of a submission reads the case again.
ReadBack(c) ==
  /\ pc[c] = "readback"
  /\ \/ /\ cases[id[c]] # None
        /\ held' = [held EXCEPT ![c] = Unflipped(c)]
        /\ base' = [base EXCEPT ![c] = cases[id[c]]]
        /\ Goto(c, "rollback") /\ UNCHANGED <<pre, faults>>
     \/ /\ cases[id[c]] = None
        /\ End(c, "failed") /\ UNCHANGED faults
     \/ Fault /\ End(c, "lost")
  /\ UNCHANGED <<mode, store, id, checked, deed, prior, history>>

\* The Created event of a case that got its home, the Closed event of one that
\* was closed.
Publish(c) ==
  /\ pc[c] = "publish"
  /\ deed' = [deed EXCEPT ![c] = IF held[c].status = "CLOSED" THEN "closed"
                                                             ELSE "created"]
  /\ End(c, "done")
  /\ UNCHANGED <<mode, store, id, checked, prior, history, faults>>
-----------------------------------------------------------------------------
(***************************************************************************)
(* Calls on a case.                                                        *)
(***************************************************************************)

\* loadCaseForWrite, and the changed copy on its way back.
Load(c, i, changed) ==
  /\ pc[c] = "idle"
  /\ id' = [id EXCEPT ![c] = i]
  /\ base' = [base EXCEPT ![c] = cases[i]]
  /\ held' = [held EXCEPT ![c] = changed]
  /\ Goto(c, "write")
  /\ UNCHANGED <<mode, store, pre, checked, deed, prior, history, faults>>

\* Some calls change what is not modelled and write back the rest as they
\* read it: those of anybody who may edit the case, ...
UpdateCase(c, i) == cases[i] # None /\ Load(c, i, cases[i])

\* ... the settings of the agent, which a draft has not, ...
UpdateAgentSettings(c, i) ==
  cases[i] # None /\ cases[i].status # "DRAFT" /\ Load(c, i, cases[i])

\* ... the members of the case's channel, asked for or told by Slack, ...
SyncChannelUsers(c, i) ==
  Channel /\ cases[i] # None /\ cases[i].home # None /\ Load(c, i, cases[i])

\* ... and the agent that fills in the case of a thread.
MaterializeThreadCase(c, i) ==
  ~Channel /\ cases[i] # None /\ Load(c, i, cases[i])

\* CloseCase and ReopenCase; a thread-mode case goes by its board instead.
CloseCase(c, i) ==
  /\ cases[i] # None /\ ~IsThreadBound(cases[i]) /\ cases[i].status = "OPEN"
  /\ Load(c, i, [cases[i] EXCEPT !.status = "CLOSED"])

ReopenCase(c, i) ==
  /\ cases[i] # None /\ ~IsThreadBound(cases[i]) /\ cases[i].status = "CLOSED"
  /\ Load(c, i, [cases[i] EXCEPT !.status = "OPEN"])

\* UpdateCaseStatus moves a case on the board and its lifecycle with it.
UpdateCaseStatus(c, i, b) ==
  /\ ~Channel /\ cases[i] # None
  /\ Load(c, i, Synced([cases[i] EXCEPT !.board = b]))

\* AssignCase, UnassignCase: the access check reads the case, the change is a
\* transaction.
BeginAssign(c, i) ==
  /\ pc[c] = "idle" /\ cases[i] # None
  /\ id' = [id EXCEPT ![c] = i]
  /\ base' = [base EXCEPT ![c] = cases[i]]
  /\ Goto(c, "transact")
  /\ UNCHANGED <<mode, store, held, pre, checked, deed, prior, history, faults>>

\* Faulty: the change is applied to the case the access check read.
TransactOnRead(c) == base[c]

\* Transact hands the stored case to the change.
TransactOn(c) == cases[id[c]]

\* The history of the assignees is what the transactions made of them.
Assign(c, who, add) ==
  /\ pc[c] = "transact" /\ cases[id[c]] # None
  /\ LET changed(s) == IF add THEN s \cup who ELSE s \ who
     IN /\ cases' = [cases EXCEPT ![id[c]] =
              [TransactOn(c) EXCEPT !.assignees = changed(@)]]
        /\ want' = [want EXCEPT ![id[c]] = changed(@)]
  /\ \/ End(c, "done") /\ UNCHANGED faults
     \/ Fault /\ End(c, "failed")
  /\ UNCHANGED <<mode, counter, id, checked, deed, prior, stale>>

\* The transaction finds no case, or fails.
AssignFails(c) ==
  /\ pc[c] = "transact"
  /\ \/ cases[id[c]] = None /\ UNCHANGED faults
     \/ Fault
  /\ End(c, "failed")
  /\ UNCHANGED <<mode, store, id, checked, deed, prior, history>>

\* DiscardDraft reads a draft, DeleteCase any case, then the document is
\* deleted, whatever it has become.
BeginRemove(c, i) ==
  /\ pc[c] = "idle" /\ cases[i] # None
  /\ id' = [id EXCEPT ![c] = i]
  /\ Goto(c, "remove")
  /\ UNCHANGED <<mode, store, held, base, pre, checked, deed, prior, history,
                 faults>>

Remove(c) ==
  /\ pc[c] = "remove"
  /\ \/ /\ cases' = [cases EXCEPT ![id[c]] = None]
        /\ End(c, "done") /\ UNCHANGED faults
     \/ Fault /\ UNCHANGED cases /\ End(c, "failed")
  /\ UNCHANGED <<mode, counter, id, checked, deed, prior, history>>
-----------------------------------------------------------------------------
(***************************************************************************)
(* Update: the document is there, then it is overwritten.                  *)
(***************************************************************************)

\* What follows an Update that failed, and one that was stored all the same.
\* Nobody restores a draft whose flip was reported as failed.
AfterFailure(c) == IF pc[c] = "bind" THEN Cleanup(c)
                   ELSE IF pc[c] = "rollback" THEN "lost" ELSE "failed"
AfterLostResponse(c) == IF pc[c] = "bind" THEN Cleanup(c)
                        ELSE IF pc[c] = "flip" THEN "lost" ELSE "failed"

Leave(c, p) == IF p \in Ended THEN End(c, p) ELSE Goto(c, p) /\ Going

CheckExists(c) ==
  /\ pc[c] \in Updating /\ ~checked[c]
  /\ IF cases[id[c]] # None
     THEN /\ checked' = [checked EXCEPT ![c] = TRUE]
          /\ UNCHANGED <<pc, held, base, pre>>
     ELSE Leave(c, AfterFailure(c)) /\ UNCHANGED checked
  /\ UNCHANGED <<mode, store, id, deed, prior, history, faults>>

\* Faulty: whoever writes CLOSED announces it.
AnnouncesAnyClosed(c) == held[c].status = "CLOSED"

\* Only a call that found the case not CLOSED announces that it is.
AnnouncesClosed(c) == held[c].status = "CLOSED" /\ base[c].status # "CLOSED"

\* The steps of a call after its write.  An edited draft may turn out to lack
\* a title or a required field.
Continue(c) ==
  CASE pc[c] = "patch" ->
         \/ /\ Goto(c, "flip")
            /\ base' = [base EXCEPT ![c] = held[c]]
            /\ held' = [held EXCEPT ![c] = Opened(@)]
            /\ UNCHANGED pre
         \/ End(c, "failed")
    [] pc[c] = "flip" ->
         /\ Goto(c, "activate")
         /\ base' = [base EXCEPT ![c] = held[c]]
         /\ pre' = [pre EXCEPT ![c] = [home |-> held[c].home,
                                       board |-> held[c].board]]
         /\ UNCHANGED held
    [] pc[c] = "rollback" -> End(c, "failed")
    [] pc[c] = "write" /\ ~AnnouncesClosed(c) -> End(c, "done")
    [] OTHER -> Goto(c, "publish") /\ Going

\* The whole document is written.  It was stale if the case changed after the
\* call read it.
SetDoc(c) ==
  /\ pc[c] \in Updating /\ checked[c]
  /\ checked' = [checked EXCEPT ![c] = FALSE]
  /\ \/ /\ cases' = [cases EXCEPT ![id[c]] = held[c]]
        /\ stale' = IF cases[id[c]] = base[c] THEN stale
                                              ELSE stale \cup {id[c]}
        /\ deed' = IF base[c].status = "CLOSED" /\ held[c].status # "CLOSED"
                   THEN [deed EXCEPT ![c] = "reopened"] ELSE deed
        /\ \/ Continue(c) /\ UNCHANGED faults
           \/ Fault /\ Leave(c, AfterLostResponse(c))
     \/ /\ Fault /\ Leave(c, AfterFailure(c))
        /\ UNCHANGED <<cases, stale, deed>>
  /\ UNCHANGED <<mode, counter, id, prior, want>>

\* The instance dies under a call.
Die(c) ==
  /\ pc[c] \notin Ended \cup {"idle"} /\ Fault
  /\ End(c, "lost")
  /\ checked' = [checked EXCEPT ![c] = FALSE]
  /\ UNCHANGED <<mode, store, id, deed, prior, history>>
-----------------------------------------------------------------------------
Begin(c) ==
  \/ \E who \in SUBSET Users :
       \/ \E key \in Keys \cup {None} : CreateCase(c, key, who)
       \/ CreateDraft(c, who)
  \/ \E i \in Ids :
       \/ \E edited \in BOOLEAN : SubmitDraft(c, i, edited)
       \/ UpdateCase(c, i) \/ UpdateAgentSettings(c, i)
       \/ SyncChannelUsers(c, i) \/ MaterializeThreadCase(c, i)
       \/ CloseCase(c, i) \/ ReopenCase(c, i)
       \/ \E b \in Boards \ {"unset"} : UpdateCaseStatus(c, i, b)
       \/ BeginAssign(c, i) \/ BeginRemove(c, i)

Proceed(c) ==
  \/ FindRequest(c) \/ MissRequest(c) \/ PostRoot(c)
  \/ TakeId(c) \/ StoreCase(c) \/ Undo(c)
  \/ Activate(c) \/ ReadBack(c) \/ Publish(c)
  \/ \E who \in SUBSET Users, add \in BOOLEAN : Assign(c, who, add)
  \/ AssignFails(c) \/ Remove(c)
  \/ CheckExists(c) \/ SetDoc(c)

Next == \E c \in Calls : Begin(c) \/ Proceed(c) \/ Die(c)

Spec == Init /\ [][Next]_vars
-----------------------------------------------------------------------------
(***************************************************************************)
(* Properties.                                                             *)
(***************************************************************************)

\* A draft has no channel and no thread: a rollback leaves no binding behind,
\* whatever was stored before it failed, and however calls interleave.
DraftUnbound ==
  \A i \in Ids : cases[i] # None /\ cases[i].status = "DRAFT"
                   => cases[i].home = None

\* An OPEN case without a home is one that a call is still bringing up, unless
\* a call died over it or could not clean up, or a stale copy was written.
OpenHasHome ==
  \A i \in Ids :
    cases[i] # None /\ cases[i].status = "OPEN" /\ cases[i].home = None
      => \/ i \in stale
         \/ \E c \in Calls :
              /\ id[c] = i
              /\ pc[c] \in {"activate", "bind", "readback", "rollback", "undo",
                            "lost"}

\* The assignees are those the assigning calls left there: no other call
\* changes them, unless it wrote a stale copy.
AssignmentsKept ==
  \A i \in Ids : cases[i] # None /\ i \notin stale
                   => cases[i].assignees = want[i]

\* Jobs hear of a closed case once: it was closed at most once more than it
\* was reopened, unless a stale copy was written.
ClosedOncePerClosing ==
  \A i \in Ids \ stale :
    LET by(d) == {c \in Calls : id[c] = i /\ deed[c] = d}
    IN Cardinality(by("closed")) <= 1 + Cardinality(by("reopened"))

\* A form that is delivered again after it was answered makes no second case,
\* as long as the first is there and look-ups work.
RedeliveryMakesNoCase ==
  \A c, d \in Calls :
    d \in prior[c] /\ pc[c] \in {"post", "take", "store"} /\ faults = 0
      => cases[id[d]] = None \/ id[d] \in stale

\* Until a stale copy is written, a case goes from DRAFT to OPEN, gets its one
\* home while it is OPEN, and goes back to DRAFT only when its submission is
\* rolled back.
LegalMoves ==
  [][\A i \in Ids : i \notin stale' /\ cases[i] # None /\ cases'[i] # None =>
       LET old == cases[i]
           new == cases'[i]
       IN /\ old.status = "DRAFT" => new.status # "CLOSED"
          /\ new.status = "DRAFT" /\ old.status # "DRAFT" =>
               \E c \in Calls : id[c] = i /\ pc[c] = "rollback"
          /\ new.home # old.home =>
               \/ old.home = None /\ old.status = "OPEN" /\ new.status = "OPEN"
               \/ new.status = "DRAFT"]_vars

\* "a full-list replace can never silently clobber a concurrent edit"
\* (case.go:987-990): an assignment that was acknowledged is there until it is
\* undone by another.
AssignmentsSurvive ==
  \A i \in Ids : cases[i] # None => cases[i].assignees = want[i]

\* "The lifecycle Status is kept in sync with BoardStatus" (domain/model/case.go:60-61):
\* a case with a thread is CLOSED exactly when its board status is closed.
BoardAgrees ==
  \A i \in Ids :
    cases[i] # None /\ IsThreadBound(cases[i]) /\ cases[i].status # "DRAFT"
      => (cases[i].status = "CLOSED") = (cases[i].board = "closed")
=============================================================================

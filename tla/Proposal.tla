------------------------------ MODULE Proposal ------------------------------
(***************************************************************************)
(* Case drafts from mentions, in one Slack thread:                         *)
(* pkg/usecase/slack_mention_*.go and pkg/usecase/agent/proposal.          *)
(*                                                                         *)
(*   - A mention saves a locked draft, claims the thread's Session and     *)
(*     starts an agent turn for the draft.                                 *)
(*   - The turn runs elsewhere.  When it has ended, and the thread is free *)
(*     for the next turn, its completion handler shows the draft in a      *)
(*     preview and unlocks it, or posts a question, or says that nothing   *)
(*     came of it.                                                         *)
(*   - A reply or a submitted form answers the question with a turn of its *)
(*     own, for the draft the Session names.                               *)
(*   - The preview has a workspace selector, which locks the draft for a   *)
(*     new turn, and buttons to submit, edit and cancel.                   *)
(*                                                                         *)
(* Every read and write of a stored document is a step; clicks, events and *)
(* handlers interleave anywhere between them.  A call refused by its first *)
(* read changes nothing and is left out, as are titles, fields, the        *)
(* placeholder message, the conversation and the expiry after a day.       *)
(***************************************************************************)
EXTENDS Naturals, FiniteSets

CONSTANTS Calls,      \* events and clicks; also the draft and the turn of each
          Before,     \* a draft whose preview is there from the start
          Workspaces,
          MaxEvents,  \* bound: calls, failed steps and lost handlers together
          None

ASSUME ProposalAssumption ==
  /\ MaxEvents \in Nat
  /\ Before \notin Calls
  /\ None \notin Calls \cup {Before} \cup Workspaces

VARIABLES
  drafts,   \* id -> the stored CaseProposal, or None
  session,  \* the thread's Session, or None
  turns,    \* call -> the turn it started
  pc,       \* call -> where it is
  req,      \* call -> what it has read: see Request
  event,    \* mention -> the event that was delivered; None for other calls
  hpc,      \* turn -> where its completion handler is
  hcopy,    \* turn -> the draft as its handler read it
  previews, \* drafts that have a preview in Slack
  forms,    \* turns that have a question form in Slack
  cases,    \* call -> the case it created, or None
  stale,    \* history: drafts that were saved over a newer version
  faults    \* faults so far

store == <<drafts, session, turns>>
call == <<pc, req, event>>
handler == <<hpc, hcopy>>
slack == <<previews, forms>>
vars == <<store, call, handler, slack, cases, stale, faults>>
-----------------------------------------------------------------------------
Drafts == Calls \cup {Before}

\* A trigger is an event or a form that is answered.
Triggers == [of : {"event", "form"}, id : Calls]

\* The materialization: the workspace whose schema it fits and the turn that
\* made it.
Materializations == [fits : Workspaces, by : Drafts]

Draft == [ws : Workspaces \cup {None}, mat : Materializations \cup {None},
          locked : BOOLEAN]

Session == [id : Drafts, draft : Drafts \cup {None},
            question : Calls \cup {None},
            last : {"none", "question", "materialize"}]

\* An absent document is told from every document.
ASSUME NoneAssumption ==
  None \notin Triggers \cup Materializations \cup Draft \cup Session

NewDraft == [ws |-> None, mat |-> None, locked |-> TRUE]
NewSession(c) ==
  [id |-> c, draft |-> None, question |-> None, last |-> "none"]

Outcomes == {"final", "question", "fallback", "cancelled"}
NoTurn == [status |-> "none", draft |-> None, subject |-> None, key |-> None]
Turn == [status : {"none", "running"} \cup Outcomes,
         draft : Drafts \cup {None}, subject : Drafts \cup {None},
         key : Triggers \cup {None}]

\* What a call knows: the draft it is about, its copy of it, the Session it
\* found or made, and the trigger its turn is started under.
Request == [target : Drafts \cup {None}, copy : Draft,
            subject : Drafts \cup {None}, key : Triggers \cup {None}]
NoRequest == [target |-> None, copy |-> NewDraft, subject |-> None, key |-> None]

Steps == {"idle", "claim", "reload", "match", "clear", "load", "lock", "find",
          "check", "spawn", "associate", "discard", "restore", "modal",
          "create", "delete", "done", "refused"}
HandlerSteps == {"none", "materialize", "reload", "show", "save", "associate",
                 "form", "record", "fallback", "unlock", "stamp", "done"}

TypeOK ==
  /\ drafts \in [Drafts -> Draft \cup {None}]
  /\ session \in Session \cup {None}
  /\ turns \in [Calls -> Turn]
  /\ pc \in [Calls -> Steps]
  /\ req \in [Calls -> Request]
  /\ event \in [Calls -> Calls \cup {None}]
  /\ hpc \in [Calls -> HandlerSteps]
  /\ hcopy \in [Calls -> Draft]
  /\ previews \subseteq Drafts
  /\ forms \subseteq Calls
  /\ cases \in [Calls -> [draft : Drafts, ws : Workspaces, fits : Workspaces]
                         \cup {None}]
  /\ stale \subseteq Drafts
  /\ faults \in 0..MaxEvents

\* The thread is new, or an earlier mention's draft is waiting in its preview.
Init ==
  /\ \/ /\ drafts = [d \in Drafts |-> None]
        /\ session = None /\ previews = {}
     \/ \E w \in Workspaces :
          /\ drafts = [d \in Drafts |-> IF d # Before THEN None ELSE
                [ws |-> w, mat |-> [fits |-> w, by |-> Before],
                 locked |-> FALSE]]
          /\ session = [NewSession(Before) EXCEPT !.draft = Before,
                                                  !.last = "materialize"]
          /\ previews = {Before}
  /\ turns = [c \in Calls |-> NoTurn]
  /\ pc = [c \in Calls |-> "idle"]
  /\ req = [c \in Calls |-> NoRequest]
  /\ event = [c \in Calls |-> None]
  /\ hpc = [c \in Calls |-> "none"]
  /\ hcopy = [c \in Calls |-> NewDraft]
  /\ forms = {}
  /\ cases = [c \in Calls |-> None]
  /\ stale = {}
  /\ faults = 0

GotoWith(c, p, r) == pc' = [pc EXCEPT ![c] = p] /\ req' = [req EXCEPT ![c] = r]

\* A call that ends forgets what it read.
Goto(c, p) ==
  GotoWith(c, p, IF p \in {"done", "refused"} THEN NoRequest ELSE req[c])
\* The bound: what has happened to the thread from outside.
Events == Cardinality({c \in Calls : pc[c] # "idle"}) + faults
Fault == Events < MaxEvents /\ faults' = faults + 1
Arrives(c) == pc[c] = "idle" /\ Events < MaxEvents
NoFault == UNCHANGED faults

\* SetMaterialization: three fields of a draft that is there.
SetMaterialization(d, w, m, l) ==
  drafts' = [drafts EXCEPT ![d] = IF @ = None THEN None
                                  ELSE [ws |-> w, mat |-> m, locked |-> l]]
-----------------------------------------------------------------------------
(***************************************************************************)
(* A mention.                                                              *)
(***************************************************************************)

\* HandleAppMention saves the draft of the event, which may have been
\* delivered before.
Mention(c) ==
  /\ Arrives(c)
  /\ \E e \in ({event[d] : d \in Calls} \cup {c}) \ {None} :
       /\ event' = [event EXCEPT ![c] = e]
       /\ GotoWith(c, "claim", [NoRequest EXCEPT !.target = c,
                                 !.key = [of |-> "event", id |-> e]])
  /\ drafts' = [drafts EXCEPT ![c] = NewDraft]
  /\ UNCHANGED <<session, turns, handler, slack, cases, stale, faults>>

\* Faulty: a mention writes a Session of its own.
ClaimedBlindly(c) == NewSession(c)

\* Faulty: the mention's draft becomes the thread's before its turn is accepted.
ClaimedFor(c) == IF session = None THEN [NewSession(c) EXCEPT !.draft = c]
                                   ELSE [session EXCEPT !.draft = c]

\* Claim: in a transaction, the first claimer's Session stands.
Claimed(c) == IF session = None THEN NewSession(c) ELSE session

Claim(c) ==
  /\ pc[c] = "claim"
  /\ \/ /\ session' = Claimed(c)
        /\ GotoWith(c, "check", [req[c] EXCEPT !.subject = Claimed(c).id])
        /\ NoFault
     \/ Fault /\ Goto(c, "done") /\ UNCHANGED session
  /\ UNCHANGED <<drafts, turns, event, handler, slack, cases, stale>>

\* The draft an accepted turn owns becomes the thread's.
Associate(c) ==
  /\ pc[c] = "associate"
  /\ \/ session' = [session EXCEPT !.draft = c] /\ NoFault
     \/ Fault /\ UNCHANGED session
  /\ Goto(c, "done")
  /\ UNCHANGED <<drafts, turns, event, handler, slack, cases, stale>>

\* discardDraft: no turn will ever write into the draft.
Discard(c) ==
  /\ pc[c] = "discard"
  /\ \/ drafts' = [drafts EXCEPT ![c] = None] /\ NoFault
     \/ Fault /\ UNCHANGED drafts
  /\ Goto(c, "refused")
  /\ UNCHANGED <<session, turns, event, handler, slack, cases, stale>>
-----------------------------------------------------------------------------
(***************************************************************************)
(* An answer.                                                              *)
(***************************************************************************)

\* shouldResumeOnReply: only a thread that waits for an answer resumes.
Reply(c) ==
  /\ Arrives(c)
  /\ session # None /\ session.last = "question"
  /\ GotoWith(c, "reload",
              [NoRequest EXCEPT !.key = [of |-> "event", id |-> c]])
  /\ UNCHANGED <<store, event, handler, slack, cases, stale, faults>>

\* HandleThreadReply reads the Session again.
Reload(c) ==
  /\ pc[c] = "reload"
  /\ GotoWith(c, "load", [req[c] EXCEPT !.target = session.draft,
                                        !.subject = session.id])
  /\ UNCHANGED <<store, event, handler, slack, cases, stale, faults>>

\* HandleQuestionSubmit, of the form some turn posted.  With no question on
\* record the form is stale.  Which question it answers is not compared: the
\* items of another one may be missing, which only posts the form again.
HandleQuestionSubmit(c, t) ==
  /\ Arrives(c) /\ t \in forms
  /\ session.question # None
  /\ GotoWith(c, "clear", [NoRequest EXCEPT !.key = [of |-> "form", id |-> t],
                              !.target = session.draft, !.subject = session.id])
  /\ UNCHANGED <<store, event, handler, slack, cases, stale, faults>>

\* The question is taken off the record; a failure stops nothing.
ClearQuestion(c) ==
  /\ pc[c] = "clear"
  /\ \/ session' = [session EXCEPT !.question = None] /\ NoFault
     \/ Fault /\ UNCHANGED session
  /\ Goto(c, "load")
  /\ UNCHANGED <<drafts, turns, event, handler, slack, cases, stale>>

\* The turn goes on without the draft if it is gone or cannot be read.
LoadDraft(c) ==
  /\ pc[c] = "load"
  /\ LET gone == [req[c] EXCEPT !.target = None]
         d == req[c].target
     IN \/ /\ GotoWith(c, "check", IF d # None /\ drafts[d] # None THEN req[c]
                                                               ELSE gone)
           /\ NoFault
        \/ Fault /\ GotoWith(c, "check", gone)
  /\ UNCHANGED <<store, event, handler, slack, cases, stale>>
-----------------------------------------------------------------------------
(***************************************************************************)
(* StartTurn.                                                              *)
(***************************************************************************)

IsMention(c) == req[c].target = c
IsSwitch(c) == req[c].key = None

\* What a call does whose turn was refused, or could not be started.
AfterRefusal(c) == IF IsMention(c) THEN "discard"
                   ELSE IF IsSwitch(c) THEN "restore" ELSE "done"
AfterStart(c) == IF IsMention(c) THEN "associate" ELSE "done"

Started(k) == \E t \in Calls : turns[t].status # "none" /\ turns[t].key = k
Busy(s) == \E t \in Calls : turns[t].status = "running" /\ turns[t].subject = s

\* alreadyStarted asks the store for a turn of the same trigger; a failed
\* look-up counts as none.
CheckStarted(c) ==
  /\ pc[c] = "check"
  /\ \/ /\ Goto(c, IF Started(req[c].key) THEN AfterRefusal(c) ELSE "spawn")
        /\ NoFault
     \/ Fault /\ Goto(c, "spawn")
  /\ UNCHANGED <<store, event, handler, slack, cases, stale>>

Spawned(c) ==
  turns' = [turns EXCEPT ![c] =
    [status |-> "running", draft |-> req[c].target, subject |-> req[c].subject,
     key |-> req[c].key]]

\* Spawn: a trigger that has its turn already is accepted without another, a
\* busy thread refuses, and an error may come after the turn was started.
Spawn(c) ==
  /\ pc[c] = "spawn"
  /\ LET twin == ~IsSwitch(c) /\ Started(req[c].key)
         free == ~twin /\ ~Busy(req[c].subject)
     IN \/ twin /\ Goto(c, AfterStart(c)) /\ UNCHANGED turns /\ NoFault
        \/ free /\ Goto(c, AfterStart(c)) /\ Spawned(c) /\ NoFault
        \/ /\ ~twin /\ ~free
           /\ Goto(c, AfterRefusal(c)) /\ UNCHANGED turns /\ NoFault
        \/ Fault /\ Goto(c, AfterRefusal(c)) /\ UNCHANGED turns
        \/ free /\ Fault /\ Goto(c, AfterRefusal(c)) /\ Spawned(c)
  /\ UNCHANGED <<drafts, session, event, handler, slack, cases, stale>>
-----------------------------------------------------------------------------
(***************************************************************************)
(* Clicks on the preview of draft d; they may come late.                   *)
(***************************************************************************)

\* The draft is read and found unlocked.
Click(c, d, next) ==
  /\ Arrives(c) /\ d \in previews
  /\ drafts[d] # None
  /\ GotoWith(c, next, [NoRequest EXCEPT !.target = d, !.copy = drafts[d]])
  /\ UNCHANGED <<store, event, handler, slack, cases, stale, faults>>

HandleSelectWorkspace(c, d) == ~drafts[d].locked /\ Click(c, d, "lock")

\* Faulty: the old materialization stays until the new one is there.
KeptMaterialization(c) == req[c].copy.mat

\* The new workspace has no materialization yet.
LockedMaterialization(c) == None

Lock(c) ==
  /\ pc[c] = "lock"
  /\ \/ /\ drafts[req[c].target] # None
        /\ \E w \in Workspaces :
             SetMaterialization(req[c].target, w, LockedMaterialization(c), TRUE)
        /\ \/ Goto(c, "find") /\ NoFault
           \/ Fault /\ Goto(c, "done")
     \/ /\ UNCHANGED drafts /\ Goto(c, "done")
        /\ \/ drafts[req[c].target] = None /\ NoFault
           \/ Fault
  /\ UNCHANGED <<session, turns, event, handler, slack, cases, stale>>

\* The Session of the thread; a failure here leaves the lock.
FindSession(c) ==
  /\ pc[c] = "find"
  /\ \/ /\ GotoWith(c, "spawn", [req[c] EXCEPT !.subject = session.id])
        /\ NoFault
     \/ Fault /\ Goto(c, "done")
  /\ UNCHANGED <<store, event, handler, slack, cases, stale>>

\* A switch whose turn was not accepted puts the draft back as it read it.
Restore(c) ==
  /\ pc[c] = "restore"
  /\ \/ SetMaterialization(req[c].target, req[c].copy.ws, req[c].copy.mat, FALSE) /\ NoFault
     \/ Fault /\ UNCHANGED drafts
  /\ Goto(c, "done")
  /\ UNCHANGED <<session, turns, event, handler, slack, cases, stale>>

HandleSubmit(c, d) ==
  ~drafts[d].locked /\ drafts[d].mat # None /\ Click(c, d, "create")

HandleEdit(c, d) ==
  ~drafts[d].locked /\ drafts[d].ws # None /\ Click(c, d, "modal")

HandleCancel(c, d) == Click(c, d, "delete")

\* The modal comes back: the draft must be there still.
HandleEditSubmit(c) ==
  /\ pc[c] = "modal" /\ drafts[req[c].target] # None
  /\ Goto(c, "create")
  /\ UNCHANGED <<store, event, handler, slack, cases,
                 stale, faults>>

\* The case is created from the copy: a preview with the materialization it
\* shows, a modal without one with what the user filled in.
CreateCase(c) ==
  /\ pc[c] = "create"
  /\ \/ /\ cases' = [cases EXCEPT ![c] =
              [draft |-> req[c].target, ws |-> req[c].copy.ws,
               fits |-> IF req[c].copy.mat = None THEN req[c].copy.ws
                                              ELSE req[c].copy.mat.fits]]
        /\ Goto(c, "delete") /\ NoFault
     \/ Fault /\ Goto(c, "done") /\ UNCHANGED cases
  /\ UNCHANGED <<store, event, handler, slack, stale>>

Delete(c) ==
  /\ pc[c] = "delete"
  /\ \/ drafts' = [drafts EXCEPT ![req[c].target] = None] /\ NoFault
     \/ Fault /\ UNCHANGED drafts
  /\ Goto(c, "done")
  /\ UNCHANGED <<session, turns, event, handler, slack, cases, stale>>
-----------------------------------------------------------------------------
(***************************************************************************)
(* The end of a turn, and its completion handler.                          *)
(***************************************************************************)

\* A handler that is past the use of its copy forgets it.
Handler(t, p) ==
  /\ hpc' = [hpc EXCEPT ![t] = p]
  /\ hcopy' = IF p \in {"show", "save", "unlock"} THEN hcopy
              ELSE [hcopy EXCEPT ![t] = NewDraft]
HandlerWith(t, p, d) ==
  /\ hpc' = [hpc EXCEPT ![t] = p]
  /\ hcopy' = [hcopy EXCEPT ![t] = d]

\* Faulty: the result goes to the draft the thread points at.
SessionDraft(t) == session.draft

\* The draft is the one the turn was started for.
TargetDraft(t) == turns[t].draft

\* onFinish; a turn without a draft can only fall back.
HandlerFor(t, how) ==
  IF how = "cancelled" THEN "stamp"
  ELSE IF how = "fallback" \/ TargetDraft(t) = None THEN "fallback"
  ELSE IF how = "final" THEN "materialize" ELSE "form"

\* The instance may die before the handler runs.
Finish(t) ==
  /\ turns[t].status = "running"
  /\ \E how \in Outcomes :
       /\ turns' = [turns EXCEPT ![t].status = how]
       /\ \/ Handler(t, HandlerFor(t, how)) /\ NoFault
          \/ Fault /\ Handler(t, "done")
  /\ UNCHANGED <<drafts, session, call, slack, cases, stale>>

\* Materialize writes the result and unlocks the draft.
Materialize(t) ==
  /\ hpc[t] = "materialize"
  /\ LET d == TargetDraft(t)
     IN \/ /\ drafts[d] # None
           /\ \E w \in Workspaces :
                SetMaterialization(d, w, [fits |-> w, by |-> t], FALSE)
           /\ Handler(t, "reload") /\ NoFault
        \/ drafts[d] = None /\ Handler(t, "fallback") /\ UNCHANGED drafts /\ NoFault
        \/ Fault /\ Handler(t, "fallback") /\ UNCHANGED drafts
  /\ UNCHANGED <<session, turns, call, slack, cases, stale>>

\* It reads the draft again, to show it.
ReloadDraft(t) ==
  /\ hpc[t] = "reload"
  /\ LET d == TargetDraft(t)
     IN \/ /\ drafts[d] # None
           /\ HandlerWith(t, "show", drafts[d]) /\ NoFault
        \/ /\ Handler(t, "fallback")
           /\ \/ drafts[d] = None /\ NoFault
              \/ Fault
  /\ UNCHANGED <<store, call, slack, cases, stale>>

\* The preview is posted, or updated where the user clicked.
Show(t) ==
  /\ hpc[t] = "show"
  /\ \/ previews' = previews \cup {TargetDraft(t)} /\ Handler(t, "save") /\ NoFault
     \/ Fault /\ Handler(t, "fallback") /\ UNCHANGED previews
  /\ UNCHANGED <<store, call, forms, cases, stale>>

\* The whole draft is saved with the preview's address, as it was read.
SavePreview(t) ==
  /\ hpc[t] = "save"
  /\ LET d == TargetDraft(t)
     IN \/ /\ drafts' = [drafts EXCEPT ![d] = hcopy[t]]
           /\ stale' = IF drafts[d] = hcopy[t] THEN stale ELSE stale \cup {d}
           /\ Handler(t, "associate") /\ NoFault
        \/ Fault /\ Handler(t, "fallback") /\ UNCHANGED <<drafts, stale>>
  /\ UNCHANGED <<session, turns, call, slack, cases>>

AssociateShown(t) ==
  /\ hpc[t] = "associate"
  /\ \/ session' = [session EXCEPT !.draft = TargetDraft(t)] /\ NoFault
     \/ Fault /\ UNCHANGED session
  /\ Handler(t, "stamp")
  /\ UNCHANGED <<drafts, turns, call, slack, cases, stale>>

\* Question posts the form, Ask records it on the Session.
PostForm(t) ==
  /\ hpc[t] = "form"
  /\ \/ forms' = forms \cup {t} /\ Handler(t, "record") /\ NoFault
     \/ Fault /\ Handler(t, "fallback") /\ UNCHANGED forms
  /\ UNCHANGED <<store, call, previews, cases, stale>>

RecordQuestion(t) ==
  /\ hpc[t] = "record"
  /\ \/ session' = [session EXCEPT !.question = t] /\ Handler(t, "stamp") /\ NoFault
     \/ Fault /\ Handler(t, "fallback") /\ UNCHANGED session
  /\ UNCHANGED <<drafts, turns, call, slack, cases, stale>>

\* Faulty: a turn that came to nothing is just reported.
NoUnlock(d) == FALSE

\* unlockDraft: a draft that is there and locked.
ToUnlock(d) == d # None /\ drafts[d] # None /\ drafts[d].locked

\* ReportFallback.  From here on a question counts as one that was not asked.
Fallback(t) ==
  /\ hpc[t] = "fallback"
  /\ turns' = [turns EXCEPT ![t].status = "fallback"]
  /\ \/ /\ ToUnlock(TargetDraft(t))
        /\ HandlerWith(t, "unlock", drafts[TargetDraft(t)]) /\ NoFault
     \/ /\ Handler(t, "stamp")
        /\ \/ ~ToUnlock(TargetDraft(t)) /\ NoFault
           \/ Fault
  /\ UNCHANGED <<drafts, session, call, slack, cases, stale>>

Unlock(t) ==
  /\ hpc[t] = "unlock"
  /\ \/ /\ SetMaterialization(TargetDraft(t), hcopy[t].ws, hcopy[t].mat, FALSE)
        /\ NoFault
     \/ Fault /\ UNCHANGED drafts
  /\ Handler(t, "stamp")
  /\ UNCHANGED <<session, turns, call, slack, cases, stale>>

\* Faulty: the outcome is stored by its own name.
StampVerbatim(t) == turns[t].status

\* A thread waits for an answer, or it does not.
Stamp(t) == IF turns[t].status = "question" THEN "question" ELSE "materialize"

\* endSession records how the turn ended.
EndSession(t) ==
  /\ hpc[t] = "stamp"
  /\ \/ session' = [session EXCEPT !.last = Stamp(t)] /\ NoFault
     \/ Fault /\ UNCHANGED session
  /\ Handler(t, "done")
  /\ UNCHANGED <<drafts, turns, call, slack, cases, stale>>
-----------------------------------------------------------------------------
Begin(c) ==
  \/ Mention(c) \/ Reply(c)
  \/ \E t \in Calls : HandleQuestionSubmit(c, t)
  \/ \E d \in previews :
       /\ drafts[d] # None
       /\ \/ HandleSelectWorkspace(c, d) \/ HandleSubmit(c, d)
          \/ HandleEdit(c, d) \/ HandleCancel(c, d)

Proceed(c) ==
  \/ Claim(c) \/ Associate(c) \/ Discard(c)
  \/ Reload(c) \/ ClearQuestion(c) \/ LoadDraft(c)
  \/ CheckStarted(c) \/ Spawn(c)
  \/ Lock(c) \/ FindSession(c) \/ Restore(c)
  \/ HandleEditSubmit(c) \/ CreateCase(c) \/ Delete(c)

Complete(t) ==
  \/ Finish(t)
  \/ Materialize(t) \/ ReloadDraft(t) \/ Show(t) \/ SavePreview(t)
  \/ AssociateShown(t)
  \/ PostForm(t) \/ RecordQuestion(t)
  \/ Fallback(t) \/ Unlock(t) \/ EndSession(t)

Next == \E c \in Calls : Begin(c) \/ Proceed(c) \/ Complete(c)

Spec == Init /\ [][Next]_vars
-----------------------------------------------------------------------------
(***************************************************************************)
(* Properties.                                                             *)
(***************************************************************************)

\* A thread has one turn at a time, however many mentions meet in a thread
\* that has no Session yet: they all get the Session the first one made.
OneTurnPerThread ==
  Cardinality({t \in Calls : turns[t].status = "running"}) <= 1

\* The result of a turn lands in the draft the turn was started for, although
\* a later mention may have pointed the thread at another one meanwhile.
ResultInOwnDraft ==
  \A d \in Drafts, t \in Calls :
    drafts[d] # None /\ drafts[d].mat # None /\ drafts[d].mat.by = t
      => turns[t].draft = d

\* A draft whose mention was refused never becomes the thread's draft.
RefusedIsNotTheThreads ==
  \A c \in Calls : pc[c] \in {"discard", "refused"} /\ turns[c].status = "none"
                     => session = None \/ session.draft # c

\* A case gets content made for its workspace, whatever switches and failed
\* turns came before.
ContentFits == \A c \in Calls : cases[c] # None => cases[c].fits = cases[c].ws

\* Without a failure a locked draft has a reason: somebody is on the way to
\* start its turn or to give up on it, or the turn or its handler is still at
\* work, or the turn asked or was cancelled.  (The exceptions are a draft saved
\* over a newer version of itself and one of a mention delivered twice.)
LockHasReason ==
  \A d \in Drafts :
    faults = 0 /\ d \notin stale /\ drafts[d] # None /\ drafts[d].locked =>
      \/ \E c \in Calls : req[c].target = d /\ pc[c] # "delete"
      \/ \E t \in Calls :
           /\ turns[t].draft = d
           /\ \/ turns[t].status \in {"running", "question", "cancelled"}
              \/ hpc[t] \in {"materialize", "fallback", "unlock"}
      \/ d \in Calls /\ \E c \in Calls \ {d} : event[c] = event[d]

\* "Brief lock during creation to prevent double-submit"
\* (slack_mention_interaction.go:184): a draft becomes one case.
OneCasePerDraft ==
  \A c, e \in Calls :
    cases[c] # None /\ cases[e] # None /\ cases[c].draft = cases[e].draft => c = e
=============================================================================

--------------------------- MODULE ProposalProofs ---------------------------
(***************************************************************************)
(* Proofs about Proposal, for any number of events, clicks and workspaces, *)
(* finite or not, and any bound on what happens.                           *)
(*                                                                         *)
(* An action belongs to one call, or to the turn the call started, and     *)
(* touches only that call's own entries (OwnEntries); of what calls share  *)
(* it keeps the id of the thread's Session and the draft of every turn     *)
(* that was started (Kept).  So an invariant that says something of every  *)
(* call has to be looked at for the acting call only.                      *)
(***************************************************************************)
EXTENDS Proposal, FiniteSetTheorems, TLAPS

Step(c) == Begin(c) \/ Proceed(c) \/ Complete(c)
-----------------------------------------------------------------------------
(***************************************************************************)
(* The inductive invariant.                                                *)
(***************************************************************************)

\* The bound counts something: only finitely many calls have arrived.
FewArrived == IsFiniteSet({c \in Calls : pc[c] # "idle"})

\* A materialization some turn made is for the draft that turn was for, and
\* comes with the workspace it fits.
OwnResult(d, m) ==
  m # None /\ m.by \in Calls =>
    turns[m.by].status # "none" /\ turns[m.by].draft = d

WellMade(d, row) ==
  /\ OwnResult(d, row.mat)
  /\ row.mat # None => row.ws # None /\ row.mat.fits = row.ws

DraftsOwn == \A d \in Drafts : drafts[d] # None => WellMade(d, drafts[d])

\* There is one subject in a thread: the id of the Session that was first.
IsSubject(s) == session # None /\ s = session.id

\* What a call knows at each of its steps.
CallKnows(c) ==
  /\ pc[c] \in {"idle", "claim", "reload", "clear", "load", "lock", "find",
                "check", "spawn"} => turns[c].status = "none"
  /\ pc[c] \in {"clear", "load", "check", "spawn"} => req[c].subject # None
  /\ pc[c] \in {"reload", "associate", "lock", "find"} => session # None
  /\ req[c].subject # None => IsSubject(req[c].subject)
  /\ pc[c] \in {"claim", "reload", "clear", "load", "check"} =>
       req[c].key # None /\ req[c].copy.mat = None
  /\ pc[c] \in {"lock", "find"} => req[c].key = None
  /\ \/ pc[c] \in {"lock", "find", "restore", "modal", "create", "delete"}
     \/ pc[c] = "spawn" /\ req[c].key = None
     => req[c].target \in Drafts
  /\ pc[c] \in {"claim", "associate", "discard"} => req[c].target = c
  /\ pc[c] \in {"modal", "create"} => req[c].copy.ws # None
  /\ WellMade(req[c].target, req[c].copy)

\* What a turn and its handler know.
TurnKnows(t) ==
  /\ turns[t].status # "none" => IsSubject(turns[t].subject)
  /\ hpc[t] # "none" => turns[t].status \notin {"none", "running"}
  /\ hpc[t] = "none" => hcopy[t].mat = None
  /\ hpc[t] \in {"materialize", "reload", "show", "save", "associate", "unlock"}
       => turns[t].draft \in Drafts
  /\ t \in forms => turns[t].status # "none"
  /\ WellMade(turns[t].draft, hcopy[t])

CallsKnow == \A c \in Calls : CallKnows(c) /\ TurnKnows(c)

PreviewsKnow == previews # {} => session # None

OneRuns ==
  \A t, u \in Calls :
    turns[t].status = "running" /\ turns[u].status = "running" => t = u

IInv == /\ TypeOK /\ FewArrived /\ DraftsOwn /\ CallsKnow /\ PreviewsKnow
        /\ OneRuns /\ ContentFits
-----------------------------------------------------------------------------
(***************************************************************************)
(* Types.                                                                  *)
(***************************************************************************)

\* The values the actions start from are well typed.
LEMMA StartValues ==
  /\ NewDraft \in Draft
  /\ NoRequest \in Request
  /\ \A c \in Drafts : NewSession(c) \in Session
  /\ \A c \in Calls : c \in Drafts
BY DEF NewDraft, Draft, NoRequest, Request, NewSession, Session, Drafts

\* So is a request with some of its fields filled in.
LEMMA RequestWith ==
  ASSUME NEW r \in Request, NEW d \in Drafts \cup {None}
  PROVE  /\ [r EXCEPT !.target = d] \in Request
         /\ [r EXCEPT !.subject = d] \in Request
         /\ \A s \in Drafts \cup {None} :
              [r EXCEPT !.target = d, !.subject = s] \in Request
         /\ \A k \in Triggers : [r EXCEPT !.key = k] \in Request
         /\ \A k \in Triggers : [r EXCEPT !.target = d, !.key = k] \in Request
         /\ \A w \in Draft : [r EXCEPT !.target = d, !.copy = w] \in Request
         /\ \A s \in Drafts \cup {None}, k \in Triggers :
              [r EXCEPT !.key = k, !.target = d, !.subject = s] \in Request
BY DEF Request

\* A call's step leaves the calls well typed.
LEMMA GotoTyped ==
  ASSUME TypeOK, NEW c \in Calls, NEW p \in Steps
  PROVE  /\ \A r \in Request : GotoWith(c, p, r) =>
              pc' \in [Calls -> Steps] /\ req' \in [Calls -> Request]
         /\ Goto(c, p) =>
              pc' \in [Calls -> Steps] /\ req' \in [Calls -> Request]
<1>1. ASSUME NEW r \in Request, GotoWith(c, p, r)
      PROVE  pc' \in [Calls -> Steps] /\ req' \in [Calls -> Request]
  BY <1>1 DEF GotoWith, TypeOK
<1>2. req[c] \in Request
  BY DEF TypeOK
<1> QED
  BY <1>1, <1>2, StartValues DEF Goto

\* A handler's step leaves the handlers well typed.
LEMMA HandlerTyped ==
  ASSUME TypeOK, NEW t \in Calls, NEW p \in HandlerSteps,
         NEW d \in Draft, Handler(t, p) \/ HandlerWith(t, p, d)
  PROVE  hpc' \in [Calls -> HandlerSteps] /\ hcopy' \in [Calls -> Draft]
BY StartValues DEF Handler, HandlerWith, TypeOK

\* The bound bounds: a fault is counted, and no more than MaxEvents are.
LEMMA FaultTyped ==
  ASSUME TypeOK, FewArrived, Fault \/ NoFault
  PROVE  faults' \in 0..MaxEvents
<1>1. Cardinality({c \in Calls : pc[c] # "idle"}) \in Nat
  BY FS_CardinalityType DEF FewArrived
<1> QED
  BY <1>1, ProposalAssumption DEF Fault, NoFault, Events, TypeOK

\* Writing three fields of a draft leaves the drafts well typed.
LEMMA DraftTyped ==
  ASSUME TypeOK, NEW d, NEW w \in Workspaces \cup {None},
         NEW m \in Materializations \cup {None}, NEW l \in BOOLEAN,
         SetMaterialization(d, w, m, l)
  PROVE  drafts' \in [Drafts -> Draft \cup {None}]
<1>1. [ws |-> w, mat |-> m, locked |-> l] \in Draft
  BY DEF Draft
<1> QED
  BY <1>1 DEF SetMaterialization, TypeOK

\* The fields of stored and copied documents.
LEMMA Fields ==
  ASSUME TypeOK, NEW c \in Calls
  PROVE  /\ req[c] \in Request /\ req[c].target \in Drafts \cup {None}
         /\ req[c].copy \in Draft /\ req[c].subject \in Drafts \cup {None}
         /\ req[c].copy.ws \in Workspaces \cup {None}
         /\ req[c].copy.mat \in Materializations \cup {None}
         /\ req[c].key \in Triggers \cup {None}
         /\ turns[c] \in Turn /\ turns[c].draft \in Drafts \cup {None}
         /\ hcopy[c] \in Draft /\ hcopy[c].ws \in Workspaces \cup {None}
         /\ hcopy[c].mat \in Materializations \cup {None}
         /\ session # None => /\ session \in Session /\ session.id \in Drafts
                              /\ session.draft \in Drafts \cup {None}
<1>1. /\ req[c] \in Request /\ turns[c] \in Turn /\ hcopy[c] \in Draft
      /\ session # None => session \in Session
  BY DEF TypeOK
<1> QED
  BY <1>1 DEF Request, Draft, Turn, Session

\* What a step can leave the thread with, by who takes it.
LEMMA BeginTyped ==
  ASSUME IInv, NEW c \in Calls, Begin(c)
  PROVE  TypeOK'
<1>1. TypeOK /\ FewArrived /\ PreviewsKnow /\ CallsKnow
  BY DEF IInv
<1>2. CASE Mention(c)
  <2>1. PICK e \in Calls :
          /\ event' = [event EXCEPT ![c] = e]
          /\ GotoWith(c, "claim", [NoRequest EXCEPT !.target = c,
                                    !.key = [of |-> "event", id |-> e]])
    BY <1>1, <1>2 DEF Mention, TypeOK
  <2>2. [of |-> "event", id |-> e] \in Triggers
    BY DEF Triggers
  <2>3. pc' \in [Calls -> Steps] /\ req' \in [Calls -> Request]
    BY <1>1, <2>1, <2>2, StartValues, RequestWith, GotoTyped DEF Steps
  <2> QED
    BY <1>1, <1>2, <2>1, <2>3, StartValues DEF Mention, TypeOK, handler, slack
<1>3. CASE Reply(c)
  <2>1. [of |-> "event", id |-> c] \in Triggers
    BY DEF Triggers
  <2>2. pc' \in [Calls -> Steps] /\ req' \in [Calls -> Request]
    BY <1>1, <1>3, <2>1, StartValues, RequestWith, GotoTyped DEF Reply, Steps
  <2> QED
    BY <1>1, <1>3, <2>2 DEF Reply, TypeOK, store, handler, slack
<1>4. ASSUME NEW t \in Calls, HandleQuestionSubmit(c, t) PROVE TypeOK'
  <2>1. [of |-> "form", id |-> t] \in Triggers
    BY DEF Triggers
  <2>2. session # None
    BY <1>1, <1>4 DEF HandleQuestionSubmit, CallsKnow, TurnKnows, IsSubject
  <2>3. session.draft \in Drafts \cup {None} /\ session.id \in Drafts
    BY <1>1, <2>2, Fields
  <2>4. pc' \in [Calls -> Steps] /\ req' \in [Calls -> Request]
    BY <1>1, <1>4, <2>1, <2>3, StartValues, RequestWith, GotoTyped
    DEF HandleQuestionSubmit, Steps
  <2> QED
    BY <1>1, <1>4, <2>4 DEF HandleQuestionSubmit, TypeOK, store, handler, slack
<1>5. ASSUME NEW d \in previews, NEW p \in {"lock", "create", "modal", "delete"},
             Click(c, d, p)
      PROVE  TypeOK'
  <2>1. d \in Drafts /\ drafts[d] \in Draft
    BY <1>1, <1>5 DEF Click, TypeOK
  <2>2. pc' \in [Calls -> Steps] /\ req' \in [Calls -> Request]
    BY <1>1, <1>5, <2>1, StartValues, RequestWith, GotoTyped DEF Click, Steps
  <2> QED
    BY <1>1, <1>5, <2>2 DEF Click, TypeOK, store, handler, slack
<1> QED
  BY <1>2, <1>3, <1>4, <1>5
  DEF Begin, HandleSelectWorkspace, HandleSubmit, HandleEdit, HandleCancel

\* A further step of a call.
LEMMA ProceedTyped ==
  ASSUME IInv, NEW c \in Calls, Proceed(c)
  PROVE  TypeOK'
<1>1. TypeOK /\ FewArrived /\ CallsKnow /\ CallKnows(c)
  BY DEF IInv, CallsKnow
<1>2. (Fault \/ NoFault) => faults' \in 0..MaxEvents
  BY <1>1, FaultTyped
<1>3. CASE Claim(c)
  <2>1. Claimed(c) \in Session /\ Claimed(c).id \in Drafts
    BY <1>1, StartValues, Fields DEF Claimed, NewSession, Drafts
  <2>2. pc' \in [Calls -> Steps] /\ req' \in [Calls -> Request]
    BY <1>1, <1>3, <2>1, Fields, RequestWith, GotoTyped DEF Claim, Steps
  <2> QED
    BY <1>1, <1>2, <1>3, <2>1, <2>2 DEF Claim, TypeOK, handler, slack
<1>4. CASE Associate(c) \/ ClearQuestion(c)
  <2>1. session \in Session
    BY <1>1, <1>4, Fields
    DEF Associate, ClearQuestion, CallKnows, IsSubject
  <2>2. /\ [session EXCEPT !.draft = c] \in Session
        /\ [session EXCEPT !.question = None] \in Session
    BY <2>1 DEF Session, Drafts
  <2>3. pc' \in [Calls -> Steps] /\ req' \in [Calls -> Request]
    BY <1>1, <1>4, GotoTyped DEF Associate, ClearQuestion, Steps
  <2> QED
    BY <1>1, <1>2, <1>4, <2>2, <2>3
    DEF Associate, ClearQuestion, TypeOK, handler, slack
<1>5. CASE Discard(c) \/ Delete(c)
  <2>1. pc' \in [Calls -> Steps] /\ req' \in [Calls -> Request]
    BY <1>1, <1>5, GotoTyped DEF Discard, Delete, Steps
  <2> QED
    BY <1>1, <1>2, <1>5, <2>1 DEF Discard, Delete, TypeOK, handler, slack
<1>6. CASE Reload(c)
  <2>1. session.draft \in Drafts \cup {None} /\ session.id \in Drafts
    BY <1>1, <1>6, Fields DEF Reload, CallKnows
  <2>2. pc' \in [Calls -> Steps] /\ req' \in [Calls -> Request]
    BY <1>1, <1>6, <2>1, Fields, RequestWith, GotoTyped DEF Reload, Steps
  <2> QED
    BY <1>1, <1>6, <2>2 DEF Reload, TypeOK, store, handler, slack
<1>7. CASE LoadDraft(c)
  <2>1. req[c] \in Request /\ [req[c] EXCEPT !.target = None] \in Request
    BY <1>1, Fields, RequestWith
  <2>2. pc' \in [Calls -> Steps] /\ req' \in [Calls -> Request]
    BY <1>1, <1>7, <2>1, GotoTyped DEF LoadDraft, Steps
  <2> QED
    BY <1>1, <1>2, <1>7, <2>2 DEF LoadDraft, TypeOK, store, handler, slack
<1>8. CASE CheckStarted(c)
  <2>1. pc' \in [Calls -> Steps] /\ req' \in [Calls -> Request]
    BY <1>1, <1>8, GotoTyped DEF CheckStarted, Steps, AfterRefusal
  <2> QED
    BY <1>1, <1>2, <1>8, <2>1 DEF CheckStarted, TypeOK, store, handler, slack
<1>9. CASE Spawn(c)
  <2>1. pc' \in [Calls -> Steps] /\ req' \in [Calls -> Request]
    BY <1>1, <1>9, GotoTyped DEF Spawn, Steps, AfterRefusal, AfterStart
  <2>2. [status |-> "running", draft |-> req[c].target,
         subject |-> req[c].subject, key |-> req[c].key] \in Turn
    BY <1>1, Fields DEF Turn
  <2>3. turns' \in [Calls -> Turn]
    BY <1>1, <1>9, <2>2 DEF Spawn, Spawned, TypeOK
  <2>4. faults' \in 0..MaxEvents
    BY <1>2, <1>9 DEF Spawn
  <2> QED
    BY <1>1, <1>9, <2>1, <2>3, <2>4 DEF Spawn, TypeOK, handler, slack
<1>10. CASE Lock(c)
  <2>1. pc' \in [Calls -> Steps] /\ req' \in [Calls -> Request]
    BY <1>1, <1>10, GotoTyped DEF Lock, Steps
  <2>2. drafts' \in [Drafts -> Draft \cup {None}]
    <3>1. CASE UNCHANGED drafts
      BY <1>1, <3>1 DEF TypeOK
    <3>2. ASSUME NEW w \in Workspaces,
                 SetMaterialization(req[c].target, w, None, TRUE)
          PROVE  drafts' \in [Drafts -> Draft \cup {None}]
      BY <1>1, <3>2, DraftTyped
    <3> QED
      BY <1>10, <3>1, <3>2 DEF Lock, LockedMaterialization
  <2>3. faults' \in 0..MaxEvents
    BY <1>2, <1>10 DEF Lock
  <2> QED
    BY <1>1, <1>10, <2>1, <2>2, <2>3 DEF Lock, TypeOK, handler, slack
<1>11. CASE FindSession(c)
  <2>1. session.id \in Drafts
    BY <1>1, <1>11, Fields DEF FindSession, CallKnows
  <2>2. pc' \in [Calls -> Steps] /\ req' \in [Calls -> Request]
    BY <1>1, <1>11, <2>1, Fields, RequestWith, GotoTyped DEF FindSession, Steps
  <2> QED
    BY <1>1, <1>2, <1>11, <2>2 DEF FindSession, TypeOK, store, handler, slack
<1>12. CASE Restore(c)
  <2>1. pc' \in [Calls -> Steps] /\ req' \in [Calls -> Request]
    BY <1>1, <1>12, GotoTyped DEF Restore, Steps
  <2>2. drafts' \in [Drafts -> Draft \cup {None}]
    <3>1. CASE UNCHANGED drafts
      BY <1>1, <3>1 DEF TypeOK
    <3>2. CASE SetMaterialization(req[c].target, req[c].copy.ws,
                                  req[c].copy.mat, FALSE)
      BY <1>1, <3>2, Fields, DraftTyped
    <3> QED
      BY <1>12, <3>1, <3>2 DEF Restore
  <2> QED
    BY <1>1, <1>2, <1>12, <2>1, <2>2 DEF Restore, TypeOK, handler, slack
<1>13. CASE HandleEditSubmit(c)
  <2>1. pc' \in [Calls -> Steps] /\ req' \in [Calls -> Request]
    BY <1>1, <1>13, GotoTyped DEF HandleEditSubmit, Steps
  <2> QED
    BY <1>1, <1>13, <2>1 DEF HandleEditSubmit, TypeOK, store, handler, slack
<1>14. CASE CreateCase(c)
  <2>1. pc' \in [Calls -> Steps] /\ req' \in [Calls -> Request]
    BY <1>1, <1>14, GotoTyped DEF CreateCase, Steps
  <2>2. req[c].copy.ws \in Workspaces /\ req[c].target \in Drafts
    BY <1>1, <1>14, Fields DEF CreateCase, CallKnows
  <2>3. req[c].copy.mat # None => req[c].copy.mat.fits \in Workspaces
    BY <1>1, Fields DEF Materializations
  <2>4. cases' \in [Calls -> [draft : Drafts, ws : Workspaces,
                              fits : Workspaces] \cup {None}]
    BY <1>1, <1>14, <2>2, <2>3 DEF CreateCase, TypeOK
  <2> QED
    BY <1>1, <1>2, <1>14, <2>1, <2>4 DEF CreateCase, TypeOK, store, handler, slack
<1> QED
  BY <1>3, <1>4, <1>5, <1>6, <1>7, <1>8, <1>9, <1>10, <1>11, <1>12, <1>13,
     <1>14 DEF Proceed

\* A step of a turn or of its completion handler.
LEMMA CompleteTyped ==
  ASSUME IInv, NEW t \in Calls, Complete(t)
  PROVE  TypeOK'
<1>1. TypeOK /\ FewArrived /\ CallsKnow /\ TurnKnows(t)
  BY DEF IInv, CallsKnow
<1>2. (Fault \/ NoFault) => faults' \in 0..MaxEvents
  BY <1>1, FaultTyped
<1>3. hpc[t] # "none" => session # None /\ session \in Session
  BY <1>1, Fields DEF TurnKnows, IsSubject
<1>4. /\ \A p \in HandlerSteps : Handler(t, p) =>
           hpc' \in [Calls -> HandlerSteps] /\ hcopy' \in [Calls -> Draft]
      /\ \A p \in HandlerSteps, d \in Draft : HandlerWith(t, p, d) =>
           hpc' \in [Calls -> HandlerSteps] /\ hcopy' \in [Calls -> Draft]
  BY <1>1, HandlerTyped, StartValues
<1>5. turns[t] \in Turn
        /\ \A how \in Outcomes : [turns[t] EXCEPT !.status = how] \in Turn
  BY <1>1, Fields DEF Turn
<1>6. CASE Finish(t)
  <2>1. hpc' \in [Calls -> HandlerSteps] /\ hcopy' \in [Calls -> Draft]
    BY <1>4, <1>6 DEF Finish, HandlerFor, HandlerSteps, Outcomes
  <2>2. turns' \in [Calls -> Turn]
    BY <1>1, <1>5, <1>6 DEF Finish, TypeOK
  <2> QED
    BY <1>1, <1>2, <1>6, <2>1, <2>2 DEF Finish, TypeOK, call, slack
<1>7. CASE Materialize(t)
  <2>1. hpc' \in [Calls -> HandlerSteps] /\ hcopy' \in [Calls -> Draft]
    BY <1>4, <1>7 DEF Materialize, HandlerSteps
  <2>2. drafts' \in [Drafts -> Draft \cup {None}]
    <3>1. CASE UNCHANGED drafts
      BY <1>1, <3>1 DEF TypeOK
    <3>2. ASSUME NEW w \in Workspaces,
                 SetMaterialization(TargetDraft(t), w,
                                    [fits |-> w, by |-> t], FALSE)
          PROVE  drafts' \in [Drafts -> Draft \cup {None}]
      <4>1. [fits |-> w, by |-> t] \in Materializations
        BY DEF Materializations, Drafts
      <4> QED
        BY <1>1, <3>2, <4>1, DraftTyped
    <3> QED
      BY <1>7, <3>1, <3>2 DEF Materialize
  <2> QED
    BY <1>1, <1>2, <1>7, <2>1, <2>2 DEF Materialize, TypeOK, call, slack
<1>8. CASE ReloadDraft(t)
  <2>1. TargetDraft(t) \in Drafts
    BY <1>1, <1>8 DEF ReloadDraft, TurnKnows, TargetDraft
  <2>2. hpc' \in [Calls -> HandlerSteps] /\ hcopy' \in [Calls -> Draft]
    BY <1>1, <1>4, <1>8, <2>1 DEF ReloadDraft, HandlerSteps, TypeOK
  <2> QED
    BY <1>1, <1>2, <1>8, <2>2 DEF ReloadDraft, TypeOK, store, call, slack
<1>9. CASE Show(t)
  <2>1. hpc' \in [Calls -> HandlerSteps] /\ hcopy' \in [Calls -> Draft]
    BY <1>4, <1>9 DEF Show, HandlerSteps
  <2>2. TargetDraft(t) \in Drafts
    BY <1>1, <1>9 DEF Show, TurnKnows, TargetDraft
  <2> QED
    BY <1>1, <1>2, <1>9, <2>1, <2>2 DEF Show, TypeOK, store, call
<1>10. CASE SavePreview(t)
  <2>1. hpc' \in [Calls -> HandlerSteps] /\ hcopy' \in [Calls -> Draft]
    BY <1>4, <1>10 DEF SavePreview, HandlerSteps
  <2>2. hcopy[t] \in Draft /\ TargetDraft(t) \in Drafts
    BY <1>1, <1>10, Fields DEF SavePreview, TurnKnows, TargetDraft
  <2> QED
    BY <1>1, <1>2, <1>10, <2>1, <2>2 DEF SavePreview, TypeOK, call, slack
<1>11. CASE AssociateShown(t) \/ RecordQuestion(t) \/ EndSession(t)
  <2>1. hpc' \in [Calls -> HandlerSteps] /\ hcopy' \in [Calls -> Draft]
    BY <1>4, <1>11 DEF AssociateShown, RecordQuestion, EndSession, HandlerSteps
  <2>2. session \in Session
    BY <1>3, <1>11 DEF AssociateShown, RecordQuestion, EndSession
  <2>3. TargetDraft(t) \in Drafts \cup {None}
    BY <1>1, Fields DEF TargetDraft
  <2>4. session' \in Session
    BY <1>11, <2>2, <2>3
    DEF AssociateShown, RecordQuestion, EndSession, Session, Stamp
  <2> QED
    BY <1>1, <1>2, <1>11, <2>1, <2>4
    DEF AssociateShown, RecordQuestion, EndSession, TypeOK, call, slack
<1>12. CASE PostForm(t)
  <2>1. hpc' \in [Calls -> HandlerSteps] /\ hcopy' \in [Calls -> Draft]
    BY <1>4, <1>12 DEF PostForm, HandlerSteps
  <2> QED
    BY <1>1, <1>2, <1>12, <2>1 DEF PostForm, TypeOK, store, call
<1>13. CASE Fallback(t)
  <2>1. ToUnlock(TargetDraft(t)) => drafts[TargetDraft(t)] \in Draft
    BY <1>1, Fields DEF ToUnlock, TargetDraft, TypeOK
  <2>2. hpc' \in [Calls -> HandlerSteps] /\ hcopy' \in [Calls -> Draft]
    BY <1>4, <1>13, <2>1 DEF Fallback, HandlerSteps
  <2>3. turns' \in [Calls -> Turn]
    BY <1>1, <1>5, <1>13 DEF Fallback, TypeOK, Outcomes
  <2> QED
    BY <1>1, <1>2, <1>13, <2>2, <2>3 DEF Fallback, TypeOK, call, slack
<1>14. CASE Unlock(t)
  <2>1. hpc' \in [Calls -> HandlerSteps] /\ hcopy' \in [Calls -> Draft]
    BY <1>4, <1>14 DEF Unlock, HandlerSteps
  <2>2. drafts' \in [Drafts -> Draft \cup {None}]
    <3>1. CASE UNCHANGED drafts
      BY <1>1, <3>1 DEF TypeOK
    <3>2. CASE SetMaterialization(TargetDraft(t), hcopy[t].ws, hcopy[t].mat,
                                  FALSE)
      BY <1>1, <3>2, Fields, DraftTyped
    <3> QED
      BY <1>14, <3>1, <3>2 DEF Unlock
  <2> QED
    BY <1>1, <1>2, <1>14, <2>1, <2>2 DEF Unlock, TypeOK, call, slack
<1> QED
  BY <1>6, <1>7, <1>8, <1>9, <1>10, <1>11, <1>12, <1>13, <1>14 DEF Complete
-----------------------------------------------------------------------------
(***************************************************************************)
(* What a step leaves alone.                                               *)
(***************************************************************************)

\* Of what calls share, a step keeps the Session's id and started turns.
Kept ==
  /\ session # None => session' # None /\ session'.id = session.id
  /\ \A t \in Calls : turns[t].status # "none" =>
       /\ turns'[t].status # "none"
       /\ turns'[t].draft = turns[t].draft
       /\ turns'[t].subject = turns[t].subject
       /\ turns'[t].key = turns[t].key

\* A step is one call's, and touches the entries of no other.
OthersKept(c) ==
  \A e \in Calls \ {c} :
    /\ pc'[e] = pc[e] /\ req'[e] = req[e] /\ event'[e] = event[e]
    /\ turns'[e] = turns[e]
    /\ hpc'[e] = hpc[e] /\ hcopy'[e] = hcopy[e]
    /\ e \in forms' <=> e \in forms

\* Calls meet in the drafts, the Session and the previews only.
LEMMA OwnEntries ==
  ASSUME TypeOK, NEW c \in Calls, Step(c)
  PROVE  OthersKept(c)
<1>1. CASE Begin(c)
  BY <1>1 DEF OthersKept, Begin, Mention, Reply, HandleQuestionSubmit, Click,
     HandleSelectWorkspace, HandleSubmit, HandleEdit, HandleCancel, GotoWith,
     store, handler, slack, TypeOK
<1>2. CASE Proceed(c)
  BY <1>2 DEF OthersKept, Proceed, Claim, Associate, Discard, Reload,
     ClearQuestion, LoadDraft, CheckStarted, Spawn, Spawned, Lock, FindSession,
     Restore, HandleEditSubmit, CreateCase, Delete, Goto, GotoWith,
     store, handler, slack, TypeOK
<1>3. CASE Complete(c)
  BY <1>3 DEF OthersKept, Complete, Finish, Materialize, ReloadDraft, Show,
     SavePreview, AssociateShown, PostForm, RecordQuestion, Fallback, Unlock,
     EndSession, Handler, HandlerWith, store, call, slack, TypeOK
<1> QED
  BY <1>1, <1>2, <1>3 DEF Step

\* A Session with one of its other fields set has the id it had.
LEMMA SessionWith ==
  ASSUME NEW s \in Session, NEW r,
         \/ r = s
         \/ \E d \in Drafts \cup {None} : r = [s EXCEPT !.draft = d]
         \/ \E q \in Calls \cup {None} : r = [s EXCEPT !.question = q]
         \/ \E l \in {"none", "question", "materialize"} :
              r = [s EXCEPT !.last = l]
  PROVE  r \in Session /\ r.id = s.id /\ r # None
<1>1. r \in Session /\ r.id = s.id
  BY DEF Session
<1> QED
  BY <1>1, NoneAssumption

\* The first Session of a thread is its Session, and a turn keeps its draft.
LEMMA StepKeeps ==
  ASSUME IInv, NEW c \in Calls, Step(c)
  PROVE  Kept
<1>1. TypeOK /\ CallKnows(c)
  BY DEF IInv, CallsKnow
<1>2. session # None => session \in Session
  BY <1>1 DEF TypeOK
<1>3. CASE Begin(c)
  BY <1>3 DEF Kept, Begin, Mention, Reply, HandleQuestionSubmit, Click,
     HandleSelectWorkspace, HandleSubmit, HandleEdit, HandleCancel, store
<1>4. CASE Claim(c) \/ Associate(c) \/ ClearQuestion(c)
  <2>1. UNCHANGED turns
    BY <1>4 DEF Claim, Associate, ClearQuestion
  <2>2. session # None => session' # None /\ session'.id = session.id
    <3>1. session # None => session \in Session
      BY <1>1 DEF TypeOK
    <3>2. CASE Claim(c) /\ session # None
      BY <3>2 DEF Claim, Claimed
    <3>3. CASE (Associate(c) \/ ClearQuestion(c)) /\ session # None
      <4>1. c \in Drafts /\ None \in Calls \cup {None}
        BY DEF Drafts
      <4>2. /\ session' = session \/ session' = [session EXCEPT !.draft = c]
               \/ session' = [session EXCEPT !.question = None]
        BY <3>3 DEF Associate, ClearQuestion
      <4> QED
        BY <3>1, <3>3, <4>1, <4>2, SessionWith
    <3> QED
      BY <1>4, <3>2, <3>3
  <2> QED
    BY <2>1, <2>2 DEF Kept
<1>5. CASE Spawn(c)
  <2>1. turns[c].status = "none"
    BY <1>1, <1>5 DEF Spawn, CallKnows
  <2> QED
    BY <1>1, <1>5, <2>1 DEF Kept, Spawn, Spawned, TypeOK
<1>6. CASE Proceed(c)
  BY <1>4, <1>5, <1>6 DEF Kept, Proceed, Discard, Reload, LoadDraft,
     CheckStarted, Lock, FindSession, Restore, HandleEditSubmit, CreateCase,
     Delete, store
<1>7. CASE Finish(c) \/ Fallback(c)
  <2>1. UNCHANGED session
    BY <1>7 DEF Finish, Fallback
  <2>2. PICK how \in Outcomes : turns' = [turns EXCEPT ![c].status = how]
    BY <1>7 DEF Finish, Fallback, Outcomes
  <2>3. \A t \in Calls : turns[t] \in Turn
    BY <1>1 DEF TypeOK
  <2> QED
    BY <1>1, <2>1, <2>2, <2>3 DEF Kept, Outcomes, Turn, TypeOK
<1>8. CASE AssociateShown(c) \/ RecordQuestion(c) \/ EndSession(c)
  <2>1. UNCHANGED turns
    BY <1>8 DEF AssociateShown, RecordQuestion, EndSession
  <2>2. session # None => session' # None /\ session'.id = session.id
    <3>1. TargetDraft(c) \in Drafts \cup {None}
            /\ Stamp(c) \in {"none", "question", "materialize"}
      BY <1>1, Fields DEF TargetDraft, Stamp
    <3>2. \/ session' = session
          \/ session' = [session EXCEPT !.draft = TargetDraft(c)]
          \/ session' = [session EXCEPT !.question = c]
          \/ session' = [session EXCEPT !.last = Stamp(c)]
      BY <1>8 DEF AssociateShown, RecordQuestion, EndSession
    <3> QED
      BY <1>2, <3>1, <3>2, SessionWith
  <2> QED
    BY <2>1, <2>2 DEF Kept
<1>9. CASE Complete(c)
  BY <1>7, <1>8, <1>9 DEF Kept, Complete, Materialize, ReloadDraft, Show,
     SavePreview, PostForm, Unlock, store
<1> QED
  BY <1>3, <1>6, <1>9 DEF Step

\* So what a document or a request was made for stays true.
LEMMA KeptFacts ==
  ASSUME Kept
  PROVE  /\ \A d, row : WellMade(d, row) => WellMade(d, row)'
         /\ \A s : IsSubject(s) => IsSubject(s)'
BY DEF Kept, WellMade, OwnResult, IsSubject

\* What the other calls know stays true.
LEMMA OthersKnow ==
  ASSUME CallsKnow, Kept, NEW c \in Calls, OthersKept(c),
         NEW e \in Calls \ {c}
  PROVE  CallKnows(e)' /\ TurnKnows(e)'
<1>1. /\ pc'[e] = pc[e] /\ req'[e] = req[e] /\ turns'[e] = turns[e]
      /\ hpc'[e] = hpc[e] /\ hcopy'[e] = hcopy[e]
      /\ e \in forms' <=> e \in forms
  BY DEF OthersKept
<1>2. /\ WellMade(req[e].target, req[e].copy)'
      /\ WellMade(turns[e].draft, hcopy[e])'
  BY <1>1, KeptFacts DEF CallsKnow, CallKnows, TurnKnows
<1>3. CallKnows(e)'
  BY <1>1, <1>2 DEF CallsKnow, CallKnows, Kept, IsSubject
<1>4. TurnKnows(e)'
  BY <1>1, <1>2 DEF CallsKnow, TurnKnows, Kept, IsSubject
<1> QED
  BY <1>3, <1>4
-----------------------------------------------------------------------------
(***************************************************************************)
(* The acting call and its turn.                                           *)
(***************************************************************************)

\* A call that begins knows what its first step needs.
LEMMA BeginKnows ==
  ASSUME IInv, NEW c \in Calls, Begin(c), Kept
  PROVE  CallKnows(c)' /\ TurnKnows(c)'
<1>1. TypeOK /\ CallKnows(c) /\ TurnKnows(c) /\ PreviewsKnow /\ DraftsOwn
        /\ \A t \in Calls : TurnKnows(t)
  BY DEF IInv, CallsKnow
<1>2. pc[c] = "idle" /\ turns[c].status = "none"
  BY <1>1 DEF Begin, Mention, Reply, HandleQuestionSubmit, Click, Arrives,
     HandleSelectWorkspace, HandleSubmit, HandleEdit, HandleCancel, CallKnows
<1>3. turns' = turns /\ hpc' = hpc /\ hcopy' = hcopy /\ forms' = forms
        /\ session' = session
  BY DEF Begin, Mention, Reply, HandleQuestionSubmit, Click, Arrives,
     HandleSelectWorkspace, HandleSubmit, HandleEdit, HandleCancel,
     store, handler, slack
<1>4. TurnKnows(c)'
  <2>1. WellMade(turns[c].draft, hcopy[c])'
    BY <1>1, <1>3, KeptFacts DEF TurnKnows
  <2> QED
    BY <1>1, <1>2, <1>3, <2>1 DEF TurnKnows, IsSubject
<1>5. /\ NoRequest \in Request /\ NoRequest.copy.mat = None
      /\ NoRequest.subject = None /\ NoRequest.key = None
      /\ \A e \in Calls : /\ [of |-> "event", id |-> e] # None
                          /\ [of |-> "form", id |-> e] # None
  BY StartValues, NoneAssumption DEF NoRequest, NewDraft, Triggers
<1>6. CASE Mention(c)
  <2>1. PICK e \in Calls :
          GotoWith(c, "claim", [NoRequest EXCEPT !.target = c,
                                  !.key = [of |-> "event", id |-> e]])
    BY <1>1, <1>6 DEF Mention, TypeOK
  <2>2. /\ pc'[c] = "claim" /\ req'[c].target = c /\ req'[c].subject = None
        /\ req'[c].key # None /\ req'[c].copy.mat = None
    BY <1>1, <1>5, <2>1 DEF GotoWith, TypeOK, Request
  <2> QED
    BY <1>2, <1>3, <1>4, <2>2 DEF CallKnows, WellMade, OwnResult
<1>7. CASE Reply(c)
  <2>1. /\ pc'[c] = "reload" /\ req'[c].subject = None /\ session # None
        /\ req'[c].key # None /\ req'[c].copy.mat = None
    BY <1>1, <1>5, <1>7 DEF Reply, GotoWith, TypeOK, Request
  <2> QED
    BY <1>2, <1>3, <1>4, <2>1 DEF CallKnows, WellMade, OwnResult
<1>8. ASSUME NEW t \in Calls, HandleQuestionSubmit(c, t)
      PROVE  CallKnows(c)' /\ TurnKnows(c)'
  <2>1. session # None /\ session.id \in Drafts /\ None \notin Drafts
    BY <1>1, <1>8, Fields, ProposalAssumption
    DEF HandleQuestionSubmit, TurnKnows, IsSubject, Drafts
  <2>2. /\ pc'[c] = "clear" /\ req'[c].subject = session.id
        /\ req'[c].key # None /\ req'[c].copy.mat = None
    BY <1>1, <1>5, <1>8 DEF HandleQuestionSubmit, GotoWith, TypeOK, Request
  <2> QED
    BY <1>2, <1>3, <1>4, <2>1, <2>2
    DEF CallKnows, WellMade, OwnResult, IsSubject
<1>9. ASSUME NEW d \in previews, drafts[d] # None,
             \/ Click(c, d, "lock") \/ Click(c, d, "delete")
             \/ Click(c, d, "create") /\ drafts[d].mat # None
             \/ Click(c, d, "modal") /\ drafts[d].ws # None
      PROVE  CallKnows(c)' /\ TurnKnows(c)'
  <2>1. session # None /\ d \in Drafts /\ WellMade(d, drafts[d])
    BY <1>1, <1>9 DEF PreviewsKnow, TypeOK, DraftsOwn
  <2>2. /\ pc'[c] \in {"lock", "delete", "create", "modal"}
        /\ req'[c].subject = None /\ req'[c].key = None
        /\ req'[c].target = d /\ req'[c].copy = drafts[d]
    <3>1. /\ pc'[c] \in {"lock", "delete", "create", "modal"}
          /\ req'[c] = [NoRequest EXCEPT !.target = d, !.copy = drafts[d]]
      BY <1>1, <1>9 DEF Click, GotoWith, TypeOK
    <3> QED
      BY <1>5, <3>1 DEF Request
  <2>3. pc'[c] \in {"modal", "create"} => drafts[d].ws # None
    BY <1>1, <1>9, <2>1 DEF Click, GotoWith, TypeOK, WellMade
  <2>4. WellMade(req[c].target, req[c].copy)'
    BY <2>1, <2>2, KeptFacts
  <2> QED
    BY <1>2, <1>3, <1>4, <2>1, <2>2, <2>3, <2>4 DEF CallKnows
<1> QED
  BY <1>6, <1>7, <1>8, <1>9
  DEF Begin, HandleSelectWorkspace, HandleSubmit, HandleEdit, HandleCancel

\* A call that ends has forgotten all it read.
LEMMA GotoKnows ==
  ASSUME TypeOK, NEW c \in Calls, NEW p \in Steps, Goto(c, p)
  PROVE  /\ pc'[c] = p
         /\ p \notin {"done", "refused"} => req'[c] = req[c]
         /\ p \in {"done", "refused"} => CallKnows(c)'
<1>1. /\ pc'[c] = p
      /\ p \notin {"done", "refused"} => req'[c] = req[c]
      /\ p \in {"done", "refused"} => req'[c] = NoRequest
  BY DEF Goto, GotoWith, TypeOK
<1>2. p \in {"done", "refused"} => CallKnows(c)'
  BY <1>1 DEF CallKnows, NoRequest, NewDraft, WellMade, OwnResult
<1> QED
  BY <1>1, <1>2

\* What it knows it keeps, or learns, from step to step.
LEMMA ProceedKnows ==
  ASSUME IInv, NEW c \in Calls, Proceed(c), Kept
  PROVE  CallKnows(c)' /\ TurnKnows(c)'
<1>1. TypeOK /\ CallKnows(c) /\ TurnKnows(c)
  BY DEF IInv, CallsKnow
<1>2. /\ req[c] \in Request
      /\ req[c].subject # None =>
           session' # None /\ session'.id = req[c].subject
      /\ req'[c].target = req[c].target /\ req'[c].copy = req[c].copy
           => WellMade(req[c].target, req[c].copy)'
  BY <1>1, Fields, KeptFacts DEF CallKnows, Kept, IsSubject
<1>3. hpc' = hpc /\ hcopy' = hcopy /\ forms' = forms
  BY DEF Proceed, Claim, Associate, Discard, Reload, ClearQuestion, LoadDraft,
     CheckStarted, Spawn, Lock, FindSession, Restore, HandleEditSubmit,
     CreateCase, Delete, handler, slack
<1>4. CASE Spawn(c)
  <2>1. /\ turns[c].status = "none" /\ hpc[c] = "none" /\ hcopy[c].mat = None
        /\ c \notin forms
        /\ session' # None /\ session'.id = req[c].subject
    BY <1>1, <1>2, <1>4 DEF Spawn, CallKnows, TurnKnows
  <2>2. \/ turns' = turns
        \/ turns'[c].subject = req[c].subject
    BY <1>1, <1>4 DEF Spawn, Spawned, TypeOK
  <2>3. TurnKnows(c)'
    BY <1>3, <2>1, <2>2 DEF TurnKnows, WellMade, OwnResult, IsSubject
  <2>4. AfterStart(c) \in Steps /\ AfterRefusal(c) \in Steps
    BY DEF AfterStart, AfterRefusal, Steps
  <2>5. Goto(c, AfterStart(c)) \/ Goto(c, AfterRefusal(c))
    BY <1>4 DEF Spawn
  <2>7. CASE Goto(c, AfterStart(c))
    <3>1. CASE req[c].target = c
      <4>1. pc'[c] = "associate" /\ req'[c] = req[c]
        BY <1>1, <2>4, <2>7, <3>1, GotoKnows DEF AfterStart, IsMention
      <4> QED
        BY <1>2, <2>1, <2>3, <3>1, <4>1 DEF CallKnows, IsSubject
    <3>2. CASE req[c].target # c
      BY <1>1, <2>3, <2>4, <2>7, <3>2, GotoKnows DEF AfterStart, IsMention
    <3> QED
      BY <3>1, <3>2
  <2>8. CASE Goto(c, AfterRefusal(c))
    <3>1. CASE AfterRefusal(c) = "done"
      BY <1>1, <2>3, <2>4, <2>8, <3>1, GotoKnows
    <3>2. CASE AfterRefusal(c) # "done"
      <4>1. pc'[c] = AfterRefusal(c) /\ req'[c] = req[c]
        BY <1>1, <2>4, <2>8, <3>2, GotoKnows DEF AfterRefusal
      <4>2. req[c].key = None => req[c].target \in Drafts
        BY <1>1, <1>4 DEF CallKnows, Spawn
      <4> QED
        BY <1>2, <2>1, <2>3, <3>2, <4>1, <4>2
        DEF AfterRefusal, IsMention, IsSwitch, CallKnows, IsSubject
    <3> QED
      BY <3>1, <3>2
  <2> QED
    BY <2>3, <2>5, <2>7, <2>8
<1>5. ASSUME ~Spawn(c) PROVE turns' = turns /\ TurnKnows(c)'
  <2>1. turns' = turns
    BY <1>5 DEF Proceed, Claim, Associate, Discard, Reload, ClearQuestion,
       LoadDraft, CheckStarted, Lock, FindSession, Restore, HandleEditSubmit,
       CreateCase, Delete, store
  <2>2. WellMade(turns[c].draft, hcopy[c])'
    BY <1>1, <1>3, <2>1, KeptFacts DEF TurnKnows
  <2> QED
    BY <1>1, <1>3, <2>1, <2>2, KeptFacts DEF TurnKnows
<1>6. CASE Claim(c)
  <2>1. /\ turns[c].status = "none" /\ req[c].target = c
        /\ req[c].key # None /\ req[c].copy.mat = None
    BY <1>1, <1>6 DEF Claim, CallKnows
  <2>2. \/ Goto(c, "done")
        \/ /\ pc'[c] = "check" /\ session' = Claimed(c)
           /\ req'[c] = [req[c] EXCEPT !.subject = Claimed(c).id]
    BY <1>1, <1>6 DEF Claim, GotoWith, TypeOK
  <2>3. CASE Goto(c, "done")
    BY <1>1, <1>5, <1>6, <2>3, GotoKnows DEF Claim, Spawn, Steps
  <2>4. CASE pc'[c] = "check" /\ session' = Claimed(c)
              /\ req'[c] = [req[c] EXCEPT !.subject = Claimed(c).id]
    <3>1. Claimed(c) \in Session /\ Claimed(c) # None
      BY <1>1, StartValues, Fields, NoneAssumption DEF Claimed, Drafts
    <3>2. Claimed(c).id \in Drafts /\ None \notin Drafts
      BY <3>1, ProposalAssumption DEF Session, Drafts
    <3>3. /\ req'[c].subject = Claimed(c).id /\ req'[c].key = req[c].key
          /\ req'[c].target = req[c].target /\ req'[c].copy = req[c].copy
      BY <1>2, <2>4 DEF Request
    <3>4. turns' = turns /\ TurnKnows(c)'
      BY <1>5, <1>6 DEF Claim, Spawn
    <3> QED
      BY <1>2, <2>1, <2>4, <3>1, <3>2, <3>3, <3>4 DEF CallKnows, IsSubject
  <2> QED
    BY <1>5, <1>6, <2>2, <2>3, <2>4 DEF Claim, Spawn
<1>7. CASE Reload(c)
  <2>1. /\ turns[c].status = "none" /\ session # None
        /\ req[c].key # None /\ req[c].copy.mat = None
    BY <1>1, <1>7 DEF Reload, CallKnows
  <2>2. session.id \in Drafts /\ None \notin Drafts
    BY <1>1, <2>1, Fields, ProposalAssumption DEF Drafts
  <2>3. /\ pc'[c] = "load" /\ session' = session /\ turns' = turns
        /\ req'[c].subject = session.id /\ req'[c].key = req[c].key
        /\ req'[c].copy = req[c].copy
    BY <1>1, <1>2, <1>7 DEF Reload, GotoWith, TypeOK, Request, store
  <2>4. TurnKnows(c)'
    BY <1>5, <1>7 DEF Reload, Spawn
  <2> QED
    BY <2>1, <2>2, <2>3, <2>4 DEF CallKnows, IsSubject, WellMade, OwnResult
<1>8. CASE LoadDraft(c)
  <2>1. /\ turns[c].status = "none" /\ req[c].subject # None
        /\ req[c].key # None /\ req[c].copy.mat = None
    BY <1>1, <1>8 DEF LoadDraft, CallKnows
  <2>2. /\ pc'[c] = "check" /\ turns' = turns
        /\ req'[c].subject = req[c].subject /\ req'[c].key = req[c].key
        /\ req'[c].copy = req[c].copy
    BY <1>1, <1>2, <1>8 DEF LoadDraft, GotoWith, TypeOK, Request, store
  <2>3. TurnKnows(c)'
    BY <1>5, <1>8 DEF LoadDraft, Spawn
  <2> QED
    BY <1>2, <2>1, <2>2, <2>3 DEF CallKnows, WellMade, OwnResult, IsSubject
<1>9. CASE FindSession(c)
  <2>1. /\ turns[c].status = "none" /\ session # None
        /\ req[c].key = None /\ req[c].target \in Drafts
    BY <1>1, <1>9 DEF FindSession, CallKnows
  <2>2. session.id \in Drafts /\ None \notin Drafts
    BY <1>1, <2>1, Fields, ProposalAssumption DEF Drafts
  <2>3. turns' = turns /\ TurnKnows(c)' /\ session' = session
    BY <1>5, <1>9 DEF FindSession, Spawn, store
  <2>4. CASE Goto(c, "done")
    BY <1>1, <2>3, <2>4, GotoKnows DEF Steps
  <2>5. CASE GotoWith(c, "spawn", [req[c] EXCEPT !.subject = session.id])
    <3>1. /\ pc'[c] = "spawn" /\ req'[c].subject = session.id
          /\ req'[c].key = None /\ req'[c].target = req[c].target
          /\ req'[c].copy = req[c].copy
      BY <1>1, <1>2, <2>1, <2>5 DEF GotoWith, TypeOK, Request
    <3> QED
      BY <1>2, <2>1, <2>2, <2>3, <3>1 DEF CallKnows, IsSubject
  <2> QED
    BY <1>9, <2>4, <2>5 DEF FindSession
<1>10. CASE CheckStarted(c) \/ Lock(c) \/ ClearQuestion(c) \/ HandleEditSubmit(c)
              \/ CreateCase(c) \/ Associate(c) \/ Discard(c) \/ Restore(c)
              \/ Delete(c)
  <2>1. turns' = turns /\ TurnKnows(c)'
    BY <1>5, <1>10 DEF CheckStarted, Lock, ClearQuestion, HandleEditSubmit,
       CreateCase, Associate, Discard, Restore, Delete, Spawn
  <2>2. ASSUME NEW p \in Steps, Goto(c, p),
               \/ p \in {"done", "refused"}
               \/ pc[c] = "check" /\ p \in {AfterRefusal(c), "spawn"}
               \/ pc[c] = "lock" /\ p = "find"
               \/ pc[c] = "clear" /\ p = "load"
               \/ pc[c] = "modal" /\ p = "create"
               \/ pc[c] = "create" /\ p = "delete"
        PROVE  CallKnows(c)'
    <3>1. CASE p \in {"done", "refused"}
      BY <1>1, <2>2, <3>1, GotoKnows
    <3>2. CASE p \notin {"done", "refused"}
      <4>1. pc'[c] = p /\ req'[c] = req[c]
        BY <1>1, <2>2, <3>2, GotoKnows
      <4>2. session # None => session' # None
        BY DEF Kept
      <4> QED
        BY <1>1, <1>2, <2>1, <2>2, <3>2, <4>1, <4>2
        DEF CallKnows, AfterRefusal, IsMention, IsSwitch, IsSubject
    <3> QED
      BY <3>1, <3>2
  <2>3. AfterRefusal(c) \in Steps
          /\ {"done", "refused", "spawn", "find", "load", "create", "delete"}
               \subseteq Steps
    BY DEF AfterRefusal, Steps
  <2> QED
    BY <1>10, <2>1, <2>2, <2>3 DEF CheckStarted, Lock, ClearQuestion,
       HandleEditSubmit, CreateCase, Associate, Discard, Restore, Delete
<1> QED
  BY <1>4, <1>6, <1>7, <1>8, <1>9, <1>10 DEF Proceed

\* A turn's step is taken by a turn that was started, and leaves its call.
LEMMA CompleteKnows ==
  ASSUME IInv, NEW t \in Calls, Complete(t), Kept
  PROVE  CallKnows(t)' /\ TurnKnows(t)'
<1>1. TypeOK /\ CallKnows(t) /\ TurnKnows(t) /\ DraftsOwn
        /\ turns[t].draft \in Drafts \cup {None} /\ turns[t] \in Turn
  BY Fields DEF IInv, CallsKnow
<1>2. turns[t].status # "none"
  BY <1>1 DEF Complete, Finish, Materialize, ReloadDraft, Show, SavePreview,
     AssociateShown, PostForm, RecordQuestion, Fallback, Unlock, EndSession,
     TurnKnows
<1>3. /\ turns'[t].status # "none" /\ turns'[t].draft = turns[t].draft
      /\ turns'[t].subject = turns[t].subject
      /\ IsSubject(turns[t].subject) /\ IsSubject(turns[t].subject)'
      /\ session # None => session' # None
  BY <1>1, <1>2, KeptFacts DEF Kept, TurnKnows
<1>4. pc' = pc /\ req' = req
  BY DEF Complete, Finish, Materialize, ReloadDraft, Show, SavePreview,
     AssociateShown, PostForm, RecordQuestion, Fallback, Unlock, EndSession,
     call
<1>5. CallKnows(t)'
  <2>1. WellMade(req[t].target, req[t].copy)'
    BY <1>1, <1>4, KeptFacts DEF CallKnows
  <2> QED
    BY <1>1, <1>2, <1>3, <1>4, <2>1 DEF CallKnows, Kept, IsSubject
<1>6. /\ turns'[t].status # "running"
      /\ hpc'[t] # "none"
      /\ hpc'[t] \in {"materialize", "reload", "show", "save", "associate",
                      "unlock"} => turns[t].draft \in Drafts
      /\ \/ hcopy'[t] \in {hcopy[t], NewDraft}
         \/ /\ turns[t].draft \in Drafts /\ drafts[turns[t].draft] # None
            /\ hcopy'[t] = drafts[turns[t].draft]
  <2>1. CASE Finish(t)
    <3>1. PICK how \in Outcomes :
            /\ turns' = [turns EXCEPT ![t].status = how]
            /\ Handler(t, HandlerFor(t, how)) \/ Handler(t, "done")
      BY <2>1 DEF Finish
    <3>2. turns'[t].status = how
      BY <1>1, <3>1 DEF TypeOK, Turn
    <3>3. /\ HandlerFor(t, how) \in {"stamp", "fallback", "materialize", "form"}
          /\ HandlerFor(t, how) = "materialize" => turns[t].draft # None
      BY <3>1 DEF Outcomes, HandlerFor, TargetDraft
    <3>4. hpc'[t] \in {HandlerFor(t, how), "done"} /\ hcopy'[t] = NewDraft
      BY <1>1, <3>1, <3>3 DEF Handler, TypeOK
    <3> QED
      BY <1>1, <3>1, <3>2, <3>3, <3>4 DEF Outcomes
  <2>2. CASE Fallback(t)
    BY <1>1, <2>2 DEF Fallback, Handler, HandlerWith, ToUnlock, TargetDraft,
       TypeOK, Turn
  <2>3. CASE ~Finish(t) /\ ~Fallback(t)
    <3>1. turns' = turns /\ turns[t].status # "running"
      BY <1>1, <2>3 DEF Complete, Materialize, ReloadDraft, Show, SavePreview,
         AssociateShown, PostForm, RecordQuestion, Unlock, EndSession, store,
         TurnKnows
    <3> QED
      BY <1>1, <2>3, <3>1 DEF Complete, Materialize, ReloadDraft, Show,
         SavePreview, AssociateShown, PostForm, RecordQuestion, Unlock,
         EndSession, Handler, HandlerWith, TargetDraft, TypeOK, TurnKnows
  <2> QED
    BY <2>1, <2>2, <2>3
<1>7. WellMade(turns[t].draft, hcopy[t])'
  <2>1. CASE hcopy'[t] = hcopy[t]
    BY <1>1, <1>3, <2>1, KeptFacts DEF TurnKnows
  <2>2. CASE hcopy'[t] = NewDraft
    BY <2>2 DEF WellMade, OwnResult, NewDraft
  <2>3. CASE /\ turns[t].draft \in Drafts /\ drafts[turns[t].draft] # None
             /\ hcopy'[t] = drafts[turns[t].draft]
    <3>1. WellMade(turns[t].draft, drafts[turns[t].draft])
      BY <1>1, <2>3 DEF DraftsOwn
    <3> QED
      BY <1>3, <2>3, <3>1, KeptFacts
  <2> QED
    BY <1>6, <2>1, <2>2, <2>3
<1>8. TurnKnows(t)'
  BY <1>3, <1>6, <1>7 DEF TurnKnows
<1> QED
  BY <1>5, <1>8
-----------------------------------------------------------------------------
(***************************************************************************)
(* What calls share.                                                       *)
(***************************************************************************)

\* A draft is written by its mention, by the switch or the turn that is for
\* it, or from a copy of itself.
LEMMA DraftsStep ==
  ASSUME IInv, NEW c \in Calls, Step(c), Kept
  PROVE  DraftsOwn'
<1>1. TypeOK /\ DraftsOwn /\ CallKnows(c) /\ TurnKnows(c)
        /\ drafts \in [Drafts -> Draft \cup {None}] /\ c \in Drafts
  BY DEF IInv, CallsKnow, TypeOK, Drafts
<1>2. ASSUME NEW d, NEW row, WellMade(d, row),
             drafts' = [drafts EXCEPT ![d] = row]
               \/ drafts' = [drafts EXCEPT ![d] = IF @ = None THEN None ELSE row]
      PROVE  DraftsOwn'
  BY <1>1, <1>2, KeptFacts DEF DraftsOwn
<1>3. ASSUME NEW d, NEW w, NEW m, NEW l, SetMaterialization(d, w, m, l),
             WellMade(d, [ws |-> w, mat |-> m, locked |-> l])
      PROVE  DraftsOwn'
  BY <1>2, <1>3 DEF SetMaterialization
<1>4. ASSUME UNCHANGED drafts PROVE DraftsOwn'
  BY <1>1, <1>4, KeptFacts DEF DraftsOwn
<1>5. CASE Mention(c)
  <2>1. WellMade(c, NewDraft)
    BY DEF NewDraft, WellMade, OwnResult
  <2> QED
    BY <1>2, <1>5, <2>1 DEF Mention
<1>6. CASE Discard(c) \/ Delete(c)
  BY <1>1, <1>4, <1>6, KeptFacts DEF Discard, Delete, DraftsOwn
<1>7. CASE Lock(c)
  <2>1. \A w : WellMade(req[c].target, [ws |-> w, mat |-> None, locked |-> TRUE])
    BY DEF WellMade, OwnResult
  <2> QED
    BY <1>3, <1>4, <1>7, <2>1 DEF Lock, LockedMaterialization
<1>8. CASE Restore(c)
  <2>1. WellMade(req[c].target, [ws |-> req[c].copy.ws, mat |-> req[c].copy.mat,
                                 locked |-> FALSE])
    BY <1>1 DEF CallKnows, WellMade
  <2> QED
    BY <1>3, <1>4, <1>8, <2>1 DEF Restore
<1>9. CASE Materialize(c)
  <2>1. ASSUME NEW w \in Workspaces
        PROVE  WellMade(TargetDraft(c), [ws |-> w, mat |-> [fits |-> w, by |-> c],
                                         locked |-> FALSE])
    <3>1. turns[c].status # "none" /\ w # None
      BY <1>1, <1>9, ProposalAssumption DEF Materialize, TurnKnows
    <3> QED
      BY <3>1 DEF WellMade, OwnResult, TargetDraft
  <2> QED
    BY <1>3, <1>4, <1>9, <2>1 DEF Materialize
<1>10. CASE SavePreview(c)
  BY <1>1, <1>2, <1>4, <1>10 DEF SavePreview, TurnKnows, TargetDraft
<1>11. CASE Unlock(c)
  <2>1. WellMade(TargetDraft(c), [ws |-> hcopy[c].ws, mat |-> hcopy[c].mat,
                                  locked |-> FALSE])
    BY <1>1 DEF TurnKnows, WellMade, TargetDraft
  <2> QED
    BY <1>3, <1>4, <1>11, <2>1 DEF Unlock
<1>12. CASE Begin(c)
  BY <1>4, <1>5, <1>12 DEF Begin, Reply, HandleQuestionSubmit, Click,
     HandleSelectWorkspace, HandleSubmit, HandleEdit, HandleCancel, store
<1>13. CASE Proceed(c)
  BY <1>4, <1>6, <1>7, <1>8, <1>13 DEF Proceed, Claim, Associate, Reload,
     ClearQuestion, LoadDraft, CheckStarted, Spawn, FindSession,
     HandleEditSubmit, CreateCase, store
<1>14. CASE Complete(c)
  BY <1>4, <1>9, <1>10, <1>11, <1>14 DEF Complete, Finish, ReloadDraft, Show,
     AssociateShown, PostForm, RecordQuestion, Fallback, EndSession, store
<1> QED
  BY <1>12, <1>13, <1>14 DEF Step

\* A preview is shown by a turn, so there is a Session.
LEMMA PreviewsStep ==
  ASSUME IInv, NEW c \in Calls, Step(c), Kept
  PROVE  PreviewsKnow'
<1>1. PreviewsKnow /\ TurnKnows(c)
  BY DEF IInv, CallsKnow
<1>2. CASE Show(c)
  BY <1>1, <1>2 DEF Show, TurnKnows, IsSubject, PreviewsKnow, Kept
<1>3. ASSUME UNCHANGED previews PROVE PreviewsKnow'
  BY <1>1, <1>3 DEF PreviewsKnow, Kept
<1>4. CASE Begin(c)
  BY <1>3, <1>4 DEF Begin, Mention, Reply, HandleQuestionSubmit, Click,
     HandleSelectWorkspace, HandleSubmit, HandleEdit, HandleCancel, slack
<1>5. CASE Proceed(c)
  BY <1>3, <1>5 DEF Proceed, Claim, Associate, Discard, Reload, ClearQuestion,
     LoadDraft, CheckStarted, Spawn, Lock, FindSession, Restore,
     HandleEditSubmit, CreateCase, Delete, slack
<1>6. CASE Complete(c)
  BY <1>2, <1>3, <1>6 DEF Complete, Finish, Materialize, ReloadDraft,
     SavePreview, AssociateShown, PostForm, RecordQuestion, Fallback, Unlock,
     EndSession, slack
<1> QED
  BY <1>4, <1>5, <1>6 DEF Step

\* A turn is started only where none runs for the thread's one subject.
LEMMA OneRunsStep ==
  ASSUME IInv, NEW c \in Calls, Step(c)
  PROVE  OneRuns'
<1>1. /\ TypeOK /\ OneRuns /\ CallKnows(c)
      /\ \A t \in Calls : TurnKnows(t) /\ turns[t] \in Turn
  BY Fields DEF IInv, CallsKnow
<1>2. CASE Spawn(c)
  <2>1. CASE UNCHANGED turns
    BY <1>1, <2>1 DEF OneRuns
  <2>2. CASE Spawned(c) /\ ~Busy(req[c].subject)
    <3>1. IsSubject(req[c].subject)
      BY <1>1, <1>2 DEF Spawn, CallKnows
    <3>2. \A t \in Calls : turns[t].status # "running"
      BY <1>1, <2>2, <3>1 DEF Busy, TurnKnows, IsSubject
    <3>3. \A t \in Calls \ {c} : turns'[t] = turns[t]
      BY <1>1, <2>2 DEF Spawned, TypeOK
    <3> QED
      BY <3>2, <3>3 DEF OneRuns
  <2> QED
    BY <1>2, <2>1, <2>2 DEF Spawn
<1>3. ASSUME \A t \in Calls : turns'[t].status = "running"
                               => turns[t].status = "running"
      PROVE  OneRuns'
  BY <1>1, <1>3 DEF OneRuns
<1>4. CASE Finish(c) \/ Fallback(c)
  <2>1. \A t \in Calls : turns'[t].status = "running"
                          => turns[t].status = "running"
    <3>1. PICK how \in Outcomes : turns' = [turns EXCEPT ![c].status = how]
      BY <1>4 DEF Finish, Fallback, Outcomes
    <3> QED
      BY <1>1, <3>1 DEF Outcomes, Turn, TypeOK
  <2> QED
    BY <1>3, <2>1
<1>5. CASE Begin(c)
  BY <1>3, <1>5 DEF Begin, Mention, Reply, HandleQuestionSubmit, Click,
     HandleSelectWorkspace, HandleSubmit, HandleEdit, HandleCancel, store
<1>6. CASE Proceed(c)
  BY <1>2, <1>3, <1>6 DEF Proceed, Claim, Associate, Discard, Reload,
     ClearQuestion, LoadDraft, CheckStarted, Lock, FindSession, Restore,
     HandleEditSubmit, CreateCase, Delete, store
<1>7. CASE Complete(c)
  BY <1>3, <1>4, <1>7 DEF Complete, Materialize, ReloadDraft, Show, SavePreview,
     AssociateShown, PostForm, RecordQuestion, Unlock, EndSession, store
<1> QED
  BY <1>5, <1>6, <1>7 DEF Step

\* A case is made from a copy, and a copy's workspace is the one it fits.
LEMMA CasesStep ==
  ASSUME IInv, NEW c \in Calls, Step(c)
  PROVE  ContentFits'
<1>1. TypeOK /\ ContentFits /\ CallKnows(c)
  BY DEF IInv, CallsKnow
<1>2. CASE CreateCase(c)
  BY <1>1, <1>2 DEF CreateCase, ContentFits, CallKnows, WellMade, TypeOK
<1>3. ASSUME UNCHANGED cases PROVE ContentFits'
  BY <1>1, <1>3 DEF ContentFits
<1>4. CASE Begin(c)
  BY <1>3, <1>4 DEF Begin, Mention, Reply, HandleQuestionSubmit, Click,
     HandleSelectWorkspace, HandleSubmit, HandleEdit, HandleCancel
<1>5. CASE Proceed(c)
  BY <1>2, <1>3, <1>5 DEF Proceed, Claim, Associate, Discard, Reload,
     ClearQuestion, LoadDraft, CheckStarted, Spawn, Lock, FindSession, Restore,
     HandleEditSubmit, Delete
<1>6. CASE Complete(c)
  BY <1>3, <1>6 DEF Complete, Finish, Materialize, ReloadDraft, Show,
     SavePreview, AssociateShown, PostForm, RecordQuestion, Fallback, Unlock,
     EndSession
<1> QED
  BY <1>4, <1>5, <1>6 DEF Step

\* A step adds at most the acting call to those that have arrived.
LEMMA ArrivedStep ==
  ASSUME TypeOK, FewArrived, NEW c \in Calls, OthersKept(c)
  PROVE  FewArrived'
<1> DEFINE old == {e \in Calls : pc[e] # "idle"}
           new == {e \in Calls : pc'[e] # "idle"}
<1>1. IsFiniteSet(old \cup {c})
  BY FS_AddElement DEF FewArrived
<1>2. new \in SUBSET (old \cup {c})
  BY DEF OthersKept
<1> QED
  BY <1>1, <1>2, FS_Subset DEF FewArrived
-----------------------------------------------------------------------------
(***************************************************************************)
(* The results.                                                            *)
(***************************************************************************)

\* A new thread, or one with an earlier draft in its preview.
LEMMA InitHolds == Init => IInv
<1> SUFFICES ASSUME Init PROVE IInv
  OBVIOUS
<1>1. PICK w \in Workspaces \cup {None} :
        \/ /\ drafts = [d \in Drafts |-> None]
           /\ session = None /\ previews = {}
        \/ /\ w \in Workspaces
           /\ drafts = [d \in Drafts |-> IF d # Before THEN None ELSE
                [ws |-> w, mat |-> [fits |-> w, by |-> Before],
                 locked |-> FALSE]]
           /\ session = [NewSession(Before) EXCEPT !.draft = Before,
                                                   !.last = "materialize"]
           /\ previews = {Before}
  BY DEF Init
<1>2. Before \in Drafts /\ Before \notin Calls /\ None \notin Workspaces
  BY ProposalAssumption DEF Drafts
<1>3. (session = None /\ previews = {}) \/ session \in Session
  BY <1>1, <1>2 DEF Session, NewSession
<1>4. drafts \in [Drafts -> Draft \cup {None}]
  <2>1. w \in Workspaces =>
          [ws |-> w, mat |-> [fits |-> w, by |-> Before], locked |-> FALSE]
            \in Draft
    BY <1>2 DEF Draft, Materializations
  <2> QED
    BY <1>1, <2>1
<1>5. TypeOK
  BY <1>1, <1>2, <1>3, <1>4, StartValues, ProposalAssumption
  DEF Init, TypeOK, Steps, HandlerSteps, NoTurn, Turn
<1>6. FewArrived
  <2>1. {c \in Calls : pc[c] # "idle"} = {}
    BY DEF Init
  <2> QED
    BY <2>1, FS_EmptySet DEF FewArrived
<1>7. DraftsOwn
  <2> SUFFICES ASSUME NEW d \in Drafts, drafts[d] # None
               PROVE  WellMade(d, drafts[d])
    BY DEF DraftsOwn
  <2>1. /\ w \in Workspaces
        /\ drafts[d] = [ws |-> w, mat |-> [fits |-> w, by |-> Before],
                        locked |-> FALSE]
    BY <1>1
  <2> QED
    BY <1>2, <2>1 DEF WellMade, OwnResult
<1>8. CallsKnow
  BY DEF Init, CallsKnow, CallKnows, TurnKnows, NoRequest, NewDraft, NoTurn,
     WellMade, OwnResult
<1>9. PreviewsKnow /\ OneRuns
  <2>1. session # None \/ previews = {}
    BY <1>3, NoneAssumption
  <2> QED
    BY <2>1 DEF Init, PreviewsKnow, OneRuns, NoTurn
<1>10. ContentFits
  BY DEF Init, ContentFits
<1> QED
  BY <1>5, <1>6, <1>7, <1>8, <1>9, <1>10 DEF IInv

\* Every step keeps the invariant.
LEMMA NextKeeps == IInv /\ [Next]_vars => IInv'
<1> SUFFICES ASSUME IInv, [Next]_vars PROVE IInv'
  OBVIOUS
<1>1. ASSUME NEW c \in Calls, Step(c) PROVE IInv'
  <2>1. TypeOK /\ FewArrived /\ CallsKnow
    BY DEF IInv
  <2>2. Kept /\ OthersKept(c)
    BY <1>1, <2>1, StepKeeps, OwnEntries
  <2>3. TypeOK'
    BY <1>1, BeginTyped, ProceedTyped, CompleteTyped DEF Step
  <2>4. CallKnows(c)' /\ TurnKnows(c)'
    BY <1>1, <2>2, BeginKnows, ProceedKnows, CompleteKnows DEF Step
  <2>5. CallsKnow'
    BY <2>1, <2>2, <2>4, OthersKnow DEF CallsKnow
  <2> QED
    BY <1>1, <2>1, <2>2, <2>3, <2>5, ArrivedStep, DraftsStep, PreviewsStep,
       OneRunsStep, CasesStep DEF IInv
<1>2. CASE UNCHANGED vars
  BY <1>2 DEF vars, store, call, handler, slack, IInv, TypeOK, FewArrived,
     DraftsOwn, WellMade, OwnResult, CallsKnow, CallKnows, TurnKnows, IsSubject,
     PreviewsKnow, OneRuns, ContentFits
<1> QED
  BY <1>1, <1>2 DEF Next, Step

\* The invariant holds all along.
THEOREM Invariance == Spec => []IInv
<1> QED
  BY InitHolds, NextKeeps, PTL DEF Spec

\* Every document, call and handler has its type.
THEOREM TypeCorrect == Spec => []TypeOK
<1>1. IInv => TypeOK
  BY DEF IInv
<1> QED
  BY <1>1, Invariance, PTL

\* A thread has one turn at a time, however many mentions meet in it: IInv has
\* one subject per thread, and a turn is only spawned when no other runs for it.
THEOREM TurnsExclusive == Spec => []OneTurnPerThread
<1>1. IInv => OneTurnPerThread
  <2> SUFFICES ASSUME IInv PROVE OneTurnPerThread
    OBVIOUS
  <2> DEFINE Running == {t \in Calls : turns[t].status = "running"}
  <2>1. CASE Running = {}
    BY <2>1, FS_EmptySet DEF OneTurnPerThread
  <2>2. CASE Running # {}
    <3>1. PICK t \in Calls : t \in Running
      BY <2>2
    <3>2. Running = {t}
      BY <3>1 DEF IInv, OneRuns
    <3>3. Cardinality(Running) = 1
      BY <3>2, FS_Singleton
    <3> QED
      BY <3>3 DEF OneTurnPerThread
  <2> QED
    BY <2>1, <2>2
<1> QED
  BY <1>1, Invariance, PTL

\* The result of a turn is in the draft the turn was started for, although the
\* thread may point at another one and handlers save what they read earlier.
THEOREM ResultsAtHome == Spec => []ResultInOwnDraft
<1>1. IInv => ResultInOwnDraft
  BY DEF IInv, DraftsOwn, WellMade, OwnResult, ResultInOwnDraft
<1> QED
  BY <1>1, Invariance, PTL

\* A case gets content made for the workspace it is created in.
THEOREM ContentInPlace == Spec => []ContentFits
<1>1. IInv => ContentFits
  BY DEF IInv
<1> QED
  BY <1>1, Invariance, PTL
-----------------------------------------------------------------------------
(***************************************************************************)
(* Who owns a draft.                                                       *)
(***************************************************************************)

\* No draft, or one whose mention got its turn, or somebody else's turn for the same
\* event stands for it.
Accepted ==
  {d \in Drafts \cup {None} :
     d \in Calls => pc[d] \in {"associate", "done"} \/ turns[d].status # "none"}

\* The event a call came with: the mention's, or its own.
Root(c) == IF event[c] # None THEN event[c] ELSE c

OwnerKnown(c) ==
  /\ pc[c] = "idle" => event[c] = None
  /\ event[c] # None => event[c] \in Calls /\ event[event[c]] = event[c]
  /\ req[c].key # None /\ req[c].key.of = "event" => req[c].key.id = Root(c)
  /\ turns[c].status # "none" /\ turns[c].key # None
       /\ turns[c].key.of = "event" => turns[c].key.id = Root(c)
  /\ turns[c].draft \in Accepted
  /\ req[c].target # c => req[c].target \in Accepted
  /\ req[c].target = c => /\ event[c] # None
                         /\ req[c].key # None /\ req[c].key.of = "event"

OwnersKnown ==
  /\ \A c \in Calls : OwnerKnown(c)
  /\ previews \subseteq Accepted
  /\ session # None => session.draft \in Accepted

\* A mention that was accepted stays accepted.
LEMMA AcceptedStays ==
  ASSUME IInv, NEW c \in Calls, Step(c), Kept, OthersKept(c), NEW d, d \in Accepted
  PROVE  d \in Accepted'
<1> SUFFICES ASSUME d \in Calls PROVE d \in Accepted'
  BY DEF Accepted
<1>1. TypeOK
  BY DEF IInv
<1>2. CASE d # c
  BY <1>2 DEF Accepted, OthersKept
<1>3. CASE d = c /\ turns[c].status # "none"
  BY <1>3 DEF Accepted, Kept
<1>4. CASE d = c /\ turns[c].status = "none"
  <2>1. pc[c] \in {"associate", "done"}
    BY <1>4 DEF Accepted
  <2>2. CASE Begin(c)
    BY <2>1, <2>2 DEF Begin, Mention, Reply, HandleQuestionSubmit, Click,
       Arrives, HandleSelectWorkspace, HandleSubmit, HandleEdit, HandleCancel
  <2>3. CASE Proceed(c)
    <3>1. Associate(c)
      BY <2>1, <2>3 DEF Proceed, Claim, Discard, Reload, ClearQuestion,
         LoadDraft, CheckStarted, Spawn, Lock, FindSession, Restore,
         HandleEditSubmit, CreateCase, Delete
    <3> QED
      BY <1>1, <1>4, <3>1 DEF Associate, Goto, GotoWith, Accepted, TypeOK
  <2>4. CASE Complete(c)
    BY <1>4, <2>1, <2>4 DEF Complete, Finish, Materialize, ReloadDraft, Show,
       SavePreview, AssociateShown, PostForm, RecordQuestion, Fallback, Unlock,
       EndSession, call, Accepted
  <2> QED
    BY <2>2, <2>3, <2>4 DEF Step
<1> QED
  BY <1>2, <1>3, <1>4

\* An event once known is kept, and only a mention gets one.
LEMMA EventStep ==
  ASSUME IInv, OwnersKnown, NEW c \in Calls, Step(c)
  PROVE  /\ \A e \in Calls : event[e] # None => event'[e] = event[e]
         /\ ~Mention(c) => event' = event
         /\ event'[c] # None => /\ event'[c] \in Calls
                               /\ event'[event'[c]] = event'[c]
<1>1. /\ TypeOK /\ event \in [Calls -> Calls \cup {None}]
      /\ \A e \in Calls : OwnerKnown(e)
  BY DEF IInv, OwnersKnown, TypeOK
<1>2. CASE Mention(c)
  <2>1. event[c] = None /\ None \notin Calls
    BY <1>1, <1>2, ProposalAssumption DEF Mention, Arrives, OwnerKnown
  <2>2. PICK e \in ({event[d] : d \in Calls} \cup {c}) \ {None} :
          event' = [event EXCEPT ![c] = e]
    BY <1>2 DEF Mention
  <2>3. e = c \/ (event[e] = e /\ e \in Calls)
    BY <1>1, <2>2 DEF OwnerKnown
  <2> QED
    BY <1>1, <1>2, <2>1, <2>2, <2>3
<1>3. CASE ~Mention(c)
  <2>1. event' = event
    BY <1>3 DEF Step, Begin, Reply, HandleQuestionSubmit, Click,
       HandleSelectWorkspace, HandleSubmit, HandleEdit, HandleCancel, Proceed,
       Claim, Associate, Discard, Reload, ClearQuestion, LoadDraft,
       CheckStarted, Spawn, Lock, FindSession, Restore, HandleEditSubmit,
       CreateCase, Delete, Complete, Finish, Materialize, ReloadDraft, Show,
       SavePreview, AssociateShown, PostForm, RecordQuestion, Fallback, Unlock,
       EndSession, call
  <2> QED
    BY <1>1, <2>1 DEF OwnerKnown
<1> QED
  BY <1>2, <1>3

\* What the acting call knows about owners, for each kind of step.
LEMMA OwnerStep ==
  ASSUME IInv, OwnersKnown, NEW c \in Calls, Step(c), Kept, OthersKept(c)
  PROVE  OwnerKnown(c)'
<1>1. /\ TypeOK /\ CallKnows(c) /\ TurnKnows(c) /\ PreviewsKnow
      /\ OwnerKnown(c) /\ None \notin Calls
      /\ req[c] \in Request /\ turns[c] \in Turn /\ NoRequest \in Request
      /\ NoRequest.key = None /\ NoRequest.target = None
  BY Fields, StartValues, ProposalAssumption
  DEF IInv, CallsKnow, OwnersKnown, NoRequest
<1>2. Accepted \subseteq Accepted'
  BY AcceptedStays
<1>3. /\ event'[c] # None => event'[c] \in Calls /\ event'[event'[c]] = event'[c]
      /\ ~Mention(c) => event' = event
  BY EventStep
<1>4. ASSUME turns' = turns, ~Mention(c), pc'[c] # "idle",
             \/ req'[c].key = req[c].key
             \/ req'[c].key = None
             \/ req'[c].key # None /\ (req'[c].key.of = "event" =>
                                        req'[c].key.id = c /\ event[c] = None),
             \/ req'[c].target = req[c].target /\ req'[c].key = req[c].key
             \/ req'[c].target # c /\ req'[c].target \in Accepted'
      PROVE  OwnerKnown(c)'
  BY <1>1, <1>2, <1>3, <1>4 DEF OwnerKnown, Root
<1>5. CASE Begin(c)
  <2>1. /\ pc[c] = "idle" /\ turns[c].status = "none" /\ event[c] = None
        /\ turns' = turns /\ c \notin Accepted /\ None \in Accepted'
    BY <1>1, <1>5 DEF Begin, Mention, Reply, HandleQuestionSubmit, Click,
       Arrives, HandleSelectWorkspace, HandleSubmit, HandleEdit, HandleCancel,
       CallKnows, OwnerKnown, Accepted, store
  <2>2. CASE Mention(c)
    <3>0. PICK e \in ({event[d] : d \in Calls} \cup {c}) \ {None} :
            /\ event' = [event EXCEPT ![c] = e]
            /\ GotoWith(c, "claim", [NoRequest EXCEPT !.target = c,
                                      !.key = [of |-> "event", id |-> e]])
      BY <2>2 DEF Mention
    <3>1. e \in Calls
      BY <1>1, <3>0 DEF TypeOK
    <3>2. [of |-> "event", id |-> e] \in Triggers
      BY <3>1 DEF Triggers
    <3>3. /\ pc'[c] = "claim" /\ req'[c].target = c /\ event'[c] = e
          /\ req'[c].key = [of |-> "event", id |-> e] /\ req'[c].key # None
      BY <1>1, <3>0, <3>1, <3>2, NoneAssumption DEF GotoWith, TypeOK, Request
    <3>4. e # None
      BY <3>0
    <3> QED
      BY <1>1, <1>2, <1>3, <2>1, <3>3, <3>4 DEF OwnerKnown, Root
  <2>3. CASE Reply(c)
    <3>1. [of |-> "event", id |-> c] \in Triggers
      BY DEF Triggers
    <3>2. /\ pc'[c] = "reload" /\ req'[c].target = None
          /\ req'[c].key = [of |-> "event", id |-> c] /\ req'[c].key # None
      BY <1>1, <2>3, <3>1, NoneAssumption DEF Reply, GotoWith, TypeOK, Request
    <3>3. ~Mention(c)
      BY <3>2, <1>1 DEF Mention, GotoWith, TypeOK
    <3> QED
      BY <1>1, <1>4, <2>1, <3>2, <3>3
  <2>4. ASSUME NEW t \in Calls, HandleQuestionSubmit(c, t)
        PROVE  OwnerKnown(c)'
    <3>1. [of |-> "form", id |-> t] \in Triggers
      BY DEF Triggers
    <3>2. /\ pc'[c] = "clear" /\ req'[c].target = session.draft
          /\ req'[c].key = [of |-> "form", id |-> t] /\ req'[c].key # None
      BY <1>1, <2>4, <3>1, NoneAssumption
      DEF HandleQuestionSubmit, GotoWith, TypeOK, Request
    <3>3. ~Mention(c)
      BY <3>2, <1>1 DEF Mention, GotoWith, TypeOK
    <3>4. session # None
      BY <2>4 DEF HandleQuestionSubmit, IInv, CallsKnow, TurnKnows, IsSubject
    <3>5. session.draft \in Accepted
      BY <3>4 DEF OwnersKnown
    <3>6. req'[c].target # c /\ req'[c].target \in Accepted'
      <4>1. session' = session
        BY <2>4 DEF HandleQuestionSubmit, store
      <4> QED
        BY <1>2, <2>1, <3>2, <3>5, <4>1
    <3>7. req'[c].key.of = "form"
      BY <3>2
    <3> QED
      BY <1>4, <2>1, <3>2, <3>3, <3>6, <3>7
  <2>5. ASSUME NEW d \in previews,
               \E p \in {"lock", "create", "modal", "delete"} : Click(c, d, p)
        PROVE  OwnerKnown(c)'
    <3>1. /\ pc'[c] \in {"lock", "create", "modal", "delete"}
          /\ req'[c] = [NoRequest EXCEPT !.target = d, !.copy = drafts[d]]
      BY <1>1, <2>5 DEF Click, GotoWith, TypeOK
    <3>2. req'[c].target = d /\ req'[c].key = None
      BY <1>1, <3>1 DEF Request
    <3>3. ~Mention(c)
      BY <3>1, <1>1 DEF Mention, GotoWith, TypeOK
    <3>4. d \in Accepted
      BY DEF OwnersKnown
    <3>5. req'[c].target # c /\ req'[c].target \in Accepted'
      <4>1. d \in Accepted'
        BY <1>2, <3>4
      <4> QED
        BY <2>1, <3>2, <3>4, <4>1
    <3> QED
      BY <1>4, <2>1, <3>1, <3>2, <3>3, <3>5
  <2> QED
    BY <1>5, <2>2, <2>3, <2>4, <2>5
    DEF Begin, HandleSelectWorkspace, HandleSubmit, HandleEdit, HandleCancel
<1>6. ASSUME pc[c] # "idle" PROVE ~Mention(c)
  BY <1>6 DEF Mention, Arrives
<1>7. ASSUME NEW p \in Steps \ {"idle"}, Goto(c, p), turns' = turns,
             pc[c] # "idle"
      PROVE  OwnerKnown(c)'
  <2>1. pc'[c] = p /\ req'[c] \in {req[c], NoRequest}
    BY <1>1, <1>7 DEF Goto, GotoWith, TypeOK
  <2>2. None \in Accepted' /\ None # c
    BY <1>1 DEF Accepted
  <2> QED
    BY <1>1, <1>4, <1>6, <1>7, <2>1, <2>2
<1>8. CASE Spawn(c)
  <2>1. PICK p \in Steps \ {"idle"} : Goto(c, p)
    BY <1>8 DEF Spawn, AfterStart, AfterRefusal, Steps
  <2>2. CASE turns' = turns
    BY <1>7, <1>8, <2>1, <2>2 DEF Spawn
  <2>3. CASE Spawned(c)
    <3>1. turns'[c] = [status |-> "running", draft |-> req[c].target,
                       subject |-> req[c].subject, key |-> req[c].key]
      BY <1>1, <2>3 DEF Spawned, TypeOK
    <3>2. turns'[c].draft \in Accepted'
      <4>1. CASE req[c].target = c
        BY <3>1, <4>1 DEF Accepted, Drafts
      <4>2. CASE req[c].target # c
        <5>1. req[c].target \in Accepted
          BY <1>1, <4>2 DEF OwnerKnown
        <5> QED
          BY <1>2, <3>1, <5>1
      <4> QED
        BY <4>1, <4>2
    <3>3. /\ pc'[c] = p /\ event' = event
          /\ req'[c] \in {req[c], NoRequest}
      BY <1>1, <1>3, <1>6, <1>8, <2>1 DEF Goto, GotoWith, TypeOK, Spawn
    <3>4. None \in Accepted' /\ None # c
      BY <1>1 DEF Accepted
    <3> QED
      BY <1>1, <1>2, <3>1, <3>2, <3>3, <3>4 DEF OwnerKnown, Root
  <2> QED
    BY <1>8, <2>2, <2>3 DEF Spawn
<1>9. CASE Claim(c)
  <2>1. turns' = turns /\ pc[c] = "claim"
    BY <1>9 DEF Claim
  <2>2. CASE Goto(c, "done")
    BY <1>7, <2>1, <2>2 DEF Steps
  <2>3. CASE GotoWith(c, "check", [req[c] EXCEPT !.subject = Claimed(c).id])
    <3>1. pc'[c] = "check" /\ req'[c].key = req[c].key
            /\ req'[c].target = req[c].target
      BY <1>1, <2>3 DEF GotoWith, TypeOK, Request
    <3> QED
      BY <1>4, <1>6, <2>1, <3>1
  <2> QED
    BY <1>9, <2>2, <2>3 DEF Claim
<1>10. CASE Reload(c)
  <2>1. turns' = turns /\ session' = session /\ pc[c] = "reload"
          /\ turns[c].status = "none" /\ session # None
    BY <1>1, <1>10 DEF Reload, CallKnows, store
  <2>2. session.draft \in Accepted /\ session.draft \in Accepted'
    BY <1>2, <2>1 DEF OwnersKnown
  <2>3. pc'[c] = "load" /\ req'[c].key = req[c].key
          /\ req'[c].target = session.draft
    BY <1>1, <1>10 DEF Reload, GotoWith, TypeOK, Request
  <2>4. session.draft # c
    BY <2>1, <2>2 DEF Accepted
  <2>5. req'[c].target \in Accepted'
    BY <2>1, <2>2, <2>3
  <2> QED
    BY <1>4, <1>6, <2>1, <2>3, <2>4, <2>5
<1>11. CASE LoadDraft(c)
  <2>1. turns' = turns /\ pc[c] = "load"
    BY <1>11 DEF LoadDraft, store
  <2>2. pc'[c] = "check" /\ req'[c].key = req[c].key
          /\ req'[c].target \in {req[c].target, None}
    BY <1>1, <1>11 DEF LoadDraft, GotoWith, TypeOK, Request
  <2>3. req'[c].target = None => req'[c].target \in Accepted'
    BY <1>1 DEF Accepted
  <2> QED
    BY <1>1, <1>4, <1>6, <2>1, <2>2, <2>3
<1>12. CASE FindSession(c)
  <2>1. turns' = turns /\ pc[c] = "find"
    BY <1>12 DEF FindSession, store
  <2>2. CASE Goto(c, "done")
    BY <1>7, <2>1, <2>2 DEF Steps
  <2>3. CASE GotoWith(c, "spawn", [req[c] EXCEPT !.subject = session.id])
    <3>1. pc'[c] = "spawn" /\ req'[c].key = req[c].key
            /\ req'[c].target = req[c].target
      BY <1>1, <2>3 DEF GotoWith, TypeOK, Request
    <3> QED
      BY <1>4, <1>6, <2>1, <3>1
  <2> QED
    BY <1>12, <2>2, <2>3 DEF FindSession
<1>13. CASE Proceed(c)
  <2>1. ASSUME Associate(c) \/ Discard(c) \/ ClearQuestion(c) \/ CheckStarted(c)
                 \/ Lock(c) \/ Restore(c) \/ HandleEditSubmit(c)
                 \/ CreateCase(c) \/ Delete(c)
        PROVE  /\ turns' = turns /\ pc[c] # "idle"
               /\ \E p \in Steps \ {"idle"} : Goto(c, p)
    BY <2>1 DEF Associate, Discard, ClearQuestion, CheckStarted, AfterRefusal,
       Lock, Restore, HandleEditSubmit, CreateCase, Delete, store, Steps
  <2> QED
    BY <1>7, <1>8, <1>9, <1>10, <1>11, <1>12, <1>13, <2>1 DEF Proceed
<1>14. CASE Complete(c)
  <2>1. /\ pc' = pc /\ req' = req /\ event' = event
    BY <1>14 DEF Complete, Finish, Materialize, ReloadDraft, Show, SavePreview,
       AssociateShown, PostForm, RecordQuestion, Fallback, Unlock, EndSession,
       call
  <2>2. turns[c].status # "none"
    BY <1>1, <1>14 DEF Complete, Finish, Materialize, ReloadDraft, Show,
       SavePreview, AssociateShown, PostForm, RecordQuestion, Fallback, Unlock,
       EndSession, TurnKnows
  <2>3. turns'[c].draft = turns[c].draft /\ turns'[c].key = turns[c].key
    BY <2>2 DEF Kept
  <2> QED
    BY <1>1, <1>2, <2>1, <2>2, <2>3 DEF OwnerKnown, Root
<1> QED
  BY <1>5, <1>13, <1>14 DEF Step

\* And so every call, the previews and the Session.
LEMMA OwnersStep ==
  ASSUME IInv, OwnersKnown, NEW c \in Calls, Step(c), Kept, OthersKept(c)
  PROVE  OwnersKnown'
<1>1. /\ TypeOK /\ OwnerKnown(c) /\ CallKnows(c) /\ TurnKnows(c)
      /\ None \notin Calls
      /\ session # None => session \in Session
  BY ProposalAssumption DEF IInv, CallsKnow, OwnersKnown, TypeOK
<1>2. Accepted \subseteq Accepted'
  BY AcceptedStays
<1>3. ASSUME NEW e \in Calls \ {c} PROVE OwnerKnown(e)'
  <2>1. /\ OwnerKnown(e) /\ pc'[e] = pc[e] /\ req'[e] = req[e]
        /\ event'[e] = event[e] /\ turns'[e] = turns[e]
    BY DEF OthersKept, OwnersKnown
  <2>2. event[e] # None => event'[event[e]] = event[event[e]]
    BY <2>1, EventStep DEF OwnerKnown
  <2>3. turns'[e].draft \in Accepted'
    BY <1>2, <2>1 DEF OwnerKnown
  <2>4. req[e].target # e => req'[e].target \in Accepted'
    BY <1>2, <2>1 DEF OwnerKnown
  <2> QED
    BY <2>1, <2>2, <2>3, <2>4 DEF OwnerKnown, Root
<1>4. previews' \subseteq Accepted'
  <2>1. turns'[c].draft \in Accepted'
    <3>1. turns[c].draft \in Accepted
      BY <1>1 DEF OwnerKnown
    <3> QED
      BY OwnerStep DEF OwnerKnown
  <2>2. \/ UNCHANGED previews
        \/ previews' = previews \cup {turns[c].draft} /\ turns' = turns
    BY DEF Step, Begin, Mention, Reply, HandleQuestionSubmit, Click,
       HandleSelectWorkspace, HandleSubmit, HandleEdit, HandleCancel, Proceed,
       Claim, Associate, Discard, Reload, ClearQuestion, LoadDraft,
       CheckStarted, Spawn, Lock, FindSession, Restore, HandleEditSubmit,
       CreateCase, Delete, Complete, Finish, Materialize, ReloadDraft, Show,
       SavePreview, AssociateShown, PostForm, RecordQuestion, Fallback, Unlock,
       EndSession, slack, store, TargetDraft
  <2> QED
    BY <1>2, <2>1, <2>2 DEF OwnersKnown
<1>5. session' # None => session'.draft \in Accepted'
  <2>1. ASSUME session' = session PROVE session' # None => session'.draft \in Accepted'
    BY <1>2, <2>1 DEF OwnersKnown
  <2>2. CASE Claim(c) /\ session' # session
    <3>1. session'.draft = None
      BY <2>2 DEF Claim, Claimed, NewSession
    <3> QED
      BY <1>1, <3>1 DEF Accepted
  <2>3. CASE Associate(c) /\ session' # session
    <3>1. session # None /\ pc'[c] = "done"
            /\ session' = [session EXCEPT !.draft = c]
      BY <1>1, <2>3 DEF Associate, CallKnows, Goto, GotoWith, TypeOK
    <3>2. session'.draft = c
      BY <1>1, <3>1 DEF Session
    <3> QED
      BY <3>1, <3>2 DEF Accepted, Drafts
  <2>4. CASE AssociateShown(c) /\ session' # session
    <3>1. session # None
            /\ session' = [session EXCEPT !.draft = turns[c].draft]
      BY <1>1, <2>4 DEF AssociateShown, TurnKnows, IsSubject, TargetDraft
    <3>2. session'.draft = turns[c].draft /\ turns' = turns
      BY <1>1, <2>4, <3>1 DEF Session, AssociateShown
    <3>3. turns'[c].draft \in Accepted'
      BY OwnerStep DEF OwnerKnown
    <3> QED
      BY <3>2, <3>3
  <2>5. CASE (ClearQuestion(c) \/ RecordQuestion(c) \/ EndSession(c))
                /\ session' # session
    <3>1. session # None
      BY <1>1, <2>5 DEF ClearQuestion, RecordQuestion, EndSession, CallKnows,
         TurnKnows, IsSubject
    <3>2. session'.draft = session.draft
      BY <1>1, <2>5, <3>1 DEF ClearQuestion, RecordQuestion, EndSession, Session
    <3>3. session.draft \in Accepted
      BY <3>1 DEF OwnersKnown
    <3> QED
      BY <1>2, <3>2, <3>3
  <2>6. CASE Begin(c)
    BY <2>1, <2>6 DEF Begin, Mention, Reply, HandleQuestionSubmit, Click,
       HandleSelectWorkspace, HandleSubmit, HandleEdit, HandleCancel, store
  <2>7. CASE Proceed(c)
    BY <2>1, <2>2, <2>3, <2>5, <2>7 DEF Proceed, Discard, Reload, LoadDraft,
       CheckStarted, Spawn, Lock, FindSession, Restore, HandleEditSubmit,
       CreateCase, Delete, store
  <2>8. CASE Complete(c)
    BY <2>1, <2>4, <2>5, <2>8 DEF Complete, Finish, Materialize, ReloadDraft,
       Show, SavePreview, PostForm, Fallback, Unlock, store
  <2> QED
    BY <2>6, <2>7, <2>8 DEF Step
<1> QED
  BY <1>3, <1>4, <1>5, OwnerStep DEF OwnersKnown
-----------------------------------------------------------------------------
(***************************************************************************)
(* Why a draft is locked, as long as nothing has failed.                   *)
(***************************************************************************)

\* The mention of the draft is on its way to a turn, or to giving up.
Mentioned(c, d) ==
  c = d /\ req[c].target = c /\ pc[c] \in {"claim", "check", "spawn", "discard"}

\* A workspace was selected and its turn is not started yet.
Switched(c, d) ==
  req[c].target = d /\ req[c].key = None /\ pc[c] \in {"find", "spawn", "restore"}

WorksOn(t, d) ==
  /\ turns[t].draft = d
  /\ \/ turns[t].status \in {"running", "question", "cancelled"}
     \/ hpc[t] \in {"materialize", "fallback", "unlock"}

ReasonOf(c, d) == Mentioned(c, d) \/ Switched(c, d) \/ WorksOn(c, d)

\* The mention was delivered again, as another.
Twice(d) == d \in Calls /\ event[d] # None
              /\ \E c \in Calls \ {d} : event[c] = event[d]

Locked(d) == drafts[d] # None /\ drafts[d].locked

LocksReasoned ==
  faults = 0 => \A d \in Drafts \ stale :
                  Locked(d) => Twice(d) \/ \E c \in Calls : ReasonOf(c, d)

\* As long as nothing fails, the acting call's reason lasts until the draft is
\* deleted or unlocked.
LEMMA ReasonLasts ==
  ASSUME IInv, OwnersKnown, NEW c \in Calls, Step(c), Kept, OthersKept(c),
         faults' = 0, NEW d \in Drafts, ReasonOf(c, d), Locked(d), Locked(d)'
  PROVE  ReasonOf(c, d)' \/ Twice(d)'
<1>1. /\ TypeOK /\ CallKnows(c) /\ TurnKnows(c) /\ OwnerKnown(c)
      /\ None \notin Drafts /\ req[c] \in Request /\ turns[c] \in Turn
      /\ drafts[d] \in Draft /\ d # None
  BY Fields, ProposalAssumption
  DEF IInv, CallsKnow, OwnersKnown, Drafts, Locked, TypeOK
<1>2. ~Fault
  BY <1>1 DEF TypeOK, Fault
<1>3. drafts[d] # None /\ drafts[d].locked = TRUE /\ drafts'[d] # None
        /\ drafts'[d].locked
  BY <1>1 DEF Locked, Draft
<1>4. CASE Begin(c)
  <2>1. pc[c] = "idle" /\ turns' = turns /\ hpc' = hpc
    BY <1>4 DEF Begin, Mention, Reply, HandleQuestionSubmit, Click, Arrives,
       HandleSelectWorkspace, HandleSubmit, HandleEdit, HandleCancel, store,
       handler
  <2> QED
    BY <2>1 DEF ReasonOf, Mentioned, Switched, WorksOn
<1>5. CASE Proceed(c) /\ WorksOn(c, d)
  <2>1. hpc' = hpc /\ (turns' = turns \/ turns[c].status = "none")
    BY <1>1, <1>5 DEF Proceed, Claim, Associate, Discard, Reload,
       ClearQuestion, LoadDraft, CheckStarted, Spawn, Lock, FindSession,
       Restore, HandleEditSubmit, CreateCase, Delete, CallKnows, handler, store
  <2>2. turns[c].status # "none"
    BY <1>1, <1>5 DEF WorksOn, TurnKnows
  <2> QED
    BY <1>5, <2>1, <2>2 DEF ReasonOf, WorksOn
<1>6. CASE Claim(c) /\ Mentioned(c, d)
  <2>1. GotoWith(c, "check", [req[c] EXCEPT !.subject = Claimed(c).id])
    BY <1>2, <1>6 DEF Claim
  <2>2. pc'[c] = "check" /\ req'[c].target = req[c].target
    BY <1>1, <2>1 DEF GotoWith, TypeOK, Request
  <2> QED
    BY <1>6, <2>2 DEF ReasonOf, Mentioned
<1>7. CASE CheckStarted(c) /\ Mentioned(c, d)
  <2>1. \E p \in {"spawn", "discard"} : Goto(c, p)
    BY <1>2, <1>7 DEF CheckStarted, AfterRefusal, IsMention, Mentioned
  <2>2. pc'[c] \in {"spawn", "discard"} /\ req'[c] = req[c]
    BY <1>1, <2>1 DEF Goto, GotoWith, TypeOK
  <2> QED
    BY <1>7, <2>2 DEF ReasonOf, Mentioned
<1>8. CASE Spawn(c)
  <2> DEFINE twin == ~IsSwitch(c) /\ Started(req[c].key)
  <2>1. \/ twin
        \/ Spawned(c)
        \/ ~twin /\ Goto(c, AfterRefusal(c))
    BY <1>2, <1>8 DEF Spawn
  <2>2. pc[c] = "spawn" /\ turns[c].status = "none" /\ req[c].target = d
    BY <1>1, <1>8, <1>3
    DEF Spawn, CallKnows, TurnKnows, ReasonOf, Mentioned, Switched, WorksOn
  <2>3. CASE twin
    <3>1. Mentioned(c, d)
      BY <1>1, <2>2, <2>3
      DEF ReasonOf, Switched, WorksOn, IsSwitch, TurnKnows
    <3>2. /\ event[c] # None /\ req[c].key # None /\ req[c].key.of = "event"
          /\ req[c].key.id = event[c]
      BY <1>1, <3>1 DEF Mentioned, OwnerKnown, Root
    <3>3. PICK t \in Calls : turns[t].status # "none" /\ turns[t].key = req[c].key
      BY <2>3 DEF Started
    <3>4. t # c /\ OwnerKnown(t)
      BY <2>2, <3>3 DEF OwnersKnown
    <3>5. event[c] = Root(t) /\ event[event[c]] = event[c]
      BY <1>1, <3>2, <3>3, <3>4 DEF OwnerKnown
    <3>6. event[t] = event[c]
      BY <3>2, <3>5 DEF Root
    <3>7. event' = event
      BY <1>8 DEF Spawn
    <3> QED
      BY <3>1, <3>2, <3>4, <3>6, <3>7 DEF Twice, Mentioned
  <2>4. CASE Spawned(c)
    <3>1. turns'[c].status = "running" /\ turns'[c].draft = d
      BY <1>1, <2>2, <2>4 DEF Spawned, TypeOK
    <3> QED
      BY <3>1 DEF ReasonOf, WorksOn
  <2>5. CASE ~twin /\ Goto(c, AfterRefusal(c))
    <3>1. CASE Mentioned(c, d)
      <4>1. pc'[c] = "discard" /\ req'[c] = req[c]
        BY <1>1, <2>5, <3>1
        DEF AfterRefusal, IsMention, Mentioned, Goto, GotoWith, TypeOK
      <4> QED
        BY <3>1, <4>1 DEF ReasonOf, Mentioned
    <3>2. CASE Switched(c, d)
      <4>1. AfterRefusal(c) = "restore"
        BY <1>1, <3>2
        DEF AfterRefusal, IsMention, IsSwitch, Switched, OwnerKnown
      <4>2. pc'[c] = "restore" /\ req'[c] = req[c]
        BY <1>1, <2>5, <4>1 DEF Goto, GotoWith, TypeOK
      <4> QED
        BY <3>2, <4>2 DEF ReasonOf, Switched
    <3> QED
      BY <1>1, <2>2, <3>1, <3>2 DEF ReasonOf, WorksOn, TurnKnows
  <2> QED
    BY <2>1, <2>3, <2>4, <2>5
<1>9. CASE FindSession(c) /\ Switched(c, d)
  <2>1. GotoWith(c, "spawn", [req[c] EXCEPT !.subject = session.id])
    BY <1>2, <1>9 DEF FindSession
  <2>2. /\ pc'[c] = "spawn" /\ req'[c].target = req[c].target
        /\ req'[c].key = req[c].key
    BY <1>1, <2>1 DEF GotoWith, TypeOK, Request
  <2> QED
    BY <1>9, <2>2 DEF ReasonOf, Switched
<1>10. ~(Discard(c) /\ Mentioned(c, d))
  BY <1>1, <1>2, <1>3 DEF Discard, Mentioned, TypeOK
<1>11. ~(Restore(c) /\ Switched(c, d))
  <2> SUFFICES ASSUME Restore(c), Switched(c, d) PROVE FALSE
    OBVIOUS
  <2>1. SetMaterialization(d, req[c].copy.ws, req[c].copy.mat, FALSE)
    BY <1>2 DEF Restore, Switched
  <2> QED
    BY <1>1, <1>3, <2>1 DEF SetMaterialization, TypeOK
<1>12. CASE Proceed(c) /\ (Mentioned(c, d) \/ Switched(c, d))
  <2>1. pc[c] \in {"claim", "check", "spawn", "discard", "find", "restore"}
    BY <1>12 DEF Mentioned, Switched
  <2>2. \/ Claim(c) \/ Discard(c) \/ CheckStarted(c) \/ Spawn(c)
        \/ FindSession(c) \/ Restore(c)
    BY <1>12, <2>1 DEF Proceed, Associate, Reload, ClearQuestion, LoadDraft,
       Lock, HandleEditSubmit, CreateCase, Delete
  <2> QED
    BY <1>6, <1>7, <1>8, <1>9, <1>10, <1>11, <1>12, <2>2
    DEF Mentioned, Switched, Claim, CheckStarted, FindSession, Discard, Restore
<1>13. CASE Complete(c) /\ WorksOn(c, d)
  <2>1. turns[c].draft = d /\ turns'[c].draft = d
    BY <1>1, <1>13 DEF WorksOn, TurnKnows, Kept
  <2>2. CASE Finish(c)
    <3>1. PICK how \in Outcomes :
            /\ turns' = [turns EXCEPT ![c].status = how]
            /\ Handler(c, HandlerFor(c, how))
      BY <1>2, <2>2 DEF Finish
    <3>2. turns'[c].status = how /\ hpc'[c] = HandlerFor(c, how)
      BY <1>1, <3>1 DEF TypeOK, Turn, Handler
    <3>3. \/ turns'[c].status \in {"question", "cancelled"}
          \/ hpc'[c] \in {"materialize", "fallback"}
      BY <1>1, <2>1, <3>2 DEF HandlerFor, TargetDraft, Outcomes
    <3> QED
      BY <2>1, <3>3 DEF ReasonOf, WorksOn
  <2>3. CASE Materialize(c)
    <3>1. PICK w \in Workspaces :
            SetMaterialization(d, w, [fits |-> w, by |-> c], FALSE)
      BY <1>2, <1>3, <2>1, <2>3 DEF Materialize, TargetDraft
    <3> QED
      BY <1>1, <1>3, <3>1 DEF SetMaterialization, TypeOK
  <2>4. CASE Fallback(c)
    <3>1. HandlerWith(c, "unlock", drafts[d])
      BY <1>1, <1>2, <1>3, <2>1, <2>4 DEF Fallback, ToUnlock, TargetDraft
    <3>2. hpc'[c] = "unlock"
      BY <1>1, <3>1 DEF HandlerWith, TypeOK
    <3> QED
      BY <2>1, <3>2 DEF ReasonOf, WorksOn
  <2>5. CASE Unlock(c)
    <3>1. SetMaterialization(d, hcopy[c].ws, hcopy[c].mat, FALSE)
      BY <1>2, <2>1, <2>5 DEF Unlock, TargetDraft
    <3> QED
      BY <1>1, <1>3, <3>1 DEF SetMaterialization, TypeOK
  <2>6. CASE hpc[c] \notin {"none", "materialize", "fallback", "unlock"}
    <3>1. turns[c].status \in {"question", "cancelled"}
      BY <1>1, <1>13, <2>6 DEF WorksOn, TurnKnows
    <3>2. turns' = turns
      BY <1>1, <1>13, <2>6, <3>1 DEF Complete, Finish, Materialize,
         ReloadDraft, Show, SavePreview, AssociateShown, PostForm,
         RecordQuestion, Fallback, Unlock, EndSession, store
    <3> QED
      BY <2>1, <3>1, <3>2 DEF ReasonOf, WorksOn
  <2> QED
    BY <1>13, <2>2, <2>3, <2>4, <2>5, <2>6 DEF Complete, ReloadDraft, Show,
       SavePreview, AssociateShown, PostForm, RecordQuestion, EndSession
<1>14. CASE Complete(c) /\ ~WorksOn(c, d)
  <2>1. pc' = pc /\ req' = req
    BY <1>14 DEF Complete, Finish, Materialize, ReloadDraft, Show,
       SavePreview, AssociateShown, PostForm, RecordQuestion, Fallback, Unlock,
       EndSession, call
  <2> QED
    BY <1>14, <2>1 DEF ReasonOf, Mentioned, Switched
<1> QED
  BY <1>4, <1>5, <1>12, <1>13, <1>14 DEF Step, ReasonOf

\* What locks a draft, or saves a locked one, has a reason to.
LEMMA LockStarts ==
  ASSUME IInv, NEW c \in Calls, Step(c), faults' = 0,
         NEW d \in Drafts, ~Locked(d), Locked(d)', d \notin stale'
  PROVE  ReasonOf(c, d)'
<1>1. /\ TypeOK /\ CallKnows(c) /\ TurnKnows(c) /\ req[c] \in Request
      /\ NoRequest \in Request
  BY Fields, ProposalAssumption, StartValues DEF IInv, CallsKnow
<1>2. ~Fault
  BY <1>1 DEF TypeOK, Fault
<1>3. drafts' # drafts /\ drafts'[d] # drafts[d] /\ drafts'[d] # None
        /\ drafts'[d].locked
  BY DEF Locked
<1>4. CASE Mention(c)
  <2>1. c = d
    BY <1>1, <1>3, <1>4 DEF Mention, TypeOK
  <2>2. pc'[c] = "claim" /\ req'[c].target = c
    BY <1>1, <1>4 DEF Mention, GotoWith, TypeOK, NoRequest
  <2> QED
    BY <2>1, <2>2 DEF ReasonOf, Mentioned
<1>5. CASE Lock(c)
  <2>1. Goto(c, "find") /\ pc[c] = "lock"
    BY <1>2, <1>3, <1>5 DEF Lock
  <2>2. req[c].target = d
    <3>1. PICK w \in Workspaces :
            SetMaterialization(req[c].target, w, LockedMaterialization(c), TRUE)
      BY <1>2, <1>3, <1>5 DEF Lock
    <3> QED
      BY <1>1, <1>3, <3>1 DEF SetMaterialization, TypeOK
  <2>3. pc'[c] = "find" /\ req'[c] = req[c]
    BY <1>1, <2>1 DEF Goto, GotoWith, TypeOK
  <2> QED
    BY <1>1, <2>1, <2>2, <2>3 DEF ReasonOf, Switched, CallKnows
<1>6. CASE SavePreview(c)
  BY <1>1, <1>2, <1>3, <1>6 DEF SavePreview, TypeOK
<1>7. ASSUME NEW e, NEW w, NEW m, drafts' = [drafts EXCEPT ![e] = None]
                 \/ SetMaterialization(e, w, m, FALSE)
      PROVE  FALSE
  BY <1>1, <1>3, <1>7 DEF SetMaterialization, TypeOK
<1>8. ~Discard(c) /\ ~Delete(c) /\ ~Restore(c) /\ ~Unlock(c) /\ ~Materialize(c)
  BY <1>2, <1>3, <1>7 DEF Discard, Delete, Restore, Unlock, Materialize
<1>9. ~(Begin(c) /\ ~Mention(c))
  BY <1>3 DEF Begin, Reply, HandleQuestionSubmit, Click,
     HandleSelectWorkspace, HandleSubmit, HandleEdit, HandleCancel, store
<1>10. Proceed(c) => Lock(c)
  BY <1>3, <1>8 DEF Proceed, Claim, Associate, Reload, ClearQuestion,
     LoadDraft, CheckStarted, Spawn, FindSession, HandleEditSubmit, CreateCase,
     store
<1>11. Complete(c) => SavePreview(c)
  BY <1>3, <1>8 DEF Complete, Finish, ReloadDraft, Show, AssociateShown,
     PostForm, RecordQuestion, Fallback, EndSession, store
<1> QED
  BY <1>4, <1>5, <1>6, <1>9, <1>10, <1>11 DEF Step

\* A lock that is there keeps its reason, and one that comes has one.
LEMMA LocksStep ==
  ASSUME IInv, OwnersKnown, LocksReasoned,
         NEW c \in Calls, Step(c), Kept, OthersKept(c)
  PROVE  LocksReasoned'
<1> SUFFICES ASSUME faults' = 0, NEW d \in Drafts, d \notin stale', Locked(d)'
             PROVE  Twice(d)' \/ \E e \in Calls : ReasonOf(e, d)'
  BY DEF LocksReasoned
<1>1. faults = 0
  <2>1. faults \in Nat
    BY ProposalAssumption DEF IInv, TypeOK
  <2>2. Fault \/ faults' = faults
    BY DEF Step, Begin, Mention, Reply, HandleQuestionSubmit, Click,
       HandleSelectWorkspace, HandleSubmit, HandleEdit, HandleCancel, Proceed,
       Claim, Associate, Discard, Reload, ClearQuestion, LoadDraft,
       CheckStarted, Spawn, Lock, FindSession, Restore, HandleEditSubmit,
       CreateCase, Delete, Complete, Finish, Materialize, ReloadDraft, Show,
       SavePreview, AssociateShown, PostForm, RecordQuestion, Fallback, Unlock,
       EndSession, NoFault
  <2> QED
    BY <2>1, <2>2 DEF Fault
<1>2. d \notin stale
  BY DEF Step, Begin, Mention, Reply, HandleQuestionSubmit, Click,
     HandleSelectWorkspace, HandleSubmit, HandleEdit, HandleCancel, Proceed,
     Claim, Associate, Discard, Reload, ClearQuestion, LoadDraft, CheckStarted,
     Spawn, Lock, FindSession, Restore, HandleEditSubmit, CreateCase, Delete,
     Complete, Finish, Materialize, ReloadDraft, Show, SavePreview,
     AssociateShown, PostForm, RecordQuestion, Fallback, Unlock, EndSession
<1>3. CASE ~Locked(d)
  BY <1>3, LockStarts
<1>4. CASE Locked(d) /\ Twice(d)
  <2>1. PICK e \in Calls \ {d} : event[e] = event[d] /\ event[d] # None
    BY <1>4 DEF Twice
  <2>2. event'[e] = event[e] /\ event'[d] = event[d] /\ d \in Calls
    BY <1>4, <2>1, EventStep DEF Twice
  <2> QED
    BY <2>1, <2>2 DEF Twice
<1>5. ASSUME Locked(d), NEW e \in Calls, ReasonOf(e, d)
      PROVE  Twice(d)' \/ \E f \in Calls : ReasonOf(f, d)'
  <2>1. CASE e = c
    BY <1>5, <2>1, ReasonLasts
  <2>2. CASE e # c
    BY <1>5, <2>2 DEF OthersKept, ReasonOf, Mentioned, Switched, WorksOn
  <2> QED
    BY <2>1, <2>2
<1> QED
  BY <1>1, <1>2, <1>3, <1>4, <1>5 DEF LocksReasoned
-----------------------------------------------------------------------------
\* Nobody owns anything yet, and no draft is locked.
LEMMA OwnersStart == Init => OwnersKnown /\ LocksReasoned
<1> SUFFICES ASSUME Init PROVE OwnersKnown /\ LocksReasoned
  OBVIOUS
<1>1. /\ None \notin Drafts /\ Before \notin Calls /\ Before \in Drafts
      /\ None \in Accepted /\ Before \in Accepted
  BY ProposalAssumption DEF Accepted, Drafts
<1>2. \A c \in Calls : OwnerKnown(c)
  BY <1>1 DEF Init, OwnerKnown, NoTurn, NoRequest, Drafts
<1>3. previews \subseteq Accepted
  BY <1>1 DEF Init
<1>4. session # None => session.draft \in Accepted
  BY <1>1 DEF Init, NewSession
<1>5. LocksReasoned
  BY DEF Init, LocksReasoned, Locked
<1> QED
  BY <1>2, <1>3, <1>4, <1>5 DEF OwnersKnown

\* Owners and reasons are known all along.
THEOREM OwnersInvariance == Spec => [](OwnersKnown /\ LocksReasoned)
<1>1. ASSUME IInv, OwnersKnown, LocksReasoned, [Next]_vars
      PROVE  (OwnersKnown /\ LocksReasoned)'
  <2>1. ASSUME NEW c \in Calls, Step(c)
        PROVE  (OwnersKnown /\ LocksReasoned)'
    <3>1. Kept /\ OthersKept(c)
      BY <1>1, <2>1, StepKeeps, OwnEntries DEF IInv
    <3> QED
      BY <1>1, <2>1, <3>1, OwnersStep, LocksStep
  <2>2. CASE UNCHANGED vars
    BY <1>1, <2>2 DEF vars, store, call, handler, slack, OwnersKnown,
       OwnerKnown, Accepted, Root, LocksReasoned, Locked, Twice, ReasonOf,
       Mentioned, Switched, WorksOn
  <2> QED
    BY <1>1, <2>1, <2>2 DEF Next, Step
<1> QED
  BY <1>1, OwnersStart, Invariance, PTL DEF Spec

\* A draft whose mention was refused never becomes the thread's draft.
THEOREM RefusedStayOut == Spec => []RefusedIsNotTheThreads
<1>1. OwnersKnown => RefusedIsNotTheThreads
  BY DEF OwnersKnown, Accepted, RefusedIsNotTheThreads
<1> QED
  BY <1>1, OwnersInvariance, PTL

\* As long as nothing fails, a locked draft has a reason, but for one that was
\* saved over a newer version or whose mention was delivered twice.
THEOREM LocksExplained == Spec => []LockHasReason
<1>1. IInv /\ LocksReasoned => LockHasReason
  BY DEF LocksReasoned, LockHasReason, Locked, Twice, ReasonOf, Mentioned,
     Switched, WorksOn
<1> QED
  BY <1>1, Invariance, OwnersInvariance, PTL
=============================================================================

----------------------------- MODULE ThreadCase -----------------------------
(***************************************************************************)
(* How a Slack thread of a monitored channel becomes a Case.               *)
(*                                                                         *)
(*   - a delivery starts a create turn: a post (or a reaction) in the      *)
(*     channel, a mention in a thread without a case, a reaction in        *)
(*     another channel, which claims the message and posts the thread's    *)
(*     root itself, or the submitted form of a question;                   *)
(*   - the turn is a durable Process under the subject of the session it   *)
(*     was given and under the idempotency key of its trigger;             *)
(*   - its completion handler creates the case, posts a question, or       *)
(*     reports that nothing came of it and gives the reaction back.        *)
(*                                                                         *)
(* Each read and each write of a document or a Slack message is one step.  *)
(* Of the Session the model keeps the id, the reaction it came from and    *)
(* the pending question; CreatorUserID, CaseID, LastMentionTS and          *)
(* LastAction decide nothing here.  Mentions in a thread that is a case    *)
(* already, and threads of the workspace agent, are outside.  Nothing in   *)
(* the code cancels a turn.                                                *)
(***************************************************************************)
EXTENDS Naturals, FiniteSets

CONSTANTS Posts,       \* threads of channel-root posts
          Reactions,   \* reactions in another channel, all on one message;
                       \* also the thread each of them would open
          Mentions,    \* mentions, all in one thread
          MentionThread,
          MaxAnswers,  \* bound: questions answered after one first trigger
          Copies,      \* bound: deliveries of one event, clicks on one form
          MaxFaults,   \* bound: failed calls, lost actors
          None

Threads == Posts \cup Reactions

\* A trigger: an event, or the n-th answer in the dialogue it began.  The
\* turn it starts, and the question that turn asks, go by the same name.
Keys == (Threads \cup Mentions) \X (0..MaxAnswers)
AnswerTo(k) == <<k[1], k[2] + 1>>   \* the trigger an answer to k's question is
Asked(k) == <<k[1], k[2] - 1>>      \* the turn whose question k answers
Thread(k) == IF k[1] \in Mentions THEN MentionThread ELSE k[1]

\* The deliveries.  A reaction delivered twice is two reactions.
Calls == {c \in Keys \X (1..Copies) :
            c[1][1] \in Reactions /\ c[1][2] = 0 => c[2] = 1}

ASSUME ThreadCaseAssumption ==
  /\ MentionThread \in Threads
  /\ Posts \cap Reactions = {} /\ Threads \cap Mentions = {}
  /\ MaxAnswers \in Nat /\ Copies \in Nat \ {0} /\ MaxFaults \in Nat
  /\ None \notin Reactions \cup Keys \cup Calls

VARIABLES
  claim,    \* the reaction that claimed the message, or None.  The document
            \* holds only the message: nothing in the code reads the name
  root,     \* reaction -> what the root message it posted shows
  cases,    \* thread -> the cases bound to it, by whose turn created them
  doc,      \* thread -> its Session
  form,     \* turn -> what the form of its question shows
  turn,     \* delivery -> status of the Process it started
  subject,  \* delivery -> the session id its Process holds or held
  handler,  \* delivery -> how far the completion handler of its turn has come
  pc,       \* delivery -> where it is
  sess,     \* delivery -> the Session it read, or made, and will write
  faults    \* faults so far

slack == <<root, form>>
process == <<turn, subject, handler>>
actors == <<pc, sess>>
vars == <<claim, slack, cases, doc, process, actors, faults>>
-----------------------------------------------------------------------------
\* A Session; its id is named for the delivery that made it.
Session == [id : Calls, reaction : BOOLEAN, pending : Keys \cup {None}]
NoSession == [id |-> None, reaction |-> FALSE, pending |-> None]

Known(t) == doc[t] # NoSession

IsReaction(k) == k[1] \in Reactions /\ k[2] = 0
IsAnswer(k) == k[2] > 0
IsMention(k) == k[1] \in Mentions /\ k[2] = 0

\* Is the dialogue led in the thread the case is bound to?
SameThread(k) == k[1] \notin Reactions

TypeOK ==
  /\ claim \in Reactions \cup {None}
  /\ root \in [Reactions -> {"none", "creating", "summary", "failed"}]
  /\ cases \in [Threads -> SUBSET Calls]
  /\ doc \in [Threads -> Session \cup {NoSession}]
  /\ form \in [Keys -> {"none", "open", "answered", "stale"}]
  /\ turn \in [Calls -> {"none", "open", "ended"}]
  /\ subject \in [Calls -> Calls \cup {None}]
  /\ handler \in [Calls -> {"none", "commit", "check", "create", "bind", "post",
                           "ask", "record", "fallback", "release", "note",
                           "done", "lost"}]
  /\ pc \in [Calls -> {"new", "claim", "root", "unclaim", "check", "match",
                       "answer", "clear", "load", "stale", "put", "start",
                       "done", "dead"}]
  /\ sess \in [Calls -> Session \cup {NoSession}]
  /\ faults \in 0..MaxFaults

Init ==
  /\ claim = None
  /\ root = [r \in Reactions |-> "none"]
  /\ cases = [t \in Threads |-> {}]
  /\ doc = [t \in Threads |-> NoSession]
  /\ form = [k \in Keys |-> "none"]
  /\ turn = [c \in Calls |-> "none"]
  /\ subject = [c \in Calls |-> None]
  /\ handler = [c \in Calls |-> "none"]
  /\ pc = [c \in Calls |-> "new"]
  /\ sess = [c \in Calls |-> NoSession]
  /\ faults = 0

Goto(c, place) == pc' = [pc EXCEPT ![c] = place]
Shows(k, what) == form' = [form EXCEPT ![k] = what]

\* A delivery that ends here has nothing more to write.
Stop(c) == Goto(c, "done") /\ sess' = [sess EXCEPT ![c] = NoSession]

\* Field-scoped updates of a Session; a missing document is left missing.
SetPending(t, k) ==
  doc' = IF Known(t) THEN [doc EXCEPT ![t].pending = k] ELSE doc
-----------------------------------------------------------------------------
(***************************************************************************)
(* Deliveries.                                                             *)
(***************************************************************************)

\* An event arrives, or somebody clicks on a form: a thread takes mentions once
\* it is there, a form can be submitted as long as it shows its button.
Deliver(c) ==
  LET k == c[1] IN
  /\ pc[c] = "new"
  /\ IsMention(k) /\ Thread(k) \in Reactions => root[Thread(k)] # "none"
  /\ IsAnswer(k) => form[Asked(k)] = "open"
  /\ Goto(c, IF IsReaction(k) THEN "claim" ELSE "check")
  /\ UNCHANGED <<claim, slack, cases, doc, process, sess, faults>>

\* Faulty: the claim is written whether or not there is one.
ClaimAgain(c) ==
  /\ pc[c] = "claim"
  /\ claim' = c[1][1] /\ Goto(c, "root")
  /\ UNCHANGED <<slack, cases, doc, process, sess, faults>>

\* Faulty: the claim is filed under the delivery.
ClaimForDelivery(c) ==
  /\ pc[c] = "claim"
  /\ IF claim = None THEN claim' = c /\ Goto(c, "root")
                     ELSE UNCHANGED claim /\ Goto(c, "done")
  /\ UNCHANGED <<slack, cases, doc, process, sess, faults>>

\* The first reaction on a message takes it, the others are dropped.
Claim(c) ==
  /\ pc[c] = "claim"
  /\ IF claim = None THEN claim' = c[1][1] /\ Goto(c, "root")
                     ELSE UNCHANGED claim /\ Goto(c, "done")
  /\ UNCHANGED <<slack, cases, doc, process, sess, faults>>

PostRoot(c) ==
  /\ pc[c] = "root"
  /\ root' = [root EXCEPT ![c[1][1]] = "creating"]
  /\ Goto(c, "load")
  /\ UNCHANGED <<claim, form, cases, doc, process, sess, faults>>

Unclaim(c) ==
  /\ pc[c] = "unclaim"
  /\ claim' = None /\ Goto(c, "done")
  /\ UNCHANGED <<slack, cases, doc, process, sess, faults>>

\* GetBySlackThread: nothing is created in a thread that is a case.  A form
\* submitted there is retired.
Check(c) ==
  LET k == c[1] IN
  /\ pc[c] = "check"
  /\ \/ /\ cases[Thread(k)] = {}
        /\ Goto(c, IF IsAnswer(k) THEN "match" ELSE "load")
        /\ UNCHANGED form
     \/ /\ cases[Thread(k)] # {}
        /\ Goto(c, "done")
        /\ IF IsAnswer(k) THEN Shows(Asked(k), "stale") ELSE UNCHANGED form
  /\ UNCHANGED <<claim, root, cases, doc, process, sess, faults>>

\* The form must be the one the session waits for.
Match(c) ==
  LET k == c[1] IN
  /\ pc[c] = "match"
  /\ \/ /\ doc[Thread(k)].pending = Asked(k)
        /\ Goto(c, "answer") /\ UNCHANGED form
     \/ /\ doc[Thread(k)].pending # Asked(k)
        /\ Goto(c, "done") /\ Shows(Asked(k), "stale")
  /\ UNCHANGED <<claim, root, cases, doc, process, sess, faults>>

\* Answers are missing: the form is drawn again, to be submitted again.
Incomplete(c) ==
  LET k == c[1] IN
  /\ pc[c] = "answer"
  /\ Goto(c, "new") /\ Shows(Asked(k), "open")
  /\ UNCHANGED <<claim, root, cases, doc, process, sess, faults>>

Answer(c) ==
  /\ pc[c] = "answer"
  /\ Goto(c, "clear") /\ Shows(Asked(c[1]), "answered")
  /\ UNCHANGED <<claim, root, cases, doc, process, sess, faults>>

ClearPending(c) ==
  /\ pc[c] = "clear"
  /\ SetPending(Thread(c[1]), None) /\ Goto(c, "load")
  /\ UNCHANGED <<claim, slack, cases, process, sess, faults>>

\* runThreadCaseCreation: the thread's Session, or a new one that only this
\* delivery knows as yet.
LoadOrCreateSession(c) ==
  LET k == c[1]
      t == Thread(k)
      found == IF Known(t) THEN doc[t] ELSE [NoSession EXCEPT !.id = c]
  IN
  /\ pc[c] = "load"
  /\ sess' = [sess EXCEPT ![c] =
                [found EXCEPT !.reaction = @ \/ IsReaction(k)]]
  /\ Goto(c, IF (IsMention(k) \/ IsAnswer(k)) /\ found.pending # None
             THEN "stale" ELSE "put")
  /\ UNCHANGED <<claim, slack, cases, doc, process, faults>>

\* A mention, or an answer, retires the form still pending.
Supersede(c) ==
  /\ pc[c] = "stale"
  /\ Shows(sess[c].pending, "stale") /\ Goto(c, "put")
  /\ UNCHANGED <<claim, root, cases, doc, process, sess, faults>>

\* The whole document as it was read.
PersistSession(c) ==
  /\ pc[c] = "put"
  /\ doc' = [doc EXCEPT ![Thread(c[1])] = sess[c]]
  /\ Goto(c, "start")
  /\ UNCHANGED <<claim, slack, cases, process, sess, faults>>

Busy(id) == \E d \in Calls : turn[d] = "open" /\ subject[d] = id
Started(k) == \E d \in Calls : d[1] = k /\ turn[d] # "none"

\* Faulty: a delivery starts its turn whether or not another one has.
StartAgain(c) ==
  LET id == sess[c].id IN
  /\ pc[c] = "start" /\ Stop(c)
  /\ IF Busy(id)
     THEN UNCHANGED <<turn, subject>>
     ELSE /\ turn' = [turn EXCEPT ![c] = "open"]
          /\ subject' = [subject EXCEPT ![c] = id]
  /\ UNCHANGED <<claim, slack, cases, doc, handler, faults>>

\* Faulty: the key of a turn is its thread.
StartOnce(c) ==
  LET id == sess[c].id IN
  /\ pc[c] = "start" /\ Stop(c)
  /\ IF \E k \in Keys : Thread(k) = Thread(c[1]) /\ Started(k)
     THEN UNCHANGED <<turn, subject>>
     ELSE /\ turn' = [turn EXCEPT ![c] = "open"]
          /\ subject' = [subject EXCEPT ![c] = id]
  /\ UNCHANGED <<claim, slack, cases, doc, handler, faults>>

\* One turn per trigger, and one open turn per session id: a trigger that has
\* its turn already, or finds the session busy, is dropped.
StartTurn(c) ==
  LET id == sess[c].id IN
  /\ pc[c] = "start" /\ Stop(c)
  /\ IF Started(c[1]) \/ Busy(id)
     THEN UNCHANGED <<turn, subject>>
     ELSE /\ turn' = [turn EXCEPT ![c] = "open"]
          /\ subject' = [subject EXCEPT ![c] = id]
  /\ UNCHANGED <<claim, slack, cases, doc, handler, faults>>
-----------------------------------------------------------------------------
(***************************************************************************)
(* The turn, and its completion handler.                                   *)
(***************************************************************************)
HGoto(c, place) == handler' = [handler EXCEPT ![c] = place]

\* The Process ends, and its subject is free: with a proposal, with a question,
\* or with no conclusion, which an invalid proposal is too.
TurnEnds(c) ==
  /\ turn[c] = "open"
  /\ turn' = [turn EXCEPT ![c] = "ended"]
  /\ \E next \in {"commit", "fallback"} \cup
                 (IF c[1][2] < MaxAnswers THEN {"ask"} ELSE {}) : HGoto(c, next)
  /\ UNCHANGED <<claim, slack, cases, doc, subject, actors, faults>>

\* CreateCase needs the Session ...
CommitCreate(c) ==
  /\ handler[c] = "commit"
  /\ HGoto(c, IF Known(Thread(c[1])) THEN "check" ELSE "fallback")
  /\ UNCHANGED <<claim, slack, cases, doc, turn, subject, actors, faults>>

\* ... takes the case the thread has already ...
FindCase(c) ==
  /\ handler[c] = "check"
  /\ HGoto(c, IF cases[Thread(c[1])] = {} THEN "create" ELSE "bind")
  /\ UNCHANGED <<claim, slack, cases, doc, turn, subject, actors, faults>>

\* ... or stores a new one ...
CreateCase(c) ==
  /\ handler[c] = "create"
  /\ cases' = [cases EXCEPT ![Thread(c[1])] = @ \cup {c}]
  /\ HGoto(c, "bind")
  /\ UNCHANGED <<claim, slack, doc, turn, subject, actors, faults>>

\* ... binds the Session to it, which drops the question ...
BindCase(c) ==
  /\ handler[c] = "bind"
  /\ SetPending(Thread(c[1]), None) /\ HGoto(c, "post")
  /\ UNCHANGED <<claim, slack, cases, turn, subject, actors, faults>>

\* ... and posts the summary, over the root where the dialogue is elsewhere.
PostOutcome(c) ==
  /\ handler[c] = "post"
  /\ root' = IF SameThread(c[1]) THEN root
             ELSE [root EXCEPT ![Thread(c[1])] = "summary"]
  /\ HGoto(c, "done")
  /\ UNCHANGED <<claim, form, cases, doc, turn, subject, actors, faults>>

\* AskQuestion posts the form and then makes the Session wait for it.
AskQuestion(c) ==
  /\ handler[c] = "ask"
  /\ IF Known(Thread(c[1]))
     THEN Shows(c[1], "open") /\ HGoto(c, "record")
     ELSE UNCHANGED form /\ HGoto(c, "fallback")
  /\ UNCHANGED <<claim, root, cases, doc, turn, subject, actors, faults>>

RecordQuestion(c) ==
  /\ handler[c] = "record"
  /\ SetPending(Thread(c[1]), c[1]) /\ HGoto(c, "done")
  /\ UNCHANGED <<claim, slack, cases, turn, subject, actors, faults>>

\* Faulty: the fallback leaves the claim alone.
FallbackKeepsClaim(c) ==
  /\ handler[c] = "fallback" /\ HGoto(c, "done")
  /\ UNCHANGED <<claim, slack, cases, doc, turn, subject, actors, faults>>

\* ReportFallback: unless a question is pending, the reaction is given back.
ReportFallback(c) ==
  LET s == doc[Thread(c[1])] IN
  /\ handler[c] = "fallback"
  /\ HGoto(c, IF s.reaction /\ s.pending = None THEN "release" ELSE "done")
  /\ UNCHANGED <<claim, slack, cases, doc, turn, subject, actors, faults>>

ReleaseClaim(c) ==
  /\ handler[c] = "release"
  /\ claim' = None /\ HGoto(c, "note")
  /\ UNCHANGED <<slack, cases, doc, turn, subject, actors, faults>>

FailRoot(c) ==
  /\ handler[c] = "note"
  /\ root' = [root EXCEPT ![Thread(c[1])] = "failed"]
  /\ HGoto(c, "done")
  /\ UNCHANGED <<claim, form, cases, doc, turn, subject, actors, faults>>
-----------------------------------------------------------------------------
(***************************************************************************)
(* Faults.                                                                 *)
(***************************************************************************)
Fault == faults < MaxFaults /\ faults' = faults + 1

\* A call a delivery makes fails.  A root that cannot be posted gives the claim
\* back, a failed update of the form or of the Session is reported and the
\* delivery goes on, everything else ends it.
CallFails(c) ==
  /\ Fault
  /\ \/ pc[c] = "root" /\ Goto(c, "unclaim") /\ UNCHANGED sess
     \/ pc[c] = "answer" /\ Goto(c, "clear") /\ UNCHANGED sess
     \/ pc[c] = "clear" /\ Goto(c, "load") /\ UNCHANGED sess
     \/ pc[c] = "stale" /\ Goto(c, "put") /\ UNCHANGED sess
     \/ pc[c] = "put" /\ Goto(c, "start") /\ UNCHANGED sess
     \/ pc[c] \in {"claim", "unclaim", "check", "match", "load", "start"}
        /\ Stop(c)
  /\ UNCHANGED <<claim, slack, cases, doc, process>>

\* Its instance dies.
Crash(c) ==
  /\ Fault
  /\ pc[c] \notin {"new", "done", "dead"}
  /\ Goto(c, "dead") /\ sess' = [sess EXCEPT ![c] = NoSession]
  /\ UNCHANGED <<claim, slack, cases, doc, process>>

\* A call of the handler fails: before the case is stored or the question
\* recorded that is a fallback, later it is reported and the handler goes on.
HandlerFails(c) ==
  /\ Fault
  /\ \/ handler[c] \in {"commit", "check", "create", "ask", "record"}
        /\ HGoto(c, "fallback")
     \/ handler[c] = "bind" /\ HGoto(c, "post")
     \/ handler[c] = "release" /\ HGoto(c, "note")
     \/ handler[c] \in {"post", "fallback", "note"} /\ HGoto(c, "done")
  /\ UNCHANGED <<claim, slack, cases, doc, turn, subject, actors>>

\* The instance that ran it dies, and nobody runs it again.
HandlerLost(c) ==
  /\ Fault
  /\ handler[c] \notin {"none", "done", "lost"}
  /\ HGoto(c, "lost")
  /\ UNCHANGED <<claim, slack, cases, doc, turn, subject, actors>>
-----------------------------------------------------------------------------
CallStep(c) ==
  \/ Claim(c) \/ PostRoot(c) \/ Unclaim(c)
  \/ Check(c) \/ Match(c) \/ Incomplete(c) \/ Answer(c) \/ ClearPending(c)
  \/ LoadOrCreateSession(c) \/ Supersede(c) \/ PersistSession(c)
  \/ StartTurn(c)

HandlerStep(c) ==
  \/ CommitCreate(c) \/ FindCase(c) \/ CreateCase(c) \/ BindCase(c)
  \/ PostOutcome(c) \/ AskQuestion(c) \/ RecordQuestion(c)
  \/ ReportFallback(c) \/ ReleaseClaim(c) \/ FailRoot(c)

Next ==
  \E c \in Calls :
    \/ Deliver(c) \/ CallStep(c) \/ CallFails(c) \/ Crash(c)
    \/ TurnEnds(c) \/ HandlerStep(c) \/ HandlerFails(c) \/ HandlerLost(c)

Spec == Init /\ [][Next]_vars

\* What was delivered is carried on, a turn ends (every run has a step limit)
\* and its handler goes on.  Nobody has to react, mention, or answer.
Fairness ==
  \A c \in Calls :
    WF_vars(CallStep(c)) /\ WF_vars(TurnEnds(c)) /\ WF_vars(HandlerStep(c))

FairSpec == Spec /\ Fairness
-----------------------------------------------------------------------------
(***************************************************************************)
(* Properties.                                                             *)
(***************************************************************************)

\* A thread is one case, however often an event is delivered and a form clicked,
\* and whatever fails in between (configuration.md:515).  With mentions it is
\* not: see OneTurnPerThread.
OneCasePerThread == \A t \in Threads : Cardinality(cases[t]) <= 1

\* However often a message is reacted to, and however often the claim on it is
\* given back and taken again, it becomes one case (reaction_claim.go:5).
OneCasePerReaction == Cardinality(UNION {cases[r] : r \in Reactions}) <= 1

\* A form that shows its answers has started the turn they are for, or somebody
\* is on the way to start it; unless a call failed, none is taken and forgotten.
AnswerResumes ==
  \A k \in Keys : form[k] = "answered" =>
    \/ faults > 0 \/ Started(AnswerTo(k))
    \/ \E c \in Calls : /\ c[1] = AnswerTo(k)
                        /\ pc[c] \in {"clear", "load", "stale", "put", "start"}

\* A reaction keeps its message only as long as something can come of it: unless
\* a call failed, a claim in the end has its case, or a question on record, or
\* is given back so that another reaction can retry (reactioncase.go:180).
ClaimSettles ==
  \A r \in Reactions :
    []<>(faults > 0 \/ claim # r \/ cases[r] # {} \/ doc[r].pending # None)

\* What operations.md:600 says: two turns of one thread are never open at once.
OneTurnPerThread ==
  \A c, d \in Calls :
    turn[c] = "open" /\ turn[d] = "open" /\ Thread(c[1]) = Thread(d[1]) => c = d

\* What threadcase_durable.go:109 says: a create turn that comes to nothing and
\* finds a question pending has nothing to undo, the user is still being asked.
PendingMeansWaiting ==
  \A c \in Calls : handler[c] = "fallback" =>
    LET asked == doc[Thread(c[1])].pending IN
    asked # None => form[asked] = "open"
=============================================================================

--------------------------- MODULE ThreadCaseProofs ---------------------------
(***************************************************************************)
(* Proofs about ThreadCase, for any number of posts, reactions, mentions,  *)
(* answers and deliveries, and any number of faults.                       *)
(*                                                                         *)
(* The turns that follow one first trigger form a chain: a turn is started *)
(* by the answer to the question of the turn before it, and that one has   *)
(* left no case and does nothing any more (BelowWaited).  So one turn of a *)
(* chain is at work at a time, and at most one makes a case.  Where no     *)
(* mention starts a second chain, a thread has one chain; and a reaction   *)
(* whose claim is given back has a chain that is over (Quiet).             *)
(***************************************************************************)
EXTENDS ThreadCase, FiniteSetTheorems, TLAPS

Step(c) ==
  \/ Deliver(c) \/ CallStep(c) \/ CallFails(c) \/ Crash(c)
  \/ TurnEnds(c) \/ HandlerStep(c) \/ HandlerFails(c) \/ HandlerLost(c)

\* The threads that have one first trigger.
Plain == {t \in Threads : Mentions = {} \/ t # MentionThread}
-----------------------------------------------------------------------------
(***************************************************************************)
(* The inductive invariant.                                                *)
(***************************************************************************)

\* What a delivery and its turn know at each of their steps.
CallKnows(c) ==
  /\ pc[c] \in {"claim", "root", "unclaim"} => IsReaction(c[1])
  /\ pc[c] \in {"match", "answer", "clear"} => IsAnswer(c[1])
  /\ pc[c] \in {"stale", "put", "start"} => sess[c] # NoSession
  /\ handler[c] # "none" <=> turn[c] = "ended"
  /\ turn[c] # "none" => pc[c] = "done"

CallsKnow == \A c \in Calls : CallKnows(c)

\* A Session, read or stored, is of its thread.
Of(s, t) ==
  s # NoSession =>
    /\ Thread(s.id[1]) = t
    /\ s.pending # None => Thread(s.pending) = t
    /\ s.reaction => t \in Reactions

SessionsOwn ==
  /\ \A t \in Threads : Of(doc[t], t)
  /\ \A c \in Calls : Of(sess[c], Thread(c[1]))
  /\ \A c \in Calls :
       /\ turn[c] # "none" => /\ subject[c] \in Calls
                              /\ Thread(subject[c][1]) = Thread(c[1])
       /\ handler[c] = "release" => Thread(c[1]) \in Reactions

\* One turn per trigger.
OneTurn ==
  \A c, d \in Calls :
    turn[c] # "none" /\ turn[d] # "none" /\ c[1] = d[1] => c = d

CasesOwn ==
  \A t \in Threads : \A c \in cases[t] :
    Thread(c[1]) = t /\ handler[c] \in {"bind", "post", "done", "lost"}

\* The turn of k is over, and left no case.
Waited(k) ==
  \E d \in Calls : /\ d[1] = k /\ handler[d] = "done"
                   /\ \A t \in Threads : d \notin cases[t]

Answering == {"answer", "clear", "load", "stale", "put", "start"}

\* Only the question of such a turn is pending, or answered; and below a turn
\* of a chain there are only such turns.
PendingWaited ==
  /\ \A t \in Threads : doc[t].pending # None => Waited(doc[t].pending)
  /\ \A c \in Calls :
       /\ sess[c].pending # None => Waited(sess[c].pending)
       /\ IsAnswer(c[1]) /\ pc[c] \in Answering => Waited(Asked(c[1]))

BelowWaited ==
  \A c \in Calls : \A k \in Keys :
    turn[c] # "none" /\ k[1] = c[1][1] /\ k[2] < c[1][2] => Waited(k)

IInv == /\ TypeOK /\ CallsKnow /\ SessionsOwn /\ OneTurn /\ CasesOwn
        /\ PendingWaited /\ BelowWaited

\* The chain of r is over without a case: nothing of it can start a turn, give
\* the claim back or make a case.
Quiet(r) ==
  /\ cases[r] = {}
  /\ doc[r].pending # None => Started(AnswerTo(doc[r].pending))
  /\ \A c \in Calls : c[1][1] = r =>
       /\ turn[c] # "open" /\ handler[c] \in {"none", "note", "done", "lost"}
       /\ sess[c].pending # None => Started(AnswerTo(sess[c].pending))
       /\ IF IsReaction(c[1]) THEN pc[c] \in {"new", "claim", "done", "dead"}
          ELSE pc[c] \in Answering => Started(c[1])

ClaimOrQuiet == \A r \in Reactions : claim = r \/ Quiet(r)
-----------------------------------------------------------------------------
(***************************************************************************)
(* Triggers, deliveries and Sessions.                                      *)
(***************************************************************************)

\* A trigger is its chain and its level in the chain.
LEMMA KeyFacts ==
  ASSUME NEW k \in Keys
  PROVE  /\ k = <<k[1], k[2]>> /\ k[2] \in Nat
         /\ k[1] \in Threads \cup Mentions
         /\ AnswerTo(k)[1] = k[1] /\ AnswerTo(k)[2] = k[2] + 1
         /\ Asked(AnswerTo(k)) = k
         /\ IsAnswer(k) => /\ Asked(k) \in Keys /\ AnswerTo(Asked(k)) = k
                           /\ Asked(k)[1] = k[1] /\ Asked(k)[2] = k[2] - 1
         /\ \A l \in Keys : k[1] = l[1] /\ k[2] = l[2] => k = l
<1>1. /\ k = <<k[1], k[2]>> /\ k[2] \in 0..MaxAnswers
      /\ k[1] \in Threads \cup Mentions
  BY DEF Keys
<1>2. k[2] \in Nat /\ MaxAnswers \in Nat
  BY <1>1, ThreadCaseAssumption
<1>3. AnswerTo(k)[1] = k[1] /\ AnswerTo(k)[2] = k[2] + 1
  BY DEF AnswerTo
<1>4. Asked(AnswerTo(k)) = k
  BY <1>1, <1>2, <1>3 DEF Asked
<1>5. ASSUME IsAnswer(k)
      PROVE  /\ Asked(k) \in Keys /\ AnswerTo(Asked(k)) = k
             /\ Asked(k)[1] = k[1] /\ Asked(k)[2] = k[2] - 1
  <2>1. Asked(k)[1] = k[1] /\ Asked(k)[2] = k[2] - 1
    BY DEF Asked
  <2>2. k[2] - 1 \in 0..MaxAnswers
    BY <1>1, <1>2, <1>5 DEF IsAnswer
  <2>3. Asked(k) \in Keys
    BY <1>1, <2>2 DEF Keys, Asked
  <2>4. AnswerTo(Asked(k)) = k
    BY <1>1, <1>2, <2>1 DEF AnswerTo
  <2> QED
    BY <2>1, <2>3, <2>4
<1>6. ASSUME NEW l \in Keys, k[1] = l[1], k[2] = l[2] PROVE k = l
  BY <1>1, <1>6 DEF Keys
<1> QED
  BY <1>1, <1>2, <1>3, <1>4, <1>5, <1>6

\* A delivery is one of a trigger, and a trigger is in one thread.
LEMMA CallFacts ==
  ASSUME NEW c \in Calls
  PROVE  /\ c[1] \in Keys /\ Thread(c[1]) \in Threads /\ c # None
         /\ c[1][1] \in Threads => Thread(c[1]) = c[1][1]
         /\ Thread(c[1]) \in Plain => Thread(c[1]) = c[1][1]
         /\ IsReaction(c[1]) => /\ c[1][1] \in Reactions
                                /\ \A d \in Calls : d[1] = c[1] => d = c
<1>1. c \in Keys \X (1..Copies) /\ c[1] \in Keys /\ c = <<c[1], c[2]>>
  BY DEF Calls
<1>2. c[1][1] \in Threads \cup Mentions /\ Threads \cap Mentions = {}
      /\ MentionThread \in Threads /\ c # None
  BY <1>1, KeyFacts, ThreadCaseAssumption
<1>3. /\ Thread(c[1]) \in Threads
      /\ c[1][1] \in Threads => Thread(c[1]) = c[1][1]
  BY <1>2 DEF Thread
<1>4. Thread(c[1]) \in Plain => Thread(c[1]) = c[1][1]
  BY <1>2 DEF Thread, Plain
<1>5. ASSUME IsReaction(c[1])
      PROVE  /\ c[1][1] \in Reactions
             /\ \A d \in Calls : d[1] = c[1] => d = c
  <2>1. ASSUME NEW d \in Calls, d[1] = c[1] PROVE d = c
    <3>1. d = <<d[1], d[2]>> /\ d[2] = 1 /\ c[2] = 1
      BY <1>5, <2>1 DEF Calls, IsReaction
    <3> QED
      BY <1>1, <2>1, <3>1
  <2> QED
    BY <1>5, <2>1 DEF IsReaction
<1> QED
  BY <1>1, <1>2, <1>3, <1>4, <1>5

\* The same of a trigger on its own.
LEMMA ThreadOfKey ==
  ASSUME NEW k \in Keys
  PROVE  /\ Thread(k) \in Threads /\ k # None
         /\ k[1] \in Threads => Thread(k) = k[1]
         /\ Thread(k) \in Plain => Thread(k) = k[1]
<1>1. k[1] \in Threads \cup Mentions /\ Threads \cap Mentions = {}
      /\ MentionThread \in Threads /\ k # None
  BY KeyFacts, ThreadCaseAssumption
<1> QED
  BY <1>1 DEF Thread, Plain

\* The fields of a Session, and what a changed one keeps.
LEMMA SessionFacts ==
  ASSUME NEW s \in Session
  PROVE  /\ s # NoSession /\ s.id \in Calls /\ s.reaction \in BOOLEAN
         /\ s.pending \in Keys \cup {None}
         /\ \A k \in Keys \cup {None} :
              LET new == [s EXCEPT !.pending = k]
              IN /\ new \in Session /\ new.id = s.id /\ new.pending = k
                 /\ new.reaction = s.reaction
<1>1. s.id \in Calls /\ s.reaction \in BOOLEAN /\ s.pending \in Keys \cup {None}
  BY DEF Session
<1>2. s # NoSession
  BY <1>1, CallFacts DEF NoSession
<1> QED
  BY <1>1, <1>2 DEF Session

\* Nothing is pending in no Session.
LEMMA NoSessionFacts ==
  /\ NoSession.id = None /\ NoSession.pending = None
  /\ NoSession.reaction = FALSE
BY DEF NoSession

\* The types of what a step of a delivery reads.
LEMMA Fields ==
  ASSUME TypeOK
  PROVE  /\ \A t \in Threads : /\ doc[t] \in Session \cup {NoSession}
                               /\ doc[t].pending \in Keys \cup {None}
                               /\ Known(t) => doc[t] \in Session
         /\ \A c \in Calls : /\ sess[c] \in Session \cup {NoSession}
                             /\ sess[c].pending \in Keys \cup {None}
                             /\ sess[c].id \in Calls \cup {None}
         /\ faults \in Nat /\ MaxFaults \in Nat
<1>1. \A s \in Session \cup {NoSession} :
        s.pending \in Keys \cup {None} /\ s.id \in Calls \cup {None}
  BY SessionFacts, NoSessionFacts
<1> QED
  BY <1>1, ThreadCaseAssumption DEF TypeOK, Known
-----------------------------------------------------------------------------
(***************************************************************************)
(* What a step writes.                                                     *)
(***************************************************************************)

\* A step of a delivery writes that delivery's entries only.
OthersKept(c) ==
  \A d \in Calls \ {c} :
    /\ pc'[d] = pc[d] /\ sess'[d] = sess[d] /\ turn'[d] = turn[d]
    /\ subject'[d] = subject[d] /\ handler'[d] = handler[d]

\* It is so of every step.
LEMMA OwnEntries ==
  ASSUME TypeOK, NEW c \in Calls, Step(c)
  PROVE  OthersKept(c)
<1> USE DEF TypeOK, OthersKept, Goto, Shows, Stop, HGoto, process, actors
<1>1. CASE Deliver(c) \/ Claim(c) \/ PostRoot(c) \/ Unclaim(c) \/ Check(c)
           \/ Match(c) \/ Incomplete(c) \/ Answer(c) \/ ClearPending(c)
  BY <1>1 DEF Deliver, Claim, PostRoot, Unclaim, Check, Match, Incomplete,
     Answer, ClearPending
<1>2. CASE LoadOrCreateSession(c) \/ Supersede(c) \/ PersistSession(c)
           \/ StartTurn(c)
  BY <1>2 DEF LoadOrCreateSession, Supersede, PersistSession, StartTurn
<1>3. CASE CallFails(c) \/ Crash(c)
  BY <1>3 DEF CallFails, Crash
<1>4. CASE TurnEnds(c) \/ HandlerFails(c) \/ HandlerLost(c)
  BY <1>4 DEF TurnEnds, HandlerFails, HandlerLost
<1>5. CASE HandlerStep(c)
  BY <1>5 DEF HandlerStep, CommitCreate, FindCase, CreateCase, BindCase,
     PostOutcome, AskQuestion, RecordQuestion, ReportFallback, ReleaseClaim,
     FailRoot
<1> QED
  BY <1>1, <1>2, <1>3, <1>4, <1>5 DEF Step, CallStep

\* The Session of its thread it writes, a whole one or the question of one.
DocWritten(c) ==
  LET t == Thread(c[1]) IN
  \/ doc' = doc
  \/ pc[c] = "put" /\ doc' = [doc EXCEPT ![t] = sess[c]]
  \/ \E k \in Keys \cup {None} :
       /\ Known(t) /\ doc' = [doc EXCEPT ![t] = [doc[t] EXCEPT !.pending = k]]
       /\ k # None => k = c[1] /\ handler[c] = "record" /\ handler'[c] = "done"

\* The copy it takes of its thread's Session, or drops.
SessWritten(c) ==
  \/ sess' = sess
  \/ sess' = [sess EXCEPT ![c] = NoSession] /\ pc'[c] \in {"done", "dead"}
  \/ \E s \in Session :
       /\ pc[c] = "load" /\ pc'[c] \in {"stale", "put"}
       /\ sess' = [sess EXCEPT ![c] = s]
       /\ \/ Known(Thread(c[1])) /\ s.id = doc[Thread(c[1])].id
          \/ s.id = c
       /\ s.pending = doc[Thread(c[1])].pending
       /\ s.reaction => doc[Thread(c[1])].reaction \/ IsReaction(c[1])

\* The case it makes.
CaseWritten(c) ==
  \/ cases' = cases
  \/ /\ handler[c] = "create" /\ handler'[c] = "bind"
     /\ cases' = [cases EXCEPT ![Thread(c[1])] = cases[Thread(c[1])] \cup {c}]

\* The turn it starts or ends.
TurnWritten(c) ==
  \/ turn' = turn /\ subject' = subject
  \/ /\ pc[c] = "start" /\ pc'[c] = "done" /\ turn'[c] = "open"
     /\ ~Started(c[1]) /\ ~Busy(sess[c].id)
     /\ turn' = [turn EXCEPT ![c] = "open"]
     /\ subject' = [subject EXCEPT ![c] = sess[c].id]
  \/ /\ turn[c] = "open" /\ turn' = [turn EXCEPT ![c] = "ended"]
     /\ turn'[c] = "ended" /\ subject' = subject
     /\ handler'[c] \in {"commit", "fallback", "ask"}

\* Every step writes no more than that.
LEMMA StepWrites ==
  ASSUME TypeOK, NEW c \in Calls, Step(c)
  PROVE  DocWritten(c) /\ SessWritten(c) /\ CaseWritten(c) /\ TurnWritten(c)
<1> DEFINE Written == /\ DocWritten(c) /\ SessWritten(c) /\ CaseWritten(c)
                      /\ TurnWritten(c)
<1> USE DEF DocWritten, SessWritten, CaseWritten, TurnWritten
<1>1. ASSUME doc' = doc, sess' = sess, cases' = cases, turn' = turn,
             subject' = subject
      PROVE  Written
  BY <1>1
<1>2. CASE Deliver(c) \/ Claim(c) \/ PostRoot(c) \/ Unclaim(c) \/ Check(c)
           \/ Match(c) \/ Incomplete(c) \/ Answer(c) \/ Supersede(c)
  BY <1>1, <1>2 DEF Deliver, Claim, PostRoot, Unclaim, Check, Match, Incomplete,
     Answer, Supersede, process
<1>3. CASE ClearPending(c) \/ BindCase(c)
  <2>1. /\ doc' = IF Known(Thread(c[1]))
                  THEN [doc EXCEPT ![Thread(c[1])] =
                          [doc[Thread(c[1])] EXCEPT !.pending = None]]
                  ELSE doc
        /\ sess' = sess /\ cases' = cases /\ turn' = turn /\ subject' = subject
    BY <1>3 DEF ClearPending, BindCase, SetPending, process, actors
  <2>2. DocWritten(c)
    BY <2>1
  <2> QED
    BY <2>1, <2>2
<1>4. CASE LoadOrCreateSession(c)
  <2> DEFINE t == Thread(c[1])
             found == IF Known(t) THEN doc[t] ELSE [NoSession EXCEPT !.id = c]
             new == [found EXCEPT !.reaction = found.reaction \/ IsReaction(c[1])]
  <2>1. /\ pc[c] = "load" /\ sess' = [sess EXCEPT ![c] = new]
        /\ pc'[c] \in {"stale", "put"}
        /\ doc' = doc /\ cases' = cases /\ turn' = turn /\ subject' = subject
    BY <1>4 DEF LoadOrCreateSession, Goto, TypeOK, process
  <2>2. /\ new \in Session /\ new.pending = doc[t].pending
        /\ \/ Known(t) /\ new.id = doc[t].id
           \/ new.id = c
        /\ new.reaction => doc[t].reaction \/ IsReaction(c[1])
    <3>1. (found.reaction \/ IsReaction(c[1])) \in BOOLEAN
      OBVIOUS
    <3>2. CASE Known(t)
      BY <3>1, <3>2, Fields, CallFacts DEF Session
    <3>3. CASE ~Known(t)
      BY <3>1, <3>3, CallFacts DEF Session, NoSession, Known
    <3> QED
      BY <3>2, <3>3
  <2> HIDE DEF new
  <2>3. SessWritten(c)
    BY <2>1, <2>2
  <2> QED
    BY <2>1, <2>3
<1>5. CASE PersistSession(c)
  BY <1>5 DEF PersistSession, process
<1>6. CASE StartTurn(c)
  <2>1. /\ doc' = doc /\ cases' = cases /\ pc[c] = "start" /\ pc'[c] = "done"
        /\ sess' = [sess EXCEPT ![c] = NoSession]
    BY <1>6 DEF StartTurn, Stop, Goto, TypeOK
  <2>2. TurnWritten(c)
    <3>1. CASE Started(c[1]) \/ Busy(sess[c].id)
      BY <1>6, <3>1 DEF StartTurn
    <3>2. CASE ~(Started(c[1]) \/ Busy(sess[c].id))
      <4>1. /\ turn' = [turn EXCEPT ![c] = "open"]
            /\ subject' = [subject EXCEPT ![c] = sess[c].id]
        BY <1>6, <3>2 DEF StartTurn
      <4> QED
        BY <2>1, <3>2, <4>1 DEF TypeOK
    <3> QED
      BY <3>1, <3>2
  <2> QED
    BY <2>1, <2>2
<1>7. CASE CallFails(c) \/ Crash(c)
  <2>1. /\ doc' = doc /\ cases' = cases /\ turn' = turn /\ subject' = subject
        /\ \/ sess' = sess
           \/ sess' = [sess EXCEPT ![c] = NoSession] /\ pc'[c] \in {"done", "dead"}
    BY <1>7 DEF CallFails, Crash, Stop, Goto, TypeOK, process
  <2> QED
    BY <2>1
<1>8. CASE TurnEnds(c)
  <2>1. /\ doc' = doc /\ cases' = cases /\ sess' = sess /\ subject' = subject
        /\ turn[c] = "open" /\ turn' = [turn EXCEPT ![c] = "ended"]
        /\ handler'[c] \in {"commit", "fallback", "ask"}
    BY <1>8 DEF TurnEnds, HGoto, TypeOK, actors
  <2> QED
    BY <2>1 DEF TypeOK
<1>9. CASE HandlerFails(c) \/ HandlerLost(c) \/ CommitCreate(c) \/ FindCase(c)
           \/ PostOutcome(c) \/ AskQuestion(c) \/ ReportFallback(c)
           \/ ReleaseClaim(c) \/ FailRoot(c)
  BY <1>1, <1>9 DEF HandlerFails, HandlerLost, CommitCreate, FindCase,
     PostOutcome, AskQuestion, ReportFallback, ReleaseClaim, FailRoot, actors
<1>10. CASE CreateCase(c)
  <2>1. /\ doc' = doc /\ sess' = sess /\ turn' = turn /\ subject' = subject
        /\ handler[c] = "create" /\ handler'[c] = "bind"
        /\ cases' = [cases EXCEPT ![Thread(c[1])] = cases[Thread(c[1])] \cup {c}]
    BY <1>10 DEF CreateCase, HGoto, TypeOK, actors
  <2> QED
    BY <2>1
<1>11. CASE RecordQuestion(c)
  <2>1. /\ doc' = IF Known(Thread(c[1]))
                  THEN [doc EXCEPT ![Thread(c[1])] =
                          [doc[Thread(c[1])] EXCEPT !.pending = c[1]]]
                  ELSE doc
        /\ handler[c] = "record" /\ handler'[c] = "done" /\ c[1] \in Keys
        /\ sess' = sess /\ cases' = cases /\ turn' = turn /\ subject' = subject
    BY <1>11, CallFacts DEF RecordQuestion, SetPending, HGoto, TypeOK, actors
  <2>2. DocWritten(c)
    BY <2>1
  <2> QED
    BY <2>1, <2>2
<1> QED
  BY <1>2, <1>3, <1>4, <1>5, <1>6, <1>7, <1>8, <1>9, <1>10, <1>11
  DEF Step, CallStep, HandlerStep

-----------------------------------------------------------------------------
(***************************************************************************)
(* The types.                                                              *)
(***************************************************************************)

\* The documents keep their types.
LEMMA DocTypes ==
  ASSUME TypeOK, NEW c \in Calls, Step(c)
  PROVE  /\ doc' \in [Threads -> Session \cup {NoSession}]
         /\ sess' \in [Calls -> Session \cup {NoSession}]
         /\ cases' \in [Threads -> SUBSET Calls]
         /\ turn' \in [Calls -> {"none", "open", "ended"}]
         /\ subject' \in [Calls -> Calls \cup {None}]
<1>1. DocWritten(c) /\ SessWritten(c) /\ CaseWritten(c) /\ TurnWritten(c)
  BY StepWrites
<1>2. doc' \in [Threads -> Session \cup {NoSession}]
  <2>1. ASSUME NEW k \in Keys \cup {None}, Known(Thread(c[1]))
        PROVE  [doc[Thread(c[1])] EXCEPT !.pending = k] \in Session
    BY <2>1, Fields, SessionFacts, CallFacts
  <2> QED
    BY <1>1, <2>1 DEF DocWritten, TypeOK
<1>3. sess' \in [Calls -> Session \cup {NoSession}]
  BY <1>1 DEF SessWritten, TypeOK
<1>4. cases' \in [Threads -> SUBSET Calls]
  BY <1>1, CallFacts DEF CaseWritten, TypeOK
<1>5. turn' \in [Calls -> {"none", "open", "ended"}]
  BY <1>1 DEF TurnWritten, TypeOK
<1>6. subject' \in [Calls -> Calls \cup {None}]
  BY <1>1, Fields DEF TurnWritten, TypeOK
<1> QED
  BY <1>2, <1>3, <1>4, <1>5, <1>6

\* So do the claim, the messages, and where the deliveries are.
LEMMA RestTypes ==
  ASSUME TypeOK, CallsKnow, NEW c \in Calls, Step(c)
  PROVE  /\ claim' \in Reactions \cup {None}
         /\ root' \in [Reactions -> {"none", "creating", "summary", "failed"}]
         /\ form' \in [Keys -> {"none", "open", "answered", "stale"}]
         /\ pc' \in [Calls -> {"new", "claim", "root", "unclaim", "check",
                               "match", "answer", "clear", "load", "stale",
                               "put", "start", "done", "dead"}]
         /\ handler' \in [Calls -> {"none", "commit", "check", "create", "bind",
                                    "post", "ask", "record", "fallback",
                                    "release", "note", "done", "lost"}]
         /\ faults' \in 0..MaxFaults
<1>1. claim' = claim \/ claim' = None \/ (Claim(c) /\ claim' = c[1][1])
  BY DEF Step, CallStep, HandlerStep, Deliver, Claim, PostRoot, Unclaim, Check,
     Match, Incomplete, Answer, ClearPending, LoadOrCreateSession, Supersede,
     PersistSession, StartTurn, CallFails, Crash, TurnEnds, HandlerFails,
     HandlerLost, CommitCreate, FindCase, CreateCase, BindCase, PostOutcome,
     AskQuestion, RecordQuestion, ReportFallback, ReleaseClaim, FailRoot
<1>2. claim' \in Reactions \cup {None}
  BY <1>1, CallFacts DEF TypeOK, CallsKnow, CallKnows, Claim
<1>3. \/ root' = root
      \/ \E what \in {"creating", "summary", "failed"}, t \in Threads :
           root' = [root EXCEPT ![t] = what]
  <2>1. CASE PostRoot(c)
    BY <2>1, CallFacts DEF PostRoot, CallsKnow, CallKnows, Threads
  <2>2. CASE PostOutcome(c) \/ FailRoot(c)
    BY <2>2, CallFacts DEF PostOutcome, FailRoot
  <2> QED
    BY <2>1, <2>2 DEF Step, CallStep, HandlerStep, Deliver, Claim, Unclaim,
       Check, Match, Incomplete, Answer, ClearPending, LoadOrCreateSession,
       Supersede, PersistSession, StartTurn, CallFails, Crash, TurnEnds,
       HandlerFails, HandlerLost, CommitCreate, FindCase, CreateCase, BindCase,
       AskQuestion, RecordQuestion, ReportFallback, ReleaseClaim, slack
<1>4. \/ form' = form
      \/ \E k : \E what \in {"open", "answered", "stale"} : Shows(k, what)
  BY DEF Step, CallStep, HandlerStep, Deliver, Claim, PostRoot, Unclaim, Check,
     Match, Incomplete, Answer, ClearPending, LoadOrCreateSession, Supersede,
     PersistSession, StartTurn, CallFails, Crash, TurnEnds, HandlerFails,
     HandlerLost, CommitCreate, FindCase, CreateCase, BindCase, PostOutcome,
     AskQuestion, RecordQuestion, ReportFallback, ReleaseClaim, FailRoot, slack
<1>5. \/ pc' = pc
      \/ \E p \in {"new", "claim", "root", "unclaim", "check", "match",
                   "answer", "clear", "load", "stale", "put", "start", "done",
                   "dead"} : Goto(c, p)
  BY DEF Step, CallStep, HandlerStep, Deliver, Claim, PostRoot, Unclaim, Check,
     Match, Incomplete, Answer, ClearPending, LoadOrCreateSession, Supersede,
     PersistSession, StartTurn, CallFails, Crash, TurnEnds, HandlerFails,
     HandlerLost, CommitCreate, FindCase, CreateCase, BindCase, PostOutcome,
     AskQuestion, RecordQuestion, ReportFallback, ReleaseClaim, FailRoot,
     Stop, actors
<1>6. \/ handler' = handler
      \/ \E p \in {"commit", "check", "create", "bind", "post", "ask", "record",
                   "fallback", "release", "note", "done", "lost"} : HGoto(c, p)
  BY DEF Step, CallStep, HandlerStep, Deliver, Claim, PostRoot, Unclaim, Check,
     Match, Incomplete, Answer, ClearPending, LoadOrCreateSession, Supersede,
     PersistSession, StartTurn, CallFails, Crash, TurnEnds, HandlerFails,
     HandlerLost, CommitCreate, FindCase, CreateCase, BindCase, PostOutcome,
     AskQuestion, RecordQuestion, ReportFallback, ReleaseClaim, FailRoot,
     process
<1>7. faults' = faults \/ Fault
  BY DEF Step, CallStep, HandlerStep, Deliver, Claim, PostRoot, Unclaim, Check,
     Match, Incomplete, Answer, ClearPending, LoadOrCreateSession, Supersede,
     PersistSession, StartTurn, CallFails, Crash, TurnEnds, HandlerFails,
     HandlerLost, CommitCreate, FindCase, CreateCase, BindCase, PostOutcome,
     AskQuestion, RecordQuestion, ReportFallback, ReleaseClaim, FailRoot
<1>8. faults' \in 0..MaxFaults
  BY <1>7, ThreadCaseAssumption DEF Fault, TypeOK
<1> QED
  BY <1>2, <1>3, <1>4, <1>5, <1>6, <1>8 DEF TypeOK, Shows, Goto, HGoto

\* Every step keeps the types.
LEMMA TypeStep ==
  ASSUME TypeOK, CallsKnow, NEW c \in Calls, Step(c)
  PROVE  TypeOK'
BY DocTypes, RestTypes DEF TypeOK
-----------------------------------------------------------------------------
(***************************************************************************)
(* Where a step takes a delivery and its turn.                             *)
(***************************************************************************)

\* How a delivery goes on.
PcMoves(c) ==
  \/ pc'[c] = pc[c]
  \/ pc'[c] \in {"done", "dead"} /\ pc[c] \notin {"done", "dead"}
  \/ pc[c] = "new" /\ pc'[c] = "claim" /\ IsReaction(c[1])
  \/ pc[c] = "new" /\ pc'[c] = "check" /\ ~IsReaction(c[1])
  \/ pc[c] = "claim" /\ pc'[c] = "root" /\ claim = None /\ claim' = c[1][1]
  \/ pc[c] = "root" /\ pc'[c] \in {"load", "unclaim"}
  \/ pc[c] = "check" /\ pc'[c] = "match" /\ IsAnswer(c[1])
  \/ pc[c] = "check" /\ pc'[c] = "load" /\ ~IsAnswer(c[1])
  \/ /\ pc[c] = "match" /\ pc'[c] = "answer"
     /\ doc[Thread(c[1])].pending = Asked(c[1])
  \/ pc[c] = "answer" /\ pc'[c] \in {"new", "clear"}
  \/ pc[c] = "clear" /\ pc'[c] = "load"
  \/ /\ pc[c] = "load" /\ pc'[c] \in {"stale", "put"}
     /\ sess'[c] \in Session
  \/ pc[c] = "stale" /\ pc'[c] = "put" /\ sess'[c] = sess[c]
  \/ pc[c] = "put" /\ pc'[c] = "start" /\ sess'[c] = sess[c]

\* It goes on that way.
LEMMA PcStep ==
  ASSUME TypeOK, NEW c \in Calls, Step(c)
  PROVE  PcMoves(c)
<1> USE DEF TypeOK, Goto, Stop, PcMoves
<1>1. CASE Deliver(c) \/ Claim(c) \/ PostRoot(c) \/ Unclaim(c)
  BY <1>1 DEF Deliver, Claim, PostRoot, Unclaim
<1>2. CASE Check(c) \/ Match(c) \/ Incomplete(c) \/ Answer(c) \/ ClearPending(c)
           \/ Supersede(c) \/ PersistSession(c) \/ StartTurn(c)
  BY <1>2 DEF Check, Match, Incomplete, Answer, ClearPending, Supersede,
     PersistSession, StartTurn
<1>3. CASE LoadOrCreateSession(c)
  <2>1. pc[c] = "load" /\ pc'[c] \in {"stale", "put"}
    BY <1>3 DEF LoadOrCreateSession
  <2>2. SessWritten(c) /\ sess'[c] # NoSession
    <3> DEFINE t == Thread(c[1])
               found == IF Known(t) THEN doc[t] ELSE [NoSession EXCEPT !.id = c]
    <3>1. sess'[c].id = found.id
      BY <1>3 DEF LoadOrCreateSession, Session, NoSession, Known
    <3>2. found.id \in Calls
      BY CallFacts, Fields, SessionFacts DEF NoSession
    <3> QED
      BY <1>3, <3>1, <3>2, CallFacts, NoSessionFacts, StepWrites
      DEF Step, CallStep
  <2>3. sess'[c] \in Session
    BY <2>2, <1>3, DocTypes DEF Step, CallStep
  <2> QED
    BY <2>1, <2>3
<1>4. CASE CallFails(c) \/ Crash(c)
  BY <1>4 DEF CallFails, Crash
<1>5. CASE TurnEnds(c) \/ HandlerFails(c) \/ HandlerLost(c) \/ HandlerStep(c)
  BY <1>5 DEF TurnEnds, HandlerFails, HandlerLost, HandlerStep, CommitCreate,
     FindCase, CreateCase, BindCase, PostOutcome, AskQuestion, RecordQuestion,
     ReportFallback, ReleaseClaim, FailRoot, actors
<1> QED
  BY <1>1, <1>2, <1>3, <1>4, <1>5 DEF Step, CallStep

\* How a completion handler goes on.
HandlerMoves(c) ==
  \/ handler'[c] = handler[c]
  \/ /\ turn[c] = "open" /\ turn'[c] = "ended"
     /\ handler'[c] \in {"commit", "fallback", "ask"}
  \/ handler[c] \notin {"none", "done", "lost"} /\ handler'[c] = "lost"
  \/ handler[c] = "commit" /\ handler'[c] \in {"check", "fallback"}
  \/ handler[c] = "check" /\ handler'[c] = "fallback"
  \/ handler[c] = "check" /\ handler'[c] = "create"
       /\ cases[Thread(c[1])] = {}
  \/ handler[c] = "check" /\ handler'[c] = "bind"
       /\ cases[Thread(c[1])] # {}
  \/ handler[c] = "create" /\ handler'[c] = "fallback" /\ cases' = cases
  \/ handler[c] = "create" /\ handler'[c] = "bind"
  \/ handler[c] = "bind" /\ handler'[c] = "post"
  \/ handler[c] = "ask" /\ handler'[c] \in {"record", "fallback"}
  \/ handler[c] = "record" /\ handler'[c] \in {"fallback", "done"}
  \/ handler[c] = "fallback" /\ handler'[c] = "release"
       /\ doc[Thread(c[1])].reaction
  \/ handler[c] = "release" /\ handler'[c] = "note"
  \/ handler[c] \in {"post", "fallback", "note"} /\ handler'[c] = "done"

\* It goes on that way.
LEMMA HandlerMove ==
  ASSUME TypeOK, NEW c \in Calls, Step(c)
  PROVE  HandlerMoves(c)
<1> USE DEF TypeOK, HGoto, HandlerMoves
<1>1. CASE TurnEnds(c) \/ HandlerFails(c) \/ HandlerLost(c)
  BY <1>1 DEF TurnEnds, HandlerFails, HandlerLost
<1>2. CASE HandlerStep(c)
  BY <1>2 DEF HandlerStep, CommitCreate, FindCase, CreateCase, BindCase,
     PostOutcome, AskQuestion, RecordQuestion, ReportFallback, ReleaseClaim,
     FailRoot
<1>3. CASE Deliver(c) \/ CallStep(c) \/ CallFails(c) \/ Crash(c)
  <2>1. handler' = handler
    BY <1>3 DEF Deliver, CallStep, CallFails, Crash, Claim, PostRoot, Unclaim,
       Check, Match, Incomplete, Answer, ClearPending, LoadOrCreateSession,
       Supersede, PersistSession, StartTurn, process
  <2> QED
    BY <2>1
<1> QED
  BY <1>1, <1>2, <1>3 DEF Step

\* What every delivery knows, it knows after a step.
LEMMA KnowStep ==
  ASSUME TypeOK, CallsKnow, NEW c \in Calls, Step(c)
  PROVE  CallsKnow'
<1>1. /\ OthersKept(c) /\ PcMoves(c) /\ HandlerMoves(c) /\ TurnWritten(c)
      /\ SessWritten(c) /\ CallKnows(c)
  BY OwnEntries, PcStep, HandlerMove, StepWrites DEF CallsKnow
<1>2. \A d \in Calls \ {c} : CallKnows(d)'
  BY <1>1 DEF OthersKept, CallsKnow, CallKnows
<1>3. CallKnows(c)'
  <2>1. /\ pc'[c] \in {"claim", "root", "unclaim"} => IsReaction(c[1])
        /\ pc'[c] \in {"match", "answer", "clear"} => IsAnswer(c[1])
    BY <1>1 DEF PcMoves, CallKnows
  <2>2. pc'[c] \in {"stale", "put", "start"} => sess'[c] # NoSession
    <3>1. CASE pc'[c] = pc[c]
      BY <1>1, <3>1, SessionFacts DEF SessWritten, CallKnows, TypeOK
    <3>2. CASE pc'[c] # pc[c]
      BY <1>1, <3>2, SessionFacts DEF PcMoves, CallKnows
    <3> QED
      BY <3>1, <3>2
  <2>3. handler'[c] # "none" <=> turn'[c] = "ended"
    BY <1>1 DEF HandlerMoves, TurnWritten, CallKnows, TypeOK
  <2>4. turn'[c] # "none" => pc'[c] = "done"
    <3>1. pc[c] = "done" => pc'[c] = "done"
      BY <1>1 DEF PcMoves
    <3> QED
      BY <1>1, <3>1 DEF TurnWritten, CallKnows, TypeOK
  <2> QED
    BY <2>1, <2>2, <2>3, <2>4 DEF CallKnows
<1> QED
  BY <1>2, <1>3 DEF CallsKnow

\* What the steps below use of a step.
Move(c) == /\ OthersKept(c) /\ PcMoves(c) /\ HandlerMoves(c) /\ TurnWritten(c)
           /\ SessWritten(c) /\ DocWritten(c) /\ CaseWritten(c)

\* It is so of every step.
LEMMA StepMoves ==
  ASSUME IInv, NEW c \in Calls, Step(c)
  PROVE  Move(c) /\ TypeOK /\ CallsKnow
BY OwnEntries, PcStep, HandlerMove, StepWrites DEF IInv, Move

\* A turn that was started stays so, and a handler that is done.
LEMMA Stays ==
  ASSUME TypeOK, CallsKnow, NEW c \in Calls, Move(c)
  PROVE  \A d \in Calls : /\ turn[d] # "none" => /\ turn'[d] # "none"
                                                 /\ subject'[d] = subject[d]
                          /\ handler[d] = "done" => handler'[d] = "done"
<1>1. ASSUME NEW d \in Calls \ {c}
      PROVE  /\ turn[d] # "none" => /\ turn'[d] # "none"
                                    /\ subject'[d] = subject[d]
             /\ handler[d] = "done" => handler'[d] = "done"
  BY <1>1 DEF Move, OthersKept
<1>2. turn[c] # "none" => turn'[c] # "none" /\ subject'[c] = subject[c]
  BY DEF Move, TurnWritten, CallsKnow, CallKnows
<1>3. handler[c] = "done" => handler'[c] = "done"
  BY DEF Move, HandlerMoves, CallsKnow, CallKnows
<1> QED
  BY <1>1, <1>2, <1>3

\* A case in a thread was there, or is the one the step makes.
LEMMA CasesStay ==
  ASSUME TypeOK, NEW c \in Calls, CaseWritten(c), NEW t \in Threads
  PROVE  \/ cases'[t] = cases[t]
         \/ /\ t = Thread(c[1]) /\ cases'[t] = cases[t] \cup {c}
            /\ handler[c] = "create" /\ handler'[c] = "bind"
BY DEF CaseWritten, TypeOK

\* A turn that was waited for is not taken up again.
LEMMA WaitedStays ==
  ASSUME TypeOK, CallsKnow, NEW c \in Calls, Move(c), NEW k, Waited(k)
  PROVE  Waited(k)'
<1>1. PICK d \in Calls : /\ d[1] = k /\ handler[d] = "done"
                         /\ \A t \in Threads : d \notin cases[t]
  BY DEF Waited
<1>2. handler'[d] = "done"
  BY <1>1, Stays
<1>3. \A t \in Threads : d \notin cases'[t]
  BY <1>1, CasesStay DEF Move
<1> QED
  BY <1>1, <1>2, <1>3 DEF Waited

\* The question of a turn is recorded when the turn is over.
LEMMA RecordedWaited ==
  ASSUME TypeOK, CallsKnow, CasesOwn, NEW c \in Calls, Move(c),
         handler[c] = "record", handler'[c] = "done"
  PROVE  Waited(c[1])'
<1>1. \A t \in Threads : c \notin cases[t]
  BY DEF CasesOwn
<1>2. \A t \in Threads : c \notin cases'[t]
  BY <1>1, CasesStay DEF Move
<1> QED
  BY <1>2 DEF Waited

\* What the Session of a thread is after a step.
LEMMA DocAfter ==
  ASSUME TypeOK, NEW c \in Calls, DocWritten(c), NEW t \in Threads
  PROVE  \/ doc'[t] = doc[t]
         \/ t = Thread(c[1]) /\ pc[c] = "put" /\ doc'[t] = sess[c]
         \/ /\ t = Thread(c[1]) /\ Known(t) /\ doc'[t].id = doc[t].id
            /\ doc'[t].reaction = doc[t].reaction /\ doc'[t] \in Session
            /\ \/ doc'[t].pending = None
               \/ /\ doc'[t].pending = c[1] /\ handler[c] = "record"
                  /\ handler'[c] = "done"
<1>1. ASSUME NEW k \in Keys \cup {None}, Known(t), t = Thread(c[1]),
             doc' = [doc EXCEPT ![t] = [doc[t] EXCEPT !.pending = k]]
      PROVE  /\ doc'[t].id = doc[t].id /\ doc'[t].reaction = doc[t].reaction
             /\ doc'[t].pending = k /\ doc'[t] \in Session
  <2>1. doc'[t] = [doc[t] EXCEPT !.pending = k]
    BY <1>1 DEF TypeOK
  <2>2. doc[t] \in Session
    BY <1>1, Fields
  <2> QED
    BY <2>1, <2>2, SessionFacts
<1>2. CASE doc' = doc
  BY <1>2
<1>3. CASE pc[c] = "put" /\ doc' = [doc EXCEPT ![Thread(c[1])] = sess[c]]
  BY <1>3 DEF TypeOK
<1>4. ASSUME NEW k \in Keys \cup {None}, Known(Thread(c[1])),
             doc' = [doc EXCEPT ![Thread(c[1])] =
                       [doc[Thread(c[1])] EXCEPT !.pending = k]],
             k # None => k = c[1] /\ handler[c] = "record"
                                  /\ handler'[c] = "done"
      PROVE  \/ doc'[t] = doc[t]
             \/ /\ t = Thread(c[1]) /\ Known(t) /\ doc'[t].id = doc[t].id
                /\ doc'[t].reaction = doc[t].reaction /\ doc'[t] \in Session
                /\ \/ doc'[t].pending = None
                   \/ /\ doc'[t].pending = c[1] /\ handler[c] = "record"
                      /\ handler'[c] = "done"
  <2>1. CASE t = Thread(c[1])
    BY <1>1, <1>4, <2>1
  <2>2. CASE t # Thread(c[1])
    BY <1>4, <2>2 DEF TypeOK
  <2> QED
    BY <2>1, <2>2
<1> QED
  BY <1>2, <1>3, <1>4 DEF DocWritten

\* What the copy of a delivery is after its step.
LEMMA SessAfter ==
  ASSUME TypeOK, NEW c \in Calls, SessWritten(c)
  PROVE  \/ sess'[c] = sess[c]
         \/ sess'[c] = NoSession /\ pc'[c] \in {"done", "dead"}
         \/ /\ sess'[c] \in Session /\ pc[c] = "load"
            /\ \/ Known(Thread(c[1])) /\ sess'[c].id = doc[Thread(c[1])].id
               \/ sess'[c].id = c
            /\ sess'[c].pending = doc[Thread(c[1])].pending
            /\ sess'[c].reaction =>
                 doc[Thread(c[1])].reaction \/ IsReaction(c[1])
BY DEF SessWritten, TypeOK
-----------------------------------------------------------------------------
(***************************************************************************)
(* The steps.                                                              *)
(***************************************************************************)

\* Sessions stay in their threads.
LEMMA OwnStep ==
  ASSUME IInv, NEW c \in Calls, Step(c)
  PROVE  SessionsOwn'
<1>1. Move(c) /\ TypeOK /\ CallsKnow /\ SessionsOwn
  BY StepMoves DEF IInv
<1>2. Thread(c[1]) \in Threads /\ c[1] \in Keys
  BY CallFacts
<1>3. ASSUME NEW t \in Threads PROVE Of(doc'[t], t)
  <2>1. CASE doc'[t] = doc[t]
    BY <1>1, <2>1 DEF SessionsOwn
  <2>2. CASE t = Thread(c[1]) /\ doc'[t] = sess[c]
    BY <1>1, <2>2 DEF SessionsOwn
  <2>3. CASE /\ t = Thread(c[1]) /\ Known(t) /\ doc'[t].id = doc[t].id
             /\ doc'[t].reaction = doc[t].reaction
             /\ doc'[t].pending = None \/ doc'[t].pending = c[1]
    BY <1>1, <2>3 DEF SessionsOwn, Of, Known
  <2> QED
    BY <1>1, <2>1, <2>2, <2>3, DocAfter DEF Move
<1>4. ASSUME NEW d \in Calls PROVE Of(sess'[d], Thread(d[1]))
  <2>1. CASE sess'[d] = sess[d]
    BY <1>1, <2>1 DEF SessionsOwn
  <2>2. CASE d = c /\ sess'[c] = NoSession
    BY <2>2 DEF Of
  <2>3. CASE /\ d = c /\ sess'[c] \in Session
             /\ \/ Known(Thread(c[1])) /\ sess'[c].id = doc[Thread(c[1])].id
                \/ sess'[c].id = c
             /\ sess'[c].pending = doc[Thread(c[1])].pending
             /\ sess'[c].reaction =>
                  doc[Thread(c[1])].reaction \/ IsReaction(c[1])
    <3> DEFINE t == Thread(c[1])
    <3>1. Of(doc[t], t) /\ (Known(t) <=> doc[t] # NoSession)
      BY <1>1, <1>2 DEF SessionsOwn, Known
    <3>2. Thread(sess'[c].id[1]) = t
      BY <2>3, <3>1 DEF Of
    <3>3. sess'[c].pending # None => Thread(sess'[c].pending) = t
      BY <2>3, <3>1, NoSessionFacts DEF Of
    <3>4. sess'[c].reaction => t \in Reactions
      <4>1. IsReaction(c[1]) => t \in Reactions
        BY CallFacts DEF Threads
      <4> QED
        BY <2>3, <3>1, <4>1, NoSessionFacts DEF Of
    <3> QED
      BY <2>3, <3>2, <3>3, <3>4 DEF Of
  <2> QED
    BY <1>1, <2>1, <2>2, <2>3, SessAfter DEF Move, OthersKept
<1>5. ASSUME NEW d \in Calls
      PROVE  /\ turn'[d] # "none" => /\ subject'[d] \in Calls
                                     /\ Thread(subject'[d][1]) = Thread(d[1])
             /\ handler'[d] = "release" => Thread(d[1]) \in Reactions
  <2>1. CASE turn'[d] = turn[d] /\ subject'[d] = subject[d]
             /\ handler'[d] = handler[d]
    BY <1>1, <2>1 DEF SessionsOwn
  <2>2. CASE d = c
    <3>1. turn[c] = "none" /\ turn'[c] # "none" =>
            pc[c] = "start" /\ subject'[c] = sess[c].id
      BY <1>1 DEF Move, TurnWritten, TypeOK
    <3>2. pc[c] = "start" => sess[c] \in Session
      BY <1>1 DEF CallsKnow, CallKnows, TypeOK
    <3>3. turn'[c] # "none" => /\ subject'[c] \in Calls
                               /\ Thread(subject'[c][1]) = Thread(c[1])
      <4>1. CASE turn[c] # "none"
        BY <1>1, <4>1, Stays DEF SessionsOwn
      <4>2. CASE turn[c] = "none"
        BY <1>1, <3>1, <3>2, <4>2, SessionFacts DEF SessionsOwn, Of
      <4> QED
        BY <4>1, <4>2
    <3>4. handler'[c] = "release" => Thread(c[1]) \in Reactions
      <4>1. CASE handler'[c] = handler[c]
        BY <1>1, <4>1 DEF SessionsOwn
      <4>2. CASE handler'[c] # handler[c] /\ handler'[c] = "release"
        <5>1. doc[Thread(c[1])].reaction
          BY <1>1, <4>2 DEF Move, HandlerMoves
        <5> QED
          BY <1>1, <1>2, <5>1, NoSessionFacts DEF SessionsOwn, Of
      <4> QED
        BY <4>1, <4>2
    <3> QED
      BY <2>2, <3>3, <3>4
  <2> QED
    BY <1>1, <2>1, <2>2 DEF Move, OthersKept
<1> QED
  BY <1>3, <1>4, <1>5 DEF SessionsOwn

\* A turn that a step starts is the first of its trigger.
LEMMA StartedBy ==
  ASSUME TypeOK, CallsKnow, NEW c \in Calls, Move(c),
         NEW d \in Calls, turn'[d] # "none"
  PROVE  \/ turn[d] # "none"
         \/ /\ d = c /\ pc[c] = "start" /\ ~Started(c[1])
            /\ ~Busy(sess[c].id)
BY DEF Move, OthersKept, TurnWritten, TypeOK

\* One turn per trigger, and the cases are those of their threads.
LEMMA OneTurnStep ==
  ASSUME IInv, NEW c \in Calls, Step(c)
  PROVE  OneTurn' /\ CasesOwn'
<1>1. Move(c) /\ TypeOK /\ CallsKnow /\ OneTurn /\ CasesOwn
  BY StepMoves DEF IInv
<1>2. ASSUME NEW d \in Calls, NEW e \in Calls, turn'[d] # "none",
             turn'[e] # "none", d[1] = e[1]
      PROVE  d = e
  <2>1. CASE turn[d] # "none" /\ turn[e] # "none"
    BY <1>1, <1>2, <2>1 DEF OneTurn
  <2>2. CASE turn[d] = "none"
    <3>1. d = c /\ ~Started(c[1])
      BY <1>1, <1>2, <2>2, StartedBy
    <3>2. turn[e] = "none"
      BY <1>2, <3>1 DEF Started
    <3> QED
      BY <1>1, <1>2, <3>1, <3>2, StartedBy
  <2>3. CASE turn[e] = "none"
    <3>1. e = c /\ ~Started(c[1])
      BY <1>1, <1>2, <2>3, StartedBy
    <3>2. turn[d] = "none"
      BY <1>2, <3>1 DEF Started
    <3> QED
      BY <1>1, <1>2, <3>1, <3>2, StartedBy
  <2> QED
    BY <2>1, <2>2, <2>3
<1>3. ASSUME NEW t \in Threads, NEW d \in cases'[t]
      PROVE  /\ Thread(d[1]) = t
             /\ handler'[d] \in {"bind", "post", "done", "lost"}
  <2>1. CASE d \in cases[t]
    <3>1. /\ Thread(d[1]) = t /\ d \in Calls
          /\ handler[d] \in {"bind", "post", "done", "lost"}
      BY <1>1, <2>1 DEF CasesOwn, TypeOK
    <3>2. handler'[d] \in {"bind", "post", "done", "lost"}
      BY <1>1, <3>1 DEF Move, OthersKept, HandlerMoves, CallsKnow, CallKnows
    <3> QED
      BY <3>1, <3>2
  <2>2. CASE d = c /\ t = Thread(c[1]) /\ handler'[c] = "bind"
    BY <2>2
  <2> QED
    BY <1>1, <1>3, <2>1, <2>2, CasesStay DEF Move
<1> QED
  BY <1>2, <1>3 DEF OneTurn, CasesOwn

\* A question that is pending, or answered, has been asked, and its turn is
\* over.
LEMMA PendingStep ==
  ASSUME IInv, NEW c \in Calls, Step(c)
  PROVE  PendingWaited'
<1>1. Move(c) /\ TypeOK /\ CallsKnow /\ CasesOwn /\ PendingWaited
  BY StepMoves DEF IInv
<1>2. Thread(c[1]) \in Threads /\ c[1] \in Keys
  BY CallFacts
<1>3. ASSUME NEW k, Waited(k) PROVE Waited(k)'
  BY <1>1, <1>3, WaitedStays
<1>4. ASSUME NEW t \in Threads, doc'[t].pending # None
      PROVE  \E k : k = doc'[t].pending /\ Waited(k)'
  <2>1. CASE doc'[t].pending \in {doc[t].pending, sess[c].pending}
    BY <1>1, <1>3, <1>4, <2>1 DEF PendingWaited
  <2>2. CASE doc'[t].pending = c[1] /\ handler[c] = "record"
             /\ handler'[c] = "done"
    BY <1>1, <2>2, RecordedWaited
  <2> QED
    BY <1>1, <1>4, <2>1, <2>2, DocAfter DEF Move
<1>5. ASSUME NEW d \in Calls, sess'[d].pending # None
      PROVE  \E k : k = sess'[d].pending /\ Waited(k)'
  <2>1. CASE sess'[d] = sess[d]
    BY <1>1, <1>3, <1>5, <2>1 DEF PendingWaited
  <2>2. CASE d = c /\ sess'[c].pending = doc[Thread(c[1])].pending
    BY <1>1, <1>2, <1>3, <1>5, <2>2 DEF PendingWaited
  <2> QED
    BY <1>1, <1>5, <2>1, <2>2, SessAfter, NoSessionFacts DEF Move, OthersKept
<1>6. ASSUME NEW d \in Calls, IsAnswer(d[1]), pc'[d] \in Answering
      PROVE  Waited(Asked(d[1]))'
  <2>1. CASE pc[d] \in Answering
    BY <1>1, <1>3, <1>6, <2>1 DEF PendingWaited
  <2>2. CASE pc[d] \notin Answering
    <3>1. d = c
      BY <1>1, <1>6, <2>2 DEF Move, OthersKept
    <3>2. pc[c] = "match" /\ doc[Thread(c[1])].pending = Asked(c[1])
      <4>1. ~IsReaction(c[1])
        BY <1>6, <3>1 DEF IsReaction, IsAnswer
      <4> QED
        BY <1>1, <1>6, <2>2, <3>1, <4>1
        DEF Move, PcMoves, Answering, CallsKnow, CallKnows
    <3>3. Asked(c[1]) \in Keys
      BY <1>2, <1>6, <3>1, KeyFacts
    <3>4. Waited(Asked(c[1]))
      BY <1>1, <1>2, <3>2, <3>3, ThreadOfKey DEF PendingWaited
    <3> QED
      BY <1>3, <3>1, <3>4
  <2> QED
    BY <2>1, <2>2
<1>7. \A t \in Threads : doc'[t].pending # None => Waited(doc[t].pending)'
  BY <1>4 DEF Waited
<1>8. \A d \in Calls : sess'[d].pending # None => Waited(sess[d].pending)'
  BY <1>5 DEF Waited
<1> QED
  BY <1>6, <1>7, <1>8 DEF PendingWaited

\* Below the turn that a step starts every turn is over.
LEMMA BelowStep ==
  ASSUME IInv, NEW c \in Calls, Step(c)
  PROVE  BelowWaited'
<1>1. Move(c) /\ TypeOK /\ CallsKnow /\ PendingWaited /\ BelowWaited
  BY StepMoves DEF IInv
<1>2. SUFFICES ASSUME NEW d \in Calls, NEW k \in Keys, turn'[d] # "none",
                      k[1] = d[1][1], k[2] < d[1][2]
               PROVE  Waited(k)
  BY <1>1, WaitedStays DEF BelowWaited
<1>3. CASE turn[d] # "none"
  BY <1>1, <1>2, <1>3 DEF BelowWaited
<1>4. CASE turn[d] = "none"
  <2>1. d = c /\ pc[c] = "start"
    BY <1>1, <1>2, <1>4, StartedBy
  <2>2. /\ c[1] \in Keys /\ c[1][2] \in Nat /\ k[2] \in Nat
        /\ k[1] = c[1][1] /\ k[2] < c[1][2]
    BY <1>2, <2>1, CallFacts, KeyFacts
  <2>3. IsAnswer(c[1])
    BY <2>2 DEF IsAnswer
  <2> DEFINE a == Asked(c[1])
  <2>4. /\ a \in Keys /\ a[1] = c[1][1] /\ a[2] = c[1][2] - 1 /\ a[2] \in Nat
    BY <2>2, <2>3, KeyFacts
  <2>5. Waited(a)
    BY <1>1, <2>1, <2>3 DEF PendingWaited, Answering
  <2>6. CASE k[2] = a[2]
    BY <2>2, <2>4, <2>5, <2>6, KeyFacts
  <2>7. CASE k[2] < a[2]
    <3>1. PICK e \in Calls : e[1] = a /\ handler[e] = "done"
      BY <2>5 DEF Waited
    <3>2. turn[e] # "none"
      BY <1>1, <3>1 DEF CallsKnow, CallKnows
    <3> QED
      BY <1>1, <2>2, <2>4, <2>7, <3>1, <3>2 DEF BelowWaited
  <2> QED
    BY <2>2, <2>4, <2>6, <2>7
<1> QED
  BY <1>3, <1>4
-----------------------------------------------------------------------------
(***************************************************************************)
(* The invariant holds.                                                    *)
(***************************************************************************)

\* Before anything is delivered there is nothing to know.
LEMMA InitHolds == Init => IInv
<1> SUFFICES ASSUME Init PROVE IInv
  OBVIOUS
<1>1. TypeOK
  BY ThreadCaseAssumption DEF Init, TypeOK
<1>2. CallsKnow
  BY DEF Init, CallsKnow, CallKnows
<1>3. SessionsOwn
  BY DEF Init, SessionsOwn, Of
<1>4. OneTurn /\ CasesOwn /\ BelowWaited
  BY DEF Init, OneTurn, CasesOwn, BelowWaited
<1>5. PendingWaited
  BY NoSessionFacts DEF Init, PendingWaited, Answering
<1> QED
  BY <1>1, <1>2, <1>3, <1>4, <1>5 DEF IInv

\* Every step keeps the invariant.
LEMMA NextKeeps == IInv /\ [Next]_vars => IInv'
<1> SUFFICES ASSUME IInv, [Next]_vars PROVE IInv'
  OBVIOUS
<1>1. ASSUME NEW c \in Calls, Step(c) PROVE IInv'
  BY <1>1, TypeStep, KnowStep, OwnStep, OneTurnStep, PendingStep, BelowStep
  DEF IInv
<1>2. CASE UNCHANGED vars
  BY <1>2 DEF vars, slack, process, actors, IInv, TypeOK, CallsKnow, CallKnows,
     SessionsOwn, OneTurn, CasesOwn, PendingWaited, BelowWaited, Waited
<1> QED
  BY <1>1, <1>2 DEF Next, Step

\* The inductive invariant holds of every behaviour.
THEOREM Invariance == Spec => []IInv
<1> QED
  BY InitHolds, NextKeeps, PTL DEF Spec

\* Claim, messages, cases, Sessions, turns and deliveries have their types.
THEOREM TypeCorrect == Spec => []TypeOK
<1>1. IInv => TypeOK
  BY DEF IInv
<1> QED
  BY <1>1, Invariance, PTL

\* Two turns of one chain that were both started are one turn, or the lower one
\* is over and left no case.
LEMMA OneAtWork ==
  ASSUME IInv, NEW c \in Calls, NEW d \in Calls, c[1][1] = d[1][1],
         turn[c] # "none", turn[d] # "none"
  PROVE  c = d \/ Waited(c[1]) \/ Waited(d[1])
<1>1. OneTurn /\ BelowWaited
  BY DEF IInv
<1>2. c[1] \in Keys /\ d[1] \in Keys /\ c[1][2] \in Nat /\ d[1][2] \in Nat
  BY CallFacts, KeyFacts
<1>3. CASE c[1][2] = d[1][2]
  BY <1>1, <1>2, <1>3, KeyFacts DEF OneTurn
<1>4. CASE c[1][2] # d[1][2]
  BY <1>1, <1>2, <1>4 DEF BelowWaited
<1> QED
  BY <1>3, <1>4

\* A turn that is waited for is over and has no case, whichever delivery
\* started it.
LEMMA WaitedIs ==
  ASSUME IInv, NEW c \in Calls, turn[c] # "none", Waited(c[1])
  PROVE  handler[c] = "done" /\ \A t \in Threads : c \notin cases[t]
<1>1. PICK d \in Calls : /\ d[1] = c[1] /\ handler[d] = "done"
                         /\ \A t \in Threads : d \notin cases[t]
  BY DEF Waited
<1>2. turn[d] # "none"
  BY <1>1 DEF IInv, CallsKnow, CallKnows
<1>3. d = c
  BY <1>1, <1>2 DEF IInv, OneTurn
<1> QED
  BY <1>1, <1>3

\* The cases of a thread with one first trigger are one.
LEMMA CasesOne ==
  ASSUME IInv, NEW t \in Plain, NEW c \in cases[t], NEW d \in cases[t]
  PROVE  c = d
<1>1. /\ t \in Threads /\ c \in Calls /\ d \in Calls
      /\ Thread(c[1]) = t /\ Thread(d[1]) = t
      /\ turn[c] # "none" /\ turn[d] # "none"
  BY DEF IInv, Plain, TypeOK, CasesOwn, CallsKnow, CallKnows
<1>2. c[1][1] = t /\ d[1][1] = t
  BY <1>1, CallFacts
<1>3. ~Waited(c[1]) /\ ~Waited(d[1])
  BY <1>1, WaitedIs
<1> QED
  BY <1>1, <1>2, <1>3, OneAtWork

\* A set that has no two members has at most one.
LEMMA AtMostOne ==
  ASSUME NEW S, \A x, y \in S : x = y
  PROVE  IsFiniteSet(S) /\ Cardinality(S) <= 1
<1>1. CASE S = {}
  BY <1>1, FS_EmptySet
<1>2. CASE S # {}
  <2>1. PICK x \in S : S = {x}
    BY <1>2
  <2>2. IsFiniteSet({x}) /\ Cardinality({x}) = 1
    BY FS_Singleton
  <2> QED
    BY <2>1, <2>2
<1> QED
  BY <1>1, <1>2

\* Every thread with one first trigger is one case, however often an event is
\* delivered or a form clicked, and whatever fails in between.
THEOREM PlainOneCase == Spec => [](\A t \in Plain : Cardinality(cases[t]) <= 1)
<1>1. IInv => \A t \in Plain : Cardinality(cases[t]) <= 1
  BY CasesOne, AtMostOne
<1> QED
  BY <1>1, Invariance, PTL

\* Where nobody mentions the bot, that is every thread.
THEOREM ThreadsOneCase ==
  ASSUME Mentions = {}
  PROVE  Spec => []OneCasePerThread
<1>1. IInv => OneCasePerThread
  <2>1. Plain = Threads
    BY DEF Plain
  <2> QED
    BY <2>1, CasesOne, AtMostOne DEF OneCasePerThread
<1> QED
  BY <1>1, Invariance, PTL
-----------------------------------------------------------------------------
(***************************************************************************)
(* The claim: a reaction whose chain is not over holds it.  Mentions in a  *)
(* reaction's thread would give the claim back for it.                     *)
(***************************************************************************)

\* Nothing in a chain that is over starts or ends a turn.
LEMMA QuietStays ==
  ASSUME IInv, NEW r \in Reactions, r \in Plain, Quiet(r),
         NEW c \in Calls, Step(c), claim' # r
  PROVE  Quiet(r)'
<1>1. Move(c) /\ TypeOK /\ CallsKnow /\ CasesOwn /\ r \in Threads
  BY StepMoves DEF IInv, Plain
<1>2. ASSUME NEW k, Started(k) PROVE Started(k)'
  BY <1>1, <1>2, Stays DEF Started
<1>3. CASE Thread(c[1]) # r
  <2>1. c[1][1] # r
    BY <1>1, <1>3, CallFacts
  <2>2. doc'[r] = doc[r] /\ cases'[r] = cases[r]
    BY <1>1, <1>3, DocAfter, CasesStay DEF Move
  <2>3. ASSUME NEW d \in Calls, d[1][1] = r
        PROVE  /\ turn'[d] # "open"
               /\ handler'[d] \in {"none", "note", "done", "lost"}
               /\ sess'[d].pending # None => Started(AnswerTo(sess[d].pending))'
               /\ IF IsReaction(d[1])
                  THEN pc'[d] \in {"new", "claim", "done", "dead"}
                  ELSE pc'[d] \in Answering => Started(d[1])'
    BY <1>1, <1>2, <2>1, <2>3 DEF Quiet, Move, OthersKept
  <2>4. \A d \in Calls : d[1][1] = r => sess'[d] = sess[d]
    BY <1>1, <2>1 DEF Move, OthersKept
  <2> QED
    BY <1>2, <2>2, <2>3, <2>4 DEF Quiet
<1>4. CASE Thread(c[1]) = r
  <2>1. c[1][1] = r /\ c[1] \in Keys
    BY <1>4, CallFacts
  <2>2. /\ turn[c] # "open" /\ handler[c] \in {"none", "note", "done", "lost"}
        /\ sess[c].pending # None => Started(AnswerTo(sess[c].pending))
        /\ IF IsReaction(c[1]) THEN pc[c] \in {"new", "claim", "done", "dead"}
           ELSE pc[c] \in Answering => Started(c[1])
        /\ doc[r].pending # None => Started(AnswerTo(doc[r].pending))
        /\ cases[r] = {}
    BY <2>1 DEF Quiet
  <2>3. turn'[c] = turn[c] /\ cases'[r] = {}
    <3>1. pc[c] = "start" => Started(c[1])
      BY <2>2 DEF Answering
    <3> QED
      BY <1>1, <2>2, <3>1, CasesStay DEF Move, TurnWritten
  <2>4. handler'[c] \in {"none", "note", "done", "lost"}
    BY <1>1, <2>2 DEF Move, HandlerMoves
  <2>5. doc'[r].pending # None => Started(AnswerTo(doc'[r].pending))
    BY <1>1, <2>2, DocAfter DEF Move
  <2>6. sess'[c].pending # None => Started(AnswerTo(sess'[c].pending))
    BY <1>1, <1>4, <2>2, SessAfter, NoSessionFacts DEF Move
  <2>7. CASE IsReaction(c[1])
    <3>1. pc'[c] \in {"new", "claim", "done", "dead"}
      BY <1>1, <2>1, <2>2, <2>7 DEF Move, PcMoves
    <3> QED
      BY <1>1, <1>2, <2>1, <2>3, <2>4, <2>5, <2>6, <2>7, <3>1
      DEF Quiet, Move, OthersKept, Started
  <2>8. CASE ~IsReaction(c[1])
    <3>1. pc'[c] \in Answering => Started(c[1])
      <4>1. IsAnswer(c[1])
        BY <1>1, <2>1, <2>8, KeyFacts DEF IsReaction, IsAnswer
      <4>2. pc'[c] \in Answering /\ pc[c] \notin Answering =>
              doc[r].pending = Asked(c[1])
        BY <1>1, <1>4, <2>8, <4>1
        DEF Move, PcMoves, Answering, CallsKnow, CallKnows
      <4>3. AnswerTo(Asked(c[1])) = c[1] /\ Asked(c[1]) # None
        BY <2>1, <4>1, KeyFacts, ThreadOfKey
      <4> QED
        BY <2>2, <2>8, <4>2, <4>3
    <3> QED
      BY <1>1, <1>2, <2>1, <2>3, <2>4, <2>5, <2>6, <2>8, <3>1
      DEF Quiet, Move, OthersKept, Started
  <2> QED
    BY <2>7, <2>8
<1> QED
  BY <1>3, <1>4

\* What was waited for below a turn at work has been answered.
LEMMA ChainStarted ==
  ASSUME IInv, NEW c \in Calls, turn[c] # "none", ~Waited(c[1]),
         NEW k \in Keys, k[1] = c[1][1], Waited(k)
  PROVE  Started(AnswerTo(k))
<1>1. c[1] \in Keys /\ c[1][2] \in Nat /\ k[2] \in Nat
  BY CallFacts, KeyFacts
<1>2. PICK e \in Calls : e[1] = k /\ turn[e] # "none"
  BY DEF Waited, IInv, CallsKnow, CallKnows
<1>3. CASE k[2] = c[1][2]
  BY <1>1, <1>3, KeyFacts
<1>4. CASE k[2] > c[1][2]
  BY <1>1, <1>2, <1>4 DEF IInv, BelowWaited
<1>5. CASE k[2] < c[1][2]
  <2> DEFINE a == AnswerTo(k)
  <2>1. a[1] = k[1] /\ a[2] = k[2] + 1
    BY KeyFacts
  <2>2. a \in Keys
    <3>1. c[1][2] \in 0..MaxAnswers /\ MaxAnswers \in Nat
      BY <1>1, ThreadCaseAssumption DEF Keys
    <3>2. k[2] + 1 \in 0..MaxAnswers
      BY <1>1, <1>5, <3>1
    <3>3. k[1] \in Threads \cup Mentions
      BY KeyFacts
    <3> QED
      BY <3>2, <3>3 DEF Keys, AnswerTo
  <2>3. CASE a[2] = c[1][2]
    <3>1. a = c[1]
      BY <1>1, <2>1, <2>2, <2>3, KeyFacts
    <3> QED
      BY <3>1 DEF Started
  <2>4. CASE a[2] < c[1][2]
    <3>1. Waited(a)
      BY <2>1, <2>2, <2>4 DEF IInv, BelowWaited
    <3> QED
      BY <3>1 DEF Waited, Started, IInv, CallsKnow, CallKnows
  <2> HIDE DEF a
  <2> QED
    BY <1>1, <1>5, <2>1, <2>3, <2>4
<1> QED
  BY <1>1, <1>3, <1>4, <1>5

\* A question pending in a thread with one chain is one of that chain.
LEMMA PendingHere ==
  ASSUME IInv, NEW r \in Plain
  PROVE  /\ doc[r].pending # None =>
              /\ doc[r].pending \in Keys /\ doc[r].pending[1] = r
              /\ Waited(doc[r].pending)
         /\ \A d \in Calls : d[1][1] = r =>
              /\ sess[d].pending # None =>
                   /\ sess[d].pending \in Keys /\ sess[d].pending[1] = r
                   /\ Waited(sess[d].pending)
              /\ IsAnswer(d[1]) /\ pc[d] \in Answering =>
                   /\ Asked(d[1]) \in Keys /\ Asked(d[1])[1] = r
                   /\ Waited(Asked(d[1])) /\ AnswerTo(Asked(d[1])) = d[1]
<1>1. r \in Threads /\ TypeOK /\ SessionsOwn /\ PendingWaited
  BY DEF Plain, IInv
<1>2. doc[r].pending # None =>
        /\ doc[r].pending \in Keys /\ doc[r].pending[1] = r
        /\ Waited(doc[r].pending)
  <2>1. doc[r].pending # None =>
          doc[r].pending \in Keys /\ Thread(doc[r].pending) = r
    BY <1>1, Fields, NoSessionFacts DEF SessionsOwn, Of
  <2> QED
    BY <1>1, <2>1, ThreadOfKey DEF PendingWaited
<1>3. ASSUME NEW d \in Calls, d[1][1] = r, sess[d].pending # None
      PROVE  /\ sess[d].pending \in Keys /\ sess[d].pending[1] = r
             /\ Waited(sess[d].pending)
  <2>1. Thread(d[1]) = r
    BY <1>1, <1>3, CallFacts
  <2>2. sess[d].pending \in Keys /\ Thread(sess[d].pending) = r
    BY <1>1, <1>3, <2>1, Fields, NoSessionFacts DEF SessionsOwn, Of
  <2> QED
    BY <1>1, <1>3, <2>2, ThreadOfKey DEF PendingWaited
<1>4. ASSUME NEW d \in Calls, d[1][1] = r, IsAnswer(d[1]), pc[d] \in Answering
      PROVE  /\ Asked(d[1]) \in Keys /\ Asked(d[1])[1] = r
             /\ Waited(Asked(d[1])) /\ AnswerTo(Asked(d[1])) = d[1]
  BY <1>1, <1>4, CallFacts, KeyFacts DEF PendingWaited
<1> QED
  BY <1>2, <1>3, <1>4

\* A delivery of the reaction itself is not of an answer, and the other way
\* round.
LEMMA ReactionOrAnswer ==
  ASSUME NEW r \in Reactions, NEW d \in Calls, d[1][1] = r
  PROVE  /\ IsReaction(d[1]) <=> ~IsAnswer(d[1])
         /\ IsReaction(d[1]) <=> d[1][2] = 0
         /\ d[1][2] \in Nat /\ d[1] \in Keys
BY CallFacts, KeyFacts DEF IsReaction, IsAnswer

\* The chain is over when the claim is given back because its root could not be
\* posted.
LEMMA UnclaimStep ==
  ASSUME IInv, NEW r \in Reactions, r \in Plain, NEW c \in Calls, Unclaim(c),
         c[1][1] = r
  PROVE  Quiet(r)'
<1>1. /\ TypeOK /\ CallsKnow /\ CasesOwn /\ OneTurn /\ BelowWaited
      /\ r \in Threads
  BY DEF IInv, Plain
<1>2. /\ pc[c] = "unclaim" /\ pc' = [pc EXCEPT ![c] = "done"] /\ doc' = doc
      /\ sess' = sess /\ turn' = turn /\ handler' = handler /\ cases' = cases
  BY DEF Unclaim, Goto, process
<1>3. IsReaction(c[1]) /\ turn[c] = "none" /\ c[1] \in Keys /\ c[1][2] = 0
  BY <1>1, <1>2, CallFacts DEF CallsKnow, CallKnows, IsReaction
<1>4. ~Waited(c[1])
  <2>1. ASSUME NEW e \in Calls, e[1] = c[1], handler[e] = "done" PROVE FALSE
    BY <1>1, <1>3, <2>1, CallFacts DEF CallsKnow, CallKnows
  <2> QED
    BY <2>1 DEF Waited
<1>5. ASSUME NEW d \in Calls, d[1][1] = r, turn[d] # "none" PROVE FALSE
  <2>1. CASE d[1][2] = 0
    BY <1>3, <1>5, <2>1, ReactionOrAnswer, KeyFacts, CallFacts
  <2>2. CASE d[1][2] > 0
    BY <1>1, <1>3, <1>4, <1>5, <2>2 DEF BelowWaited
  <2> QED
    BY <1>5, <2>1, <2>2, ReactionOrAnswer
<1>6. ASSUME NEW k \in Keys, k[1] = r, Waited(k) PROVE FALSE
  BY <1>1, <1>5, <1>6 DEF Waited, CallsKnow, CallKnows
<1>7. cases[r] = {}
  <2>1. ASSUME NEW d \in cases[r] PROVE FALSE
    <3>1. d \in Calls /\ Thread(d[1]) = r /\ handler[d] # "none"
      BY <1>1, <2>1 DEF CasesOwn, TypeOK
    <3> QED
      BY <1>1, <1>5, <3>1, CallFacts DEF CallsKnow, CallKnows
  <2> QED
    BY <2>1
<1>8. doc[r].pending = None
  BY <1>6, PendingHere
<1>9. ASSUME NEW d \in Calls, d[1][1] = r
      PROVE  /\ turn[d] = "none" /\ handler[d] = "none"
             /\ sess[d].pending = None
             /\ IF IsReaction(d[1]) THEN pc'[d] = "done"
                ELSE pc'[d] \notin Answering
  <2>1. turn[d] = "none" /\ handler[d] = "none"
    BY <1>1, <1>5, <1>9 DEF CallsKnow, CallKnows
  <2>2. sess[d].pending = None
    BY <1>6, <1>9, PendingHere
  <2>3. CASE IsReaction(d[1])
    <3>1. d = c
      BY <1>3, <1>9, <2>3, ReactionOrAnswer, KeyFacts, CallFacts
    <3> QED
      BY <1>1, <1>2, <2>1, <2>2, <2>3, <3>1 DEF TypeOK
  <2>4. CASE ~IsReaction(d[1])
    <3>1. pc[d] \notin Answering
      BY <1>6, <1>9, <2>4, ReactionOrAnswer, PendingHere
    <3>2. pc'[d] \notin Answering
      BY <1>1, <1>2, <3>1 DEF TypeOK, Answering
    <3> QED
      BY <2>1, <2>2, <2>4, <3>2
  <2> QED
    BY <2>3, <2>4
<1> QED
  BY <1>2, <1>7, <1>8, <1>9 DEF Quiet

\* The chain is over when its last turn gives the claim back.
LEMMA ReleaseStep ==
  ASSUME IInv, NEW r \in Reactions, r \in Plain, NEW c \in Calls,
         ReleaseClaim(c), c[1][1] = r
  PROVE  Quiet(r)'
<1>1. /\ TypeOK /\ CallsKnow /\ CasesOwn /\ OneTurn /\ BelowWaited
      /\ r \in Threads
  BY DEF IInv, Plain
<1>2. /\ handler[c] = "release" /\ handler' = [handler EXCEPT ![c] = "note"]
      /\ doc' = doc /\ sess' = sess /\ turn' = turn /\ pc' = pc
      /\ cases' = cases
  BY DEF ReleaseClaim, HGoto, actors
<1>3. turn[c] = "ended" /\ ~Waited(c[1]) /\ c[1] \in Keys
  BY <1>1, <1>2, WaitedIs, CallFacts DEF CallsKnow, CallKnows
<1>4. ASSUME NEW d \in Calls, d[1][1] = r, turn[d] # "none", d # c
      PROVE  handler[d] = "done" /\ d \notin cases[r]
  <2>1. Waited(d[1])
    BY <1>3, <1>4, OneAtWork
  <2> QED
    BY <1>1, <1>4, <2>1, WaitedIs
<1>5. ASSUME NEW k \in Keys, k[1] = r, Waited(k) PROVE Started(AnswerTo(k))
  BY <1>3, <1>5, ChainStarted
<1>6. cases[r] = {}
  <2>1. ASSUME NEW d \in cases[r] PROVE FALSE
    <3>1. /\ d \in Calls /\ Thread(d[1]) = r
          /\ handler[d] \in {"bind", "post", "done", "lost"}
      BY <1>1, <2>1 DEF CasesOwn, TypeOK
    <3>2. d[1][1] = r /\ turn[d] # "none" /\ d # c
      BY <1>1, <1>2, <3>1, CallFacts DEF CallsKnow, CallKnows
    <3> QED
      BY <1>4, <2>1, <3>1, <3>2
  <2> QED
    BY <2>1
<1>7. doc[r].pending # None => Started(AnswerTo(doc[r].pending))
  BY <1>5, PendingHere
<1>8. ASSUME NEW d \in Calls, d[1][1] = r
      PROVE  /\ turn[d] # "open"
             /\ handler'[d] \in {"none", "note", "done", "lost"}
             /\ sess[d].pending # None => Started(AnswerTo(sess[d].pending))
             /\ IF IsReaction(d[1]) THEN pc[d] = "done"
                ELSE pc[d] \in Answering => Started(d[1])
  <2>1. /\ turn[d] # "open"
        /\ handler'[d] \in {"none", "note", "done", "lost"}
    BY <1>1, <1>2, <1>3, <1>4, <1>8 DEF CallsKnow, CallKnows, TypeOK
  <2>2. sess[d].pending # None => Started(AnswerTo(sess[d].pending))
    BY <1>5, <1>8, PendingHere
  <2>3. CASE IsReaction(d[1])
    <3>1. CASE d = c
      BY <1>1, <1>3, <2>1, <2>2, <2>3, <3>1 DEF CallsKnow, CallKnows
    <3>2. CASE d # c
      <4>1. d[1][2] = 0 /\ d[1] \in Keys /\ c[1][2] \in Nat
        BY <1>3, <1>8, <2>3, ReactionOrAnswer, KeyFacts
      <4>2. c[1][2] # 0
        BY <1>3, <1>8, <2>3, <3>2, <4>1, KeyFacts, CallFacts
      <4>3. Waited(d[1])
        BY <1>1, <1>3, <1>8, <4>1, <4>2 DEF BelowWaited
      <4>4. PICK e \in Calls : e[1] = d[1] /\ handler[e] = "done"
        BY <4>3 DEF Waited
      <4>5. e = d
        BY <2>3, <4>4, CallFacts
      <4>6. pc[d] = "done"
        BY <1>1, <4>4, <4>5 DEF CallsKnow, CallKnows
      <4> QED
        BY <2>1, <2>2, <2>3, <4>6
    <3> QED
      BY <3>1, <3>2
  <2>4. CASE ~IsReaction(d[1])
    <3>1. pc[d] \in Answering => Started(d[1])
      BY <1>5, <1>8, <2>4, ReactionOrAnswer, PendingHere
    <3> QED
      BY <2>1, <2>2, <2>4, <3>1
  <2> QED
    BY <2>3, <2>4
<1>9. \A k : Started(k)' <=> Started(k)
  BY <1>2 DEF Started
<1> QED
  BY <1>2, <1>6, <1>7, <1>8, <1>9 DEF Quiet

\* Who takes or gives back the claim.
LEMMA ClaimMoves ==
  ASSUME NEW c \in Calls, Step(c)
  PROVE  \/ claim' = claim
         \/ Claim(c) /\ claim = None
         \/ Unclaim(c) \/ ReleaseClaim(c)
BY DEF Step, CallStep, HandlerStep, Deliver, Claim, PostRoot, Unclaim, Check,
   Match, Incomplete, Answer, ClearPending, LoadOrCreateSession, Supersede,
   PersistSession, StartTurn, CallFails, Crash, TurnEnds, HandlerFails,
   HandlerLost, CommitCreate, FindCase, CreateCase, BindCase, PostOutcome,
   AskQuestion, RecordQuestion, ReportFallback, ReleaseClaim, FailRoot

\* A claim is given back by the reaction that has it, and its chain is over.
LEMMA ClaimStep ==
  ASSUME Reactions \subseteq Plain, IInv, ClaimOrQuiet, NEW c \in Calls, Step(c)
  PROVE  ClaimOrQuiet'
<1> SUFFICES ASSUME NEW r \in Reactions, claim' # r PROVE Quiet(r)'
  BY DEF ClaimOrQuiet
<1>1. CASE Quiet(r)
  BY <1>1, QuietStays
<1>2. CASE ~Quiet(r)
  <2>1. claim = r /\ claim # None
    BY <1>2, ThreadCaseAssumption DEF ClaimOrQuiet
  <2>2. CASE Unclaim(c)
    <3>1. IsReaction(c[1]) /\ pc[c] = "unclaim"
      BY <2>2 DEF IInv, CallsKnow, CallKnows, Unclaim
    <3>2. c[1][1] \in Reactions
      BY <3>1, CallFacts
    <3>3. c[1][1] = r
      BY <2>1, <3>1, <3>2 DEF ClaimOrQuiet, Quiet
    <3> QED
      BY <2>2, <3>3, UnclaimStep
  <2>3. CASE ReleaseClaim(c)
    <3>1. handler[c] = "release" /\ Thread(c[1]) \in Reactions
      BY <2>3 DEF IInv, SessionsOwn, ReleaseClaim
    <3>2. c[1][1] \in Reactions
      BY <3>1, CallFacts
    <3>3. c[1][1] = r
      BY <2>1, <3>1, <3>2 DEF ClaimOrQuiet, Quiet
    <3> QED
      BY <2>3, <3>3, ReleaseStep
  <2> QED
    BY <2>1, <2>2, <2>3, ClaimMoves
<1> QED
  BY <1>1, <1>2

\* A reaction holds the claim, or its chain is over, wherever nobody mentions
\* the bot in the thread a reaction opened.
THEOREM ClaimInvariance ==
  ASSUME Reactions \subseteq Plain
  PROVE  Spec => [](IInv /\ ClaimOrQuiet)
<1>1. Init => ClaimOrQuiet
  <2>1. ASSUME Init, NEW r \in Reactions PROVE Quiet(r)
    <3>1. r \in Threads
      BY DEF Threads
    <3> QED
      BY <2>1, <3>1, NoSessionFacts DEF Init, Quiet, Answering
  <2> QED
    BY <2>1 DEF ClaimOrQuiet
<1>2. IInv /\ ClaimOrQuiet /\ [Next]_vars => ClaimOrQuiet'
  <2>1. ASSUME IInv, ClaimOrQuiet, NEW c \in Calls, Step(c) PROVE ClaimOrQuiet'
    BY <2>1, ClaimStep
  <2>2. ASSUME ClaimOrQuiet, UNCHANGED vars PROVE ClaimOrQuiet'
    BY <2>2 DEF ClaimOrQuiet, Quiet, Started, vars, slack, process, actors
  <2> QED
    BY <2>1, <2>2 DEF Next, Step
<1> QED
  BY <1>1, <1>2, InitHolds, NextKeeps, PTL DEF Spec

\* However often a message is reacted to, and however often the claim on it is
\* given back and taken again, it becomes one case.
THEOREM ReactionsOneCase ==
  ASSUME Mentions = {} \/ MentionThread \in Posts
  PROVE  Spec => []OneCasePerReaction
<1>1. Reactions \subseteq Plain
  BY ThreadCaseAssumption DEF Plain, Threads
<1>2. ASSUME IInv, ClaimOrQuiet PROVE OneCasePerReaction
  <2> DEFINE all == UNION {cases[r] : r \in Reactions}
  <2>1. ASSUME NEW c \in all, NEW d \in all PROVE c = d
    <3>1. PICK r \in Reactions : c \in cases[r]
      BY <2>1
    <3>2. PICK s \in Reactions : d \in cases[s]
      BY <2>1
    <3>3. claim = r /\ claim = s
      BY <1>2, <3>1, <3>2 DEF ClaimOrQuiet, Quiet
    <3> QED
      BY <1>1, <1>2, <3>1, <3>2, <3>3, CasesOne
  <2> HIDE DEF all
  <2>2. Cardinality(all) <= 1
    BY <2>1, AtMostOne
  <2> QED
    BY <2>2 DEF OneCasePerReaction, all
<1>3. Spec => [](IInv /\ ClaimOrQuiet)
  BY <1>1, ClaimInvariance
<1> QED
  BY <1>2, <1>3, PTL
-----------------------------------------------------------------------------
(***************************************************************************)
(* The answers.                                                            *)
(***************************************************************************)
OnTheWay(k) ==
  \/ faults > 0 \/ Started(AnswerTo(k))
  \/ \E c \in Calls : /\ c[1] = AnswerTo(k)
                      /\ pc[c] \in {"clear", "load", "stale", "put", "start"}

\* An answer that gets to its turn finds the session free: below it every turn
\* of the thread is over.
LEMMA SessionFree ==
  ASSUME IInv, NEW c \in Calls, IsAnswer(c[1]), c[1][1] \in Plain,
         pc[c] = "start", ~Started(c[1])
  PROVE  ~Busy(sess[c].id)
<1>1. TypeOK /\ CallsKnow /\ SessionsOwn /\ PendingWaited /\ BelowWaited
  BY DEF IInv
<1>2. c[1][1] \in Threads /\ Thread(c[1]) = c[1][1] /\ c[1] \in Keys
  BY CallFacts DEF Plain
<1>3. SUFFICES ASSUME NEW d \in Calls, turn[d] = "open",
                      subject[d] = sess[c].id
               PROVE  FALSE
  BY DEF Busy
<1>4. sess[c] # NoSession /\ Thread(sess[c].id[1]) = Thread(c[1])
  BY <1>1 DEF CallsKnow, CallKnows, SessionsOwn, Of
<1>5. Thread(d[1]) = c[1][1]
  BY <1>1, <1>2, <1>3, <1>4 DEF SessionsOwn
<1>6. d[1][1] = c[1][1] /\ d[1] \in Keys
  BY <1>5, CallFacts
<1>7. ~Waited(d[1])
  BY <1>1, <1>3, WaitedIs DEF CallsKnow, CallKnows
<1>8. /\ Asked(c[1]) \in Keys /\ Asked(c[1])[1] = c[1][1]
      /\ Waited(Asked(c[1])) /\ AnswerTo(Asked(c[1])) = c[1]
  BY <1>1, <1>2, KeyFacts DEF PendingWaited, Answering
<1> QED
  BY <1>3, <1>6, <1>7, <1>8, ChainStarted

\* A form shows its answers once somebody is on the way with them, who gets
\* there.
LEMMA AnswerStep ==
  ASSUME IInv, NEW k \in Keys, k[1] \in Plain,
         form[k] = "answered" => OnTheWay(k),
         NEW c \in Calls, Step(c), form'[k] = "answered"
  PROVE  OnTheWay(k)'
<1>1. Move(c) /\ TypeOK /\ CallsKnow
  BY StepMoves
<1>2. Started(AnswerTo(k)) => Started(AnswerTo(k))'
  BY <1>1, Stays DEF Started
<1>3. faults \in Nat /\ (faults' = faults \/ faults' = faults + 1)
  BY Fields, <1>1 DEF Step, CallStep, HandlerStep, Deliver, Claim, PostRoot,
     Unclaim, Check, Match, Incomplete, Answer, ClearPending,
     LoadOrCreateSession, Supersede, PersistSession, StartTurn, CallFails,
     Crash, TurnEnds, HandlerFails, HandlerLost, CommitCreate, FindCase,
     CreateCase, BindCase, PostOutcome, AskQuestion, RecordQuestion,
     ReportFallback, ReleaseClaim, FailRoot, Fault
<1>4. CASE Answer(c) /\ Asked(c[1]) = k
  <2>1. pc'[c] = "clear" /\ IsAnswer(c[1])
    BY <1>1, <1>4 DEF Answer, Goto, TypeOK, CallsKnow, CallKnows
  <2>2. c[1] = AnswerTo(k)
    BY <1>4, <2>1, CallFacts, KeyFacts
  <2> QED
    BY <2>1, <2>2 DEF OnTheWay
<1>5. CASE form[k] = "answered"
  <2>1. OnTheWay(k)
    BY <1>5
  <2>2. CASE faults > 0
    BY <1>3, <2>2 DEF OnTheWay
  <2>3. CASE Started(AnswerTo(k))
    BY <1>2, <2>3 DEF OnTheWay
  <2>4. ASSUME NEW d \in Calls, d[1] = AnswerTo(k), ~Started(AnswerTo(k)),
               pc[d] \in {"clear", "load", "stale", "put", "start"}
        PROVE  OnTheWay(k)'
    <3>1. CASE pc'[d] \in {"clear", "load", "stale", "put", "start"}
      BY <2>4, <3>1 DEF OnTheWay
    <3>2. CASE pc'[d] \notin {"clear", "load", "stale", "put", "start"}
      <4>1. d = c
        BY <1>1, <2>4, <3>2 DEF Move, OthersKept
      <4>2. CASE CallFails(c) \/ Crash(c)
        BY <1>3, <4>2 DEF CallFails, Crash, Fault, OnTheWay
      <4>3. CASE StartTurn(c)
        <5>1. /\ IsAnswer(c[1]) /\ c[1][1] \in Plain /\ pc[c] = "start"
          BY <2>4, <4>1, <4>3, KeyFacts DEF StartTurn, IsAnswer
        <5>2. ~Busy(sess[c].id)
          BY <2>4, <4>1, <5>1, SessionFree
        <5>3. turn'[c] = "open"
          BY <1>1, <2>4, <4>1, <4>3, <5>2 DEF StartTurn, TypeOK
        <5> QED
          BY <2>4, <4>1, <5>3 DEF OnTheWay, Started
      <4>4. CASE ~(CallFails(c) \/ Crash(c) \/ StartTurn(c))
        BY <1>1, <2>4, <3>2, <4>1, <4>4
        DEF Step, CallStep, HandlerStep, Deliver, Claim, PostRoot, Unclaim,
           Check, Match, Incomplete, Answer, ClearPending, LoadOrCreateSession,
           Supersede, PersistSession, TurnEnds, HandlerFails, HandlerLost,
           CommitCreate, FindCase, CreateCase, BindCase, PostOutcome,
           AskQuestion, RecordQuestion, ReportFallback, ReleaseClaim, FailRoot,
           Goto, TypeOK, actors
      <4> QED
        BY <4>2, <4>3, <4>4
    <3> QED
      BY <3>1, <3>2
  <2> QED
    BY <2>1, <2>2, <2>3, <2>4 DEF OnTheWay
<1>6. form[k] = "answered" \/ (Answer(c) /\ Asked(c[1]) = k)
  <2>1. CASE \E l : Shows(l, "open") \/ Shows(l, "stale")
    BY <1>1, <2>1 DEF Shows, TypeOK
  <2>2. CASE Answer(c)
    BY <1>1, <2>2 DEF Answer, Shows, TypeOK
  <2>3. CASE form' = form
    BY <2>3
  <2> QED
    BY <2>1, <2>2, <2>3 DEF Step, CallStep, HandlerStep, Deliver, Claim,
       PostRoot, Unclaim, Check, Match, Incomplete, ClearPending,
       LoadOrCreateSession, Supersede, PersistSession, StartTurn, CallFails,
       Crash, TurnEnds, HandlerFails, HandlerLost, CommitCreate, FindCase,
       CreateCase, BindCase, PostOutcome, AskQuestion, RecordQuestion,
       ReportFallback, ReleaseClaim, FailRoot, slack
<1> QED
  BY <1>4, <1>5, <1>6

\* Unless a call fails, no answered form is forgotten: its turn was started, or
\* a delivery is on the way to start it.
THEOREM AnswersResume ==
  ASSUME Mentions = {}
  PROVE  Spec => []AnswerResumes
<1>1. \A k \in Keys : k[1] \in Plain
  BY KeyFacts DEF Plain
<1>2. AnswerResumes <=> \A k \in Keys : form[k] = "answered" => OnTheWay(k)
  BY DEF AnswerResumes, OnTheWay
<1>3. Init => AnswerResumes
  BY DEF Init, AnswerResumes
<1>4. IInv /\ AnswerResumes /\ [Next]_vars => AnswerResumes'
  <2>1. ASSUME IInv, AnswerResumes, NEW c \in Calls, Step(c)
        PROVE  AnswerResumes'
    <3>1. \A k \in Keys : form'[k] = "answered" => OnTheWay(k)'
      BY <1>1, <1>2, <2>1, AnswerStep
    <3> QED
      BY <3>1 DEF AnswerResumes, OnTheWay
  <2>2. ASSUME AnswerResumes, UNCHANGED vars PROVE AnswerResumes'
    BY <2>2 DEF AnswerResumes, Started, vars, slack, process, actors
  <2> QED
    BY <2>1, <2>2 DEF Next, Step
<1> QED
  BY <1>3, <1>4, InitHolds, NextKeeps, PTL DEF Spec
=============================================================================

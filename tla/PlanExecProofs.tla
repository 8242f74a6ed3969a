--------------------------- MODULE PlanExecProofs ---------------------------
(***************************************************************************)
(* Proofs about PlanExec, for any tasks, ceilings, attempts and numbers of *)
(* calls: types and shapes, well-formed requests, informed conclusions,    *)
(* fresh awaits and the bound on what a round spends.                      *)
(***************************************************************************)
EXTENDS PlanExec, FiniteSetTheorems, TLAPS

-----------------------------------------------------------------------------
(* The inductive invariant. *)

Phases   == {"plan", "collect", "replan", "final", "planner_tool", "answer"}
Statuses == {"running", "waiting", "succeeded", "failed"}
Keys     == ({"tasks", "question"} \X (Nat \ {0})) \cup {<<Direct, 0>>}

Fields == {"phase", "round", "next", "obs", "current", "direct", "roundKey",
           "retries", "wrap", "pending", "after", "answered", "answerKey"}

\* A checkpoint.  What the trail holds is not needed: a conclusion is about the
\* rounds in it, whichever they are.
IsState(s) ==
  /\ DOMAIN s = Fields
  /\ s.phase \in Phases
  /\ s.round \in Nat \ {0}
  /\ s.next \in {None} \cup (Tags \X Nat)
  /\ s.current \subseteq Names
  /\ s.direct \in BOOLEAN /\ s.wrap \in BOOLEAN /\ s.answered \in BOOLEAN
  /\ s.retries \in 0..(MaxRetries + 1)
  /\ s.pending \in 0..MaxCalls

Child ==
  [phase : {"generate", "tool"}, prompt : BOOLEAN, pending : 0..MaxCalls,
   answered : BOOLEAN, text : BOOLEAN, conv : Convs,
   status : {"running", "succeeded", "failed"}, steps : 0..MaxTaskSteps]

Process == [status : Statuses, steps : Nat, attempts : 0..MaxAttempts,
            out : Outcomes \cup {None}]

Inputs == [allowDirect : BOOLEAN, allowQuestion : BOOLEAN,
           suspend : BOOLEAN, textOnly : BOOLEAN]

Typed ==
  /\ input \in Inputs
  /\ IsState(st)
  /\ conv \in Convs
  /\ proc \in Process
  /\ DOMAIN kids \subseteq Names /\ \A t \in DOMAIN kids : kids[t] \in Child
  /\ DOMAIN awaits \subseteq Keys
  /\ \A k \in DOMAIN awaits : awaits[k] \in {"open", "responded"}

\* What each phase comes with.
Shape ==
  /\ st.phase = "planner_tool" <=> st.pending > 0
  /\ st.phase = "planner_tool" => st.after \in {"plan", "replan", "final"}
  /\ st.phase = "collect" =>
       /\ st.current = DOMAIN kids /\ st.current # {}
       /\ st.roundKey \in DOMAIN awaits /\ st.roundKey[1] # "question"
  /\ st.phase # "collect" => DOMAIN kids = {}
  /\ st.phase = "answer" =>
       /\ st.answerKey = <<"question", st.round>>
       /\ st.answerKey \in DOMAIN awaits
       /\ ~st.answered
  /\ proc.status = "waiting" => st.phase \in {"collect", "answer"}
  /\ proc.status = "succeeded" <=> proc.out # None

\* The calls nobody answered are those the run still has to make; outside the tool
\* phase the conversation ends with results exactly if the state says so.
Talk ==
  /\ conv.open = st.pending
  /\ st.phase # "planner_tool" =>
       conv.last \in (IF st.answered THEN {"results"} ELSE {"none", "model"})

\* The same of a child: it was asked once, with its prompt.
ChildTalks(k) ==
  /\ k.conv.open = k.pending
  /\ k.phase = "tool" <=> k.pending > 0
  /\ k.prompt => k.phase = "generate" /\ k.conv = Nothing
  /\ ~k.prompt /\ k.phase = "generate" => k.answered /\ k.conv.last = "results"

ChildrenTalk ==
  \A t \in DOMAIN kids : kids[t].status = "running" => ChildTalks(kids[t])

\* The phase the run is in, or goes back to when its calls are made.
Doing == IF st.phase = "planner_tool" THEN st.after ELSE st.phase

\* Awaits are keyed by rounds that are over, or by this one: the next round's tasks
\* and, before it asked, this round's question are new.
KeysPast ==
  /\ Doing = "plan" => DOMAIN awaits = {}
  /\ \A k \in DOMAIN awaits :
       k # <<Direct, 0>> =>
         /\ k[2] <= st.round
         /\ k[1] = "question" /\ Doing \in {"collect", "replan"} => k[2] < st.round

AllObserved == \A r \in RoundsIn(st.obs) : <<"observations", r>> \in heard

\* An answer that is not heard is on its way, and nothing that is sent in between
\* takes its place.
AnswersComing ==
  \A k \in DOMAIN awaits :
    k[1] = "question" /\ awaits[k] = "responded" =>
      \/ st.wrap
      \/ <<"answer", k[2]>> \in heard
      \/ st.phase = "answer" /\ st.answerKey = k
      \/ st.phase = "replan" /\ st.next = <<"answer", k[2]>> /\ ~st.answered

\* The terminal call was told the trail before any of its outputs was rejected, and
\* the rejection that is one too many ended the run.
Observed ==
  /\ st.retries > 0 => Doing = "final" /\ AllObserved
  /\ st.retries > MaxRetries => proc.status = "succeeded"
  /\ proc.out = "final" => st.phase = "final" /\ AllObserved

IInv ==
  /\ Typed
  /\ Shape
  /\ Talk
  /\ ChildrenTalk
  /\ KeysPast
  /\ AnswersComing
  /\ Observed

-----------------------------------------------------------------------------
(* What the operators on checkpoints return. *)

\* Two checkpoints that agree on everything but the notice, the answered calls and
\* the fields a step may write.
Same(s, r) ==
  /\ s.phase = r.phase /\ s.round = r.round /\ s.next = r.next /\ s.obs = r.obs
  /\ s.current = r.current /\ s.direct = r.direct /\ s.roundKey = r.roundKey
  /\ s.retries = r.retries /\ s.pending = r.pending /\ s.after = r.after
  /\ s.answerKey = r.answerKey

\* A transition starts from the checkpoint, with the notice on it if it is due.
LEMMA ToldIs ==
  ASSUME IsState(st)
  PROVE  /\ IsState(Told)
         /\ Same(Told, st)
         /\ Told.answered = st.answered
         /\ st.wrap => Told.wrap
  BY DEF IsState, Told, Same, Fields

\* A call that succeeded leaves no answered calls behind.
LEMMA AskedIs ==
  ASSUME IsState(st)
  PROVE  /\ IsState(Asked)
         /\ Same(Asked, st)
         /\ Asked.answered = FALSE
         /\ st.wrap => Asked.wrap
  <1>1. /\ IsState(Told)
        /\ Same(Told, st)
        /\ st.wrap => Told.wrap
    BY ToldIs
  <1> QED
    BY <1>1 DEF IsState, Asked, Same, Fields

\* The model asked for n tools.
LEMMA DivertedIs ==
  ASSUME NEW s, IsState(s), NEW n \in 1..MaxCalls
  PROVE  /\ IsState(Diverted(s, n))
         /\ Diverted(s, n).phase = "planner_tool"
         /\ Diverted(s, n).after = s.phase
         /\ Diverted(s, n).pending = n
         /\ Diverted(s, n).round = s.round /\ Diverted(s, n).wrap = s.wrap
         /\ Diverted(s, n).retries = s.retries /\ Diverted(s, n).obs = s.obs
  BY BudgetAssumption DEF IsState, Diverted, Fields, Phases

\* One call of the tool phase was made.
LEMMA CalledIs ==
  ASSUME NEW s, IsState(s), s.pending > 0, s.after \in Phases,
         s.phase = "planner_tool"
  PROVE  /\ IsState(Called(s))
         /\ Called(s).phase = (IF s.pending = 1 THEN s.after ELSE "planner_tool")
         /\ Called(s).after = s.after
         /\ Called(s).pending = s.pending - 1
         /\ Called(s).answered = TRUE
         /\ Called(s).next = s.next
         /\ Called(s).round = s.round /\ Called(s).wrap = s.wrap
         /\ Called(s).retries = s.retries /\ Called(s).obs = s.obs
  BY BudgetAssumption DEF IsState, Called, Fields, Phases

\* The answer of the person is taken to the next round.
LEMMA AnsweredIs ==
  ASSUME NEW s, IsState(s)
  PROVE  /\ IsState(Answered(s))
         /\ Answered(s).phase = "replan"
         /\ Answered(s).next = <<"answer", s.round>>
         /\ Answered(s).round = s.round + 1
         /\ Answered(s).answered = s.answered
         /\ Answered(s).pending = s.pending
         /\ Answered(s).wrap = s.wrap /\ Answered(s).retries = s.retries
         /\ Answered(s).obs = s.obs
  BY DEF IsState, Answered, NextRound, Fields, Phases, Tags

\* The results of a round are put behind the trail.
LEMMA CollectedIs ==
  ASSUME NEW s, IsState(s)
  PROVE  /\ IsState(Collected(s))
         /\ Collected(s).phase = "replan"
         /\ Collected(s).round = s.round
         /\ Collected(s).answered = s.answered
         /\ Collected(s).pending = s.pending
         /\ Collected(s).wrap = s.wrap /\ Collected(s).retries = s.retries
  BY DEF IsState, Collected, Fields, Phases, Tags, Names

-----------------------------------------------------------------------------
(* Children. *)

\* What a step of a child writes: the child, and its parent when the child ends.
\* The parent's checkpoint and conversation are its own.
ChildWritten ==
  /\ \E t \in DOMAIN kids, k \in Child :
       /\ kids' = [kids EXCEPT ![t] = k]
       /\ k.status = "running" => ChildTalks(k)
  /\ UNCHANGED <<input, st, conv, heard>>
  /\ st.phase = "collect"
  /\ \/ UNCHANGED <<proc, awaits>>
     \/ /\ proc' \in Process /\ proc'.out = proc.out
        /\ proc.status = "waiting" /\ proc'.status \in {"waiting", "running"}
        /\ awaits' = awaits \/ awaits' = [awaits EXCEPT ![st.roundKey] = "responded"]

\* A request that succeeded.
LEMMA GeneratedIs ==
  ASSUME NEW k \in Child, k.steps < MaxTaskSteps, NEW text \in BOOLEAN
  PROVE  /\ Generated(k, text) \in Child
         /\ Generated(k, text).status = k.status
         /\ ~Generated(k, text).prompt
         /\ Generated(k, text).steps = k.steps + 1
  <1> k.steps + 1 \in 0..MaxTaskSteps
    BY BudgetAssumption DEF Child
  <1> DEFINE said == k.text \/ text
             g    == [k EXCEPT !.prompt = FALSE, !.answered = FALSE, !.text = said,
                               !.steps = k.steps + 1]
  <1>1. Generated(k, text) = g
    BY Zenon DEF Generated, Charged
  <1>2. said \in BOOLEAN
    OBVIOUS
  <1> HIDE DEF said
  <1>3. g \in Child /\ g.status = k.status /\ g.prompt = FALSE /\ g.steps = k.steps + 1
    BY <1>2 DEF Child
  <1> QED
    BY <1>1, <1>3

\* A child that ends is charged to its parent.
LEMMA EndedWrites ==
  ASSUME Typed, Shape, NEW t \in DOMAIN kids, NEW k \in Child, NEW status,
         status \in {"succeeded", "failed"}, ChildEnds(t, k, status),
         proc.status = "waiting", DOMAIN kids # {},
         UNCHANGED <<input, st, conv, heard>>
  PROVE  ChildWritten
  <1> DEFINE e == [k EXCEPT !.status = status]
  <1>1. e \in Child /\ e.status = status
    BY DEF Child
  <1>2. kids' = [kids EXCEPT ![t] = e]
    BY DEF ChildEnds
  <1>3. st.phase = "collect"
    BY DEF Shape
  <1>4. /\ \/ proc' = [proc EXCEPT !.steps = @ + k.steps, !.status = "running"]
           \/ proc' = [proc EXCEPT !.steps = @ + k.steps]
        /\ awaits' = awaits \/ awaits' = [awaits EXCEPT ![st.roundKey] = "responded"]
    <2> DEFINE over == \A o \in DOMAIN kids \ {t} : kids[o].status # "running"
    <2>1. /\ proc' = [proc EXCEPT !.steps = @ + k.steps,
                                  !.status = IF over THEN "running" ELSE @]
          /\ awaits' = IF over THEN [awaits EXCEPT ![st.roundKey] = "responded"]
                       ELSE awaits
      BY DEF ChildEnds
    <2> HIDE DEF over
    <2>2. CASE over
      BY <2>1, <2>2
    <2>3. CASE ~over
      BY <2>1, <2>3 DEF Typed, Process
    <2> QED
      BY <2>2, <2>3
  <1>5. proc.steps + k.steps \in Nat
    BY DEF Typed, Process, Child
  <1>6. /\ proc' \in Process /\ proc'.out = proc.out
        /\ proc'.status \in {"waiting", "running"}
    BY <1>4, <1>5 DEF Typed, Process, Statuses
  <1> QED
    BY <1>1, <1>2, <1>3, <1>4, <1>6 DEF ChildWritten

\* A child asked for tools: its conversation waits for their results.
LEMMA ChildCallsToolsWrites ==
  ASSUME IInv, NEW t \in Names, ChildCallsTools(t)
  PROVE  ChildWritten
  <1>1. /\ t \in DOMAIN kids /\ kids[t] \in Child /\ kids[t].steps < MaxTaskSteps
        /\ st.phase = "collect"
    BY BudgetAssumption DEF ChildCallsTools, ChildRuns, Limit, IInv, Typed, Shape, Child
  <1>2. PICK n \in 1..MaxCalls, text \in BOOLEAN :
          kids' = [kids EXCEPT ![t] =
                     [Generated(@, text) EXCEPT !.pending = n, !.phase = "tool",
                                                !.conv = Calling(n)]]
    BY DEF ChildCallsTools
  <1> DEFINE g == Generated(kids[t], text)
             k == [g EXCEPT !.pending = n, !.phase = "tool", !.conv = Calling(n)]
  <1>3. g \in Child /\ g.prompt = FALSE
    BY <1>1, GeneratedIs DEF Child
  <1>4. kids' = [kids EXCEPT ![t] = k]
    BY <1>1, <1>2
  <1> HIDE DEF g
  <1>5. n \in 0..MaxCalls /\ n > 0 /\ Calling(n) \in Convs
    BY BudgetAssumption DEF Calling, Convs
  <1>6. k \in Child /\ ChildTalks(k)
    BY <1>3, <1>5 DEF Child, ChildTalks, Calling
  <1> QED
    BY <1>1, <1>4, <1>6 DEF ChildWritten, ChildCallsTools

\* A child that replied without tools has ended.
LEMMA ChildAnswersWrites ==
  ASSUME IInv, NEW t \in Names, ChildAnswers(t)
  PROVE  ChildWritten
  <1>1. /\ t \in DOMAIN kids /\ kids[t] \in Child /\ kids[t].steps < MaxTaskSteps
        /\ proc.status = "waiting"
    BY BudgetAssumption DEF ChildAnswers, ChildRuns, Limit, IInv, Typed, Child
  <1>2. PICK text \in BOOLEAN :
          ChildEnds(t, [Generated(kids[t], text) EXCEPT !.conv = Saying], "succeeded")
    BY DEF ChildAnswers
  <1>3. Generated(kids[t], text) \in Child
    BY <1>1, GeneratedIs
  <1>4. [Generated(kids[t], text) EXCEPT !.conv = Saying] \in Child
    BY <1>3, BudgetAssumption DEF Child, Saying, Convs
  <1>5. DOMAIN kids # {}
    BY <1>1
  <1> QED
    BY <1>1, <1>2, <1>4, <1>5, EndedWrites DEF ChildAnswers, IInv

\* The last of a child's calls takes it back to its model.
LEMMA ChildToolWrites ==
  ASSUME IInv, NEW t \in Names, ChildTool(t)
  PROVE  ChildWritten
  <1> DEFINE o == kids[t]
             k == ChildCalled(o)
  <1>1. /\ t \in DOMAIN kids /\ o \in Child /\ o.steps < MaxTaskSteps
        /\ st.phase = "collect" /\ o.phase = "tool" /\ o.status = "running"
    BY BudgetAssumption DEF ChildTool, ChildRuns, Limit, IInv, Typed, Shape, Child
  <1>2. ChildTalks(o)
    BY <1>1 DEF IInv, ChildrenTalk
  <1>3. kids' = [kids EXCEPT ![t] = k]
    BY <1>1 DEF ChildTool
  <1> HIDE DEF o
  <1>4. /\ o.pending - 1 \in 0..MaxCalls /\ o.steps + 1 \in 0..MaxTaskSteps
        /\ o.conv.open = o.pending /\ o.conv \in Convs /\ ~o.prompt
    BY <1>1, <1>2, BudgetAssumption DEF Child, ChildTalks
  <1>5. Answering(o.conv) \in Convs /\ Answering(o.conv).open = o.pending - 1
    BY <1>4 DEF Answering, Convs
  <1>6. /\ k.phase = (IF o.pending = 1 THEN "generate" ELSE "tool")
        /\ k.pending = o.pending - 1 /\ k.conv = Answering(o.conv)
        /\ k.answered = TRUE /\ k.prompt = o.prompt /\ k \in Child
    BY <1>1, <1>4, <1>5 DEF ChildCalled, Charged, Child
  <1>7. ChildTalks(k)
    BY <1>1, <1>2, <1>4, <1>5, <1>6 DEF ChildTalks, Answering, Child
  <1> QED
    BY <1>1, <1>3, <1>6, <1>7 DEF ChildWritten, ChildTool

\* A child that ran out of steps or attempts has ended.
LEMMA ChildFailsWrites ==
  ASSUME IInv, NEW t \in Names, ChildFails(t)
  PROVE  ChildWritten
  <1>1. /\ t \in DOMAIN kids /\ kids[t] \in Child /\ proc.status = "waiting"
        /\ DOMAIN kids # {} /\ ChildEnds(t, kids[t], "failed")
    BY DEF ChildFails, IInv, Typed
  <1> QED
    BY <1>1, EndedWrites DEF ChildFails, IInv

\* A step of a child keeps the invariant.
LEMMA ChildKeeps ==
  ASSUME IInv, ChildWritten
  PROVE  IInv'
  <1>1. PICK t \in DOMAIN kids, k \in Child :
          /\ kids' = [kids EXCEPT ![t] = k]
          /\ k.status = "running" => ChildTalks(k)
    BY DEF ChildWritten
  <1>2. /\ DOMAIN awaits' = DOMAIN awaits
        /\ \A a \in DOMAIN awaits :
             awaits'[a] = awaits[a] \/ (awaits'[a] = "responded" /\ a = st.roundKey)
    BY DEF ChildWritten
  <1>3. UNCHANGED <<input, st, conv, heard>> /\ st.phase = "collect"
    BY DEF ChildWritten
  <1>4. /\ proc' \in Process /\ proc'.out = proc.out
        /\ proc' = proc \/ (proc.status = "waiting" /\ proc'.status \in {"waiting", "running"})
    BY DEF ChildWritten, IInv, Typed
  <1>5. Typed'
    BY <1>1, <1>2, <1>3, <1>4 DEF IInv, Typed
  <1>6. Shape'
    <2>1. DOMAIN kids' = DOMAIN kids
      BY <1>1
    <2> QED
      BY <2>1, <1>2, <1>3, <1>4 DEF IInv, Shape
  <1>7. Talk' /\ ChildrenTalk'
    BY <1>1, <1>3 DEF IInv, Talk, ChildrenTalk
  <1>8. KeysPast'
    BY <1>2, <1>3 DEF IInv, KeysPast, Doing
  <1>9. AnswersComing'
    BY <1>2, <1>3 DEF IInv, AnswersComing, Shape
  <1>10. Observed'
    BY <1>3, <1>4 DEF IInv, Observed, Doing, AllObserved
  <1> QED
    BY <1>5, <1>6, <1>7, <1>8, <1>9, <1>10 DEF IInv

-----------------------------------------------------------------------------
(* The steps of the run. *)

\* A committed transition leaves a well-typed Process.
LEMMA CommitsIs ==
  ASSUME Typed, NEW status \in Statuses, NEW out \in Outcomes \cup {None},
         Commits(status, out)
  PROVE  proc' \in Process /\ proc'.status = status /\ proc'.out = out
  BY BudgetAssumption DEF Typed, Commits, Charged, Process

\* A request of the planner carries the answer that is on its way.
LEMMA AnswersSent ==
  ASSUME IInv, st.phase \in {"plan", "replan"}, NEW k \in DOMAIN awaits,
         k[1] = "question", awaits[k] = "responded"
  PROVE  st.wrap \/ <<"answer", k[2]>> \in heard \cup Sends
  <1>1. k \in Keys
    BY DEF IInv, Typed
  <1>2. <<"answer", k[2]>> \in Tags \X Nat
    BY <1>1 DEF Keys, Tags, Direct
  <1>3. st.next = <<"answer", k[2]>> /\ ~st.answered
          => <<"answer", k[2]>> \in Sends
    BY <1>2, NoneAssumption DEF Sends, PlannerSends
  <1> QED
    BY <1>3 DEF IInv, AnswersComing

\* The first terminal call is told the whole trail.
LEMMA TrailSent ==
  ASSUME IInv, st.phase = "final", NEW r \in RoundsIn(st.obs)
  PROVE  <<"observations", r>> \in heard \cup Sends
  <1>1. CASE st.retries = 0
    BY <1>1 DEF Sends, FinalSends
  <1>2. CASE st.retries > 0
    BY <1>2 DEF IInv, Observed, AllObserved
  <1> QED
    BY <1>1, <1>2 DEF IInv, Typed, IsState

\* The wrap-up goes to the terminal call and leaves the conversation alone.
LEMMA WrapUpKeeps ==
  ASSUME IInv, WrapUp
  PROVE  IInv'
  <1>1. /\ IsState(st) /\ proc.status = "running"
        /\ st.phase \in {"plan", "replan"} /\ Told.wrap
        /\ st' = [Told EXCEPT !.phase = "final"]
        /\ Commits("running", None)
        /\ UNCHANGED <<input, conv, kids, awaits, heard>>
    BY DEF WrapUp, Runs, Continue, IInv, Typed
  <1>2. IsState(Told) /\ Same(Told, st) /\ Told.answered = st.answered
    BY <1>1, ToldIs
  <1>3. /\ IsState(st') /\ st'.phase = "final" /\ st'.wrap
        /\ st'.pending = st.pending /\ st'.answered = st.answered
        /\ st'.retries = st.retries /\ st'.obs = st.obs /\ st'.round = st.round
    BY <1>1, <1>2 DEF IsState, Same, Fields, Phases
  <1>4. proc' \in Process /\ proc'.status = "running" /\ proc'.out = None
    BY <1>1, CommitsIs DEF IInv, Statuses
  <1>5. Typed'
    BY <1>1, <1>3, <1>4 DEF IInv, Typed
  <1>6. Shape' /\ Talk' /\ ChildrenTalk'
    BY <1>1, <1>3, <1>4 DEF IInv, Shape, Talk, ChildrenTalk
  <1>7. KeysPast' /\ AnswersComing'
    BY <1>1, <1>3 DEF IInv, KeysPast, Doing, AnswersComing
  <1>8. Observed'
    BY <1>1, <1>3, <1>4, NoneAssumption
    DEF IInv, Observed, Doing, AllObserved, Outcomes
  <1> QED
    BY <1>5, <1>6, <1>7, <1>8 DEF IInv

\* A reply with tool calls carries what was to be said, and opens its calls.
LEMMA DivertToToolsKeeps ==
  ASSUME IInv, DivertToTools
  PROVE  IInv'
  <1>1. PICK n \in 1..MaxCalls : st' = Diverted(Asked, n) /\ conv' = Calling(n)
    BY DEF DivertToTools
  <1>2. /\ IsState(st) /\ proc.status = "running"
        /\ st.phase \in {"plan", "replan", "final"}
        /\ Commits("running", None)
        /\ heard' = heard \cup Sends
        /\ UNCHANGED <<input, kids, awaits>>
    BY DEF DivertToTools, Generates, Runs, Continue, IInv, Typed
  <1>3. IsState(Asked) /\ Same(Asked, st) /\ (st.wrap => Asked.wrap)
    BY <1>2, AskedIs
  <1>4. /\ IsState(st') /\ st'.phase = "planner_tool" /\ st'.after = st.phase
        /\ st'.pending = n /\ st'.round = st.round /\ (st.wrap => st'.wrap)
        /\ st'.retries = st.retries /\ st'.obs = st.obs
    BY <1>1, <1>3, DivertedIs DEF Same
  <1>5. proc' \in Process /\ proc'.status = "running" /\ proc'.out = None
    BY <1>2, CommitsIs DEF IInv, Statuses
  <1>6. n \in 0..MaxCalls /\ n > 0 /\ conv' \in Convs /\ conv'.open = n
    BY <1>1, BudgetAssumption DEF Calling, Convs
  <1>7. Typed'
    BY <1>2, <1>4, <1>5, <1>6 DEF IInv, Typed
  <1>8. Shape' /\ Talk' /\ ChildrenTalk'
    BY <1>2, <1>4, <1>5, <1>6 DEF IInv, Shape, Talk, ChildrenTalk
  <1>9. KeysPast'
    BY <1>2, <1>4 DEF IInv, KeysPast, Doing
  <1>10. AnswersComing'
    <2> SUFFICES ASSUME NEW k \in DOMAIN awaits, k[1] = "question",
                        awaits[k] = "responded"
                 PROVE  st'.wrap \/ <<"answer", k[2]>> \in heard'
      BY <1>2 DEF AnswersComing
    <2>1. CASE st.phase = "final"
      BY <2>1, <1>2, <1>4 DEF IInv, AnswersComing
    <2>2. CASE st.phase \in {"plan", "replan"}
      BY <2>2, <1>2, <1>4, AnswersSent
    <2> QED
      BY <2>1, <2>2, <1>2
  <1>11. Observed'
    BY <1>2, <1>4, <1>5, NoneAssumption
    DEF IInv, Observed, Doing, AllObserved, Outcomes
  <1> QED
    BY <1>7, <1>8, <1>9, <1>10, <1>11 DEF IInv

\* One result less is due, in the state and in the conversation.
LEMMA StepPlannerToolKeeps ==
  ASSUME IInv, StepPlannerTool
  PROVE  IInv'
  <1>1. /\ IsState(st) /\ proc.status = "running"
        /\ st.phase = "planner_tool"
        /\ st.pending > 0 /\ st.after \in {"plan", "replan", "final"}
        /\ st' = Called(Told) /\ conv' = Answering(conv)
        /\ Commits("running", None)
        /\ UNCHANGED <<input, kids, awaits, heard>>
    BY DEF StepPlannerTool, Runs, Continue, IInv, Typed, Shape
  <1>2. IsState(Told) /\ Same(Told, st) /\ (st.wrap => Told.wrap)
    BY <1>1, ToldIs
  <1>3. /\ IsState(st') /\ st'.pending = st.pending - 1 /\ st'.after = st.after
        /\ st'.phase = (IF st.pending = 1 THEN st.after ELSE "planner_tool")
        /\ st'.answered = TRUE /\ (st.wrap => st'.wrap)
        /\ st'.round = st.round /\ st'.retries = st.retries /\ st'.obs = st.obs
    <2>1. /\ Told.pending > 0 /\ Told.after \in Phases
          /\ Told.phase = "planner_tool"
      BY <1>1, <1>2 DEF Same, Phases
    <2> QED
      BY <1>1, <1>2, <2>1, CalledIs DEF Same
  <1>4. proc' \in Process /\ proc'.status = "running" /\ proc'.out = None
    BY <1>1, CommitsIs DEF IInv, Statuses
  <1>5. st.pending \in 1..MaxCalls /\ conv.open = st.pending
    BY <1>1 DEF IInv, Talk, IsState
  <1>6. conv' \in Convs /\ conv'.open = st.pending - 1 /\ conv'.last = "results"
    BY <1>1, <1>5, BudgetAssumption DEF Answering, Convs
  <1>7. Typed'
    BY <1>1, <1>3, <1>4, <1>6 DEF IInv, Typed
  <1>8. Shape' /\ Talk' /\ ChildrenTalk'
    BY <1>1, <1>3, <1>4, <1>5, <1>6 DEF IInv, Shape, Talk, ChildrenTalk
  <1>9. KeysPast' /\ AnswersComing'
    BY <1>1, <1>3 DEF IInv, KeysPast, Doing, AnswersComing
  <1>10. Observed'
    BY <1>1, <1>3, <1>4, NoneAssumption
    DEF IInv, Observed, Doing, AllObserved, Outcomes
  <1> QED
    BY <1>7, <1>8, <1>9, <1>10 DEF IInv

-----------------------------------------------------------------------------
(* What a planning call ends in. *)

\* The model was asked and answered.
Replied ==
  /\ Runs("plan") \/ Runs("replan")
  /\ conv' = Saying
  /\ heard' = heard \cup Sends
  /\ input' = input

Corrects ==
  /\ CarryCorrection(Asked)
  /\ Continue
  /\ UNCHANGED <<kids, awaits>>

\* Tasks are launched, or the one child that is to reply.
Launches ==
  \E names \in SUBSET Names, key \in Keys : \E s :
    /\ IsState(s) /\ s.pending = st.pending /\ s.answered = FALSE
    /\ s.phase = "collect" /\ s.current = names /\ s.roundKey = key
    /\ s.wrap = FALSE => st.wrap = FALSE
    /\ s.retries = st.retries /\ s.obs = st.obs
    /\ s.round \in {st.round, st.round + 1}
    /\ names # {}
    /\ key = <<Direct, 0>> \/ key = <<"tasks", s.round>>
    /\ key \notin DOMAIN awaits
    /\ s.round = st.round => st.phase = "plan"
    /\ Suspend(s, key, names)

Asks == AskAndWait(Asked) /\ UNCHANGED kids /\ st.phase = "replan"

Hands == st' = Asked /\ Done("question") /\ UNCHANGED <<kids, awaits>>

Finalizes ==
  /\ st' = [Asked EXCEPT !.phase = "final"]
  /\ Continue
  /\ UNCHANGED <<kids, awaits>>

\* The keys of the awaits the run opens are new.
LEMMA KeysAreNew ==
  ASSUME IInv
  PROVE  /\ st.phase = "plan" => DOMAIN awaits = {}
         /\ <<"tasks", st.round + 1>> \notin DOMAIN awaits
         /\ st.phase = "replan" => <<"question", st.round>> \notin DOMAIN awaits
  BY DEF IInv, Typed, IsState, KeysPast, Doing, Direct

\* The first planning call is corrected or launches what it names.
LEMMA PlanOutcomes ==
  ASSUME IInv, StepPlan
  PROVE  Replied /\ (Corrects \/ Launches)
  <1>1. PICK p \in Plans : Planned(p)
    BY DEF StepPlan
  <1>2. Replied /\ st.phase = "plan" /\ IsState(st)
    BY DEF StepPlan, Replied, Runs, IInv, Typed
  <1>3. /\ IsState(Asked) /\ Same(Asked, st) /\ Asked.answered = FALSE
        /\ st.wrap => Asked.wrap
    BY <1>2, AskedIs
  <1>4. DOMAIN awaits = {}
    BY <1>2, KeysAreNew
  <1>5. CASE LaunchDirect(Asked)
    <2> DEFINE key == <<Direct, 0>>
               s   == [Asked EXCEPT !.current = {Direct}, !.direct = TRUE,
                                    !.roundKey = key, !.phase = "collect"]
    <2>1. /\ IsState(s) /\ s.pending = st.pending /\ s.answered = FALSE
          /\ s.phase = "collect" /\ s.current = {Direct} /\ s.roundKey = key
          /\ s.wrap = Asked.wrap /\ s.retries = st.retries /\ s.obs = st.obs
          /\ s.round = st.round
      BY <1>3 DEF IsState, Same, Fields, Phases, Names
    <2>2. Suspend(s, key, {Direct})
      BY <1>5 DEF LaunchDirect
    <2>3. key \in Keys /\ {Direct} \in SUBSET Names
      BY DEF Keys, Names
    <2> HIDE DEF s, key
    <2>4. (s.wrap = FALSE) => (st.wrap = FALSE)
      BY <1>2, <1>3, <2>1 DEF IsState
    <2> QED
      BY <1>2, <1>4, <2>1, <2>2, <2>3, <2>4 DEF Launches, key
  <1>6. CASE PlanOk(p) /\ ~p.direct /\ LaunchRound(Asked, p.tasks)
    <2> DEFINE key == <<"tasks", Asked.round>>
               s   == [Asked EXCEPT !.current = p.tasks, !.direct = FALSE,
                                    !.roundKey = key, !.phase = "collect"]
    <2>1. p.tasks \subseteq Names /\ Cardinality(p.tasks) # 0
      BY <1>1, <1>6 DEF Plans, Names, PlanOk, TaskListOk
    <2>2. p.tasks # {}
      BY <2>1, FS_EmptySet
    <2>3. /\ IsState(s) /\ s.pending = st.pending /\ s.answered = FALSE
          /\ s.phase = "collect" /\ s.current = p.tasks /\ s.roundKey = key
          /\ s.wrap = Asked.wrap /\ s.retries = st.retries /\ s.obs = st.obs
          /\ s.round = st.round
      BY <1>3, <2>1 DEF IsState, Same, Fields, Phases
    <2>4. Suspend(s, key, p.tasks)
      BY <1>6 DEF LaunchRound
    <2>5. key = <<"tasks", st.round>> /\ key \in Keys
      BY <1>2, <1>3 DEF Keys, Same, IsState
    <2> HIDE DEF s, key
    <2>6. (s.wrap = FALSE) => (st.wrap = FALSE)
      BY <1>2, <1>3, <2>3 DEF IsState
    <2> QED
      BY <1>2, <1>4, <2>1, <2>2, <2>3, <2>4, <2>5, <2>6 DEF Launches
  <1> QED
    BY <1>1, <1>2, <1>5, <1>6 DEF Planned, Corrects

\* A later one is corrected, launches, asks, hands its question on or finalizes.
LEMMA ReplanOutcomes ==
  ASSUME IInv, StepReplan
  PROVE  Replied /\ (Corrects \/ Launches \/ Asks \/ Hands \/ Finalizes)
  <1>1. PICK p \in Plans : Replanned(p)
    BY DEF StepReplan
  <1>2. Replied /\ st.phase = "replan" /\ IsState(st)
    BY DEF StepReplan, Replied, Runs, IInv, Typed
  <1>3. /\ IsState(Asked) /\ Same(Asked, st) /\ Asked.answered = FALSE
        /\ st.wrap => Asked.wrap
    BY <1>2, AskedIs
  <1>4. CASE p.tasks # {} /\ LaunchRound(NextRound(Asked), p.tasks)
    <2> DEFINE a   == NextRound(Asked)
               key == <<"tasks", a.round>>
               s   == [a EXCEPT !.current = p.tasks, !.direct = FALSE,
                                !.roundKey = key, !.phase = "collect"]
    <2>1. p.tasks \subseteq Names
      BY <1>1 DEF Plans, Names
    <2>2. /\ IsState(a) /\ a.pending = st.pending /\ a.answered = FALSE
          /\ a.wrap = Asked.wrap /\ a.retries = st.retries /\ a.obs = st.obs
          /\ a.round = st.round + 1
      BY <1>3 DEF NextRound, IsState, Same, Fields
    <2>3. Suspend(s, key, p.tasks)
      BY <1>4 DEF LaunchRound
    <2> HIDE DEF a
    <2>4. /\ IsState(s) /\ s.pending = st.pending /\ s.answered = FALSE
          /\ s.phase = "collect" /\ s.current = p.tasks /\ s.roundKey = key
          /\ s.wrap = Asked.wrap /\ s.retries = st.retries /\ s.obs = st.obs
          /\ s.round = st.round + 1
      BY <2>1, <2>2 DEF IsState, Fields, Phases
    <2>5. key = <<"tasks", st.round + 1>> /\ key \in Keys /\ key \notin DOMAIN awaits
      BY <1>2, <2>2, KeysAreNew DEF Keys, IsState
    <2> HIDE DEF s, key
    <2>6. (s.wrap = FALSE) => (st.wrap = FALSE)
      BY <1>2, <1>3, <2>4 DEF IsState
    <2>7. s.round # st.round /\ s.round \in {st.round, st.round + 1}
      BY <1>2, <2>4 DEF IsState
    <2>8. key = <<"tasks", s.round>>
      BY <2>4, <2>5
    <2>9. Launches
      BY <1>4, <2>1, <2>3, <2>4, <2>5, <2>6, <2>7, <2>8 DEF Launches
    <2> QED
      BY <1>2, <2>9
  <1> QED
    BY <1>1, <1>2, <1>4 DEF Replanned, Corrects, Asks, Hands, Finalizes

\* After a reply nothing is left to answer, and every answer is heard or given up.
LEMMA RepliedLeaves ==
  ASSUME IInv, Replied
  PROVE  /\ IsState(st) /\ st.phase \in {"plan", "replan"} /\ st.pending = 0
         /\ DOMAIN kids = {} /\ st.retries = 0 /\ input' \in Inputs
         /\ proc.status = "running"
         /\ conv' \in Convs /\ conv'.open = 0 /\ conv'.last = "model"
         /\ \A k \in DOMAIN awaits :
              k[1] = "question" /\ awaits[k] = "responded"
                => st.wrap \/ <<"answer", k[2]>> \in heard'
  <1>1. /\ IsState(st) /\ st.phase \in {"plan", "replan"}
        /\ proc.status = "running"
    BY DEF Replied, Runs, IInv, Typed
  <1>2. st.pending = 0 /\ DOMAIN kids = {} /\ st.retries = 0
    BY <1>1, BudgetAssumption DEF IInv, Shape, IsState, Observed, Doing
  <1>3. conv' \in Convs /\ conv'.open = 0 /\ conv'.last = "model"
    BY BudgetAssumption DEF Replied, Saying, Convs
  <1>4. input' \in Inputs /\ heard' = heard \cup Sends
    BY DEF Replied, IInv, Typed
  <1> QED
    BY <1>1, <1>2, <1>3, <1>4, AnswersSent

\* What goes on to another planning call, or to the terminal one.
LEMMA GoesOnKeeps ==
  ASSUME IInv, Replied, IsState(st'), st'.phase \in {st.phase, "final"},
         st'.pending = 0, st'.answered = FALSE, st.wrap => st'.wrap,
         st'.retries = 0, st'.round = st.round,
         proc' \in Process,
         \/ proc'.status = "running" /\ proc'.out = None
         \/ proc'.status = "succeeded" /\ proc'.out = "question",
         UNCHANGED <<kids, awaits>>
  PROVE  IInv'
  <1>1. /\ IsState(st) /\ st.phase \in {"plan", "replan"} /\ input' \in Inputs
        /\ conv' \in Convs /\ conv'.open = 0 /\ conv'.last = "model"
        /\ DOMAIN kids = {}
        /\ \A k \in DOMAIN awaits :
             k[1] = "question" /\ awaits[k] = "responded"
               => st.wrap \/ <<"answer", k[2]>> \in heard'
    BY RepliedLeaves
  <1>2. Typed'
    BY <1>1 DEF IInv, Typed
  <1>3. Shape' /\ Talk' /\ ChildrenTalk'
    BY <1>1, NoneAssumption DEF IInv, Shape, Talk, ChildrenTalk, Outcomes
  <1>4. KeysPast'
    BY <1>1 DEF IInv, KeysPast, Doing
  <1>5. AnswersComing'
    BY <1>1 DEF AnswersComing
  <1>6. Observed'
    BY NoneAssumption, BudgetAssumption DEF Observed, Outcomes
  <1> QED
    BY <1>2, <1>3, <1>4, <1>5, <1>6 DEF IInv

\* A correction stays in its phase.
LEMMA CorrectsKeeps ==
  ASSUME IInv, Replied, Corrects
  PROVE  IInv'
  <1>1. IsState(st) /\ st.pending = 0 /\ st.retries = 0
    BY RepliedLeaves
  <1>2. /\ IsState(Asked) /\ Same(Asked, st) /\ Asked.answered = FALSE
        /\ st.wrap => Asked.wrap
    BY <1>1, AskedIs
  <1>3. st' = [Asked EXCEPT !.next = <<"correction", 0>>]
    BY DEF Corrects, CarryCorrection
  <1>4. /\ IsState(st') /\ st'.phase = st.phase /\ st'.pending = 0
        /\ st'.answered = FALSE /\ (st.wrap => st'.wrap)
        /\ st'.retries = 0 /\ st'.round = st.round
    BY <1>1, <1>2, <1>3 DEF IsState, Same, Fields, Tags
  <1>5. proc' \in Process /\ proc'.status = "running" /\ proc'.out = None
    BY CommitsIs DEF Corrects, Continue, IInv, Statuses
  <1> QED
    BY <1>4, <1>5, GoesOnKeeps DEF Corrects

\* A question that is the reply ends the run.
LEMMA HandsKeeps ==
  ASSUME IInv, Replied, Hands
  PROVE  IInv'
  <1>1. IsState(st) /\ st.pending = 0 /\ st.retries = 0
    BY RepliedLeaves
  <1>2. /\ IsState(st') /\ st'.phase = st.phase /\ st'.pending = 0
        /\ st'.answered = FALSE /\ (st.wrap => st'.wrap)
        /\ st'.retries = 0 /\ st'.round = st.round
    BY <1>1, AskedIs DEF Hands, Same
  <1>3. proc' \in Process /\ proc'.status = "succeeded" /\ proc'.out = "question"
    BY CommitsIs DEF Hands, Done, IInv, Statuses, Outcomes
  <1> QED
    BY <1>2, <1>3, GoesOnKeeps DEF Hands

\* A decision to finalize goes to the terminal call.
LEMMA FinalizesKeeps ==
  ASSUME IInv, Replied, Finalizes
  PROVE  IInv'
  <1>1. IsState(st) /\ st.pending = 0 /\ st.retries = 0
    BY RepliedLeaves
  <1>2. /\ IsState(Asked) /\ Same(Asked, st) /\ Asked.answered = FALSE
        /\ st.wrap => Asked.wrap
    BY <1>1, AskedIs
  <1>3. st' = [Asked EXCEPT !.phase = "final"]
    BY DEF Finalizes
  <1>4. /\ IsState(st') /\ st'.phase = "final" /\ st'.pending = 0
        /\ st'.answered = FALSE /\ (st.wrap => st'.wrap)
        /\ st'.retries = 0 /\ st'.round = st.round
    BY <1>1, <1>2, <1>3 DEF IsState, Same, Fields, Phases
  <1>5. proc' \in Process /\ proc'.status = "running" /\ proc'.out = None
    BY CommitsIs DEF Finalizes, Continue, IInv, Statuses
  <1> QED
    BY <1>4, <1>5, GoesOnKeeps DEF Finalizes

\* The await that is opened is one more.
LEMMA OpenedIs ==
  ASSUME NEW key, awaits' = Opened(key), key \notin DOMAIN awaits
  PROVE  /\ DOMAIN awaits' = DOMAIN awaits \cup {key}
         /\ awaits'[key] = "open"
         /\ \A k \in DOMAIN awaits : awaits'[k] = awaits[k]
  BY DEF Opened

\* Launched children wait under a key of their own, their conversations empty.
LEMMA LaunchesKeeps ==
  ASSUME IInv, Replied, Launches
  PROVE  IInv'
  <1>1. PICK names \in SUBSET Names, key \in Keys : \E s :
          /\ IsState(s) /\ s.pending = st.pending /\ s.answered = FALSE
          /\ s.phase = "collect" /\ s.current = names /\ s.roundKey = key
          /\ s.wrap = FALSE => st.wrap = FALSE
          /\ s.retries = st.retries /\ s.obs = st.obs
          /\ s.round \in {st.round, st.round + 1}
          /\ names # {}
          /\ key = <<Direct, 0>> \/ key = <<"tasks", s.round>>
          /\ key \notin DOMAIN awaits
          /\ s.round = st.round => st.phase = "plan"
          /\ Suspend(s, key, names)
    BY DEF Launches
  <1>2. /\ awaits' = Opened(key) /\ kids' = [t \in names |-> NewChild]
        /\ Commits("waiting", None)
    BY <1>1 DEF Suspend
  <1>3. /\ IsState(st') /\ st'.pending = st.pending /\ st'.answered = FALSE
        /\ st'.phase = "collect" /\ st'.current = names /\ st'.roundKey = key
        /\ st'.wrap = FALSE => st.wrap = FALSE
        /\ st'.retries = st.retries /\ st'.obs = st.obs
        /\ st'.round \in {st.round, st.round + 1}
        /\ names # {}
        /\ key = <<Direct, 0>> \/ key = <<"tasks", st'.round>>
        /\ key \notin DOMAIN awaits
        /\ st'.round = st.round => st.phase = "plan"
    BY <1>1 DEF Suspend
  <1>4. /\ IsState(st) /\ st.phase \in {"plan", "replan"} /\ input' \in Inputs
        /\ conv' \in Convs /\ conv'.open = 0 /\ conv'.last = "model"
        /\ st.pending = 0 /\ st.retries = 0
        /\ \A k \in DOMAIN awaits :
             k[1] = "question" /\ awaits[k] = "responded"
               => st.wrap \/ <<"answer", k[2]>> \in heard'
    BY RepliedLeaves
  <1>5. /\ DOMAIN awaits' = DOMAIN awaits \cup {key} /\ awaits'[key] = "open"
        /\ \A k \in DOMAIN awaits : awaits'[k] = awaits[k]
    BY <1>2, <1>3, OpenedIs
  <1>6. proc' \in Process /\ proc'.status = "waiting" /\ proc'.out = None
    BY <1>2, CommitsIs DEF IInv, Statuses
  <1>7. NewChild \in Child /\ ChildTalks(NewChild)
    BY BudgetAssumption
    DEF NewChild, Child, ChildTalks, Nothing, Convs
  <1>8. DOMAIN kids' = names /\ \A t \in names : kids'[t] = NewChild
    BY <1>2
  <1>9. Typed'
    BY <1>3, <1>4, <1>5, <1>6, <1>7, <1>8 DEF IInv, Typed
  <1>10. Shape' /\ Talk' /\ ChildrenTalk'
    <2>1. key[1] # "question"
      BY <1>3 DEF Direct
    <2> QED
      BY <2>1, <1>3, <1>4, <1>5, <1>6, <1>7, <1>8
      DEF IInv, Shape, Talk, ChildrenTalk
  <1>11. KeysPast'
    <2> SUFFICES ASSUME NEW k \in DOMAIN awaits', k # <<Direct, 0>>
                 PROVE  /\ k[2] <= st'.round
                        /\ k[1] = "question" => k[2] < st'.round
      BY <1>3 DEF KeysPast, Doing
    <2>1. CASE k = key
      BY <2>1, <1>3 DEF IsState
    <2>2. CASE k \in DOMAIN awaits
      <3>1. st.phase = "replan" /\ st'.round = st.round + 1
        BY <2>2, <1>3, <1>4 DEF IInv, KeysPast, Doing
      <3>2. k[2] <= st.round /\ k[2] \in Nat
        BY <2>2 DEF IInv, KeysPast, Typed, Keys, Direct
      <3> QED
        BY <3>1, <3>2, <1>4 DEF IsState
    <2> QED
      BY <2>1, <2>2, <1>5
  <1>12. AnswersComing'
    BY <1>3, <1>4, <1>5 DEF AnswersComing, IsState
  <1>13. Observed'
    BY <1>3, <1>4, <1>6, NoneAssumption, BudgetAssumption DEF Observed, Outcomes
  <1> QED
    BY <1>9, <1>10, <1>11, <1>12, <1>13 DEF IInv

\* A question waits under the key of its round, which no earlier one had.
LEMMA AsksKeeps ==
  ASSUME IInv, Replied, Asks
  PROVE  IInv'
  <1> DEFINE key == <<"question", st.round>>
  <1>1. /\ IsState(st) /\ st.phase = "replan" /\ input' \in Inputs
        /\ conv' \in Convs /\ conv'.open = 0 /\ conv'.last = "model"
        /\ st.pending = 0 /\ st.retries = 0 /\ DOMAIN kids = {}
        /\ \A k \in DOMAIN awaits :
             k[1] = "question" /\ awaits[k] = "responded"
               => st.wrap \/ <<"answer", k[2]>> \in heard'
    BY RepliedLeaves DEF Asks
  <1>2. /\ IsState(Asked) /\ Same(Asked, st) /\ Asked.answered = FALSE
        /\ st.wrap => Asked.wrap
    BY <1>1, AskedIs
  <1>3. /\ st' = [Asked EXCEPT !.answerKey = key, !.phase = "answer"]
        /\ awaits' = Opened(key) /\ Commits("waiting", None)
        /\ kids' = kids
    BY <1>2 DEF Asks, AskAndWait, Same
  <1>4. /\ IsState(st') /\ st'.phase = "answer" /\ st'.pending = 0
        /\ st'.answered = FALSE /\ (st.wrap => st'.wrap)
        /\ st'.retries = 0 /\ st'.round = st.round /\ st'.answerKey = key
    BY <1>1, <1>2, <1>3 DEF IsState, Same, Fields, Phases
  <1>5. proc' \in Process /\ proc'.status = "waiting" /\ proc'.out = None
    BY <1>3, CommitsIs DEF IInv, Statuses
  <1>6. key \notin DOMAIN awaits /\ key \in Keys
    BY <1>1, KeysAreNew DEF Keys, IsState
  <1>7. /\ DOMAIN awaits' = DOMAIN awaits \cup {key} /\ awaits'[key] = "open"
        /\ \A k \in DOMAIN awaits : awaits'[k] = awaits[k]
    BY <1>3, <1>6, OpenedIs
  <1>8. Typed'
    BY <1>1, <1>3, <1>4, <1>5, <1>6, <1>7 DEF IInv, Typed
  <1>9. Shape' /\ Talk' /\ ChildrenTalk'
    BY <1>1, <1>3, <1>4, <1>5, <1>7 DEF IInv, Shape, Talk, ChildrenTalk
  <1>10. KeysPast'
    BY <1>1, <1>4, <1>7 DEF IInv, KeysPast, Doing, IsState
  <1>11. AnswersComing'
    BY <1>1, <1>4, <1>7 DEF AnswersComing
  <1>12. Observed'
    BY <1>4, <1>5, NoneAssumption, BudgetAssumption DEF Observed, Outcomes
  <1> QED
    BY <1>8, <1>9, <1>10, <1>11, <1>12 DEF IInv

-----------------------------------------------------------------------------
(* Collecting, answers, the terminal output and failure. *)

\* The direct child's reply, or the fallback, ends the run.
LEMMA CollectDirectKeeps ==
  ASSUME IInv, CollectDirect
  PROVE  IInv'
  <1>1. /\ IsState(st) /\ st.phase = "collect" /\ st' = Told
        /\ UNCHANGED <<input, conv, kids, awaits, heard>>
    BY DEF CollectDirect, Runs, IInv, Typed
  <1>2. /\ IsState(st') /\ Same(st', st) /\ st'.answered = st.answered
        /\ st.wrap => st'.wrap
    BY <1>1, ToldIs
  <1>3. PICK out \in {"direct", "fallback"} : Done(out)
    BY DEF CollectDirect
  <1>4. /\ proc' \in Process /\ proc'.status = "succeeded"
        /\ proc'.out \in {"direct", "fallback"}
    BY <1>3, CommitsIs DEF Done, IInv, Statuses, Outcomes
  <1>5. Typed'
    BY <1>1, <1>2, <1>4 DEF IInv, Typed
  <1>6. Shape' /\ Talk' /\ ChildrenTalk'
    BY <1>1, <1>2, <1>4, NoneAssumption
    DEF IInv, Shape, Talk, ChildrenTalk, Same, Outcomes
  <1>7. KeysPast' /\ AnswersComing'
    BY <1>1, <1>2 DEF IInv, KeysPast, Doing, AnswersComing, Same
  <1>8. Observed'
    BY <1>1, <1>2, <1>4 DEF IInv, Observed, Doing, Same
  <1> QED
    BY <1>5, <1>6, <1>7, <1>8 DEF IInv

\* A collected round goes to the next planning call.
LEMMA StepCollectKeeps ==
  ASSUME IInv, StepCollect
  PROVE  IInv'
  <1>1. /\ IsState(st) /\ st.phase = "collect" /\ st' = Collected(Told)
        /\ kids' = <<>> /\ Commits("running", None)
        /\ UNCHANGED <<input, conv, awaits, heard>>
    BY DEF StepCollect, Runs, Continue, IInv, Typed
  <1>2. /\ IsState(Told) /\ Same(Told, st) /\ Told.answered = st.answered
        /\ st.wrap => Told.wrap
    BY <1>1, ToldIs
  <1>3. /\ IsState(st') /\ st'.phase = "replan" /\ st'.round = st.round
        /\ st'.answered = st.answered /\ st'.pending = st.pending
        /\ st'.retries = st.retries /\ (st.wrap => st'.wrap)
    BY <1>1, <1>2, CollectedIs DEF Same
  <1>4. proc' \in Process /\ proc'.status = "running" /\ proc'.out = None
    BY <1>1, CommitsIs DEF IInv, Statuses
  <1>5. DOMAIN kids' = {}
    BY <1>1
  <1>6. st.retries = 0
    BY <1>1 DEF IInv, Observed, Doing, IsState
  <1>7. Typed'
    BY <1>1, <1>3, <1>4, <1>5 DEF IInv, Typed
  <1>8. Shape' /\ Talk' /\ ChildrenTalk'
    BY <1>1, <1>3, <1>4, <1>5 DEF IInv, Shape, Talk, ChildrenTalk
  <1>9. KeysPast' /\ AnswersComing'
    BY <1>1, <1>3 DEF IInv, KeysPast, Doing, AnswersComing
  <1>10. Observed'
    BY <1>3, <1>4, <1>6, NoneAssumption, BudgetAssumption DEF Observed, Outcomes
  <1> QED
    BY <1>7, <1>8, <1>9, <1>10 DEF IInv

\* An answer is put before the next planning call, in a round of its own.
LEMMA StepAnswerKeeps ==
  ASSUME IInv, StepAnswer
  PROVE  IInv'
  <1>1. /\ IsState(st) /\ st.phase = "answer" /\ st' = Answered(Told)
        /\ Commits("running", None)
        /\ UNCHANGED <<input, conv, kids, awaits, heard>>
        /\ st.answerKey = <<"question", st.round>> /\ ~st.answered
    BY DEF StepAnswer, Runs, Continue, IInv, Typed, Shape
  <1>2. /\ IsState(Told) /\ Same(Told, st) /\ Told.answered = st.answered
        /\ st.wrap => Told.wrap
    BY <1>1, ToldIs
  <1>3. /\ IsState(st') /\ st'.phase = "replan" /\ st'.round = st.round + 1
        /\ st'.next = <<"answer", st.round>>
        /\ st'.answered = st.answered /\ st'.pending = st.pending
        /\ st'.retries = st.retries /\ (st.wrap => st'.wrap)
    BY <1>1, <1>2, AnsweredIs DEF Same
  <1>4. proc' \in Process /\ proc'.status = "running" /\ proc'.out = None
    BY <1>1, CommitsIs DEF IInv, Statuses
  <1>5. st.retries = 0
    BY <1>1 DEF IInv, Observed, Doing, IsState
  <1>6. Typed'
    BY <1>1, <1>3, <1>4 DEF IInv, Typed
  <1>7. Shape' /\ Talk' /\ ChildrenTalk'
    BY <1>1, <1>3, <1>4 DEF IInv, Shape, Talk, ChildrenTalk
  <1>8. KeysPast'
    <2> SUFFICES ASSUME NEW k \in DOMAIN awaits, k # <<Direct, 0>>
                 PROVE  k[2] < st'.round
      BY <1>1, <1>3 DEF KeysPast, Doing, Typed, Keys, IInv, IsState
    <2>1. k[2] <= st.round /\ k[2] \in Nat
      BY DEF IInv, KeysPast, Typed, Keys, Direct
    <2> QED
      BY <2>1, <1>1, <1>3 DEF IsState
  <1>9. AnswersComing'
    BY <1>1, <1>3 DEF IInv, AnswersComing
  <1>10. Observed'
    BY <1>3, <1>4, <1>5, NoneAssumption, BudgetAssumption DEF Observed, Outcomes
  <1> QED
    BY <1>6, <1>7, <1>8, <1>9, <1>10 DEF IInv

\* What the terminal call makes of the checkpoint and of the run.
LEMMA FinalReplyIs ==
  ASSUME IInv, st.phase = "final", proc.status = "running", FinalReply
  PROVE  /\ IsState(st') /\ st'.phase = "final" /\ st'.pending = st.pending
         /\ st'.answered = FALSE /\ (st.wrap => st'.wrap)
         /\ st'.round = st.round /\ st'.obs = st.obs
         /\ proc' \in Process /\ (st'.retries > MaxRetries => proc'.status = "succeeded")
         /\ \/ proc'.status = "running" /\ proc'.out = None
            \/ proc'.status = "succeeded" /\ proc'.out \in {"final", "fallback"}
  <1>1. IsState(st) /\ st.retries \in 0..MaxRetries
    BY BudgetAssumption DEF IInv, Typed, IsState, Observed
  <1>2. /\ IsState(Asked) /\ Same(Asked, st) /\ Asked.answered = FALSE
        /\ st.wrap => Asked.wrap
    BY <1>1, AskedIs
  <1>3. CASE st' = Asked /\ (Done("fallback") \/ Done("final"))
    BY <1>1, <1>2, <1>3, CommitsIs, BudgetAssumption
    DEF Same, Done, IInv, Statuses, Outcomes
  <1>4. CASE Rejected(Asked)
    <2> DEFINE r == [Asked EXCEPT !.retries = @ + 1]
    <2>1. /\ DOMAIN r = Fields /\ r.retries = st.retries + 1
          /\ r.phase = st.phase /\ r.round = st.round /\ r.next = st.next
          /\ r.obs = st.obs /\ r.current = st.current /\ r.direct = st.direct
          /\ r.pending = st.pending /\ r.answered = FALSE /\ r.wrap = Asked.wrap
      BY <1>2 DEF IsState, Same, Fields
    <2>2. \/ r.retries > MaxRetries /\ st' = r /\ Done("fallback")
          \/ /\ r.retries <= MaxRetries /\ Continue
             /\ st' = [r EXCEPT !.next = <<"rejection", 0>>]
      BY <1>4, <1>1, <2>1, BudgetAssumption DEF Rejected
    <2> HIDE DEF r
    <2>3. CASE r.retries > MaxRetries /\ st' = r /\ Done("fallback")
      <3>1. st.retries + 1 \in 0..(MaxRetries + 1)
        BY <1>1, BudgetAssumption
      <3> QED
        BY <2>1, <2>3, <3>1, <1>1, <1>2, CommitsIs
        DEF IsState, Done, IInv, Statuses, Outcomes
    <2>4. CASE /\ r.retries <= MaxRetries /\ Continue
               /\ st' = [r EXCEPT !.next = <<"rejection", 0>>]
      <3>1. st.retries + 1 \in 0..(MaxRetries + 1)
        BY <2>1, <2>4, <1>1, BudgetAssumption
      <3>2. /\ IsState(st') /\ st'.phase = "final" /\ st'.pending = st.pending
            /\ st'.answered = FALSE /\ st'.wrap = Asked.wrap
            /\ st'.round = st.round /\ st'.obs = st.obs
            /\ st'.retries <= MaxRetries
        BY <2>1, <2>4, <3>1, <1>1, <1>2 DEF IsState, Fields, Tags
      <3>3. proc' \in Process /\ proc'.status = "running" /\ proc'.out = None
        BY <2>4, CommitsIs DEF Continue, IInv, Statuses
      <3> QED
        BY <3>2, <3>3, <1>2, BudgetAssumption DEF IsState
    <2> QED
      BY <2>2, <2>3, <2>4
  <1> QED
    BY <1>3, <1>4 DEF FinalReply

\* A terminal output ends the run or is written again, the trail having been sent.
LEMMA StepFinalKeeps ==
  ASSUME IInv, StepFinal
  PROVE  IInv'
  <1>1. /\ IsState(st) /\ st.phase = "final" /\ proc.status = "running"
        /\ FinalReply /\ conv' = Saying /\ heard' = heard \cup Sends
        /\ UNCHANGED <<input, kids, awaits>>
    BY DEF StepFinal, Runs, IInv, Typed
  <1>2. /\ IsState(st') /\ st'.phase = "final" /\ st'.pending = st.pending
        /\ st'.answered = FALSE /\ (st.wrap => st'.wrap)
        /\ st'.round = st.round /\ st'.obs = st.obs
        /\ proc' \in Process /\ (st'.retries > MaxRetries => proc'.status = "succeeded")
        /\ \/ proc'.status = "running" /\ proc'.out = None
           \/ proc'.status = "succeeded" /\ proc'.out \in {"final", "fallback"}
    BY <1>1, FinalReplyIs
  <1>3. conv' \in Convs /\ conv'.open = 0 /\ conv'.last = "model" /\ st.pending = 0
    BY <1>1, BudgetAssumption DEF Saying, Convs, IInv, Shape, IsState
  <1>4. AllObserved'
    BY <1>1, <1>2, TrailSent DEF AllObserved
  <1>5. Typed'
    BY <1>1, <1>2, <1>3 DEF IInv, Typed
  <1>6. Shape' /\ Talk' /\ ChildrenTalk'
    BY <1>1, <1>2, <1>3, NoneAssumption
    DEF IInv, Shape, Talk, ChildrenTalk, Outcomes
  <1>7. KeysPast' /\ AnswersComing'
    BY <1>1, <1>2 DEF IInv, KeysPast, Doing, AnswersComing
  <1>8. Observed'
    BY <1>2, <1>4 DEF Observed, Doing
  <1> QED
    BY <1>5, <1>6, <1>7, <1>8 DEF IInv

\* A transition that fails, or is not begun, leaves the checkpoint as it was.
LEMMA FailureKeeps ==
  ASSUME IInv, TransitionFails \/ Stopped
  PROVE  IInv'
  <1>1. UNCHANGED <<input, st, conv, kids, awaits, heard>> /\ proc.status = "running"
    BY DEF TransitionFails, Stopped
  <1>2. /\ proc' \in Process /\ proc'.status \in {"running", "failed"}
        /\ proc'.out = proc.out
    <2>1. proc \in Process
      BY DEF IInv, Typed
    <2>2. CASE TransitionFails
      <3>1. CASE proc.attempts < MaxAttempts
        <4>1. proc' = [proc EXCEPT !.attempts = @ + 1]
          BY <2>2, <3>1 DEF TransitionFails
        <4>2. proc.attempts + 1 \in 0..MaxAttempts
          BY <2>1, <3>1, BudgetAssumption DEF Process
        <4> QED
          BY <4>1, <4>2, <2>1, <1>1 DEF Process
      <3>2. CASE ~(proc.attempts < MaxAttempts)
        <4>1. proc' = [proc EXCEPT !.status = "failed"]
          BY <2>2, <3>2 DEF TransitionFails
        <4> QED
          BY <4>1, <2>1 DEF Process, Statuses
      <3> QED
        BY <3>1, <3>2
    <2>3. CASE Stopped
      BY <2>1, <2>3 DEF Stopped, Process, Statuses
    <2> QED
      BY <2>2, <2>3
  <1>3. Typed'
    BY <1>1, <1>2 DEF IInv, Typed
  <1>4. Shape' /\ Talk' /\ ChildrenTalk'
    BY <1>1, <1>2 DEF IInv, Shape, Talk, ChildrenTalk
  <1>5. KeysPast' /\ AnswersComing'
    BY <1>1 DEF IInv, KeysPast, Doing, AnswersComing
  <1>6. Observed'
    BY <1>1, <1>2 DEF IInv, Observed, Doing, AllObserved
  <1> QED
    BY <1>3, <1>4, <1>5, <1>6 DEF IInv

\* The answer is on record, and the run reads it next.
LEMMA RespondKeeps ==
  ASSUME IInv, Respond
  PROVE  IInv'
  <1>1. /\ proc.status = "waiting" /\ st.phase = "answer"
        /\ awaits' = [awaits EXCEPT ![st.answerKey] = "responded"]
        /\ proc' = [proc EXCEPT !.status = "running"]
        /\ UNCHANGED <<input, st, conv, kids, heard>>
    BY DEF Respond
  <1>2. proc' \in Process /\ proc'.status = "running" /\ proc'.out = proc.out
    BY <1>1 DEF IInv, Typed, Process, Statuses
  <1>3. /\ DOMAIN awaits' = DOMAIN awaits
        /\ \A a \in DOMAIN awaits :
             awaits'[a] = awaits[a] \/ (awaits'[a] = "responded" /\ a = st.answerKey)
    BY <1>1
  <1>4. Typed'
    BY <1>1, <1>2, <1>3 DEF IInv, Typed
  <1>5. Shape' /\ Talk' /\ ChildrenTalk'
    BY <1>1, <1>2, <1>3 DEF IInv, Shape, Talk, ChildrenTalk
  <1>6. KeysPast' /\ AnswersComing'
    BY <1>1, <1>3 DEF IInv, KeysPast, Doing, AnswersComing
  <1>7. Observed'
    BY <1>1, <1>2 DEF IInv, Observed, Doing, AllObserved
  <1> QED
    BY <1>4, <1>5, <1>6, <1>7 DEF IInv

-----------------------------------------------------------------------------
(* Theorems. *)

\* A launched run starts in the invariant, with an inherited conversation or without.
LEMMA InitHolds ==
  ASSUME Init
  PROVE  IInv
  <1> USE BudgetAssumption DEF Init
  <1>1. input \in Inputs
    <2>1. ASSUME NEW d \in BOOLEAN, NEW q \in BOOLEAN, NEW w \in BOOLEAN,
                 NEW x \in BOOLEAN
          PROVE  Launch(d, q, w, x) \in Inputs
      BY DEF Launch, Inputs
    <2> QED
      BY <2>1 DEF Job, InteractiveJob, ThreadMention, ThreadCreate
  <1>2. IsState(st)
    BY DEF IsState, Fields, Phases, Tags
  <1>3. /\ conv \in Convs /\ conv.open = 0 /\ conv.last \in {"none", "model"}
    BY DEF Nothing, Saying, Convs
  <1>4. proc \in Process
    BY DEF Process, Statuses
  <1>5. DOMAIN kids = {} /\ DOMAIN awaits = {}
    OBVIOUS
  <1>6. Typed
    BY <1>1, <1>2, <1>3, <1>4, <1>5 DEF Typed
  <1>7. Shape /\ Talk /\ ChildrenTalk
    BY <1>3, <1>5 DEF Shape, Talk, ChildrenTalk
  <1>8. KeysPast /\ AnswersComing
    BY <1>5 DEF KeysPast, AnswersComing
  <1>9. Observed
    BY NoneAssumption DEF Observed, Outcomes
  <1> QED
    BY <1>6, <1>7, <1>8, <1>9 DEF IInv

\* Every step keeps it.
LEMMA StepKeeps ==
  ASSUME IInv, [Next]_vars
  PROVE  IInv'
  <1>1. CASE UNCHANGED vars
    BY <1>1 DEF vars, IInv, Typed, Shape, Talk, ChildrenTalk, KeysPast, Doing,
                AnswersComing, Observed, AllObserved
  <1>2. CASE ChildStep
    BY <1>2, ChildCallsToolsWrites, ChildAnswersWrites, ChildToolWrites,
       ChildFailsWrites, ChildKeeps
    DEF ChildStep
  <1>3. CASE Respond
    BY <1>3, RespondKeeps
  <1>4. CASE StepPlan
    BY <1>4, PlanOutcomes, CorrectsKeeps, LaunchesKeeps
  <1>5. CASE StepReplan
    BY <1>5, ReplanOutcomes, CorrectsKeeps, LaunchesKeeps, AsksKeeps, HandsKeeps,
       FinalizesKeeps
  <1>6. CASE WrapUp \/ DivertToTools \/ StepPlannerTool
    BY <1>6, WrapUpKeeps, DivertToToolsKeeps, StepPlannerToolKeeps
  <1>7. CASE CollectDirect \/ StepCollect \/ StepAnswer \/ StepFinal
    BY <1>7, CollectDirectKeeps, StepCollectKeeps, StepAnswerKeeps, StepFinalKeeps
  <1>8. CASE TransitionFails \/ Stopped
    BY <1>8, FailureKeeps
  <1> QED
    BY <1>1, <1>2, <1>3, <1>4, <1>5, <1>6, <1>7, <1>8 DEF Next, RunStep

\* In every reachable state the checkpoint, the conversation, the children and the
\* awaits fit each other, for every launch input and every ceiling.
THEOREM Invariance == Spec => []IInv
  <1>1. Init => IInv
    BY InitHolds
  <1>2. IInv /\ [Next]_vars => IInv'
    BY StepKeeps
  <1> QED
    BY <1>1, <1>2, PTL DEF Spec

\* Step decodes the checkpoint and trusts it: every phase comes with what it reads.
THEOREM TypeCorrect == Spec => []TypeOK
  <1>1. IInv => TypeOK
    <2> SUFFICES ASSUME IInv
                 PROVE  TypeOK
      OBVIOUS
    <2>1. st.next = None \/ st.next[1] \in Tags
      BY DEF IInv, Typed, IsState
    <2>2. \A t \in DOMAIN kids : kids[t].conv \in Convs /\ kids[t].steps \in 0..MaxTaskSteps
      BY DEF IInv, Typed, Child
    <2>3. /\ proc.status \in Statuses /\ proc.attempts \in 0..MaxAttempts
          /\ conv \in Convs
      BY DEF IInv, Typed, Process
    <2>4. Shape /\ IsState(st)
      BY DEF IInv, Typed
    <2> QED
      BY <2>1, <2>2, <2>3, <2>4 DEF TypeOK, Shape, IsState, Phases, Statuses
  <1> QED
    BY <1>1, Invariance, PTL

\* Whatever calls, corrections, answers, failed attempts and the wrap-up alternate,
\* a request of the planner or of a child is one a provider takes.
THEOREM RequestsTaken == Spec => []RequestsWellFormed
  <1>1. IInv => RequestsWellFormed
    <2> SUFFICES ASSUME IInv
                 PROVE  RequestsWellFormed
      OBVIOUS
    <2>1. ASSUME Generates
          PROVE  Takes(conv, SendsText)
      <3>1. st.phase \in {"plan", "replan", "final"}
        BY <2>1 DEF Generates, Runs
      <3>2. conv.open = 0
        BY <3>1 DEF IInv, Talk, Shape, Typed, IsState
      <3> QED
        BY <3>1, <3>2 DEF IInv, Talk, Takes, SendsText
    <2>2. ASSUME NEW t \in DOMAIN kids, kids[t].status = "running",
                 kids[t].phase = "generate"
          PROVE  Takes(kids[t].conv, ChildText(kids[t]))
      <3>1. ChildTalks(kids[t]) /\ kids[t] \in Child
        BY <2>2 DEF IInv, ChildrenTalk, Typed
      <3> QED
        BY <2>2, <3>1 DEF ChildTalks, Takes, ChildText, Nothing, Child
    <2> QED
      BY <2>1, <2>2 DEF RequestsWellFormed
  <1> QED
    BY <1>1, Invariance, PTL

\* A reported conclusion was drawn with every collected round and, unless the budget
\* told the run to wrap up, every answer before the model.
THEOREM ConclusionsInformed == Spec => []ConclusionsAreInformed
  <1>1. IInv => ConclusionsAreInformed
    <2> SUFFICES ASSUME IInv, proc.out = "final"
                 PROVE  /\ AllObserved
                        /\ st.wrap \/ \A r \in AnsweredRounds : <<"answer", r>> \in heard
      BY DEF ConclusionsAreInformed, AllObserved
    <2>1. st.phase = "final" /\ AllObserved
      BY DEF IInv, Observed
    <2>2. ASSUME NEW r \in AnsweredRounds, ~st.wrap
          PROVE  <<"answer", r>> \in heard
      <3>1. PICK k \in DOMAIN awaits :
              k[1] = "question" /\ awaits[k] = "responded" /\ r = k[2]
        BY DEF AnsweredRounds
      <3> QED
        BY <2>1, <2>2, <3>1 DEF IInv, AnswersComing
    <2> QED
      BY <2>1, <2>2
  <1> QED
    BY <1>1, Invariance, PTL

\* No round and no question asks under a key that was answered before.
THEOREM AwaitsNew == Spec => AwaitsAreFresh
  <1>1. IInv /\ [Next]_vars =>
          [\A k \in DOMAIN awaits' : awaits'[k] = "open" => k \notin DOMAIN awaits
                                                             \/ awaits[k] = "open"]_vars
    <2> SUFFICES ASSUME IInv, [Next]_vars, NEW k \in DOMAIN awaits',
                        awaits'[k] = "open", k \in DOMAIN awaits
                 PROVE  awaits[k] = "open"
      OBVIOUS
    <2>1. CASE awaits' = awaits
      BY <2>1
    <2>2. CASE \E key : awaits' = [awaits EXCEPT ![key] = "responded"]
      BY <2>2
    <2>3. CASE \E key : awaits' = Opened(key) /\ key \notin DOMAIN awaits
      BY <2>3, OpenedIs
    <2>4. CASE ChildStep
      <3>1. ChildWritten
        BY <2>4, ChildCallsToolsWrites, ChildAnswersWrites, ChildToolWrites,
           ChildFailsWrites
        DEF ChildStep
      <3> QED
        BY <2>1, <2>2, <3>1 DEF ChildWritten
    <2>5. CASE Respond
      BY <2>2, <2>5 DEF Respond
    <2>6. CASE StepPlan \/ StepReplan
      <3>1. Replied /\ (Corrects \/ Launches \/ Asks \/ Hands \/ Finalizes)
        BY <2>6, PlanOutcomes, ReplanOutcomes
      <3>2. CASE Corrects \/ Hands \/ Finalizes
        BY <2>1, <3>2 DEF Corrects, Hands, Finalizes
      <3>3. CASE Launches
        BY <2>3, <3>3 DEF Launches, Suspend
      <3>4. CASE Asks
        <4>1. IsState(st) /\ st.phase = "replan"
          BY <3>4 DEF Asks, IInv, Typed
        <4>2. Asked.round = st.round
          BY <4>1, AskedIs DEF Same
        <4>3. awaits' = Opened(<<"question", st.round>>)
          BY <3>4, <4>2 DEF Asks, AskAndWait
        <4> QED
          BY <2>3, <4>1, <4>3, KeysAreNew
      <3> QED
        BY <3>1, <3>2, <3>3, <3>4
    <2>7. CASE \/ WrapUp \/ DivertToTools \/ StepPlannerTool
               \/ CollectDirect \/ StepCollect \/ StepAnswer \/ StepFinal
               \/ TransitionFails \/ Stopped \/ UNCHANGED vars
      BY <2>1, <2>7
      DEF WrapUp, DivertToTools, StepPlannerTool, CollectDirect, StepCollect,
          StepAnswer, StepFinal, TransitionFails, Stopped, vars
    <2> QED
      BY <2>4, <2>5, <2>6, <2>7 DEF Next, RunStep
  <1> QED
    BY <1>1, Invariance, PTL DEF Spec, AwaitsAreFresh

-----------------------------------------------------------------------------
(* What a tree spends.                                                      *)
(*                                                                          *)
(* Every child still at work is reckoned with all it may take: a round is   *)
(* launched while the run is short of its notice, and as children end no    *)
(* more than that is folded into the run.                                   *)

Ceiling == Max({MaxSteps, NoticeAt + MaxTasks * MaxTaskSteps})

Spending ==
  /\ IsFiniteSet(Working)
  /\ proc.steps + Cardinality(Working) * MaxTaskSteps <= Ceiling

\* The larger of the run's ceiling and a round of children beyond the notice.
LEMMA CeilingIs ==
  /\ Ceiling \in Nat /\ MaxSteps <= Ceiling
  /\ NoticeAt + MaxTasks * MaxTaskSteps <= Ceiling
  <1> DEFINE b == NoticeAt + MaxTasks * MaxTaskSteps
  <1>1. MaxSteps \in Nat /\ NoticeAt \in Nat /\ MaxTasks \in Nat /\ MaxTaskSteps \in Nat
    BY BudgetAssumption
  <1>2. MaxTasks * MaxTaskSteps \in Nat
    BY <1>1
  <1>3. b \in Nat
    BY <1>1, <1>2
  <1> HIDE DEF b
  <1>4. \E x \in {MaxSteps, b} : \A y \in {MaxSteps, b} : x >= y
    BY <1>1, <1>3
  <1>5. /\ Max({MaxSteps, b}) \in {MaxSteps, b}
        /\ \A y \in {MaxSteps, b} : Max({MaxSteps, b}) >= y
    BY <1>4 DEF Max
  <1>6. Ceiling = Max({MaxSteps, b})
    BY DEF Ceiling, b
  <1>7. Ceiling \in Nat /\ Ceiling >= MaxSteps /\ Ceiling >= b
    BY <1>1, <1>3, <1>5, <1>6
  <1> QED
    BY <1>1, <1>3, <1>7 DEF b

\* More of the same children take at least as much.
LEMMA TimesGrows ==
  ASSUME NEW a \in Nat, NEW b \in Nat, NEW m \in Nat, a <= b
  PROVE  a * m <= b * m
  <1>1. (b - a) * m >= 0
    <2>1. b - a \in Nat
      OBVIOUS
    <2> QED
      BY <2>1
  <1> QED
    BY <1>1

\* What a launch, the other steps of the run and a child do to the spending.
SpendLaunches ==
  \E names :
    /\ IsFiniteSet(names) /\ Cardinality(names) <= MaxTasks
    /\ DOMAIN kids' = names
    /\ proc.steps < NoticeAt /\ proc'.steps = proc.steps + 1

SpendAlone ==
  /\ proc'.status # "waiting" \/ DOMAIN kids' = {}
  /\ \/ proc.steps < MaxSteps /\ proc'.steps = proc.steps + 1
     \/ proc'.steps = proc.steps

SpendWorks == Working' = Working /\ proc' = proc

SpendEnds ==
  \E t \in Working, n \in 0..MaxTaskSteps :
    Working' \subseteq Working \ {t} /\ proc'.steps = proc.steps + n

\* The limit of the run, read as what it says of the steps.
LEMMA LimitIs ==
  ASSUME Typed
  PROVE  /\ RunLimit # "stop" => proc.steps < MaxSteps
         /\ RunLimit \notin {"stop", "notice"} => proc.steps < NoticeAt
  <1>1. proc.steps \in Nat /\ MaxSteps \in Nat /\ NoticeAt \in Nat
    BY BudgetAssumption DEF Typed, Process
  <1> QED
    BY <1>1 DEF RunLimit, Limit

\* A round is launched short of the notice, and of MaxTasks children at most.
LEMMA PlanSpends ==
  ASSUME IInv, StepPlan \/ StepReplan
  PROVE  SpendLaunches \/ SpendAlone
  <1>1. /\ Typed /\ RunLimit # "stop" /\ ~Told.wrap /\ st.phase \in {"plan", "replan"}
        /\ proc.steps \in Nat
    BY DEF IInv, StepPlan, StepReplan, Runs, Typed, Process
  <1>2. RunLimit # "notice"
    <2>1. Told.wrap = (st.wrap \/ RunLimit = "notice")
      BY <1>1 DEF Told, Typed, IsState, Fields
    <2> QED
      BY <1>1, <2>1
  <1>3. proc.steps < NoticeAt /\ proc.steps < MaxSteps
    BY <1>1, <1>2, LimitIs
  <1>4. ASSUME NEW s, NEW key, NEW names, Suspend(s, key, names),
               IsFiniteSet(names), Cardinality(names) <= MaxTasks
        PROVE  SpendLaunches
    BY <1>3, <1>4 DEF Suspend, Commits, Charged, SpendLaunches
  <1>5. ASSUME NEW status, NEW out, Commits(status, out)
        PROVE  proc'.steps = proc.steps + 1 /\ proc'.status = status
    BY <1>5 DEF Commits, Charged
  <1>6. IsFiniteSet({Direct}) /\ Cardinality({Direct}) <= MaxTasks
    BY FS_Singleton, BudgetAssumption
  <1>7. ASSUME NEW ts, TaskListOk(ts)
        PROVE  IsFiniteSet(ts) /\ Cardinality(ts) <= MaxTasks
    BY <1>7, BudgetAssumption, FS_CardinalityType DEF TaskListOk
  <1>8. DOMAIN kids = {}
    BY <1>1 DEF IInv, Shape
  <1>9. CASE StepPlan
    <2>1. PICK p \in Plans : Planned(p)
      BY <1>9 DEF StepPlan
    <2>2. CASE LaunchDirect(Asked)
      BY <2>2, <1>4, <1>6 DEF LaunchDirect
    <2>3. CASE PlanOk(p) /\ ~p.direct /\ LaunchRound(Asked, p.tasks)
      BY <2>3, <1>4, <1>7 DEF LaunchRound, PlanOk
    <2>4. CASE Continue /\ UNCHANGED kids
      BY <2>4, <1>3, <1>5, <1>8 DEF Continue, SpendAlone
    <2> QED
      BY <2>1, <2>2, <2>3, <2>4 DEF Planned
  <1>10. CASE StepReplan
    <2>1. PICK p \in Plans : Replanned(p)
      BY <1>10 DEF StepReplan
    <2>2. CASE ReplanOk(p) /\ p.tasks # {} /\ LaunchRound(NextRound(Asked), p.tasks)
      BY <2>2, <1>4, <1>7 DEF LaunchRound, ReplanOk
    <2>3. CASE UNCHANGED kids /\ \E status, out : Commits(status, out)
      BY <2>3, <1>3, <1>5, <1>8 DEF SpendAlone
    <2> QED
      BY <2>1, <2>2, <2>3 DEF Replanned, AskAndWait, Continue, Done
  <1> QED
    BY <1>9, <1>10

\* The other steps of the run charge one transition, or nothing, and launch nobody.
LEMMA RunSpends ==
  ASSUME IInv,
         \/ WrapUp \/ DivertToTools \/ StepPlannerTool \/ CollectDirect \/ StepCollect
         \/ StepAnswer \/ StepFinal \/ TransitionFails \/ Stopped \/ Respond
  PROVE  SpendAlone
  <1>1. Typed /\ proc \in Process
    BY DEF IInv, Typed
  <1>2. ASSUME NEW status, NEW out, Commits(status, out), status # "waiting",
               RunLimit # "stop"
        PROVE  SpendAlone
    BY <1>1, <1>2, LimitIs DEF Commits, Charged, SpendAlone
  <1>3. ASSUME NEW status \in {"running", "failed"}, proc'.status = status,
               proc'.steps = proc.steps
        PROVE  SpendAlone
    BY <1>3 DEF SpendAlone
  <1>4. CASE WrapUp \/ DivertToTools \/ StepPlannerTool
    BY <1>4, <1>2 DEF WrapUp, DivertToTools, StepPlannerTool, Generates, Runs, Continue
  <1>5. CASE CollectDirect \/ StepCollect \/ StepAnswer
    BY <1>5, <1>2 DEF CollectDirect, StepCollect, StepAnswer, Runs, Continue, Done
  <1>6. CASE StepFinal
    <2>1. Continue \/ \E kind : Done(kind)
      BY <1>6 DEF StepFinal, FinalReply, Rejected
    <2> QED
      BY <2>1, <1>2, <1>6 DEF StepFinal, Runs, Continue, Done
  <1>7. CASE TransitionFails \/ Stopped \/ Respond
    BY <1>1, <1>3, <1>7 DEF TransitionFails, Stopped, Respond, Process
  <1> QED
    BY <1>4, <1>5, <1>6, <1>7

\* A child spends for itself until it ends; then its steps are the run's.
LEMMA ChildSpends ==
  ASSUME IInv, ChildStep
  PROVE  SpendWorks \/ SpendEnds
  <1>1. /\ proc \in Process /\ DOMAIN kids \subseteq Names
        /\ \A t \in DOMAIN kids : kids[t] \in Child
    BY DEF IInv, Typed
  <1>2. ASSUME NEW t \in DOMAIN kids, NEW k \in Child, NEW status,
               status \in {"succeeded", "failed"}, ChildEnds(t, k, status),
               proc.status = "waiting", kids[t].status = "running"
        PROVE  SpendEnds
    <2>1. t \in Working /\ k.steps \in 0..MaxTaskSteps
      BY <1>2 DEF Working, Child
    <2>2. kids' = [kids EXCEPT ![t] = [k EXCEPT !.status = status]]
      BY <1>2 DEF ChildEnds
    <2>3. kids'[t].status # "running" /\ DOMAIN kids' = DOMAIN kids
      BY <1>2, <2>2 DEF Child
    <2>4. \A o \in DOMAIN kids \ {t} : kids'[o] = kids[o]
      BY <2>2
    <2>5. Working' \subseteq Working \ {t}
      BY <1>2, <2>3, <2>4 DEF Working
    <2>6. proc'.steps = proc.steps + k.steps
      BY <1>1, <1>2 DEF ChildEnds, Process
    <2> QED
      BY <2>1, <2>5, <2>6 DEF SpendEnds
  <1>3. ASSUME NEW t \in DOMAIN kids, NEW k, kids' = [kids EXCEPT ![t] = k],
               k.status = kids[t].status, UNCHANGED proc
        PROVE  SpendWorks
    <2>1. Working' = Working
      BY <1>3 DEF Working
    <2> QED
      BY <1>3, <2>1 DEF SpendWorks
  <1>4. PICK t \in Names :
          ChildCallsTools(t) \/ ChildAnswers(t) \/ ChildTool(t) \/ ChildFails(t)
    BY DEF ChildStep
  <1>5. t \in DOMAIN kids /\ kids[t] \in Child
    BY <1>1, <1>4 DEF ChildCallsTools, ChildAnswers, ChildTool, ChildFails, ChildRuns
  <1>6. CASE ChildCallsTools(t)
    <2>1. PICK n \in 1..MaxCalls, text \in BOOLEAN :
            kids' = [kids EXCEPT ![t] =
                       [Generated(@, text) EXCEPT !.pending = n, !.phase = "tool",
                                                  !.conv = Calling(n)]]
      BY <1>6 DEF ChildCallsTools
    <2> DEFINE k == [Generated(kids[t], text) EXCEPT !.pending = n, !.phase = "tool",
                                                     !.conv = Calling(n)]
    <2>2. kids' = [kids EXCEPT ![t] = k]
      BY <2>1
    <2>3. k.status = kids[t].status
      BY <1>5 DEF Generated, Child
    <2> HIDE DEF k
    <2>4. UNCHANGED proc
      BY <1>6 DEF ChildCallsTools
    <2> QED
      BY <2>2, <2>3, <2>4, <1>3, <1>5
  <1>7. CASE ChildTool(t)
    <2>1. ChildCalled(kids[t]).status = kids[t].status
      BY <1>5 DEF ChildCalled, Child
    <2>2. kids' = [kids EXCEPT ![t] = ChildCalled(kids[t])] /\ UNCHANGED proc
      BY <1>7 DEF ChildTool
    <2> QED
      BY <2>1, <2>2, <1>3, <1>5
  <1>8. CASE ChildAnswers(t)
    <2>1. /\ proc.status = "waiting" /\ kids[t].status = "running"
          /\ kids[t].steps < MaxTaskSteps
      BY <1>5, <1>8, BudgetAssumption DEF ChildAnswers, ChildRuns, Limit, Child
    <2>2. PICK text \in BOOLEAN :
            ChildEnds(t, [Generated(kids[t], text) EXCEPT !.conv = Saying], "succeeded")
      BY <1>8 DEF ChildAnswers
    <2>3. Generated(kids[t], text) \in Child
      BY <1>5, <2>1, GeneratedIs
    <2>4. [Generated(kids[t], text) EXCEPT !.conv = Saying] \in Child
      BY <2>3, BudgetAssumption DEF Child, Saying, Convs
    <2> QED
      BY <1>2, <1>5, <2>1, <2>2, <2>4
  <1>9. CASE ChildFails(t)
    BY <1>2, <1>5, <1>9 DEF ChildFails
  <1> QED
    BY <1>4, <1>6, <1>7, <1>8, <1>9

\* Every step keeps the spending below the ceiling.
LEMMA SpendStep ==
  ASSUME IInv, Spending, [Next]_vars
  PROVE  Spending'
  <1> DEFINE w == Cardinality(Working)
  <1>1. /\ proc.steps \in Nat /\ w \in Nat /\ MaxTaskSteps \in Nat /\ MaxTasks \in Nat
        /\ MaxSteps \in Nat /\ NoticeAt \in Nat
    BY FS_CardinalityType, BudgetAssumption DEF IInv, Typed, Process, Spending
  <1>2. w * MaxTaskSteps \in Nat /\ proc.steps + w * MaxTaskSteps <= Ceiling
    BY <1>1 DEF Spending
  <1>3. Ceiling \in Nat /\ MaxSteps <= Ceiling
        /\ NoticeAt + MaxTasks * MaxTaskSteps <= Ceiling
    BY CeilingIs
  <1>4. ASSUME UNCHANGED vars PROVE SpendWorks
    BY <1>4 DEF vars, SpendWorks, Working
  <1>5. SpendLaunches \/ SpendAlone \/ SpendWorks \/ SpendEnds
    BY <1>4, PlanSpends, RunSpends, ChildSpends DEF Next, RunStep
  <1>6. CASE SpendWorks
    BY <1>6 DEF SpendWorks, Spending
  <1>7. CASE SpendAlone
    <2>1. proc'.steps \in Nat /\ proc'.steps <= Ceiling
      BY <1>1, <1>2, <1>3, <1>7 DEF SpendAlone
    <2>2. Working' = {}
      BY <1>7 DEF SpendAlone, Working
    <2>3. IsFiniteSet(Working') /\ Cardinality(Working') = 0
      BY <2>2, FS_EmptySet
    <2> QED
      BY <1>1, <2>1, <2>3 DEF Spending
  <1>8. CASE SpendLaunches
    <2>1. PICK names :
            /\ IsFiniteSet(names) /\ Cardinality(names) <= MaxTasks
            /\ DOMAIN kids' = names
            /\ proc.steps < NoticeAt /\ proc'.steps = proc.steps + 1
      BY <1>8 DEF SpendLaunches
    <2>2. Working' \in SUBSET names
      BY <2>1 DEF Working
    <2> DEFINE v == Cardinality(Working')
    <2>3. IsFiniteSet(Working') /\ v <= Cardinality(names)
      BY <2>1, <2>2, FS_Subset
    <2>4. v \in Nat /\ Cardinality(names) \in Nat
      BY <2>1, <2>3, FS_CardinalityType
    <2> HIDE DEF v
    <2>5. v <= MaxTasks
      BY <1>1, <2>1, <2>3, <2>4
    <2>6. v * MaxTaskSteps <= MaxTasks * MaxTaskSteps
      BY <1>1, <2>4, <2>5, TimesGrows
    <2>7. v * MaxTaskSteps \in Nat /\ MaxTasks * MaxTaskSteps \in Nat
      BY <1>1, <2>4
    <2>8. proc'.steps + v * MaxTaskSteps <= Ceiling
      BY <1>1, <1>3, <2>1, <2>6, <2>7
    <2> QED
      BY <2>3, <2>8 DEF Spending, v
  <1>9. CASE SpendEnds
    <2>1. PICK t \in Working, n \in 0..MaxTaskSteps :
            Working' \subseteq Working \ {t} /\ proc'.steps = proc.steps + n
      BY <1>9 DEF SpendEnds
    <2>2. IsFiniteSet(Working \ {t}) /\ Cardinality(Working \ {t}) = w - 1
      BY <2>1, FS_RemoveElement DEF Spending
    <2> DEFINE v == Cardinality(Working')
    <2>3. IsFiniteSet(Working') /\ v <= w - 1
      BY <2>1, <2>2, FS_Subset
    <2>4. v \in Nat /\ w - 1 \in Nat
      BY <2>2, <2>3, FS_CardinalityType
    <2> HIDE DEF v, w
    <2>5. v * MaxTaskSteps <= (w - 1) * MaxTaskSteps
      BY <1>1, <2>3, <2>4, TimesGrows
    <2>6. (w - 1) * MaxTaskSteps = w * MaxTaskSteps - MaxTaskSteps
      BY <1>1
    <2>7. v * MaxTaskSteps \in Nat
      BY <1>1, <2>4
    <2>8. proc'.steps + v * MaxTaskSteps <= Ceiling
      BY <1>1, <1>2, <1>3, <2>1, <2>5, <2>6, <2>7
    <2> QED
      BY <2>3, <2>8 DEF Spending, v
  <1> QED
    BY <1>5, <1>6, <1>7, <1>8, <1>9

\* The children at work took what they took, each its own ceiling at most.
LEMMA UnfoldedIs ==
  ASSUME IInv, Spending
  PROVE  Unfolded \in Nat /\ Unfolded <= Cardinality(Working) * MaxTaskSteps
  <1> DEFINE all  == Working \X (1..MaxTaskSteps)
             took == UNION {{t} \X (1..kids[t].steps) : t \in Working}
  <1>1. MaxTaskSteps \in Nat /\ IsFiniteSet(Working)
    BY BudgetAssumption DEF Spending
  <1>2. IsFiniteSet(1..MaxTaskSteps) /\ Cardinality(1..MaxTaskSteps) = MaxTaskSteps
    BY <1>1, FS_Interval
  <1>3. IsFiniteSet(all) /\ Cardinality(all) = Cardinality(Working) * MaxTaskSteps
    BY <1>1, <1>2, FS_Product
  <1>4. \A t \in Working : kids[t].steps \in 0..MaxTaskSteps
    BY DEF Working, IInv, Typed, Child
  <1>5. took \in SUBSET all
    <2>1. ASSUME NEW t \in Working PROVE {t} \X (1..kids[t].steps) \subseteq all
      BY <1>1, <1>4
    <2> QED
      BY <2>1
  <1>6. Unfolded = Cardinality(took)
    BY DEF Unfolded
  <1> HIDE DEF all, took
  <1>7. IsFiniteSet(took) /\ Cardinality(took) <= Cardinality(all)
    BY <1>3, <1>5, FS_Subset
  <1>8. Cardinality(took) \in Nat
    BY <1>7, FS_CardinalityType
  <1> QED
    BY <1>3, <1>6, <1>7, <1>8

\* However rounds, answers and failures alternate, a tree spends its ceiling at most,
\* or one round of children more than the notice (agent/budget charges a child when
\* it ends).
THEOREM SpendBounded == Spec => []SpendIsBounded
  <1>1. Init => Spending
    <2> SUFFICES ASSUME Init PROVE Spending
      OBVIOUS
    <2>1. Working = {} /\ proc.steps = 0
      BY DEF Init, Working
    <2>2. IsFiniteSet(Working) /\ Cardinality(Working) = 0
      BY <2>1, FS_EmptySet
    <2> QED
      BY <2>1, <2>2, CeilingIs, BudgetAssumption DEF Spending
  <1>2. IInv /\ Spending /\ [Next]_vars => Spending'
    BY SpendStep
  <1>3. IInv /\ Spending => SpendIsBounded
    <2> SUFFICES ASSUME IInv, Spending PROVE SpendIsBounded
      OBVIOUS
    <2> DEFINE most == Cardinality(Working) * MaxTaskSteps
    <2>1. Cardinality(Working) \in Nat /\ MaxTaskSteps \in Nat /\ proc.steps \in Nat
      BY FS_CardinalityType, BudgetAssumption DEF Spending, IInv, Typed, Process
    <2>2. most \in Nat /\ Unfolded \in Nat /\ Unfolded <= most
      BY <2>1, UnfoldedIs
    <2>3. proc.steps + most <= Ceiling
      BY DEF Spending
    <2> HIDE DEF most
    <2>4. proc.steps + Unfolded <= Ceiling
      BY <2>1, <2>2, <2>3, CeilingIs
    <2> QED
      BY <2>4 DEF SpendIsBounded, Ceiling
  <1> QED
    BY <1>1, <1>2, <1>3, Invariance, PTL DEF Spec
=============================================================================

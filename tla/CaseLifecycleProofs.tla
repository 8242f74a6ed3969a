------------------------- MODULE CaseLifecycleProofs -------------------------
(***************************************************************************)
(* Proofs about CaseLifecycle, for any number of calls, cases, users and   *)
(* keys, and any number of failures.                                       *)
(*                                                                         *)
(* A step is one call's and writes at most the case that call is about     *)
(* (StepWrites): it deletes it, stores a new one, changes its assignees,   *)
(* or overwrites it with the call's copy, which is stale unless the case   *)
(* is still as the call read it.  So what holds of every stored case has   *)
(* to be known of the copies, and a copy that is not stale says what the   *)
(* case was.                                                               *)
(*                                                                         *)
(* What Jobs hear of a case's closings is counted at the end (Closings): a *)
(* case that is closed or gone is one closing ahead of its reopenings, and *)
(* a call that is yet to announce counts as heard.                         *)
(***************************************************************************)
EXTENDS CaseLifecycle, FiniteSetTheorems, TLAPS

Step(c) == Begin(c) \/ Proceed(c) \/ Die(c)
-----------------------------------------------------------------------------
(***************************************************************************)
(* The inductive invariant.                                                *)
(***************************************************************************)

\* The calls at work on a case that is there or will be.
AtWork == {"store", "activate", "readback", "undo", "transact", "remove",
           "publish"} \cup Updating

Unbound(doc) == doc.status = "DRAFT" => doc.home = None

\* What a call knows at each of its steps.
CallKnows(c) ==
  /\ id[c] <= counter
  /\ pc[c] \in AtWork => id[c] \in Ids
  /\ Unbound(held[c])
  /\ pc[c] \in {"lookup", "post", "activate", "flip", "bind"} =>
       held[c].status = "OPEN"
  /\ pc[c] \in {"take", "store"} =>
       \/ held[c].status = "DRAFT"
       \/ held[c].status = "OPEN" /\ (held[c].home = None <=> Channel)
  /\ pc[c] = "post" => ~Channel
  /\ pc[c] = "bind" => held[c].home # None
  /\ pc[c] \in {"patch", "rollback"} => held[c].status = "DRAFT"
  /\ pc[c] \in {"lookup", "flip"} => held[c].home = None
  /\ pc[c] = "flip" => base[c].home = None
  /\ pc[c] \in {"activate", "bind"} =>
       base[c].status = "OPEN" /\ base[c].home = None
  /\ pc[c] = "readback" => pre[c] # None
  /\ pre[c] # None => pre[c].home = None
  /\ pc[c] \in Updating \cup {"activate"} =>
       held[c].assignees = base[c].assignees /\ held[c].key = base[c].key
  /\ pc[c] \in {"patch", "write"} =>
       /\ held[c].home = base[c].home
       /\ held[c].status = "DRAFT" <=> base[c].status = "DRAFT"

CallsKnow == \A c \in Calls : CallKnows(c)

\* An id is handed out once: nobody else is about the case a call is to store.
IdsFresh ==
  /\ \A i \in Ids : cases[i] # None => i <= counter
  /\ \A c \in Calls : pc[c] = "store" =>
       cases[id[c]] = None /\ \A e \in Calls \ {c} : id[e] # id[c]

\* The call is to give the case its home, or to clean up after it, or is lost.
BringsUp(c, i) ==
  id[c] = i /\ pc[c] \in {"activate", "bind", "readback", "rollback", "undo",
                          "lost"}

\* Not only an OPEN case: one that was closed without a home may be reopened.
HomesComing ==
  \A i \in Ids \ stale :
    cases[i] # None /\ cases[i].status # "DRAFT" /\ cases[i].home = None
      => \E c \in Calls : BringsUp(c, i)

\* The case of an answered delivery of the form keeps the form's key.
PriorKnown ==
  \A c \in Calls : \A d \in prior[c] :
    /\ pc[c] # "idle"
    /\ d \in Calls /\ pc[d] = "done" /\ id[d] \in Ids
    /\ id[d] \notin stale /\ cases[id[d]] # None =>
         /\ pc[c] = "lookup" => cases[id[d]].key = held[c].key
         /\ pc[c] \in {"post", "take", "store"} => faults # 0

IInv == /\ TypeOK /\ CallsKnow /\ IdsFresh /\ DraftUnbound /\ AssignmentsKept
        /\ HomesComing /\ PriorKnown
-----------------------------------------------------------------------------
(***************************************************************************)
(* Cases and their copies.                                                 *)
(***************************************************************************)

\* A case with one of its fields changed is a case, and keeps the others.
LEMMA CaseWith ==
  ASSUME NEW doc \in Case
  PROVE  /\ doc # None
         /\ \A s \in {"DRAFT", "OPEN", "CLOSED"} :
              LET new == [doc EXCEPT !.status = s]
              IN /\ new \in Case /\ new.status = s /\ new.home = doc.home
                 /\ new.assignees = doc.assignees /\ new.key = doc.key
         /\ \A who \in SUBSET Users :
              LET new == [doc EXCEPT !.assignees = who]
              IN /\ new \in Case /\ new.assignees = who /\ new.key = doc.key
                 /\ new.status = doc.status /\ new.home = doc.home
<1>1. doc # None
  BY NoneAssumption
<1> QED
  BY <1>1 DEF Case

\* The fields of a case have their types.
LEMMA CaseFields ==
  ASSUME NEW doc \in Case
  PROVE  /\ doc.status \in {"DRAFT", "OPEN", "CLOSED"}
         /\ doc.home \in Homes \cup {None}
         /\ doc.assignees \in SUBSET Users
         /\ doc.key \in Keys \cup {None}
         /\ doc.board \in Boards
BY DEF Case

\* A new case has the fields it is made of, and no home.
LEMMA NewTyped ==
  ASSUME NEW s \in {"DRAFT", "OPEN", "CLOSED"}, NEW who \in SUBSET Users,
         NEW k \in Keys \cup {None}
  PROVE  /\ NewCase(s, who, k) \in Case
         /\ NewCase(s, who, k).status = s /\ NewCase(s, who, k).home = None
         /\ NewCase(s, who, k).key = k /\ NewCase(s, who, k).assignees = who
BY DEF NewCase, Case, Boards

\* Neither has the copy of a call that has none.
LEMMA NobodyTyped == Nobody \in Case /\ Unbound(Nobody)
<1>1. {} \in SUBSET Users /\ None \in Keys \cup {None}
  OBVIOUS
<1> QED
  BY <1>1, NewTyped DEF Nobody, Unbound

\* Binding a case gives it the home and changes no more than its board status.
LEMMA BoundTyped ==
  ASSUME NEW c \in Homes, NEW doc \in Case
  PROVE  /\ Bound(c, doc) \in Case
         /\ Bound(c, doc).home = c /\ Bound(c, doc).status = doc.status
         /\ Bound(c, doc).assignees = doc.assignees
         /\ Bound(c, doc).key = doc.key
<1>1. PICK b \in Boards : Bound(c, doc) = [doc EXCEPT !.home = c, !.board = b]
  <2>1. "todo" \in Boards /\ doc.board \in Boards
    BY DEF Case, Boards
  <2>2. Bound(c, doc) =
          [doc EXCEPT !.home = c,
             !.board = IF ~Channel /\ doc.board = "unset" THEN "todo"
                                                          ELSE doc.board]
    BY DEF Bound, Case
  <2> QED
    BY <2>1, <2>2
<1>2. /\ [doc EXCEPT !.home = c, !.board = b] \in Case
      /\ [doc EXCEPT !.home = c, !.board = b].home = c
      /\ [doc EXCEPT !.home = c, !.board = b].status = doc.status
      /\ [doc EXCEPT !.home = c, !.board = b].assignees = doc.assignees
      /\ [doc EXCEPT !.home = c, !.board = b].key = doc.key
  BY DEF Case
<1> QED
  BY <1>1, <1>2

\* Moving a case on the board keeps a draft a draft, and any other from
\* becoming one.
LEMMA SyncedTyped ==
  ASSUME NEW doc \in Case, NEW b \in Boards
  PROVE  LET new == Synced([doc EXCEPT !.board = b])
         IN /\ new \in Case /\ new.home = doc.home
            /\ new.assignees = doc.assignees /\ new.key = doc.key
            /\ new.status = "DRAFT" <=> doc.status = "DRAFT"
<1> DEFINE moved == [doc EXCEPT !.board = b]
<1>1. /\ moved \in Case /\ moved.home = doc.home /\ moved.status = doc.status
      /\ moved.assignees = doc.assignees /\ moved.key = doc.key
  BY DEF Case
<1> HIDE DEF moved
<1>2. \/ Synced(moved) = moved /\ moved.status = "DRAFT"
      \/ /\ moved.status # "DRAFT"
         /\ \E s \in {"OPEN", "CLOSED"} :
              Synced(moved) = [moved EXCEPT !.status = s]
  BY DEF Synced
<1>3. /\ Synced(moved) \in Case /\ Synced(moved).home = doc.home
      /\ Synced(moved).assignees = doc.assignees
      /\ Synced(moved).key = doc.key
      /\ Synced(moved).status = "DRAFT" <=> doc.status = "DRAFT"
  <2>1. CASE Synced(moved) = moved
    BY <1>1, <1>2, <2>1, CaseWith DEF Case
  <2>2. ASSUME NEW s \in {"OPEN", "CLOSED"}, moved.status # "DRAFT",
               Synced(moved) = [moved EXCEPT !.status = s]
        PROVE  /\ Synced(moved) \in Case /\ Synced(moved).home = doc.home
               /\ Synced(moved).assignees = doc.assignees
               /\ Synced(moved).key = doc.key
               /\ Synced(moved).status = "DRAFT" <=> doc.status = "DRAFT"
    BY <1>1, <2>2 DEF Case
  <2> QED
    BY <1>2, <2>1, <2>2
<1> QED
  BY <1>3 DEF moved

\* Rolling a submission back makes a draft, bound as before.
LEMMA UnflippedTyped ==
  ASSUME NEW c \in Calls, cases[id[c]] \in Case, pre[c] \in Binding
  PROVE  /\ Unflipped(c) \in Case /\ Unflipped(c).status = "DRAFT"
         /\ Unflipped(c).home = pre[c].home
         /\ Unflipped(c).assignees = cases[id[c]].assignees
         /\ Unflipped(c).key = cases[id[c]].key
BY DEF Unflipped, Case, Binding
-----------------------------------------------------------------------------
(***************************************************************************)
(* Types.                                                                  *)
(***************************************************************************)

\* What TypeOK says of one call and of one id.
LEMMA Fields ==
  ASSUME TypeOK
  PROVE  /\ \A c \in Calls :
              /\ pc[c] \in Steps /\ id[c] \in 0..MaxCases
              /\ held[c] \in Case /\ base[c] \in Case
              /\ pre[c] # None =>
                   pre[c] \in Binding /\ pre[c].home \in Homes \cup {None}
              /\ c \in Homes /\ c # None
         /\ \A i \in Ids : cases[i] # None => cases[i] \in Case
         /\ Nobody \in Case
         /\ faults \in Nat /\ counter \in Nat
BY CaseAssumption, NobodyTyped DEF TypeOK, Homes, Binding

\* The variables of the calls have their types.
CallTypes ==
  /\ pc \in [Calls -> Steps]
  /\ id \in [Calls -> 0..MaxCases]
  /\ held \in [Calls -> Case]
  /\ base \in [Calls -> Case]
  /\ pre \in [Calls -> Binding \cup {None}]

\* So they have after a step of one call that sets its own to values that have.
LEMMA CallTyped ==
  ASSUME TypeOK, NEW c \in Calls,
         \/ pc' = pc
         \/ \E p \in Steps : pc' = [pc EXCEPT ![c] = p],
         \/ id' = id
         \/ \E i \in 0..MaxCases : id' = [id EXCEPT ![c] = i],
         \/ held' = held
         \/ \E d \in Case : held' = [held EXCEPT ![c] = d],
         \/ base' = base
         \/ \E d \in Case : base' = [base EXCEPT ![c] = d],
         \/ pre' = pre
         \/ \E b \in Binding \cup {None} : pre' = [pre EXCEPT ![c] = b]
  PROVE  CallTypes'
BY DEF TypeOK, CallTypes

\* A call that begins.
LEMMA BeginCallTyped ==
  ASSUME IInv, NEW c \in Calls, Begin(c)
  PROVE  CallTypes'
<1>1. /\ TypeOK
      /\ \A i \in Ids : cases[i] # None => cases[i] \in Case
  BY Fields DEF IInv
<1>2. ASSUME NEW key \in Keys \cup {None}, NEW who \in SUBSET Users,
             CreateCase(c, key, who)
      PROVE  CallTypes'
  <2>1. NewCase("OPEN", who, key) \in Case
    BY NewTyped
  <2>2. \E p \in Steps : Goto(c, p)
    BY <1>2 DEF CreateCase, Steps
  <2> QED
    BY <1>1, <1>2, <2>1, <2>2, CallTyped DEF CreateCase, Goto
<1>3. ASSUME NEW who \in SUBSET Users, CreateDraft(c, who)
      PROVE  CallTypes'
  <2>1. NewCase("DRAFT", who, None) \in Case
    BY NewTyped
  <2> QED
    BY <1>1, <1>3, <2>1, CallTyped DEF CreateDraft, Goto, Steps
<1>4. ASSUME NEW i \in Ids, NEW edited \in BOOLEAN, SubmitDraft(c, i, edited)
      PROVE  CallTypes'
  <2>1. cases[i] \in Case /\ Opened(cases[i]) \in Case
    BY <1>1, <1>4, CaseWith DEF SubmitDraft, Submittable, Opened
  <2>2. \E p \in Steps : Goto(c, p)
    BY <1>4 DEF SubmitDraft, Steps, Updating
  <2>3. \E d \in Case : held' = [held EXCEPT ![c] = d]
    BY <1>4, <2>1 DEF SubmitDraft
  <2>4. i \in 0..MaxCases
    BY CaseAssumption DEF Ids
  <2> QED
    BY <1>1, <1>4, <2>1, <2>2, <2>3, <2>4, CallTyped DEF SubmitDraft, Goto
<1>5. ASSUME NEW i \in Ids, NEW new \in Case, cases[i] # None, Load(c, i, new)
      PROVE  CallTypes'
  <2>1. i \in 0..MaxCases
    BY CaseAssumption DEF Ids
  <2> QED
    BY <1>1, <1>5, <2>1, CallTyped DEF Load, Goto, Steps, Updating
<1>6. ASSUME NEW i \in Ids,
             \/ UpdateCase(c, i) \/ UpdateAgentSettings(c, i)
             \/ SyncChannelUsers(c, i) \/ MaterializeThreadCase(c, i)
             \/ CloseCase(c, i) \/ ReopenCase(c, i)
             \/ \E b \in Boards \ {"unset"} : UpdateCaseStatus(c, i, b)
      PROVE  CallTypes'
  <2>1. cases[i] # None /\ cases[i] \in Case
    BY <1>1, <1>6 DEF UpdateCase, UpdateAgentSettings, SyncChannelUsers,
       MaterializeThreadCase, CloseCase, ReopenCase, UpdateCaseStatus
  <2>2. \E new \in Case : Load(c, i, new)
    BY <1>6, <2>1, CaseWith, SyncedTyped DEF UpdateCase, UpdateAgentSettings,
       SyncChannelUsers, MaterializeThreadCase, CloseCase, ReopenCase,
       UpdateCaseStatus
  <2> QED
    BY <1>5, <2>1, <2>2
<1>7. ASSUME NEW i \in Ids, BeginAssign(c, i) \/ BeginRemove(c, i)
      PROVE  CallTypes'
  <2>1. i \in 0..MaxCases
    BY CaseAssumption DEF Ids
  <2> QED
    BY <1>1, <1>7, <2>1, CallTyped DEF BeginAssign, BeginRemove, Goto, Steps
<1> QED
  BY <1>2, <1>3, <1>4, <1>6, <1>7 DEF Begin

\* A call that goes on, or dies.
LEMMA ProceedCallTyped ==
  ASSUME IInv, NEW c \in Calls, Proceed(c) \/ Die(c)
  PROVE  CallTypes'
<1>1. /\ TypeOK /\ CallKnows(c) /\ c \in Homes /\ held[c] \in Case
      /\ \A i \in Ids : cases[i] # None => cases[i] \in Case
      /\ pre[c] # None => pre[c] \in Binding
      /\ Nobody \in Case
  BY Fields DEF IInv, CallsKnow
<1>2. ASSUME NEW p \in Steps, Goto(c, p) /\ Going /\ id' = id
      PROVE  CallTypes'
  BY <1>1, <1>2, CallTyped DEF Goto, Going
<1>3. ASSUME NEW p \in Steps, End(c, p), id' = id
      PROVE  CallTypes'
  BY <1>1, <1>3, CallTyped DEF End, Goto, Forget
<1>4. CASE FindRequest(c)
  <2>1. PICK i \in WithKey(held[c].key) :
          /\ id' = [id EXCEPT ![c] = i]
          /\ \/ /\ Goto(c, "activate")
                /\ held' = [held EXCEPT ![c] = cases[i]]
                /\ base' = [base EXCEPT ![c] = cases[i]]
                /\ UNCHANGED pre
             \/ End(c, "done")
    BY <1>4 DEF FindRequest
  <2>2. cases[i] \in Case /\ i \in 0..MaxCases
    BY <1>1, CaseAssumption DEF WithKey, Ids
  <2> QED
    BY <1>1, <2>1, <2>2, CallTyped
    DEF End, Goto, Forget, Steps, Updating, Ended
<1>5. CASE MissRequest(c)
  BY <1>1, <1>2, <1>5 DEF MissRequest, Going, Steps
<1>6. CASE PostRoot(c)
  <2>1. Bound(c, held[c]) \in Case
    BY <1>1, BoundTyped
  <2>2. CASE Goto(c, "take") /\ held' = [held EXCEPT ![c] = Bound(c, held[c])]
               /\ UNCHANGED <<base, pre>>
    BY <1>1, <1>6, <2>1, <2>2, CallTyped DEF PostRoot, Goto, Steps
  <2> QED
    BY <1>1, <1>3, <1>6, <2>2 DEF PostRoot, TypeOK, Steps, Ended
<1>7. CASE TakeId(c)
  <2>1. counter + 1 \in 0..MaxCases
    BY <1>1, <1>7, CaseAssumption DEF TakeId, TypeOK
  <2>2. CASE id' = [id EXCEPT ![c] = counter + 1] /\ Goto(c, "store") /\ Going
    BY <1>1, <2>1, <2>2, CallTyped DEF Goto, Going, Steps
  <2> QED
    BY <1>3, <1>7, <2>2 DEF TakeId, Steps, Ended
<1>8. CASE StoreCase(c)
  <2>1. PICK p \in Steps : \/ End(c, p)
                           \/ /\ Goto(c, p)
                              /\ base' = [base EXCEPT ![c] = held[c]]
                              /\ UNCHANGED <<held, pre>>
    BY <1>8 DEF StoreCase, Steps, Ended
  <2> QED
    BY <1>1, <1>3, <1>8, <2>1, CallTyped DEF StoreCase, Goto
<1>9. CASE Activate(c)
  <2>1. Bound(c, held[c]) \in Case
    BY <1>1, BoundTyped
  <2>2. \E p \in Steps : Goto(c, p)
    BY <1>9 DEF Activate, Cleanup, Steps, Updating
  <2>3. held' = [held EXCEPT ![c] = Bound(c, held[c])] \/ held' = held
    BY <1>1, <1>9 DEF Activate, TypeOK
  <2> QED
    BY <1>1, <1>9, <2>1, <2>2, <2>3, CallTyped DEF Activate, Goto
<1>10. CASE ReadBack(c)
  <2>1. CASE /\ cases[id[c]] # None
             /\ held' = [held EXCEPT ![c] = Unflipped(c)]
             /\ base' = [base EXCEPT ![c] = cases[id[c]]]
             /\ Goto(c, "rollback") /\ UNCHANGED pre
    <3>1. cases[id[c]] \in Case /\ pre[c] \in Binding
      BY <1>1, <1>10, <2>1 DEF ReadBack, CallKnows, AtWork
    <3>2. Unflipped(c) \in Case
      BY <3>1, UnflippedTyped
    <3> QED
      BY <1>1, <1>10, <2>1, <3>1, <3>2, CallTyped
      DEF ReadBack, Goto, Steps, Updating
  <2> QED
    BY <1>3, <1>10, <2>1 DEF ReadBack, Steps, Ended
<1>11. CASE SetDoc(c)
  <2>1. ASSUME NEW p \in Steps, Leave(c, p) PROVE CallTypes'
    BY <1>2, <1>3, <1>11, <2>1 DEF Leave, SetDoc
  <2>2. ASSUME Continue(c) PROVE CallTypes'
    <3>1. CASE pc[c] = "patch"
      <4>1. Opened(held[c]) \in Case
        BY <1>1, CaseWith DEF Opened
      <4>2. CASE /\ Goto(c, "flip")
                 /\ base' = [base EXCEPT ![c] = held[c]]
                 /\ held' = [held EXCEPT ![c] = Opened(held[c])]
                 /\ UNCHANGED pre
        BY <1>1, <1>11, <4>1, <4>2, CallTyped
        DEF SetDoc, Goto, Steps, Updating
      <4> QED
        BY <1>1, <1>3, <1>11, <2>2, <3>1, <4>2
        DEF Continue, SetDoc, Steps, Ended, TypeOK
    <3>2. CASE pc[c] = "flip"
      <4>1. [home |-> held[c].home, board |-> held[c].board] \in Binding
        BY <1>1, CaseFields DEF Binding
      <4>2. /\ Goto(c, "activate")
            /\ base' = [base EXCEPT ![c] = held[c]]
            /\ pre' = [pre EXCEPT ![c] = [home |-> held[c].home,
                                          board |-> held[c].board]]
            /\ UNCHANGED held
        BY <2>2, <3>2 DEF Continue
      <4> QED
        BY <1>1, <1>11, <4>1, <4>2, CallTyped DEF SetDoc, Goto, Steps
    <3>3. CASE pc[c] \notin {"patch", "flip"}
      <4>1. \/ End(c, "failed") \/ End(c, "done")
            \/ Goto(c, "publish") /\ Going
        BY <2>2, <3>3 DEF Continue
      <4> QED
        BY <1>2, <1>3, <1>11, <4>1 DEF SetDoc, Steps, Ended
    <3> QED
      BY <3>1, <3>2, <3>3
  <2>3. AfterLostResponse(c) \in Steps /\ AfterFailure(c) \in Steps
    BY DEF AfterLostResponse, AfterFailure, Cleanup, Steps, Ended
  <2> QED
    BY <1>11, <2>1, <2>2, <2>3 DEF SetDoc
<1>12. CASE CheckExists(c)
  <2>1. AfterFailure(c) \in Steps
    BY DEF AfterFailure, Cleanup, Steps, Ended
  <2>2. ASSUME Leave(c, AfterFailure(c)) PROVE CallTypes'
    BY <1>2, <1>3, <1>12, <2>1, <2>2 DEF Leave, CheckExists
  <2>3. ASSUME UNCHANGED <<pc, held, base, pre>> PROVE CallTypes'
    BY <1>1, <1>12, <2>3 DEF CheckExists, CallTypes, TypeOK
  <2> QED
    BY <1>12, <2>2, <2>3 DEF CheckExists
<1>13. ASSUME \/ Undo(c) \/ Publish(c) \/ AssignFails(c) \/ Remove(c) \/ Die(c)
              \/ \E who \in SUBSET Users, add \in BOOLEAN : Assign(c, who, add)
       PROVE  CallTypes'
  <2>1. id' = id /\ \E p \in Ended : End(c, p)
    BY <1>13
    DEF Undo, Publish, AssignFails, Remove, Die, Assign, Ended
  <2> QED
    BY <1>3, <2>1 DEF Steps
<1> QED
  BY <1>4, <1>5, <1>6, <1>7, <1>8, <1>9, <1>10, <1>11, <1>12, <1>13
  DEF Proceed
-----------------------------------------------------------------------------
(***************************************************************************)
(* What a step leaves alone, and what it writes.                           *)
(***************************************************************************)

\* A step is one call's, and touches the entries of no other.
OthersKept(c) ==
  \A e \in Calls \ {c} :
    /\ pc'[e] = pc[e] /\ id'[e] = id[e] /\ prior'[e] = prior[e]
    /\ held'[e] = held[e] /\ base'[e] = base[e] /\ pre'[e] = pre[e]

\* A call that begins or goes on touches its own entries only.
LEMMA OwnEntries ==
  ASSUME TypeOK, NEW c \in Calls, Step(c)
  PROVE  OthersKept(c)
<1>1. CASE Begin(c)
  <2>1. ASSUME NEW who, NEW key, CreateCase(c, key, who) \/ CreateDraft(c, who)
        PROVE  OthersKept(c)
    BY <2>1 DEF OthersKept, CreateCase, CreateDraft, Goto, TypeOK
  <2>2. ASSUME NEW i, NEW edited, SubmitDraft(c, i, edited)
        PROVE  OthersKept(c)
    BY <2>2 DEF OthersKept, SubmitDraft, Goto, TypeOK
  <2>3. ASSUME NEW i, NEW new, Load(c, i, new) PROVE OthersKept(c)
    BY <2>3 DEF OthersKept, Load, Goto, TypeOK
  <2>4. ASSUME NEW i, BeginAssign(c, i) \/ BeginRemove(c, i)
        PROVE  OthersKept(c)
    BY <2>4 DEF OthersKept, BeginAssign, BeginRemove, Goto, TypeOK
  <2> QED
    BY <1>1, <2>1, <2>2, <2>3, <2>4 DEF Begin, UpdateCase,
       UpdateAgentSettings, SyncChannelUsers, MaterializeThreadCase, CloseCase,
       ReopenCase, UpdateCaseStatus
<1>2. CASE SetDoc(c)
  <2>1. \A p \in Steps : Leave(c, p) => OthersKept(c)
    BY <1>2 DEF SetDoc, OthersKept, Leave, Goto, Going, End, Forget, TypeOK
  <2>2. Continue(c) => OthersKept(c)
    BY <1>2 DEF SetDoc, OthersKept, Continue, Goto, Going, End, Forget, TypeOK
  <2>3. AfterLostResponse(c) \in Steps /\ AfterFailure(c) \in Steps
    BY DEF AfterLostResponse, AfterFailure, Cleanup, Steps, Ended
  <2> QED
    BY <1>2, <2>1, <2>2, <2>3 DEF SetDoc
<1>3. CASE Proceed(c) \/ Die(c)
  BY <1>2, <1>3 DEF OthersKept, Proceed, FindRequest, MissRequest, PostRoot,
     TakeId, StoreCase, Undo, Activate, ReadBack, Publish, Assign, AssignFails,
     Remove, CheckExists, Die, Leave, Goto, Going, End, Forget, TypeOK
<1> QED
  BY <1>1, <1>3 DEF Step

\* What a call makes of the case it is about.
Writes(c, doc) == id[c] \in Ids /\ cases' = [cases EXCEPT ![id[c]] = doc]

Deletes(c) ==
  /\ pc[c] \in {"undo", "remove"} /\ pc'[c] \in Ended
  /\ Writes(c, None) /\ UNCHANGED <<want, stale>>

Stores(c) ==
  /\ pc[c] = "store" /\ Writes(c, held[c])
  /\ want' = [want EXCEPT ![id[c]] = held[c].assignees]
  /\ UNCHANGED stale

Assigns(c) ==
  /\ pc[c] = "transact" /\ cases[id[c]] # None
  /\ \E who \in SUBSET Users, add \in BOOLEAN :
       LET changed(s) == IF add THEN s \cup who ELSE s \ who
       IN /\ Writes(c, [cases[id[c]] EXCEPT !.assignees = changed(@)])
          /\ want' = [want EXCEPT ![id[c]] = changed(@)]
  /\ UNCHANGED stale

Overwrites(c) ==
  /\ pc[c] \in Updating /\ Writes(c, held[c])
  /\ stale' = IF cases[id[c]] = base[c] THEN stale ELSE stale \cup {id[c]}
  /\ UNCHANGED want

\* Whatever a step stores, it is one of these.
LEMMA StepWrites ==
  ASSUME IInv, NEW c \in Calls, Step(c)
  PROVE  \/ UNCHANGED <<cases, want, stale>>
         \/ Deletes(c) \/ Stores(c) \/ Assigns(c) \/ Overwrites(c)
<1>1. TypeOK /\ (pc[c] \in AtWork => id[c] \in Ids)
  BY DEF IInv, CallsKnow, CallKnows
<1>2. CASE Begin(c)
  BY <1>2 DEF Begin, CreateCase, CreateDraft, SubmitDraft, UpdateCase,
     UpdateAgentSettings, SyncChannelUsers, MaterializeThreadCase, CloseCase,
     ReopenCase, UpdateCaseStatus, Load, BeginAssign, BeginRemove, store,
     history
<1>3. CASE StoreCase(c)
  BY <1>1, <1>3 DEF StoreCase, Stores, Writes, AtWork
<1>4. CASE Undo(c)
  BY <1>1, <1>4
  DEF Undo, Deletes, Writes, AtWork, history, End, Goto, Ended, TypeOK
<1>5. CASE Remove(c)
  BY <1>1, <1>5
  DEF Remove, Deletes, Writes, AtWork, history, End, Goto, Ended, TypeOK
<1>6. ASSUME NEW who \in SUBSET Users, NEW add \in BOOLEAN, Assign(c, who, add)
      PROVE  Assigns(c)
  BY <1>1, <1>6 DEF Assign, TransactOn, Assigns, Writes, AtWork
<1>7. CASE SetDoc(c)
  BY <1>1, <1>7 DEF SetDoc, Overwrites, Writes, AtWork
<1>8. CASE Proceed(c) \/ Die(c)
  BY <1>3, <1>4, <1>5, <1>6, <1>7, <1>8 DEF Proceed, FindRequest, MissRequest,
     PostRoot, TakeId, Activate, ReadBack, Publish, AssignFails, CheckExists,
     Die, store, history
<1> QED
  BY <1>2, <1>8 DEF Step

\* Every variable keeps its type; the mode stays, and ids are not handed out
\* again.
LEMMA TypeStep ==
  ASSUME IInv, NEW c \in Calls, Step(c)
  PROVE  TypeOK' /\ mode' = mode /\ counter <= counter'
<1>1. /\ TypeOK /\ c \in Homes /\ held[c] \in Case
      /\ \A i \in Ids : cases[i] # None => cases[i] \in Case
  BY Fields DEF IInv
<1>2. CallTypes'
  BY BeginCallTyped, ProceedCallTyped DEF Step
<1>3. /\ cases' \in [Ids -> Case \cup {None}] /\ want' \in [Ids -> SUBSET Users]
      /\ stale' \in SUBSET Ids
  <2>1. CASE UNCHANGED <<cases, want, stale>>
    BY <1>1, <2>1 DEF TypeOK
  <2>2. CASE Deletes(c) \/ Overwrites(c)
    BY <1>1, <2>2 DEF Deletes, Overwrites, Writes, TypeOK
  <2>3. CASE Stores(c)
    BY <1>1, <2>3, CaseFields DEF Stores, Writes, TypeOK
  <2>4. CASE Assigns(c)
    <3>1. PICK who \in SUBSET Users, add \in BOOLEAN :
            LET changed(s) == IF add THEN s \cup who ELSE s \ who
            IN /\ Writes(c, [cases[id[c]] EXCEPT
                               !.assignees = changed(cases[id[c]].assignees)])
               /\ want' = [want EXCEPT ![id[c]] = changed(want[id[c]])]
      BY <1>1, <2>4 DEF Assigns, Writes, TypeOK, Case
    <3>2. id[c] \in Ids /\ cases[id[c]] \in Case
      BY <1>1, <2>4 DEF Assigns, Writes
    <3>3. \A s \in SUBSET Users :
            [cases[id[c]] EXCEPT !.assignees = s] \in Case
      BY <3>2 DEF Case
    <3>4. cases[id[c]].assignees \in SUBSET Users /\ want[id[c]] \in SUBSET Users
      BY <1>1, <3>2, CaseFields DEF TypeOK
    <3> QED
      BY <1>1, <2>4, <3>1, <3>2, <3>3, <3>4 DEF Assigns, Writes, TypeOK
  <2> QED
    BY <2>1, <2>2, <2>3, <2>4, StepWrites
<1>4. /\ mode' = mode
      /\ deed' \in [Calls -> {"none", "created", "closed", "reopened"}]
      /\ prior' \in [Calls -> SUBSET Calls]
  <2>1. mode' = mode
    BY DEF TypeOK, Step, Begin, CreateCase, CreateDraft, SubmitDraft,
       UpdateCase, UpdateAgentSettings, SyncChannelUsers,
       MaterializeThreadCase, CloseCase, ReopenCase, UpdateCaseStatus, Load,
       BeginAssign, BeginRemove, Proceed, FindRequest, MissRequest, PostRoot,
       TakeId, StoreCase, Undo, Activate, ReadBack, Publish, Assign,
       AssignFails, Remove, CheckExists, SetDoc, Die
  <2>2. deed' = deed \/ \E d \in {"created", "closed", "reopened"} :
                        deed' = [deed EXCEPT ![c] = d]
    BY DEF TypeOK, Step, Begin, CreateCase, CreateDraft, SubmitDraft,
       UpdateCase, UpdateAgentSettings, SyncChannelUsers,
       MaterializeThreadCase, CloseCase, ReopenCase, UpdateCaseStatus, Load,
       BeginAssign, BeginRemove, Proceed, FindRequest, MissRequest, PostRoot,
       TakeId, StoreCase, Undo, Activate, ReadBack, Publish, Assign,
       AssignFails, Remove, CheckExists, SetDoc, Die
  <2>3. prior' = prior \/ \E ds \in SUBSET Calls :
                          prior' = [prior EXCEPT ![c] = ds]
    BY DEF TypeOK, Step, Begin, CreateCase, CreateDraft, SubmitDraft,
       UpdateCase, UpdateAgentSettings, SyncChannelUsers,
       MaterializeThreadCase, CloseCase, ReopenCase, UpdateCaseStatus, Load,
       BeginAssign, BeginRemove, Proceed, FindRequest, MissRequest, PostRoot,
       TakeId, StoreCase, Undo, Activate, ReadBack, Publish, Assign,
       AssignFails, Remove, CheckExists, SetDoc, Die
  <2> QED
    BY <1>1, <2>1, <2>2, <2>3 DEF TypeOK
<1>5. checked' \in [Calls -> BOOLEAN]
  BY <1>1 DEF TypeOK, Step, Begin, CreateCase, CreateDraft, SubmitDraft,
     UpdateCase, UpdateAgentSettings, SyncChannelUsers, MaterializeThreadCase,
     CloseCase, ReopenCase, UpdateCaseStatus, Load, BeginAssign, BeginRemove,
     Proceed, FindRequest, MissRequest, PostRoot, TakeId, StoreCase, Undo,
     Activate, ReadBack, Publish, Assign, AssignFails, Remove, CheckExists,
     SetDoc, Die
<1>6. counter' \in 0..MaxCases /\ counter <= counter'
  <2>1. counter \in Nat /\ MaxCases \in Nat
    BY <1>1, CaseAssumption DEF TypeOK
  <2>2. \/ counter' = counter
        \/ counter' = counter + 1 /\ counter < MaxCases
    BY DEF Step, Begin, CreateCase, CreateDraft, SubmitDraft,
     UpdateCase, UpdateAgentSettings, SyncChannelUsers, MaterializeThreadCase,
     CloseCase, ReopenCase, UpdateCaseStatus, Load, BeginAssign, BeginRemove,
     Proceed, FindRequest, MissRequest, PostRoot, TakeId, StoreCase, Undo,
     Activate, ReadBack, Publish, Assign, AssignFails, Remove, CheckExists,
     SetDoc, Die, store
  <2> QED
    BY <1>1, <2>1, <2>2 DEF TypeOK
<1>7. faults' \in 0..MaxFaults
  <2>1. faults \in 0..MaxFaults /\ MaxFaults \in Nat
    BY <1>1, CaseAssumption DEF TypeOK
  <2>2. Fault \/ faults' = faults
    BY DEF Step, Begin, CreateCase, CreateDraft, SubmitDraft,
     UpdateCase, UpdateAgentSettings, SyncChannelUsers, MaterializeThreadCase,
     CloseCase, ReopenCase, UpdateCaseStatus, Load, BeginAssign, BeginRemove,
     Proceed, FindRequest, MissRequest, PostRoot, TakeId, StoreCase, Undo,
     Activate, ReadBack, Publish, Assign, AssignFails, Remove, CheckExists,
     SetDoc, Die
  <2> QED
    BY <2>1, <2>2 DEF Fault
<1> QED
  BY <1>1, <1>2, <1>3, <1>4, <1>5, <1>6, <1>7 DEF TypeOK, CallTypes
-----------------------------------------------------------------------------
(***************************************************************************)
(* What calls know.                                                        *)
(***************************************************************************)

\* A call that ended knows nothing but its id.
LEMMA EndKnows ==
  ASSUME TypeOK, NEW c \in Calls, NEW p \in Ended, End(c, p),
         id'[c] <= counter'
  PROVE  CallKnows(c)'
<1>1. /\ pc'[c] = p /\ held'[c] = Nobody /\ pre'[c] = None
  BY DEF End, Goto, Forget, TypeOK
<1> QED
  BY <1>1, NobodyTyped DEF CallKnows, Ended, AtWork, Updating, Unbound

\* A call that begins knows what its first step needs.
LEMMA BeginKnows ==
  ASSUME IInv, NEW c \in Calls, Begin(c), TypeOK'
  PROVE  CallKnows(c)'
<1>1. /\ TypeOK /\ CallKnows(c) /\ id[c] \in Nat /\ counter \in Nat
      /\ \A i \in Ids : cases[i] # None => /\ cases[i] \in Case
                                           /\ Unbound(cases[i])
                                           /\ i <= counter
  BY Fields DEF IInv, CallsKnow, IdsFresh, DraftUnbound, Unbound
<1>2. pc[c] = "idle" /\ counter' = counter /\ pre' = pre /\ mode' = mode
  BY <1>1 DEF Begin, CreateCase, CreateDraft, SubmitDraft, UpdateCase,
     UpdateAgentSettings, SyncChannelUsers, MaterializeThreadCase, CloseCase,
     ReopenCase, UpdateCaseStatus, Load, BeginAssign, BeginRemove, store
<1>3. ASSUME NEW key \in Keys \cup {None}, NEW who \in SUBSET Users,
             CreateCase(c, key, who)
      PROVE  CallKnows(c)'
  <2>1. /\ held'[c] = NewCase("OPEN", who, key) /\ id'[c] = id[c]
        /\ \/ pc'[c] = "lookup"
           \/ pc'[c] = "take" /\ Channel
           \/ pc'[c] = "post" /\ ~Channel
    BY <1>1, <1>3 DEF CreateCase, Goto, TypeOK
  <2> QED
    BY <1>1, <1>2, <2>1, NewTyped
    DEF CallKnows, AtWork, Updating, Unbound, Channel
<1>4. ASSUME NEW who \in SUBSET Users, CreateDraft(c, who)
      PROVE  CallKnows(c)'
  <2>1. /\ held'[c] = NewCase("DRAFT", who, None) /\ id'[c] = id[c]
        /\ pc'[c] = "take"
    BY <1>1, <1>4 DEF CreateDraft, Goto, TypeOK
  <2> QED
    BY <1>1, <1>2, <2>1, NewTyped DEF CallKnows, AtWork, Updating, Unbound
<1>5. ASSUME NEW i \in Ids, NEW edited \in BOOLEAN, SubmitDraft(c, i, edited)
      PROVE  CallKnows(c)'
  <2>1. cases[i] \in Case /\ cases[i].status = "DRAFT" /\ i <= counter
          /\ Unbound(cases[i])
    BY <1>1, <1>5 DEF SubmitDraft, Submittable
  <2>2. /\ Opened(cases[i]) \in Case /\ Opened(cases[i]).status = "OPEN"
        /\ Opened(cases[i]).assignees = cases[i].assignees
        /\ Opened(cases[i]).key = cases[i].key
    BY <2>1, CaseWith DEF Opened
  <2>3. /\ id'[c] = i /\ base'[c] = cases[i]
        /\ \/ pc'[c] = "patch" /\ held'[c] = cases[i]
           \/ pc'[c] = "flip" /\ held'[c] = Opened(cases[i])
    BY <1>1, <1>5 DEF SubmitDraft, Goto, TypeOK
  <2>4. cases[i].home = None
    BY <2>1 DEF Unbound
  <2>5. CASE pc'[c] = "patch" /\ held'[c] = cases[i]
    BY <1>1, <1>2, <2>1, <2>3, <2>5 DEF CallKnows, AtWork, Updating
  <2>6. CASE pc'[c] = "flip" /\ held'[c] = Opened(cases[i])
    <3>1. Opened(cases[i]).home = None
      BY <2>1, <2>4, CaseWith DEF Opened
    <3> QED
      BY <1>1, <1>2, <2>1, <2>2, <2>3, <2>6, <3>1
      DEF CallKnows, AtWork, Updating, Unbound
  <2> QED
    BY <2>3, <2>5, <2>6
<1>6. ASSUME NEW i \in Ids, NEW new \in Case, cases[i] # None, Load(c, i, new),
             /\ new.home = cases[i].home /\ new.assignees = cases[i].assignees
             /\ new.key = cases[i].key
             /\ new.status = "DRAFT" <=> cases[i].status = "DRAFT"
      PROVE  CallKnows(c)'
  <2>1. /\ id'[c] = i /\ base'[c] = cases[i] /\ held'[c] = new
        /\ pc'[c] = "write"
    BY <1>1, <1>6 DEF Load, Goto, TypeOK
  <2> QED
    BY <1>1, <1>2, <1>6, <2>1 DEF CallKnows, AtWork, Updating, Unbound
<1>7. ASSUME NEW i \in Ids,
             \/ UpdateCase(c, i) \/ UpdateAgentSettings(c, i)
             \/ SyncChannelUsers(c, i) \/ MaterializeThreadCase(c, i)
      PROVE  CallKnows(c)'
  <2>1. cases[i] # None /\ Load(c, i, cases[i])
    BY <1>7 DEF UpdateCase, UpdateAgentSettings, SyncChannelUsers,
       MaterializeThreadCase
  <2> QED
    BY <1>1, <1>6, <2>1
<1>8. ASSUME NEW i \in Ids, CloseCase(c, i) \/ ReopenCase(c, i)
      PROVE  CallKnows(c)'
  <2>1. /\ cases[i] # None /\ cases[i] \in Case /\ cases[i].status # "DRAFT"
        /\ \E s \in {"OPEN", "CLOSED"} :
             Load(c, i, [cases[i] EXCEPT !.status = s])
    BY <1>1, <1>8 DEF CloseCase, ReopenCase
  <2>2. PICK s \in {"OPEN", "CLOSED"} :
          Load(c, i, [cases[i] EXCEPT !.status = s])
    BY <2>1
  <2> DEFINE new == [cases[i] EXCEPT !.status = s]
  <2>3. /\ new \in Case /\ new.status = s /\ new.home = cases[i].home
        /\ new.assignees = cases[i].assignees /\ new.key = cases[i].key
    BY <2>1 DEF Case
  <2> HIDE DEF new
  <2>4. Load(c, i, new)
    BY <2>2 DEF new
  <2> QED
    BY <1>6, <2>1, <2>3, <2>4
<1>9. ASSUME NEW i \in Ids, NEW b \in Boards, UpdateCaseStatus(c, i, b)
      PROVE  CallKnows(c)'
  <2> DEFINE new == Synced([cases[i] EXCEPT !.board = b])
  <2>1. cases[i] # None /\ cases[i] \in Case /\ Load(c, i, new)
    BY <1>1, <1>9 DEF UpdateCaseStatus
  <2>2. /\ new \in Case /\ new.home = cases[i].home
        /\ new.assignees = cases[i].assignees /\ new.key = cases[i].key
        /\ new.status = "DRAFT" <=> cases[i].status = "DRAFT"
    BY <2>1, SyncedTyped
  <2> HIDE DEF new
  <2> QED
    BY <1>6, <2>1, <2>2
<1>10. ASSUME NEW i \in Ids, BeginAssign(c, i) \/ BeginRemove(c, i)
       PROVE  CallKnows(c)'
  <2>1. /\ id'[c] = i /\ held'[c] = held[c] /\ i <= counter
        /\ pc'[c] \in {"transact", "remove"}
    BY <1>1, <1>10 DEF BeginAssign, BeginRemove, Goto, TypeOK
  <2> QED
    BY <1>1, <1>2, <1>10, <2>1 DEF CallKnows, AtWork, Updating
<1> QED
  BY <1>3, <1>4, <1>5, <1>7, <1>8, <1>9, <1>10 DEF Begin

\* A call that goes on knows what its next step needs.
LEMMA ProceedKnows ==
  ASSUME IInv, NEW c \in Calls, Proceed(c) \/ Die(c), TypeOK', mode' = mode,
         counter <= counter'
  PROVE  CallKnows(c)'
<1>1. /\ TypeOK /\ CallKnows(c) /\ c \in Homes /\ c # None
      /\ held[c] \in Case /\ base[c] \in Case /\ Unbound(held[c])
      /\ id[c] \in Nat /\ counter \in Nat /\ counter' \in Nat
      /\ id[c] <= counter'
      /\ pre[c] # None => pre[c] \in Binding /\ pre[c].home = None
      /\ \A i \in Ids : cases[i] # None => /\ cases[i] \in Case
                                           /\ Unbound(cases[i])
                                           /\ i <= counter
      /\ Ids \subseteq Nat
  <2>1. id[c] <= counter /\ id[c] \in Nat /\ counter \in Nat
    BY Fields DEF IInv, CallsKnow, CallKnows
  <2>2. counter' \in Nat
    BY CaseAssumption DEF TypeOK
  <2> QED
    BY <2>1, <2>2, Fields, CaseAssumption
    DEF IInv, CallsKnow, CallKnows, IdsFresh, DraftUnbound, Unbound, Ids
<1>2. ASSUME NEW p \in Ended, End(c, p), id' = id
      PROVE  CallKnows(c)'
  BY <1>1, <1>2, EndKnows
<1>3. CASE FindRequest(c)
  <2>1. PICK i \in WithKey(held[c].key) :
          /\ id' = [id EXCEPT ![c] = i]
          /\ \/ /\ cases[i].status = "OPEN" /\ cases[i].home = None
                /\ Goto(c, "activate")
                /\ held' = [held EXCEPT ![c] = cases[i]]
                /\ base' = [base EXCEPT ![c] = cases[i]]
                /\ UNCHANGED pre
             \/ End(c, "done")
    BY <1>3 DEF FindRequest
  <2>2. cases[i] \in Case /\ i \in Ids /\ i <= counter /\ Unbound(cases[i])
    BY <1>1 DEF WithKey
  <2>3. id'[c] = i /\ counter' = counter
    BY <1>1, <1>3, <2>1 DEF TypeOK, FindRequest, store
  <2>4. CASE End(c, "done")
    BY <1>1, <2>2, <2>3, <2>4, EndKnows DEF Ended
  <2>5. CASE /\ cases[i].status = "OPEN" /\ cases[i].home = None
             /\ Goto(c, "activate")
             /\ held' = [held EXCEPT ![c] = cases[i]]
             /\ base' = [base EXCEPT ![c] = cases[i]]
             /\ UNCHANGED pre
    <3>1. pc'[c] = "activate" /\ held'[c] = cases[i] /\ base'[c] = cases[i]
            /\ pre'[c] = pre[c]
      BY <1>1, <2>5 DEF Goto, TypeOK
    <3> QED
      BY <1>1, <2>2, <2>3, <2>5, <3>1 DEF CallKnows, AtWork, Updating
  <2> QED
    BY <2>1, <2>4, <2>5
<1>4. CASE MissRequest(c)
  <2>1. /\ \/ pc'[c] = "take" /\ Channel
           \/ pc'[c] = "post" /\ ~Channel
        /\ held' = held /\ id' = id /\ pre' = pre /\ pc[c] = "lookup"
    BY <1>1, <1>4 DEF MissRequest, Goto, TypeOK
  <2> QED
    BY <1>1, <2>1 DEF CallKnows, AtWork, Updating, Channel
<1>5. CASE PostRoot(c)
  <2>1. CASE Goto(c, "take") /\ held' = [held EXCEPT ![c] = Bound(c, held[c])]
             /\ UNCHANGED <<base, pre>>
    <3>1. pc[c] = "post" /\ pc'[c] = "take" /\ held'[c] = Bound(c, held[c])
            /\ pre' = pre /\ id' = id
      BY <1>1, <1>5, <2>1 DEF PostRoot, Goto, TypeOK
    <3> QED
      BY <1>1, <3>1, BoundTyped
      DEF CallKnows, AtWork, Updating, Unbound, Channel
  <2> QED
    BY <1>2, <1>5, <2>1 DEF PostRoot, Ended
<1>6. CASE TakeId(c)
  <2>1. CASE id' = [id EXCEPT ![c] = counter + 1] /\ counter' = counter + 1
               /\ Goto(c, "store") /\ Going
    <3>1. id'[c] = counter + 1 /\ pc'[c] = "store" /\ pc[c] = "take"
            /\ held' = held /\ pre' = pre /\ counter + 1 \in Ids
      BY <1>1, <1>6, <2>1, CaseAssumption DEF TakeId, Goto, Going, TypeOK, Ids
    <3>2. id'[c] \in Ids /\ id'[c] <= counter'
      BY <1>1, <2>1, <3>1
    <3> QED
      BY <1>1, <3>1, <3>2 DEF CallKnows, AtWork, Updating, Channel, Unbound
  <2> QED
    BY <1>2, <1>6, <2>1 DEF TakeId, Ended
<1>7. CASE StoreCase(c)
  <2>1. CASE /\ Goto(c, IF Channel THEN "activate" ELSE "publish")
             /\ held[c].status # "DRAFT"
             /\ base' = [base EXCEPT ![c] = held[c]]
             /\ UNCHANGED <<held, pre>>
    <3>1. /\ pc'[c] = IF Channel THEN "activate" ELSE "publish"
          /\ base'[c] = held[c]
          /\ held' = held /\ pre' = pre /\ id' = id /\ pc[c] = "store"
      BY <1>1, <1>7, <2>1 DEF StoreCase, Goto, TypeOK
    <3>2. /\ held[c].status = "OPEN" /\ id[c] \in Ids
          /\ held[c].home = None <=> Channel
      BY <1>1, <2>1, <3>1 DEF CallKnows, AtWork
    <3>3. CASE Channel
      <4>1. pc'[c] = "activate" /\ held[c].home = None
        BY <3>1, <3>2, <3>3
      <4> QED
        BY <1>1, <3>1, <3>2, <4>1 DEF CallKnows, AtWork, Updating
    <3>4. CASE ~Channel
      <4>1. pc'[c] = "publish"
        BY <3>1, <3>4
      <4> QED
        BY <1>1, <3>1, <3>2, <4>1 DEF CallKnows, AtWork, Updating
    <3> QED
      BY <3>3, <3>4
  <2> QED
    BY <1>2, <1>7, <2>1 DEF StoreCase, Ended
<1>8. CASE Activate(c)
  <2>1. id' = id /\ base' = base /\ pre' = pre /\ id[c] \in Ids
          /\ held[c].status = "OPEN" /\ held[c].assignees = base[c].assignees
          /\ held[c].key = base[c].key
          /\ base[c].status = "OPEN" /\ base[c].home = None
    BY <1>1, <1>8 DEF Activate, CallKnows, AtWork
  <2>2. CASE Goto(c, "bind") /\ held' = [held EXCEPT ![c] = Bound(c, held[c])]
    <3>1. pc'[c] = "bind" /\ held'[c] = Bound(c, held[c])
      BY <1>1, <2>2 DEF Goto, TypeOK
    <3> QED
      BY <1>1, <2>1, <3>1, BoundTyped DEF CallKnows, AtWork, Updating, Unbound
  <2>3. CASE Goto(c, Cleanup(c)) /\ UNCHANGED held
    <3>1. /\ pc'[c] \in {"readback", "undo"} /\ held' = held
          /\ pc'[c] = "readback" => pre[c] # None
      BY <1>1, <2>3 DEF Goto, Cleanup, TypeOK
    <3> QED
      BY <1>1, <2>1, <3>1 DEF CallKnows, AtWork, Updating
  <2> QED
    BY <1>8, <2>2, <2>3 DEF Activate
<1>9. CASE ReadBack(c)
  <2>1. CASE /\ cases[id[c]] # None
             /\ held' = [held EXCEPT ![c] = Unflipped(c)]
             /\ base' = [base EXCEPT ![c] = cases[id[c]]]
             /\ Goto(c, "rollback") /\ UNCHANGED pre
    <3>1. id[c] \in Ids /\ cases[id[c]] \in Case /\ pre[c] \in Binding
            /\ pre[c].home = None
      BY <1>1, <1>9, <2>1 DEF ReadBack, CallKnows, AtWork
    <3>2. /\ pc'[c] = "rollback" /\ held'[c] = Unflipped(c)
          /\ base'[c] = cases[id[c]] /\ pre' = pre /\ id' = id
      BY <1>1, <1>9, <2>1 DEF ReadBack, Goto, TypeOK
    <3> QED
      BY <1>1, <3>1, <3>2, UnflippedTyped
      DEF CallKnows, AtWork, Updating, Unbound
  <2> QED
    BY <1>2, <1>9, <2>1 DEF ReadBack, Ended
<1>10. CASE CheckExists(c)
  <2>1. pc[c] \in Updating /\ id' = id /\ id[c] \in Ids
    BY <1>1, <1>10 DEF CheckExists, CallKnows, AtWork
  <2>2. CASE UNCHANGED <<pc, held, base, pre>>
    BY <1>1, <2>1, <2>2 DEF CallKnows, Channel
  <2>3. CASE Leave(c, AfterFailure(c))
    <3>1. CASE pc[c] = "bind"
      <4>1. /\ pc'[c] \in {"readback", "undo"} /\ held' = held /\ pre' = pre
            /\ pc'[c] = "readback" => pre[c] # None
        BY <1>1, <2>3, <3>1 DEF Leave, AfterFailure, Cleanup, Goto, Going,
           Ended, TypeOK
      <4> QED
        BY <1>1, <2>1, <4>1 DEF CallKnows, AtWork, Updating
    <3>2. CASE pc[c] # "bind"
      BY <1>2, <2>1, <2>3, <3>2 DEF Leave, AfterFailure, Ended
    <3> QED
      BY <3>1, <3>2
  <2> QED
    BY <1>10, <2>2, <2>3 DEF CheckExists
<1>11. CASE SetDoc(c)
  <2>1. pc[c] \in Updating /\ id' = id /\ id[c] \in Ids
    BY <1>1, <1>11 DEF SetDoc, CallKnows, AtWork
  <2>2. ASSUME Leave(c, Cleanup(c)) PROVE CallKnows(c)'
    <3>1. /\ pc'[c] \in {"readback", "undo"} /\ held' = held /\ pre' = pre
          /\ pc'[c] = "readback" => pre[c] # None
      BY <1>1, <2>2 DEF Leave, Cleanup, Goto, Going, Ended, TypeOK
    <3> QED
      BY <1>1, <2>1, <3>1 DEF CallKnows, AtWork, Updating
  <2>3. ASSUME NEW p \in {"failed", "lost"}, Leave(c, p) PROVE CallKnows(c)'
    BY <1>2, <2>1, <2>3 DEF Leave, Ended
  <2>4. CASE Continue(c) /\ pc[c] = "patch"
    <3>1. CASE /\ Goto(c, "flip")
               /\ base' = [base EXCEPT ![c] = held[c]]
               /\ held' = [held EXCEPT ![c] = Opened(held[c])]
               /\ UNCHANGED pre
      <4>1. /\ pc'[c] = "flip" /\ base'[c] = held[c]
            /\ held'[c] = Opened(held[c]) /\ pre' = pre
        BY <1>1, <3>1 DEF Goto, TypeOK
      <4>2. /\ Opened(held[c]).status = "OPEN"
            /\ Opened(held[c]).assignees = held[c].assignees
            /\ Opened(held[c]).key = held[c].key
            /\ Opened(held[c]).home = held[c].home
        BY <1>1, CaseWith DEF Opened
      <4>3. held[c].home = None
        BY <1>1, <2>4 DEF CallKnows, Unbound
      <4> QED
        BY <1>1, <2>1, <4>1, <4>2, <4>3 DEF CallKnows, AtWork, Updating, Unbound
    <3> QED
      BY <1>2, <2>1, <2>4, <3>1 DEF Continue, Ended
  <2>5. CASE Continue(c) /\ pc[c] = "flip"
    <3>1. /\ Goto(c, "activate")
          /\ base' = [base EXCEPT ![c] = held[c]]
          /\ pre' = [pre EXCEPT ![c] = [home |-> held[c].home,
                                        board |-> held[c].board]]
          /\ UNCHANGED held
      BY <2>5 DEF Continue
    <3>2. /\ pc'[c] = "activate" /\ base'[c] = held[c] /\ held' = held
          /\ pre'[c].home = held[c].home
      BY <1>1, <3>1 DEF Goto, TypeOK
    <3>3. /\ held[c].status = "OPEN" /\ held[c].home = None
          /\ pre'[c].home = None /\ held'[c] = held[c] /\ id'[c] = id[c]
          /\ base'[c] = held'[c] /\ Unbound(held[c])'
      BY <1>1, <2>1, <2>5, <3>2 DEF CallKnows, Unbound
    <3> QED
      BY <1>1, <2>1, <3>2, <3>3 DEF CallKnows, AtWork, Updating
  <2>6. CASE Continue(c) /\ pc[c] \notin {"patch", "flip"}
    <3>1. \/ End(c, "failed") \/ End(c, "done")
          \/ Goto(c, "publish") /\ Going
      BY <2>6 DEF Continue
    <3>2. CASE Goto(c, "publish") /\ Going
      <4>1. pc'[c] = "publish" /\ held' = held /\ pre' = pre
        BY <1>1, <3>2 DEF Goto, Going, TypeOK
      <4> QED
        BY <1>1, <2>1, <4>1 DEF CallKnows, AtWork, Updating
    <3> QED
      BY <1>2, <2>1, <3>1, <3>2 DEF Ended
  <2>7. /\ AfterFailure(c) \in {Cleanup(c), "failed", "lost"}
        /\ AfterLostResponse(c) \in {Cleanup(c), "failed", "lost"}
    BY DEF AfterFailure, AfterLostResponse
  <2> QED
    BY <1>11, <2>2, <2>3, <2>4, <2>5, <2>6, <2>7 DEF SetDoc
<1>12. ASSUME \/ Undo(c) \/ Publish(c) \/ AssignFails(c) \/ Remove(c) \/ Die(c)
              \/ \E who \in SUBSET Users, add \in BOOLEAN : Assign(c, who, add)
       PROVE  CallKnows(c)'
  <2>1. id' = id /\ \E p \in Ended : End(c, p)
    BY <1>12
    DEF Undo, Publish, AssignFails, Remove, Die, Assign, Ended
  <2> QED
    BY <1>2, <2>1
<1> QED
  BY <1>3, <1>4, <1>5, <1>6, <1>7, <1>8, <1>9, <1>10, <1>11, <1>12
  DEF Proceed

\* What the other calls know stays true.
LEMMA OthersKnow ==
  ASSUME IInv, NEW c \in Calls, OthersKept(c), NEW e \in Calls \ {c},
         TypeOK', mode' = mode, counter <= counter'
  PROVE  CallKnows(e)'
<1>1. CallKnows(e) /\ id[e] \in Nat /\ counter \in Nat /\ counter' \in Nat
  BY Fields, CaseAssumption DEF IInv, CallsKnow, TypeOK
<1>2. /\ pc'[e] = pc[e] /\ id'[e] = id[e] /\ held'[e] = held[e]
      /\ base'[e] = base[e] /\ pre'[e] = pre[e]
  BY DEF OthersKept
<1> QED
  BY <1>1, <1>2 DEF CallKnows, Unbound, Channel
-----------------------------------------------------------------------------
(***************************************************************************)
(* The stored cases.                                                       *)
(***************************************************************************)

\* A call stays with its case, or takes up one that is there, or has got an id
\* for a new one; only then it is to store a case.
LEMMA IdStep ==
  ASSUME TypeOK, NEW c \in Calls, Step(c)
  PROVE  /\ \/ id'[c] = id[c]
            \/ id'[c] \in Ids /\ cases[id'[c]] # None
            \/ /\ id'[c] = counter + 1 /\ counter' = counter + 1
               /\ counter < MaxCases /\ cases' = cases
         /\ pc'[c] = "store" =>
              /\ id'[c] = counter + 1 /\ counter' = counter + 1
              /\ counter < MaxCases /\ cases' = cases
<1>1. CASE Begin(c)
  <2>1. pc'[c] # "store"
    BY <1>1 DEF Begin, CreateCase, CreateDraft, SubmitDraft, UpdateCase,
       UpdateAgentSettings, SyncChannelUsers, MaterializeThreadCase, CloseCase,
       ReopenCase, UpdateCaseStatus, Load, BeginAssign, BeginRemove, Goto,
       TypeOK
  <2>2. \/ id' = id
        \/ \E i \in Ids : cases[i] # None /\ id' = [id EXCEPT ![c] = i]
    BY <1>1 DEF Begin, CreateCase, CreateDraft, SubmitDraft, Submittable,
       UpdateCase, UpdateAgentSettings, SyncChannelUsers,
       MaterializeThreadCase, CloseCase, ReopenCase, UpdateCaseStatus, Load,
       BeginAssign, BeginRemove
  <2> QED
    BY <2>1, <2>2 DEF TypeOK
<1>2. CASE FindRequest(c)
  <2>1. pc'[c] # "store"
    BY <1>2 DEF FindRequest, End, Goto, TypeOK
  <2>2. \E i \in Ids : cases[i] # None /\ id' = [id EXCEPT ![c] = i]
    BY <1>2 DEF FindRequest, WithKey
  <2> QED
    BY <2>1, <2>2 DEF TypeOK
<1>3. CASE TakeId(c)
  <2>1. CASE /\ counter' = counter + 1 /\ id' = [id EXCEPT ![c] = counter + 1]
             /\ Goto(c, "store")
    BY <1>3, <2>1 DEF TakeId, TypeOK
  <2>2. CASE End(c, "failed") /\ UNCHANGED id
    BY <2>2 DEF End, Goto, TypeOK
  <2> QED
    BY <1>3, <2>1, <2>2 DEF TakeId
<1>4. CASE SetDoc(c)
  <2>1. id' = id
    BY <1>4 DEF SetDoc
  <2>2. ASSUME Continue(c) PROVE pc'[c] # "store"
    BY <2>2 DEF Continue, Goto, End, TypeOK
  <2>3. ASSUME NEW p \in Steps \ {"store"}, Leave(c, p) PROVE pc'[c] # "store"
    BY <2>3 DEF Leave, Goto, End, TypeOK
  <2>4. /\ AfterFailure(c) \in Steps \ {"store"}
        /\ AfterLostResponse(c) \in Steps \ {"store"}
    BY DEF AfterFailure, AfterLostResponse, Cleanup, Steps, Ended
  <2> QED
    BY <1>4, <2>1, <2>2, <2>3, <2>4 DEF SetDoc
<1>5. CASE Die(c) \/ (Proceed(c) /\ ~SetDoc(c) /\ ~TakeId(c) /\ ~FindRequest(c))
  <2>1. id' = id
    BY <1>5 DEF Proceed, MissRequest, PostRoot, StoreCase, Undo, Activate,
       ReadBack, Publish, Assign, AssignFails, Remove, CheckExists, Die
  <2>2. pc'[c] # "store"
    BY <1>5 DEF Proceed, MissRequest, PostRoot, StoreCase, Undo, Activate,
       ReadBack, Publish, Assign, AssignFails, Remove, CheckExists, Die, End,
       Goto, Leave, AfterFailure, Cleanup, Ended, Updating, TypeOK
  <2> QED
    BY <2>1, <2>2
<1> QED
  BY <1>1, <1>2, <1>3, <1>4, <1>5 DEF Step, Proceed

\* A step writes no case but the one the call is about.
LEMMA WritesOwn ==
  ASSUME IInv, NEW c \in Calls, Step(c)
  PROVE  /\ stale \subseteq stale'
         /\ \A i \in Ids : i # id[c] => cases'[i] = cases[i] /\ want'[i] = want[i]
<1>1. TypeOK
  BY DEF IInv
<1>2. ASSUME Assigns(c)
      PROVE  /\ stale' = stale
             /\ \E doc : cases' = [cases EXCEPT ![id[c]] = doc]
             /\ \E who : want' = [want EXCEPT ![id[c]] = who]
  BY <1>2 DEF Assigns, Writes
<1>3. /\ stale \subseteq stale'
      /\ cases' = cases \/ \E doc : cases' = [cases EXCEPT ![id[c]] = doc]
      /\ want' = want \/ \E who : want' = [want EXCEPT ![id[c]] = who]
  <2>1. CASE Deletes(c) \/ Stores(c)
    BY <2>1 DEF Deletes, Stores, Writes
  <2>2. CASE Overwrites(c)
    BY <2>2 DEF Overwrites, Writes
  <2> QED
    BY <1>2, <2>1, <2>2, StepWrites
<1>4. ASSUME NEW i \in Ids, i # id[c]
      PROVE  cases'[i] = cases[i] /\ want'[i] = want[i]
  <2>1. cases'[i] = cases[i]
    BY <1>1, <1>3, <1>4 DEF TypeOK
  <2>2. want'[i] = want[i]
    BY <1>1, <1>3, <1>4 DEF TypeOK
  <2> QED
    BY <2>1, <2>2
<1> QED
  BY <1>3, <1>4

\* What an assignment leaves of the case.
LEMMA AssignsKeep ==
  ASSUME TypeOK, NEW c \in Calls, Assigns(c)
  PROVE  /\ id[c] \in Ids /\ cases[id[c]] \in Case /\ cases'[id[c]] \in Case
         /\ cases'[id[c]].status = cases[id[c]].status
         /\ cases'[id[c]].home = cases[id[c]].home
         /\ cases'[id[c]].key = cases[id[c]].key
         /\ cases[id[c]].assignees = want[id[c]] =>
              cases'[id[c]].assignees = want'[id[c]]
<1>1. PICK who \in SUBSET Users, add \in BOOLEAN :
        LET changed(s) == IF add THEN s \cup who ELSE s \ who
        IN /\ Writes(c, [cases[id[c]] EXCEPT
                           !.assignees = changed(cases[id[c]].assignees)])
           /\ want' = [want EXCEPT ![id[c]] = changed(want[id[c]])]
  BY DEF Assigns, Writes, TypeOK, Case
<1> DEFINE changed(s) == IF add THEN s \cup who ELSE s \ who
           doc == cases[id[c]]
           new == [doc EXCEPT !.assignees = changed(doc.assignees)]
<1>2. id[c] \in Ids /\ doc \in Case
  BY Fields DEF Assigns, Writes
<1>3. cases'[id[c]] = new /\ want'[id[c]] = changed(want[id[c]])
  BY <1>1, <1>2 DEF Writes, TypeOK
<1>4. changed(doc.assignees) \in SUBSET Users
  BY <1>2, CaseFields
<1> HIDE DEF changed
<1>5. /\ new \in Case /\ new.status = doc.status /\ new.home = doc.home
      /\ new.key = doc.key /\ new.assignees = changed(doc.assignees)
  BY <1>2, <1>4 DEF Case
<1> HIDE DEF new
<1> QED
  BY <1>2, <1>3, <1>5

\* An id is handed out once.
LEMMA IdsStep ==
  ASSUME IInv, NEW c \in Calls, Step(c), OthersKept(c), TypeOK',
         counter <= counter'
  PROVE  IdsFresh'
<1> TypeOK /\ CallsKnow /\ IdsFresh
  BY DEF IInv
<1>a. \A e \in Calls : id[e] <= counter
  BY DEF CallsKnow, CallKnows
<1>b. /\ counter \in Nat /\ counter' \in Nat /\ MaxCases \in Nat
      /\ \A e \in Calls : id[e] \in Nat
      /\ \A i \in Ids : i \in Nat
  BY CaseAssumption DEF TypeOK, Ids
<1>1. /\ TypeOK /\ CallsKnow /\ IdsFresh /\ counter \in Nat /\ counter' \in Nat
      /\ \A e \in Calls : id[e] \in Nat /\ id[e] <= counter
      /\ \A i \in Ids : i \in Nat
      /\ MaxCases \in Nat
  BY <1>a, <1>b
<1>2. ASSUME NEW i \in Ids, cases'[i] # None PROVE i <= counter'
  <2>1. i <= counter
    <3>1. CASE cases'[i] = cases[i]
      BY <1>1, <1>2, <3>1 DEF IdsFresh
    <3>2. CASE i = id[c]
      BY <1>1, <3>2
    <3> QED
      BY <3>1, <3>2, WritesOwn
  <2> QED
    BY <1>1, <2>1
<1>3. ASSUME NEW e \in Calls, pc'[e] = "store"
      PROVE  /\ cases'[id'[e]] = None
             /\ \A f \in Calls \ {e} : id'[f] # id'[e]
  <2>1. CASE e = c
    <3>1. /\ id'[c] = counter + 1 /\ cases' = cases /\ counter + 1 \in Ids
      BY <1>1, <1>3, <2>1, IdStep DEF Ids
    <3>2. cases[counter + 1] = None
      BY <1>1, <3>1 DEF IdsFresh
    <3>3. \A f \in Calls \ {c} : id'[f] <= counter
      BY <1>1 DEF OthersKept
    <3>4. \A f \in Calls \ {c} : id'[f] \in Nat
      BY <1>1 DEF OthersKept
    <3> QED
      BY <1>1, <2>1, <3>1, <3>2, <3>3, <3>4
  <2>2. CASE e # c
    <3>1. /\ pc[e] = "store" /\ id'[e] = id[e] /\ cases[id[e]] = None
          /\ \A f \in Calls \ {e} : id[f] # id[e]
      BY <1>1, <1>3, <2>2 DEF OthersKept, IdsFresh
    <3>2. id[e] \in Ids
      BY <1>1, <3>1 DEF CallsKnow, CallKnows, AtWork
    <3>3. cases'[id[e]] = None
      BY <2>2, <3>1, <3>2, WritesOwn
    <3>4. id'[c] # id[e]
      BY <1>1, <2>2, <3>1, IdStep
    <3>5. \A f \in Calls \ {e, c} : id'[f] # id'[e]
      BY <3>1 DEF OthersKept
    <3> QED
      BY <3>1, <3>3, <3>4, <3>5
  <2> QED
    BY <2>1, <2>2
<1> QED
  BY <1>2, <1>3 DEF IdsFresh

\* A draft is unbound, and the assignees are those the assignments made.
LEMMA DocsStep ==
  ASSUME IInv, NEW c \in Calls, Step(c)
  PROVE  DraftUnbound' /\ AssignmentsKept'
<1>1. /\ TypeOK /\ CallKnows(c) /\ DraftUnbound /\ AssignmentsKept
      /\ held[c] \in Case /\ base[c] \in Case /\ None \notin Case
  BY Fields, NoneAssumption DEF IInv, CallsKnow
<1> SUFFICES ASSUME NEW i \in Ids, cases'[i] # None
             PROVE  /\ Unbound(cases'[i])
                    /\ i \notin stale' => cases'[i].assignees = want'[i]
  BY DEF DraftUnbound, AssignmentsKept, Unbound
<1>2. CASE cases'[i] = cases[i] /\ want'[i] = want[i]
  BY <1>1, <1>2, WritesOwn DEF DraftUnbound, AssignmentsKept, Unbound
<1>3. CASE i = id[c] /\ Stores(c)
  BY <1>1, <1>3 DEF Stores, Writes, TypeOK, CallKnows
<1>4. CASE i = id[c] /\ Assigns(c)
  BY <1>1, <1>4, AssignsKeep
  DEF DraftUnbound, AssignmentsKept, Unbound, Assigns
<1>5. CASE i = id[c] /\ Overwrites(c)
  <2>1. cases'[i] = held[c] /\ Unbound(held[c]) /\ want' = want
    BY <1>1, <1>5 DEF Overwrites, Writes, TypeOK, CallKnows
  <2>2. ASSUME i \notin stale' PROVE held[c].assignees = want[i]
    <3>1. i \notin stale /\ cases[i] = base[c]
      BY <1>5, <2>2 DEF Overwrites
    <3> QED
      BY <1>1, <1>5, <3>1 DEF AssignmentsKept, Overwrites, CallKnows
  <2> QED
    BY <2>1, <2>2
<1>6. CASE i = id[c] /\ Deletes(c)
  BY <1>1, <1>6 DEF Deletes, Writes, TypeOK
<1> QED
  BY <1>2, <1>3, <1>4, <1>5, <1>6, WritesOwn, StepWrites
-----------------------------------------------------------------------------
(***************************************************************************)
(* Cases without a home.                                                   *)
(***************************************************************************)

Homeless(doc) == doc # None /\ doc.status # "DRAFT" /\ doc.home = None

\* As long as the case is there and has no home, the call that is to give it
\* one goes on to, or is lost.
LEMMA UpLasts ==
  ASSUME IInv, NEW c \in Calls, Step(c), NEW i \in Ids, BringsUp(c, i),
         Homeless(cases'[i])
  PROVE  BringsUp(c, i)'
<1>1. /\ TypeOK /\ CallKnows(c) /\ id[c] = i /\ id[c] \in Ids
      /\ pc[c] \in {"activate", "bind", "readback", "rollback", "undo", "lost"}
      /\ cases'[i] # None /\ cases'[i].status # "DRAFT" /\ cases'[i].home = None
  BY DEF IInv, CallsKnow, BringsUp, Homeless
<1>2. ASSUME NEW p \in {"activate", "bind", "readback", "rollback", "undo",
                        "lost"},
             Goto(c, p), id' = id
      PROVE  BringsUp(c, i)'
  BY <1>1, <1>2 DEF Goto, BringsUp, TypeOK
<1>3. CASE Activate(c)
  <2>1. Cleanup(c) \in {"readback", "undo"}
    BY DEF Cleanup
  <2> QED
    BY <1>2, <1>3, <2>1 DEF Activate
<1>4. CASE ReadBack(c)
  BY <1>1, <1>2, <1>4 DEF ReadBack, End, store
<1>5. CASE Undo(c)
  BY <1>1, <1>2, <1>5 DEF Undo, End, TypeOK
<1>6. CASE CheckExists(c)
  <2>1. cases[id[c]] # None
    BY <1>1, <1>6 DEF CheckExists, store
  <2> QED
    BY <1>1, <1>6, <2>1 DEF CheckExists, BringsUp
<1>7. CASE SetDoc(c)
  <2>1. pc[c] \in {"bind", "rollback"} /\ id' = id
    BY <1>1, <1>7 DEF SetDoc, Updating
  <2>2. held[c].home # None \/ held[c].status = "DRAFT"
    BY <1>1, <2>1 DEF CallKnows
  <2>3. cases' # [cases EXCEPT ![id[c]] = held[c]]
    BY <1>1, <2>2 DEF TypeOK
  <2>4. Leave(c, AfterFailure(c))
    BY <1>7, <2>3 DEF SetDoc
  <2>5. AfterFailure(c) \in {"readback", "undo", "lost"}
    BY <2>1 DEF AfterFailure, Cleanup
  <2> QED
    BY <1>2, <2>1, <2>4, <2>5 DEF Leave, End
<1>8. CASE Die(c)
  BY <1>2, <1>8 DEF Die, End
<1>9. \/ Activate(c) \/ ReadBack(c) \/ Undo(c) \/ CheckExists(c) \/ SetDoc(c)
      \/ Die(c)
  BY <1>1 DEF Step, Begin, CreateCase, CreateDraft, SubmitDraft, UpdateCase,
     UpdateAgentSettings, SyncChannelUsers, MaterializeThreadCase, CloseCase,
     ReopenCase, UpdateCaseStatus, Load, BeginAssign, BeginRemove, Proceed,
     FindRequest, MissRequest, PostRoot, TakeId, StoreCase, Publish, Assign,
     AssignFails, Remove
<1> QED
  BY <1>3, <1>4, <1>5, <1>6, <1>7, <1>8, <1>9

\* A case that has lost its home, or comes without one, is brought up by the
\* call that wrote it.
LEMMA UpStarts ==
  ASSUME IInv, NEW c \in Calls, Step(c), NEW i \in Ids \ stale',
         ~Homeless(cases[i]), Homeless(cases'[i])
  PROVE  BringsUp(c, i)'
<1>1. /\ TypeOK /\ CallKnows(c) /\ base[c] \in Case /\ None \notin Case
      /\ cases'[i] # None /\ cases'[i].status # "DRAFT" /\ cases'[i].home = None
      /\ cases' # cases
  BY Fields, NoneAssumption DEF IInv, CallsKnow, Homeless
<1>2. i = id[c]
  BY <1>1, WritesOwn
<1>3. CASE Stores(c)
  <2>1. cases'[i] = held[c] /\ pc[c] = "store"
    BY <1>1, <1>2, <1>3 DEF Stores, Writes, TypeOK
  <2>2. Channel /\ held[c].status # "DRAFT"
    BY <1>1, <2>1 DEF CallKnows
  <2>3. StoreCase(c) \/ Die(c)
    BY <2>1 DEF Step, Begin, CreateCase, CreateDraft, SubmitDraft, UpdateCase,
       UpdateAgentSettings, SyncChannelUsers, MaterializeThreadCase, CloseCase,
       ReopenCase, UpdateCaseStatus, Load, BeginAssign, BeginRemove, Proceed,
       FindRequest, MissRequest, PostRoot, TakeId, Undo, Activate, ReadBack,
       Publish, Assign, AssignFails, Remove, CheckExists, SetDoc, Updating
  <2>4. id' = id /\ (Goto(c, "activate") \/ Goto(c, "lost"))
    BY <1>1, <2>2, <2>3 DEF StoreCase, End, Die, store
  <2> QED
    BY <1>1, <1>2, <2>4 DEF Goto, BringsUp, TypeOK
<1>4. ~Assigns(c)
  BY <1>1, <1>2, AssignsKeep DEF Homeless, Assigns
<1>5. CASE Overwrites(c)
  <2>1. cases'[i] = held[c] /\ cases[i] = base[c] /\ pc[c] \in Updating
    BY <1>1, <1>2, <1>5 DEF Overwrites, Writes, TypeOK
  <2>2. pc[c] = "flip"
    BY <1>1, <2>1 DEF CallKnows, Updating, Homeless
  <2>3. SetDoc(c)
    BY <1>1, <2>2 DEF Step, Begin, CreateCase, CreateDraft, SubmitDraft,
       UpdateCase, UpdateAgentSettings, SyncChannelUsers,
       MaterializeThreadCase, CloseCase, ReopenCase, UpdateCaseStatus, Load,
       BeginAssign, BeginRemove, Proceed, FindRequest, MissRequest, PostRoot,
       TakeId, StoreCase, Undo, Activate, ReadBack, Publish, Assign,
       AssignFails, Remove, CheckExists, Die, store
  <2>4. Continue(c) \/ Leave(c, AfterLostResponse(c))
    BY <1>1, <2>3 DEF SetDoc
  <2>5. Goto(c, "activate") \/ Goto(c, "lost")
    BY <2>2, <2>4 DEF Continue, Leave, AfterLostResponse, End, Ended
  <2> QED
    BY <1>1, <1>2, <2>3, <2>5 DEF SetDoc, Goto, BringsUp, TypeOK
<1>6. ~Deletes(c)
  BY <1>1, <1>2 DEF Deletes, Writes, TypeOK
<1> QED
  BY <1>1, <1>3, <1>4, <1>5, <1>6, StepWrites

\* Both together.
LEMMA HomesStep ==
  ASSUME IInv, NEW c \in Calls, Step(c), OthersKept(c)
  PROVE  HomesComing'
<1> SUFFICES ASSUME NEW i \in Ids \ stale', Homeless(cases'[i])
             PROVE  \E e \in Calls : BringsUp(e, i)'
  BY DEF HomesComing, Homeless
<1>1. CASE Homeless(cases[i])
  <2>1. i \notin stale
    BY WritesOwn
  <2>2. PICK e \in Calls : BringsUp(e, i)
    BY <1>1, <2>1 DEF IInv, HomesComing, Homeless
  <2>3. CASE e = c
    BY <2>2, <2>3, UpLasts
  <2>4. CASE e # c
    BY <2>2, <2>4 DEF OthersKept, BringsUp
  <2> QED
    BY <2>3, <2>4
<1>2. CASE ~Homeless(cases[i])
  BY <1>2, UpStarts
<1> QED
  BY <1>1, <1>2
-----------------------------------------------------------------------------
(***************************************************************************)
(* A form that is delivered again.                                         *)
(***************************************************************************)

\* A case that is there and was not overwritten by a stale copy was there, and
\* keeps its key, unless a call stores it.
LEMMA KeyStep ==
  ASSUME IInv, NEW c \in Calls, Step(c), NEW i \in Ids \ stale',
         cases'[i] # None, i = id[c] => pc[c] # "store"
  PROVE  i \notin stale /\ cases[i] # None /\ cases'[i].key = cases[i].key
<1>1. /\ TypeOK /\ CallKnows(c) /\ base[c] \in Case /\ None \notin Case
  BY Fields, NoneAssumption DEF IInv, CallsKnow
<1>2. i \notin stale
  BY WritesOwn
<1>3. CASE i # id[c]
  BY <1>2, <1>3, WritesOwn
<1>4. CASE i = id[c] /\ Overwrites(c)
  <2>1. cases'[i] = held[c] /\ cases[i] = base[c]
    BY <1>1, <1>4 DEF Overwrites, Writes, TypeOK
  <2> QED
    BY <1>1, <1>2, <1>4, <2>1 DEF Overwrites, CallKnows
<1>5. CASE i = id[c] /\ Assigns(c)
  BY <1>1, <1>2, <1>5, AssignsKeep DEF Assigns
<1>6. CASE i = id[c] /\ Deletes(c)
  BY <1>1, <1>6 DEF Deletes, Writes, TypeOK
<1>7. CASE UNCHANGED cases
  BY <1>2, <1>7
<1> QED
  BY <1>2, <1>3, <1>4, <1>5, <1>6, <1>7, StepWrites DEF Stores

\* Calls that ended take no step, and faults are counted.
LEMMA StepFacts ==
  ASSUME TypeOK, NEW c \in Calls, Step(c)
  PROVE  pc[c] \notin Ended /\ (faults # 0 => faults' # 0)
<1>1. pc[c] \notin Ended
  BY DEF Ended, Updating, Step, Begin, CreateCase, CreateDraft, SubmitDraft,
     UpdateCase, UpdateAgentSettings, SyncChannelUsers, MaterializeThreadCase,
     CloseCase, ReopenCase, UpdateCaseStatus, Load, BeginAssign, BeginRemove,
     Proceed, FindRequest, MissRequest, PostRoot, TakeId, StoreCase, Undo,
     Activate, ReadBack, Publish, Assign, AssignFails, Remove, CheckExists,
     SetDoc, Die
<1>2. faults' = faults \/ Fault
  BY DEF Step, Begin, CreateCase, CreateDraft, SubmitDraft,
     UpdateCase, UpdateAgentSettings, SyncChannelUsers, MaterializeThreadCase,
     CloseCase, ReopenCase, UpdateCaseStatus, Load, BeginAssign, BeginRemove,
     Proceed, FindRequest, MissRequest, PostRoot, TakeId, StoreCase, Undo,
     Activate, ReadBack, Publish, Assign, AssignFails, Remove, CheckExists,
     SetDoc, Die
<1>3. faults \in Nat
  BY Fields
<1> QED
  BY <1>1, <1>2, <1>3 DEF Fault

\* How a call comes to look a form up, and to store a case.
LEMMA PriorStep ==
  ASSUME TypeOK, NEW c \in Calls, Step(c)
  PROVE  \/ /\ pc[c] = "idle" /\ pc'[c] = "lookup" /\ cases' = cases
            /\ prior'[c] = {d \in Calls : /\ pc[d] = "done" /\ id[d] # 0
                                          /\ cases[id[d]] # None
                                          /\ cases[id[d]].key = held'[c].key}
         \/ pc[c] = "idle" /\ prior'[c] = {} /\ pc'[c] # "idle"
         \/ pc[c] = "idle" /\ prior'[c] = prior[c] /\ pc'[c] # "idle"
         \/ /\ prior'[c] = prior[c] /\ pc'[c] \notin {"idle", "lookup"}
            /\ \/ pc'[c] \notin {"post", "take", "store"}
               \/ pc[c] \in {"post", "take"}
               \/ pc[c] = "lookup" /\ faults' # 0
               \/ pc[c] = "lookup" /\ WithKey(held[c].key) = {}
<1>1. ASSUME NEW key \in Keys \cup {None}, NEW who \in SUBSET Users,
             CreateCase(c, key, who)
      PROVE  \/ /\ pc[c] = "idle" /\ pc'[c] = "lookup" /\ cases' = cases
                /\ prior'[c] = {d \in Calls : /\ pc[d] = "done" /\ id[d] # 0
                                              /\ cases[id[d]] # None
                                              /\ cases[id[d]].key = held'[c].key}
             \/ pc[c] = "idle" /\ prior'[c] = {} /\ pc'[c] # "idle"
  <2>1. /\ pc[c] = "idle" /\ cases' = cases /\ held'[c].key = key
        /\ prior'[c] = {d \in Calls : /\ key # None /\ pc[d] = "done"
                                      /\ id[d] # 0 /\ cases[id[d]] # None
                                      /\ cases[id[d]].key = key}
        /\ pc'[c] = IF key # None THEN "lookup"
                    ELSE IF Channel THEN "take" ELSE "post"
    BY <1>1, NewTyped DEF CreateCase, Goto, TypeOK, store
  <2>2. CASE key = None
    BY <2>1, <2>2
  <2>3. CASE key # None
    BY <2>1, <2>3
  <2> QED
    BY <2>2, <2>3
<1>2. CASE Begin(c) /\ \A key \in Keys \cup {None}, who \in SUBSET Users :
                         ~CreateCase(c, key, who)
  <2>1. /\ prior'[c] = prior[c] /\ pc[c] = "idle"
        /\ \E p \in Steps \ {"idle"} : Goto(c, p)
    BY <1>2 DEF Begin, CreateDraft, SubmitDraft, UpdateCase,
       UpdateAgentSettings, SyncChannelUsers, MaterializeThreadCase,
       CloseCase, ReopenCase, UpdateCaseStatus, Load, BeginAssign, BeginRemove,
       Steps, Updating
  <2> QED
    BY <2>1 DEF Goto, TypeOK
<1>3. CASE MissRequest(c)
  <2>1. faults' # 0 \/ WithKey(held[c].key) = {}
    <3>1. faults \in Nat
      BY Fields
    <3> QED
      BY <1>3, <3>1 DEF MissRequest, Fault
  <2>2. pc[c] = "lookup" /\ pc'[c] \in {"take", "post"} /\ prior' = prior
    BY <1>3 DEF MissRequest, Goto, TypeOK
  <2> QED
    BY <2>1, <2>2
<1>4. CASE PostRoot(c) \/ TakeId(c)
  BY <1>4 DEF PostRoot, TakeId, Goto, End, TypeOK
<1>5. CASE SetDoc(c)
  <2>1. ASSUME NEW p \in Steps \ {"idle", "lookup", "post", "take", "store"},
               Leave(c, p)
        PROVE  pc'[c] \notin {"idle", "lookup", "post", "take", "store"}
    BY <2>1 DEF Leave, End, Goto, TypeOK
  <2>2. ASSUME Continue(c)
        PROVE  pc'[c] \notin {"idle", "lookup", "post", "take", "store"}
    BY <2>2 DEF Continue, End, Goto, TypeOK
  <2>3. /\ AfterFailure(c) \in Steps \ {"idle", "lookup", "post", "take",
                                        "store"}
        /\ AfterLostResponse(c) \in Steps \ {"idle", "lookup", "post", "take",
                                             "store"}
    BY DEF AfterFailure, AfterLostResponse, Cleanup, Steps, Ended
  <2> QED
    BY <1>5, <2>1, <2>2, <2>3 DEF SetDoc
<1>6. CASE \/ FindRequest(c) \/ StoreCase(c) \/ Undo(c) \/ Activate(c)
           \/ ReadBack(c) \/ Publish(c) \/ AssignFails(c) \/ Remove(c)
           \/ CheckExists(c) \/ Die(c)
           \/ \E who \in SUBSET Users, add \in BOOLEAN : Assign(c, who, add)
  BY <1>6 DEF FindRequest, StoreCase, Undo, Activate, ReadBack, Publish, Assign,
     AssignFails, Remove, CheckExists, Die, Leave, AfterFailure, Cleanup, Ended,
     Updating, End, Goto, TypeOK
<1>7. CASE Begin(c)
  BY <1>1, <1>2, <1>7
<1> QED
  BY <1>3, <1>4, <1>5, <1>6, <1>7 DEF Step, Proceed

\* The case of an answered delivery keeps its key, and while nothing fails a
\* later delivery finds it.
LEMMA PriorsStep ==
  ASSUME IInv, NEW c \in Calls, Step(c), OthersKept(c)
  PROVE  PriorKnown'
<1>1. /\ TypeOK /\ PriorKnown /\ IdsFresh /\ CallsKnow
      /\ pc[c] \notin Ended /\ (faults # 0 => faults' # 0)
      /\ \A e \in Calls : id[e] # 0 => id[e] \in Ids
  BY StepFacts, CaseAssumption DEF IInv, TypeOK, Ids
<1>2. ASSUME NEW d \in Calls, pc[d] = "done", id[d] \in Ids,
             id[d] \notin stale', cases'[id[d]] # None
      PROVE  /\ id[d] \notin stale /\ cases[id[d]] # None
             /\ cases'[id[d]].key = cases[id[d]].key
  <2>1. d # c
    BY <1>1, <1>2 DEF Ended
  <2>2. pc[c] = "store" => id[d] # id[c]
    BY <1>1, <2>1 DEF IdsFresh
  <2> QED
    BY <1>2, <2>2, KeyStep
<1>3. ASSUME NEW e \in Calls, NEW d \in prior[e]
      PROVE  /\ d \in Calls /\ pc'[d] = "done" /\ id'[d] = id[d]
             /\ pc[d] = "done" /\ id[d] \in Ids /\ pc[e] # "idle"
  <2>1. d \in Calls /\ pc[d] = "done" /\ id[d] \in Ids /\ pc[e] # "idle"
    BY <1>1, <1>3 DEF PriorKnown
  <2>2. d # c
    BY <1>1, <2>1 DEF Ended
  <2> QED
    BY <2>1, <2>2 DEF OthersKept
<1>4. ASSUME NEW e \in Calls \ {c}, NEW d \in prior'[e]
      PROVE  /\ pc'[e] # "idle" /\ d \in Calls /\ pc'[d] = "done"
             /\ id'[d] \in Ids
             /\ id'[d] \notin stale' /\ cases'[id'[d]] # None =>
                  /\ pc'[e] = "lookup" => cases'[id'[d]].key = held'[e].key
                  /\ pc'[e] \in {"post", "take", "store"} => faults' # 0
  <2>1. pc'[e] = pc[e] /\ held'[e] = held[e] /\ prior'[e] = prior[e]
    BY DEF OthersKept
  <2> QED
    BY <1>1, <1>2, <1>3, <1>4, <2>1 DEF PriorKnown
<1>5. ASSUME NEW d \in prior'[c]
      PROVE  /\ pc'[c] # "idle" /\ d \in Calls /\ pc'[d] = "done"
             /\ id'[d] \in Ids
             /\ id'[d] \notin stale' /\ cases'[id'[d]] # None =>
                  /\ pc'[c] = "lookup" => cases'[id'[d]].key = held'[c].key
                  /\ pc'[c] \in {"post", "take", "store"} => faults' # 0
  <2>1. CASE prior'[c] = prior[c] /\ pc[c] # "idle"
    <3>1. d \in prior[c] /\ d \in Calls /\ pc[d] = "done" /\ id[d] \in Ids
            /\ id'[d] = id[d] /\ pc'[d] = "done"
      BY <1>3, <1>5, <2>1
    <3>2. /\ pc'[c] \notin {"idle", "lookup"}
          /\ \/ pc'[c] \notin {"post", "take", "store"}
             \/ pc[c] \in {"post", "take"}
             \/ pc[c] = "lookup" /\ faults' # 0
             \/ pc[c] = "lookup" /\ WithKey(held[c].key) = {}
      BY <1>1, <2>1, PriorStep
    <3>3. CASE id[d] \notin stale' /\ cases'[id[d]] # None
      <4>1. id[d] \notin stale /\ cases[id[d]] # None
        BY <1>2, <3>1, <3>3
      <4>2. /\ pc[c] = "lookup" => cases[id[d]].key = held[c].key
            /\ pc[c] \in {"post", "take"} => faults # 0
        BY <1>1, <3>1, <4>1 DEF PriorKnown
      <4>3. pc[c] = "lookup" => id[d] \in WithKey(held[c].key)
        BY <3>1, <4>1, <4>2 DEF WithKey
      <4> QED
        BY <1>1, <3>1, <3>2, <4>2, <4>3
    <3> QED
      BY <3>1, <3>2, <3>3
  <2>2. CASE pc[c] = "idle"
    <3>1. /\ pc'[c] = "lookup" /\ cases' = cases /\ d \in Calls
          /\ pc[d] = "done" /\ id[d] # 0 /\ cases[id[d]].key = held'[c].key
      <4>1. prior[c] = {}
        BY <1>1, <2>2 DEF PriorKnown
      <4> QED
        BY <1>1, <1>5, <2>2, <4>1, PriorStep
    <3>2. d # c
      BY <2>2, <3>1
    <3> QED
      BY <1>1, <3>1, <3>2 DEF OthersKept
  <2> QED
    BY <1>1, <2>1, <2>2, PriorStep
<1> QED
  BY <1>4, <1>5 DEF PriorKnown
-----------------------------------------------------------------------------
(***************************************************************************)
(* The results.                                                            *)
(***************************************************************************)

\* No case, a draft, or an OPEN case with its home.
LEMMA InitHolds == Init => IInv
<1> SUFFICES ASSUME Init PROVE IInv
  OBVIOUS
<1>1. PICK first \in {None, NewCase("DRAFT", {}, None),
                      Bound(Before, NewCase("OPEN", {}, None))} :
        /\ cases = [i \in Ids |-> IF i = 1 THEN first ELSE None]
        /\ counter = IF first = None THEN 0 ELSE 1
  BY DEF Init
<1>2. /\ Before \in Homes /\ Before # None /\ {} \in SUBSET Users
      /\ None \in Keys \cup {None} /\ None \notin Case
      /\ 0 \in 0..MaxCases /\ 1 \in 0..MaxCases /\ 0 \in 0..MaxFaults
      /\ Ids \subseteq Nat
  BY CaseAssumption, NoneAssumption DEF Homes, Ids
<1>3. /\ NewCase("DRAFT", {}, None) \in Case
      /\ NewCase("DRAFT", {}, None).home = None
      /\ NewCase("DRAFT", {}, None).assignees = {}
      /\ NewCase("OPEN", {}, None) \in Case
      /\ NewCase("OPEN", {}, None).assignees = {}
      /\ NewCase("OPEN", {}, None).status = "OPEN"
  BY <1>2, NewTyped
<1>4. first # None => /\ first \in Case /\ first.assignees = {}
                      /\ \/ first.status = "DRAFT" /\ first.home = None
                         \/ first.status = "OPEN" /\ first.home # None
  <2>1. CASE first = NewCase("DRAFT", {}, None)
    BY <1>2, <1>3, <2>1, NewTyped
  <2>2. CASE first = Bound(Before, NewCase("OPEN", {}, None))
    BY <1>2, <1>3, <2>2, BoundTyped
  <2> QED
    BY <2>1, <2>2
<1>5. \A i \in Ids : cases[i] # None => i = 1 /\ cases[i] = first
  BY <1>1
<1>6. TypeOK
  BY <1>1, <1>2, <1>4, NobodyTyped DEF Init, TypeOK, Steps
<1>7. CallsKnow
  BY <1>1, <1>2, NobodyTyped
  DEF Init, CallsKnow, CallKnows, AtWork, Updating, Unbound
<1>8. IdsFresh
  BY <1>1, <1>5 DEF Init, IdsFresh
<1>9. DraftUnbound /\ AssignmentsKept
  BY <1>4, <1>5 DEF Init, DraftUnbound, AssignmentsKept
<1>10. HomesComing /\ PriorKnown
  BY <1>4, <1>5 DEF Init, HomesComing, PriorKnown
<1> QED
  BY <1>6, <1>7, <1>8, <1>9, <1>10 DEF IInv

\* Every step keeps the invariant.
LEMMA NextKeeps == IInv /\ [Next]_vars => IInv'
<1> SUFFICES ASSUME IInv, [Next]_vars PROVE IInv'
  OBVIOUS
<1>1. ASSUME NEW c \in Calls, Step(c) PROVE IInv'
  <2>1. OthersKept(c)
    BY <1>1, OwnEntries DEF IInv
  <2>2. TypeOK' /\ mode' = mode /\ counter <= counter'
    BY <1>1, TypeStep
  <2>3. CallKnows(c)'
    BY <1>1, <2>2, BeginKnows, ProceedKnows DEF Step
  <2>4. CallsKnow'
    BY <2>1, <2>2, <2>3, OthersKnow DEF CallsKnow
  <2> QED
    BY <1>1, <2>1, <2>2, <2>4, IdsStep, DocsStep, HomesStep, PriorsStep DEF IInv
<1>2. CASE UNCHANGED vars
  BY <1>2 DEF vars, store, call, history, IInv, TypeOK, CallsKnow, CallKnows,
     Unbound, Channel, IdsFresh, DraftUnbound, AssignmentsKept, HomesComing,
     BringsUp, PriorKnown
<1> QED
  BY <1>1, <1>2 DEF Next, Step

\* The invariant holds all along.
THEOREM Invariance == Spec => []IInv
<1> QED
  BY InitHolds, NextKeeps, PTL DEF Spec

\* Cases, copies and calls have their types.
THEOREM TypeCorrect == Spec => []TypeOK
<1>1. IInv => TypeOK
  BY DEF IInv
<1> QED
  BY <1>1, Invariance, PTL

\* A draft has no channel and no thread, although the rollback of a submission
\* writes the case back without looking at what happened to it meanwhile.
THEOREM DraftsUnbound == Spec => []DraftUnbound
<1>1. IInv => DraftUnbound
  BY DEF IInv
<1> QED
  BY <1>1, Invariance, PTL

\* A case that is OPEN without a home has a call that brings it up or cleans up
\* after it, unless that call was lost or a stale copy was written.
THEOREM OpenCasesHomed == Spec => []OpenHasHome
<1>1. IInv => OpenHasHome
  BY DEF IInv, HomesComing, BringsUp, OpenHasHome
<1> QED
  BY <1>1, Invariance, PTL

\* Unless a stale copy is written, the assignees are those that the assigning
\* calls left there.
THEOREM AssigneesStay == Spec => []AssignmentsKept
<1>1. IInv => AssignmentsKept
  BY DEF IInv
<1> QED
  BY <1>1, Invariance, PTL

\* A form that is delivered again after it was answered makes no second case as
\* long as the first is there and nothing fails.
THEOREM RedeliveryHarmless == Spec => []RedeliveryMakesNoCase
<1>1. IInv => RedeliveryMakesNoCase
  BY DEF IInv, PriorKnown, RedeliveryMakesNoCase
<1> QED
  BY <1>1, Invariance, PTL

\* A step that is no rollback and writes no stale copy moves a case from DRAFT
\* to OPEN, and gives it one home, while it is OPEN.
THEOREM MovesLegal == Spec => LegalMoves
<1>1. ASSUME IInv, [Next]_vars, NEW i \in Ids, i \notin stale',
             cases[i] # None, cases'[i] # None
      PROVE  /\ cases[i].status = "DRAFT" => cases'[i].status # "CLOSED"
             /\ cases'[i].status = "DRAFT" /\ cases[i].status # "DRAFT" =>
                  \E c \in Calls : id[c] = i /\ pc[c] = "rollback"
             /\ cases'[i].home # cases[i].home =>
                  \/ /\ cases[i].home = None
                     /\ cases[i].status = "OPEN" /\ cases'[i].status = "OPEN"
                  \/ cases'[i].status = "DRAFT"
  <2>1. CASE cases'[i] = cases[i]
    BY <2>1
  <2>2. ASSUME NEW c \in Calls, Step(c), i = id[c], cases'[i] # cases[i]
        PROVE  /\ cases[i].status = "DRAFT" => cases'[i].status # "CLOSED"
               /\ cases'[i].status = "DRAFT" /\ cases[i].status # "DRAFT" =>
                    pc[c] = "rollback"
               /\ cases'[i].home # cases[i].home =>
                    \/ /\ cases[i].home = None
                       /\ cases[i].status = "OPEN" /\ cases'[i].status = "OPEN"
                    \/ cases'[i].status = "DRAFT"
    <3>1. TypeOK /\ CallKnows(c) /\ IdsFresh
      BY <1>1 DEF IInv, CallsKnow
    <3>2. ~Stores(c) /\ ~Deletes(c)
      BY <1>1, <2>2, <3>1 DEF Stores, Deletes, Writes, IdsFresh, TypeOK
    <3>3. CASE Assigns(c)
      BY <2>2, <3>1, <3>3, AssignsKeep DEF Assigns
    <3>4. CASE Overwrites(c)
      <4>1. cases'[i] = held[c] /\ cases[i] = base[c] /\ pc[c] \in Updating
        BY <1>1, <2>2, <3>1, <3>4 DEF Overwrites, Writes, TypeOK
      <4> QED
        BY <3>1, <4>1 DEF CallKnows, Updating, Unbound
    <3> QED
      BY <1>1, <2>2, <3>2, <3>3, <3>4, StepWrites
  <2>3. \/ cases'[i] = cases[i]
        \/ \E c \in Calls : Step(c) /\ i = id[c]
    BY <1>1, WritesOwn DEF Next, Step, vars, store
  <2> QED
    BY <2>1, <2>2, <2>3
<1>2. IInv /\ [Next]_vars =>
        [\A i \in Ids : i \notin stale' /\ cases[i] # None /\ cases'[i] # None =>
           LET old == cases[i]
               new == cases'[i]
           IN /\ old.status = "DRAFT" => new.status # "CLOSED"
              /\ new.status = "DRAFT" /\ old.status # "DRAFT" =>
                   \E c \in Calls : id[c] = i /\ pc[c] = "rollback"
              /\ new.home # old.home =>
                   \/ old.home = None /\ old.status = "OPEN"
                                      /\ new.status = "OPEN"
                   \/ new.status = "DRAFT"]_vars
  BY <1>1
<1> QED
  BY <1>2, Invariance, PTL DEF Spec, LegalMoves
-----------------------------------------------------------------------------
(***************************************************************************)
(* Closings and what is heard of them.                                     *)
(*                                                                         *)
(* A case that is CLOSED, or gone, is one closing ahead of the calls that  *)
(* reopened it.  A call that writes CLOSED over a case it found otherwise  *)
(* closes it and will announce that; a copy that is not stale found what   *)
(* it overwrites.                                                          *)
(***************************************************************************)

Arrived == {c \in Calls : pc[c] # "idle"}

\* The calls that announced the closing of a case, or are about to.
Announcing(c) == pc[c] = "publish" /\ held[c].status = "CLOSED"
Heard(i)      == {c \in Calls : id[c] = i /\ (deed[c] = "closed" \/ Announcing(c))}
Reopened(i)   == {c \in Calls : id[c] = i /\ deed[c] = "reopened"}

Shut(i) == IF cases[i] = None \/ cases[i].status = "CLOSED" THEN 1 ELSE 0

ClosingsCounted ==
  \A i \in Ids \ stale : Cardinality(Heard(i)) <= Cardinality(Reopened(i)) + Shut(i)

\* A deed is a call's last step, or is followed by none, and only drafts are
\* promoted.
DeedsLast ==
  \A c \in Calls : /\ deed[c] # "none" => pc[c] \in Ended
                   /\ pc[c] = "flip" => base[c].status = "DRAFT"

Closings == IsFiniteSet(Arrived) /\ DeedsLast /\ ClosingsCounted

\* What a step of a call does to closings: it closes the case and goes on to
\* announce that, announces something, reopens the case, or none of these.
Closes(c) ==
  /\ Overwrites(c) /\ held[c].status = "CLOSED" /\ base[c].status # "CLOSED"
  /\ id' = id /\ deed' = deed

Publishes(c) ==
  /\ pc[c] = "publish" /\ id' = id /\ cases' = cases /\ pc'[c] \in Ended
  /\ deed' = [deed EXCEPT ![c] = IF held[c].status = "CLOSED" THEN "closed"
                                                              ELSE "created"]

Reopens(c) ==
  /\ Overwrites(c) /\ base[c].status = "CLOSED" /\ held[c].status # "CLOSED"
  /\ id' = id /\ pc'[c] \in Ended
  /\ deed' = [deed EXCEPT ![c] = "reopened"]

Quiet(c) ==
  /\ deed' = deed
  /\ ~(pc'[c] = "publish" /\ held'[c].status = "CLOSED")
  /\ \/ UNCHANGED cases
     \/ Deletes(c) \/ Stores(c) \/ Assigns(c)
     \/ Overwrites(c) /\ (base[c].status = "CLOSED" => held[c].status = "CLOSED")

\* A call that begins does nothing yet.
LEMMA BeginQuiet ==
  ASSUME IInv, NEW c \in Calls, Begin(c)
  PROVE  Quiet(c) /\ pc'[c] # "idle" /\ (pc'[c] = "flip" => base'[c].status = "DRAFT")
<1>1. TypeOK
  BY DEF IInv
<1>2. ASSUME NEW i \in Ids, NEW new, Load(c, i, new)
      PROVE  Quiet(c) /\ pc'[c] = "write"
  BY <1>1, <1>2 DEF Load, Quiet, Goto, store, TypeOK
<1>3. ASSUME NEW i \in Ids, NEW edited, SubmitDraft(c, i, edited)
      PROVE  Quiet(c) /\ pc'[c] # "idle" /\ base'[c].status = "DRAFT"
  BY <1>1, <1>3 DEF SubmitDraft, Submittable, Quiet, Goto, store, TypeOK
<1>4. ASSUME NEW who, NEW key, CreateCase(c, key, who) \/ CreateDraft(c, who)
      PROVE  Quiet(c) /\ pc'[c] \notin {"idle", "flip"}
  BY <1>1, <1>4 DEF CreateCase, CreateDraft, Quiet, Goto, store, TypeOK
<1>5. ASSUME NEW i \in Ids, BeginAssign(c, i) \/ BeginRemove(c, i)
      PROVE  Quiet(c) /\ pc'[c] \notin {"idle", "flip"}
  BY <1>1, <1>5 DEF BeginAssign, BeginRemove, Quiet, Goto, store, TypeOK
<1> QED
  BY <1>2, <1>3, <1>4, <1>5 DEF Begin, UpdateCase, UpdateAgentSettings,
     SyncChannelUsers, MaterializeThreadCase, CloseCase, ReopenCase,
     UpdateCaseStatus

\* A call that writes its copy closes, reopens, or neither.
LEMMA SetDocTurns ==
  ASSUME IInv, DeedsLast, NEW c \in Calls, SetDoc(c)
  PROVE  /\ Closes(c) \/ Reopens(c) \/ Quiet(c)
         /\ pc'[c] # "idle" /\ (pc'[c] = "flip" => base'[c].status = "DRAFT")
<1>1. /\ TypeOK /\ CallKnows(c) /\ pc[c] \in Updating
      /\ pc[c] = "flip" => base[c].status = "DRAFT"
  BY DEF IInv, CallsKnow, SetDoc, DeedsLast
<1>2. /\ pc[c] \in {"patch", "rollback"} => held[c].status = "DRAFT"
      /\ pc[c] \in {"flip", "bind"} => held[c].status = "OPEN"
      /\ pc[c] = "patch" => base[c].status = "DRAFT"
      /\ pc[c] = "bind" => base[c].status = "OPEN"
      /\ pc[c] = "flip" => base[c].status = "DRAFT"
  BY <1>1 DEF CallKnows
<1>3. id' = id /\ c \in DOMAIN pc /\ c \in DOMAIN held /\ c \in DOMAIN base
  BY <1>1 DEF SetDoc, TypeOK
<1>4. ASSUME NEW p \in Ended \cup {"readback", "undo"}, Leave(c, p)
      PROVE  pc'[c] = p
  BY <1>3, <1>4 DEF Leave, End, Goto
<1>5. /\ AfterFailure(c) \in Ended \cup {"readback", "undo"}
      /\ AfterLostResponse(c) \in Ended \cup {"readback", "undo"}
      /\ pc[c] # "bind" => AfterLostResponse(c) \in Ended
  BY DEF AfterFailure, AfterLostResponse, Cleanup, Ended
<1>6. ASSUME Continue(c)
      PROVE  /\ pc[c] = "patch" => /\ pc'[c] \in {"flip", "failed"}
                                   /\ pc'[c] = "flip" => base'[c] = held[c]
             /\ pc[c] = "flip" => pc'[c] = "activate"
             /\ pc[c] = "rollback" => pc'[c] = "failed"
             /\ pc[c] = "write" /\ ~AnnouncesClosed(c) => pc'[c] = "done"
             /\ pc[c] = "write" /\ AnnouncesClosed(c) =>
                  pc'[c] = "publish" /\ held' = held
             /\ pc[c] = "bind" => pc'[c] = "publish" /\ held' = held
  <2>1. CASE pc[c] = "patch"
    BY <1>3, <1>6, <2>1 DEF Continue, Goto, End, Forget
  <2>2. CASE pc[c] \in {"flip", "rollback"}
    BY <1>3, <1>6, <2>2 DEF Continue, Goto, End
  <2>3. CASE pc[c] = "write"
    BY <1>3, <1>6, <2>3 DEF Continue, Goto, End, Going
  <2>4. CASE pc[c] = "bind"
    BY <1>3, <1>6, <2>4 DEF Continue, Goto, Going
  <2> QED
    BY <1>1, <2>1, <2>2, <2>3, <2>4 DEF Updating
<1>7. pc'[c] # "idle" /\ (pc'[c] = "flip" => base'[c].status = "DRAFT")
  BY <1>1, <1>2, <1>4, <1>5, <1>6 DEF SetDoc, Ended, Updating
<1>8. CASE Leave(c, AfterFailure(c)) /\ UNCHANGED <<cases, deed>>
  BY <1>4, <1>5, <1>8 DEF Quiet, Ended
<1>9. CASE /\ cases' = [cases EXCEPT ![id[c]] = held[c]]
           /\ stale' = IF cases[id[c]] = base[c] THEN stale
                                                 ELSE stale \cup {id[c]}
           /\ deed' = IF base[c].status = "CLOSED" /\ held[c].status # "CLOSED"
                      THEN [deed EXCEPT ![c] = "reopened"] ELSE deed
           /\ Continue(c) \/ Leave(c, AfterLostResponse(c))
  <2>1. Overwrites(c)
    BY <1>1, <1>9 DEF SetDoc, Overwrites, Writes, CallKnows, AtWork
  <2>2. CASE base[c].status = "CLOSED" /\ held[c].status # "CLOSED"
    <3>1. pc[c] \in {"write", "rollback"} /\ ~AnnouncesClosed(c)
      BY <1>1, <1>2, <2>2 DEF Updating, AnnouncesClosed
    <3>2. pc'[c] \in Ended
      BY <1>4, <1>5, <1>6, <1>9, <3>1 DEF Ended
    <3> QED
      BY <1>7, <1>3, <1>9, <2>1, <2>2, <3>2 DEF Reopens
  <2>3. CASE held[c].status = "CLOSED" /\ base[c].status # "CLOSED"
    BY <1>7, <1>3, <1>9, <2>1, <2>3 DEF Closes
  <2>4. CASE (base[c].status = "CLOSED") <=> (held[c].status = "CLOSED")
    <3>1. ~AnnouncesClosed(c) /\ deed' = deed
      BY <1>9, <2>4 DEF AnnouncesClosed
    <3>2. CASE Leave(c, AfterLostResponse(c))
      <4>1. pc'[c] # "publish"
        BY <1>4, <1>5, <3>2 DEF Ended
      <4> QED
        BY <1>7, <2>1, <2>4, <3>1, <4>1 DEF Quiet
    <3>3. CASE Continue(c)
      <4>1. pc'[c] = "publish" => pc[c] = "bind" /\ held' = held
        BY <1>1, <1>6, <3>1, <3>3 DEF Updating
      <4>2. ~(pc'[c] = "publish" /\ held'[c].status = "CLOSED")
        BY <1>2, <4>1
      <4> QED
        BY <1>7, <2>1, <2>4, <3>1, <4>2 DEF Quiet
    <3> QED
      BY <1>9, <3>2, <3>3
  <2> QED
    BY <2>2, <2>3, <2>4
<1> QED
  BY <1>7, <1>8, <1>9 DEF SetDoc

\* The other calls that go on announce something or nothing.
LEMMA ProceedTurns ==
  ASSUME IInv, DeedsLast, NEW c \in Calls, Proceed(c) \/ Die(c), ~SetDoc(c)
  PROVE  /\ Publishes(c) \/ Quiet(c)
         /\ pc'[c] # "idle" /\ (pc'[c] = "flip" => base'[c].status = "DRAFT")
<1>1. /\ TypeOK /\ CallKnows(c)
      /\ pc[c] = "flip" => base[c].status = "DRAFT"
      /\ c \in DOMAIN pc /\ c \in DOMAIN held /\ c \in DOMAIN base
  BY DEF IInv, CallsKnow, DeedsLast, TypeOK
<1>2. ASSUME NEW p \in Steps \ {"idle", "publish", "flip"}, pc'[c] = p, deed' = deed,
             UNCHANGED cases \/ Deletes(c) \/ Stores(c) \/ Assigns(c)
      PROVE  Quiet(c) /\ pc'[c] \notin {"idle", "flip"}
  BY <1>2 DEF Quiet
<1>3. CASE Publish(c)
  <2>1. pc'[c] = "done"
    BY <1>1, <1>3 DEF Publish, End, Goto
  <2>2. Publishes(c)
    BY <1>3, <2>1 DEF Publish, Publishes, store, Ended
  <2> QED
    BY <2>1, <2>2
<1>4. CASE StoreCase(c)
  <2>1. deed' = deed /\ (UNCHANGED cases \/ Stores(c))
    BY <1>1, <1>4 DEF StoreCase, Stores, Writes, CallKnows, AtWork
  <2>2. CASE pc'[c] \in Ended \cup {"activate"}
    BY <1>2, <2>1, <2>2 DEF Steps, Ended
  <2>3. CASE pc'[c] = "publish" /\ held' = held /\ held[c].status # "DRAFT"
    <3>1. held[c].status = "OPEN"
      BY <1>1, <1>4, <2>3 DEF StoreCase, CallKnows
    <3> QED
      BY <2>1, <2>3, <3>1 DEF Quiet
  <2>4. pc'[c] \in Ended \cup {"activate"}
        \/ (pc'[c] = "publish" /\ held' = held /\ held[c].status # "DRAFT")
    BY <1>1, <1>4 DEF StoreCase, End, Goto, Ended
  <2> QED
    BY <2>2, <2>3, <2>4
<1>5. CASE CheckExists(c)
  <2>1. deed' = deed /\ UNCHANGED cases /\ pc[c] \in Updating
    BY <1>5 DEF CheckExists, store
  <2>2. CASE UNCHANGED <<pc, held, base, pre>>
    BY <1>1, <2>1, <2>2 DEF Quiet, Updating
  <2>3. CASE Leave(c, AfterFailure(c))
    <3>1. pc'[c] = AfterFailure(c)
      BY <1>1, <2>3 DEF Leave, End, Goto
    <3>2. AfterFailure(c) \in Ended \cup {"readback", "undo"}
      BY DEF AfterFailure, Cleanup, Ended
    <3> QED
      BY <1>2, <2>1, <3>1, <3>2 DEF Steps, Ended
  <2> QED
    BY <1>5, <2>2, <2>3 DEF CheckExists
<1>6. CASE Undo(c) \/ Remove(c)
  <2>1. /\ deed' = deed /\ pc'[c] \in Ended
        /\ UNCHANGED cases \/ Deletes(c)
    BY <1>1, <1>6 DEF Undo, Remove, Deletes, Writes, CallKnows, AtWork, End, Goto,
       Ended, history
  <2> QED
    BY <1>2, <2>1 DEF Steps, Ended
<1>7. ASSUME NEW who \in SUBSET Users, NEW add \in BOOLEAN, Assign(c, who, add)
      PROVE  Quiet(c) /\ pc'[c] \notin {"idle", "flip"}
  <2>1. Assigns(c)
    BY <1>1, <1>7 DEF Assign, TransactOn, Assigns, Writes, CallKnows, AtWork
  <2>2. deed' = deed /\ pc'[c] \in Ended
    BY <1>1, <1>7 DEF Assign, End, Goto, Ended
  <2> QED
    BY <1>2, <2>1, <2>2 DEF Steps, Ended
<1>8. CASE \/ FindRequest(c) \/ MissRequest(c) \/ PostRoot(c) \/ TakeId(c)
           \/ Activate(c) \/ ReadBack(c) \/ AssignFails(c) \/ Die(c)
  <2>1. deed' = deed /\ UNCHANGED cases
    BY <1>8 DEF FindRequest, MissRequest, PostRoot, TakeId, Activate, ReadBack,
       AssignFails, Die, store
  <2>2. pc'[c] \in Steps \ {"idle", "publish", "flip"}
    BY <1>1, <1>8 DEF FindRequest, MissRequest, PostRoot, TakeId, Activate, ReadBack,
       AssignFails, Die, End, Goto, Cleanup, Steps, Updating, Ended
  <2> QED
    BY <1>2, <2>1, <2>2
<1> QED
  BY <1>3, <1>4, <1>5, <1>6, <1>7, <1>8 DEF Proceed

\* Only the call that steps gets a deed.
LEMMA StepTurns ==
  ASSUME IInv, DeedsLast, NEW c \in Calls, Step(c)
  PROVE  /\ deed[c] = "none" /\ pc'[c] # "idle"
         /\ pc'[c] = "flip" => base'[c].status = "DRAFT"
         /\ Closes(c) \/ Publishes(c) \/ Reopens(c) \/ Quiet(c)
         /\ \A e \in Calls \ {c} : deed'[e] = deed[e]
         /\ c \in DOMAIN deed
<1>1. TypeOK
  BY DEF IInv
<1>2. deed[c] = "none" /\ c \in DOMAIN deed
  BY <1>1, StepFacts DEF DeedsLast, TypeOK
<1>3. /\ Closes(c) \/ Publishes(c) \/ Reopens(c) \/ Quiet(c)
      /\ pc'[c] # "idle" /\ (pc'[c] = "flip" => base'[c].status = "DRAFT")
  BY BeginQuiet, SetDocTurns, ProceedTurns DEF Step
<1>4. ASSUME NEW e \in Calls \ {c} PROVE deed'[e] = deed[e]
  BY <1>1, <1>3 DEF Closes, Publishes, Reopens, Quiet, TypeOK
<1> QED
  BY <1>2, <1>3, <1>4

\* The step changes the sets of a case by the call at most.
LEMMA HeardStep ==
  ASSUME IInv, DeedsLast, NEW c \in Calls, Step(c), OthersKept(c),
         NEW i \in Ids, i \notin stale'
  PROVE  /\ i \notin stale
         /\ \/ /\ Heard(i)' \subseteq Heard(i) /\ Reopened(i)' = Reopened(i)
               /\ Shut(i)' >= Shut(i)
            \/ Heard(i)' = {}
            \/ /\ Heard(i)' \subseteq Heard(i) \cup {c} /\ Reopened(i)' = Reopened(i)
               /\ Shut(i)' = 1 /\ Shut(i) = 0
            \/ /\ Heard(i)' \subseteq Heard(i)
               /\ Reopened(i)' = Reopened(i) \cup {c} /\ c \notin Reopened(i)
<1>1. TypeOK /\ IdsFresh /\ CallKnows(c)
  BY DEF IInv, CallsKnow
<1>2. i \notin stale /\ (i # id[c] => cases'[i] = cases[i])
  BY WritesOwn
<1>3. /\ deed[c] = "none" /\ c \in DOMAIN deed
      /\ Closes(c) \/ Publishes(c) \/ Reopens(c) \/ Quiet(c)
      /\ \A e \in Calls \ {c} : deed'[e] = deed[e]
  BY StepTurns
<1>4. \A e \in Calls \ {c} : /\ e \in Heard(i)' <=> e \in Heard(i)
                             /\ e \in Reopened(i)' <=> e \in Reopened(i)
  BY <1>3 DEF OthersKept, Heard, Reopened, Announcing
<1>5. c \notin Reopened(i) /\ Shut(i) \in {0, 1} /\ Shut(i)' \in {0, 1}
  BY <1>3 DEF Reopened, Shut
<1>6. Heard(i)' \subseteq Heard(i) \cup {c} /\ Reopened(i)' \subseteq Calls
      /\ Reopened(i) \subseteq Calls
  BY <1>4 DEF Heard, Reopened
<1>7. Overwrites(c) => id[c] \in Ids /\ cases'[id[c]] = held[c]
                       /\ (id[c] = i => cases[id[c]] = base[c] /\ base[c] # None)
  <2>1. base[c] # None /\ id[c] \in 0..MaxCases
    BY Fields, <1>1, NoneAssumption
  <2> QED
    BY <1>1, <2>1 DEF Overwrites, Writes, TypeOK
<1>8. CASE cases'[i] = cases[i]
  <2>1. Shut(i)' = Shut(i)
    BY <1>8 DEF Shut
  <2>2. CASE Closes(c) /\ i # id[c]
    BY <1>2, <1>3, <1>4, <1>5, <1>6, <2>1, <2>2 DEF Closes, Heard, Reopened
  <2>3. CASE Publishes(c)
    <3>1. c \in Heard(i)' => c \in Heard(i)
      BY <1>3, <2>3 DEF Publishes, Heard, Announcing, Ended
    <3>2. c \notin Reopened(i)'
      BY <1>3, <2>3 DEF Publishes, Reopened
    <3> QED
      BY <1>2, <1>4, <1>5, <1>6, <2>1, <3>1, <3>2
  <2>4. CASE Reopens(c)
    <3>1. c \notin Heard(i)'
      BY <1>3, <2>4 DEF Reopens, Heard, Announcing, Ended
    <3> QED
      BY <1>2, <1>4, <1>5, <1>6, <2>1, <3>1
  <2>5. CASE Quiet(c)
    <3>1. c \notin Heard(i)' /\ c \notin Reopened(i)'
      BY <1>3, <2>5 DEF Quiet, Heard, Reopened, Announcing
    <3> QED
      BY <1>2, <1>4, <1>5, <1>6, <2>1, <3>1
  <2>6. CASE Closes(c) /\ i = id[c]
    BY <1>7, <1>8, <2>6 DEF Closes
  <2> QED
    BY <1>3, <2>2, <2>3, <2>4, <2>5, <2>6
<1>9. CASE cases'[i] # cases[i]
  <2>1. i = id[c]
    BY <1>2, <1>9
  <2>2. CASE Closes(c)
    <3>1. Shut(i) = 0 /\ Shut(i)' = 1
      BY <1>7, <2>1, <2>2 DEF Closes, Shut
    <3>2. c \notin Reopened(i)'
      BY <1>3, <2>2 DEF Closes, Reopened
    <3> QED
      BY <1>2, <1>4, <1>5, <1>6, <3>1, <3>2
  <2>3. CASE Reopens(c)
    <3>1. c \notin Heard(i)' /\ c \in Reopened(i)'
      BY <1>3, <2>1, <2>3 DEF Reopens, Heard, Reopened, Announcing, Ended
    <3> QED
      BY <1>2, <1>4, <1>5, <1>6, <3>1
  <2>4. CASE Quiet(c)
    <3>1. c \notin Heard(i)' /\ c \notin Reopened(i)'
      BY <1>3, <2>4 DEF Quiet, Heard, Reopened, Announcing
    <3>2. CASE Deletes(c)
      <4>1. cases'[i] = None
        BY <1>1, <2>1, <3>2 DEF Deletes, Writes, TypeOK
      <4>2. Shut(i)' = 1
        BY <4>1 DEF Shut
      <4> QED
        BY <1>2, <1>4, <1>5, <1>6, <3>1, <4>2
    <3>3. CASE Stores(c)
      <4>1. \A e \in Calls \ {c} : id[e] # i
        BY <1>1, <2>1, <3>3 DEF Stores, IdsFresh
      <4>2. Heard(i) \subseteq {c}
        BY <4>1 DEF Heard
      <4> QED
        BY <1>2, <1>6, <3>1, <4>2
    <3>4. CASE Assigns(c)
      <4>1. cases'[i].status = cases[i].status /\ cases[i] # None
        BY <1>1, <2>1, <3>4, AssignsKeep DEF Assigns
      <4>2. Shut(i)' >= Shut(i)
        BY <1>5, <4>1 DEF Shut
      <4> QED
        BY <1>2, <1>4, <1>6, <3>1, <4>2, <1>5
    <3>5. CASE Overwrites(c) /\ (base[c].status = "CLOSED" => held[c].status = "CLOSED")
      <4>1. Shut(i)' >= Shut(i)
        BY <1>5, <1>7, <2>1, <3>5 DEF Shut
      <4> QED
        BY <1>2, <1>4, <1>6, <3>1, <4>1, <1>5
    <3> QED
      BY <1>9, <2>4, <3>2, <3>3, <3>4, <3>5 DEF Quiet
  <2>5. ~Publishes(c)
    BY <1>9 DEF Publishes
  <2> QED
    BY <1>3, <2>2, <2>3, <2>4, <2>5
<1> QED
  BY <1>2, <1>8, <1>9

\* Every step keeps the count.
LEMMA ClosingsStep ==
  ASSUME IInv, Closings, [Next]_vars
  PROVE  Closings'
<1>1. ASSUME NEW c \in Calls, Step(c) PROVE Closings'
  <2>1. TypeOK /\ OthersKept(c)
    BY <1>1, OwnEntries DEF IInv
  <2>2. /\ deed[c] = "none" /\ pc'[c] # "idle"
        /\ pc'[c] = "flip" => base'[c].status = "DRAFT"
        /\ Closes(c) \/ Publishes(c) \/ Reopens(c) \/ Quiet(c)
        /\ \A e \in Calls \ {c} : deed'[e] = deed[e]
        /\ c \in DOMAIN deed
    BY <1>1, StepTurns DEF Closings
  <2>3. IsFiniteSet(Arrived')
    <3>1. Arrived' \in SUBSET (Arrived \cup {c})
      BY <2>1 DEF Arrived, OthersKept
    <3> QED
      BY <3>1, FS_AddElement, FS_Subset DEF Closings
  <2>4. DeedsLast'
    <3>1. deed'[c] # "none" => pc'[c] \in Ended
      BY <2>2 DEF Closes, Publishes, Reopens, Quiet
    <3> QED
      BY <2>1, <2>2, <3>1 DEF Closings, DeedsLast, OthersKept
  <2>5. ClosingsCounted'
    <3> SUFFICES ASSUME NEW i \in Ids, i \notin stale'
                 PROVE  Cardinality(Heard(i)') <= Cardinality(Reopened(i)') + Shut(i)'
      BY DEF ClosingsCounted
    <3>1. /\ Heard(i) \subseteq Arrived /\ Reopened(i) \subseteq Arrived
      BY DEF Heard, Reopened, Arrived, Closings, DeedsLast, Announcing, Ended
    <3>2. Reopened(i)' \subseteq Arrived'
      BY <2>4 DEF Reopened, Arrived, DeedsLast, Ended
    <3>3. IsFiniteSet(Heard(i)) /\ IsFiniteSet(Reopened(i)) /\ IsFiniteSet(Reopened(i)')
      BY <2>3, <3>1, <3>2, FS_Subset DEF Closings
    <3>4. Shut(i) \in {0, 1} /\ Shut(i)' \in {0, 1}
      BY DEF Shut
    <3>5. /\ i \notin stale
          /\ \/ /\ Heard(i)' \subseteq Heard(i) /\ Reopened(i)' = Reopened(i)
                /\ Shut(i)' >= Shut(i)
             \/ Heard(i)' = {}
             \/ /\ Heard(i)' \subseteq Heard(i) \cup {c}
                /\ Reopened(i)' = Reopened(i)
                /\ Shut(i)' = 1 /\ Shut(i) = 0
             \/ /\ Heard(i)' \subseteq Heard(i)
                /\ Reopened(i)' = Reopened(i) \cup {c} /\ c \notin Reopened(i)
      BY <1>1, <2>1, HeardStep DEF Closings
    <3>6. Cardinality(Heard(i)) <= Cardinality(Reopened(i)) + Shut(i)
      BY <3>5 DEF Closings, ClosingsCounted
    <3> DEFINE H == Heard(i)  H2 == Heard(i)'  R == Reopened(i)  R2 == Reopened(i)'
               s == Shut(i)   t == Shut(i)'
    <3> HIDE DEF H, H2, R, R2, s, t
    <3>7. /\ s \in {0, 1} /\ t \in {0, 1} /\ IsFiniteSet(H) /\ IsFiniteSet(R)
          /\ Cardinality(H) <= Cardinality(R) + s
          /\ \/ H2 \subseteq H /\ R2 = R /\ t >= s
             \/ H2 = {} /\ IsFiniteSet(R2)
             \/ H2 \subseteq H \cup {c} /\ R2 = R /\ t = 1 /\ s = 0
             \/ H2 \subseteq H /\ R2 = R \cup {c} /\ c \notin R
      BY <3>3, <3>4, <3>5, <3>6 DEF H, H2, R, R2, s, t
    <3>8. Cardinality(H2) <= Cardinality(R2) + t
      <4>1. Cardinality(H) \in Nat /\ Cardinality(R) \in Nat
        BY <3>7, FS_CardinalityType
      <4>2. CASE H2 \subseteq H
        <5>1. Cardinality(H2) <= Cardinality(H) /\ Cardinality(H2) \in Nat
          BY <4>2, <3>7, FS_Subset, FS_CardinalityType
        <5>2. CASE R2 = R /\ t >= s
          BY <3>7, <4>1, <5>1, <5>2
        <5>3. CASE R2 = R \cup {c} /\ c \notin R
          <6>1. Cardinality(R2) = Cardinality(R) + 1
            BY <5>3, <3>7, FS_AddElement
          <6> QED
            BY <3>7, <4>1, <5>1, <5>3, <6>1
        <5>4. CASE R2 = R /\ t = 1 /\ s = 0
          BY <3>7, <4>1, <5>1, <5>4
        <5>5. CASE H2 = {} /\ IsFiniteSet(R2)
          <6>1. Cardinality(H2) = 0 /\ Cardinality(R2) \in Nat
            BY <5>5, FS_EmptySet, FS_CardinalityType
          <6> QED
            BY <3>7, <6>1
        <5> QED
          BY <3>7, <4>2, <5>2, <5>3, <5>4, <5>5
      <4>3. CASE H2 \subseteq H \cup {c} /\ R2 = R /\ t = 1 /\ s = 0
        <5>1. /\ IsFiniteSet(H \cup {c})
              /\ Cardinality(H \cup {c}) \in {Cardinality(H), Cardinality(H) + 1}
          BY <3>7, FS_AddElement
        <5>2. Cardinality(H2) <= Cardinality(H \cup {c}) /\ Cardinality(H2) \in Nat
          BY <4>3, <5>1, <3>7, FS_Subset, FS_CardinalityType
        <5> QED
          BY <3>7, <4>1, <4>3, <5>1, <5>2
      <4>4. H2 = {} => H2 \subseteq H
        OBVIOUS
      <4> QED
        BY <3>7, <4>2, <4>3, <4>4
    <3> QED
      BY <3>8 DEF H2, R2, t
  <2> QED
    BY <2>3, <2>4, <2>5 DEF Closings
<1>2. CASE UNCHANGED vars
  BY <1>2 DEF vars, store, call, history, Closings, Arrived, DeedsLast,
     ClosingsCounted, Heard, Announcing, Reopened, Shut
<1> QED
  BY <1>1, <1>2 DEF Next, Step

\* Unless a stale copy is written, Jobs hear of a closed case once for each time
\* it was closed, whoever closes and reopens it at the same time, and although
\* the announcement comes after the write and may never come.
THEOREM ClosingsHeardOnce == Spec => []ClosedOncePerClosing
<1>1. Init => Closings
  <2> SUFFICES ASSUME Init PROVE Closings
    OBVIOUS
  <2>1. Arrived = {} /\ \A i \in Ids : Heard(i) = {} /\ Reopened(i) = {}
    BY DEF Init, Arrived, Heard, Reopened, Announcing
  <2>2. DeedsLast
    BY DEF Init, DeedsLast
  <2>3. ASSUME NEW i \in Ids
        PROVE  Cardinality(Heard(i)) <= Cardinality(Reopened(i)) + Shut(i)
    <3>1. Cardinality(Heard(i)) = 0 /\ Cardinality(Reopened(i)) = 0
      BY <2>1, FS_EmptySet
    <3> QED
      BY <3>1 DEF Shut
  <2>4. IsFiniteSet(Arrived)
    BY <2>1, FS_EmptySet
  <2> QED
    BY <2>2, <2>3, <2>4 DEF Closings, ClosingsCounted
<1>2. IInv /\ Closings /\ [Next]_vars => Closings'
  BY ClosingsStep
<1>3. IInv /\ Closings => ClosedOncePerClosing
  <2> SUFFICES ASSUME IInv, Closings, NEW i \in Ids \ stale
               PROVE  Cardinality({c \in Calls : id[c] = i /\ deed[c] = "closed"})
                        <= 1 + Cardinality(Reopened(i))
    BY DEF ClosedOncePerClosing, Reopened
  <2> DEFINE closed == {c \in Calls : id[c] = i /\ deed[c] = "closed"}
  <2>1. /\ closed \in SUBSET Heard(i)
        /\ Heard(i) \subseteq Arrived /\ Reopened(i) \subseteq Arrived
    BY DEF Heard, Reopened, Arrived, Closings, DeedsLast, Announcing, Ended
  <2>2. IsFiniteSet(Heard(i)) /\ IsFiniteSet(Reopened(i))
    BY <2>1, FS_Subset DEF Closings
  <2> HIDE DEF closed
  <2>3. /\ Cardinality(closed) <= Cardinality(Heard(i))
        /\ Cardinality(closed) \in Nat /\ Cardinality(Heard(i)) \in Nat
        /\ Cardinality(Reopened(i)) \in Nat
    BY <2>1, <2>2, FS_Subset, FS_CardinalityType
  <2>4. Cardinality(Heard(i)) <= Cardinality(Reopened(i)) + Shut(i) /\ Shut(i) \in {0, 1}
    BY DEF Closings, ClosingsCounted, Shut
  <2>5. Cardinality(closed) <= 1 + Cardinality(Reopened(i))
    BY <2>3, <2>4
  <2> QED
    BY <2>5 DEF closed
<1> QED
  BY <1>1, <1>2, <1>3, Invariance, PTL DEF Spec
=============================================================================

-------------------------- MODULE ActionBoardProofs --------------------------
(***************************************************************************)
(* Proofs about ActionBoard, for any calls, actions, slot capacity, faults *)
(* and losses: types, the feed that accounts for the documents, the lines  *)
(* that stay and the message that starts afresh.                           *)
(***************************************************************************)
EXTENDS ActionBoard, FiniteSetTheorems, TLAPS

-----------------------------------------------------------------------------
(* The inductive invariant: the documents and their feed. *)

Job == [on : {"nothing", "update", "archive", "step", "comment"},
        id : Ids \cup {0}, base : Action \cup Step \cup {None},
        new : Action \cup Step \cup {None}, tell : BOOLEAN]

Begun == Places \ {"idle", "create", "done"}
Written == Places \ {"idle", "create", "write"}

\* The changes one call makes to a step.
StepChanges ==
  {m \in Step \X Step :
     \/ m[1] = NoStep /\ m[2] = [NoStep EXCEPT !.state = "open"]
     \/ /\ m[1].state \in {"open", "done"}
        /\ \/ m[2].title = m[1].title /\ m[2].state \in {"open", "done", "removed"}
           \/ m[2].title # m[1].title /\ m[2].state = m[1].state
        /\ m[2] # m[1]}

\* What a call is about to write or to record, by what it is on.
Sound(j, p) ==
  CASE j.on = "update" ->
         IF j.base = None THEN p = "record" /\ j.new = NewAction
         ELSE /\ j.base \in Action /\ j.new \in Action
              /\ j.new.archived = j.base.archived
              /\ p = "card" => j.new = [j.base EXCEPT !.carded = TRUE]
    [] j.on = "archive" ->
         /\ j.base \in Action /\ p # "card"
         /\ j.new = [j.base EXCEPT !.archived = ~j.base.archived]
    [] j.on = "step" -> <<j.base, j.new>> \in StepChanges /\ p # "card"
    [] j.on = "comment" -> p = "write"
    [] OTHER -> FALSE

DocTypes ==
  /\ actions \in [Ids -> Action \cup {None}]
  /\ steps \in [Ids -> Step]
  /\ feed \in [Ids -> SUBSET Event]
  /\ pc \in [Calls -> Places]
  /\ job \in [Calls -> Job]
  /\ stale \subseteq Ids /\ unrecorded \subseteq Ids
  /\ faults \in 0..MaxFaults

\* The Actions there are are those created so far, and every call knows what it
\* works on.
Jobs ==
  /\ \E n \in 0..MaxActions : {i \in Ids : actions[i] # None} = 1..n
  /\ \A c \in Calls :
       /\ pc[c] \in {"idle", "done"} => job[c] = Idle
       /\ pc[c] = "create" => job[c] = [Idle EXCEPT !.on = "update", !.new = NewAction]
       /\ pc[c] \in Begun => job[c].id \in Ids /\ actions[job[c].id] # None
       /\ pc[c] \in {"write", "record", "card"} => Sound(job[c], pc[c])

\* The calls about to record, with what they are on; and the feed with their events.
Recording == {<<c, job[c]>> : c \in {d \in Calls : pc[d] = "record"}}
Coming(R, i) == UNION {Changes(r[1], r[2]) : r \in {q \in R : q[2].id = i}}
Due == [i \in Ids |-> feed[i] \cup Coming(Recording, i)]

Kind(F, k) == {e \in F : e.kind = k}

\* Of one kind, the events lead from the first value to the last.
Path(K, values, first, last) ==
  \A v \in values : Cardinality({e \in K : e.to = v}) + One(v = first)
                      = Cardinality({e \in K : e.from = v}) + One(v = last)

\* The events account for an Action and its step.
Balances(F, a, s) ==
  /\ Path(Kind(F, "status"), Statuses, "todo", a.status)
  /\ Path(Kind(F, "title"), Titles, "a", a.title)
  /\ Cardinality(Kind(F, "archived"))
       = Cardinality(Kind(F, "unarchived")) + One(a.archived)
  /\ Path(Kind(F, "renamed"), Titles, "a", s.title)
  /\ Cardinality(Kind(F, "added")) = One(s.state # "unborn")
  /\ Cardinality(Kind(F, "removed")) = One(s.state = "removed")
  /\ s.state # "removed" =>
       Cardinality(Kind(F, "finished"))
         = Cardinality(Kind(F, "reopened")) + One(s.state = "done")

\* An event is of a call that wrote its document; before an Action is created
\* nothing happens to it.
Feeds ==
  /\ \A i \in Ids : IsFiniteSet(Due[i])
  /\ \A i \in Ids : \A e \in Due[i] : pc[e.by] \in Written
  /\ \A i \in Ids : actions[i] = None => Due[i] = {} /\ steps[i] = NoStep
  /\ \A i \in Ids : actions[i] # None /\ i \notin stale \cup unrecorded
                      => Balances(Due[i], actions[i], steps[i])

-----------------------------------------------------------------------------
(* The inductive invariant: the channel. *)

ChannelTypes ==
  /\ slot \in Slot \cup {None}
  /\ seen \in [Calls -> Slot \cup {None}]
  /\ posted \in [Calls -> Seq(Calls) \cup {None}]
  /\ expired \subseteq Calls /\ gone \subseteq Calls
  /\ overlaps \subseteq Calls
  /\ lost \in [Calls -> Calls \cup {None}]
  /\ kept \in Seq([line : Calls, message : Calls])

AtSlotNow == {"show", "save", "drop"}
Shown     == {"save", "drop", "done"}

\* The slots some call may still write, and with them the messages as they are.
Live  == ({slot} \cup {seen[c] : c \in Calls}) \ {None}
Views == Live \cup {[message |-> m, lines |-> posted[m]] :
                      m \in {n \in Calls : posted[n] # None}}

\* A message shows the lines of calls that got that far, each once and no more than
\* fit; who is at the slot holds a copy of it.
Lines ==
  /\ \A v \in Views : /\ v \in Slot /\ Len(v.lines) \in 1..MaxEntries
                      /\ IsInjective(v.lines)
                      /\ posted[v.message] # None
                      /\ \A n \in 1..Len(v.lines) : pc[v.lines[n]] \in Shown
  /\ \A m \in Calls : posted[m] # None => pc[m] \in Shown
  /\ \A m \in expired \cup gone : posted[m] # None
  /\ \A c \in Calls : /\ seen[c] # None => pc[c] \in AtSlotNow
                      /\ pc[c] \in {"save", "drop"} => seen[c] # None

\* Who met nobody at the slot is alone there, and what it shows nobody else has.
Alone ==
  \A c \in Calls \ overlaps :
    /\ pc[c] \in AtSlotNow => \A d \in Calls : d # c => pc[d] \notin AtSlotNow
    /\ pc[c] = "save" =>
         /\ seen[c].lines[Len(seen[c].lines)] = c
         /\ posted[seen[c].message] = seen[c].lines
         /\ \A v \in Views : Contains(v.lines, c) => v.lines = seen[c].lines

\* Lines are kept in order, and the older one makes room first.
Ordered ==
  \A v \in Views : \A k \in 1..Len(kept) : \A j \in 1..(k - 1) :
    \A x, y \in 1..Len(v.lines) :
      v.lines[x] = kept[j].line /\ v.lines[y] = kept[k].line => x < y

Kept ==
  /\ \A k \in 1..Len(kept) : /\ pc[kept[k].line] = "done"
                             /\ posted[kept[k].message] # None
  /\ \A v \in Views : \A k \in 1..Len(kept) :
       v.message = kept[k].message =>
         \/ Contains(v.lines, kept[k].line)
         \/ /\ Len(v.lines) = MaxEntries
            /\ \A j \in 1..(k - 1) : ~Contains(v.lines, kept[j].line)
  /\ Ordered

\* The slot of a deleted message is gone once the call that met it is.
Losses ==
  \A c \in Calls :
    lost[c] # None =>
      /\ posted[lost[c]] # None
      /\ pc[c] \in {"drop", "done"}
      /\ pc[c] = "drop" => seen[c] # None /\ seen[c].message = lost[c]
      /\ c \notin overlaps /\ faults = 0 /\ pc[c] = "done" =>
           \A v \in Live : v.message # lost[c]

IInv ==
  /\ DocTypes
  /\ Jobs
  /\ Feeds
  /\ ChannelTypes
  /\ Lines
  /\ Alone
  /\ Kept
  /\ Losses
  /\ NextStartsAfresh

-----------------------------------------------------------------------------
(* What a call sets out to do. *)

\* The copy a call starts from.
LEMMA IdleIs ==
  /\ Idle \in Job /\ Idle.on = "nothing" /\ Idle.id = 0 /\ Idle.base = None
  /\ NewAction \in Action /\ NewAction.status = "todo" /\ NewAction.title = "a"
  /\ ~NewAction.archived /\ ~NewAction.carded
  /\ NoStep \in Step /\ NoStep.state = "unborn" /\ NoStep.title = "a"
  BY DEF Idle, Job, NewAction, NoStep, Action, Step, Statuses, Titles

\* Every call starts with the document as it is stored, and a change of it that makes
\* sense.
LEMMA StartsWell ==
  ASSUME DocTypes, NEW c \in Calls, Start(c)
  PROVE  \E p \in {"create", "write", "card"}, j \in Job :
           /\ pc[c] = "idle" /\ pc' = [pc EXCEPT ![c] = p]
           /\ job' = [job EXCEPT ![c] = j]
           /\ UNCHANGED <<documents, channel, seen, history, faults>>
           /\ p = "create" => j = [Idle EXCEPT !.on = "update", !.new = NewAction]
           /\ p # "create" => j.id \in Ids /\ actions[j.id] # None /\ Sound(j, p)
  <1> DEFINE Starts(p, j) ==
           /\ pc[c] = "idle" /\ pc' = [pc EXCEPT ![c] = p]
           /\ job' = [job EXCEPT ![c] = j]
           /\ UNCHANGED <<documents, channel, seen, history, faults>>
             Well(p, j) ==
           /\ p = "create" => j = [Idle EXCEPT !.on = "update", !.new = NewAction]
           /\ p # "create" => j.id \in Ids /\ actions[j.id] # None /\ Sound(j, p)
  <1>0. /\ \A p, j : Begin(c, p, j) => Starts(p, j)
        /\ actions \in [Ids -> Action \cup {None}] /\ steps \in [Ids -> Step]
    BY DEF Begin, Goto, DocTypes
  <1>1. ASSUME CreateAction(c)
        PROVE  \E p \in {"create", "write", "card"}, j \in Job : Starts(p, j) /\ Well(p, j)
    <2> DEFINE j == [Idle EXCEPT !.on = "update", !.new = NewAction]
    <2>1. Starts("create", j)
      BY <1>0, <1>1 DEF CreateAction
    <2>2. j \in Job /\ Well("create", j)
      BY IdleIs DEF Idle, Job
    <2> QED
      BY <2>1, <2>2
  <1>2. ASSUME NEW i \in Ids, NEW s \in Statuses, NEW t \in Titles, NEW full \in BOOLEAN,
               UpdateAction(c, i, s, t, full)
        PROVE  \E p \in {"create", "write", "card"}, j \in Job : Starts(p, j) /\ Well(p, j)
    <2> DEFINE new == Patched(actions[i], s, t)
               tell == full /\ new.carded /\ new.status # actions[i].status
               j == [on |-> "update", id |-> i, base |-> actions[i], new |-> new,
                     tell |-> tell]
    <2>1. Starts("write", j) /\ actions[i] # None
      BY <1>0, <1>2 DEF UpdateAction
    <2>2. actions[i] \in Action /\ new \in Action /\ new.archived = actions[i].archived
      <3>1. actions[i] \in Action
        BY <1>0, <2>1
      <3> QED
        BY <3>1 DEF Patched, Action
    <2>3. j \in Job
      <3>1. tell \in BOOLEAN
        BY <2>2 DEF Action
      <3> QED
        BY <2>2, <3>1 DEF Job
    <2>4. Well("write", j)
      BY <2>1, <2>2, NoneAssumption DEF Sound
    <2> QED
      BY <2>1, <2>3, <2>4
  <1>3. ASSUME NEW i \in Ids, ArchiveAction(c, i) \/ UnarchiveAction(c, i)
        PROVE  \E p \in {"create", "write", "card"}, j \in Job : Starts(p, j) /\ Well(p, j)
    <2> DEFINE j == [on |-> "archive", id |-> i, base |-> actions[i],
                     new |-> [actions[i] EXCEPT !.archived = ~actions[i].archived],
                     tell |-> FALSE]
    <2>1. actions[i] \in Action
      BY <1>0, <1>3 DEF ArchiveAction, UnarchiveAction
    <2>2. Starts("write", j) /\ actions[i] # None
      <3>1. CASE ArchiveAction(c, i)
        <4>1. [actions[i] EXCEPT !.archived = TRUE]
                = [actions[i] EXCEPT !.archived = ~actions[i].archived]
          BY <3>1, <2>1 DEF ArchiveAction, Action
        <4> QED
          BY <1>0, <3>1, <4>1 DEF ArchiveAction
      <3>2. CASE UnarchiveAction(c, i)
        <4>1. [actions[i] EXCEPT !.archived = FALSE]
                = [actions[i] EXCEPT !.archived = ~actions[i].archived]
          BY <3>2, <2>1 DEF UnarchiveAction, Action
        <4> QED
          BY <1>0, <3>2, <4>1 DEF UnarchiveAction
      <3> QED
        BY <1>3, <3>1, <3>2
    <2>3. j \in Job
      BY <2>1 DEF Job, Action
    <2>4. Well("write", j)
      BY <2>1, <2>2 DEF Sound
    <2> QED
      BY <2>2, <2>3, <2>4
  <1>4. ASSUME NEW i \in Ids, PostSlackMessageToAction(c, i)
        PROVE  \E p \in {"create", "write", "card"}, j \in Job : Starts(p, j) /\ Well(p, j)
    <2> DEFINE j == [on |-> "update", id |-> i, base |-> actions[i],
                     new |-> [actions[i] EXCEPT !.carded = TRUE], tell |-> FALSE]
    <2>1. actions[i] \in Action /\ Starts("card", j) /\ actions[i] # None
      BY <1>0, <1>4 DEF PostSlackMessageToAction
    <2>2. [actions[i] EXCEPT !.carded = TRUE] \in Action
          /\ [actions[i] EXCEPT !.carded = TRUE].archived = actions[i].archived
      BY <2>1 DEF Action
    <2>3. j \in Job
      BY <2>1, <2>2 DEF Job
    <2>4. Well("card", j)
      BY <2>1, <2>2, NoneAssumption DEF Sound
    <2> QED
      BY <2>1, <2>3, <2>4
  <1>5. ASSUME NEW i \in Ids, NEW new, ChangeStep(c, i, new), <<steps[i], new>> \in StepChanges
        PROVE  \E p \in {"create", "write", "card"}, j \in Job : Starts(p, j) /\ Well(p, j)
    <2> DEFINE j == [on |-> "step", id |-> i, base |-> steps[i], new |-> new,
                     tell |-> actions[i].carded]
    <2>1. actions[i] \in Action /\ Starts("write", j) /\ actions[i] # None
      BY <1>0, <1>5 DEF ChangeStep
    <2>2. steps[i] \in Step /\ new \in Step /\ actions[i].carded \in BOOLEAN
      BY <1>5, <2>1 DEF StepChanges, Action
    <2>3. j \in Job
      BY <2>2 DEF Job
    <2>4. Well("write", j)
      BY <1>5, <2>1 DEF Sound
    <2> QED
      BY <2>1, <2>3, <2>4
  <1>6. ASSUME NEW i \in Ids, AddStep(c, i)
        PROVE  \E p \in {"create", "write", "card"}, j \in Job : Starts(p, j) /\ Well(p, j)
    <2>1. <<steps[i], [steps[i] EXCEPT !.state = "open"]>> \in StepChanges
      BY <1>6, IdleIs DEF AddStep, StepChanges, Step
    <2> QED
      BY <1>5, <1>6, <2>1 DEF AddStep
  <1>7. ASSUME NEW i \in Ids, NEW is \in BOOLEAN, SetDone(c, i, is)
        PROVE  \E p \in {"create", "write", "card"}, j \in Job : Starts(p, j) /\ Well(p, j)
    <2> DEFINE new == [steps[i] EXCEPT !.state = IF is THEN "done" ELSE "open"]
    <2>1. ChangeStep(c, i, new) /\ steps[i].state \in {"open", "done"} /\ new # steps[i]
      BY <1>7 DEF SetDone, IsStep, ChangeStep
    <2>2. <<steps[i], new>> \in StepChanges
      BY <1>0, <2>1 DEF StepChanges, Step
    <2> QED
      BY <1>5, <2>1, <2>2
  <1>8. ASSUME NEW i \in Ids, NEW t \in Titles, Rename(c, i, t)
        PROVE  \E p \in {"create", "write", "card"}, j \in Job : Starts(p, j) /\ Well(p, j)
    <2> DEFINE new == [steps[i] EXCEPT !.title = t]
    <2>1. ChangeStep(c, i, new) /\ steps[i].state \in {"open", "done"} /\ new # steps[i]
      BY <1>8 DEF Rename, IsStep, ChangeStep
    <2>2. <<steps[i], new>> \in StepChanges
      BY <1>0, <2>1 DEF StepChanges, Step
    <2> QED
      BY <1>5, <2>1, <2>2
  <1>9. ASSUME NEW i \in Ids, DeleteStep(c, i)
        PROVE  \E p \in {"create", "write", "card"}, j \in Job : Starts(p, j) /\ Well(p, j)
    <2> DEFINE new == [steps[i] EXCEPT !.state = "removed"]
    <2>1. ChangeStep(c, i, new) /\ steps[i].state \in {"open", "done"} /\ new # steps[i]
      BY <1>9 DEF DeleteStep, IsStep, ChangeStep
    <2>2. <<steps[i], new>> \in StepChanges
      BY <1>0, <2>1 DEF StepChanges, Step
    <2> QED
      BY <1>5, <2>1, <2>2
  <1>10. ASSUME NEW i \in Ids, Comment(c, i)
         PROVE  \E p \in {"create", "write", "card"}, j \in Job : Starts(p, j) /\ Well(p, j)
    <2> DEFINE j == [Idle EXCEPT !.on = "comment", !.id = i, !.tell = actions[i].carded]
    <2>1. actions[i] \in Action /\ Starts("write", j) /\ actions[i] # None
      BY <1>0, <1>10 DEF Comment
    <2>2. j \in Job /\ j.id = i /\ j.on = "comment"
      BY <2>1 DEF Job, Idle, Action
    <2>3. Well("write", j)
      BY <2>1, <2>2 DEF Sound
    <2> QED
      BY <2>1, <2>2, <2>3
  <1> HIDE DEF Starts, Well
  <1>11. \E p \in {"create", "write", "card"}, j \in Job : Starts(p, j) /\ Well(p, j)
    <2>1. CASE CreateAction(c)
      BY <1>1, <2>1
    <2>2. ASSUME NEW i \in Ids,
                 \/ \E s \in Statuses, t \in Titles, full \in BOOLEAN :
                      UpdateAction(c, i, s, t, full)
                 \/ ArchiveAction(c, i) \/ UnarchiveAction(c, i)
                 \/ PostSlackMessageToAction(c, i)
                 \/ AddStep(c, i) \/ DeleteStep(c, i)
                 \/ \E is \in BOOLEAN : SetDone(c, i, is)
                 \/ \E t \in Titles : Rename(c, i, t)
                 \/ Comment(c, i)
          PROVE  \E p \in {"create", "write", "card"}, j \in Job : Starts(p, j) /\ Well(p, j)
      BY <2>2, <1>2, <1>3, <1>4, <1>6, <1>7, <1>8, <1>9, <1>10, Zenon
    <2> QED
      BY <2>1, <2>2, Zenon DEF Start
  <1> QED
    BY <1>11, Zenon DEF Starts, Well

-----------------------------------------------------------------------------
(* How an event changes the balance. *)

\* The events of a kind can be counted.
LEMMA KindFinite ==
  ASSUME NEW F, IsFiniteSet(F), NEW k
  PROVE  IsFiniteSet(Kind(F, k)) /\ Cardinality(Kind(F, k)) \in Nat
  <1>1. Kind(F, k) \subseteq F
    BY DEF Kind
  <1> QED
    BY <1>1, FS_Subset, FS_CardinalityType

\* One event more is one more of its kind.
LEMMA KindCounts ==
  ASSUME NEW F, IsFiniteSet(F), NEW e, e \notin F, NEW k, k = e.kind
  PROVE  /\ Kind(F \cup {e}, k) = Kind(F, k) \cup {e} /\ e \notin Kind(F, k)
         /\ Cardinality(Kind(F \cup {e}, k)) = Cardinality(Kind(F, k)) + 1
  <1>1. Kind(F \cup {e}, k) = Kind(F, k) \cup {e} /\ e \notin Kind(F, k)
    BY DEF Kind
  <1>2. Cardinality(Kind(F, k) \cup {e}) = Cardinality(Kind(F, k)) + 1
    BY <1>1, KindFinite, FS_AddElement
  <1> QED
    BY <1>1, <1>2

\* And none more of any other.
LEMMA KindKept ==
  ASSUME NEW F, NEW e, NEW k, k # e.kind
  PROVE  Kind(F \cup {e}, k) = Kind(F, k)
  BY DEF Kind

\* An event that leaves the last value leads on.
LEMMA AddPath ==
  ASSUME NEW K, IsFiniteSet(K), NEW e, e \notin K,
         NEW values, NEW first, NEW last, Path(K, values, first, last), e.from = last,
         NEW next, e.to = next
  PROVE  Path(K \cup {e}, values, first, next)
  <1> SUFFICES ASSUME NEW v \in values
               PROVE  Cardinality({x \in K \cup {e} : x.to = v}) + One(v = first)
                        = Cardinality({x \in K \cup {e} : x.from = v}) + One(v = next)
    BY DEF Path
  <1> DEFINE I == {x \in K : x.to = v}
             O == {x \in K : x.from = v}
  <1>1. /\ IsFiniteSet(I) /\ IsFiniteSet(O) /\ e \notin I /\ e \notin O
        /\ Cardinality(I) \in Nat /\ Cardinality(O) \in Nat
    <2>1. I \subseteq K /\ O \subseteq K
      OBVIOUS
    <2> QED
      BY <2>1, FS_Subset, FS_CardinalityType
  <1>2. Cardinality(I \cup {e}) = Cardinality(I) + 1 /\ Cardinality(O \cup {e}) = Cardinality(O) + 1
    BY <1>1, FS_AddElement
  <1> DEFINE I2 == {x \in K \cup {e} : x.to = v}
             O2 == {x \in K \cup {e} : x.from = v}
  <1>3. /\ v = next => I2 = I \cup {e}
        /\ v # next => I2 = I
        /\ v = last => O2 = O \cup {e}
        /\ v # last => O2 = O
    OBVIOUS
  <1>4. Cardinality(I) + One(v = first) = Cardinality(O) + One(v = last)
    BY DEF Path
  <1>5. /\ v = next => One(v = next) = 1
        /\ v # next => One(v = next) = 0
        /\ v = last => One(v = last) = 1
        /\ v # last => One(v = last) = 0
        /\ One(v = first) \in Nat
    BY DEF One
  <1> HIDE DEF I, O, I2, O2
  <1>6. Cardinality(I2) = Cardinality(I) + One(v = next)
    <2>1. CASE v = next
      <3>1. I2 = I \cup {e}
        BY <1>3, <2>1, Zenon
      <3>2. One(v = next) = 1
        BY <1>5, <2>1, Zenon
      <3> QED
        BY <1>2, <3>1, <3>2
    <2>2. CASE v # next
      <3>1. I2 = I
        BY <1>3, <2>2, Zenon
      <3>2. One(v = next) = 0
        BY <1>5, <2>2, Zenon
      <3> QED
        BY <1>1, <3>1, <3>2
    <2> QED
      BY <2>1, <2>2, Zenon
  <1>7. Cardinality(O2) = Cardinality(O) + One(v = last)
    <2>1. CASE v = last
      <3>1. O2 = O \cup {e}
        BY <1>3, <2>1, Zenon
      <3>2. One(v = last) = 1
        BY <1>5, <2>1, Zenon
      <3> QED
        BY <1>2, <3>1, <3>2
    <2>2. CASE v # last
      <3>1. O2 = O
        BY <1>3, <2>2, Zenon
      <3>2. One(v = last) = 0
        BY <1>5, <2>2, Zenon
      <3> QED
        BY <1>1, <3>1, <3>2
    <2> QED
      BY <2>1, <2>2, Zenon
  <1>8. Cardinality(I2) + One(v = first) = Cardinality(O2) + One(v = next)
    BY <1>1, <1>4, <1>5, <1>6, <1>7
  <1> QED
    BY <1>8 DEF I2, O2

\* The events of a call, by what it is on.
LEMMA ChangesAre ==
  ASSUME NEW c \in Calls, NEW j \in Job, Sound(j, "record")
  PROVE  LET event(kind, from, to) == [kind |-> kind, from |-> from, to |-> to, by |-> c]
             s == event("status", j.base.status, j.new.status)
             t == event("title", j.base.title, j.new.title)
         IN /\ j.on = "update" /\ j.base = None =>
                 Changes(c, j) = {event("created", None, "a")}
            /\ j.on = "update" /\ j.base # None =>
                 Changes(c, j) = (IF j.base.status = j.new.status THEN {} ELSE {s})
                                   \cup (IF j.base.title = j.new.title THEN {} ELSE {t})
            /\ j.on = "archive" =>
                 Changes(c, j) = {event(IF j.new.archived THEN "archived" ELSE "unarchived",
                                        None, j.new.title)}
            /\ j.on = "step" =>
                 \/ /\ j.base = NoStep /\ j.new = [NoStep EXCEPT !.state = "open"]
                    /\ Changes(c, j) = {event("added", None, "a")}
                 \/ /\ j.base.state \in {"open", "done"} /\ j.new = [j.base EXCEPT !.state = "removed"]
                    /\ Changes(c, j) = {event("removed", j.base.title, None)}
                 \/ /\ j.base.state \in {"open", "done"} /\ j.new.state = j.base.state
                    /\ j.new \in Step
                    /\ Changes(c, j) = {event("renamed", j.base.title, j.new.title)}
                 \/ /\ j.base.state = "open" /\ j.new = [j.base EXCEPT !.state = "done"]
                    /\ Changes(c, j) = {event("finished", None, j.new.title)}
                 \/ /\ j.base.state = "done" /\ j.new = [j.base EXCEPT !.state = "open"]
                    /\ Changes(c, j) = {event("reopened", None, j.new.title)}
            /\ j.on \in {"update", "archive", "step"}
  <1> DEFINE event(kind, from, to) == [kind |-> kind, from |-> from, to |-> to, by |-> c]
  <1>0. j.on \in {"update", "archive", "step"}
    BY DEF Sound
  <1>1. CASE j.on = "update" /\ j.base = None
    BY <1>1, IdleIs DEF Sound, Changes
  <1>2. CASE j.on = "update" /\ j.base # None
    BY <1>2 DEF Sound, Changes
  <1>3. CASE j.on = "archive"
    BY <1>3 DEF Sound, Changes
  <1>4. CASE j.on = "step"
    <2> DEFINE old == j.base
               new == j.new
               kind == CASE old.state = "unborn" -> event("added", None, new.title)
                         [] new.state = "removed" -> event("removed", old.title, None)
                         [] old.title # new.title -> event("renamed", old.title, new.title)
                         [] OTHER -> event(IF new.state = "done" THEN "finished"
                                                                 ELSE "reopened",
                                           None, new.title)
    <2>1. Changes(c, j) = {kind}
      BY <1>4 DEF Changes
    <2>2. <<old, new>> \in StepChanges /\ old \in Step /\ new \in Step
      BY <1>4 DEF Sound, StepChanges
    <2>3. CASE old = NoStep /\ new = [NoStep EXCEPT !.state = "open"]
      <3>1. old.state = "unborn" /\ new.state # "removed" /\ old.title = new.title /\ new.title = "a"
        BY <2>3 DEF NoStep
      <3>2. kind = event("added", None, new.title)
        BY <3>1
      <3> QED
        BY <1>4, <2>1, <2>3, <3>1, <3>2
    <2>4. CASE /\ old.state \in {"open", "done"}
               /\ \/ new.title = old.title /\ new.state \in {"open", "done", "removed"}
                  \/ new.title # old.title /\ new.state = old.state
               /\ new # old
      <3>1. CASE new.state = "removed"
        <4>1. new = [old EXCEPT !.state = "removed"] /\ old.title = new.title
          BY <2>2, <2>4, <3>1 DEF Step
        <4>2. kind = event("removed", old.title, None)
          BY <2>4, <3>1, <4>1
        <4> QED
          BY <1>4, <2>1, <2>4, <4>1, <4>2
      <3>2. CASE old.title # new.title
        <4>1. kind = event("renamed", old.title, new.title) /\ new.state = old.state
          BY <2>4, <3>2
        <4> QED
          BY <1>4, <2>1, <2>2, <2>4, <4>1
      <3>3. CASE new.state # "removed" /\ old.title = new.title /\ new.state = "done"
        <4>1. new = [old EXCEPT !.state = "done"] /\ old.state = "open"
          BY <2>2, <2>4, <3>3 DEF Step
        <4>2. kind = event("finished", None, new.title)
          BY <2>4, <3>3
        <4> QED
          BY <1>4, <2>1, <4>1, <4>2
      <3>4. CASE new.state # "removed" /\ old.title = new.title /\ new.state = "open"
        <4>1. new = [old EXCEPT !.state = "open"] /\ old.state = "done"
          BY <2>2, <2>4, <3>4 DEF Step
        <4>2. kind = event("reopened", None, new.title)
          BY <2>4, <3>4
        <4> QED
          BY <1>4, <2>1, <4>1, <4>2
      <3> QED
        BY <2>4, <3>1, <3>2, <3>3, <3>4
    <2> QED
      BY <2>2, <2>3, <2>4 DEF StepChanges
  <1> QED
    BY <1>0, <1>1, <1>2, <1>3, <1>4

\* The events of a call are few, and its own.
LEMMA ChangesTyped ==
  ASSUME NEW c \in Calls, NEW j \in Job, Sound(j, "record")
  PROVE  /\ IsFiniteSet(Changes(c, j)) /\ Changes(c, j) \subseteq Event
         /\ \A e \in Changes(c, j) : e.by = c
  <1> DEFINE event(kind, from, to) == [kind |-> kind, from |-> from, to |-> to, by |-> c]
  <1>1. ASSUME NEW k \in {"created", "status", "title", "archived", "unarchived", "added",
                          "finished", "reopened", "renamed", "removed"},
               NEW f \in Statuses \cup Titles \cup {None},
               NEW t \in Statuses \cup Titles \cup {None}
        PROVE  event(k, f, t) \in Event /\ event(k, f, t).by = c
    BY <1>1 DEF Event
  <1>2. \A e : IsFiniteSet({e})
    BY FS_Singleton
  <1>3. CASE j.on = "update" /\ j.base = None
    <2>1. Changes(c, j) = {event("created", None, "a")}
      BY <1>3, ChangesAre
    <2> QED
      BY <1>1, <1>2, <2>1 DEF Titles
  <1>4. CASE j.on = "update" /\ j.base # None
    <2>1. j.base \in Action /\ j.new \in Action
      BY <1>4 DEF Sound
    <2> DEFINE s == event("status", j.base.status, j.new.status)
               t == event("title", j.base.title, j.new.title)
    <2>2. Changes(c, j) = (IF j.base.status = j.new.status THEN {} ELSE {s})
                            \cup (IF j.base.title = j.new.title THEN {} ELSE {t})
      BY <1>4, ChangesAre
    <2>3. s \in Event /\ t \in Event /\ s.by = c /\ t.by = c
      BY <1>1, <2>1 DEF Action
    <2>4. IsFiniteSet({}) /\ IsFiniteSet({s}) /\ IsFiniteSet({t})
      BY <1>2, FS_EmptySet
    <2>5. IsFiniteSet(Changes(c, j))
      BY <2>2, <2>4, FS_Union
    <2> HIDE DEF s, t
    <2> QED
      BY <2>2, <2>3, <2>5
  <1>5. CASE j.on = "archive"
    <2>1. j.new.title \in Titles
      BY <1>5 DEF Sound, Action
    <2>2. Changes(c, j) = {event(IF j.new.archived THEN "archived" ELSE "unarchived",
                                 None, j.new.title)}
      BY <1>5, ChangesAre
    <2> QED
      BY <1>1, <1>2, <2>1, <2>2
  <1>6. CASE j.on = "step"
    <2>1. j.base \in Step /\ j.new \in Step
      BY <1>6 DEF Sound, StepChanges
    <2>2. j.base.title \in Titles /\ j.new.title \in Titles /\ "a" \in Titles
      BY <2>1 DEF Step, Titles
    <2>3. \/ Changes(c, j) = {event("added", None, "a")}
          \/ Changes(c, j) = {event("removed", j.base.title, None)}
          \/ Changes(c, j) = {event("renamed", j.base.title, j.new.title)}
          \/ Changes(c, j) = {event("finished", None, j.new.title)}
          \/ Changes(c, j) = {event("reopened", None, j.new.title)}
      BY <1>6, ChangesAre
    <2>4. /\ event("added", None, "a") \in Event /\ event("added", None, "a").by = c
          /\ event("removed", j.base.title, None) \in Event
          /\ event("removed", j.base.title, None).by = c
          /\ event("renamed", j.base.title, j.new.title) \in Event
          /\ event("renamed", j.base.title, j.new.title).by = c
          /\ event("finished", None, j.new.title) \in Event
          /\ event("finished", None, j.new.title).by = c
          /\ event("reopened", None, j.new.title) \in Event
          /\ event("reopened", None, j.new.title).by = c
      BY <1>1, <2>2
    <2> HIDE DEF event
    <2> QED
      BY <1>2, <2>3, <2>4
  <1> QED
    BY <1>3, <1>4, <1>5, <1>6, ChangesAre

\* Before anything happens, and when an Action is created, the balance is even.
LEMMA BalanceStarts ==
  /\ Balances({}, NewAction, NoStep)
  /\ \A e : e.kind = "created" => Balances({e}, NewAction, NoStep)
  <1>1. \A k : Kind({}, k) = {}
    BY DEF Kind
  <1>2. \A e, k : e.kind = "created" /\ k # "created" => Kind({e}, k) = {}
    BY DEF Kind
  <1>3. Cardinality({}) = 0
    BY FS_EmptySet
  <1>4. \A values, first : Path({}, values, first, first)
    <2>1. \A v : {e \in {} : e.to = v} = {} /\ {e \in {} : e.from = v} = {}
      OBVIOUS
    <2> QED
      BY <2>1, <1>3 DEF Path, One
  <1>5. ASSUME NEW F, \A k : k # "created" => Kind(F, k) = {}
        PROVE  Balances(F, NewAction, NoStep)
    <2>1. /\ Kind(F, "status") = {} /\ Kind(F, "title") = {} /\ Kind(F, "archived") = {}
          /\ Kind(F, "unarchived") = {} /\ Kind(F, "renamed") = {} /\ Kind(F, "added") = {}
          /\ Kind(F, "removed") = {} /\ Kind(F, "finished") = {} /\ Kind(F, "reopened") = {}
      BY <1>5
    <2>2. /\ One(NewAction.archived) = 0 /\ One(NoStep.state # "unborn") = 0
          /\ One(NoStep.state = "removed") = 0 /\ One(NoStep.state = "done") = 0
      BY IdleIs DEF One
    <2> QED
      BY <1>3, <1>4, <2>1, <2>2, IdleIs DEF Balances
  <1> QED
    BY <1>1, <1>2, <1>5

\* The events of a call keep the balance, when its document was as it read it.
LEMMA BalanceMoves ==
  ASSUME NEW c \in Calls, NEW j \in Job, Sound(j, "record"), j.base # None,
         NEW F, IsFiniteSet(F), \A e \in Changes(c, j) : e \notin F,
         NEW a \in Action, NEW s \in Step, Balances(F, a, s)
  PROVE  /\ j.on \in {"update", "archive"} /\ j.base = a => Balances(F \cup Changes(c, j), j.new, s)
         /\ j.on = "step" /\ j.base = s => Balances(F \cup Changes(c, j), a, j.new)
  <1> DEFINE event(kind, from, to) == [kind |-> kind, from |-> from, to |-> to, by |-> c]
  <1>1. CASE j.on = "update" /\ j.base = a
    <2> DEFINE x == event("status", a.status, j.new.status)
               y == event("title", a.title, j.new.title)
               X == IF a.status = j.new.status THEN {} ELSE {x}
               Y == IF a.title = j.new.title THEN {} ELSE {y}
    <2>1. Changes(c, j) = X \cup Y
      BY <1>1, ChangesAre
    <2>2. /\ j.new.archived = a.archived
          /\ x.kind = "status" /\ x.from = a.status /\ x.to = j.new.status
          /\ y.kind = "title" /\ y.from = a.title /\ y.to = j.new.title
          /\ x # y
      BY <1>1 DEF Sound
    <2>3. /\ a.status # j.new.status => X = {x}
          /\ a.status = j.new.status => X = {}
          /\ a.title # j.new.title => Y = {y}
          /\ a.title = j.new.title => Y = {}
      OBVIOUS
    <2> HIDE DEF x, y, X, Y
    <2> DEFINE G == F \cup X
               b == [a EXCEPT !.status = j.new.status]
    <2>4. Balances(G, b, s) /\ IsFiniteSet(G)
      <3>1. b.status = j.new.status /\ b.title = a.title /\ b.archived = a.archived
        BY DEF Action
      <3>2. CASE a.status = j.new.status
        <4>1. G = F
          BY <3>2, <2>3
        <4> QED
          BY <4>1, <3>1, <3>2 DEF Balances
      <3>3. CASE a.status # j.new.status
        <4>1. G = F \cup {x} /\ x \notin F
          BY <3>3, <2>1, <2>3
        <4>2. /\ Kind(G, "status") = Kind(F, "status") \cup {x}
              /\ x \notin Kind(F, "status") /\ IsFiniteSet(Kind(F, "status"))
              /\ \A k : k # "status" => Kind(G, k) = Kind(F, k)
              /\ IsFiniteSet(G)
          <5>1. IsFiniteSet(G) /\ IsFiniteSet(Kind(F, "status"))
            BY <4>1, KindFinite, FS_AddElement
          <5>2. Kind(G, "status") = Kind(F, "status") \cup {x} /\ x \notin Kind(F, "status")
            BY <4>1, <2>2, KindCounts
          <5>3. \A k : k # "status" => Kind(G, k) = Kind(F, k)
            BY <4>1, <2>2, KindKept
          <5> QED
            BY <5>1, <5>2, <5>3
        <4>3. Path(Kind(G, "status"), Statuses, "todo", b.status)
          BY <4>2, <2>2, <3>1, AddPath DEF Balances
        <4> QED
          BY <4>2, <4>3, <3>1 DEF Balances
      <3> QED
        BY <3>2, <3>3
    <2>5. Balances(G \cup Y, j.new, s)
      <3>1. b.status = j.new.status /\ b.title = a.title /\ b.archived = j.new.archived
        BY <2>2 DEF Action
      <3>2. CASE a.title = j.new.title
        <4>1. G \cup Y = G
          BY <3>2, <2>3
        <4> QED
          BY <2>4, <4>1, <3>1, <3>2 DEF Balances
      <3>3. CASE a.title # j.new.title
        <4>1. G \cup Y = G \cup {y} /\ y \notin G
          BY <3>3, <2>1, <2>2, <2>3
        <4> HIDE DEF G
        <4>2. /\ Kind(G \cup Y, "title") = Kind(G, "title") \cup {y}
              /\ y \notin Kind(G, "title") /\ IsFiniteSet(Kind(G, "title"))
              /\ \A k : k # "title" => Kind(G \cup Y, k) = Kind(G, k)
          <5>1. IsFiniteSet(Kind(G, "title"))
            BY <2>4, KindFinite
          <5>2. Kind(G \cup Y, "title") = Kind(G, "title") \cup {y} /\ y \notin Kind(G, "title")
            BY <4>1, <2>2, <2>4, KindCounts
          <5>3. \A k : k # "title" => Kind(G \cup Y, k) = Kind(G, k)
            BY <4>1, <2>2, KindKept
          <5> QED
            BY <5>1, <5>2, <5>3
        <4>3. Path(Kind(G \cup Y, "title"), Titles, "a", j.new.title)
          BY <4>2, <2>2, <2>4, <3>1, AddPath DEF Balances
        <4> QED
          BY <2>4, <4>2, <4>3, <3>1 DEF Balances
      <3> QED
        BY <3>2, <3>3
    <2>6. G \cup Y = F \cup Changes(c, j)
      BY <2>1
    <2> QED
      BY <1>1, <2>5, <2>6
  <1>2. CASE j.on = "archive" /\ j.base = a
    <2> DEFINE kind == IF j.new.archived THEN "archived" ELSE "unarchived"
               x == event(kind, None, j.new.title)
               G == F \cup Changes(c, j)
    <2>1. Changes(c, j) = {x} /\ x.kind = kind
      BY <1>2, ChangesAre
    <2>2. /\ j.new.status = a.status /\ j.new.title = a.title
          /\ j.new.archived = ~a.archived /\ a.archived \in BOOLEAN
      BY <1>2 DEF Sound, Action
    <2> HIDE DEF x
    <2>3. /\ \A k : k # kind => Kind(G, k) = Kind(F, k)
          /\ Cardinality(Kind(G, kind)) = Cardinality(Kind(F, kind)) + 1
          /\ \A k : Cardinality(Kind(F, k)) \in Nat
      <3>1. G = F \cup {x} /\ x \notin F
        BY <2>1
      <3>2. Cardinality(Kind(G, kind)) = Cardinality(Kind(F, kind)) + 1
        BY <2>1, <3>1, KindCounts
      <3>3. \A k : k # kind => Kind(G, k) = Kind(F, k)
        BY <2>1, <3>1, KindKept
      <3>4. \A k : Cardinality(Kind(F, k)) \in Nat
        BY KindFinite
      <3> QED
        BY <3>2, <3>3, <3>4
    <2> HIDE DEF G
    <2>4. Cardinality(Kind(G, "archived")) = Cardinality(Kind(G, "unarchived")) + One(j.new.archived)
      <3>1. Cardinality(Kind(F, "archived")) = Cardinality(Kind(F, "unarchived")) + One(a.archived)
        BY DEF Balances
      <3>2. CASE a.archived
        <4>1. kind = "unarchived" /\ One(a.archived) = 1 /\ One(j.new.archived) = 0
          BY <2>2, <3>2 DEF One
        <4> QED
          BY <2>3, <3>1, <4>1
      <3>3. CASE ~a.archived
        <4>1. kind = "archived" /\ One(a.archived) = 0 /\ One(j.new.archived) = 1
          BY <2>2, <3>3 DEF One
        <4> QED
          BY <2>3, <3>1, <4>1
      <3> QED
        BY <3>2, <3>3
    <2>5. \A k : k \notin {"archived", "unarchived"} => Kind(G, k) = Kind(F, k)
      BY <2>3
    <2>6. Balances(G, j.new, s)
      BY <2>2, <2>4, <2>5 DEF Balances
    <2> QED
      BY <1>2, <2>6 DEF G
  <1>3. CASE j.on = "step" /\ j.base = s
    <2> DEFINE G == F \cup Changes(c, j)
    <2>0. ASSUME NEW x, Changes(c, j) = {x}, NEW kind, x.kind = kind
          PROVE  /\ \A k : k # kind => Kind(G, k) = Kind(F, k)
                 /\ Kind(G, kind) = Kind(F, kind) \cup {x}
                 /\ Cardinality(Kind(G, kind)) = Cardinality(Kind(F, kind)) + 1
                 /\ \A k : Cardinality(Kind(F, k)) \in Nat
                 /\ IsFiniteSet(Kind(F, kind)) /\ x \notin Kind(F, kind)
      <3>1. G = F \cup {x} /\ x \notin F
        BY <2>0
      <3> HIDE DEF G
      <3>2. /\ Kind(G, kind) = Kind(F, kind) \cup {x} /\ x \notin Kind(F, kind)
            /\ Cardinality(Kind(G, kind)) = Cardinality(Kind(F, kind)) + 1
        <4>1. Kind(G, kind) = Kind(F, kind) \cup {x} /\ x \notin Kind(F, kind)
          BY <2>0, <3>1, KindCounts
        <4>2. Cardinality(Kind(G, kind)) = Cardinality(Kind(F, kind)) + 1
          BY <4>1, KindFinite, FS_AddElement
        <4> QED
          BY <4>1, <4>2
      <3>3. \A k : k # kind => Kind(G, k) = Kind(F, k)
        BY <2>0, <3>1, KindKept
      <3>4. IsFiniteSet(Kind(F, kind)) /\ \A k : Cardinality(Kind(F, k)) \in Nat
        BY KindFinite
      <3> QED
        BY <3>2, <3>3, <3>4
    <2> HIDE DEF G
    <2>1. ASSUME s = NoStep, j.new = [NoStep EXCEPT !.state = "open"],
                 Changes(c, j) = {event("added", None, "a")}
          PROVE  Balances(G, a, j.new)
      <3>1. /\ s.state = "unborn" /\ j.new.state = "open" /\ j.new.title = s.title
        BY <2>1 DEF NoStep
      <3>2. /\ \A k : k # "added" => Kind(G, k) = Kind(F, k)
            /\ Cardinality(Kind(G, "added")) = Cardinality(Kind(F, "added")) + 1
            /\ Cardinality(Kind(F, "added")) = 0
        <4>1. Cardinality(Kind(F, "added")) = 0
          BY <3>1 DEF Balances, One
        <4> QED
          BY <2>0, <2>1, <4>1
      <3>3. One(j.new.state # "unborn") = 1
        BY <3>1 DEF One
      <3>4. /\ One(j.new.state = "removed") = One(s.state = "removed")
            /\ One(j.new.state = "done") = One(s.state = "done")
        BY <3>1 DEF One
      <3>5. s.state # "removed"
        BY <3>1
      <3> QED
        BY <3>1, <3>2, <3>3, <3>4, <3>5 DEF Balances
    <2>2. ASSUME s.state \in {"open", "done"}, j.new = [s EXCEPT !.state = "removed"],
                 Changes(c, j) = {event("removed", s.title, None)}
          PROVE  Balances(G, a, j.new)
      <3>1. j.new.state = "removed" /\ j.new.title = s.title
        BY <2>2 DEF Step
      <3>2. /\ \A k : k # "removed" => Kind(G, k) = Kind(F, k)
            /\ Cardinality(Kind(G, "removed")) = Cardinality(Kind(F, "removed")) + 1
        BY <2>0, <2>2
      <3>3. Cardinality(Kind(F, "removed")) = 0
        BY <2>2 DEF Balances, One
      <3>4. One(j.new.state = "removed") = 1 /\ One(j.new.state # "unborn") = One(s.state # "unborn")
        BY <2>2, <3>1 DEF One
      <3> QED
        BY <3>1, <3>2, <3>3, <3>4 DEF Balances
    <2>3. ASSUME s.state \in {"open", "done"}, j.new.state = s.state,
                 Changes(c, j) = {event("renamed", s.title, j.new.title)}
          PROVE  Balances(G, a, j.new)
      <3> DEFINE x == event("renamed", s.title, j.new.title)
      <3>1. x.kind = "renamed" /\ x.from = s.title /\ x.to = j.new.title /\ Changes(c, j) = {x}
        BY <2>3
      <3> HIDE DEF x
      <3>2. /\ \A k : k # "renamed" => Kind(G, k) = Kind(F, k)
            /\ Kind(G, "renamed") = Kind(F, "renamed") \cup {x}
            /\ IsFiniteSet(Kind(F, "renamed")) /\ x \notin Kind(F, "renamed")
        BY <2>0, <3>1
      <3>3. Path(Kind(G, "renamed"), Titles, "a", j.new.title)
        BY <3>1, <3>2, AddPath DEF Balances
      <3> QED
        BY <2>3, <3>2, <3>3 DEF Balances
    <2>4. ASSUME s.state = "open", j.new = [s EXCEPT !.state = "done"],
                 Changes(c, j) = {event("finished", None, j.new.title)}
          PROVE  Balances(G, a, j.new)
      <3>1. j.new.state = "done" /\ j.new.title = s.title
        BY <2>4 DEF Step
      <3>2. /\ \A k : k # "finished" => Kind(G, k) = Kind(F, k)
            /\ Cardinality(Kind(G, "finished")) = Cardinality(Kind(F, "finished")) + 1
            /\ Cardinality(Kind(F, "reopened")) \in Nat
            /\ Cardinality(Kind(F, "finished")) \in Nat
        BY <2>0, <2>4
      <3>3. Cardinality(Kind(F, "finished")) = Cardinality(Kind(F, "reopened"))
        BY <2>4, <3>2 DEF Balances, One
      <3>4. /\ One(j.new.state = "done") = 1
            /\ One(j.new.state # "unborn") = One(s.state # "unborn")
            /\ One(j.new.state = "removed") = One(s.state = "removed")
        BY <2>4, <3>1 DEF One
      <3> QED
        BY <3>1, <3>2, <3>3, <3>4 DEF Balances
    <2>5. ASSUME s.state = "done", j.new = [s EXCEPT !.state = "open"],
                 Changes(c, j) = {event("reopened", None, j.new.title)}
          PROVE  Balances(G, a, j.new)
      <3>1. j.new.state = "open" /\ j.new.title = s.title
        BY <2>5 DEF Step
      <3>2. /\ \A k : k # "reopened" => Kind(G, k) = Kind(F, k)
            /\ Cardinality(Kind(G, "reopened")) = Cardinality(Kind(F, "reopened")) + 1
            /\ Cardinality(Kind(F, "reopened")) \in Nat
            /\ Cardinality(Kind(F, "finished")) \in Nat
        BY <2>0, <2>5
      <3>3. Cardinality(Kind(F, "finished")) = Cardinality(Kind(F, "reopened")) + 1
        BY <2>5, <3>2 DEF Balances, One
      <3>4. /\ One(j.new.state = "done") = 0
            /\ One(j.new.state # "unborn") = One(s.state # "unborn")
            /\ One(j.new.state = "removed") = One(s.state = "removed")
        BY <2>5, <3>1 DEF One
      <3> QED
        BY <3>1, <3>2, <3>3, <3>4 DEF Balances
    <2>6. Balances(G, a, j.new)
      BY <1>3, <2>1, <2>2, <2>3, <2>4, <2>5, ChangesAre
    <2> QED
      BY <1>3, <2>6 DEF G
  <1> QED
    BY <1>1, <1>2, <1>3 DEF Sound

-----------------------------------------------------------------------------
(* How calls and documents move. *)

\* Where a call may be, with what it is doing.
Fits(p, j, docs) ==
  /\ p \in {"idle", "done"} => j = Idle
  /\ p = "create" => j = [Idle EXCEPT !.on = "update", !.new = NewAction]
  /\ p \in Begun => j.id \in Ids /\ docs[j.id] # None
  /\ p \in {"write", "record", "card"} => Sound(j, p)

\* A call goes on.
Goes(c) ==
  \E p \in Places \ {"idle"}, j \in Job :
    /\ pc' = [pc EXCEPT ![c] = p] /\ job' = [job EXCEPT ![c] = j]
    /\ pc[c] # "done" /\ (pc[c] \in Written => p \in Written)
    /\ Fits(p, j, actions')

\* The documents, and who is about to record, stay.
Reads == UNCHANGED <<actions, steps, feed, stale, unrecorded>> /\ Recording' = Recording

\* A call creates an Action, and is about to record it or has died.
Creates(c) ==
  \E i \in Ids :
    /\ actions[i] = None /\ actions' = [actions EXCEPT ![i] = NewAction]
    /\ \E n \in 0..MaxActions : {k \in Ids : actions'[k] # None} = 1..n
    /\ UNCHANGED <<steps, feed, stale, unrecorded>>
    /\ \/ Recording' = Recording
       \/ \E j \in Job : /\ j.on = "update" /\ j.base = None /\ j.id = i
                         /\ j.new = NewAction
                         /\ pc[c] \notin Written /\ pc'[c] = "record"
                         /\ Recording' = Recording \cup {<<c, j>>}

\* A call writes its copy, and is about to record it unless it dies or has only the
\* card to add.
Writes(c) ==
  LET j == job[c]
      old == IF j.on = "step" THEN steps[j.id] ELSE actions[j.id]
  IN /\ j.on \in {"update", "archive", "step"} /\ feed' = feed
     /\ IF j.on = "step"
        THEN steps' = [steps EXCEPT ![j.id] = j.new] /\ actions' = actions
        ELSE actions' = [actions EXCEPT ![j.id] = j.new] /\ steps' = steps
     /\ stale' = IF old = j.base THEN stale ELSE stale \cup {j.id}
     /\ \/ /\ pc[c] = "write" /\ pc'[c] = "record"
           /\ Recording' = Recording \cup {<<c, j>>} /\ unrecorded' = unrecorded
        \/ /\ pc[c] = "write"
           /\ Recording' = Recording /\ unrecorded' = unrecorded \cup {j.id}
        \/ pc[c] = "card" /\ Recording' = Recording /\ unrecorded' = unrecorded

\* A call records all its events, or some and the feed is known to miss one.
Records(c) ==
  LET j == job[c]
  IN /\ pc[c] = "record" /\ UNCHANGED <<actions, steps, stale>>
     /\ Recording' = Recording \ {<<c, j>>}
     /\ \E X \in SUBSET Changes(c, j) :
          /\ feed' = [feed EXCEPT ![j.id] = feed[j.id] \cup X]
          /\ \/ X = Changes(c, j) /\ unrecorded' = unrecorded
             \/ unrecorded' = unrecorded \cup {j.id}

\* The calls about to record, after one has moved.
LEMMA RecordingMoves ==
  ASSUME DocTypes, NEW c \in Calls, NEW p, NEW j,
         pc' = [pc EXCEPT ![c] = p], job' = [job EXCEPT ![c] = j]
  PROVE  /\ pc[c] # "record" /\ p # "record" => Recording' = Recording
         /\ pc[c] # "record" /\ p = "record" => Recording' = Recording \cup {<<c, j>>}
         /\ pc[c] = "record" /\ p # "record" => Recording' = Recording \ {<<c, job[c]>>}
         /\ pc[c] = "record" /\ p = "record" /\ j = job[c] => Recording' = Recording
         /\ pc'[c] = p /\ job'[c] = j
  BY DEF DocTypes, Recording

\* The next Action has an ID of its own.
LEMMA FreshId ==
  ASSUME DocTypes, Jobs, NEW i, i = 1 + Cardinality({k \in Ids : actions[k] # None}), i \in Ids
  PROVE  /\ actions[i] = None
         /\ \E n \in 0..MaxActions : {k \in Ids : actions[k] # None} \cup {i} = 1..n
  <1>1. PICK n \in 0..MaxActions : {k \in Ids : actions[k] # None} = 1..n
    BY DEF Jobs
  <1>2. Cardinality(1..n) = n
    BY <1>1, BoardAssumption, FS_Interval
  <1>3. i = n + 1
    <2>1. Cardinality({k \in Ids : actions[k] # None}) = n
      BY <1>1, <1>2, Zenon
    <2> QED
      BY <2>1
  <1>4. i \notin 1..n /\ (1..n) \cup {i} = 1..i /\ i \in 0..MaxActions
    BY <1>3, BoardAssumption DEF Ids
  <1> QED
    BY <1>1, <1>4

\* A call that ends leaves nothing behind.
LEMMA Ends ==
  ASSUME DocTypes, NEW c \in Calls, End(c), pc[c] # "done"
  PROVE  /\ Goes(c) /\ pc'[c] = "done"
         /\ pc[c] # "record" => Recording' = Recording
         /\ pc[c] = "record" => Recording' = Recording \ {<<c, job[c]>>}
  <1>1. pc' = [pc EXCEPT ![c] = "done"] /\ job' = [job EXCEPT ![c] = Idle]
    BY DEF End, Goto
  <1>2. Fits("done", Idle, actions')
    BY DEF Fits, Begun
  <1>3. "done" \in Places \ {"idle"} /\ "done" \in Written
    BY DEF Places, Written
  <1>4. Goes(c)
    BY <1>1, <1>2, <1>3, IdleIs DEF Goes
  <1> QED
    BY <1>1, <1>4, RecordingMoves

\* A call that goes on with what it is doing.
LEMMA Continues ==
  ASSUME DocTypes, Jobs, NEW c \in Calls, NEW p \in {"notify", "show", "save", "drop"},
         Goto(c, p), UNCHANGED <<actions, job>>, pc[c] \in Begun
  PROVE  /\ Goes(c) /\ pc'[c] = p
         /\ pc[c] # "record" => Recording' = Recording
         /\ pc[c] = "record" => Recording' = Recording \ {<<c, job[c]>>}
  <1>1. pc' = [pc EXCEPT ![c] = p] /\ job' = [job EXCEPT ![c] = job[c]] /\ job[c] \in Job
    BY DEF Goto, DocTypes
  <1>2. Fits(p, job[c], actions')
    BY DEF Fits, Jobs, Begun
  <1>3. p \in Places \ {"idle"} /\ p \in Written /\ pc[c] # "done"
    BY DEF Places, Written, Begun
  <1>4. Goes(c)
    BY <1>1, <1>2, <1>3 DEF Goes
  <1> QED
    BY <1>1, <1>4, RecordingMoves

\* One step of the documents and of the calls.
Moves ==
  /\ \/ UNCHANGED <<pc, job>>
     \/ \E c \in Calls : Goes(c)
  /\ \/ Reads
     \/ \E c \in Calls : Creates(c) \/ Writes(c) \/ Records(c)

\* A call that starts has only read.
LEMMA StartMoves ==
  ASSUME DocTypes, Jobs, NEW c \in Calls, Start(c)
  PROVE  Moves
  <1>1. PICK p \in {"create", "write", "card"}, j \in Job :
           /\ pc[c] = "idle" /\ pc' = [pc EXCEPT ![c] = p]
           /\ job' = [job EXCEPT ![c] = j]
           /\ UNCHANGED <<documents, channel, seen, history, faults>>
           /\ p = "create" => j = [Idle EXCEPT !.on = "update", !.new = NewAction]
           /\ p # "create" => j.id \in Ids /\ actions[j.id] # None /\ Sound(j, p)
    BY StartsWell
  <1>2. UNCHANGED <<actions, steps, feed, stale, unrecorded>>
    BY <1>1 DEF documents, history
  <1>3. Fits(p, j, actions')
    BY <1>1, <1>2 DEF Fits, Begun, Places
  <1>4. Goes(c)
    BY <1>1, <1>3 DEF Goes, Places, Written
  <1>5. Recording' = Recording
    BY <1>1, RecordingMoves
  <1> QED
    BY <1>2, <1>4, <1>5 DEF Moves, Reads

\* The use case creates an Action.
LEMMA CreateMoves ==
  ASSUME DocTypes, Jobs, NEW c \in Calls, Create(c)
  PROVE  Moves
  <1> DEFINE i == 1 + Cardinality({k \in Ids : actions[k] # None})
             stored == actions' = [actions EXCEPT ![i] = job[c].new]
             j == [job[c] EXCEPT !.id = i]
  <1>1. /\ i \in Ids /\ pc[c] = "create"
        /\ \/ stored /\ Goto(c, "record") /\ job' = [job EXCEPT ![c].id = i]
           \/ End(c) /\ (stored \/ UNCHANGED actions)
        /\ UNCHANGED <<steps, feed, stale, unrecorded>>
    BY DEF Create, history
  <1>2. job[c] = [Idle EXCEPT !.on = "update", !.new = NewAction] /\ job[c] \in Job
    BY <1>1 DEF Jobs, DocTypes
  <1>3. job[c].on = "update" /\ job[c].base = None /\ job[c].new = NewAction
    BY <1>2 DEF Idle
  <1>4. /\ j \in Job /\ j.on = "update" /\ j.base = None /\ j.new = NewAction /\ j.id = i
    BY <1>1, <1>2, <1>3 DEF Job
  <1>5. /\ actions[i] = None
        /\ \E n \in 0..MaxActions : {k \in Ids : actions[k] # None} \cup {i} = 1..n
    BY <1>1, FreshId
  <1> HIDE DEF i
  <1>6. ASSUME stored
        PROVE  /\ actions' = [actions EXCEPT ![i] = NewAction]
               /\ \E n \in 0..MaxActions : {k \in Ids : actions'[k] # None} = 1..n
               /\ actions'[i] # None
    <2>1. actions' = [actions EXCEPT ![i] = NewAction]
      BY <1>3, <1>6
    <2>2. NewAction # None
      BY IdleIs, NoneAssumption
    <2>3. {k \in Ids : actions'[k] # None} = {k \in Ids : actions[k] # None} \cup {i}
      BY <1>1, <2>1, <2>2 DEF DocTypes
    <2>4. actions'[i] # None
      BY <1>1, <2>1, <2>2 DEF DocTypes
    <2> QED
      BY <1>5, <2>1, <2>3, <2>4
  <1>7. CASE stored /\ Goto(c, "record") /\ job' = [job EXCEPT ![c].id = i]
    <2>1. pc' = [pc EXCEPT ![c] = "record"] /\ job' = [job EXCEPT ![c] = j]
      BY <1>7 DEF Goto, DocTypes
    <2>2. Sound(j, "record")
      BY <1>4 DEF Sound
    <2>3. Fits("record", j, actions')
      BY <1>1, <1>4, <1>6, <1>7, <2>2 DEF Fits
    <2>4. Goes(c)
      BY <1>1, <1>4, <2>1, <2>3 DEF Goes, Places, Written
    <2>5. Recording' = Recording \cup {<<c, j>>} /\ pc'[c] = "record"
      BY <1>1, <2>1, RecordingMoves
    <2>6. Creates(c)
      BY <1>1, <1>4, <1>5, <1>6, <1>7, <2>5 DEF Creates, Written
    <2> QED
      BY <2>4, <2>6 DEF Moves
  <1>8. CASE End(c) /\ (stored \/ UNCHANGED actions)
    <2>1. Goes(c) /\ Recording' = Recording
      BY <1>1, <1>8, Ends
    <2>2. CASE stored
      BY <1>1, <1>5, <1>6, <2>1, <2>2 DEF Moves, Creates
    <2>3. CASE UNCHANGED actions
      BY <1>1, <2>1, <2>3 DEF Moves, Reads
    <2> QED
      BY <1>8, <2>2, <2>3
  <1> QED
    BY <1>1, <1>7, <1>8

\* What Stored does to the documents.
LEMMA StoredIs ==
  ASSUME DocTypes, Jobs, NEW c \in Calls, Stored(c), pc[c] \in {"write", "card"}
  PROVE  LET j == job[c]
             old == IF j.on = "step" THEN steps[j.id] ELSE actions[j.id]
         IN \/ j.on = "comment" /\ pc[c] = "write" /\ UNCHANGED <<actions, steps, stale>>
            \/ /\ j.on \in {"update", "archive", "step"}
               /\ IF j.on = "step"
                  THEN steps' = [steps EXCEPT ![j.id] = j.new] /\ actions' = actions
                  ELSE actions' = [actions EXCEPT ![j.id] = j.new] /\ steps' = steps
               /\ stale' = IF old = j.base THEN stale ELSE stale \cup {j.id}
  <1>1. Sound(job[c], pc[c])
    BY DEF Jobs
  <1>2. job[c].on \in {"update", "archive", "step", "comment"}
        /\ (job[c].on = "comment" => pc[c] = "write")
    BY <1>1 DEF Sound
  <1> QED
    BY <1>2 DEF Stored

\* A document that exists is not lost when a copy is written.
LEMMA StoredKeeps ==
  ASSUME DocTypes, Jobs, NEW c \in Calls, Stored(c), pc[c] \in {"write", "card"}
  PROVE  \A i \in Ids : actions[i] # None => actions'[i] # None
  <1>1. Sound(job[c], pc[c]) /\ job[c].id \in Ids
    BY DEF Jobs, Begun, Places
  <1>2. job[c].on \in {"update", "archive"} /\ pc[c] # "record" => job[c].new \in Action
    BY <1>1 DEF Sound, Action
  <1> QED
    BY <1>1, <1>2, StoredIs, NoneAssumption DEF DocTypes

\* The use case writes its copy.
LEMMA WriteMoves ==
  ASSUME DocTypes, Jobs, NEW c \in Calls, Write(c)
  PROVE  Moves
  <1>1. pc[c] = "write" /\ feed' = feed /\ pc[c] # "done" /\ pc[c] # "record" /\ pc[c] \in Begun
    BY DEF Write, Begun, Places
  <1>2. job[c] \in Job /\ Sound(job[c], "write") /\ job[c].id \in Ids
    BY <1>1 DEF DocTypes, Jobs
  <1>3. CASE End(c) /\ UNCHANGED <<actions, steps, stale, unrecorded>>
    BY <1>1, <1>3, Ends DEF Moves, Reads
  <1>4. CASE /\ Stored(c) /\ End(c)
             /\ unrecorded' = IF job[c].on = "comment" THEN unrecorded
                                                       ELSE unrecorded \cup {job[c].id}
    <2>1. Goes(c) /\ Recording' = Recording
      BY <1>1, <1>4, Ends
    <2>2. CASE job[c].on = "comment"
      BY <1>1, <1>4, <2>1, <2>2, StoredIs DEF Moves, Reads
    <2>3. CASE job[c].on # "comment"
      BY <1>1, <1>4, <2>1, <2>3, StoredIs DEF Moves, Writes
    <2> QED
      BY <2>2, <2>3
  <1>5. CASE /\ Stored(c) /\ job[c].on # "comment" /\ Goto(c, "record")
             /\ UNCHANGED <<job, unrecorded>>
    <2>1. pc' = [pc EXCEPT ![c] = "record"] /\ job' = [job EXCEPT ![c] = job[c]]
      BY <1>5 DEF Goto, DocTypes
    <2>2. Recording' = Recording \cup {<<c, job[c]>>} /\ pc'[c] = "record"
      BY <1>1, <2>1, RecordingMoves
    <2>3. Sound(job[c], "record")
      BY <1>2, <1>5 DEF Sound
    <2>4. actions'[job[c].id] # None
      BY <1>1, <1>2, <1>5, StoredKeeps DEF Jobs
    <2>5. Fits("record", job[c], actions')
      BY <1>2, <2>3, <2>4 DEF Fits
    <2>6. Goes(c)
      BY <1>1, <1>2, <2>1, <2>5 DEF Goes, Places, Written
    <2>7. Writes(c)
      BY <1>1, <1>5, <2>2, StoredIs DEF Writes
    <2> QED
      BY <2>6, <2>7 DEF Moves
  <1>6. CASE /\ Stored(c) /\ job[c].on = "comment"
             /\ \/ Goto(c, "notify") /\ UNCHANGED job
                \/ End(c)
             /\ UNCHANGED unrecorded
    <2>1. UNCHANGED <<actions, steps, stale>>
      BY <1>1, <1>6, StoredIs
    <2>2. Goes(c) /\ Recording' = Recording
      BY <1>1, <1>6, <2>1, Ends, Continues
    <2> QED
      BY <1>1, <1>6, <2>1, <2>2 DEF Moves, Reads
  <1> QED
    BY <1>3, <1>4, <1>5, <1>6 DEF Write

\* The use case records what it changed.
LEMMA RecordMoves ==
  ASSUME DocTypes, Jobs, NEW c \in Calls, Record(c)
  PROVE  Moves
  <1>1. /\ pc[c] = "record" /\ UNCHANGED <<actions, steps, stale>>
        /\ pc[c] # "done" /\ pc[c] \in Begun
    BY DEF Record, Begun, Places
  <1>2. job[c] \in Job /\ Sound(job[c], "record") /\ job[c].id \in Ids /\ actions[job[c].id] # None
    BY <1>1 DEF DocTypes, Jobs
  <1>3. \E X \in SUBSET Changes(c, job[c]) :
          /\ feed' = [feed EXCEPT ![job[c].id] = feed[job[c].id] \cup X]
          /\ \/ X = Changes(c, job[c]) /\ unrecorded' = unrecorded
             \/ unrecorded' = unrecorded \cup {job[c].id}
    <2>1. CASE /\ feed' = [feed EXCEPT ![job[c].id] = @ \cup Changes(c, job[c])]
               /\ UNCHANGED unrecorded
      BY <2>1
    <2>2. CASE /\ \E e \in Changes(c, job[c]) :
                    feed' = [feed EXCEPT ![job[c].id] = @ \cup (Changes(c, job[c]) \ {e})]
               /\ unrecorded' = unrecorded \cup {job[c].id}
      BY <2>2
    <2> QED
      BY <2>1, <2>2 DEF Record
  <1>4. ASSUME Goes(c), Recording' = Recording \ {<<c, job[c]>>}
        PROVE  Moves
    BY <1>1, <1>3, <1>4 DEF Moves, Records
  <1>5. CASE /\ job[c].on = "update" /\ job[c].base = None /\ Goto(c, "card")
             /\ job' = [job EXCEPT ![c].base = job[c].new, ![c].new.carded = TRUE]
    <2> DEFINE j == [job[c] EXCEPT !.base = job[c].new,
                                   !.new = [job[c].new EXCEPT !.carded = TRUE]]
    <2>1. job[c].new = NewAction
      BY <1>2, <1>5 DEF Sound
    <2>2. /\ j.on = "update" /\ j.id = job[c].id /\ j.base = NewAction
          /\ j.new = [NewAction EXCEPT !.carded = TRUE] /\ j \in Job
          /\ j.new \in Action /\ j.new.archived = j.base.archived
      <3>1. [NewAction EXCEPT !.carded = TRUE] \in Action
            /\ [NewAction EXCEPT !.carded = TRUE].archived = NewAction.archived
        BY IdleIs DEF Action
      <3> QED
        BY <1>2, <1>5, <2>1, <3>1, IdleIs DEF Job
    <2>3. pc' = [pc EXCEPT ![c] = "card"] /\ job' = [job EXCEPT ![c] = j]
      BY <1>2, <1>5 DEF Goto, DocTypes, Job
    <2> HIDE DEF j
    <2>4. Sound(j, "card")
      BY <2>2, IdleIs, NoneAssumption DEF Sound
    <2>5. Fits("card", j, actions')
      BY <1>1, <1>2, <2>2, <2>4 DEF Fits
    <2>6. Goes(c)
      BY <1>1, <2>2, <2>3, <2>5 DEF Goes, Places, Written
    <2>7. Recording' = Recording \ {<<c, job[c]>>}
      BY <1>1, <2>3, RecordingMoves
    <2> QED
      BY <1>4, <2>6, <2>7
  <1>6. CASE Goto(c, "notify") /\ UNCHANGED job
    BY <1>1, <1>4, <1>6, Continues
  <1>7. CASE End(c)
    BY <1>1, <1>4, <1>7, Ends
  <1> QED
    BY <1>5, <1>6, <1>7 DEF Record

\* The timestamp of the card is written with the rest of the copy.
LEMMA PostCardMoves ==
  ASSUME DocTypes, Jobs, NEW c \in Calls, PostCard(c)
  PROVE  Moves
  <1>1. /\ pc[c] = "card" /\ End(c) /\ feed' = feed /\ unrecorded' = unrecorded
        /\ Stored(c) \/ UNCHANGED <<actions, steps, stale>>
    BY DEF PostCard
  <1>2. Goes(c) /\ Recording' = Recording
    BY <1>1, Ends
  <1>3. CASE Stored(c)
    <2>1. job[c].on # "comment"
      BY <1>1, <1>3, StoredIs
    <2> QED
      BY <1>1, <1>2, <1>3, <2>1, StoredIs DEF Moves, Writes
  <1>4. CASE UNCHANGED <<actions, steps, stale>>
    BY <1>1, <1>2, <1>4 DEF Moves, Reads
  <1> QED
    BY <1>1, <1>3, <1>4

\* At the channel a call leaves the documents alone.
LEMMA ChannelMoves ==
  ASSUME DocTypes, Jobs, NEW c \in Calls,
         GetActive(c) \/ PostSlot(c) \/ UpdateSlot(c) \/ SaveSlot(c) \/ DropSlot(c)
  PROVE  Moves
  <1>1. /\ UNCHANGED <<actions, steps, feed, stale, unrecorded>>
        /\ pc[c] \in {"notify", "show", "save", "drop"}
        /\ End(c) \/ \E p \in {"show", "save", "drop"} : Goto(c, p) /\ UNCHANGED job
    BY DEF GetActive, PostSlot, UpdateSlot, SaveSlot, DropSlot, documents, history, AfterNoUpdate
  <1>2. pc[c] \in Begun /\ pc[c] # "done" /\ pc[c] # "record"
    BY <1>1 DEF Begun, Places
  <1>3. Goes(c) /\ Recording' = Recording
    BY <1>1, <1>2, Ends, Continues
  <1> QED
    BY <1>1, <1>3 DEF Moves, Reads

\* A dead call records nothing more.
LEMMA DieMoves ==
  ASSUME DocTypes, Jobs, NEW c \in Calls, Die(c)
  PROVE  Moves
  <1>1. /\ pc[c] # "done" /\ pc[c] # "idle" /\ End(c) /\ UNCHANGED <<actions, steps, feed, stale>>
        /\ pc[c] = "record" => unrecorded' = unrecorded \cup {job[c].id}
        /\ pc[c] # "record" => unrecorded' = unrecorded
    BY DEF Die, documents
  <1>2. CASE pc[c] = "record"
    <2>1. Goes(c) /\ Recording' = Recording \ {<<c, job[c]>>}
      BY <1>1, <1>2, Ends
    <2>2. feed' = [feed EXCEPT ![job[c].id] = feed[job[c].id] \cup {}]
      BY <1>1 DEF DocTypes
    <2>3. {} \in SUBSET Changes(c, job[c])
      OBVIOUS
    <2>4. Records(c)
      BY <1>1, <1>2, <2>1, <2>2, <2>3, Zenon DEF Records
    <2> QED
      BY <2>1, <2>4 DEF Moves
  <1>3. CASE pc[c] # "record"
    BY <1>1, <1>3, Ends DEF Moves, Reads
  <1> QED
    BY <1>2, <1>3

\* So every step is of that kind.
LEMMA StepMoves ==
  ASSUME DocTypes, Jobs, [Next]_vars
  PROVE  Moves
  <1>1. CASE UNCHANGED vars \/ \E m \in Calls : Expire(m) \/ DeleteMessage(m)
    <2>1. UNCHANGED <<actions, steps, feed, stale, unrecorded, pc, job>>
      BY <1>1 DEF vars, documents, history, call, Expire, DeleteMessage
    <2>2. Recording' = Recording
      BY <2>1 DEF Recording
    <2> QED
      BY <2>1, <2>2 DEF Moves, Reads
  <1>2. CASE \E c \in Calls : Start(c) \/ Proceed(c) \/ Die(c)
    BY <1>2, StartMoves, CreateMoves, WriteMoves, RecordMoves, PostCardMoves, ChannelMoves,
       DieMoves DEF Proceed
  <1> QED
    BY <1>1, <1>2 DEF Next

-----------------------------------------------------------------------------
(* The documents and the calls stay what they should be. *)

\* What a call at its write has in hand.
LEMMA InHand ==
  ASSUME DocTypes, Jobs, NEW c \in Calls, pc[c] \in {"write", "record", "card"},
         job[c].on \in {"update", "archive", "step"}
  PROVE  LET j == job[c]
         IN /\ j \in Job /\ j.id \in Ids /\ actions[j.id] \in Action /\ steps[j.id] \in Step
            /\ pc[c] # "card" => Sound(j, "record")
            /\ pc[c] # "record" => j.base # None
            /\ pc[c] = "card" => /\ j.on = "update"
                                 /\ j.base \in Action /\ j.new = [j.base EXCEPT !.carded = TRUE]
            /\ j.on \in {"update", "archive"} => j.new \in Action
            /\ j.on = "step" => j.new \in Step /\ j.base \in Step
  <1>1. /\ job[c] \in Job /\ job[c].id \in Ids /\ actions[job[c].id] # None /\ Sound(job[c], pc[c])
    BY DEF DocTypes, Jobs, Begun, Places
  <1>2. actions[job[c].id] \in Action /\ steps[job[c].id] \in Step
    BY <1>1 DEF DocTypes
  <1>3. CASE job[c].on = "update"
    BY <1>1, <1>2, <1>3, IdleIs DEF Sound
  <1>4. CASE job[c].on = "archive"
    <2>1. job[c].new \in Action /\ job[c].base \in Action
      BY <1>1, <1>4 DEF Sound, Action
    <2>2. job[c].base # None
      BY <2>1, NoneAssumption
    <2> QED
      BY <1>1, <1>2, <1>4, <2>1, <2>2 DEF Sound
  <1>5. CASE job[c].on = "step"
    <2>1. job[c].new \in Step /\ job[c].base \in Step
      BY <1>1, <1>5 DEF Sound, StepChanges
    <2>2. job[c].base # None
      BY <2>1, NoneAssumption
    <2> QED
      BY <1>1, <1>2, <1>5, <2>1, <2>2 DEF Sound
  <1> QED
    BY <1>3, <1>4, <1>5

\* The types.
LEMMA DocTypesKept ==
  ASSUME DocTypes, Jobs, Moves, faults' \in 0..MaxFaults
  PROVE  DocTypes'
  <1>1. pc' \in [Calls -> Places] /\ job' \in [Calls -> Job]
    BY Zenon DEF DocTypes, Moves, Goes
  <1> DEFINE Typed == /\ actions' \in [Ids -> Action \cup {None}] /\ steps' \in [Ids -> Step]
                      /\ feed' \in [Ids -> SUBSET Event]
                      /\ stale' \subseteq Ids /\ unrecorded' \subseteq Ids
  <1>2. Typed
    <2>1. CASE Reads
      BY <2>1 DEF Reads, DocTypes
    <2>2. ASSUME NEW c \in Calls, Creates(c)
          PROVE  Typed
      BY <2>2, IdleIs DEF Creates, DocTypes
    <2>3. ASSUME NEW c \in Calls, Writes(c)
          PROVE  Typed
      <3>1. pc[c] \in {"write", "card"} /\ job[c].on \in {"update", "archive", "step"}
        BY <2>3 DEF Writes
      <3>2. /\ job[c].id \in Ids
            /\ job[c].on # "step" => job[c].new \in Action
            /\ job[c].on = "step" => job[c].new \in Step
        BY <3>1, InHand
      <3>3. /\ \/ steps' = [steps EXCEPT ![job[c].id] = job[c].new] /\ actions' = actions
                  /\ job[c].new \in Step
               \/ actions' = [actions EXCEPT ![job[c].id] = job[c].new] /\ steps' = steps
                  /\ job[c].new \in Action
            /\ stale' \in {stale, stale \cup {job[c].id}}
            /\ unrecorded' \in {unrecorded, unrecorded \cup {job[c].id}}
            /\ feed' = feed
        BY <2>3, <3>2 DEF Writes
      <3> QED
        BY <3>2, <3>3 DEF DocTypes
    <2>4. ASSUME NEW c \in Calls, Records(c)
          PROVE  Typed
      <3>1. pc[c] = "record" /\ job[c] \in Job /\ job[c].id \in Ids /\ Sound(job[c], "record")
        BY <2>4 DEF Records, DocTypes, Jobs, Begun, Places
      <3>2. Changes(c, job[c]) \subseteq Event
        BY <3>1, ChangesTyped
      <3>3. PICK X \in SUBSET Changes(c, job[c]) :
              /\ feed' = [feed EXCEPT ![job[c].id] = feed[job[c].id] \cup X]
              /\ unrecorded' \in {unrecorded, unrecorded \cup {job[c].id}}
        BY <2>4 DEF Records
      <3>4. feed[job[c].id] \cup X \in SUBSET Event
        BY <3>1, <3>2 DEF DocTypes
      <3> QED
        BY <2>4, <3>1, <3>3, <3>4 DEF DocTypes, Records
    <2> QED
      BY <2>1, <2>2, <2>3, <2>4 DEF Moves
  <1> QED
    BY <1>1, <1>2 DEF DocTypes

\* No Action is ever gone.
LEMMA ActionsStay ==
  ASSUME DocTypes, Jobs, Moves
  PROVE  \A i \in Ids : actions[i] # None => actions'[i] # None
  <1>1. ASSUME NEW c \in Calls, Writes(c)
        PROVE  \A i \in Ids : actions[i] # None => actions'[i] # None
    <2>1. pc[c] \in {"write", "card"} /\ job[c].on \in {"update", "archive", "step"}
      BY <1>1 DEF Writes
    <2>2. job[c].id \in Ids /\ (job[c].on # "step" => job[c].new \in Action)
      BY <2>1, InHand
    <2>3. \/ actions' = actions
          \/ actions' = [actions EXCEPT ![job[c].id] = job[c].new] /\ job[c].new \in Action
      BY <1>1, <2>2 DEF Writes
    <2> QED
      BY <2>2, <2>3, NoneAssumption DEF DocTypes
  <1>2. NewAction # None
    BY IdleIs, NoneAssumption
  <1> QED
    BY <1>1, <1>2 DEF Moves, Reads, Creates, Records, DocTypes

\* What the calls know.
LEMMA JobsKept ==
  ASSUME DocTypes, Jobs, Moves
  PROVE  Jobs'
  <1>1. \E n \in 0..MaxActions : {i \in Ids : actions'[i] # None} = 1..n
    <2>1. CASE \E c \in Calls : Creates(c)
      BY <2>1 DEF Creates
    <2>2. CASE {i \in Ids : actions'[i] # None} = {i \in Ids : actions[i] # None}
      BY <2>2 DEF Jobs
    <2>3. ASSUME NEW c \in Calls, Writes(c)
          PROVE  {i \in Ids : actions'[i] # None} = {i \in Ids : actions[i] # None}
      <3>1. pc[c] \in {"write", "card"} /\ job[c].on \in {"update", "archive", "step"}
        BY <2>3 DEF Writes
      <3>2. job[c].id \in Ids /\ actions[job[c].id] \in Action
            /\ (job[c].on # "step" => job[c].new \in Action)
        BY <3>1, InHand
      <3>3. \/ actions' = actions
            \/ actions' = [actions EXCEPT ![job[c].id] = job[c].new] /\ job[c].new \in Action
        BY <2>3, <3>2 DEF Writes
      <3> QED
        BY <3>2, <3>3, NoneAssumption DEF DocTypes
    <2>4. Reads \/ (\E c \in Calls : Records(c)) => actions' = actions
      BY DEF Reads, Records
    <2> QED
      BY <2>1, <2>2, <2>3, <2>4 DEF Moves
  <1>2. ASSUME NEW d \in Calls
        PROVE  Fits(pc'[d], job'[d], actions')
    <2>1. Fits(pc[d], job[d], actions)
      BY DEF Jobs, Fits
    <2>2. Fits(pc[d], job[d], actions')
      BY <2>1, ActionsStay DEF Fits
    <2>3. CASE UNCHANGED <<pc, job>>
      BY <2>2, <2>3
    <2>4. ASSUME NEW c \in Calls, Goes(c)
          PROVE  Fits(pc'[d], job'[d], actions')
      <3>1. PICK p \in Places \ {"idle"}, j \in Job :
               /\ pc' = [pc EXCEPT ![c] = p] /\ job' = [job EXCEPT ![c] = j]
               /\ Fits(p, j, actions')
        BY <2>4 DEF Goes
      <3>2. IF d = c THEN pc'[d] = p /\ job'[d] = j ELSE pc'[d] = pc[d] /\ job'[d] = job[d]
        BY <3>1 DEF DocTypes
      <3> QED
        BY <2>2, <3>1, <3>2
    <2> QED
      BY <2>3, <2>4 DEF Moves
  <1> QED
    BY <1>1, <1>2 DEF Jobs, Fits

-----------------------------------------------------------------------------
(* The feed accounts for the documents. *)

\* One more call about to record.
LEMMA ComingGrows ==
  ASSUME NEW R, NEW c, NEW j, NEW i
  PROVE  /\ j.id = i => Coming(R \cup {<<c, j>>}, i) = Coming(R, i) \cup Changes(c, j)
         /\ j.id # i => Coming(R \cup {<<c, j>>}, i) = Coming(R, i)
  <1>1. \A S, e : e \in Coming(S, i) <=> \E q \in S : q[2].id = i /\ e \in Changes(q[1], q[2])
    BY Zenon DEF Coming
  <1>2. \A e : e \in Coming(R \cup {<<c, j>>}, i)
                <=> e \in Coming(R, i) \/ (j.id = i /\ e \in Changes(c, j))
    <2>1. <<c, j>>[1] = c /\ <<c, j>>[2] = j
      OBVIOUS
    <2>2. \A q : q \in R \cup {<<c, j>>} <=> q \in R \/ q = <<c, j>>
      OBVIOUS
    <2> TAKE e
    <2>3. e \in Coming(R \cup {<<c, j>>}, i)
            <=> \E q \in R \cup {<<c, j>>} : q[2].id = i /\ e \in Changes(q[1], q[2])
      BY <1>1
    <2>4. e \in Coming(R, i) <=> \E q \in R : q[2].id = i /\ e \in Changes(q[1], q[2])
      BY <1>1
    <2>5. (\E q \in R \cup {<<c, j>>} : q[2].id = i /\ e \in Changes(q[1], q[2]))
            <=> \/ \E q \in R : q[2].id = i /\ e \in Changes(q[1], q[2])
                \/ j.id = i /\ e \in Changes(c, j)
      BY <2>1, <2>2
    <2> QED
      BY <2>3, <2>4, <2>5, Zenon
  <1> QED
    BY <1>2

\* The events of one that is about to record are due.
LEMMA ComingHas ==
  ASSUME NEW R, NEW c, NEW j, NEW i, <<c, j>> \in R
  PROVE  /\ j.id = i => /\ Coming(R, i) = Coming(R \ {<<c, j>>}, i) \cup Changes(c, j)
         /\ j.id # i => Coming(R, i) = Coming(R \ {<<c, j>>}, i)
  <1>1. (R \ {<<c, j>>}) \cup {<<c, j>>} = R
    OBVIOUS
  <1> DEFINE Q == R \ {<<c, j>>}
  <1>2. /\ j.id = i => Coming(Q \cup {<<c, j>>}, i) = Coming(Q, i) \cup Changes(c, j)
        /\ j.id # i => Coming(Q \cup {<<c, j>>}, i) = Coming(Q, i)
    BY ComingGrows
  <1> QED
    BY <1>1, <1>2

\* Who has written is past its write for good.
LEMMA WrittenStays ==
  ASSUME DocTypes, Moves, NEW d \in Calls, pc[d] \in Written
  PROVE  pc'[d] \in Written
  <1>1. ASSUME NEW c \in Calls, Goes(c)
        PROVE  pc'[d] \in Written
    <2>1. PICK p : pc' = [pc EXCEPT ![c] = p] /\ (pc[c] \in Written => p \in Written)
      BY <1>1 DEF Goes
    <2> QED
      BY <2>1 DEF DocTypes
  <1> QED
    BY <1>1 DEF Moves

\* The feed, with what is on its way, accounts for every Action.
LEMMA FeedsKept ==
  ASSUME DocTypes, DocTypes', Jobs, Feeds, Moves
  PROVE  Feeds'
  <1> DEFINE Holds(i) ==
        /\ IsFiniteSet(Due'[i])
        /\ \A e \in Due'[i] : pc'[e.by] \in Written
        /\ actions'[i] = None => Due'[i] = {} /\ steps'[i] = NoStep
        /\ actions'[i] # None /\ i \notin stale' \cup unrecorded'
             => Balances(Due'[i], actions'[i], steps'[i])
  <1>1. ASSUME NEW i \in Ids
        PROVE  /\ Due[i] = feed[i] \cup Coming(Recording, i)
               /\ Due'[i] = feed'[i] \cup Coming(Recording', i)
    BY DEF Due
  <1>2. ASSUME NEW i \in Ids
        PROVE  /\ IsFiniteSet(Due[i])
               /\ \A e \in Due[i] : e.by \in Calls /\ pc[e.by] \in Written /\ pc'[e.by] \in Written
               /\ actions[i] = None => Due[i] = {} /\ steps[i] = NoStep
               /\ actions[i] # None /\ i \notin stale \cup unrecorded
                    => Balances(Due[i], actions[i], steps[i])
    <2>1. \A r \in Recording : r[1] \in Calls /\ r[2] \in Job /\ Sound(r[2], "record")
      BY DEF Recording, Jobs, DocTypes
    <2>2. \A e \in Coming(Recording, i) : e.by \in Calls
      BY <2>1, ChangesTyped DEF Coming
    <2>3. \A e \in feed[i] : e.by \in Calls
      BY DEF DocTypes, Event
    <2>4. \A e \in Due[i] : e.by \in Calls
      BY <1>1, <2>2, <2>3
    <2> QED
      BY <2>4, WrittenStays DEF Feeds
  <1>3. ASSUME NEW i \in Ids, Due'[i] = Due[i], actions'[i] = actions[i], steps'[i] = steps[i],
               stale \subseteq stale', unrecorded \subseteq unrecorded'
        PROVE  Holds(i)
    BY <1>2, <1>3
  <1>4. ASSUME Reads
        PROVE  \A i \in Ids : Holds(i)
    <2>1. \A i \in Ids : Due'[i] = Due[i]
      BY <1>1, <1>4 DEF Reads
    <2> QED
      BY <1>3, <1>4, <2>1 DEF Reads
  <1>5. ASSUME NEW c \in Calls, Creates(c)
        PROVE  \A i \in Ids : Holds(i)
    <2>1. PICK k \in Ids :
            /\ actions[k] = None /\ actions' = [actions EXCEPT ![k] = NewAction]
            /\ UNCHANGED <<steps, feed, stale, unrecorded>>
            /\ \/ Recording' = Recording
               \/ \E j \in Job : /\ j.on = "update" /\ j.base = None /\ j.id = k
                                 /\ j.new = NewAction
                                 /\ pc[c] \notin Written /\ pc'[c] = "record"
                                 /\ Recording' = Recording \cup {<<c, j>>}
      BY <1>5 DEF Creates
    <2>2. actions'[k] = NewAction /\ NewAction # None /\ Due[k] = {} /\ steps[k] = NoStep
      BY <1>2, <2>1, IdleIs, NoneAssumption DEF DocTypes
    <2>3. ASSUME NEW i \in Ids, i # k
          PROVE  Holds(i)
      <3>1. Coming(Recording', i) = Coming(Recording, i)
        <4>1. CASE Recording' = Recording
          BY <4>1
        <4>2. ASSUME NEW j, j.id = k, Recording' = Recording \cup {<<c, j>>}
              PROVE  Coming(Recording', i) = Coming(Recording, i)
          <5>1. j.id # i
            BY <2>3, <4>2
          <5>2. Coming(Recording \cup {<<c, j>>}, i) = Coming(Recording, i)
            BY <5>1, ComingGrows
          <5> QED
            BY <4>2, <5>1, <5>2
        <4> QED
          BY <2>1, <4>1, <4>2
      <3>2. Due'[i] = Due[i]
        BY <1>1, <2>1, <3>1
      <3>3. actions'[i] = actions[i]
        BY <2>1, <2>3 DEF DocTypes
      <3> QED
        BY <1>3, <2>1, <3>2, <3>3
    <2>4. \/ Due'[k] = {}
          \/ /\ \E e : Due'[k] = {e} /\ e.kind = "created" /\ e.by = c
             /\ pc'[c] \in Written
      <3>1. CASE Recording' = Recording
        BY <1>1, <2>1, <2>2, <3>1
      <3>2. ASSUME NEW j \in Job, j.on = "update", j.base = None, j.id = k, j.new = NewAction,
                   pc'[c] = "record", Recording' = Recording \cup {<<c, j>>}
            PROVE  (\E e : Due'[k] = {e} /\ e.kind = "created" /\ e.by = c) /\ pc'[c] \in Written
        <4> DEFINE e == [kind |-> "created", from |-> None, to |-> "a", by |-> c]
        <4>1. Sound(j, "record")
          BY <3>2 DEF Sound
        <4>2. Changes(c, j) = {e}
          BY <3>2, <4>1, ChangesAre
        <4>3. Coming(Recording', k) = Coming(Recording, k) \cup {e}
          BY <3>2, <4>2, ComingGrows
        <4>4. Due'[k] = {e}
          BY <1>1, <2>1, <2>2, <4>3
        <4>5. e.kind = "created" /\ e.by = c
          OBVIOUS
        <4>6. pc'[c] \in Written
          BY <3>2 DEF Written, Places
        <4> HIDE DEF e
        <4> QED
          BY <4>4, <4>5, <4>6
      <3> QED
        BY <2>1, <3>1, <3>2
    <2>5. Holds(k)
      <3>1. Balances(Due'[k], NewAction, NoStep)
        BY <2>4, BalanceStarts
      <3>2. IsFiniteSet(Due'[k])
        BY <2>4, FS_EmptySet, FS_Singleton
      <3>3. \A e \in Due'[k] : pc'[e.by] \in Written
        BY <2>4
      <3> QED
        BY <2>1, <2>2, <3>1, <3>2, <3>3
    <2> QED
      BY <2>3, <2>5
  <1>6. ASSUME NEW c \in Calls, Writes(c)
        PROVE  \A i \in Ids : Holds(i)
    <2> DEFINE j == job[c]
               k == job[c].id
               old == IF j.on = "step" THEN steps[k] ELSE actions[k]
    <2>1. /\ j.on \in {"update", "archive", "step"} /\ pc[c] \in {"write", "card"} /\ feed' = feed
          /\ IF j.on = "step"
             THEN steps' = [steps EXCEPT ![k] = j.new] /\ actions' = actions
             ELSE actions' = [actions EXCEPT ![k] = j.new] /\ steps' = steps
          /\ stale' = IF old = j.base THEN stale ELSE stale \cup {k}
          /\ \/ /\ pc[c] = "write" /\ pc'[c] = "record"
                /\ Recording' = Recording \cup {<<c, j>>} /\ unrecorded' = unrecorded
             \/ /\ pc[c] = "write"
                /\ Recording' = Recording /\ unrecorded' = unrecorded \cup {k}
             \/ pc[c] = "card" /\ Recording' = Recording /\ unrecorded' = unrecorded
      BY <1>6 DEF Writes
    <2>2. /\ j \in Job /\ k \in Ids /\ actions[k] \in Action /\ steps[k] \in Step
          /\ pc[c] # "card" => Sound(j, "record")
          /\ j.base # None
          /\ pc[c] = "card" => /\ j.on = "update"
                               /\ j.base \in Action /\ j.new = [j.base EXCEPT !.carded = TRUE]
          /\ j.on \in {"update", "archive"} => j.new \in Action
          /\ j.on = "step" => j.new \in Step /\ j.base \in Step
      BY <2>1, InHand
    <2> HIDE DEF j, k
    <2>3. stale \subseteq stale' /\ unrecorded \subseteq unrecorded'
      BY <2>1
    <2>4. ASSUME NEW i \in Ids, i # k
          PROVE  Holds(i)
      <3>1. Coming(Recording', i) = Coming(Recording, i)
        <4>1. CASE Recording' = Recording
          BY <4>1
        <4>2. CASE Recording' = Recording \cup {<<c, j>>}
          <5>1. j.id # i
            BY <2>4 DEF j, k
          <5>2. /\ j.id = i => Coming(Recording \cup {<<c, j>>}, i) = Coming(Recording, i) \cup Changes(c, j)
                /\ j.id # i => Coming(Recording \cup {<<c, j>>}, i) = Coming(Recording, i)
            BY ComingGrows
          <5> QED
            BY <4>2, <5>1, <5>2
        <4> QED
          BY <2>1, <4>1, <4>2
      <3>2. Due'[i] = Due[i]
        BY <1>1, <2>1, <3>1
      <3>3. actions'[i] = actions[i] /\ steps'[i] = steps[i]
        BY <2>1, <2>4 DEF DocTypes
      <3> QED
        BY <1>3, <2>3, <3>2, <3>3
    <2>5. /\ actions'[k] # None /\ actions[k] # None
          /\ j.on # "step" => actions'[k] = j.new /\ steps'[k] = steps[k]
          /\ j.on = "step" => actions'[k] = actions[k] /\ steps'[k] = j.new
      BY <2>1, <2>2, NoneAssumption DEF DocTypes
    <2>6. CASE pc[c] = "write" /\ Recording' = Recording /\ unrecorded' = unrecorded \cup {k}
      <3>1. Due'[k] = Due[k]
        BY <1>1, <2>1, <2>2, <2>6
      <3>2. k \in unrecorded'
        BY <2>6
      <3> QED
        BY <1>2, <2>2, <2>4, <2>5, <3>1, <3>2
    <2>7. CASE pc[c] = "card" /\ Recording' = Recording /\ unrecorded' = unrecorded
      <3>1. Due'[k] = Due[k] /\ steps'[k] = steps[k] /\ actions'[k] = j.new
        BY <1>1, <2>1, <2>2, <2>5, <2>7
      <3>2. CASE old # j.base
        <4>1. k \in stale'
          BY <2>1, <3>2
        <4> QED
          BY <1>2, <2>2, <2>4, <2>5, <3>1, <4>1
      <3>3. CASE old = j.base
        <4>1. j.new = [actions[k] EXCEPT !.carded = TRUE] /\ stale' = stale
          BY <2>1, <2>2, <2>7, <3>3
        <4>2. j.new.status = actions[k].status /\ j.new.title = actions[k].title
              /\ j.new.archived = actions[k].archived
          BY <2>2, <4>1 DEF Action
        <4>3. k \notin stale' \cup unrecorded' => Balances(Due'[k], j.new, steps[k])
          BY <1>2, <2>2, <2>5, <2>7, <3>1, <4>1, <4>2 DEF Balances
        <4> QED
          BY <1>2, <2>2, <2>4, <2>5, <3>1, <4>3
      <3> QED
        BY <3>2, <3>3
    <2>8. CASE /\ pc[c] = "write" /\ pc'[c] = "record"
               /\ Recording' = Recording \cup {<<c, j>>} /\ unrecorded' = unrecorded
      <3>1. Due'[k] = Due[k] \cup Changes(c, j)
        <4>1. Coming(Recording', k) = Coming(Recording, k) \cup Changes(c, j)
          BY <2>8, ComingGrows DEF k, j
        <4> QED
          BY <1>1, <2>1, <2>2, <4>1
      <3>2. IsFiniteSet(Changes(c, j)) /\ \A e \in Changes(c, j) : e.by = c
        BY <2>2, <2>8, ChangesTyped
      <3>3. IsFiniteSet(Due'[k])
        <4>1. IsFiniteSet(Due[k])
          BY <1>2, <2>2
        <4> QED
          BY <3>1, <3>2, <4>1, FS_Union
      <3>4. \A e \in Due'[k] : pc'[e.by] \in Written
        BY <1>2, <2>2, <2>8, <3>1, <3>2 DEF Written, Places
      <3>5. \A e \in Changes(c, j) : e \notin Due[k]
        BY <1>2, <2>2, <2>8, <3>2 DEF Written, Places
      <3>6. k \notin stale' \cup unrecorded' => Balances(Due'[k], actions'[k], steps'[k])
        <4> SUFFICES ASSUME k \notin stale' \cup unrecorded'
                     PROVE  Balances(Due'[k], actions'[k], steps'[k])
          OBVIOUS
        <4>1. old = j.base /\ k \notin stale \cup unrecorded
          BY <2>1, <2>8
        <4>2. Balances(Due[k], actions[k], steps[k]) /\ IsFiniteSet(Due[k])
          BY <1>2, <2>2, <2>5, <4>1
        <4>3. CASE j.on = "step"
          <5>1. j.base = steps[k]
            BY <4>1, <4>3
          <5>2. Balances(Due[k] \cup Changes(c, j), actions[k], j.new)
            BY <2>2, <2>8, <3>5, <4>2, <4>3, <5>1, BalanceMoves
          <5> QED
            BY <2>5, <3>1, <4>3, <5>2
        <4>4. CASE j.on # "step"
          <5>1. j.base = actions[k] /\ j.on \in {"update", "archive"}
            BY <2>1, <4>1, <4>4
          <5>2. Balances(Due[k] \cup Changes(c, j), j.new, steps[k])
            BY <2>2, <2>8, <3>5, <4>2, <5>1, BalanceMoves
          <5> QED
            BY <2>5, <3>1, <4>4, <5>2
        <4> QED
          BY <4>3, <4>4
      <3>7. Holds(k)
        BY <2>5, <3>3, <3>4, <3>6
      <3> QED
        BY <2>4, <3>7
    <2> QED
      BY <2>1, <2>6, <2>7, <2>8
  <1>7. ASSUME NEW c \in Calls, Records(c)
        PROVE  \A i \in Ids : Holds(i)
    <2> DEFINE j == job[c]
               k == job[c].id
    <2>1. /\ pc[c] = "record" /\ UNCHANGED <<actions, steps, stale>>
          /\ Recording' = Recording \ {<<c, j>>}
      BY <1>7 DEF Records
    <2>2. PICK X \in SUBSET Changes(c, j) :
            /\ feed' = [feed EXCEPT ![k] = feed[k] \cup X]
            /\ \/ X = Changes(c, j) /\ unrecorded' = unrecorded
               \/ unrecorded' = unrecorded \cup {k}
      BY <1>7 DEF Records
    <2>3. <<c, j>> \in Recording /\ k \in Ids /\ actions[k] # None
      BY <2>1 DEF Recording, Jobs, Begun, Places
    <2>4. unrecorded \subseteq unrecorded' /\ stale \subseteq stale'
      BY <2>1, <2>2
    <2>5. /\ Coming(Recording, k) = Coming(Recording', k) \cup Changes(c, j)
          /\ \A i : i # k => Coming(Recording, i) = Coming(Recording', i)
      BY <2>1, <2>3, ComingHas
    <2> HIDE DEF j, k
    <2>6. ASSUME NEW i \in Ids, i # k
          PROVE  Holds(i)
      <3>1. feed'[i] = feed[i]
        BY <2>2, <2>6 DEF DocTypes
      <3>2. Due'[i] = Due[i]
        BY <1>1, <2>5, <2>6, <3>1
      <3> QED
        BY <1>3, <2>1, <2>4, <3>2
    <2>7. Due'[k] = (feed[k] \cup X) \cup Coming(Recording', k)
          /\ Due[k] = feed[k] \cup (Coming(Recording', k) \cup Changes(c, j))
      BY <1>1, <2>2, <2>3, <2>5 DEF DocTypes
    <2>8. CASE X = Changes(c, j)
      <3>1. Due'[k] = Due[k]
        BY <2>7, <2>8
      <3> QED
        BY <1>3, <2>1, <2>3, <2>4, <2>6, <3>1
    <2>9. CASE unrecorded' = unrecorded \cup {k}
      <3>1. Due'[k] \subseteq Due[k]
        BY <2>7
      <3>2. IsFiniteSet(Due'[k])
        BY <1>2, <2>3, <3>1, FS_Subset
      <3>3. Holds(k)
        BY <1>2, <2>1, <2>3, <2>9, <3>1, <3>2
      <3> QED
        BY <2>6, <3>3
    <2> QED
      BY <2>2, <2>8, <2>9
  <1>8. \A i \in Ids : Holds(i)
    BY <1>4, <1>5, <1>6, <1>7 DEF Moves
  <1> QED
    BY <1>8 DEF Feeds

\* When nobody is about to record a change of an Action, its feed says it all.
LEMMA FeedFollows ==
  ASSUME DocTypes, Feeds
  PROVE  FeedBalances
  <1> SUFFICES ASSUME NEW i \in Ids, actions[i] # None, i \notin stale \cup unrecorded,
                      \A c \in Calls : pc[c] = "record" => job[c].id # i
               PROVE  /\ Leads(i, "status", Statuses, "todo", actions[i].status)
                      /\ Leads(i, "title", Titles, "a", actions[i].title)
                      /\ Leads(i, "renamed", Titles, "a", steps[i].title)
                      /\ Count(i, {"archived"}) = Count(i, {"unarchived"}) + One(actions[i].archived)
                      /\ Count(i, {"added"}) = One(steps[i].state # "unborn")
                      /\ Count(i, {"removed"}) = One(steps[i].state = "removed")
                      /\ steps[i].state # "removed" =>
                           Count(i, {"finished"}) = Count(i, {"reopened"})
                                                      + One(steps[i].state = "done")
    BY DEF FeedBalances
  <1>1. Coming(Recording, i) = {}
    <2>1. {q \in Recording : q[2].id = i} = {}
      BY DEF Recording
    <2> QED
      BY <2>1 DEF Coming
  <1>2. Due[i] = feed[i]
    BY <1>1 DEF Due
  <1>3. Balances(feed[i], actions[i], steps[i])
    BY <1>2 DEF Feeds
  <1>4. ASSUME NEW k, NEW values, NEW first, NEW last, Path(Kind(feed[i], k), values, first, last)
        PROVE  Leads(i, k, values, first, last)
    <2> SUFFICES ASSUME NEW v \in values
                 PROVE  Cardinality({e \in feed[i] : e.kind = k /\ e.to = v}) + One(v = first)
                          = Cardinality({e \in feed[i] : e.kind = k /\ e.from = v}) + One(v = last)
      BY DEF Leads
    <2>1. /\ {e \in feed[i] : e.kind = k /\ e.to = v} = {e \in Kind(feed[i], k) : e.to = v}
          /\ {e \in feed[i] : e.kind = k /\ e.from = v} = {e \in Kind(feed[i], k) : e.from = v}
      BY DEF Kind
    <2>2. Cardinality({e \in Kind(feed[i], k) : e.to = v}) + One(v = first)
            = Cardinality({e \in Kind(feed[i], k) : e.from = v}) + One(v = last)
      BY <1>4 DEF Path
    <2> QED
      BY <2>1, <2>2, Zenon
  <1>5. \A k : Count(i, {k}) = Cardinality(Kind(feed[i], k))
    <2>1. \A k : {e \in feed[i] : e.kind \in {k}} = Kind(feed[i], k)
      BY DEF Kind
    <2> QED
      BY <2>1 DEF Count
  <1> QED
    BY <1>3, <1>4, <1>5 DEF Balances

-----------------------------------------------------------------------------
(* How the channel moves. *)

\* Nothing happens at the channel, and nobody comes.
Silent ==
  /\ UNCHANGED <<slot, posted, seen, overlaps, kept, lost>>
  /\ expired' \cup gone' \subseteq {m \in Calls : posted[m] # None}
  /\ \/ pc' = pc
     \/ \E c \in Calls, p \in Places \ AtSlotNow :
          pc' = [pc EXCEPT ![c] = p] /\ pc[c] \notin AtSlotNow \cup {"done"}

\* A call comes to the channel and takes its copy of the slot.
Arrives(c) ==
  /\ pc[c] = "notify" /\ pc' = [pc EXCEPT ![c] = "show"]
  /\ \E v \in {slot, None} : seen' = [seen EXCEPT ![c] = v]
  /\ LET others == {d \in Calls : pc[d] \in AtSlotNow}
     IN overlaps' = IF others = {} THEN overlaps ELSE overlaps \cup others \cup {c}
  /\ UNCHANGED <<slot, posted, expired, gone, kept, lost>>

\* The lines a call found, and those with its own: one more, or the oldest gone.
Found(c) == IF seen[c] = None THEN <<>> ELSE seen[c].lines

Follows(s, t, c) ==
  /\ t \in Seq(Calls) /\ Len(t) \in 1..MaxEntries /\ t[Len(t)] = c
  /\ \E k \in {0, 1} :
       /\ Len(t) = Len(s) + 1 - k /\ (k = 1 => Len(t) = MaxEntries)
       /\ \A n \in 1..(Len(t) - 1) : t[n] = s[n + k]

\* A call shows its line.
Shows(c) ==
  /\ pc[c] = "show"
  /\ \E v \in Slot :
       /\ v.message = IF seen[c] = None THEN c ELSE seen[c].message
       /\ Follows(Found(c), v.lines, c)
       /\ posted' = [posted EXCEPT ![v.message] = v.lines]
       /\ \/ pc' = [pc EXCEPT ![c] = "save"] /\ seen' = [seen EXCEPT ![c] = v]
          \/ pc' = [pc EXCEPT ![c] = "drop"] /\ seen' = seen /\ seen[c] # None /\ faults' # 0
          \/ pc' = [pc EXCEPT ![c] = "done"] /\ seen' = [seen EXCEPT ![c] = None] /\ faults' # 0
  /\ UNCHANGED <<slot, expired, gone, overlaps, kept, lost>>

\* A call cannot show its line.
Misses(c) ==
  /\ pc[c] = "show" /\ seen[c] # None /\ pc' = [pc EXCEPT ![c] = "drop"]
  /\ \/ lost' = lost /\ faults' # 0
     \/ lost' = [lost EXCEPT ![c] = seen[c].message]
  /\ UNCHANGED <<slot, posted, seen, expired, gone, overlaps, kept>>

\* A call leaves the channel, with the slot as it should be unless something failed.
Leaves(c) ==
  /\ pc[c] \in AtSlotNow /\ pc' = [pc EXCEPT ![c] = "done"] /\ seen' = [seen EXCEPT ![c] = None]
  /\ \/ /\ pc[c] = "save" /\ slot' = seen[c]
        /\ kept' = IF c \in overlaps THEN kept
                   ELSE Append(kept, [line |-> c, message |-> seen[c].message])
     \/ pc[c] = "drop" /\ slot' = None /\ kept' = kept
     \/ /\ slot' \in {slot, None} \/ (slot' = seen[c] /\ pc[c] = "save")
        /\ kept' = kept /\ faults' # 0
  /\ UNCHANGED <<posted, expired, gone, overlaps, lost>>

ChannelStep == Silent \/ \E c \in Calls : Arrives(c) \/ Shows(c) \/ Misses(c) \/ Leaves(c)

\* Appending keeps a message in its bounds.
LEMMA AppendedFollows ==
  ASSUME NEW c \in Calls, NEW s \in Seq(Calls), Len(s) \in 1..MaxEntries
  PROVE  Follows(s, Appended(s, c), c)
  <1> DEFINE a == Append(s, c)
  <1>1. a \in Seq(Calls) /\ Len(a) = Len(s) + 1 /\ a[Len(s) + 1] = c
        /\ \A n \in 1..Len(s) : a[n] = s[n]
    OBVIOUS
  <1>2. Len(s) \in Nat /\ MaxEntries \in Nat
    BY BoardAssumption
  <1> HIDE DEF a
  <1>3. CASE Len(s) < MaxEntries
    <2>1. Appended(s, c) = a
      BY <1>3 DEF Appended, a
    <2>2. \A n \in 1..(Len(a) - 1) : a[n] = s[n + 0]
      BY <1>1, <1>2
    <2>3. Len(a) \in 1..MaxEntries /\ a[Len(a)] = c /\ Len(a) = Len(s) + 1 - 0
      BY <1>1, <1>2, <1>3
    <2> QED
      BY <1>1, <2>1, <2>2, <2>3 DEF Follows
  <1>4. CASE ~(Len(s) < MaxEntries)
    <2> DEFINE t == Tail(a)
    <2>1. Appended(s, c) = t
      BY <1>4 DEF Appended, a
    <2>2. Len(s) = MaxEntries
      BY <1>2, <1>4
    <2>3. t \in Seq(Calls) /\ Len(t) = Len(s) /\ \A n \in 1..Len(s) : t[n] = a[n + 1]
      BY <1>1, <1>2
    <2> HIDE DEF t
    <2>4. t[Len(t)] = c /\ \A n \in 1..(Len(t) - 1) : t[n] = s[n + 1]
      BY <1>1, <1>2, <2>3
    <2>5. Len(t) = Len(s) + 1 - 1 /\ Len(t) \in 1..MaxEntries /\ Len(t) = MaxEntries
      BY <1>2, <2>2, <2>3
    <2> QED
      BY <2>1, <2>3, <2>4, <2>5 DEF Follows
  <1> QED
    BY <1>3, <1>4

\* A message of one line.
LEMMA OneFollows ==
  ASSUME NEW c \in Calls
  PROVE  Follows(<<>>, <<c>>, c)
  <1>1. <<c>> \in Seq(Calls) /\ Len(<<c>>) = 1 /\ <<c>>[1] = c /\ Len(<<>>) = 0
    OBVIOUS
  <1>2. 1 \in 1..MaxEntries
    BY BoardAssumption
  <1>3. \A n \in 1..(1 - 1) : <<c>>[n] = <<>>[n + 0]
    OBVIOUS
  <1> QED
    BY <1>1, <1>2, <1>3 DEF Follows

\* What a call at the channel has.
LEMMA AtChannel ==
  ASSUME DocTypes, ChannelTypes, Lines, NEW c \in Calls
  PROVE  /\ pc[c] \notin AtSlotNow => seen[c] = None
         /\ seen[c] # None => /\ seen[c] \in Slot /\ seen[c] \in Views
                              /\ seen[c].message \in Calls /\ seen[c].lines \in Seq(Calls)
                              /\ Len(seen[c].lines) \in 1..MaxEntries
         /\ pc[c] \in {"save", "drop"} => seen[c] # None
         /\ seen[c] \in Slot \cup {None}
  <1>1. seen[c] \in Slot \cup {None}
    BY DEF ChannelTypes
  <1>2. seen[c] # None => seen[c] \in Views
    BY DEF Views, Live
  <1>3. seen[c] # None => Len(seen[c].lines) \in 1..MaxEntries
    BY <1>2 DEF Lines
  <1>4. seen[c] # None => seen[c].message \in Calls /\ seen[c].lines \in Seq(Calls)
    BY <1>1 DEF Slot
  <1> QED
    BY <1>1, <1>2, <1>3, <1>4 DEF Lines

\* A call that ends away from the channel is not seen there.
LEMMA EndsAway ==
  ASSUME DocTypes, ChannelTypes, Lines, NEW c \in Calls, End(c), pc[c] \notin AtSlotNow \cup {"done"}
  PROVE  /\ seen' = seen
         /\ \E p \in Places \ AtSlotNow :
              pc' = [pc EXCEPT ![c] = p] /\ pc[c] \notin AtSlotNow \cup {"done"}
  <1>1. seen[c] = None
    BY AtChannel
  <1>2. seen' = seen
    BY <1>1 DEF End, ChannelTypes
  <1>3. pc' = [pc EXCEPT ![c] = "done"] /\ "done" \in Places \ AtSlotNow
    BY DEF End, Goto, Places, AtSlotNow
  <1> QED
    BY <1>2, <1>3

\* The messages that have expired or are gone stay so.
LEMMA SilentIs ==
  ASSUME Lines, ChannelTypes, UNCHANGED <<slot, posted, seen, expired, gone, overlaps, kept, lost>>,
         NEW c \in Calls, NEW p \in Places \ AtSlotNow, pc' = [pc EXCEPT ![c] = p],
         pc[c] \notin AtSlotNow \cup {"done"}
  PROVE  Silent
  <1>1. expired' \cup gone' \subseteq {m \in Calls : posted[m] # None}
    BY DEF Lines, ChannelTypes
  <1> QED
    BY <1>1 DEF Silent

\* Away from the channel nothing happens to it.
LEMMA AwayIsSilent ==
  ASSUME DocTypes, ChannelTypes, Lines, NEW c \in Calls,
         Start(c) \/ Create(c) \/ Write(c) \/ Record(c) \/ PostCard(c)
         \/ (Die(c) /\ pc[c] \notin AtSlotNow)
  PROVE  Silent
  <1> DEFINE Away == UNCHANGED <<slot, posted, expired, gone, overlaps, kept, lost>>
             On(p) == /\ seen' = seen /\ pc' = [pc EXCEPT ![c] = p]
                      /\ pc[c] \notin AtSlotNow \cup {"done"}
  <1>1. ASSUME Away, NEW p \in Places \ AtSlotNow, On(p)
        PROVE  Silent
    BY <1>1, SilentIs
  <1>2. ASSUME Away, End(c), pc[c] \notin AtSlotNow \cup {"done"}
        PROVE  Silent
    <2>1. PICK p \in Places \ AtSlotNow : On(p)
      BY <1>2, EndsAway
    <2> QED
      BY <1>1, <1>2, <2>1
  <1>3. ASSUME Away, Goto(c, "record") \/ Goto(c, "card") \/ Goto(c, "notify"), seen' = seen,
               pc[c] \notin AtSlotNow \cup {"done"}
        PROVE  Silent
    <2>1. \E p \in Places \ AtSlotNow : pc' = [pc EXCEPT ![c] = p]
      BY <1>3 DEF Goto, Places, AtSlotNow
    <2> QED
      BY <1>1, <1>3, <2>1
  <1>4. CASE Start(c)
    <2>1. PICK p \in {"create", "write", "card"} :
             /\ pc[c] = "idle" /\ pc' = [pc EXCEPT ![c] = p]
             /\ UNCHANGED <<documents, channel, seen, history, faults>>
      BY <1>4, StartsWell
    <2>2. Away /\ seen' = seen
      BY <2>1 DEF channel, history
    <2>3. p \in Places \ AtSlotNow /\ On(p)
      BY <2>1, <2>2 DEF Places, AtSlotNow
    <2> QED
      BY <1>1, <2>2, <2>3
  <1> HIDE DEF Away, On
  <1>5. CASE Create(c)
    <2>1. /\ pc[c] = "create" /\ UNCHANGED <<channel, history>>
          /\ End(c) \/ (Goto(c, "record") /\ seen' = seen)
      BY <1>5 DEF Create
    <2>2. Away /\ pc[c] \notin AtSlotNow \cup {"done"}
      BY <2>1 DEF channel, history, Away, AtSlotNow
    <2> QED
      BY <1>2, <1>3, <2>1, <2>2
  <1>6. CASE Write(c)
    <2>1. /\ pc[c] = "write" /\ UNCHANGED <<channel, overlaps, kept, lost>>
          /\ End(c) \/ ((Goto(c, "record") \/ Goto(c, "notify")) /\ seen' = seen)
      BY <1>6 DEF Write
    <2>2. Away /\ pc[c] \notin AtSlotNow \cup {"done"}
      BY <2>1 DEF channel, Away, AtSlotNow
    <2> QED
      BY <1>2, <1>3, <2>1, <2>2
  <1>7. CASE Record(c)
    <2>1. /\ pc[c] = "record" /\ UNCHANGED <<channel, overlaps, kept, lost>>
          /\ End(c) \/ ((Goto(c, "card") \/ Goto(c, "notify")) /\ seen' = seen)
      BY <1>7 DEF Record
    <2>2. Away /\ pc[c] \notin AtSlotNow \cup {"done"}
      BY <2>1 DEF channel, Away, AtSlotNow
    <2> QED
      BY <1>2, <1>3, <2>1, <2>2
  <1>8. CASE PostCard(c)
    <2>1. /\ pc[c] = "card" /\ UNCHANGED <<channel, overlaps, kept, lost>> /\ End(c)
      BY <1>8 DEF PostCard
    <2>2. Away /\ pc[c] \notin AtSlotNow \cup {"done"}
      BY <2>1 DEF channel, Away, AtSlotNow
    <2> QED
      BY <1>2, <2>1, <2>2
  <1>9. CASE Die(c) /\ pc[c] \notin AtSlotNow
    <2>1. /\ pc[c] # "done" /\ UNCHANGED <<channel, overlaps, kept, lost>> /\ End(c)
      BY <1>9 DEF Die
    <2>2. Away /\ pc[c] \notin AtSlotNow \cup {"done"}
      BY <1>9, <2>1 DEF channel, Away
    <2> QED
      BY <1>2, <2>1, <2>2
  <1> QED
    BY <1>4, <1>5, <1>6, <1>7, <1>8, <1>9

\* A call comes, or fails to before it does.
LEMMA GetActiveIs ==
  ASSUME DocTypes, ChannelTypes, Lines, NEW c \in Calls, GetActive(c)
  PROVE  Silent \/ Arrives(c)
  <1>1. pc[c] = "notify" /\ UNCHANGED <<slot, posted, expired, gone, kept, lost>>
    BY DEF GetActive, channel
  <1>2. CASE End(c) /\ UNCHANGED overlaps
    <2>1. pc[c] \notin AtSlotNow \cup {"done"}
      BY <1>1 DEF AtSlotNow
    <2>2. PICK p \in Places \ AtSlotNow : pc' = [pc EXCEPT ![c] = p] /\ seen' = seen
      BY <1>2, <2>1, EndsAway
    <2> QED
      BY <1>1, <1>2, <2>1, <2>2, SilentIs
  <1>3. CASE /\ seen' = [seen EXCEPT ![c] =
                  IF slot # None /\ slot.message \notin expired THEN slot ELSE None]
             /\ Goto(c, "show")
             /\ LET others == {d \in Calls : AtSlot(d)}
                IN overlaps' = IF others = {} THEN overlaps
                                              ELSE overlaps \cup others \cup {c}
    <2>1. \E v \in {slot, None} : seen' = [seen EXCEPT ![c] = v]
      BY <1>3
    <2>2. {d \in Calls : AtSlot(d)} = {d \in Calls : pc[d] \in AtSlotNow}
      BY DEF AtSlot, AtSlotNow
    <2> QED
      BY <1>1, <1>3, <2>1, <2>2 DEF Arrives, Goto
  <1> QED
    BY <1>2, <1>3 DEF GetActive

\* A failure is counted.
LEMMA FaultCounts ==
  ASSUME DocTypes, Fault
  PROVE  faults' \in 0..MaxFaults /\ faults' # 0 /\ faults < faults'
  BY BoardAssumption DEF Fault, DocTypes

\* A call posts a message of its own.
LEMMA PostSlotIs ==
  ASSUME DocTypes, ChannelTypes, Lines, NEW c \in Calls, PostSlot(c)
  PROVE  Shows(c) \/ Leaves(c)
  <1> DEFINE v == [message |-> c, lines |-> <<c>>]
  <1>1. /\ pc[c] = "show" /\ seen[c] = None
        /\ UNCHANGED <<slot, expired, gone, overlaps, kept, lost>>
    BY DEF PostSlot, history
  <1>2. v \in Slot /\ v.message = c /\ v.lines = <<c>> /\ Follows(Found(c), v.lines, c)
    BY <1>1, OneFollows DEF Slot, Found
  <1>3. CASE /\ posted' = [posted EXCEPT ![c] = <<c>>]
             /\ seen' = [seen EXCEPT ![c] = [message |-> c, lines |-> <<c>>]]
             /\ Goto(c, "save")
    BY <1>1, <1>2, <1>3 DEF Shows, Goto
  <1>4. CASE Fault /\ End(c) /\ posted' = posted
    BY <1>1, <1>4, FaultCounts DEF Leaves, End, Goto, AtSlotNow
  <1>5. CASE Fault /\ End(c) /\ posted' = [posted EXCEPT ![c] = <<c>>]
    BY <1>1, <1>2, <1>5, FaultCounts DEF Shows, End, Goto
  <1> QED
    BY <1>3, <1>4, <1>5 DEF PostSlot

\* A call adds its line to the message it found.
LEMMA UpdateSlotIs ==
  ASSUME DocTypes, ChannelTypes, Lines, NEW c \in Calls, UpdateSlot(c)
  PROVE  Shows(c) \/ Misses(c)
  <1> DEFINE m == seen[c].message
             lines == Appended(seen[c].lines, c)
             v == [message |-> m, lines |-> lines]
  <1>1. /\ pc[c] = "show" /\ seen[c] # None
        /\ UNCHANGED <<slot, expired, gone, overlaps, kept>>
    BY DEF UpdateSlot
  <1>2. /\ m \in Calls /\ seen[c].lines \in Seq(Calls) /\ Len(seen[c].lines) \in 1..MaxEntries
        /\ seen[c] \in Slot
    BY <1>1, AtChannel
  <1>3. Follows(seen[c].lines, lines, c)
    BY <1>2, AppendedFollows
  <1>4. lines \in Seq(Calls)
    BY <1>3 DEF Follows
  <1> HIDE DEF lines
  <1>5. v \in Slot /\ v.message = m /\ v.lines = lines
    BY <1>2, <1>4 DEF Slot
  <1>6. [seen EXCEPT ![c].lines = lines] = [seen EXCEPT ![c] = v]
    <2>1. [seen[c] EXCEPT !.lines = lines] = v
      BY <1>2 DEF Slot
    <2>2. [seen EXCEPT ![c].lines = lines] = [seen EXCEPT ![c] = [seen[c] EXCEPT !.lines = lines]]
      BY DEF ChannelTypes
    <2> QED
      BY <2>1, <2>2, Zenon
  <1>7. Follows(Found(c), v.lines, c) /\ v.message = IF seen[c] = None THEN c ELSE seen[c].message
    BY <1>1, <1>3, <1>5 DEF Found
  <1>8. CASE /\ posted' = [posted EXCEPT ![m] = lines] /\ lost' = lost
             /\ seen' = [seen EXCEPT ![c].lines = lines] /\ Goto(c, "save")
    BY <1>1, <1>5, <1>6, <1>7, <1>8 DEF Shows, Goto
  <1>9. CASE /\ posted' = [posted EXCEPT ![m] = lines] /\ lost' = lost /\ Fault
             /\ seen' = seen /\ Goto(c, "drop")
    BY <1>1, <1>5, <1>7, <1>9, FaultCounts DEF Shows, Goto
  <1>10. CASE posted' = posted /\ lost' = lost /\ Fault /\ seen' = seen /\ Goto(c, "drop")
    BY <1>1, <1>10, FaultCounts DEF Misses, Goto
  <1>11. CASE posted' = posted /\ lost' = [lost EXCEPT ![c] = m] /\ seen' = seen /\ Goto(c, "drop")
    BY <1>1, <1>11 DEF Misses, Goto
  <1> QED
    BY <1>8, <1>9, <1>10, <1>11 DEF UpdateSlot, AfterNoUpdate, lines

\* A call leaves, its work saved, dropped or failed.
LEMMA LeavesIs ==
  ASSUME DocTypes, ChannelTypes, Lines, NEW c \in Calls,
         SaveSlot(c) \/ DropSlot(c) \/ (Die(c) /\ pc[c] \in AtSlotNow)
  PROVE  Leaves(c)
  <1>1. /\ pc' = [pc EXCEPT ![c] = "done"] /\ seen' = [seen EXCEPT ![c] = None]
        /\ UNCHANGED <<posted, expired, gone, overlaps, lost>>
        /\ pc[c] \in AtSlotNow
    BY DEF SaveSlot, DropSlot, Die, End, Goto, history, channel, AtSlotNow
  <1>2. \/ /\ pc[c] = "save" /\ slot' = seen[c]
           /\ kept' = IF c \in overlaps THEN kept
                      ELSE Append(kept, [line |-> c, message |-> seen[c].message])
        \/ pc[c] = "drop" /\ slot' = None /\ kept' = kept
        \/ /\ slot' \in {slot, None} \/ (slot' = seen[c] /\ pc[c] = "save")
           /\ kept' = kept /\ faults' # 0
    BY FaultCounts DEF SaveSlot, DropSlot, Die, history, channel
  <1> QED
    BY <1>1, <1>2 DEF Leaves

\* What expires, or is deleted, is about the slot or a copy of it.
LEMMA CurrentIs ==
  ASSUME Lines, NEW m \in Calls, Current(m)
  PROVE  posted[m] # None
  <1>1. PICK s \in {slot} \cup {seen[c] : c \in Calls} : s # None /\ s.message = m
    BY DEF Current
  <1>2. s \in Views
    BY <1>1 DEF Views, Live
  <1> QED
    BY <1>1, <1>2 DEF Lines

\* So every step is of that kind.
LEMMA StepAtChannel ==
  ASSUME DocTypes, ChannelTypes, Lines, [Next]_vars
  PROVE  ChannelStep
  <1>1. CASE UNCHANGED vars
    <2>1. UNCHANGED <<slot, posted, seen, expired, gone, overlaps, kept, lost, pc>>
      BY <1>1 DEF vars, channel, history, call
    <2> QED
      BY <2>1 DEF Lines, ChannelTypes, Silent, ChannelStep
  <1>2. ASSUME NEW m \in Calls, Expire(m) \/ DeleteMessage(m)
        PROVE  ChannelStep
    <2>1. /\ UNCHANGED <<slot, posted, seen, overlaps, kept, lost, pc>> /\ Current(m)
          /\ expired' \subseteq expired \cup {m} /\ gone' \subseteq gone \cup {m}
      BY <1>2 DEF Expire, DeleteMessage, history, call
    <2>2. posted[m] # None
      BY <2>1, CurrentIs
    <2> QED
      BY <2>1, <2>2 DEF Lines, ChannelTypes, Silent, ChannelStep
  <1>3. ASSUME NEW c \in Calls, Start(c) \/ Proceed(c) \/ Die(c)
        PROVE  ChannelStep
    BY <1>3, AwayIsSilent, GetActiveIs, PostSlotIs, UpdateSlotIs, LeavesIs
       DEF Proceed, ChannelStep
  <1> QED
    BY <1>1, <1>2, <1>3 DEF Next

-----------------------------------------------------------------------------
(* What is shown stays in order. *)

\* Who has shown a line goes on, and who is done stays so.
LEMMA ShownStays ==
  ASSUME DocTypes, ChannelStep, NEW d \in Calls
  PROVE  /\ pc[d] \in Shown => pc'[d] \in Shown
         /\ pc[d] = "done" => pc'[d] = "done"
  <1>1. CASE Silent
    BY <1>1 DEF Silent, Shown, AtSlotNow, DocTypes
  <1>2. ASSUME NEW c \in Calls, Arrives(c) \/ Shows(c) \/ Misses(c) \/ Leaves(c)
        PROVE  /\ pc[d] \in Shown => pc'[d] \in Shown
               /\ pc[d] = "done" => pc'[d] = "done"
    <2>1. PICK p \in {"show", "save", "drop", "done"} :
            /\ pc' = [pc EXCEPT ![c] = p] /\ pc[c] # "done"
            /\ pc[c] \in Shown => p = "done"
      BY <1>2 DEF Arrives, Shows, Misses, Leaves, AtSlotNow, Shown
    <2> QED
      BY <2>1 DEF DocTypes, Shown
  <1> QED
    BY <1>1, <1>2 DEF ChannelStep

\* A message is never taken back.
LEMMA PostedStays ==
  ASSUME ChannelTypes, ChannelStep, NEW m \in Calls, posted[m] # None
  PROVE  posted'[m] # None
  <1>1. ASSUME NEW c \in Calls, Shows(c)
        PROVE  posted'[m] # None
    <2>1. PICK v \in Slot : posted' = [posted EXCEPT ![v.message] = v.lines]
      BY <1>1 DEF Shows
    <2>2. v.lines # None
      BY NoneAssumption DEF Slot
    <2> QED
      BY <2>1, <2>2 DEF ChannelTypes
  <1> QED
    BY <1>1 DEF ChannelStep, Silent, Arrives, Misses, Leaves

\* The slots some call may still write, before a step and after.
LEMMA LiveIs ==
  /\ \A v : v \in Live <=> v # None /\ (v = slot \/ \E d \in Calls : v = seen[d])
  /\ \A v : v \in Live' <=> v # None /\ (v = slot' \/ \E d \in Calls : v = seen'[d])
  BY DEF Live

\* And with them the messages as they are.
LEMMA ViewsAre ==
  /\ \A v : v \in Views <=> v \in Live \/ \E m \in Calls : /\ posted[m] # None
                                                           /\ v = [message |-> m, lines |-> posted[m]]
  /\ \A v : v \in Views' <=> v \in Live' \/ \E m \in Calls : /\ posted'[m] # None
                                                             /\ v = [message |-> m, lines |-> posted'[m]]
  BY DEF Views

\* Nothing new can be seen unless a call shows something.
LEMMA OldViews ==
  ASSUME ChannelTypes, Silent \/ \E c \in Calls : Arrives(c) \/ Misses(c) \/ Leaves(c)
  PROVE  Live' \subseteq Live /\ Views' \subseteq Views /\ posted' = posted
  <1>1. posted' = posted
    BY DEF Silent, Arrives, Misses, Leaves
  <1>2. CASE Silent \/ \E c \in Calls : Misses(c)
    <2>1. slot' = slot /\ seen' = seen
      BY <1>2 DEF Silent, Misses
    <2> QED
      BY <1>1, <2>1 DEF Live, Views
  <1>3. ASSUME NEW c \in Calls, Arrives(c) \/ Leaves(c)
        PROVE  Live' \subseteq Live
    <2>1. \E v \in {slot, None} : seen' = [seen EXCEPT ![c] = v]
      BY <1>3 DEF Arrives, Leaves
    <2>2. slot' \in {slot, None, seen[c]}
      BY <1>3 DEF Arrives, Leaves
    <2>3. \A d \in Calls : seen'[d] \in {slot, None, seen[d]}
      BY <2>1 DEF ChannelTypes
    <2> QED
      BY <2>2, <2>3, LiveIs
  <1>4. Live' \subseteq Live
    BY <1>2, <1>3
  <1> QED
    BY <1>1, <1>4, ViewsAre

\* A call that shows something adds one view, its own line at the end of what it had
\* read.
LEMMA NewView ==
  ASSUME ChannelTypes, NEW c \in Calls, Shows(c)
  PROVE  \E v \in Slot :
           /\ v.message = IF seen[c] = None THEN c ELSE seen[c].message
           /\ Follows(Found(c), v.lines, c)
           /\ posted' = [posted EXCEPT ![v.message] = v.lines]
           /\ \/ pc' = [pc EXCEPT ![c] = "save"] /\ seen' = [seen EXCEPT ![c] = v]
              \/ pc' = [pc EXCEPT ![c] = "drop"] /\ seen' = seen /\ seen[c] # None /\ faults' # 0
              \/ pc' = [pc EXCEPT ![c] = "done"] /\ seen' = [seen EXCEPT ![c] = None] /\ faults' # 0
           /\ Live' \subseteq Live \cup {v} /\ Views' \subseteq Views \cup {v}
  <1>1. PICK v \in Slot :
           /\ v.message = IF seen[c] = None THEN c ELSE seen[c].message
           /\ Follows(Found(c), v.lines, c)
           /\ posted' = [posted EXCEPT ![v.message] = v.lines]
           /\ \/ pc' = [pc EXCEPT ![c] = "save"] /\ seen' = [seen EXCEPT ![c] = v]
              \/ pc' = [pc EXCEPT ![c] = "drop"] /\ seen' = seen /\ seen[c] # None /\ faults' # 0
              \/ pc' = [pc EXCEPT ![c] = "done"] /\ seen' = [seen EXCEPT ![c] = None] /\ faults' # 0
    BY DEF Shows
  <1>2. slot' = slot /\ \A d \in Calls : seen'[d] \in {v, None, seen[d]}
    BY <1>1 DEF ChannelTypes, Shows
  <1>3. Live' \subseteq Live \cup {v}
    BY <1>2, LiveIs
  <1>4. \A m \in Calls : posted'[m] # posted[m] =>
          [message |-> m, lines |-> posted'[m]] = v
    <2>1. ASSUME NEW m \in Calls, posted'[m] # posted[m]
          PROVE  m = v.message /\ posted'[m] = v.lines
      BY <1>1, <2>1 DEF ChannelTypes
    <2>2. v = [message |-> v.message, lines |-> v.lines]
      BY DEF Slot
    <2> QED
      BY <2>1, <2>2
  <1>5. Views' \subseteq Views \cup {v}
    BY <1>3, <1>4, ViewsAre
  <1> QED
    BY <1>1, <1>3, <1>5

\* A line that is shown comes last, after lines found in the message, in their order.
LEMMA FollowsWell ==
  ASSUME DocTypes, ChannelTypes, Lines, NEW c \in Calls, pc[c] = "show",
         NEW t, Follows(Found(c), t, c)
  PROVE  /\ t \in Seq(Calls) /\ Len(t) \in 1..MaxEntries /\ Len(t) \in Nat /\ t[Len(t)] = c
         /\ \E k \in {0, 1} :
              /\ k = 1 => Len(t) = MaxEntries
              /\ \A n \in 1..(Len(t) - 1) :
                   /\ seen[c] # None /\ n + k \in 1..Len(seen[c].lines)
                   /\ t[n] = seen[c].lines[n + k] /\ t[n] # c /\ pc[t[n]] \in Shown
              /\ seen[c] # None => Len(t) = Len(seen[c].lines) + 1 - k
         /\ IsInjective(t)
  <1>1. /\ t \in Seq(Calls) /\ Len(t) \in 1..MaxEntries /\ t[Len(t)] = c
    BY DEF Follows
  <1>2. PICK k \in {0, 1} :
       /\ Len(t) = Len(Found(c)) + 1 - k /\ (k = 1 => Len(t) = MaxEntries)
       /\ \A n \in 1..(Len(t) - 1) : t[n] = Found(c)[n + k]
    BY DEF Follows
  <1>3. Len(t) \in Nat /\ MaxEntries \in Nat
    BY <1>1, BoardAssumption
  <1>4. ASSUME seen[c] # None
        PROVE  /\ Found(c) = seen[c].lines /\ seen[c] \in Views
               /\ Len(seen[c].lines) \in Nat /\ IsInjective(seen[c].lines)
               /\ \A n \in 1..Len(seen[c].lines) : pc[seen[c].lines[n]] \in Shown
    BY <1>4, AtChannel, BoardAssumption DEF Found, Lines
  <1>5. pc[c] \notin Shown
    BY DEF Shown
  <1>6. ASSUME NEW n \in 1..(Len(t) - 1)
        PROVE  /\ seen[c] # None /\ n + k \in 1..Len(seen[c].lines)
               /\ t[n] = seen[c].lines[n + k] /\ t[n] # c /\ pc[t[n]] \in Shown
    <2>1. seen[c] # None
      <3>1. CASE seen[c] = None
        <4>1. Found(c) = <<>> /\ Len(Found(c)) = 0
          BY <3>1 DEF Found
        <4>2. Len(t) = 0 + 1 - k
          BY <1>2, <4>1
        <4> QED
          BY <1>3, <4>2
      <3> QED
        BY <3>1
    <2>2. n + k \in 1..Len(seen[c].lines)
      BY <1>2, <1>3, <1>4, <2>1
    <2>3. t[n] = seen[c].lines[n + k] /\ pc[seen[c].lines[n + k]] \in Shown
      BY <1>2, <1>4, <2>1, <2>2
    <2> QED
      BY <1>5, <2>1, <2>2, <2>3
  <1>7. IsInjective(t)
    <2>1. ASSUME NEW a \in 1..Len(t), NEW b \in 1..Len(t), t[a] = t[b], a < b
          PROVE  FALSE
      <3>1. a \in 1..(Len(t) - 1)
        BY <1>3, <2>1
      <3>2. CASE b = Len(t)
        BY <1>1, <1>6, <2>1, <3>1, <3>2
      <3>3. CASE b # Len(t)
        <4>1. b \in 1..(Len(t) - 1)
          BY <1>3, <2>1, <3>3
        <4>2. seen[c].lines[a + k] = seen[c].lines[b + k]
              /\ a + k \in 1..Len(seen[c].lines) /\ b + k \in 1..Len(seen[c].lines) /\ seen[c] # None
          BY <1>6, <2>1, <3>1, <4>1
        <4>3. DOMAIN seen[c].lines = 1..Len(seen[c].lines)
          BY <4>2, AtChannel
        <4>4. a + k = b + k
          BY <1>4, <4>2, <4>3 DEF IsInjective
        <4> QED
          BY <1>3, <2>1, <4>4
      <3> QED
        BY <3>2, <3>3
    <2>2. \A a, b \in 1..Len(t) : t[a] = t[b] => a = b
      <3> SUFFICES ASSUME NEW a \in 1..Len(t), NEW b \in 1..Len(t), t[a] = t[b], a # b
                   PROVE  FALSE
        OBVIOUS
      <3>1. a < b \/ b < a
        BY <1>3
      <3> QED
        BY <2>1, <3>1
    <2> QED
      BY <1>1, <2>2 DEF IsInjective
  <1>8. seen[c] # None => Len(t) = Len(seen[c].lines) + 1 - k
    BY <1>2, <1>4
  <1> QED
    BY <1>1, <1>2, <1>3, <1>6, <1>7, <1>8

\* The types.
LEMMA ChannelTypesKept ==
  ASSUME DocTypes, ChannelTypes, Lines, ChannelStep
  PROVE  ChannelTypes'
  <1>1. CASE Silent
    BY <1>1 DEF Silent, ChannelTypes
  <1>2. ASSUME NEW c \in Calls, Arrives(c)
        PROVE  ChannelTypes'
    BY <1>2 DEF Arrives, ChannelTypes
  <1>3. ASSUME NEW c \in Calls, Shows(c)
        PROVE  ChannelTypes'
    <2>1. PICK v \in Slot :
            /\ posted' = [posted EXCEPT ![v.message] = v.lines]
            /\ \E s \in {v, None} : seen' = [seen EXCEPT ![c] = s] \/ seen' = seen
      BY <1>3 DEF Shows
    <2>2. v.message \in Calls /\ v.lines \in Seq(Calls)
      BY DEF Slot
    <2>3. posted' \in [Calls -> Seq(Calls) \cup {None}]
      BY <2>1, <2>2 DEF ChannelTypes
    <2>4. seen' \in [Calls -> Slot \cup {None}]
      BY <2>1 DEF ChannelTypes
    <2>5. UNCHANGED <<slot, expired, gone, overlaps, kept, lost>>
      BY <1>3 DEF Shows
    <2> QED
      BY <2>3, <2>4, <2>5 DEF ChannelTypes
  <1>4. ASSUME NEW c \in Calls, Misses(c)
        PROVE  ChannelTypes'
    <2>1. seen[c].message \in Calls
      BY <1>4, AtChannel DEF Misses
    <2> QED
      BY <1>4, <2>1 DEF Misses, ChannelTypes
  <1>5. ASSUME NEW c \in Calls, Leaves(c)
        PROVE  ChannelTypes'
    <2>1. seen' \in [Calls -> Slot \cup {None}] /\ slot' \in Slot \cup {None}
      BY <1>5 DEF Leaves, ChannelTypes
    <2>2. kept' \in Seq([line : Calls, message : Calls])
      <3>1. CASE kept' = kept
        BY <3>1 DEF ChannelTypes
      <3>2. CASE pc[c] = "save" /\ kept' = Append(kept, [line |-> c, message |-> seen[c].message])
        <4>1. seen[c].message \in Calls
          BY <3>2, AtChannel
        <4>2. [line |-> c, message |-> seen[c].message] \in [line : Calls, message : Calls]
          BY <4>1
        <4> QED
          BY <3>2, <4>2 DEF ChannelTypes
      <3> QED
        BY <1>5, <3>1, <3>2 DEF Leaves
    <2> QED
      BY <1>5, <2>1, <2>2 DEF Leaves, ChannelTypes
  <1> QED
    BY <1>1, <1>2, <1>3, <1>4, <1>5 DEF ChannelStep

\* What the messages show, and who is at the slot.
LEMMA LinesKept ==
  ASSUME DocTypes, DocTypes', ChannelTypes, ChannelTypes', Lines, ChannelStep
  PROVE  Lines'
  <1> DEFINE Good(v) ==
        /\ v \in Slot /\ Len(v.lines) \in 1..MaxEntries /\ IsInjective(v.lines)
        /\ posted'[v.message] # None
        /\ \A n \in 1..Len(v.lines) : pc'[v.lines[n]] \in Shown
  <1>1. ASSUME NEW v \in Views
        PROVE  Good(v)
    <2>1. /\ v \in Slot /\ Len(v.lines) \in 1..MaxEntries /\ IsInjective(v.lines)
          /\ posted[v.message] # None
          /\ \A n \in 1..Len(v.lines) : pc[v.lines[n]] \in Shown
      BY DEF Lines
    <2>2. v.message \in Calls /\ v.lines \in Seq(Calls)
      BY <2>1 DEF Slot
    <2>3. \A n \in 1..Len(v.lines) : v.lines[n] \in Calls
      BY <2>2
    <2> QED
      BY <2>1, <2>2, <2>3, PostedStays, ShownStays
  <1>2. ASSUME NEW c \in Calls, Shows(c)
        PROVE  Lines'
    <2>1. PICK v \in Slot :
           /\ v.message = IF seen[c] = None THEN c ELSE seen[c].message
           /\ Follows(Found(c), v.lines, c)
           /\ posted' = [posted EXCEPT ![v.message] = v.lines]
           /\ \/ pc' = [pc EXCEPT ![c] = "save"] /\ seen' = [seen EXCEPT ![c] = v]
              \/ pc' = [pc EXCEPT ![c] = "drop"] /\ seen' = seen /\ seen[c] # None /\ faults' # 0
              \/ pc' = [pc EXCEPT ![c] = "done"] /\ seen' = [seen EXCEPT ![c] = None] /\ faults' # 0
           /\ Live' \subseteq Live \cup {v} /\ Views' \subseteq Views \cup {v}
      BY <1>2, NewView
    <2>2. pc[c] = "show" /\ UNCHANGED <<expired, gone>>
      BY <1>2 DEF Shows
    <2>3. v.message \in Calls /\ v.lines \in Seq(Calls) /\ v.lines # None /\ v # None
      BY NoneAssumption DEF Slot
    <2>4. pc'[c] \in Shown /\ \A d \in Calls : d # c => pc'[d] = pc[d] /\ seen'[d] = seen[d]
      BY <2>1 DEF DocTypes, ChannelTypes, Shown
    <2>5. Good(v)
      <3>1. PICK k \in {0, 1} :
              \A n \in 1..(Len(v.lines) - 1) : v.lines[n] # c /\ pc[v.lines[n]] \in Shown
        BY <2>1, <2>2, FollowsWell
      <3>2. /\ Len(v.lines) \in 1..MaxEntries /\ Len(v.lines) \in Nat /\ v.lines[Len(v.lines)] = c
            /\ IsInjective(v.lines)
        BY <2>1, <2>2, FollowsWell
      <3>3. posted'[v.message] # None
        BY <2>1, <2>3 DEF ChannelTypes
      <3>4. \A n \in 1..Len(v.lines) : pc'[v.lines[n]] \in Shown
        <4> SUFFICES ASSUME NEW n \in 1..Len(v.lines)
                     PROVE  pc'[v.lines[n]] \in Shown
          OBVIOUS
        <4>1. CASE n = Len(v.lines)
          BY <2>4, <3>2, <4>1
        <4>2. CASE n # Len(v.lines)
          <5>1. n \in 1..(Len(v.lines) - 1) /\ v.lines[n] \in Calls
            BY <2>3, <3>2, <4>2
          <5> QED
            BY <2>4, <3>1, <5>1
        <4> QED
          BY <4>1, <4>2
      <3> QED
        BY <3>2, <3>3, <3>4
    <2>6. \A w \in Views' : Good(w)
      BY <1>1, <2>1, <2>5
    <2>7. ASSUME NEW m \in Calls, posted'[m] # None
          PROVE  pc'[m] \in Shown
      <3>1. CASE m = c
        BY <2>4, <3>1
      <3>2. CASE m # c /\ m = v.message
        <4>1. seen[c] # None /\ m = seen[c].message
          BY <2>1, <3>2
        <4>2. posted[m] # None
          BY <4>1, AtChannel DEF Lines
        <4> QED
          BY <2>4, <3>2, <4>2 DEF Lines
      <3>3. CASE m # c /\ m # v.message
        <4>1. posted'[m] = posted[m]
          BY <2>1, <3>3 DEF ChannelTypes
        <4> QED
          BY <2>4, <2>7, <3>3, <4>1 DEF Lines
      <3> QED
        BY <3>1, <3>2, <3>3
    <2>8. \A m \in expired' \cup gone' : posted'[m] # None
      BY <2>2, PostedStays DEF Lines, ChannelTypes
    <2>9. \A d \in Calls : /\ seen'[d] # None => pc'[d] \in AtSlotNow
                           /\ pc'[d] \in {"save", "drop"} => seen'[d] # None
      <3>1. /\ seen'[c] # None => pc'[c] \in AtSlotNow
            /\ pc'[c] \in {"save", "drop"} => seen'[c] # None
        BY <2>1, <2>3 DEF DocTypes, ChannelTypes, AtSlotNow
      <3> QED
        BY <2>4, <3>1 DEF Lines
    <2> QED
      BY <2>6, <2>7, <2>8, <2>9 DEF Lines
  <1>3. ASSUME Silent \/ \E c \in Calls : Arrives(c) \/ Misses(c) \/ Leaves(c)
        PROVE  Lines'
    <2>1. Views' \subseteq Views /\ posted' = posted
      BY <1>3, OldViews
    <2>2. \A w \in Views' : Good(w)
      BY <1>1, <2>1
    <2>3. \A m \in Calls : posted'[m] # None => pc'[m] \in Shown
      BY <2>1, ShownStays DEF Lines
    <2>4. \A m \in expired' \cup gone' : posted'[m] # None
      <3>1. CASE Silent
        BY <2>1, <3>1 DEF Silent
      <3>2. CASE \E c \in Calls : Arrives(c) \/ Misses(c) \/ Leaves(c)
        <4>1. UNCHANGED <<expired, gone>>
          BY <3>2 DEF Arrives, Misses, Leaves
        <4> QED
          BY <2>1, <4>1 DEF Lines
      <3> QED
        BY <1>3, <3>1, <3>2
    <2>5. ASSUME NEW d \in Calls
          PROVE  /\ seen'[d] # None => pc'[d] \in AtSlotNow
                 /\ pc'[d] \in {"save", "drop"} => seen'[d] # None
      <3>1. /\ seen[d] # None => pc[d] \in AtSlotNow
            /\ pc[d] \in {"save", "drop"} => seen[d] # None
        BY DEF Lines
      <3>2. CASE Silent
        BY <3>1, <3>2 DEF Silent, DocTypes, AtSlotNow
      <3>3. ASSUME NEW c \in Calls, Arrives(c)
            PROVE  <2>5!2
        BY <3>1, <3>3 DEF Arrives, DocTypes, ChannelTypes, AtSlotNow
      <3>4. ASSUME NEW c \in Calls, Misses(c) \/ Leaves(c)
            PROVE  <2>5!2
        BY <3>1, <3>4 DEF Misses, Leaves, DocTypes, ChannelTypes, AtSlotNow
      <3> QED
        BY <1>3, <3>2, <3>3, <3>4
    <2> QED
      BY <2>2, <2>3, <2>4, <2>5 DEF Lines
  <1> QED
    BY <1>2, <1>3 DEF ChannelStep

\* Nobody's line is shown before the call gets there.
LEMMA NotShownYet ==
  ASSUME Lines, NEW c \in Calls, pc[c] \notin Shown, NEW v \in Views
  PROVE  ~Contains(v.lines, c)
  BY DEF Lines, Contains

\* Who meets nobody is alone, with what it shows.
LEMMA AloneKept ==
  ASSUME DocTypes, ChannelTypes, Lines, Alone, ChannelStep
  PROVE  Alone'
  <1> SUFFICES ASSUME NEW c \in Calls \ overlaps', pc'[c] \in AtSlotNow
               PROVE  /\ \A d \in Calls : d # c => pc'[d] \notin AtSlotNow
                      /\ pc'[c] = "save" =>
                           /\ seen'[c].lines[Len(seen'[c].lines)] = c
                           /\ posted'[seen'[c].message] = seen'[c].lines
                           /\ \A v \in Views' : Contains(v.lines, c) => v.lines = seen'[c].lines
    BY DEF Alone, AtSlotNow
  <1>1. c \in Calls \ overlaps
    BY DEF ChannelStep, Silent, Arrives, Shows, Misses, Leaves
  <1>2. CASE Silent
    <2>1. pc'[c] = pc[c] /\ \A d \in Calls : pc'[d] \in AtSlotNow => pc[d] \in AtSlotNow
      BY <1>2 DEF Silent, DocTypes
    <2>2. UNCHANGED <<posted, seen>> /\ Views' \subseteq Views
      BY <1>2, OldViews DEF Silent
    <2> QED
      BY <1>1, <2>1, <2>2 DEF Alone
  <1>3. ASSUME NEW d \in Calls, Arrives(d)
        PROVE  /\ \A e \in Calls : e # c => pc'[e] \notin AtSlotNow
               /\ pc'[c] # "save"
    <2> DEFINE others == {e \in Calls : pc[e] \in AtSlotNow}
    <2>1. /\ pc[d] = "notify" /\ pc' = [pc EXCEPT ![d] = "show"]
          /\ overlaps' = IF others = {} THEN overlaps ELSE overlaps \cup others \cup {d}
      BY <1>3 DEF Arrives
    <2>2. others = {}
      <3>1. CASE c = d
        BY <2>1, <3>1
      <3>2. CASE c # d
        <4>1. c \in others
          BY <2>1, <3>2 DEF DocTypes
        <4> QED
          BY <2>1, <4>1
      <3> QED
        BY <3>1, <3>2
    <2>3. \A e \in Calls : pc[e] \notin AtSlotNow
      BY <2>2
    <2>4. c = d
      BY <2>1, <2>3 DEF DocTypes
    <2> QED
      BY <2>1, <2>3, <2>4 DEF DocTypes
  <1>4. ASSUME NEW d \in Calls, Shows(d) \/ Misses(d) \/ Leaves(d)
        PROVE  /\ c = d
               /\ \A e \in Calls : e # c => pc'[e] \notin AtSlotNow
    <2>1. /\ pc[d] \in AtSlotNow
          /\ \E p \in {"save", "drop", "done"} : pc' = [pc EXCEPT ![d] = p]
      BY <1>4 DEF Shows, Misses, Leaves, AtSlotNow
    <2>2. c = d
      <3>1. CASE c # d
        <4>1. pc[c] \in AtSlotNow
          BY <2>1, <3>1 DEF DocTypes
        <4> QED
          BY <1>1, <2>1, <3>1, <4>1 DEF Alone
      <3> QED
        BY <3>1
    <2> QED
      BY <1>1, <2>1, <2>2 DEF Alone, DocTypes
  <1>5. ASSUME Shows(c), pc'[c] = "save"
        PROVE  /\ seen'[c].lines[Len(seen'[c].lines)] = c
               /\ posted'[seen'[c].message] = seen'[c].lines
               /\ \A v \in Views' : Contains(v.lines, c) => v.lines = seen'[c].lines
    <2>1. PICK v \in Slot :
            /\ Follows(Found(c), v.lines, c)
            /\ posted' = [posted EXCEPT ![v.message] = v.lines]
            /\ seen' = [seen EXCEPT ![c] = v]
            /\ Views' \subseteq Views \cup {v}
      BY <1>5, NewView DEF DocTypes
    <2>2. pc[c] = "show" /\ pc[c] \notin Shown
      BY <1>5 DEF Shows, Shown
    <2>3. v.lines[Len(v.lines)] = c
      BY <2>1 DEF Follows
    <2>4. seen'[c] = v /\ posted'[v.message] = v.lines
      BY <2>1 DEF ChannelTypes, Slot
    <2>5. \A w \in Views : ~Contains(w.lines, c)
      BY <2>2, NotShownYet
    <2> QED
      BY <2>1, <2>3, <2>4, <2>5
  <1>6. ASSUME NEW d \in Calls, Misses(d) \/ Leaves(d), d = c
        PROVE  pc'[c] # "save"
    BY <1>6 DEF Misses, Leaves, DocTypes
  <1> QED
    BY <1>2, <1>3, <1>4, <1>5, <1>6 DEF ChannelStep

\* What was kept is of calls that are done, in messages that were posted.
LEMMA KeptAre ==
  ASSUME DocTypes, ChannelTypes, ChannelStep, Kept, NEW k \in 1..Len(kept)
  PROVE  /\ kept[k].line \in Calls /\ kept[k].message \in Calls
         /\ pc[kept[k].line] = "done" /\ pc'[kept[k].line] = "done"
         /\ posted[kept[k].message] # None /\ posted'[kept[k].message] # None
  <1>1. kept[k].line \in Calls /\ kept[k].message \in Calls
    <2> DEFINE Line == [line : Calls, message : Calls]
    <2>1. kept \in Seq(Line)
      BY DEF ChannelTypes
    <2> HIDE DEF Line
    <2>2. kept[k] \in Line
      BY <2>1
    <2> QED
      BY <2>2 DEF Line
  <1>2. pc[kept[k].line] = "done" /\ posted[kept[k].message] # None
    BY DEF Kept
  <1> QED
    BY <1>1, <1>2, ShownStays, PostedStays

\* A message with one line more keeps what it should.
LEMMA ShowsKeeps ==
  ASSUME DocTypes, ChannelTypes, Lines, Kept, ChannelStep, NEW c \in Calls, pc[c] = "show",
         NEW v \in Slot, v.message = IF seen[c] = None THEN c ELSE seen[c].message,
         Follows(Found(c), v.lines, c)
  PROVE  /\ \A k \in 1..Len(kept) :
              v.message = kept[k].message =>
                \/ Contains(v.lines, kept[k].line)
                \/ /\ Len(v.lines) = MaxEntries
                   /\ \A j \in 1..(k - 1) : ~Contains(v.lines, kept[j].line)
         /\ \A k \in 1..Len(kept) : \A j \in 1..(k - 1) :
              \A x, y \in 1..Len(v.lines) :
                v.lines[x] = kept[j].line /\ v.lines[y] = kept[k].line => x < y
  <1> DEFINE t == v.lines
             s == seen[c].lines
  <1>1. PICK h \in {0, 1} :
              /\ h = 1 => Len(t) = MaxEntries
              /\ \A n \in 1..(Len(t) - 1) :
                   /\ seen[c] # None /\ n + h \in 1..Len(s)
                   /\ t[n] = s[n + h] /\ t[n] # c /\ pc[t[n]] \in Shown
              /\ seen[c] # None => Len(t) = Len(s) + 1 - h
    BY FollowsWell
  <1>2. t \in Seq(Calls) /\ Len(t) \in 1..MaxEntries /\ Len(t) \in Nat /\ t[Len(t)] = c
    BY FollowsWell
  <1>3. \A k \in 1..Len(kept) : kept[k].line # c
    BY KeptAre
  <1>4. seen[c] # None => seen[c] \in Views /\ Len(s) \in 1..MaxEntries
    BY AtChannel
  <1>5. Len(kept) \in Nat /\ MaxEntries \in Nat /\ h \in Nat
    BY BoardAssumption DEF ChannelTypes
  <1> HIDE DEF t, s
  <1>6. ASSUME NEW k \in 1..Len(kept), NEW x \in 1..Len(t), t[x] = kept[k].line
        PROVE  seen[c] # None /\ x + h \in 1..Len(s) /\ s[x + h] = kept[k].line
    <2>1. x # Len(t)
      BY <1>2, <1>3, <1>6
    <2>2. x \in 1..(Len(t) - 1)
      BY <1>2, <2>1
    <2> QED
      BY <1>1, <1>6, <2>2
  <1>7. ASSUME NEW k \in 1..Len(kept), NEW j \in 1..(k - 1),
               NEW x \in 1..Len(t), NEW y \in 1..Len(t),
               t[x] = kept[j].line, t[y] = kept[k].line
        PROVE  x < y
    <2>1. j \in 1..Len(kept)
      BY <1>5
    <2>2. /\ seen[c] # None /\ x + h \in 1..Len(s) /\ s[x + h] = kept[j].line
          /\ y + h \in 1..Len(s) /\ s[y + h] = kept[k].line
      BY <1>6, <1>7, <2>1
    <2>3. x + h < y + h
      BY <1>4, <2>2 DEF Kept, Ordered, s
    <2> QED
      BY <1>2, <1>5, <2>3
  <1>8. ASSUME NEW k \in 1..Len(kept), v.message = kept[k].message
        PROVE  \/ Contains(t, kept[k].line)
               \/ /\ Len(t) = MaxEntries
                  /\ \A j \in 1..(k - 1) : ~Contains(t, kept[j].line)
    <2>1. seen[c] # None /\ seen[c].message = kept[k].message
      <3>1. CASE seen[c] = None
        <4>1. kept[k].message = c
          BY <1>8, <3>1
        <4>2. posted[c] # None
          BY <4>1, KeptAre
        <4> QED
          BY <4>2 DEF Lines, Shown
      <3> QED
        BY <1>8, <3>1
    <2>2. CASE Contains(s, kept[k].line)
      <3>1. PICK x \in 1..Len(s) : s[x] = kept[k].line
        BY <2>2 DEF Contains
      <3>2. CASE x - h \in 1..(Len(t) - 1)
        <4>1. t[x - h] = s[x - h + h] /\ x - h + h = x
          BY <1>1, <1>4, <1>5, <2>1, <3>2
        <4>2. x - h \in 1..Len(t)
          BY <1>2, <1>5, <3>2
        <4> QED
          BY <3>1, <4>1, <4>2 DEF Contains
      <3>3. CASE x - h \notin 1..(Len(t) - 1)
        <4>1. Len(t) = Len(s) + 1 - h /\ Len(s) \in Nat
          BY <1>1, <1>4, <1>5, <2>1
        <4>2. h = 1 /\ x = 1 /\ Len(t) = MaxEntries
          BY <1>1, <1>5, <3>3, <4>1
        <4>3. ASSUME NEW j \in 1..(k - 1), Contains(t, kept[j].line)
              PROVE  FALSE
          <5>1. PICK y \in 1..Len(t) : t[y] = kept[j].line
            BY <4>3 DEF Contains
          <5>2. j \in 1..Len(kept)
            BY <1>5
          <5>3. y + h \in 1..Len(s) /\ s[y + h] = kept[j].line
            BY <1>6, <5>1, <5>2
          <5>4. y + h < x
            BY <1>4, <2>1, <3>1, <5>3 DEF Kept, Ordered, s
          <5> QED
            BY <1>2, <4>2, <5>4
        <4> QED
          BY <4>2, <4>3
      <3> QED
        BY <3>2, <3>3
    <2>3. CASE ~Contains(s, kept[k].line)
      <3>1. /\ Len(s) = MaxEntries
            /\ \A j \in 1..(k - 1) : ~Contains(s, kept[j].line)
        BY <1>4, <2>1, <2>3 DEF Kept, s
      <3>2. Len(t) = MaxEntries
        BY <1>1, <1>2, <1>5, <2>1, <3>1
      <3>3. ASSUME NEW j \in 1..(k - 1), Contains(t, kept[j].line)
            PROVE  FALSE
        <4>1. PICK y \in 1..Len(t) : t[y] = kept[j].line
          BY <3>3 DEF Contains
        <4>2. j \in 1..Len(kept)
          BY <1>5
        <4>3. y + h \in 1..Len(s) /\ s[y + h] = kept[j].line
          BY <1>6, <4>1, <4>2
        <4> QED
          BY <3>1, <4>3 DEF Contains
      <3> QED
        BY <3>2, <3>3
    <2> QED
      BY <2>2, <2>3
  <1> QED
    BY <1>7, <1>8 DEF t

\* A line is kept when its call leaves alone.
LEMMA KeepsOneMore ==
  ASSUME DocTypes, ChannelTypes, Lines, Alone, Kept, ChannelStep,
         NEW c \in Calls \ overlaps, Leaves(c), pc[c] = "save", slot' = seen[c],
         kept' = Append(kept, [line |-> c, message |-> seen[c].message])
  PROVE  Kept'
  <1> DEFINE s == seen[c].lines
             m == seen[c].message
             e == [line |-> c, message |-> m]
             Line == [line : Calls, message : Calls]
  <1>1. /\ seen[c] # None /\ seen[c] \in Slot /\ seen[c] \in Views
        /\ m \in Calls /\ s \in Seq(Calls) /\ Len(s) \in 1..MaxEntries
    BY AtChannel
  <1>2. /\ s[Len(s)] = c /\ posted[m] = s
        /\ \A v \in Views : Contains(v.lines, c) => v.lines = s
        /\ \A d \in Calls : d # c => pc[d] \notin AtSlotNow
        /\ IsInjective(s) /\ posted[m] # None
    BY <1>1 DEF Alone, AtSlotNow, Lines
  <1>3. /\ pc' = [pc EXCEPT ![c] = "done"] /\ seen' = [seen EXCEPT ![c] = None] /\ posted' = posted
    BY DEF Leaves
  <1>4. e \in Line /\ e.line = c /\ e.message = m /\ kept \in Seq(Line)
    BY <1>1 DEF ChannelTypes
  <1> HIDE DEF e, Line
  <1>5. /\ Len(kept) \in Nat /\ Len(kept') = Len(kept) + 1 /\ kept'[Len(kept) + 1] = e
        /\ \A k \in 1..Len(kept) : kept'[k] = kept[k]
    BY <1>4 DEF e
  <1>6. Views' \subseteq Views
    BY OldViews
  <1>7. ASSUME NEW v \in Views', v.message = m
        PROVE  v.lines = s
    <2>1. \A d \in Calls : seen'[d] = None
      <3>1. \A d \in Calls : d # c => seen[d] = None
        BY <1>2, AtChannel
      <3> QED
        BY <1>3, <3>1 DEF ChannelTypes
    <2>2. CASE v \in Live'
      <3>1. v = seen[c]
        BY <2>1, <2>2, LiveIs
      <3> QED
        BY <3>1
    <2>3. ASSUME NEW n \in Calls, v = [message |-> n, lines |-> posted'[n]]
          PROVE  v.lines = s
      BY <1>2, <1>3, <1>7, <2>3
    <2> QED
      BY <2>2, <2>3, ViewsAre
  <1>8. Contains(s, c)
    <2>1. Len(s) \in 1..Len(s)
      BY <1>1, BoardAssumption
    <2> QED
      BY <1>2, <2>1 DEF Contains
  <1>9. \A k \in 1..Len(kept) : kept[k].line # c
    BY KeptAre
  <1> HIDE DEF s, m
  <1>10. \A k \in 1..Len(kept') : /\ pc'[kept'[k].line] = "done"
                                  /\ posted'[kept'[k].message] # None
    <2>1. pc'[e.line] = "done" /\ posted'[e.message] # None
      BY <1>2, <1>3, <1>4 DEF DocTypes
    <2>2. \A k \in 1..Len(kept) : /\ pc'[kept[k].line] = "done"
                                  /\ posted'[kept[k].message] # None
      BY KeptAre
    <2> QED
      BY <1>5, <2>1, <2>2
  <1>11. ASSUME NEW v \in Views', NEW k \in 1..Len(kept'), v.message = kept'[k].message
         PROVE  \/ Contains(v.lines, kept'[k].line)
                \/ /\ Len(v.lines) = MaxEntries
                   /\ \A j \in 1..(k - 1) : ~Contains(v.lines, kept'[j].line)
    <2>1. CASE k = Len(kept) + 1
      BY <1>4, <1>5, <1>7, <1>8, <1>11, <2>1
    <2>2. CASE k \in 1..Len(kept)
      <3>1. kept'[k] = kept[k] /\ \A j \in 1..(k - 1) : kept'[j] = kept[j]
        BY <1>5, <2>2
      <3>2. v \in Views /\ v.message = kept[k].message
        BY <1>6, <1>11, <3>1
      <3> QED
        BY <2>2, <3>1, <3>2 DEF Kept
    <2> QED
      BY <1>5, <2>1, <2>2
  <1>12. ASSUME NEW v \in Views', NEW k \in 1..Len(kept'), NEW j \in 1..(k - 1),
                NEW x \in 1..Len(v.lines), NEW y \in 1..Len(v.lines),
                v.lines[x] = kept'[j].line, v.lines[y] = kept'[k].line
         PROVE  x < y
    <2>0. j \in 1..Len(kept) /\ kept'[j] = kept[j]
      BY <1>5
    <2>1. CASE k = Len(kept) + 1
      <3>1. v.lines[y] = c
        BY <1>4, <1>5, <1>12, <2>1
      <3>2. v.lines = s
        BY <1>2, <1>6, <3>1 DEF Contains
      <3>3. s[x] # c
        BY <1>9, <1>12, <2>0, <3>2
      <3>4. Len(s) \in Nat /\ Len(s) \in 1..Len(s) /\ x \in 1..Len(s) /\ y \in 1..Len(s) /\ DOMAIN s = 1..Len(s)
        BY <1>1, <3>2, BoardAssumption DEF s
      <3>5. y = Len(s)
        BY <1>2, <3>1, <3>2, <3>4 DEF IsInjective
      <3>6. x # Len(s)
        BY <1>2, <3>3
      <3>7. x \in Nat /\ x <= Len(s) /\ Len(s) \in Nat
        BY <3>4
      <3>8. x < Len(s)
        BY <3>6, <3>7
      <3> QED
        BY <3>5, <3>8
    <2>2. CASE k \in 1..Len(kept)
      <3>1. kept'[k] = kept[k] /\ v \in Views
        BY <1>5, <1>6, <2>2
      <3> QED
        BY <1>12, <2>0, <2>2, <3>1 DEF Kept, Ordered
    <2> QED
      BY <1>5, <2>1, <2>2
  <1>13. Ordered'
    BY <1>12 DEF Ordered
  <1> QED
    BY <1>10, <1>11, <1>13 DEF Kept

\* The lines kept stay, until newer ones take their place.
LEMMA KeptKept ==
  ASSUME DocTypes, ChannelTypes, Lines, Alone, Kept, ChannelStep
  PROVE  Kept'
  <1> DEFINE Stay(v) == \A k \in 1..Len(kept) :
                          v.message = kept[k].message =>
                            \/ Contains(v.lines, kept[k].line)
                            \/ /\ Len(v.lines) = MaxEntries
                               /\ \A j \in 1..(k - 1) : ~Contains(v.lines, kept[j].line)
             InOrder(v) == \A k \in 1..Len(kept) : \A j \in 1..(k - 1) :
                             \A x, y \in 1..Len(v.lines) :
                               v.lines[x] = kept[j].line /\ v.lines[y] = kept[k].line => x < y
  <1>1. \A v \in Views : Stay(v) /\ InOrder(v)
    BY DEF Kept, Ordered
  <1>2. \A k \in 1..Len(kept) : /\ pc'[kept[k].line] = "done"
                                /\ posted'[kept[k].message] # None
    BY KeptAre
  <1>3. ASSUME kept' = kept, \A v \in Views' : Stay(v) /\ InOrder(v)
        PROVE  Kept'
    BY <1>2, <1>3 DEF Kept, Ordered
  <1> HIDE DEF Stay, InOrder
  <1>4. ASSUME NEW c \in Calls, Shows(c)
        PROVE  Kept'
    <2>1. PICK v \in Slot :
            /\ v.message = IF seen[c] = None THEN c ELSE seen[c].message
            /\ Follows(Found(c), v.lines, c)
            /\ Views' \subseteq Views \cup {v}
      BY <1>4, NewView
    <2>2. pc[c] = "show" /\ kept' = kept
      BY <1>4 DEF Shows
    <2>3. Stay(v) /\ InOrder(v)
      BY <2>1, <2>2, ShowsKeeps DEF Stay, InOrder
    <2> QED
      BY <1>1, <1>3, <2>1, <2>2, <2>3
  <1>5. ASSUME Silent \/ \E c \in Calls : Arrives(c) \/ Misses(c) \/ Leaves(c), kept' = kept
        PROVE  Kept'
    <2>1. Views' \subseteq Views
      BY <1>5, OldViews
    <2> QED
      BY <1>1, <1>3, <1>5, <2>1
  <1>6. ASSUME NEW c \in Calls, Leaves(c), kept' # kept
        PROVE  Kept'
    BY <1>6, KeepsOneMore DEF Leaves
  <1>7. Silent \/ (\E c \in Calls : Arrives(c) \/ Misses(c)) => kept' = kept
    BY DEF Silent, Arrives, Misses
  <1> QED
    BY <1>4, <1>5, <1>6, <1>7 DEF ChannelStep

\* So a line stays in its message.
LEMMA LinesFollow ==
  ASSUME ChannelTypes, Kept
  PROVE  LinesStay
  <1> SUFFICES ASSUME NEW k \in 1..Len(kept)
               PROVE  \/ Contains(posted[kept[k].message], kept[k].line)
                      \/ /\ Len(posted[kept[k].message]) = MaxEntries
                         /\ \A older \in 1..(k - 1) :
                              ~Contains(posted[kept[k].message], kept[older].line)
    BY DEF LinesStay, ChannelTypes
  <1> DEFINE Line == [line : Calls, message : Calls]
             m == kept[k].message
             v == [message |-> m, lines |-> posted[m]]
  <1>1. kept \in Seq(Line)
    BY DEF ChannelTypes
  <1> HIDE DEF Line
  <1>2. kept[k] \in Line
    BY <1>1
  <1>3. m \in Calls /\ posted[m] # None
    BY <1>2 DEF Line, Kept
  <1>4. v \in Views /\ v.message = m /\ v.lines = posted[m]
    BY <1>3 DEF Views
  <1> HIDE DEF v
  <1> QED
    BY <1>4 DEF Kept

-----------------------------------------------------------------------------
(* After a deleted message a new one is started. *)

\* Only Misses loses a message, and a call that has lost one only leaves.
LEMMA LostMoves ==
  ASSUME DocTypes, ChannelTypes, ChannelStep, NEW c \in Calls
  PROVE  /\ lost'[c] # lost[c] => Misses(c) /\ lost'[c] = seen[c].message
         /\ pc[c] \in {"drop", "done"} =>
              \/ pc'[c] = pc[c] /\ seen'[c] = seen[c]
              \/ pc[c] = "drop" /\ pc'[c] = "done" /\ Leaves(c)
  <1>1. CASE Silent
    BY <1>1 DEF Silent, DocTypes, AtSlotNow
  <1>2. ASSUME NEW d \in Calls, Arrives(d) \/ Shows(d)
        PROVE  /\ lost'[c] = lost[c]
               /\ pc[c] \in {"drop", "done"} => pc'[c] = pc[c] /\ seen'[c] = seen[c]
    <2>1. /\ lost' = lost /\ pc[d] \notin {"drop", "done"}
          /\ \E p : pc' = [pc EXCEPT ![d] = p]
          /\ \E v : seen' = [seen EXCEPT ![d] = v] \/ seen' = seen
      BY <1>2 DEF Arrives, Shows
    <2> QED
      BY <2>1 DEF DocTypes, ChannelTypes
  <1>3. ASSUME NEW d \in Calls, Misses(d)
        PROVE  /\ lost'[c] # lost[c] => d = c /\ lost'[c] = seen[c].message
               /\ pc[c] \in {"drop", "done"} => pc'[c] = pc[c] /\ seen'[c] = seen[c]
    BY <1>3 DEF Misses, DocTypes, ChannelTypes
  <1>4. ASSUME NEW d \in Calls, Leaves(d)
        PROVE  /\ lost'[c] = lost[c]
               /\ pc[c] \in {"drop", "done"} =>
                    \/ pc'[c] = pc[c] /\ seen'[c] = seen[c]
                    \/ pc[c] = "drop" /\ pc'[c] = "done" /\ d = c
    <2>1. /\ lost' = lost /\ pc[d] \in AtSlotNow
          /\ pc' = [pc EXCEPT ![d] = "done"] /\ seen' = [seen EXCEPT ![d] = None]
      BY <1>4 DEF Leaves
    <2> QED
      BY <2>1 DEF DocTypes, ChannelTypes, AtSlotNow
  <1> QED
    BY <1>1, <1>2, <1>3, <1>4 DEF ChannelStep

\* A message of which no slot and no copy is left stays without one.
LEMMA LostForGood ==
  ASSUME DocTypes, ChannelTypes, Lines, ChannelStep, NEW m \in Calls, posted[m] # None,
         \A v \in Live : v.message # m
  PROVE  \A v \in Live' : v.message # m
  <1>1. ASSUME NEW c \in Calls, Shows(c)
        PROVE  \A v \in Live' : v.message # m
    <2>1. PICK v \in Slot :
            /\ v.message = IF seen[c] = None THEN c ELSE seen[c].message
            /\ Live' \subseteq Live \cup {v}
      BY <1>1, NewView
    <2>2. pc[c] = "show"
      BY <1>1 DEF Shows
    <2>3. seen[c] # None => seen[c] \in Live
      BY LiveIs
    <2>4. posted[c] = None
      BY <2>2 DEF Lines, Shown
    <2> QED
      BY <2>1, <2>3, <2>4
  <1> QED
    BY <1>1, OldViews DEF ChannelStep

\* The slot of a deleted message goes with the call that met it.
LEMMA LossesKept ==
  ASSUME DocTypes, ChannelTypes, Lines, Alone, Losses, ChannelStep,
         faults' = 0 => faults = 0
  PROVE  Losses'
  <1> SUFFICES ASSUME NEW c \in Calls, lost'[c] # None
               PROVE  /\ posted'[lost'[c]] # None
                      /\ pc'[c] \in {"drop", "done"}
                      /\ pc'[c] = "drop" => seen'[c] # None /\ seen'[c].message = lost'[c]
                      /\ c \notin overlaps' /\ faults' = 0 /\ pc'[c] = "done" =>
                           \A v \in Live' : v.message # lost'[c]
    BY DEF Losses
  <1>1. CASE lost'[c] # lost[c]
    <2>1. Misses(c) /\ lost'[c] = seen[c].message
      BY <1>1, LostMoves
    <2>2. pc'[c] = "drop" /\ seen' = seen /\ posted' = posted /\ seen[c] # None
      BY <2>1 DEF Misses, DocTypes
    <2>3. posted[seen[c].message] # None
      BY <2>2, AtChannel DEF Lines
    <2> QED
      BY <2>1, <2>2, <2>3
  <1>2. CASE lost'[c] = lost[c]
    <2> DEFINE m == lost[c]
    <2>1. /\ posted[m] # None /\ m \in Calls /\ pc[c] \in {"drop", "done"}
          /\ pc[c] = "drop" => seen[c] # None /\ seen[c].message = m
          /\ c \notin overlaps /\ faults = 0 /\ pc[c] = "done" => \A v \in Live : v.message # m
      BY <1>2 DEF Losses, ChannelTypes
    <2>2. posted'[m] # None
      BY <2>1, PostedStays
    <2>3. \/ pc'[c] = pc[c] /\ seen'[c] = seen[c]
          \/ pc[c] = "drop" /\ pc'[c] = "done" /\ Leaves(c)
      BY <2>1, LostMoves
    <2>4. overlaps \subseteq overlaps'
      BY DEF ChannelStep, Silent, Arrives, Shows, Misses, Leaves
    <2>5. ASSUME c \notin overlaps', faults' = 0, pc'[c] = "done"
          PROVE  \A v \in Live' : v.message # m
      <3>1. CASE pc[c] = "done"
        BY <2>1, <2>4, <2>5, <3>1, LostForGood
      <3>2. CASE pc[c] = "drop" /\ Leaves(c)
        <4>1. slot' = None /\ seen' = [seen EXCEPT ![c] = None]
          BY <2>5, <3>2 DEF Leaves
        <4>2. \A d \in Calls : d # c => seen[d] = None
          <5>1. c \in Calls \ overlaps
            BY <2>4, <2>5
          <5>2. \A d \in Calls : d # c => pc[d] \notin AtSlotNow
            BY <3>2, <5>1 DEF Alone, AtSlotNow
          <5> QED
            BY <5>2, AtChannel
        <4>3. \A d \in Calls : seen'[d] = None
          BY <4>1, <4>2 DEF ChannelTypes
        <4> QED
          BY <4>1, <4>3, LiveIs
      <3> QED
        BY <2>1, <2>3, <2>5, <3>1, <3>2
    <2> QED
      BY <1>2, <2>1, <2>2, <2>3, <2>5
  <1> QED
    BY <1>1, <1>2

\* A deleted message is met by one call only.
LEMMA MetOnce ==
  ASSUME DocTypes, ChannelTypes, Lines, Alone, Losses, NEW e \in Calls \ overlaps, Misses(e),
         NEW f \in Calls \ overlaps, f # e, lost[f] # None, lost[f] = seen[e].message
  PROVE  faults # 0
  <1>1. pc[e] = "show" /\ seen[e] # None
    BY DEF Misses
  <1>2. seen[e] \in Live
    BY <1>1, LiveIs
  <1>3. pc[f] # "drop"
    BY <1>1 DEF Alone, AtSlotNow
  <1> QED
    BY <1>2, <1>3 DEF Losses

\* So no two calls that met no other lose their lines to the same message.
LEMMA AfreshKept ==
  ASSUME DocTypes, ChannelTypes, Lines, Alone, Losses, NextStartsAfresh, ChannelStep,
         faults \in Nat, faults' \in Nat, faults <= faults'
  PROVE  NextStartsAfresh'
  <1> SUFFICES ASSUME NEW c \in Calls \ overlaps', NEW d \in Calls \ overlaps',
                      c # d, lost'[c] # None, lost'[c] = lost'[d]
               PROVE  faults' > 0
    BY DEF NextStartsAfresh
  <1>1. c \in Calls \ overlaps /\ d \in Calls \ overlaps
    BY DEF ChannelStep, Silent, Arrives, Shows, Misses, Leaves
  <1>2. CASE lost'[c] = lost[c] /\ lost'[d] = lost[d]
    <2>1. faults > 0
      BY <1>1, <1>2 DEF NextStartsAfresh
    <2> QED
      BY <2>1
  <1>3. ASSUME NEW e \in {c, d}, NEW f \in {c, d}, f # e, lost'[e] # lost[e]
        PROVE  faults' > 0
    <2>1. Misses(e) /\ lost'[e] = seen[e].message
      BY <1>1, <1>3, LostMoves
    <2>2. lost'[f] = lost[f]
      <3>1. lost' = lost \/ \E v : lost' = [lost EXCEPT ![e] = v]
        BY <2>1 DEF Misses
      <3> QED
        BY <1>1, <1>3, <3>1 DEF ChannelTypes
    <2>3. lost[f] # None /\ lost[f] = seen[e].message
      BY <1>3, <2>1, <2>2
    <2>4. faults # 0
      BY <1>1, <1>3, <2>1, <2>3, MetOnce
    <2> QED
      BY <2>4
  <1> QED
    BY <1>2, <1>3

-----------------------------------------------------------------------------
(* The invariant, from the first state on. *)

\* A step fails once at most, and no failure is forgotten.
LEMMA FaultsKept ==
  ASSUME DocTypes, [Next]_vars
  PROVE  faults' \in 0..MaxFaults /\ faults \in Nat /\ faults' \in Nat /\ faults <= faults'
  <1>1. /\ faults \in 0..MaxFaults /\ faults \in Nat /\ MaxFaults \in Nat
        /\ \A n \in 0..MaxFaults : n \in Nat
    BY BoardAssumption DEF DocTypes
  <1>2. UNCHANGED faults \/ Fault
    <2>1. ASSUME NEW c \in Calls, Start(c)
          PROVE  UNCHANGED faults
      BY <2>1, StartsWell, Zenon DEF history
    <2>2. ASSUME NEW c \in Calls, Proceed(c)
          PROVE  UNCHANGED faults \/ Fault
      BY <2>2 DEF Proceed, Create, Write, Record, PostCard, GetActive, PostSlot,
                  UpdateSlot, SaveSlot, DropSlot
    <2>3. ASSUME NEW c \in Calls, Die(c) \/ Expire(c) \/ DeleteMessage(c)
          PROVE  UNCHANGED faults \/ Fault
      BY <2>3 DEF Die, Expire, DeleteMessage
    <2> QED
      BY <2>1, <2>2, <2>3, Zenon DEF Next, vars
  <1>3. CASE UNCHANGED faults
    BY <1>1, <1>3
  <1>4. CASE Fault
    BY <1>1, <1>4, FaultCounts
  <1> QED
    BY <1>2, <1>3, <1>4

\* At first there is one Action or none, with nothing done to it, and no message.
LEMMA InitIsFine ==
  ASSUME Init
  PROVE  IInv
  <1>1. PICK first \in {None, [NewAction EXCEPT !.carded = TRUE]} :
          actions = [i \in Ids |-> IF i = 1 THEN first ELSE None]
    BY DEF Init
  <1>2. /\ [NewAction EXCEPT !.carded = TRUE] \in Action
        /\ [NewAction EXCEPT !.carded = TRUE].status = NewAction.status
        /\ [NewAction EXCEPT !.carded = TRUE].title = NewAction.title
        /\ [NewAction EXCEPT !.carded = TRUE].archived = NewAction.archived
    BY DEF NewAction, Action, Statuses, Titles
  <1>3. MaxActions \in Nat /\ MaxActions >= 1 /\ 1 \in Ids /\ MaxFaults \in Nat
    BY BoardAssumption DEF Ids
  <1>4. DocTypes
    <2>1. actions \in [Ids -> Action \cup {None}]
      BY <1>1, <1>2
    <2>2. /\ steps \in [Ids -> Step] /\ feed \in [Ids -> SUBSET Event]
          /\ pc \in [Calls -> Places] /\ job \in [Calls -> Job]
      BY IdleIs DEF Init, Places
    <2>3. stale \subseteq Ids /\ unrecorded \subseteq Ids /\ faults \in 0..MaxFaults
      BY <1>3 DEF Init
    <2> QED
      BY <2>1, <2>2, <2>3 DEF DocTypes
  <1>5. Jobs
    <2>1. \E n \in 0..MaxActions : {i \in Ids : actions[i] # None} = 1..n
      <3>1. CASE first = None
        <4>1. {i \in Ids : actions[i] # None} = 1..0
          BY <1>1, <3>1
        <4> QED
          BY <1>3, <4>1
      <3>2. CASE first # None
        <4>1. {i \in Ids : actions[i] # None} = 1..1
          BY <1>1, <1>3, <3>2
        <4> QED
          BY <1>3, <4>1
      <3> QED
        BY <3>1, <3>2
    <2>2. \A c \in Calls : pc[c] = "idle" /\ job[c] = Idle
      BY DEF Init
    <2> QED
      BY <2>1, <2>2 DEF Jobs, Begun
  <1>6. Feeds
    <2>1. Recording = {}
      BY DEF Recording, Init
    <2>2. \A i \in Ids : Due[i] = {}
      <3>1. \A i \in Ids : Coming(Recording, i) = {} /\ feed[i] = {}
        BY <2>1 DEF Coming, Init
      <3> QED
        BY <3>1 DEF Due
    <2>3. \A i \in Ids : steps[i] = NoStep
      BY DEF Init
    <2>4. ASSUME NEW i \in Ids, actions[i] # None
          PROVE  Balances({}, actions[i], steps[i])
      <3>1. actions[i] = [NewAction EXCEPT !.carded = TRUE]
        BY <1>1, <2>4
      <3>3. Balances({}, NewAction, NoStep)
        BY BalanceStarts
      <3> QED
        BY <1>2, <2>3, <3>1, <3>3 DEF Balances
    <2>5. IsFiniteSet({})
      BY FS_EmptySet
    <2> QED
      BY <2>2, <2>3, <2>4, <2>5 DEF Feeds
  <1>7. ChannelTypes
    BY DEF Init, ChannelTypes
  <1>8. Views = {} /\ Live = {} /\ Len(kept) = 0
    BY DEF Init, Views, Live
  <1>9. /\ \A c \in Calls : pc[c] = "idle" /\ seen[c] = None /\ posted[c] = None
                            /\ lost[c] = None
        /\ expired = {} /\ gone = {}
    BY DEF Init
  <1>10. Lines
    BY <1>8, <1>9 DEF Lines
  <1>11. Alone
    BY <1>9 DEF Alone, AtSlotNow
  <1>12. Kept
    BY <1>8 DEF Kept, Ordered
  <1>13. Losses /\ NextStartsAfresh
    BY <1>9 DEF Losses, NextStartsAfresh
  <1> QED
    BY <1>4, <1>5, <1>6, <1>7, <1>10, <1>11, <1>12, <1>13 DEF IInv

\* What holds of the documents, of the messages and of the lines holds after every step
\* of every call.
LEMMA StepKeepsAll ==
  ASSUME IInv, [Next]_vars
  PROVE  IInv'
  <1>1. /\ DocTypes /\ Jobs /\ Feeds /\ ChannelTypes /\ Lines /\ Alone /\ Kept /\ Losses
        /\ NextStartsAfresh
    BY DEF IInv
  <1>2. Moves /\ ChannelStep
    BY <1>1, StepMoves, StepAtChannel
  <1>3. faults' \in 0..MaxFaults /\ faults \in Nat /\ faults' \in Nat /\ faults <= faults'
    BY <1>1, FaultsKept
  <1>4. faults' = 0 => faults = 0
    BY <1>3
  <1>5. DocTypes'
    BY <1>1, <1>2, <1>3, DocTypesKept
  <1>6. Jobs'
    BY <1>1, <1>2, JobsKept
  <1>7. Feeds'
    BY <1>1, <1>2, <1>5, FeedsKept
  <1>8. ChannelTypes'
    BY <1>1, <1>2, ChannelTypesKept
  <1>9. Lines'
    BY <1>1, <1>2, <1>5, <1>8, LinesKept
  <1>10. Alone'
    BY <1>1, <1>2, AloneKept
  <1>11. Kept'
    BY <1>1, <1>2, KeptKept
  <1>12. Losses'
    BY <1>1, <1>2, <1>4, LossesKept
  <1>13. NextStartsAfresh'
    BY <1>1, <1>2, <1>3, AfreshKept
  <1> QED
    BY <1>5, <1>6, <1>7, <1>8, <1>9, <1>10, <1>11, <1>12, <1>13 DEF IInv

\* The inductive invariant holds in every state of every behaviour.
THEOREM Invariance == Spec => []IInv
  <1>1. Init => IInv
    BY InitIsFine
  <1>2. IInv /\ [Next]_vars => IInv'
    BY StepKeepsAll
  <1> QED
    BY <1>1, <1>2, PTL DEF Spec

\* Documents, events, slots, messages and calls keep their types: a slot holds one line
\* at least and MaxEntries at most, and no message shows the line of a call twice.
THEOREM TypeCorrect == Spec => []TypeOK
  <1>1. ASSUME IInv
        PROVE  TypeOK
    <2>1. DocTypes /\ ChannelTypes /\ Lines
      BY <1>1 DEF IInv
    <2>2. slot # None => slot \in Slot /\ Len(slot.lines) \in 1..MaxEntries
      BY <2>1, LiveIs, ViewsAre DEF Lines
    <2>3. ASSUME NEW m \in Calls, posted[m] # None
          PROVE  IsInjective(posted[m])
      <3>1. [message |-> m, lines |-> posted[m]] \in Views
        BY <2>3 DEF Views
      <3> QED
        BY <2>1, <3>1 DEF Lines
    <2>4. expired \cup gone \subseteq {m \in Calls : posted[m] # None}
      BY <2>1 DEF Lines, ChannelTypes
    <2>5. \A c \in Calls : /\ job[c].on \in {"nothing", "update", "archive", "step", "comment"}
                           /\ job[c].id \in Ids \cup {0}
                           /\ seen[c] # None => seen[c] \in Slot
      <3>1. \A c \in Calls : job[c] \in Job /\ seen[c] \in Slot \cup {None}
        BY <2>1 DEF DocTypes, ChannelTypes
      <3> QED
        BY <3>1 DEF Job
    <2>6. /\ actions \in [Ids -> Action \cup {None}] /\ steps \in [Ids -> Step]
          /\ \A i \in Ids : feed[i] \subseteq Event
          /\ pc \in [Calls -> Places] /\ stale \cup unrecorded \subseteq Ids
          /\ overlaps \subseteq Calls /\ lost \in [Calls -> Calls \cup {None}]
          /\ faults \in 0..MaxFaults
      BY <2>1 DEF DocTypes, ChannelTypes
    <2> QED
      BY <2>2, <2>3, <2>4, <2>5, <2>6 DEF TypeOK
  <1> QED
    BY <1>1, Invariance, PTL

\* The activity feed accounts for the Action and its step, whatever the calls and however
\* their writes and records interleave.
THEOREM FeedAccounts == Spec => []FeedBalances
  <1>1. IInv => FeedBalances
    BY FeedFollows DEF IInv
  <1> QED
    BY <1>1, Invariance, PTL

\* A line saved by a call that met no other stays in its message until newer ones have
\* taken its place.
THEOREM SavedLinesStay == Spec => []LinesStay
  <1>1. IInv => LinesStay
    BY LinesFollow DEF IInv
  <1> QED
    BY <1>1, Invariance, PTL

\* A deleted message swallows one line at most of calls that met no other, unless a call
\* failed.
THEOREM DeletedMessageIsMetOnce == Spec => []NextStartsAfresh
  <1>1. IInv => NextStartsAfresh
    BY DEF IInv
  <1> QED
    BY <1>1, Invariance, PTL
=============================================================================

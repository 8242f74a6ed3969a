-------------------------- MODULE AgentProcProofs --------------------------
(***************************************************************************)
(* Proofs about AgentProc, for any number of processes, instances, keys,   *)
(* subjects and events, and any values of the bounds.                      *)
(*                                                                         *)
(* The inductive invariant IInv says, beside the guards being exact, that  *)
(* an instance which still holds the revision in the store also holds its  *)
(* row (ViewsAgree).  Every change set of AgentProc is then well formed:   *)
(* what it rewrites is an open process, with the key and the subject it    *)
(* had.  What an accepted well-formed change set preserves is proved once  *)
(* for Write; an action only has to show that its change set is one.       *)
(***************************************************************************)
EXTENDS AgentProc, FiniteSetTheorems, TLAPS

Event == [pid : Procs, id : EventIDs]

\* What the kernel's change sets have in common.
WellFormed(cs) ==
  /\ DOMAIN cs.procs \subseteq Procs
  /\ \A p \in DOMAIN cs.procs : cs.procs[p] \in Process
  /\ cs.events \in Seq(Event)
  /\ \A w \in cs.answers :
       /\ w.pid \in DOMAIN cs.procs
       /\ w.state \in {"none", "open"} \cup Actors
  /\ \A p \in DOMAIN cs.procs :
       IF cs.procs[p].rev = 0
       THEN cs.procs[p].status = "pending"
       ELSE rows[p].rev = cs.procs[p].rev =>
              /\ rows[p].status \notin Terminal
              /\ rows[p].key = cs.procs[p].key
              /\ rows[p].subject = cs.procs[p].subject

\* It starts the processes it writes, or writes one.
BatchOrOne(cs) ==
  \/ DOMAIN cs.procs = Inserts(cs)
  \/ \E p \in Procs : DOMAIN cs.procs = {p}

\* The part of TypeOK a change set can touch.
StoreTyped ==
  /\ rows \in [Procs -> Process]
  /\ due \in [Procs -> BOOLEAN]
  /\ keyGuards \in [Keys -> Procs \cup {None}]
  /\ subjectGuards \in [Subjects -> Procs \cup {None}]
  /\ awaits \in [Procs -> [AwaitKeys -> {"none", "open"} \cup Actors]]
  /\ events \subseteq [pid : Procs, id : EventIDs, seq : Nat]
  /\ eventSeq \in [Procs -> Nat]
  /\ ran \in [Procs -> Nat]
  /\ appended \in Seq(Event)

IInv == TypeOK /\ SubjectGuardExact /\ KeyGuardExact /\ ViewsAgree
-----------------------------------------------------------------------------
(***************************************************************************)
(* Write.                                                                  *)
(***************************************************************************)

\* The position of an event in its change set is one of finitely many.
LEMMA EventCount ==
  ASSUME NEW cs, cs.events \in Seq(Event), NEW p, NEW n
  PROVE  /\ Cardinality(EventsOf(cs, p)) \in Nat
         /\ Cardinality({j \in EventsOf(cs, p) : j < n}) \in Nat
<1>1. DOMAIN cs.events = 1..Len(cs.events) /\ Len(cs.events) \in Nat
  OBVIOUS
<1>2. IsFiniteSet(DOMAIN cs.events)
  BY <1>1, FS_Interval
<1>3. EventsOf(cs, p) \in SUBSET DOMAIN cs.events
  BY DEF EventsOf
<1>4. {j \in EventsOf(cs, p) : j < n} \in SUBSET DOMAIN cs.events
  BY DEF EventsOf
<1>5. /\ IsFiniteSet(EventsOf(cs, p))
      /\ IsFiniteSet({j \in EventsOf(cs, p) : j < n})
  BY <1>2, <1>3, <1>4, FS_Subset
<1> QED
  BY <1>5, FS_CardinalityType

\* A row written with its revision raised is a row.
LEMMA RevRaised ==
  ASSUME NEW row \in Process
  PROVE  [row EXCEPT !.rev = @ + 1] \in Process
BY DEF Process

\* Write leaves the store well typed.
LEMMA WriteKeepsTypes ==
  ASSUME NEW cs, TypeOK, WellFormed(cs), Accepts(cs), Write(cs)
  PROVE  StoreTyped'
<1>1. rows' \in [Procs -> Process]
  <2>1. ASSUME NEW p \in DOMAIN cs.procs
        PROVE  [cs.procs[p] EXCEPT !.rev = @ + 1] \in Process
    <3>1. cs.procs[p] \in Process
      BY <2>1 DEF WellFormed
    <3> QED
      BY <3>1, RevRaised
  <2> QED
    BY <2>1 DEF Write, RowsAfter, TypeOK
<1>2. due' \in [Procs -> BOOLEAN] /\ ran' \in [Procs -> Nat]
  BY DEF Write, TypeOK
<1>3. Inserts(cs) \subseteq Procs
  BY DEF Inserts, WellFormed
<1>4. keyGuards' \in [Keys -> Procs \cup {None}]
  BY <1>3 DEF Write, KeyGuardsAfter, TypeOK
<1>5. subjectGuards' \in [Subjects -> Procs \cup {None}]
  BY <1>3 DEF Write, SubjectGuardsAfter, TypeOK
<1>6. awaits' \in [Procs -> [AwaitKeys -> {"none", "open"} \cup Actors]]
  <2>1. ASSUME NEW p \in Procs, NEW k \in AwaitKeys,
               \E w \in cs.answers : w.pid = p /\ w.key = k
        PROVE  (CHOOSE w \in cs.answers : w.pid = p /\ w.key = k).state
                 \in {"none", "open"} \cup Actors
    BY <2>1 DEF WellFormed
  <2> QED
    BY <2>1 DEF Write, AwaitsAfter, TypeOK
<1>7. eventSeq' \in [Procs -> Nat]
  <2>1. ASSUME NEW p \in Procs
        PROVE  eventSeq[p] + Cardinality(EventsOf(cs, p)) \in Nat
    <3>1. Cardinality(EventsOf(cs, p)) \in Nat
      BY EventCount DEF WellFormed
    <3> QED
      BY <3>1 DEF TypeOK
  <2> QED
    BY <2>1 DEF Write, EventSeqAfter
<1>8. events' \subseteq [pid : Procs, id : EventIDs, seq : Nat]
  <2> DEFINE at(i) == eventSeq[cs.events[i].pid]
                        + Cardinality({j \in EventsOf(cs, cs.events[i].pid) : j < i})
             row(i) == [pid |-> cs.events[i].pid, id |-> cs.events[i].id,
                        seq |-> at(i)]
  <2>1. ASSUME NEW i \in DOMAIN cs.events
        PROVE  row(i) \in [pid : Procs, id : EventIDs, seq : Nat]
    <3>1. cs.events[i] \in Event
      BY DEF WellFormed
    <3>2. Cardinality({j \in EventsOf(cs, cs.events[i].pid) : j < i}) \in Nat
      BY EventCount DEF WellFormed
    <3>3. eventSeq[cs.events[i].pid] \in Nat
      BY <3>1 DEF Event, TypeOK
    <3>4. at(i) \in Nat
      BY <3>2, <3>3
    <3> QED
      BY <3>1, <3>4 DEF Event
  <2>2. events' = events \cup {row(i) : i \in DOMAIN cs.events}
    BY DEF Write, EventsAfter
  <2>3. events \subseteq [pid : Procs, id : EventIDs, seq : Nat]
    BY DEF TypeOK
  <2> HIDE DEF row, at
  <2> QED
    BY <2>1, <2>2, <2>3
<1>9. appended' \in Seq(Event)
  <2>1. appended \in Seq(Event) /\ cs.events \in Seq(Event)
    BY DEF TypeOK, Event, WellFormed
  <2> QED
    BY <2>1 DEF Write
<1> QED
  BY <1>1, <1>2, <1>4, <1>5, <1>6, <1>7, <1>8, <1>9 DEF StoreTyped

\* What Write makes of a row, and what acceptance says of the row before.
LEMMA WrittenRow ==
  ASSUME NEW cs, TypeOK, WellFormed(cs), Accepts(cs), Write(cs),
         NEW p \in Procs
  PROVE  /\ p \notin DOMAIN cs.procs => rows'[p] = rows[p]
         /\ p \in DOMAIN cs.procs =>
              /\ rows[p].rev = cs.procs[p].rev
              /\ rows'[p].rev = rows[p].rev + 1 /\ rows'[p].rev > 0
              /\ rows'[p].status = cs.procs[p].status
              /\ rows'[p].key = cs.procs[p].key
              /\ rows'[p].subject = cs.procs[p].subject
              /\ rows'[p].wake = cs.procs[p].wake
         /\ p \in Inserts(cs) => rows[p].rev = 0 /\ rows'[p].status = "pending"
         /\ p \in DOMAIN cs.procs \ Inserts(cs) =>
              /\ IsOpen(p)
              /\ rows'[p].key = rows[p].key
              /\ rows'[p].subject = rows[p].subject
<1>1. ASSUME p \in DOMAIN cs.procs
      PROVE  /\ rows[p].rev = cs.procs[p].rev
             /\ cs.procs[p] \in Process
             /\ rows'[p] = [cs.procs[p] EXCEPT !.rev = @ + 1]
  BY <1>1 DEF Accepts, RevsHeld, Write, RowsAfter, WellFormed
<1>2. rows[p].rev \in Nat
  BY DEF TypeOK, Process
<1>3. p \notin DOMAIN cs.procs => rows'[p] = rows[p]
  BY DEF Write, RowsAfter
<1>4. p \in DOMAIN cs.procs =>
        /\ rows[p].rev = cs.procs[p].rev
        /\ rows'[p].rev = rows[p].rev + 1 /\ rows'[p].rev > 0
        /\ rows'[p].status = cs.procs[p].status
        /\ rows'[p].key = cs.procs[p].key
        /\ rows'[p].subject = cs.procs[p].subject
        /\ rows'[p].wake = cs.procs[p].wake
  BY <1>1, <1>2 DEF Process
<1>5. p \in Inserts(cs) => rows[p].rev = 0 /\ rows'[p].status = "pending"
  BY <1>4 DEF Inserts, WellFormed
<1>6. p \in DOMAIN cs.procs \ Inserts(cs) =>
        /\ IsOpen(p)
        /\ rows'[p].key = rows[p].key
        /\ rows'[p].subject = rows[p].subject
  BY <1>2, <1>4 DEF Inserts, IsOpen, Exists, WellFormed
<1> QED
  BY <1>3, <1>4, <1>5, <1>6

\* The guards stay exact.  An insert found its guards free and is the only one
\* of its change set to take them; a rewrite keeps the key and the subject, and
\* gives the subject up exactly when it ends the process.
LEMMA WriteKeepsSubjectGuards ==
  ASSUME NEW cs, TypeOK, SubjectGuardExact,
         WellFormed(cs), Accepts(cs), Write(cs)
  PROVE  SubjectGuardExact'
<1> SUFFICES ASSUME NEW s \in Subjects, NEW p \in Procs
             PROVE  subjectGuards'[s] = p
                      <=> /\ rows'[p].rev > 0 /\ rows'[p].status \notin Terminal
                          /\ rows'[p].subject = s
  BY DEF SubjectGuardExact, IsOpen, Exists
<1> DEFINE Ends(q) == /\ q \in DOMAIN cs.procs
                      /\ cs.procs[q].subject = s
                      /\ cs.procs[q].status \in Terminal
           Takes(q) == q \in Inserts(cs) /\ cs.procs[q].subject = s
<1>1. \A q \in Procs : q \in DOMAIN cs.procs => rows'[q].rev > 0
  BY WrittenRow
<1>2. \A q \in Procs : subjectGuards[s] = q
                         <=> /\ rows[q].rev > 0 /\ rows[q].status \notin Terminal
                             /\ rows[q].subject = s
  BY DEF SubjectGuardExact, IsOpen, Exists
<1>3. \A q : Takes(q) => q \in Procs /\ q \in DOMAIN cs.procs
                           /\ subjectGuards[s] = None
                           /\ cs.procs[q].status = "pending"
  <2>1. \A q \in Inserts(cs) : q \in Procs /\ q \in DOMAIN cs.procs
                                 /\ cs.procs[q].status = "pending"
    BY DEF Inserts, WellFormed
  <2>2. s # None
    BY ConstantsAssumption
  <2>3. \A q \in Inserts(cs) :
          cs.procs[q].subject # None => subjectGuards[cs.procs[q].subject] = None
    BY DEF Accepts, GuardsFree
  <2> QED
    BY <2>1, <2>2, <2>3
<1>4. \A q : Ends(q) => q \in Procs /\ ~Takes(q) /\ subjectGuards[s] = q
  <2> SUFFICES ASSUME NEW q, Ends(q)
               PROVE  q \in Procs /\ ~Takes(q) /\ subjectGuards[s] = q
    OBVIOUS
  <2>1. q \in Procs /\ q \in DOMAIN cs.procs
    BY DEF WellFormed
  <2>2. ~Takes(q)
    BY <1>3 DEF Terminal
  <2>3. q \in DOMAIN cs.procs \ Inserts(cs)
    BY <2>1, <2>2
  <2>4. IsOpen(q) /\ rows'[q].subject = rows[q].subject
                  /\ rows'[q].subject = cs.procs[q].subject
    BY <2>1, <2>3, WrittenRow
  <2> QED
    BY <1>2, <2>1, <2>2, <2>4 DEF IsOpen, Exists
<1>5. \A q \in Procs : q \in DOMAIN cs.procs /\ ~Takes(q) =>
        (cs.procs[q].subject = s <=> subjectGuards[s] = q)
  <2> SUFFICES ASSUME NEW q \in Procs, q \in DOMAIN cs.procs, ~Takes(q)
               PROVE  cs.procs[q].subject = s <=> subjectGuards[s] = q
    OBVIOUS
  <2>1. rows'[q].subject = cs.procs[q].subject
    BY WrittenRow
  <2>2. CASE q \in Inserts(cs)
    <3>1. rows[q].rev = 0
      BY <2>2, WrittenRow
    <3> QED
      BY <2>2, <3>1, <1>2
  <2>3. CASE q \notin Inserts(cs)
    <3>1. IsOpen(q) /\ rows'[q].subject = rows[q].subject
      BY <2>3, WrittenRow
    <3> QED
      BY <2>1, <3>1, <1>2 DEF IsOpen, Exists
  <2> QED
    BY <2>2, <2>3
<1>6. p \in DOMAIN cs.procs =>
        rows'[p].status = cs.procs[p].status
          /\ rows'[p].subject = cs.procs[p].subject
  BY WrittenRow
<1>7. p \notin DOMAIN cs.procs => rows'[p] = rows[p]
  BY WrittenRow
<1>8. subjectGuards'[s] =
        IF \E q : Ends(q) THEN None
        ELSE IF \E q : Takes(q) THEN CHOOSE q \in Inserts(cs) :
                                       cs.procs[q].subject = s
        ELSE subjectGuards[s]
  BY DEF Write, SubjectGuardsAfter
<1>9. None \notin Procs
  BY ConstantsAssumption
<1>10. CASE \E q : Ends(q)
  <2>1. PICK q : Ends(q)
    BY <1>10
  <2>2. subjectGuards'[s] # p
    BY <1>8, <1>9, <1>10
  <2>3. q \in Procs /\ subjectGuards[s] = q
    BY <1>4, <2>1
  <2>4. \A t : ~Takes(t)
    BY <1>3, <1>9, <2>3
  <2>5. CASE p = q
    BY <2>1, <2>2, <2>5, <1>6
  <2>6. CASE p # q
    BY <2>2, <2>3, <2>4, <2>6, <1>2, <1>5, <1>6, <1>7
  <2> QED
    BY <2>5, <2>6
<1>11. CASE (\A q : ~Ends(q)) /\ \E q : Takes(q)
  <2>1. PICK q : Takes(q) /\ subjectGuards'[s] = q
    BY <1>8, <1>11
  <2>2. q \in Procs /\ q \in DOMAIN cs.procs /\ subjectGuards[s] = None
          /\ cs.procs[q].status = "pending"
    BY <1>3, <2>1
  <2>3. \A t : Takes(t) => t = q
    BY <2>1, ConstantsAssumption DEF Accepts, ChangeSetUnique
  <2>4. CASE p = q
    BY <1>1, <1>6, <2>1, <2>2, <2>4 DEF Terminal
  <2>5. CASE p # q
    <3>1. ~Takes(p) /\ subjectGuards[s] # p
      BY <1>9, <2>2, <2>3, <2>5
    <3> QED
      BY <3>1, <1>2, <1>5, <1>6, <1>7, <2>1, <2>5
  <2> QED
    BY <2>4, <2>5
<1>12. CASE (\A q : ~Ends(q)) /\ \A q : ~Takes(q)
  <2>1. subjectGuards'[s] = subjectGuards[s]
    BY <1>8, <1>12
  <2>2. CASE p \in DOMAIN cs.procs
    BY <1>1, <1>5, <1>6, <1>12, <2>1, <2>2
  <2>3. CASE p \notin DOMAIN cs.procs
    BY <1>2, <1>7, <2>1, <2>3
  <2> QED
    BY <2>2, <2>3
<1> QED
  BY <1>10, <1>11, <1>12

\* An accepted change set keeps the key guards exact: an insert takes a guard
\* nobody holds, and no later write touches it.
LEMMA WriteKeepsKeyGuards ==
  ASSUME NEW cs, TypeOK, KeyGuardExact,
         WellFormed(cs), Accepts(cs), Write(cs)
  PROVE  KeyGuardExact'
<1> SUFFICES ASSUME NEW k \in Keys, NEW p \in Procs
             PROVE  keyGuards'[k] = p
                      <=> rows'[p].rev > 0 /\ rows'[p].key = k
  BY DEF KeyGuardExact, Exists
<1> DEFINE Takes(q) == q \in Inserts(cs) /\ cs.procs[q].key = k
<1>1. \A q \in Procs : keyGuards[k] = q <=> rows[q].rev > 0 /\ rows[q].key = k
  BY DEF KeyGuardExact, Exists
<1>2. k # None /\ None \notin Procs
  BY ConstantsAssumption
<1>3. \A q : Takes(q) => q \in Procs /\ q \in DOMAIN cs.procs
                           /\ keyGuards[k] = None
  BY <1>2 DEF Inserts, WellFormed, Accepts, GuardsFree
<1>4. p \in DOMAIN cs.procs =>
        rows'[p].rev > 0 /\ rows'[p].key = cs.procs[p].key
  BY WrittenRow
<1>5. p \notin DOMAIN cs.procs => rows'[p] = rows[p]
  BY WrittenRow
<1>6. p \in DOMAIN cs.procs \ Inserts(cs) =>
        rows[p].rev > 0 /\ rows'[p].key = rows[p].key
  BY WrittenRow DEF IsOpen, Exists
<1>7. p \in Inserts(cs) => ~(rows[p].rev > 0) /\ p \in DOMAIN cs.procs
  BY WrittenRow DEF Inserts
<1>8. keyGuards'[k] = IF \E q : Takes(q)
                      THEN CHOOSE q \in Inserts(cs) : cs.procs[q].key = k
                      ELSE keyGuards[k]
  BY DEF Write, KeyGuardsAfter
<1>9. CASE \E q : Takes(q)
  <2>1. PICK q : Takes(q) /\ keyGuards'[k] = q
    BY <1>8, <1>9
  <2>2. \A t : Takes(t) => t = q
    BY <2>1, <1>2 DEF Accepts, ChangeSetUnique
  <2>3. keyGuards[k] = None /\ q \in DOMAIN cs.procs
    BY <1>3, <2>1
  <2>4. CASE p = q
    BY <1>4, <2>1, <2>3, <2>4
  <2>5. CASE p # q
    BY <1>1, <1>2, <1>4, <1>5, <1>6, <2>1, <2>2, <2>3, <2>5
  <2> QED
    BY <2>4, <2>5
<1>10. CASE \A q : ~Takes(q)
  <2>1. keyGuards'[k] = keyGuards[k]
    BY <1>8, <1>10
  <2> QED
    BY <1>1, <1>4, <1>5, <1>6, <1>7, <1>10, <2>1
<1> QED
  BY <1>9, <1>10

\* What an actor read survives another actor's change set: the row is as it
\* was, or at a later revision and still with its key and subject.
LEMMA WriteKeepsViews ==
  ASSUME NEW cs, TypeOK, WellFormed(cs), Accepts(cs), Write(cs),
         NEW v \in View, ViewAgrees(v)
  PROVE  ViewAgrees(v)'
<1> SUFFICES ASSUME v.doing \in {"working", "answering"}
             PROVE  ViewAgrees(v)'
  BY DEF ViewAgrees
<1> DEFINE p == v.pid
<1>1. /\ p \in Procs /\ v.row.rev \in Nat /\ rows[p].rev \in Nat
      /\ 0 < v.row.rev /\ v.row.rev <= rows[p].rev
  BY DEF ViewAgrees, View, Process, TypeOK
<1>2. CASE p \notin DOMAIN cs.procs
  <2>1. rows'[p] = rows[p]
    BY <1>1, <1>2, WrittenRow
  <2>2. ASSUME NEW k \in AwaitKeys PROVE awaits'[p][k] = awaits[p][k]
    <3>1. ~\E w \in cs.answers : w.pid = p /\ w.key = k
      BY <1>2 DEF WellFormed
    <3> QED
      BY <1>1, <3>1 DEF Write, AwaitsAfter
  <2> QED
    BY <2>1, <2>2 DEF ViewAgrees
<1>3. CASE p \in DOMAIN cs.procs
  <2>1. p \notin Inserts(cs)
    BY <1>1, WrittenRow
  <2>2. /\ rows'[p].rev = rows[p].rev + 1
        /\ rows'[p].key = rows[p].key
        /\ rows'[p].subject = rows[p].subject
    BY <1>1, <1>3, <2>1, WrittenRow
  <2> QED
    BY <1>1, <2>2 DEF ViewAgrees
<1> QED
  BY <1>2, <1>3
-----------------------------------------------------------------------------
(***************************************************************************)
(* The change sets of the kernel are well formed.                          *)
(***************************************************************************)

\* The events of a transition are a sequence of events of its process.
LEMMA BatchIsLog ==
  ASSUME NEW p \in Procs, NEW log \in Batches(p)
  PROVE  log \in Seq(Event)
<1>1. Fresh \subseteq EventIDs
  BY DEF Fresh
<1>2. CASE log = << >>
  BY <1>2
<1>3. CASE \E i \in Fresh : log = <<[pid |-> p, id |-> i]>>
  BY <1>1, <1>3 DEF Event
<1>4. CASE \E ij \in Fresh \X Fresh :
             log = <<[pid |-> p, id |-> ij[1]], [pid |-> p, id |-> ij[2]]>>
  BY <1>1, <1>4 DEF Event
<1> QED
  BY <1>2, <1>3, <1>4 DEF Batches

\* Starting processes rewrites no row.
LEMMA SpawnWellFormed ==
  ASSUME NEW batch \in NewBatches, NEW p \in DOMAIN batch,
         NEW log \in Batches(p)
  PROVE  WellFormed(SpawnChange(batch, log))
<1> DEFINE cs == SpawnChange(batch, log)
<1>1. cs.procs = batch /\ cs.events = log /\ cs.answers = {}
  BY DEF SpawnChange
<1>2. PICK ps \in SUBSET Procs :
        batch \in [ps -> {NewProcess(k, s) : k \in Keys \cup {None},
                                             s \in Subjects \cup {None}}]
  BY DEF NewBatches
<1>3. \A q \in ps : /\ batch[q] \in Process
                    /\ batch[q].rev = 0 /\ batch[q].status = "pending"
  <2>1. \A k \in Keys \cup {None}, s \in Subjects \cup {None} :
          /\ NewProcess(k, s) \in Process
          /\ NewProcess(k, s).rev = 0
          /\ NewProcess(k, s).status = "pending"
    BY DEF NewProcess, Process, Status
  <2> QED
    BY <1>2, <2>1
<1>4. log \in Seq(Event)
  BY <1>2, BatchIsLog
<1> HIDE DEF cs
<1> QED
  BY <1>1, <1>2, <1>3, <1>4 DEF WellFormed, cs

\* An actor's claim or answer is written over the row it read, which is open.
LEMMA CommitWellFormed ==
  ASSUME TypeOK, NEW a \in Actors, ViewAgrees(views[a]),
         views[a].doing = "working",
         NEW status \in {"pending", "waiting"} \cup Terminal,
         NEW wake \in BOOLEAN, NEW ask \in AwaitKeys \cup {None},
         NEW log \in Batches(views[a].pid)
  PROVE  WellFormed(CommitChange(a, status, wake, ask, log))
<1> DEFINE v == views[a]
           cs == CommitChange(a, status, wake, ask, log)
           row == [v.row EXCEPT !.status = status, !.lease = FALSE,
                                !.wake = wake]
<1>1. v \in View /\ v.pid \in Procs /\ v.row \in Process
  BY DEF TypeOK, View, ViewAgrees
<1>2. row \in Process /\ row.rev = v.row.rev /\ row.key = v.row.key
        /\ row.subject = v.row.subject
  BY <1>1 DEF Process, Status, Terminal
<1>3. DOMAIN cs.procs = {v.pid} /\ cs.procs[v.pid] = row /\ cs.events = log
  BY DEF CommitChange
<1>4. \A w \in cs.answers : w.pid = v.pid /\ w.state = "open"
  BY DEF CommitChange
<1>5. log \in Seq(Event)
  BY <1>1, BatchIsLog
<1>6. row.rev # 0 /\ (rows[v.pid].rev = row.rev =>
                        /\ rows[v.pid].status = "running"
                        /\ rows[v.pid].key = row.key
                        /\ rows[v.pid].subject = row.subject)
  BY <1>1, <1>2 DEF ViewAgrees, Process
<1> HIDE DEF v, cs, row
<1> QED
  BY <1>1, <1>2, <1>3, <1>4, <1>5, <1>6 DEF WellFormed, Terminal, cs

\* An answer is written over a waiting row, which is open and keeps its key and
\* subject.
LEMMA AnswerWellFormed ==
  ASSUME TypeOK, NEW a \in Actors, ViewAgrees(views[a]),
         views[a].doing = "answering"
  PROVE  WellFormed(AnswerChange(a))
<1> DEFINE v == views[a]
           cs == AnswerChange(a)
           row == [v.row EXCEPT !.status = "pending", !.wake = FALSE]
<1>1. v \in View /\ v.pid \in Procs /\ v.row \in Process
  BY DEF TypeOK, View, ViewAgrees
<1>2. row \in Process /\ row.rev = v.row.rev /\ row.key = v.row.key
        /\ row.subject = v.row.subject
  BY <1>1 DEF Process, Status
<1>3. DOMAIN cs.procs = {v.pid} /\ cs.procs[v.pid] = row /\ cs.events = << >>
  BY DEF AnswerChange
<1>4. \A w \in cs.answers : w.pid = v.pid /\ w.state = a
  BY DEF AnswerChange
<1>5. row.rev # 0 /\ (rows[v.pid].rev = row.rev =>
                        /\ rows[v.pid].status = "waiting"
                        /\ rows[v.pid].key = row.key
                        /\ rows[v.pid].subject = row.subject)
  BY <1>1, <1>2 DEF ViewAgrees, Process
<1> HIDE DEF v, cs, row
<1> QED
  BY <1>1, <1>2, <1>3, <1>4, <1>5 DEF WellFormed, Terminal, cs

\* Events appended in the middle of a transition rewrite no row.
LEMMA ProgressWellFormed ==
  ASSUME NEW a \in Actors, views[a].pid \in Procs, NEW id \in EventIDs
  PROVE  WellFormed(ProgressChange(a, id))
<1> DEFINE cs == ProgressChange(a, id)
<1>1. cs.procs = << >> /\ cs.answers = {} /\ cs.events \in Seq(Event)
  BY DEF ProgressChange, Event
<1>2. DOMAIN cs.procs = {}
  BY <1>1
<1> HIDE DEF cs
<1> QED
  BY <1>1, <1>2 DEF WellFormed, cs

\* What Apply preserves, whether it accepts the change set or refuses it.
LEMMA ApplyKeeps ==
  ASSUME TypeOK, SubjectGuardExact, KeyGuardExact,
         NEW cs, WellFormed(cs), Apply(cs)
  PROVE  /\ StoreTyped' /\ SubjectGuardExact' /\ KeyGuardExact'
         /\ \A v \in View : ViewAgrees(v) => ViewAgrees(v)'
<1>1. CASE Accepts(cs) /\ Write(cs)
  BY <1>1, WriteKeepsTypes, WriteKeepsSubjectGuards, WriteKeepsKeyGuards,
     WriteKeepsViews
<1>2. CASE UNCHANGED <<stored, ran, appended>>
  <2>1. StoreTyped'
    BY <1>2 DEF stored, TypeOK, StoreTyped, Event
  <2>2. SubjectGuardExact' /\ KeyGuardExact'
    BY <1>2 DEF stored, SubjectGuardExact, KeyGuardExact, IsOpen, Exists
  <2>3. \A v \in View : ViewAgrees(v) => ViewAgrees(v)'
    BY <1>2 DEF stored, ViewAgrees
  <2> QED
    BY <2>1, <2>2, <2>3
<1> QED
  BY <1>1, <1>2 DEF Apply
-----------------------------------------------------------------------------
(***************************************************************************)
(* The invariant.                                                          *)
(***************************************************************************)

\* An actor that read nothing has nothing to disagree with.
LEMMA IdleAgrees == Idle \in View /\ ViewAgrees(Idle)
<1>1. Absent \in Process
  BY DEF Absent, NewProcess, Process, Status
<1> QED
  BY <1>1 DEF Idle, View, ViewAgrees

\* An empty store satisfies the invariant.
LEMMA InitHolds == Init => IInv
<1> SUFFICES ASSUME Init PROVE IInv
  OBVIOUS
<1>1. Absent \in Process /\ Absent.rev = 0
  BY DEF Absent, NewProcess, Process, Status
<1>2. TypeOK
  BY <1>1, IdleAgrees DEF Init, TypeOK
<1>3. SubjectGuardExact /\ KeyGuardExact
  BY <1>1, ConstantsAssumption
     DEF Init, SubjectGuardExact, KeyGuardExact, IsOpen, Exists
<1>4. ViewsAgree
  BY DEF Init, Idle, ViewsAgree, ViewAgrees
<1> QED
  BY <1>2, <1>3, <1>4 DEF IInv

\* What the store's part of the invariant needs of a step that leaves the
\* actors' views alone or sets one of them to Idle.
LEMMA ApplyStep ==
  ASSUME IInv, NEW cs, WellFormed(cs), Apply(cs), faults' = faults,
         \/ views' = views
         \/ \E a \in Actors : views' = [views EXCEPT ![a] = Idle]
  PROVE  IInv'
<1>1. TypeOK /\ SubjectGuardExact /\ KeyGuardExact /\ ViewsAgree
  BY DEF IInv
<1>2. /\ StoreTyped' /\ SubjectGuardExact' /\ KeyGuardExact'
      /\ \A v \in View : ViewAgrees(v) => ViewAgrees(v)'
  BY <1>1, ApplyKeeps
<1>3. views \in [Actors -> View] /\ faults \in Nat
  BY <1>1 DEF TypeOK
<1>4. \A a \in Actors : views'[a] = views[a] \/ views'[a] = Idle
  BY <1>3
<1>5. views' \in [Actors -> View]
  BY <1>3, IdleAgrees
<1>6. TypeOK'
  BY <1>2, <1>3, <1>5 DEF TypeOK, StoreTyped, Event
<1>7. ViewsAgree'
  <2> SUFFICES ASSUME NEW a \in Actors PROVE ViewAgrees(views[a])'
    BY DEF ViewsAgree
  <2>1. CASE views'[a] = views[a]
    BY <1>1, <1>2, <1>3, <2>1 DEF ViewsAgree, ViewAgrees
  <2>2. CASE views'[a] = Idle
    BY <2>2 DEF Idle, ViewAgrees
  <2> QED
    BY <1>4, <2>1, <2>2
<1> QED
  BY <1>2, <1>6, <1>7 DEF IInv

\* A step that writes no row: a read, the passing of time, a crash.
LEMMA ReadStep ==
  ASSUME IInv,
         UNCHANGED <<rows, keyGuards, subjectGuards, awaits, events, eventSeq,
                     ran, appended>>,
         due' \in [Procs -> BOOLEAN], faults' \in Nat,
         views' \in [Actors -> View],
         \A a \in Actors : views'[a] = views[a] \/ ViewAgrees(views[a])'
  PROVE  IInv'
<1>1. TypeOK'
  BY DEF IInv, TypeOK
<1>2. SubjectGuardExact' /\ KeyGuardExact'
  BY DEF IInv, SubjectGuardExact, KeyGuardExact, IsOpen, Exists
<1>3. ViewsAgree'
  <2> SUFFICES ASSUME NEW a \in Actors PROVE ViewAgrees(views[a])'
    BY DEF ViewsAgree
  <2>1. CASE views'[a] = views[a]
    BY <2>1 DEF IInv, ViewsAgree, ViewAgrees
  <2> QED
    BY <2>1
<1> QED
  BY <1>1, <1>2, <1>3 DEF IInv

\* The row as a claim leaves it.
LEMMA ClaimedRow ==
  ASSUME NEW row \in Process
  PROVE  /\ Claimed(row) \in Process
         /\ Claimed(row).rev = row.rev + 1
         /\ Claimed(row).status = "running"
         /\ Claimed(row).key = row.key
         /\ Claimed(row).subject = row.subject
<1>1. row.unclean + 1 \in Nat /\ row.rev + 1 \in Nat
  BY DEF Process
<1>2. CASE row.status = "running"
  <2>1. Claimed(row) = [row EXCEPT !.status = "running", !.lease = TRUE,
                                   !.wake = FALSE,
                                   !.unclean = row.unclean + 1,
                                   !.rev = row.rev + 1]
    BY <1>2 DEF Claimed, Process
  <2> QED
    BY <1>1, <2>1 DEF Process, Status
<1>3. CASE row.status # "running"
  <2>1. Claimed(row) = [row EXCEPT !.status = "running", !.lease = TRUE,
                                   !.wake = FALSE,
                                   !.unclean = row.unclean,
                                   !.rev = row.rev + 1]
    BY <1>3 DEF Claimed, Process
  <2> QED
    BY <1>1, <2>1 DEF Process, Status
<1> QED
  BY <1>2, <1>3

\* A claim preserves the invariant: it moves the row to a new revision, which
\* only the claiming actor has seen.
LEMMA ClaimStep ==
  ASSUME IInv, NEW a \in Actors, NEW p \in Procs, Claim(a, p)
  PROVE  IInv'
<1>1. TypeOK /\ SubjectGuardExact /\ KeyGuardExact /\ ViewsAgree
  BY DEF IInv
<1>2. rows[p] \in Process /\ rows[p].rev \in Nat /\ IsOpen(p)
  <2>1. rows[p] \in Process
    BY <1>1 DEF TypeOK
  <2>2. Exists(p) /\ ClaimAt(rows[p]) # "never"
    BY DEF Claim, Claimable
  <2>3. rows[p].status \notin Terminal
    BY <2>2 DEF ClaimAt, Terminal
  <2> QED
    BY <2>1, <2>2, <2>3 DEF Process, IsOpen
<1>3. /\ rows' = [rows EXCEPT ![p] = Claimed(rows[p])]
      /\ due' = [due EXCEPT ![p] = FALSE]
      /\ UNCHANGED <<keyGuards, subjectGuards, awaits, events, eventSeq,
                     appended, faults>>
  BY DEF Claim
<1>4. /\ rows \in [Procs -> Process] /\ views \in [Actors -> View]
      /\ due \in [Procs -> BOOLEAN] /\ ran \in [Procs -> Nat]
  BY <1>1 DEF TypeOK
<1>5. /\ rows' \in [Procs -> Process] /\ due' \in [Procs -> BOOLEAN]
      /\ rows'[p] = Claimed(rows[p])
      /\ \A q \in Procs : q # p => rows'[q] = rows[q]
  BY <1>2, <1>3, <1>4, ClaimedRow
<1>6. /\ rows'[p].rev = rows[p].rev + 1
      /\ rows'[p].status = "running"
      /\ rows'[p].key = rows[p].key /\ rows'[p].subject = rows[p].subject
  BY <1>2, <1>5, ClaimedRow
<1> DEFINE mine == [Idle EXCEPT !.doing = "working", !.pid = p,
                                !.row = Claimed(rows[p])]
<1>7. /\ mine \in View /\ mine.doing = "working" /\ mine.pid = p
      /\ mine.row = Claimed(rows[p])
  BY <1>2, ClaimedRow, IdleAgrees DEF Idle, View
<1>8. views' = [views EXCEPT ![a] = mine]
  BY DEF Claim
<1> HIDE DEF mine
<1>9. views' \in [Actors -> View]
  BY <1>4, <1>7, <1>8
<1>10. ran' \in [Procs -> Nat]
  BY <1>4 DEF Claim
<1>11. TypeOK'
  BY <1>1, <1>3, <1>5, <1>9, <1>10 DEF TypeOK
<1>12. \A q \in Procs :
         /\ rows'[q].rev > 0 <=> rows[q].rev > 0
         /\ rows'[q].status \in Terminal <=> rows[q].status \in Terminal
         /\ rows'[q].key = rows[q].key /\ rows'[q].subject = rows[q].subject
  BY <1>2, <1>5, <1>6 DEF IsOpen, Exists, Terminal
<1>13. SubjectGuardExact' /\ KeyGuardExact'
  BY <1>1, <1>3, <1>12 DEF SubjectGuardExact, KeyGuardExact, IsOpen, Exists
<1>14. ViewsAgree'
  <2> SUFFICES ASSUME NEW b \in Actors PROVE ViewAgrees(views[b])'
    BY DEF ViewsAgree
  <2>1. CASE b = a
    BY <1>2, <1>4, <1>5, <1>6, <1>7, <1>8, <2>1 DEF ViewAgrees
  <2>2. CASE b # a
    <3>1. views'[b] = views[b] /\ views[b] \in View /\ ViewAgrees(views[b])
      BY <1>1, <1>4, <1>8, <2>2 DEF ViewsAgree
    <3>2. views[b].row.rev \in Nat
      BY <3>1 DEF View, Process
    <3>3. CASE views[b].pid = p
      BY <1>2, <1>3, <1>6, <3>1, <3>2, <3>3 DEF ViewAgrees
    <3>4. CASE views[b].pid # p
      BY <1>3, <1>5, <3>1, <3>4 DEF ViewAgrees
    <3> QED
      BY <3>3, <3>4
  <2> QED
    BY <2>1, <2>2
<1> QED
  BY <1>11, <1>13, <1>14 DEF IInv

\* Every step preserves the invariant, action by action.
LEMMA NextKeeps == IInv /\ [Next]_vars => IInv'
<1> SUFFICES ASSUME IInv, [Next]_vars PROVE IInv'
  OBVIOUS
<1>1. /\ TypeOK /\ ViewsAgree
      /\ due \in [Procs -> BOOLEAN] /\ faults \in Nat /\ faults + 1 \in Nat
      /\ views \in [Actors -> View] /\ rows \in [Procs -> Process]
  BY DEF IInv, TypeOK
<1>2. ASSUME NEW batch \in NewBatches, Spawn(batch) PROVE IInv'
  <2>1. PICK p \in DOMAIN batch :
          \E log \in Batches(p) : Apply(SpawnChange(batch, log))
    BY <1>2 DEF Spawn
  <2>2. PICK log \in Batches(p) : Apply(SpawnChange(batch, log))
    BY <2>1
  <2> QED
    BY <1>2, <2>2, SpawnWellFormed, ApplyStep DEF Spawn
<1>3. ASSUME NEW a \in Actors, ActorNext(a) PROVE IInv'
  <2>1. CASE Poll(a)
    <3> DEFINE mine == [Idle EXCEPT !.doing = "polling",
                                    !.cands = {p \in Procs : Claimable(p)}]
    <3>1. mine \in View /\ mine.doing = "polling"
      BY IdleAgrees DEF Idle, View
    <3>2. views' = [views EXCEPT ![a] = mine]
      BY <2>1 DEF Poll
    <3> HIDE DEF mine
    <3>3. views' \in [Actors -> View]
      BY <1>1, <3>1, <3>2
    <3>4. \A b \in Actors : views'[b] = views[b] \/ ViewAgrees(views[b])'
      BY <1>1, <3>1, <3>2 DEF ViewAgrees
    <3> QED
      BY <1>1, <2>1, <3>3, <3>4, ReadStep DEF Poll, stored
  <2>2. ASSUME NEW p \in Procs, Claim(a, p) PROVE IInv'
    BY <2>2, ClaimStep
  <2>3. ASSUME NEW p \in Procs, SkipCandidate(a, p) PROVE IInv'
    <3> DEFINE mine == Without(views[a], p)
    <3>1. mine \in View /\ mine.doing \in {"idle", "polling"}
      BY <1>1, <2>3, IdleAgrees DEF Idle, View, SkipCandidate, Without
    <3>2. views' = [views EXCEPT ![a] = mine]
      BY <2>3 DEF SkipCandidate
    <3> HIDE DEF mine
    <3>3. views' \in [Actors -> View]
      BY <1>1, <3>1, <3>2
    <3>4. \A b \in Actors : views'[b] = views[b] \/ ViewAgrees(views[b])'
      BY <1>1, <3>1, <3>2 DEF ViewAgrees
    <3> QED
      BY <1>1, <2>3, <3>3, <3>4, ReadStep DEF SkipCandidate, stored
  <2>4. CASE Commit(a)
    <3>1. PICK status \in {"pending", "waiting"} \cup Terminal,
               wake \in BOOLEAN, ask \in AwaitKeys \cup {None},
               log \in Batches(views[a].pid) :
            Apply(CommitChange(a, status, wake, ask, log))
      BY <2>4 DEF Commit
    <3>2. views[a].doing = "working" /\ ViewAgrees(views[a])
      BY <1>1, <2>4 DEF Commit, ViewsAgree
    <3> QED
      BY <1>1, <2>4, <3>1, <3>2, CommitWellFormed, ApplyStep DEF Commit
  <2>5. ASSUME NEW id \in Fresh, Progress(a, id) PROVE IInv'
    <3>1. id \in EventIDs /\ views[a].pid \in Procs
      BY <1>1, <2>5 DEF Fresh, Progress, ViewsAgree, ViewAgrees
    <3>2. views' = views \/ views' = [views EXCEPT ![a] = Idle]
      BY <2>5 DEF Progress
    <3> QED
      BY <2>5, <3>1, <3>2, ProgressWellFormed, ApplyStep DEF Progress
  <2>6. ASSUME NEW p \in Procs, NEW k \in AwaitKeys, ReadQuestion(a, p, k)
        PROVE  IInv'
    <3> DEFINE mine == [Idle EXCEPT !.doing = "answering", !.pid = p,
                                    !.row = rows[p], !.await = k]
    <3>1. /\ mine \in View /\ mine.doing = "answering" /\ mine.pid = p
          /\ mine.row = rows[p] /\ mine.await = k
      BY <1>1, IdleAgrees DEF Idle, View
    <3>2. views' = [views EXCEPT ![a] = mine]
      BY <2>6 DEF ReadQuestion
    <3> HIDE DEF mine
    <3>3. views' \in [Actors -> View]
      BY <1>1, <3>1, <3>2
    <3>4. rows[p].rev \in Nat /\ rows[p].rev > 0
            /\ rows[p].status = "waiting" /\ awaits[p][k] = "open"
            /\ rows' = rows /\ awaits' = awaits
      BY <1>1, <2>6 DEF ReadQuestion, Exists, Process, stored
    <3>5. \A b \in Actors : views'[b] = views[b] \/ ViewAgrees(views[b])'
      BY <1>1, <3>1, <3>2, <3>4 DEF ViewAgrees
    <3> QED
      BY <1>1, <2>6, <3>3, <3>5, ReadStep DEF ReadQuestion, stored
  <2>7. CASE Answer(a)
    <3>1. views[a].doing = "answering" /\ ViewAgrees(views[a])
      BY <1>1, <2>7 DEF Answer, ViewsAgree
    <3> QED
      BY <1>1, <2>7, <3>1, AnswerWellFormed, ApplyStep DEF Answer
  <2>8. CASE Crash(a)
    <3>1. views' = [views EXCEPT ![a] = Idle]
      BY <2>8 DEF Crash
    <3>2. views' \in [Actors -> View]
      BY <1>1, <3>1, IdleAgrees
    <3>3. \A b \in Actors : views'[b] = views[b] \/ ViewAgrees(views[b])'
      BY <1>1, <3>1 DEF Idle, ViewAgrees
    <3> QED
      BY <1>1, <2>8, <3>2, <3>3, ReadStep DEF Crash, stored
  <2> QED
    BY <1>3, <2>1, <2>2, <2>3, <2>4, <2>5, <2>6, <2>7, <2>8 DEF ActorNext
<1>4. ASSUME NEW p \in Procs, ComesDue(p) \/ Overrun(p) PROVE IInv'
  <2>1. /\ UNCHANGED <<rows, keyGuards, subjectGuards, awaits, events,
                       eventSeq, views, ran, appended>>
        /\ due' = [due EXCEPT ![p] = TRUE]
        /\ faults' \in {faults, faults + 1}
    BY <1>4 DEF ComesDue, Overrun
  <2> QED
    BY <1>1, <2>1, ReadStep
<1>5. CASE UNCHANGED vars
  BY <1>1, <1>5, ReadStep DEF vars, stored
<1> QED
  BY <1>2, <1>3, <1>4, <1>5 DEF Next

-----------------------------------------------------------------------------
(***************************************************************************)
(* What a step may do to a row and to an answer.                           *)
(***************************************************************************)

\* What reads leave alone.
recorded == <<rows, awaits, events, eventSeq, ran, appended>>

\* Who comes to wait without a deadline asks a question.
Asks(cs) ==
  \A p \in DOMAIN cs.procs :
    cs.procs[p].status = "waiting" /\ ~cs.procs[p].wake =>
      \E k \in AwaitKeys : AwaitsAfter(cs)[p][k] = "open"

\* The kernel's change sets, each with the rows and the questions it writes:
\* they start a batch of processes or rewrite a single one.
LEMMA StepKinds ==
  ASSUME IInv, [Next]_vars
  PROVE  \/ UNCHANGED recorded
         \/ \E a \in Actors, p \in Procs : Claim(a, p)
         \/ \E cs : /\ WellFormed(cs) /\ Apply(cs)
                    /\ BatchOrOne(cs) /\ Asks(cs)
                    /\ \A w \in cs.answers :
                         awaits[w.pid][w.key] = "none"
                           \/ \E a \in Actors : /\ views[a].doing = "answering"
                                                /\ cs = AnswerChange(a)
<1>1. TypeOK /\ ViewsAgree
  BY DEF IInv
<1>2. ASSUME NEW batch \in NewBatches, Spawn(batch)
      PROVE  \E cs : WellFormed(cs) /\ Apply(cs) /\ BatchOrOne(cs)
                      /\ Asks(cs) /\ cs.answers = {}
  <2>1. PICK p \in DOMAIN batch :
          \E log \in Batches(p) : Apply(SpawnChange(batch, log))
    BY <1>2 DEF Spawn
  <2>2. PICK log \in Batches(p) : Apply(SpawnChange(batch, log))
    BY <2>1
  <2>3. SpawnChange(batch, log).answers = {}
    BY DEF SpawnChange
  <2>4. \A q \in DOMAIN batch : batch[q].rev = 0 /\ batch[q].status = "pending"
    BY DEF NewBatches, NewProcess
  <2>5. BatchOrOne(SpawnChange(batch, log)) /\ Asks(SpawnChange(batch, log))
    BY <2>4 DEF BatchOrOne, Inserts, Asks, SpawnChange
  <2> QED
    BY <2>2, <2>3, <2>5, SpawnWellFormed
<1>3. ASSUME NEW a \in Actors, Commit(a)
      PROVE  \E cs : /\ WellFormed(cs) /\ Apply(cs) /\ BatchOrOne(cs) /\ Asks(cs)
                     /\ \A w \in cs.answers : awaits[w.pid][w.key] = "none"
  <2>1. PICK status \in {"pending", "waiting"} \cup Terminal,
             wake \in BOOLEAN, ask \in AwaitKeys \cup {None},
             log \in Batches(views[a].pid) :
          /\ MayDecide(a, status, wake, ask)
          /\ Apply(CommitChange(a, status, wake, ask, log))
    BY <1>3 DEF Commit
  <2>2. views[a].doing = "working" /\ ViewAgrees(views[a])
    BY <1>1, <1>3 DEF Commit, ViewsAgree
  <2>3. \A w \in CommitChange(a, status, wake, ask, log).answers :
          awaits[w.pid][w.key] = "none"
    BY <2>1 DEF CommitChange, MayDecide
  <2>4. BatchOrOne(CommitChange(a, status, wake, ask, log))
    BY <2>2 DEF BatchOrOne, CommitChange, ViewAgrees
  <2>5. Asks(CommitChange(a, status, wake, ask, log))
    <3> DEFINE cs == CommitChange(a, status, wake, ask, log)
               p == views[a].pid
    <3>1. /\ p \in Procs /\ views[a].row \in Process
      BY <1>1, <2>2 DEF TypeOK, View, ViewAgrees
    <3>2. /\ DOMAIN cs.procs = {p}
          /\ cs.procs[p].status = status /\ cs.procs[p].wake = wake
      BY <3>1 DEF CommitChange, Process
    <3>3. ASSUME status = "waiting", ~wake
          PROVE  \E k \in AwaitKeys : AwaitsAfter(cs)[p][k] = "open"
      <4>1. ask # None /\ ask \in AwaitKeys
        BY <2>1, <3>3 DEF MayDecide
      <4>2. cs.answers = {[pid |-> p, key |-> ask, state |-> "open"]}
        BY <4>1 DEF CommitChange
      <4>3. AwaitsAfter(cs)[p][ask] = "open"
        <5> DEFINE w == [pid |-> p, key |-> ask, state |-> "open"]
        <5> HIDE DEF cs
        <5>1. \A x \in cs.answers : x.state = "open"
          BY <4>2
        <5>2. w \in cs.answers /\ w.pid = p /\ w.key = ask
          BY <4>2
        <5>3. (CHOOSE x \in cs.answers : x.pid = p /\ x.key = ask).state = "open"
          <6> HIDE DEF w
          <6> QED
            BY <5>1, <5>2
        <5> QED
          BY <3>1, <4>1, <5>2, <5>3 DEF AwaitsAfter
      <4> QED
        BY <4>1, <4>3
    <3> QED
      BY <3>2, <3>3 DEF Asks
  <2> QED
    BY <1>1, <2>1, <2>2, <2>3, <2>4, <2>5, CommitWellFormed
<1>4. ASSUME NEW a \in Actors, NEW id \in Fresh, Progress(a, id)
      PROVE  \E cs : WellFormed(cs) /\ Apply(cs) /\ BatchOrOne(cs)
                      /\ Asks(cs) /\ cs.answers = {}
  <2>1. id \in EventIDs /\ views[a].pid \in Procs
    BY <1>1, <1>4 DEF Fresh, Progress, ViewsAgree, ViewAgrees
  <2>2. ProgressChange(a, id).answers = {}
    BY DEF ProgressChange
  <2>3. BatchOrOne(ProgressChange(a, id)) /\ Asks(ProgressChange(a, id))
    BY DEF BatchOrOne, Inserts, Asks, ProgressChange
  <2> QED
    BY <1>4, <2>1, <2>2, <2>3, ProgressWellFormed DEF Progress
<1>5. ASSUME NEW a \in Actors, Answer(a)
      PROVE  WellFormed(AnswerChange(a)) /\ Apply(AnswerChange(a))
               /\ BatchOrOne(AnswerChange(a)) /\ Asks(AnswerChange(a))
               /\ views[a].doing = "answering"
  <2>1. views[a].doing = "answering" /\ ViewAgrees(views[a])
    BY <1>1, <1>5 DEF Answer, ViewsAgree
  <2>2. BatchOrOne(AnswerChange(a))
    BY <2>1 DEF BatchOrOne, AnswerChange, ViewAgrees
  <2>3. Asks(AnswerChange(a))
    <3>1. views[a].row \in Process
      BY <1>1, <2>1 DEF TypeOK, View
    <3> QED
      BY <3>1 DEF Asks, AnswerChange, Process
  <2> QED
    BY <1>1, <1>5, <2>1, <2>2, <2>3, AnswerWellFormed DEF Answer
<1>6. ASSUME NEW a \in Actors,
             \/ Poll(a) \/ Crash(a)
             \/ \E p \in Procs : SkipCandidate(a, p)
             \/ \E p \in Procs, k \in AwaitKeys : ReadQuestion(a, p, k)
      PROVE  UNCHANGED recorded
  BY <1>6 DEF Poll, SkipCandidate, ReadQuestion, Crash, stored, recorded
<1>7. ASSUME (\E p \in Procs : ComesDue(p) \/ Overrun(p)) \/ UNCHANGED vars
      PROVE  UNCHANGED recorded
  BY <1>7 DEF ComesDue, Overrun, stored, vars, recorded
<1>8. CASE \E batch \in NewBatches : Spawn(batch)
  BY <1>2, <1>8
<1>9. CASE \E a \in Actors : ActorNext(a)
  <2>1. PICK a \in Actors : ActorNext(a)
    BY <1>9
  <2>2. CASE \E p \in Procs : Claim(a, p)
    BY <2>2
  <2>3. CASE Commit(a)
    BY <1>3, <2>3
  <2>4. CASE \E id \in Fresh : Progress(a, id)
    BY <1>4, <2>4
  <2>5. CASE Answer(a)
    BY <1>5, <2>5
  <2> QED
    BY <1>6, <2>1, <2>2, <2>3, <2>4, <2>5 DEF ActorNext
<1> QED
  BY <1>7, <1>8, <1>9 DEF Next

\* A row is left alone, or moves on to its next revision, which it may only
\* when it is new or open.
LEMMA RowStep ==
  ASSUME IInv, [Next]_vars, NEW p \in Procs
  PROVE  /\ rows[p].rev \in Nat
         /\ \/ rows'[p] = rows[p]
            \/ /\ rows'[p].rev = rows[p].rev + 1
               /\ rows[p].rev = 0 \/ IsOpen(p)
<1>1. TypeOK /\ rows \in [Procs -> Process] /\ rows[p].rev \in Nat
  BY DEF IInv, TypeOK, Process
<1>2. ASSUME NEW cs, WellFormed(cs), Apply(cs)
      PROVE  \/ rows'[p] = rows[p]
             \/ /\ rows'[p].rev = rows[p].rev + 1
                /\ rows[p].rev = 0 \/ IsOpen(p)
  BY <1>1, <1>2, WrittenRow DEF Apply, stored
<1>3. ASSUME NEW a \in Actors, NEW q \in Procs, Claim(a, q)
      PROVE  \/ rows'[p] = rows[p]
             \/ /\ rows'[p].rev = rows[p].rev + 1
                /\ rows[p].rev = 0 \/ IsOpen(p)
  <2>1. CASE q = p
    <3>1. rows'[p] = Claimed(rows[p]) /\ rows[p] \in Process
      BY <1>1, <1>3, <2>1 DEF Claim
    <3>2. Exists(p) /\ ClaimAt(rows[p]) # "never"
      BY <1>3, <2>1 DEF Claim, Claimable
    <3>3. IsOpen(p)
      BY <3>2 DEF ClaimAt, Terminal, IsOpen
    <3> QED
      BY <3>1, <3>3, ClaimedRow
  <2>2. CASE q # p
    BY <1>1, <1>3, <2>2 DEF Claim
  <2> QED
    BY <2>1, <2>2
<1> QED
  BY <1>1, <1>2, <1>3, StepKinds DEF recorded

\* An actor takes a transition up only by claiming it.
LEMMA WorkStep ==
  ASSUME IInv, [Next]_vars, NEW a \in Actors, views'[a].doing = "working"
  PROVE  \/ views'[a] = views[a]
         \/ \E p \in Procs : /\ views'[a].pid = p
                             /\ \A b \in Actors \ {a} : views'[b] = views[b]
                             /\ rows'[p].rev = rows[p].rev + 1
<1>1. views \in [Actors -> View] /\ rows \in [Procs -> Process]
        /\ Idle.doing = "idle"
  BY DEF IInv, TypeOK, Idle
<1>2. ASSUME NEW p \in Procs, NEW b \in Actors, Claim(b, p)
      PROVE  /\ \A c \in Actors \ {b} : views'[c] = views[c]
             /\ views'[b].pid = p
             /\ rows'[p].rev = rows[p].rev + 1
  <2>1. views'[b].pid = p /\ \A c \in Actors \ {b} : views'[c] = views[c]
    BY <1>1, <1>2 DEF Claim, Idle
  <2>2. rows'[p] = Claimed(rows[p]) /\ rows[p] \in Process
    BY <1>1, <1>2 DEF Claim
  <2> QED
    BY <2>1, <2>2, ClaimedRow
<1>3. ASSUME NEW b \in Actors, ActorNext(b), ~\E p \in Procs : Claim(b, p)
      PROVE  views'[a] = views[a]
  <2>1. CASE Commit(b) \/ Answer(b) \/ Crash(b)
    BY <1>1, <2>1 DEF Commit, Answer, Crash
  <2>2. CASE \E id \in Fresh : Progress(b, id)
    BY <1>1, <2>2 DEF Progress
  <2>3. CASE Poll(b)
    BY <1>1, <2>3 DEF Poll, Idle
  <2>4. CASE \E p \in Procs, k \in AwaitKeys : ReadQuestion(b, p, k)
    BY <1>1, <2>4 DEF ReadQuestion, Idle
  <2>5. CASE \E p \in Procs : SkipCandidate(b, p)
    <3>1. PICK p \in Procs : SkipCandidate(b, p)
      BY <2>5
    <3>2. Without(views[b], p).doing # "working"
      BY <1>1, <3>1 DEF SkipCandidate, Without, View
    <3>3. views' = [views EXCEPT ![b] = Without(views[b], p)]
      BY <3>1 DEF SkipCandidate
    <3> QED
      BY <1>1, <3>2, <3>3
  <2> QED
    BY <1>3, <2>1, <2>2, <2>3, <2>4, <2>5 DEF ActorNext
<1>4. CASE \E batch \in NewBatches : Spawn(batch)
  BY <1>4 DEF Spawn
<1>5. CASE \E b \in Actors : ActorNext(b)
  BY <1>2, <1>3, <1>5
<1>6. CASE (\E p \in Procs : ComesDue(p) \/ Overrun(p)) \/ UNCHANGED vars
  BY <1>6 DEF ComesDue, Overrun, vars
<1> QED
  BY <1>4, <1>5, <1>6 DEF Next

\* An answer that is there is not written over: a transition opens a question
\* only where there is none, and an accepted answer found its question open.
LEMMA AnswerStep ==
  ASSUME IInv, [Next]_vars, NEW p \in Procs, NEW k \in AwaitKeys,
         awaits[p][k] \in Actors
  PROVE  awaits'[p][k] = awaits[p][k]
<1>1. TypeOK /\ ViewsAgree
  BY DEF IInv
<1>2. awaits[p][k] \notin {"none", "open"}
  BY ConstantsAssumption
<1>3. ASSUME NEW cs, WellFormed(cs), Apply(cs),
             \A w \in cs.answers : \/ awaits[w.pid][w.key] = "none"
                                   \/ \E a \in Actors :
                                        /\ views[a].doing = "answering"
                                        /\ cs = AnswerChange(a)
      PROVE  awaits'[p][k] = awaits[p][k]
  <2>1. CASE ~Accepts(cs) /\ UNCHANGED <<stored, ran, appended>>
    BY <2>1 DEF stored
  <2>2. CASE Accepts(cs) /\ Write(cs)
    <3>1. ASSUME NEW w \in cs.answers, w.pid = p, w.key = k PROVE FALSE
      <4>1. PICK a \in Actors : views[a].doing = "answering"
                                  /\ cs = AnswerChange(a)
        BY <1>2, <1>3, <3>1
      <4>2. /\ w.pid = views[a].pid /\ w.key = views[a].await
            /\ p \in DOMAIN cs.procs /\ cs.procs[p].rev = views[a].row.rev
        BY <3>1, <4>1, <1>1 DEF AnswerChange, TypeOK, View, Process
      <4>3. rows[p].rev = views[a].row.rev
        BY <2>2, <4>2 DEF Accepts, RevsHeld
      <4>4. awaits[p][k] = "open"
        BY <1>1, <3>1, <4>1, <4>2, <4>3 DEF ViewsAgree, ViewAgrees
      <4> QED
        BY <1>2, <4>4
    <3> QED
      BY <2>2, <3>1 DEF Write, AwaitsAfter
  <2> QED
    BY <1>3, <2>1, <2>2 DEF Apply
<1>4. ASSUME NEW a \in Actors, NEW q \in Procs, Claim(a, q)
      PROVE  awaits'[p][k] = awaits[p][k]
  BY <1>4 DEF Claim
<1> QED
  BY <1>3, <1>4, StepKinds DEF recorded
-----------------------------------------------------------------------------
(***************************************************************************)
(* Counts: how often a transition is run, who waits, how events are        *)
(* numbered.                                                               *)
(***************************************************************************)

\* A transition was run as often as its claims were counted, and once more at
\* most; nobody has run that of a process that nobody holds.
RunsCounted ==
  \A p \in Procs :
    /\ ran[p] <= MaxUncleanReclaims + 1
    /\ ran[p] <= rows[p].unclean + 1
    /\ rows[p].status # "running" => ran[p] = 0

\* A claim counts before it runs, and what writes the row ends the transition.
LEMMA RunsStep ==
  ASSUME IInv, RunsCounted, [Next]_vars
  PROVE  RunsCounted'
<1>1. /\ TypeOK /\ rows \in [Procs -> Process] /\ ran \in [Procs -> Nat]
      /\ MaxUncleanReclaims \in Nat
  BY ConstantsAssumption DEF IInv, TypeOK
<1>2. ASSUME UNCHANGED <<rows, ran>>
      PROVE  RunsCounted'
  BY <1>2 DEF RunsCounted
<1>3. ASSUME NEW a \in Actors, NEW q \in Procs, Claim(a, q)
      PROVE  RunsCounted'
  <2>1. /\ rows' = [rows EXCEPT ![q] = Claimed(rows[q])]
        /\ ran' = [ran EXCEPT ![q] =
             IF Claimed(rows[q]).unclean <= MaxUncleanReclaims
             THEN ran[q] + 1 ELSE ran[q]]
    BY <1>3 DEF Claim
  <2>2. /\ Claimed(rows[q]).status = "running"
        /\ Claimed(rows[q]).unclean = IF rows[q].status = "running"
                                      THEN rows[q].unclean + 1
                                      ELSE rows[q].unclean
        /\ rows[q].unclean \in Nat /\ ran[q] \in Nat
    BY <1>1 DEF Claimed, Process
  <2>3. /\ ran[q] <= MaxUncleanReclaims + 1 /\ ran[q] <= rows[q].unclean + 1
        /\ rows[q].status # "running" => ran[q] = 0
    BY DEF RunsCounted
  <2>4. /\ ran'[q] <= MaxUncleanReclaims + 1 /\ ran'[q] <= rows'[q].unclean + 1
        /\ rows'[q].status = "running"
    <3>1. rows'[q] = Claimed(rows[q])
      BY <1>1, <2>1
    <3>2. ran'[q] = IF Claimed(rows[q]).unclean <= MaxUncleanReclaims
                    THEN ran[q] + 1 ELSE ran[q]
      BY <1>1, <2>1
    <3> QED
      BY <1>1, <2>2, <2>3, <3>1, <3>2
  <2>5. \A p \in Procs \ {q} : rows'[p] = rows[p] /\ ran'[p] = ran[p]
    BY <1>1, <2>1
  <2> QED
    BY <2>4, <2>5 DEF RunsCounted
<1>4. ASSUME NEW cs, WellFormed(cs), Accepts(cs), Write(cs)
      PROVE  RunsCounted'
  <2> SUFFICES ASSUME NEW p \in Procs
               PROVE  /\ ran'[p] <= MaxUncleanReclaims + 1
                      /\ ran'[p] <= rows'[p].unclean + 1
                      /\ rows'[p].status # "running" => ran'[p] = 0
    BY DEF RunsCounted
  <2>1. CASE p \in DOMAIN cs.procs
    <3>1. ran'[p] = 0 /\ rows'[p] \in Process
      BY <1>1, <1>4, <2>1, WriteKeepsTypes DEF Write, StoreTyped
    <3>2. rows'[p].unclean \in Nat
      BY <3>1 DEF Process
    <3> QED
      BY <1>1, <3>1, <3>2
  <2>2. CASE p \notin DOMAIN cs.procs
    <3>1. ran'[p] = ran[p] /\ rows'[p] = rows[p]
      BY <1>1, <1>4, <2>2, WrittenRow DEF Write
    <3> QED
      BY <3>1 DEF RunsCounted
  <2> QED
    BY <2>1, <2>2
<1> QED
  BY <1>2, <1>3, <1>4, StepKinds DEF recorded, Apply, stored

\* A process that comes to wait asks, and its question stays open until the
\* answer wakes it.
LEMMA WaitStep ==
  ASSUME IInv, NobodyWaitsForNothing, [Next]_vars
  PROVE  NobodyWaitsForNothing'
<1>1. TypeOK /\ rows \in [Procs -> Process]
  BY DEF IInv, TypeOK
<1>2. ASSUME UNCHANGED <<rows, awaits>>
      PROVE  NobodyWaitsForNothing'
  BY <1>2 DEF NobodyWaitsForNothing
<1>3. ASSUME NEW a \in Actors, NEW q \in Procs, Claim(a, q)
      PROVE  NobodyWaitsForNothing'
  <2>1. rows' = [rows EXCEPT ![q] = Claimed(rows[q])] /\ awaits' = awaits
    BY <1>3 DEF Claim
  <2>2. Claimed(rows[q]).status = "running"
    BY <1>1 DEF Claimed, Process
  <2> QED
    BY <1>1, <2>1, <2>2 DEF NobodyWaitsForNothing
<1>4. ASSUME NEW cs, WellFormed(cs), Asks(cs), Accepts(cs), Write(cs)
      PROVE  NobodyWaitsForNothing'
  <2> SUFFICES ASSUME NEW p \in Procs,
                      rows'[p].status = "waiting", ~rows'[p].wake
               PROVE  \E k \in AwaitKeys : awaits'[p][k] = "open"
    BY DEF NobodyWaitsForNothing
  <2>1. awaits' = AwaitsAfter(cs)
    BY <1>4 DEF Write
  <2>2. CASE p \in DOMAIN cs.procs
    <3>1. cs.procs[p].status = "waiting" /\ ~cs.procs[p].wake
      BY <1>1, <1>4, <2>2, WrittenRow
    <3> QED
      BY <1>4, <2>1, <2>2, <3>1 DEF Asks
  <2>3. CASE p \notin DOMAIN cs.procs
    <3>1. rows'[p] = rows[p]
      BY <1>1, <1>4, <2>3, WrittenRow
    <3>2. PICK k \in AwaitKeys : awaits[p][k] = "open"
      BY <3>1 DEF NobodyWaitsForNothing
    <3>3. ~\E w \in cs.answers : w.pid = p /\ w.key = k
      BY <1>4, <2>3 DEF WellFormed
    <3>4. awaits'[p][k] = awaits[p][k]
      BY <2>1, <3>3 DEF AwaitsAfter
    <3> QED
      BY <3>2, <3>4
  <2> QED
    BY <2>2, <2>3
<1> QED
  BY <1>2, <1>3, <1>4, StepKinds DEF recorded, Apply, stored

\* Among the first n of the events s, how many are about p.
About(s, n, p) == {j \in 1..n : s[j].pid = p}

\* Of one sequence after another, the counts add up.
LEMMA CountsAdd ==
  ASSUME NEW s \in Seq(Event), NEW t \in Seq(Event), NEW p,
         NEW k \in 0..Len(t)
  PROVE  /\ Cardinality(About(s \o t, Len(s) + k, p))
              = Cardinality(About(s, Len(s), p)) + Cardinality(About(t, k, p))
         /\ \A n \in 0..Len(s) : About(s \o t, n, p) = About(s, n, p)
<1> DEFINE n == Len(s)
           A == About(s, n, p)
           B == About(t, k, p)
           f == [j \in B |-> n + j]
           C == {f[j] : j \in B}
<1>1. n \in Nat /\ k \in Nat /\ k <= Len(t) /\ Len(t) \in Nat
  OBVIOUS
<1>2. \A j \in 1..n : (s \o t)[j] = s[j]
  OBVIOUS
<1>3. \A j \in 1..k : (s \o t)[n + j] = t[j] /\ n + j \in Nat
  BY <1>1
<1>4. About(s \o t, n + k, p) = A \cup C
  <2>1. ASSUME NEW j \in 1..(n + k), j > n
        PROVE  j - n \in 1..k /\ n + (j - n) = j
    BY <1>1, <2>1
  <2>2. \A j \in 1..n : j \in 1..(n + k)
    BY <1>1
  <2>3. \A j \in 1..k : n + j \in 1..(n + k)
    BY <1>1
  <2>4. \A j \in 1..(n + k) : j > n \/ j \in 1..n
    BY <1>1
  <2>5. A \cup C \subseteq About(s \o t, n + k, p)
    BY <1>2, <1>3, <2>2, <2>3 DEF About
  <2>6. ASSUME NEW j \in About(s \o t, n + k, p)
        PROVE  j \in A \cup C
    <3>1. j \in 1..(n + k) /\ (s \o t)[j].pid = p
      BY DEF About
    <3>2. CASE j \in 1..n
      BY <1>2, <3>1, <3>2 DEF About
    <3>3. CASE j > n
      <4>1. j - n \in 1..k /\ n + (j - n) = j
        BY <2>1, <3>1, <3>3
      <4>2. t[j - n].pid = p
        BY <1>3, <3>1, <4>1
      <4>3. j - n \in B /\ f[j - n] = j
        BY <4>1, <4>2 DEF About
      <4> QED
        BY <4>3
    <3> QED
      BY <2>4, <3>1, <3>2, <3>3
  <2> QED
    BY <2>5, <2>6
<1>5. IsFiniteSet(A) /\ IsFiniteSet(B)
  <2>1. IsFiniteSet(1..n) /\ IsFiniteSet(1..k)
    BY <1>1, FS_Interval
  <2>2. A \in SUBSET (1..n) /\ B \in SUBSET (1..k)
    BY DEF About
  <2> QED
    BY <2>1, <2>2, FS_Subset
<1>6. IsFiniteSet(C) /\ Cardinality(C) = Cardinality(B)
  <2>1. f \in Bijection(B, C)
    <3>1. \A i, j \in B : n + i = n + j => i = j
      BY <1>1 DEF About
    <3> QED
      BY <3>1 DEF Bijection, Injection, Surjection, IsInjective
  <2> QED
    BY <1>5, <2>1, FS_Bijection DEF ExistsBijection
<1>7. A \cap C = {}
  <2>1. \A j \in B : n + j > n
    BY <1>1 DEF About
  <2>2. \A j \in A : j <= n
    BY <1>1 DEF About
  <2>3. \A j \in C : j > n
    BY <2>1
  <2>4. ASSUME NEW j \in A, j \in C
        PROVE  FALSE
    <3>1. j \in Nat /\ j <= n /\ j > n
      BY <2>2, <2>3, <2>4 DEF About
    <3> QED
      BY <1>1, <3>1
  <2> QED
    BY <2>4
<1>8. Cardinality(A \cup C) = Cardinality(A) + Cardinality(B)
  <2>1. /\ Cardinality(A) \in Nat /\ Cardinality(B) \in Nat
        /\ Cardinality(A \cap C) = 0
    BY <1>5, <1>7, FS_CardinalityType, FS_EmptySet
  <2>2. Cardinality(A \cup C)
          = Cardinality(A) + Cardinality(C) - Cardinality(A \cap C)
    BY <1>5, <1>6, FS_Union
  <2> QED
    BY <1>6, <2>1, <2>2
<1>9. \A m \in 0..n : About(s \o t, m, p) = About(s, m, p)
  <2>1. \A m \in 0..n : \A j \in 1..m : j \in 1..n
    BY <1>1
  <2> QED
    BY <1>2, <2>1 DEF About
<1> QED
  BY <1>4, <1>8, <1>9

\* An event is stored under the number of events its process had before it.
LEMMA EventsStep ==
  ASSUME IInv, EventsNumbered, [Next]_vars
  PROVE  EventsNumbered'
<1> DEFINE entry(s, i) == [pid |-> s[i].pid, id |-> s[i].id,
                           seq |-> Cardinality(About(s, i - 1, s[i].pid))]
<1>1. /\ TypeOK /\ appended \in Seq(Event) /\ eventSeq \in [Procs -> Nat]
      /\ \A s \in Seq(Event) : DOMAIN s = 1..Len(s) /\ Len(s) \in Nat
  BY DEF IInv, TypeOK, Event
<1>2. /\ events = {entry(appended, i) : i \in 1..Len(appended)}
      /\ \A p \in Procs :
           eventSeq[p] = Cardinality(About(appended, Len(appended), p))
  BY <1>1 DEF EventsNumbered, About
<1>3. ASSUME appended' \in Seq(Event),
             events' = {entry(appended', i) : i \in 1..Len(appended')},
             \A p \in Procs :
               eventSeq'[p] = Cardinality(About(appended', Len(appended'), p))
      PROVE  EventsNumbered'
  BY <1>1, <1>3 DEF EventsNumbered, About
<1>4. ASSUME UNCHANGED <<events, eventSeq, appended>>
      PROVE  EventsNumbered'
  BY <1>4 DEF EventsNumbered
<1>5. ASSUME NEW cs, WellFormed(cs), Accepts(cs), Write(cs)
      PROVE  EventsNumbered'
  <2> DEFINE s == appended
             t == cs.events
             n == Len(s)
  <2>1. /\ s \in Seq(Event) /\ t \in Seq(Event) /\ s \o t \in Seq(Event)
        /\ n \in Nat /\ Len(t) \in Nat /\ Len(s \o t) = n + Len(t)
        /\ DOMAIN t = 1..Len(t)
    BY <1>1, <1>5 DEF WellFormed
  <2>2. appended' = s \o t
    BY <1>5 DEF Write
  <2>3. /\ \A i \in 1..n : (s \o t)[i] = s[i]
        /\ \A i \in 1..Len(t) : (s \o t)[n + i] = t[i]
        /\ \A i \in 1..Len(t) : t[i].pid \in Procs
    <3> HIDE DEF s, t
    <3>1. \A i \in 1..Len(t) : t[i] \in Event
      BY <2>1
    <3>2. \A i \in 1..Len(t) : t[i].pid \in Procs
      BY <3>1 DEF Event
    <3>3. /\ \A i \in 1..n : (s \o t)[i] = s[i]
          /\ \A i \in 1..Len(t) : (s \o t)[n + i] = t[i]
      BY <2>1 DEF n
    <3> QED
      BY <3>2, <3>3
  <2>4. ASSUME NEW i \in 1..n
        PROVE  entry(s \o t, i) = entry(s, i)
    <3>1. i - 1 \in 0..n
      BY <2>1
    <3>2. About(s \o t, i - 1, s[i].pid) = About(s, i - 1, s[i].pid)
      <4>1. 0 \in 0..Len(t)
        BY <2>1
      <4> HIDE DEF s, t
      <4> QED
        BY <2>1, <3>1, <4>1, CountsAdd DEF n
    <3> QED
      BY <2>3, <3>2
  <2>5. ASSUME NEW i \in 1..Len(t)
        PROVE  entry(s \o t, n + i)
                 = [pid |-> t[i].pid, id |-> t[i].id,
                    seq |-> eventSeq[t[i].pid]
                            + Cardinality({j \in EventsOf(cs, t[i].pid) : j < i})]
    <3> DEFINE p == t[i].pid
    <3>1. i - 1 \in 0..Len(t) /\ (n + i) - 1 = n + (i - 1)
      BY <2>1
    <3>2. {j \in EventsOf(cs, p) : j < i} = About(t, i - 1, p)
      <4>1. \A j \in 1..Len(t) : j < i <=> j \in 1..(i - 1)
        BY <2>1
      <4>2. \A j \in 1..(i - 1) : j \in 1..Len(t)
        BY <2>1
      <4> QED
        BY <2>1, <4>1, <4>2 DEF EventsOf, About
    <3>3. Cardinality(About(s \o t, n + (i - 1), p))
            = Cardinality(About(s, n, p)) + Cardinality(About(t, i - 1, p))
      <4> HIDE DEF s, t, p
      <4> QED
        BY <2>1, <3>1, CountsAdd DEF n
    <3>4. Cardinality(About(s, n, p)) = eventSeq[p]
      BY <1>2, <2>3
    <3>5. (s \o t)[n + i] = t[i]
      BY <2>3
    <3> QED
      BY <3>1, <3>2, <3>3, <3>4, <3>5
  <2>6. events' = {entry(s \o t, i) : i \in 1..(n + Len(t))}
    <3> DEFINE row(i) == [pid |-> t[i].pid, id |-> t[i].id,
                          seq |-> eventSeq[t[i].pid]
                                  + Cardinality({j \in EventsOf(cs, t[i].pid) : j < i})]
    <3>1. events' = events \cup {row(i) : i \in 1..Len(t)}
      BY <1>5, <2>1 DEF Write, EventsAfter
    <3>2. events = {entry(s \o t, i) : i \in 1..n}
      BY <1>2, <2>4
    <3>3. \A i \in 1..Len(t) : row(i) = entry(s \o t, n + i)
      BY <2>5
    <3> HIDE DEF row, entry
    <3>4. /\ \A i \in 1..Len(t) : n + i \in 1..(n + Len(t))
          /\ \A i \in 1..n : i \in 1..(n + Len(t))
          /\ \A i \in 1..(n + Len(t)) :
               i \in 1..n \/ \E j \in 1..Len(t) : i = n + j
      <4>1. ASSUME NEW i \in 1..(n + Len(t)), i \notin 1..n
            PROVE  i - n \in 1..Len(t) /\ i = n + (i - n)
        BY <2>1, <4>1
      <4>2. \A i \in 1..(n + Len(t)) :
               i \in 1..n \/ \E j \in 1..Len(t) : i = n + j
        BY <4>1
      <4>3. /\ \A i \in 1..Len(t) : n + i \in 1..(n + Len(t))
            /\ \A i \in 1..n : i \in 1..(n + Len(t))
        <5> DEFINE m == Len(t)
        <5>1. n \in Nat /\ m \in Nat
          BY <2>1
        <5> HIDE DEF n, m
        <5>2. /\ \A i \in 1..m : n + i \in 1..(n + m)
              /\ \A i \in 1..n : i \in 1..(n + m)
          BY <5>1
        <5> QED
          BY <5>2 DEF m
      <4> QED
        BY <4>2, <4>3
    <3> QED
      BY <3>1, <3>2, <3>3, <3>4
  <2>7. \A p \in Procs :
          eventSeq'[p] = Cardinality(About(s \o t, n + Len(t), p))
    <3> SUFFICES ASSUME NEW p \in Procs
                 PROVE  eventSeq'[p] = Cardinality(About(s \o t, n + Len(t), p))
      OBVIOUS
    <3>1. EventsOf(cs, p) = About(t, Len(t), p)
      BY <2>1 DEF EventsOf, About
    <3>2. eventSeq'[p] = eventSeq[p] + Cardinality(EventsOf(cs, p))
      BY <1>5 DEF Write, EventSeqAfter
    <3>3. Cardinality(About(s \o t, n + Len(t), p))
            = Cardinality(About(s, n, p)) + Cardinality(About(t, Len(t), p))
      <4>1. Len(t) \in 0..Len(t)
        BY <2>1
      <4> HIDE DEF s, t
      <4> QED
        BY <2>1, <4>1, CountsAdd DEF n
    <3> QED
      BY <1>2, <3>1, <3>2, <3>3
  <2> HIDE DEF entry
  <2> QED
    BY <1>3, <2>1, <2>2, <2>6, <2>7
<1> QED
  <2>1. ASSUME NEW a \in Actors, NEW q \in Procs, Claim(a, q)
        PROVE  UNCHANGED <<events, eventSeq, appended>>
    BY <2>1 DEF Claim
  <2> QED
    BY <1>4, <1>5, <2>1, StepKinds DEF recorded, Apply, stored

-----------------------------------------------------------------------------
(***************************************************************************)
(* The refinement.  The registry sees a step only where a process starts   *)
(* or ends: an accepted batch of inserts is its Start, an accepted rewrite *)
(* with a terminal status its End, and everything else stutters.           *)
(***************************************************************************)

\* The registry's variables, as the store's rows determine them.
Holders == [s \in Subjects |->
              {p \in Procs : IsOpen(p) /\ rows[p].subject = s}]
Started == [k \in Keys |-> {p \in Procs : Exists(p) /\ rows[p].key = k}]
Ended == {p \in Procs : Exists(p) /\ ~IsOpen(p)}

\* The registry does not see a step that keeps, of every process, whether it
\* exists and is open, and its key and subject.
LEMMA RegistryStutters ==
  ASSUME TypeOK,
         \A p \in Procs : /\ Exists(p)' <=> Exists(p)
                          /\ IsOpen(p)' <=> IsOpen(p)
                          /\ rows'[p].key = rows[p].key
                          /\ rows'[p].subject = rows[p].subject
  PROVE  UNCHANGED <<Holders, Started, Ended>>
<1>1. Holders' = Holders
  BY DEF Holders
<1>2. Started' = Started
  BY DEF Started
<1>3. Ended' = Ended
  BY DEF Ended
<1> QED
  BY <1>1, <1>2, <1>3

\* An accepted batch is a start: GuardsFree and the exactness of the guards
\* give every newcomer a subject nobody holds and a key nobody ever had, and
\* ChangeSetUnique keeps two newcomers apart.
LEMMA BatchStarts ==
  ASSUME IInv, NEW cs, WellFormed(cs), Accepts(cs), Write(cs),
         DOMAIN cs.procs = Inserts(cs)
  PROVE  Registry!Start
<1> DEFINE new == Inserts(cs)
           on == [s \in Subjects |-> {p \in new : cs.procs[p].subject = s}]
           under == [k \in Keys |-> {p \in new : cs.procs[p].key = k}]
<1>1. new \subseteq Procs /\ None \notin Procs \cup Keys \cup Subjects
  BY ConstantsAssumption DEF Inserts, WellFormed
<1>2. \A p \in new : /\ ~Exists(p) /\ IsOpen(p)' /\ Exists(p)'
                    /\ rows'[p].key = cs.procs[p].key
                    /\ rows'[p].subject = cs.procs[p].subject
  <2> SUFFICES ASSUME NEW p \in new
               PROVE  /\ ~Exists(p) /\ IsOpen(p)' /\ Exists(p)'
                      /\ rows'[p].key = cs.procs[p].key
                      /\ rows'[p].subject = cs.procs[p].subject
    OBVIOUS
  <2>1. p \in Procs /\ p \in DOMAIN cs.procs
    BY <1>1
  <2> QED
    BY <2>1, WrittenRow DEF IInv, IsOpen, Exists, Terminal
<1>3. \A p \in Procs \ new : rows'[p] = rows[p]
  BY WrittenRow DEF IInv
<1>4. on \in [Subjects -> SUBSET Procs] /\ under \in [Keys -> SUBSET Procs]
  BY <1>1
<1>5. ASSUME NEW s \in Subjects, on[s] # {}
      PROVE  /\ Holders[s] = {} /\ on[s] \cap Ended = {}
             /\ \A p, q \in on[s] : p = q
  <2>1. subjectGuards[s] = None
    BY <1>1, <1>5 DEF Accepts, GuardsFree
  <2>2. Holders[s] = {}
    BY <1>1, <2>1 DEF Holders, IInv, SubjectGuardExact
  <2>3. on[s] \cap Ended = {}
    BY <1>2 DEF Ended
  <2>4. \A p, q \in on[s] : p = q
    BY <1>1 DEF Accepts, ChangeSetUnique
  <2> QED
    BY <2>2, <2>3, <2>4
<1>6. ASSUME NEW k \in Keys, under[k] # {}
      PROVE  /\ Started[k] = {} /\ under[k] \cap Ended = {}
             /\ \A p, q \in under[k] : p = q
  <2>1. keyGuards[k] = None
    BY <1>1, <1>6 DEF Accepts, GuardsFree
  <2>2. Started[k] = {}
    BY <1>1, <2>1 DEF Started, IInv, KeyGuardExact
  <2>3. under[k] \cap Ended = {}
    BY <1>2 DEF Ended
  <2>4. \A p, q \in under[k] : p = q
    BY <1>1 DEF Accepts, ChangeSetUnique
  <2> QED
    BY <2>2, <2>3, <2>4
<1>7. Holders' = [s \in Subjects |-> Holders[s] \cup on[s]]
  <2> SUFFICES ASSUME NEW s \in Subjects
               PROVE  {p \in Procs : IsOpen(p)' /\ rows'[p].subject = s}
                        = {p \in Procs : IsOpen(p) /\ rows[p].subject = s}
                            \cup on[s]
    BY DEF Holders
  <2> QED
    BY <1>1, <1>2, <1>3 DEF IsOpen, Exists
<1>8. Started' = [k \in Keys |-> Started[k] \cup under[k]]
  <2> SUFFICES ASSUME NEW k \in Keys
               PROVE  {p \in Procs : Exists(p)' /\ rows'[p].key = k}
                        = {p \in Procs : Exists(p) /\ rows[p].key = k}
                            \cup under[k]
    BY DEF Started
  <2> QED
    BY <1>1, <1>2, <1>3 DEF Exists
<1>9. Ended' = Ended
  BY <1>1, <1>2, <1>3 DEF Ended, IsOpen, Exists
<1> HIDE DEF on, under
<1> QED
  BY <1>4, <1>5, <1>6, <1>7, <1>8, <1>9
  DEF Registry!Start, Holders, Started, Ended

\* An accepted rewrite of one open process ends it or is not seen.
LEMMA RewriteEnds ==
  ASSUME IInv, NEW cs, WellFormed(cs), Accepts(cs), Write(cs),
         NEW p \in Procs, DOMAIN cs.procs = {p}, p \notin Inserts(cs)
  PROVE  Registry!End(p) \/ UNCHANGED <<Holders, Started, Ended>>
<1>1. /\ IsOpen(p) /\ Exists(p)
      /\ rows'[p].key = rows[p].key /\ rows'[p].subject = rows[p].subject
      /\ rows'[p].rev > 0
  BY WrittenRow DEF IInv, IsOpen
<1>2. \A q \in Procs \ {p} : rows'[q] = rows[q]
  BY WrittenRow DEF IInv
<1>3. CASE rows'[p].status \in Terminal
  <2>1. Exists(p)' /\ ~IsOpen(p)'
    BY <1>1, <1>3 DEF IsOpen, Exists
  <2>2. p \notin Ended /\ Ended' = Ended \cup {p}
    BY <1>1, <1>2, <2>1 DEF Ended, IsOpen, Exists
  <2>3. Holders' = [s \in Subjects |-> Holders[s] \ {p}]
    <3> SUFFICES ASSUME NEW s \in Subjects
                 PROVE  {q \in Procs : IsOpen(q)' /\ rows'[q].subject = s}
                          = {q \in Procs : IsOpen(q) /\ rows[q].subject = s}
                              \ {p}
      BY DEF Holders
    <3> QED
      BY <1>2, <2>1 DEF IsOpen, Exists
  <2>4. Started' = Started
    BY <1>1, <1>2 DEF Started, Exists
  <2> QED
    BY <2>2, <2>3, <2>4 DEF Registry!End, Holders, Started, Ended
<1>4. CASE rows'[p].status \notin Terminal
  <2>1. Exists(p)' /\ IsOpen(p)'
    BY <1>1, <1>4 DEF IsOpen, Exists
  <2> QED
    BY <1>1, <1>2, <2>1, RegistryStutters DEF IInv, IsOpen, Exists
<1> QED
  BY <1>3, <1>4

\* Every step of the store is a step of the registry or is not seen by it.
LEMMA RegistryStep ==
  ASSUME IInv, [Next]_vars
  PROVE  [Registry!Next]_(Registry!vars)
<1> DEFINE Seen == Registry!Start \/ \E p \in Procs : Registry!End(p)
           Unseen == UNCHANGED <<Holders, Started, Ended>>
<1> SUFFICES Seen \/ Unseen
  BY DEF Registry!Next, Registry!vars, Holders, Started, Ended
<1>1. TypeOK /\ rows \in [Procs -> Process]
  BY DEF IInv, TypeOK
<1>2. CASE UNCHANGED recorded
  BY <1>2 DEF recorded, Holders, Started, Ended, IsOpen, Exists
<1>3. ASSUME NEW a \in Actors, NEW p \in Procs, Claim(a, p)
      PROVE  Unseen
  <2>1. rows' = [rows EXCEPT ![p] = Claimed(rows[p])] /\ rows[p] \in Process
    BY <1>1, <1>3 DEF Claim
  <2>2. Exists(p) /\ IsOpen(p)
    <3>1. Exists(p) /\ ClaimAt(rows[p]) # "never"
      BY <1>3 DEF Claim, Claimable
    <3> QED
      BY <3>1 DEF ClaimAt, Terminal, IsOpen
  <2>3. Exists(p)' /\ IsOpen(p)'
          /\ rows'[p].key = rows[p].key /\ rows'[p].subject = rows[p].subject
    BY <1>1, <2>1, <2>2, ClaimedRow DEF Exists, IsOpen, Terminal, Process
  <2>4. \A q \in Procs \ {p} : rows'[q] = rows[q]
    BY <1>1, <2>1
  <2> QED
    BY <1>1, <2>2, <2>3, <2>4, RegistryStutters DEF Exists, IsOpen
<1>4. ASSUME NEW cs, WellFormed(cs), BatchOrOne(cs), Apply(cs)
      PROVE  Seen \/ Unseen
  <2>1. CASE ~Accepts(cs)
    BY <1>4, <2>1 DEF Apply, stored, Holders, Started, Ended, IsOpen, Exists
  <2>2. CASE Accepts(cs) /\ DOMAIN cs.procs = Inserts(cs)
    BY <1>4, <2>2, BatchStarts DEF Apply
  <2>3. CASE Accepts(cs) /\ DOMAIN cs.procs # Inserts(cs)
    <3>1. PICK p \in Procs : DOMAIN cs.procs = {p}
      BY <1>4, <2>3 DEF BatchOrOne
    <3>2. p \notin Inserts(cs)
      BY <2>3, <3>1 DEF Inserts
    <3> QED
      BY <1>4, <2>3, <3>1, <3>2, RewriteEnds DEF Apply
  <2> QED
    BY <2>1, <2>2, <2>3
<1> QED
  BY <1>2, <1>3, <1>4, StepKinds
-----------------------------------------------------------------------------
(***************************************************************************)
(* The results.                                                            *)
(***************************************************************************)

\* The invariant holds throughout.
THEOREM Invariance == Spec => []IInv
<1> QED
  BY InitHolds, NextKeeps, PTL DEF Spec

\* Every behaviour of the store and the instances driving it is well typed.
THEOREM TypeCorrect == Spec => []TypeOK
<1>1. IInv => TypeOK
  BY DEF IInv
<1> QED
  BY <1>1, Invariance, PTL

\* A subject's guard document names the one open process that holds the
\* subject, whatever conflicts, crashes and overruns happen (the two-guard
\* scheme of Apply, firestore.go:486-587).
THEOREM SubjectsExclusive == Spec => []SubjectGuardExact
<1>1. IInv => SubjectGuardExact
  BY DEF IInv
<1> QED
  BY <1>1, Invariance, PTL

\* A key's guard document names the one process ever started under the key.
THEOREM KeysExclusive == Spec => []KeyGuardExact
<1>1. IInv => KeyGuardExact
  BY DEF IInv
<1> QED
  BY <1>1, Invariance, PTL

\* What an instance read is what the store holds, while the revision is the
\* one it read: comparing revisions at Apply is enough (firestore.go:503-526).
THEOREM ReadsHold == Spec => []ViewsAgree
<1>1. IInv => ViewsAgree
  BY DEF IInv
<1> QED
  BY <1>1, Invariance, PTL

\* The lookup a trigger uses to see whether its thread or Job is busy returns
\* the open process of the subject, and nothing when there is none; its second
\* look at the row's status never changes the answer.
THEOREM LookupExact ==
  Spec => [](\A s \in Subjects :
               LET found == FindOpenProcessBySubject(s) IN
               /\ found # None => IsOpen(found) /\ rows[found].subject = s
               /\ found = None => \A p \in Procs :
                                    ~(IsOpen(p) /\ rows[p].subject = s))
<1>1. IInv => \A s \in Subjects :
                LET found == FindOpenProcessBySubject(s) IN
                /\ found # None => IsOpen(found) /\ rows[found].subject = s
                /\ found = None => \A p \in Procs :
                                     ~(IsOpen(p) /\ rows[p].subject = s)
  <2> SUFFICES ASSUME IInv, NEW s \in Subjects
               PROVE  LET found == FindOpenProcessBySubject(s) IN
                      /\ found # None => IsOpen(found) /\ rows[found].subject = s
                      /\ found = None => \A p \in Procs :
                                           ~(IsOpen(p) /\ rows[p].subject = s)
    OBVIOUS
  <2>1. subjectGuards[s] \in Procs \cup {None} /\ None \notin Procs
    BY ConstantsAssumption DEF IInv, TypeOK
  <2>2. \A p \in Procs : subjectGuards[s] = p
                           <=> IsOpen(p) /\ rows[p].subject = s
    BY DEF IInv, SubjectGuardExact
  <2> QED
    BY <2>1, <2>2 DEF FindOpenProcessBySubject, IsOpen
<1> QED
  BY <1>1, Invariance, PTL

\* Two instances never both hold a claim the store would still accept: of the
\* instances that work on one process all but one are going to conflict.
THEOREM OneCommits == Spec => []OneCanCommit
<1>1. Init => OneCanCommit
  BY DEF Init, Idle, OneCanCommit
<1>2. IInv /\ OneCanCommit /\ [Next]_vars => OneCanCommit'
  <2> SUFFICES ASSUME IInv, OneCanCommit, [Next]_vars,
                      NEW a \in Actors, NEW b \in Actors,
                      views'[a].doing = "working", views'[b].doing = "working",
                      views'[a].pid = views'[b].pid,
                      views'[a].row.rev = rows'[views'[a].pid].rev,
                      views'[b].row.rev = rows'[views'[b].pid].rev, a # b
               PROVE  FALSE
    BY DEF OneCanCommit
  <2> DEFINE p == views'[a].pid
  <2>1. ASSUME NEW c \in {a, b}, views'[c] = views[c]
        PROVE  /\ p \in Procs /\ views[c].row.rev \in Nat
               /\ views[c].row.rev <= rows[p].rev
    BY <2>1 DEF IInv, TypeOK, ViewsAgree, ViewAgrees, View, Process
  <2>2. ASSUME NEW c \in {a, b}, NEW d \in {a, b}, c # d,
               views'[c] # views[c]
        PROVE  FALSE
    <3>1. /\ p \in Procs /\ views'[d] = views[d]
          /\ rows'[p].rev = rows[p].rev + 1
      BY <2>2, WorkStep
    <3>2. views[d].row.rev = rows'[p].rev
      BY <3>1
    <3>3. rows[p].rev \in Nat
      BY <3>1, RowStep
    <3> QED
      BY <2>1, <3>1, <3>2, <3>3
  <2>3. views'[a] = views[a] /\ views'[b] = views[b]
    BY <2>2
  <2>4. /\ p \in Procs /\ rows[p].rev \in Nat
        /\ rows'[p].rev = rows[p].rev \/ rows'[p].rev = rows[p].rev + 1
    BY <2>1, <2>3, RowStep
  <2>5. /\ views[a].row.rev = rows[p].rev /\ views[b].row.rev = rows[p].rev
    BY <2>1, <2>3, <2>4
  <2> QED
    BY <2>3, <2>5 DEF OneCanCommit
<1> QED
  BY <1>1, <1>2, Invariance, PTL DEF Spec

\* A process that ended stays as it ended.
THEOREM EndedStays == Spec => EndedIsFinal
<1>1. IInv /\ [Next]_vars =>
        [\A p \in Procs : Exists(p) /\ ~IsOpen(p) => rows'[p] = rows[p]]_vars
  BY RowStep DEF Exists, IsOpen
<1> QED
  BY <1>1, Invariance, PTL DEF Spec, EndedIsFinal

\* The first answer to a question is the one the process is resumed with.
THEOREM AnswerStays == Spec => FirstAnswerStands
<1>1. IInv /\ [Next]_vars =>
        [\A p \in Procs, k \in AwaitKeys :
           awaits[p][k] \in Actors => awaits'[p][k] = awaits[p][k]]_vars
  BY AnswerStep
<1> QED
  BY <1>1, Invariance, PTL DEF Spec, FirstAnswerStands

\* A transition is run once and reclaimed MaxUncleanReclaims times at most, however
\* many instances crash or overrun their leases.
THEOREM RunsAreBounded == Spec => []RunsBounded
<1>1. Init => RunsCounted
  BY ConstantsAssumption DEF Init, RunsCounted, Absent, NewProcess
<1>2. IInv /\ RunsCounted /\ [Next]_vars => RunsCounted'
  BY RunsStep
<1>3. RunsCounted => RunsBounded
  BY DEF RunsCounted, RunsBounded
<1> QED
  BY <1>1, <1>2, <1>3, Invariance, PTL DEF Spec

\* A process that waits without a deadline has a question somebody can answer:
\* no answer is taken without waking it.
THEOREM WaitersAsk == Spec => []NobodyWaitsForNothing
<1>1. Init => NobodyWaitsForNothing
  BY DEF Init, NobodyWaitsForNothing, Absent, NewProcess
<1>2. IInv /\ NobodyWaitsForNothing /\ [Next]_vars => NobodyWaitsForNothing'
  BY WaitStep
<1> QED
  BY <1>1, <1>2, Invariance, PTL DEF Spec

\* The events of a process are numbered from 0 on in the order they were
\* appended, without gaps or doubles, whoever appends them.
THEOREM EventsInOrder == Spec => []EventsNumbered
<1>1. Init => EventsNumbered
  <2> SUFFICES ASSUME Init PROVE EventsNumbered
    OBVIOUS
  <2>1. appended = << >> /\ events = {} /\ \A p \in Procs : eventSeq[p] = 0
    BY DEF Init
  <2>2. DOMAIN appended = {}
    BY <2>1
  <2>3. \A p \in Procs : {i \in DOMAIN appended : appended[i].pid = p} = {}
    BY <2>2
  <2> QED
    BY <2>1, <2>2, <2>3, FS_EmptySet DEF EventsNumbered
<1>2. IInv /\ EventsNumbered /\ [Next]_vars => EventsNumbered'
  BY EventsStep
<1> QED
  BY <1>1, <1>2, Invariance, PTL DEF Spec

\* The store implements the registry: whatever instances crash, overrun their
\* leases or conflict, its callers see processes start on free subjects and
\* fresh keys, end once, and nothing else.
THEOREM Refinement == Spec => ImplementsRegistry
<1>1. Init => Registry!Init
  BY DEF Init, Absent, NewProcess, Registry!Init, IsOpen, Exists
<1>2. IInv /\ [Next]_vars => [Registry!Next]_(Registry!vars)
  BY RegistryStep
<1> QED
  BY <1>1, <1>2, Invariance, PTL DEF Spec, ImplementsRegistry, Registry!Spec
=============================================================================

---------------------------- MODULE ActionBoard ----------------------------
(***************************************************************************)
(* The Actions of a channel-mode Case, their change history and the        *)
(* rolling channel message: pkg/usecase/action.go, action_step.go,         *)
(* action_comment.go and notification_slot.go, over the Firestore          *)
(* repositories of the same names.                                         *)
(*                                                                         *)
(*   - Every change reads a document, patches the copy and writes the      *)
(*     whole copy back; then it records what changed as ActionEvents, and  *)
(*     tells Slack.                                                        *)
(*   - What the channel should see is folded into one message for as long  *)
(*     as its notification slot lasts: GetActive, chat.update, Save, with  *)
(*     nothing atomic about them.                                          *)
(*                                                                         *)
(* Each read, write and Slack call is a step, but for the two reads of a   *)
(* step operation, of the Action and of the step, which are one.  A write  *)
(* of an Action checks that it exists first; nothing deletes one but the   *)
(* deletion of its Case, which is left out, so the two are one step.       *)
(* Titles and assignees are one field, descriptions and due dates are left *)
(* out, and so are the text of cards, thread replies and blocks, and the   *)
(* limits of their rendering.                                              *)
(***************************************************************************)
EXTENDS Naturals, FiniteSets, SequencesExt

CONSTANTS Calls,      \* calls of the use cases; also the messages they post
          MaxActions, \* bound: actions
          MaxEntries, \* slotMaxEntries
          MaxFaults,  \* bound: failed steps and dead calls
          MaxLosses,  \* bound: messages that expire or are deleted
          None

ASSUME BoardAssumption ==
  /\ MaxActions \in Nat \ {0} /\ MaxEntries \in Nat \ {0}
  /\ MaxFaults \in Nat /\ MaxLosses \in Nat
  /\ None \notin Calls

VARIABLES
  actions,   \* id -> the stored Action, or None
  steps,     \* id -> the ActionStep under it
  feed,      \* id -> the set of its ActionEvents
  slot,      \* the stored NotificationSlot of the channel, or None
  expired,   \* messages whose slot has expired
  posted,    \* message -> the lines it shows, or None
  gone,      \* messages deleted in Slack
  pc,        \* call -> where it is
  job,       \* call -> what it is doing: the document as it read it, as it
             \*         writes it, and whether the channel hears of it
  seen,      \* call -> its copy of the slot, or None
  stale,     \* history: ids over whose documents a stale copy was written
  unrecorded,\* history: ids whose feed misses an event
  overlaps,  \* history: calls that met another at work on the slot
  kept,      \* history: lines saved by calls that met no other, with message
  lost,      \* history: call -> the deleted message it failed to update
  faults     \* faults so far

documents == <<actions, steps, feed>>
channel == <<slot, expired, posted, gone>>
call == <<pc, job, seen>>
history == <<stale, unrecorded, overlaps, kept, lost>>
vars == <<documents, channel, call, history, faults>>
-----------------------------------------------------------------------------
Ids == 1..MaxActions
Statuses == {"todo", "done"}
Titles == {"a", "b"}

Action == [status : Statuses, title : Titles, archived : BOOLEAN,
           carded : BOOLEAN]
Step == [state : {"unborn", "open", "done", "removed"}, title : Titles]
Event == [kind : {"created", "status", "title", "archived", "unarchived",
                  "added", "finished", "reopened", "renamed", "removed"},
          from : Statuses \cup Titles \cup {None},
          to : Statuses \cup Titles \cup {None}, by : Calls]
Slot == [message : Calls, lines : Seq(Calls)]

\* An absent document or message is told from every other.
ASSUME NoneAssumption == None \notin Action \cup Step \cup Slot \cup Seq(Calls)

\* carded says that the Action has its SlackMessageTS.  An Action gets one step
\* here; removed, it does not come back under its ID.
NewAction == [status |-> "todo", title |-> "a", archived |-> FALSE,
              carded |-> FALSE]
NoStep == [state |-> "unborn", title |-> "a"]
IsStep(i) == steps[i].state \in {"open", "done"}

Idle == [on |-> "nothing", id |-> 0, base |-> None, new |-> None, tell |-> FALSE]

Places == {"idle", "create", "write", "record", "card", "notify", "show",
           "save", "drop", "done"}

TypeOK ==
  /\ actions \in [Ids -> Action \cup {None}]
  /\ steps \in [Ids -> Step]
  /\ \A i \in Ids : feed[i] \subseteq Event
  /\ slot # None => (slot \in Slot /\ Len(slot.lines) \in 1..MaxEntries)
  /\ \A m \in Calls : posted[m] # None => IsInjective(posted[m])
  /\ expired \cup gone \subseteq {m \in Calls : posted[m] # None}
  /\ pc \in [Calls -> Places]
  /\ \A c \in Calls : /\ job[c].on \in {"nothing", "update", "archive", "step",
                                         "comment"}
                      /\ job[c].id \in Ids \cup {0}
                      /\ seen[c] # None => seen[c] \in Slot
  /\ stale \cup unrecorded \subseteq Ids
  /\ overlaps \subseteq Calls
  /\ lost \in [Calls -> Calls \cup {None}]
  /\ faults \in 0..MaxFaults

\* There may be one Action already, with its card.
Init ==
  /\ \E first \in {None, [NewAction EXCEPT !.carded = TRUE]} :
       actions = [i \in Ids |-> IF i = 1 THEN first ELSE None]
  /\ steps = [i \in Ids |-> NoStep]
  /\ feed = [i \in Ids |-> {}]
  /\ slot = None /\ expired = {} /\ gone = {}
  /\ posted = [m \in Calls |-> None]
  /\ pc = [c \in Calls |-> "idle"]
  /\ job = [c \in Calls |-> Idle]
  /\ seen = [c \in Calls |-> None]
  /\ stale = {} /\ unrecorded = {} /\ overlaps = {} /\ kept = <<>>
  /\ lost = [c \in Calls |-> None]
  /\ faults = 0

Goto(c, p) == pc' = [pc EXCEPT ![c] = p]
Fault == faults < MaxFaults /\ faults' = faults + 1

\* The end of a call: its copies are gone.
End(c) ==
  /\ Goto(c, "done")
  /\ job' = [job EXCEPT ![c] = Idle]
  /\ seen' = [seen EXCEPT ![c] = None]
-----------------------------------------------------------------------------
(***************************************************************************)
(* What a call sets out to do, once it has read its documents.             *)
(***************************************************************************)

Begin(c, p, j) ==
  /\ pc[c] = "idle"
  /\ Goto(c, p)
  /\ job' = [job EXCEPT ![c] = j]
  /\ UNCHANGED <<documents, channel, seen, history, faults>>

CreateAction(c) ==
  /\ \E i \in Ids : actions[i] = None  \* MaxActions
  /\ Begin(c, "create", [Idle EXCEPT !.on = "update", !.new = NewAction])

\* Faulty: the patch is built field by field, and one is forgotten.
PatchedByField(doc, s, t) ==
  [doc EXCEPT !.status = s, !.title = t, !.archived = FALSE]

\* A copy of the whole document, with the fields the caller set.
Patched(doc, s, t) == [doc EXCEPT !.status = s, !.title = t]

\* UpdateAction.  The channel hears of a new status or assignee of an Action
\* that has a card, if the caller asked for full SlackSync.
UpdateAction(c, i, s, t, full) ==
  /\ actions[i] # None
  /\ LET new == Patched(actions[i], s, t)
     IN Begin(c, "write",
              [on |-> "update", id |-> i, base |-> actions[i], new |-> new,
               tell |-> full /\ new.carded /\ new.status # actions[i].status])

\* ArchiveAction and UnarchiveAction tell the thread only.
ArchiveAction(c, i) ==
  /\ actions[i] # None /\ ~actions[i].archived
  /\ Begin(c, "write",
           [on |-> "archive", id |-> i, base |-> actions[i],
            new |-> [actions[i] EXCEPT !.archived = TRUE], tell |-> FALSE])

UnarchiveAction(c, i) ==
  /\ actions[i] # None /\ actions[i].archived
  /\ Begin(c, "write",
           [on |-> "archive", id |-> i, base |-> actions[i],
            new |-> [actions[i] EXCEPT !.archived = FALSE], tell |-> FALSE])

\* PostSlackMessageToAction: the Action has no card, as far as it can see.
PostSlackMessageToAction(c, i) ==
  /\ actions[i] # None /\ ~actions[i].carded
  /\ Begin(c, "card", [on |-> "update", id |-> i, base |-> actions[i],
                       new |-> [actions[i] EXCEPT !.carded = TRUE],
                       tell |-> FALSE])

\* Add, SetDone, Rename and Delete: the Action is read for its card.
ChangeStep(c, i, new) ==
  /\ actions[i] # None /\ new # steps[i]
  /\ Begin(c, "write", [on |-> "step", id |-> i, base |-> steps[i],
                        new |-> new, tell |-> actions[i].carded])

\* Add draws a fresh ID: nobody else adds the same step.
AddStep(c, i) ==
  /\ steps[i] = NoStep
  /\ \A d \in Calls : job[d].on = "step" => job[d].id # i
  /\ ChangeStep(c, i, [steps[i] EXCEPT !.state = "open"])
SetDone(c, i, is) ==
  IsStep(i) /\ ChangeStep(c, i, [steps[i] EXCEPT
                                   !.state = IF is THEN "done" ELSE "open"])
Rename(c, i, t) == IsStep(i) /\ ChangeStep(c, i, [steps[i] EXCEPT !.title = t])
DeleteStep(c, i) ==
  IsStep(i) /\ ChangeStep(c, i, [steps[i] EXCEPT !.state = "removed"])

\* Create of a comment.  Its author's edits and its deletion are silent and
\* left out.
Comment(c, i) ==
  /\ actions[i] # None
  /\ Begin(c, "write", [Idle EXCEPT !.on = "comment", !.id = i,
                                    !.tell = actions[i].carded])
-----------------------------------------------------------------------------
(***************************************************************************)
(* Writes and their record.                                                *)
(***************************************************************************)

\* getNextID and the write.  CreateAction goes on to the card, whatever
\* becomes of its event.
Create(c) ==
  /\ pc[c] = "create"
  /\ LET i == 1 + Cardinality({k \in Ids : actions[k] # None})
         stored == actions' = [actions EXCEPT ![i] = job[c].new]
     IN /\ i \in Ids
        /\ \/ /\ stored /\ Goto(c, "record")
              /\ job' = [job EXCEPT ![c].id = i]
              /\ UNCHANGED <<seen, faults>>
           \/ Fault /\ End(c) /\ (stored \/ UNCHANGED actions)
  /\ UNCHANGED <<steps, feed, channel, history>>

\* Update of the repositories: the whole copy, whatever is stored by now.
Stored(c) ==
  LET j == job[c]
      old == IF j.on = "step" THEN steps[j.id] ELSE actions[j.id]
  IN CASE j.on = "comment" -> UNCHANGED <<actions, steps, stale>>
       [] OTHER ->
            /\ IF j.on = "step"
               THEN steps' = [steps EXCEPT ![j.id] = j.new] /\ UNCHANGED actions
               ELSE actions' = [actions EXCEPT ![j.id] = j.new] /\ UNCHANGED steps
            /\ stale' = IF old = j.base THEN stale ELSE stale \cup {j.id}

Write(c) ==
  /\ pc[c] = "write"
  /\ \/ /\ Stored(c)
        /\ IF job[c].on # "comment" THEN Goto(c, "record") /\ UNCHANGED <<job, seen>>
           ELSE IF job[c].tell THEN Goto(c, "notify") /\ UNCHANGED <<job, seen>>
           ELSE End(c)
        /\ UNCHANGED <<unrecorded, faults>>
     \/ /\ Fault /\ Stored(c) /\ End(c)
        /\ unrecorded' = IF job[c].on = "comment" THEN unrecorded
                                                 ELSE unrecorded \cup {job[c].id}
     \/ Fault /\ End(c) /\ UNCHANGED <<actions, steps, stale, unrecorded>>
  /\ UNCHANGED <<feed, channel, overlaps, kept, lost>>

\* The events of a change: CreateAction's one, recordActionEvents' for each
\* field that differs between the documents as read and as written,
\* recordArchiveEvent's and recordStepEvent's one.
Changes(c, j) ==
  LET old == j.base
      new == j.new
      event(kind, from, to) == [kind |-> kind, from |-> from, to |-> to, by |-> c]
      update == {event("status", old.status, new.status),
                 event("title", old.title, new.title)}
  IN CASE j.on = "archive" ->
            {event(IF new.archived THEN "archived" ELSE "unarchived",
                   None, new.title)}
       [] j.on = "update" /\ old = None -> {event("created", None, new.title)}
       [] j.on = "update" /\ old # None -> {e \in update : e.from # e.to}
       [] j.on = "step" ->
            {CASE old.state = "unborn" -> event("added", None, new.title)
               [] new.state = "removed" -> event("removed", old.title, None)
               [] old.title # new.title -> event("renamed", old.title, new.title)
               [] OTHER -> event(IF new.state = "done" THEN "finished"
                                                       ELSE "reopened",
                                 None, new.title)}

\* A failure to record an event is only logged.
Record(c) ==
  /\ pc[c] = "record"
  /\ LET i == job[c].id
         told == Changes(c, job[c])
     IN \/ /\ feed' = [feed EXCEPT ![i] = @ \cup told]
           /\ UNCHANGED <<unrecorded, faults>>
        \/ /\ told # {} /\ Fault
           /\ \E e \in told : feed' = [feed EXCEPT ![i] = @ \cup (told \ {e})]
           /\ unrecorded' = unrecorded \cup {i}
  /\ IF job[c].on = "update" /\ job[c].base = None
     THEN /\ Goto(c, "card")
          /\ job' = [job EXCEPT ![c].base = job[c].new, ![c].new.carded = TRUE]
          /\ UNCHANGED seen
     ELSE IF job[c].tell THEN Goto(c, "notify") /\ UNCHANGED <<job, seen>>
     ELSE End(c)
  /\ UNCHANGED <<actions, steps, channel, stale, overlaps, kept, lost>>

\* postSlackMessageForAction: the card is posted, then its timestamp is written
\* with the rest of the copy.  A card whose timestamp is not written stays in
\* the channel and nobody knows of it.
PostCard(c) ==
  /\ pc[c] = "card"
  /\ \/ Stored(c) /\ UNCHANGED faults
     \/ Fault /\ (Stored(c) \/ UNCHANGED <<actions, steps, stale>>)
  /\ End(c)
  /\ UNCHANGED <<feed, channel, unrecorded, overlaps, kept, lost>>
-----------------------------------------------------------------------------
(***************************************************************************)
(* enqueueChannelLine.                                                     *)
(***************************************************************************)

AtSlot(c) == pc[c] \in {"show", "save", "drop"}

\* The thread is told first; without that the channel is not.  Then GetActive:
\* an expired slot counts as none.
GetActive(c) ==
  /\ pc[c] = "notify"
  /\ \/ /\ seen' = [seen EXCEPT ![c] =
              IF slot # None /\ slot.message \notin expired THEN slot ELSE None]
        /\ Goto(c, "show")
        /\ LET others == {d \in Calls : AtSlot(d)}
           IN overlaps' = IF others = {} THEN overlaps
                                         ELSE overlaps \cup others \cup {c}
        /\ UNCHANGED <<job, faults>>
     \/ Fault /\ End(c) /\ UNCHANGED overlaps
  /\ UNCHANGED <<documents, channel, stale, unrecorded, kept, lost>>

\* postNewSlot posts a message of one line.
PostSlot(c) ==
  /\ pc[c] = "show" /\ seen[c] = None
  /\ \/ /\ posted' = [posted EXCEPT ![c] = <<c>>]
        /\ seen' = [seen EXCEPT ![c] = [message |-> c, lines |-> <<c>>]]
        /\ Goto(c, "save") /\ UNCHANGED <<job, faults>>
     \/ /\ Fault /\ End(c)
        /\ posted' \in {posted, [posted EXCEPT ![c] = <<c>>]}
  /\ UNCHANGED <<documents, slot, expired, gone, history>>

\* Faulty: a full slot keeps what it has.
AppendedFirst(lines, c) ==
  SubSeq(Append(lines, c), 1, IF Len(lines) < MaxEntries THEN Len(lines) + 1
                                                         ELSE MaxEntries)

\* Faulty: the slot grows without bound.
AppendedUncapped(lines, c) == Append(lines, c)

\* The storage cap: the oldest line makes room.
Appended(lines, c) ==
  IF Len(lines) < MaxEntries THEN Append(lines, c) ELSE Tail(Append(lines, c))

\* Faulty: a message that cannot be updated is only reported.
AfterNoUpdateKept(c) == "done"

\* The slot of a message that cannot be updated is dropped.
AfterNoUpdate(c) == "drop"

\* updateExistingSlot rewrites the message with one line more.
UpdateSlot(c) ==
  /\ pc[c] = "show" /\ seen[c] # None
  /\ LET m == seen[c].message
         lines == Appended(seen[c].lines, c)
         shown == posted' = [posted EXCEPT ![m] = lines]
     IN \/ /\ m \notin gone /\ shown
           /\ seen' = [seen EXCEPT ![c].lines = lines]
           /\ Goto(c, "save") /\ UNCHANGED <<lost, faults>>
        \/ /\ m \notin gone /\ Fault
           /\ shown \/ UNCHANGED posted
           /\ Goto(c, AfterNoUpdate(c)) /\ UNCHANGED <<seen, lost>>
        \/ /\ m \in gone /\ UNCHANGED <<posted, seen, faults>>
           /\ lost' = [lost EXCEPT ![c] = m]
           /\ Goto(c, AfterNoUpdate(c))
  /\ UNCHANGED <<documents, slot, expired, gone, job, stale, unrecorded, overlaps,
                 kept>>

SaveSlot(c) ==
  /\ pc[c] = "save"
  /\ \/ /\ slot' = seen[c]
        /\ kept' = IF c \in overlaps THEN kept
                   ELSE Append(kept, [line |-> c, message |-> seen[c].message])
        /\ UNCHANGED faults
     \/ /\ Fault /\ UNCHANGED kept
        /\ slot' \in {slot, seen[c]}
  /\ End(c)
  /\ UNCHANGED <<documents, expired, posted, gone, stale, unrecorded, overlaps,
                 lost>>

DropSlot(c) ==
  /\ pc[c] = "drop"
  /\ \/ slot' = None /\ UNCHANGED faults
     \/ Fault /\ slot' \in {None, slot}
  /\ End(c)
  /\ UNCHANGED <<documents, expired, posted, gone, history>>
-----------------------------------------------------------------------------
\* A slot, or a copy of one, is about the message; what happens to any other
\* message has no effect and is left out.
Current(m) ==
  /\ Cardinality(expired) + Cardinality(gone) < MaxLosses
  /\ \E s \in {slot} \cup {seen[c] : c \in Calls} : s # None /\ s.message = m

\* The slot's ExpiresAt passes; it was set when the message was posted.
Expire(m) ==
  /\ Current(m) /\ m \notin expired
  /\ expired' = expired \cup {m}
  /\ UNCHANGED <<documents, slot, posted, gone, call, history, faults>>

\* Somebody deletes the message in Slack.
DeleteMessage(m) ==
  /\ Current(m) /\ m \notin gone
  /\ gone' = gone \cup {m}
  /\ UNCHANGED <<documents, slot, expired, posted, call, history, faults>>

\* The instance dies under a call.
Die(c) ==
  /\ pc[c] \notin {"idle", "done"} /\ Fault
  /\ unrecorded' = IF pc[c] = "record" THEN unrecorded \cup {job[c].id}
                                       ELSE unrecorded
  /\ End(c)
  /\ UNCHANGED <<documents, channel, stale, overlaps, kept, lost>>

Start(c) ==
  \/ CreateAction(c)
  \/ \E i \in Ids :
       \/ \E s \in Statuses, t \in Titles, full \in BOOLEAN :
            UpdateAction(c, i, s, t, full)
       \/ ArchiveAction(c, i) \/ UnarchiveAction(c, i)
       \/ PostSlackMessageToAction(c, i)
       \/ AddStep(c, i) \/ DeleteStep(c, i)
       \/ \E is \in BOOLEAN : SetDone(c, i, is)
       \/ \E t \in Titles : Rename(c, i, t)
       \/ Comment(c, i)

Proceed(c) ==
  \/ Create(c) \/ Write(c) \/ Record(c) \/ PostCard(c)
  \/ GetActive(c) \/ PostSlot(c) \/ UpdateSlot(c)
  \/ SaveSlot(c) \/ DropSlot(c)

Next ==
  \/ \E c \in Calls : Start(c) \/ Proceed(c) \/ Die(c)
  \/ \E m \in Calls : Expire(m) \/ DeleteMessage(m)

Spec == Init /\ [][Next]_vars
-----------------------------------------------------------------------------
(***************************************************************************)
(* Properties.                                                             *)
(***************************************************************************)

Count(i, kinds) == Cardinality({e \in feed[i] : e.kind \in kinds})
One(b) == IF b THEN 1 ELSE 0

\* Of one field, the events lead from its first value to its last, in whatever
\* order they were recorded: into each value as often as out of it, but for
\* these two.
Leads(i, kind, values, first, last) ==
  \A v \in values :
    Cardinality({e \in feed[i] : e.kind = kind /\ e.to = v}) + One(v = first)
      = Cardinality({e \in feed[i] : e.kind = kind /\ e.from = v}) + One(v = last)

\* "The activity feed in the WebUI reads ActionEvent records as the source of
\* truth" (action.go:457-459): the feed of an Action accounts for what the
\* Action and its step have become, unless a stale copy was written or an
\* event is on its way or could not be recorded.
FeedBalances ==
  \A i \in Ids :
    /\ actions[i] # None /\ i \notin stale \cup unrecorded
    /\ \A c \in Calls : pc[c] = "record" => job[c].id # i
    => /\ Leads(i, "status", Statuses, "todo", actions[i].status)
       /\ Leads(i, "title", Titles, "a", actions[i].title)
       /\ Leads(i, "renamed", Titles, "a", steps[i].title)
       /\ Count(i, {"archived"}) = Count(i, {"unarchived"}) + One(actions[i].archived)
       /\ Count(i, {"added"}) = One(steps[i].state # "unborn")
       /\ Count(i, {"removed"}) = One(steps[i].state = "removed")
       /\ steps[i].state # "removed" =>
            Count(i, {"finished"}) = Count(i, {"reopened"})
                                       + One(steps[i].state = "done")

\* A line that was saved while no other call was at work on the slot stays in
\* its message, however later calls race, until MaxEntries newer ones have
\* taken its place.
LinesStay ==
  \A k \in DOMAIN kept :
    LET lines == posted[kept[k].message]
    IN \/ Contains(lines, kept[k].line)
       \/ /\ Len(lines) = MaxEntries
          /\ \A older \in 1..(k - 1) : ~Contains(lines, kept[older].line)

\* A message that was deleted in Slack swallows one line: after that its slot
\* is dropped and the next line starts a message of its own, unless calls met
\* at the slot or a call failed.
NextStartsAfresh ==
  \A c, d \in Calls \ overlaps :
    c # d /\ lost[c] # None /\ lost[c] = lost[d] => faults > 0
=============================================================================

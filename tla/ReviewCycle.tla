----------------------------- MODULE ReviewCycle ------------------------------
(***************************************************************************)
(* The review <-> fixes cycle of one merge request: the discussions that   *)
(* the poller mirrors (syncMRDiscussions), the state that the database     *)
(* implies (DeriveState), and the direct messages about its changes        *)
(* (ProcessStateChangeNotifications, CleanupOldUnnotifiedActions).         *)
(*                                                                         *)
(* One tick of main.go is a pass                                           *)
(*                                                                         *)
(*   mirror -> fetch discussions -> sync them note by note -> assign       *)
(*     -> notify -> clean up                                               *)
(*                                                                         *)
(* in one goroutine, over a GitLab that moves at any time.  The process    *)
(* may die between any two writes, also between the write of a comment and *)
(* the write of its action, which are two transactions, and most errors of *)
(* the database are logged and dropped.                                    *)
(*                                                                         *)
(* Comments outside a resolvable discussion are left out: all they do is   *)
(* add an action of their own.                                             *)
(*                                                                         *)
(* Clocks only matter through the age of an action: the notifier takes     *)
(* rows younger than 30 minutes (age 0), the cleanup silences those older  *)
(* than an hour (age 2).                                                   *)
(***************************************************************************)
EXTENDS Naturals, FiniteSets

CONSTANTS
  Threads,       \* the resolvable discussions of the MR
  Faults,        \* may calls fail, the process die, a tick be late?
  MaxNotes,      \* bound: notes ever made in a discussion
  MaxChanges     \* bound: changes made in GitLab

PassSteps ==
  {"idle", "fetch", "next", "assign", "notify", "record", "mark", "cleanup"}

ASSUME CycleAssumption ==
  /\ Faults \in BOOLEAN
  /\ Threads \intersect PassSteps = {}
  /\ MaxNotes \in Nat \ {0} /\ MaxChanges \in Nat

VARIABLES
  gl,        \* the merge request in GitLab: state, draft, notes, resolved
  made,      \* how many notes each discussion ever had: the next note's id
  mr,        \* state and draft flag of its row in the database
  comments,  \* its MRComment rows
  actions,   \* its MRAction rows about comments
  notified,  \* NotifiedState of the latest MRNotificationState, or "none"
  pc,        \* where the tick stands
  snap,      \* the discussions it fetched
  todo,      \* those it has still to process
  left,      \* the notes left of the one it is at
  seen,      \* the notes it has processed of that one
  batch,     \* the actions the notifier handles
  current,   \* the state it found the MR in
  calm,      \* no more changes in GitLab, crashes or failures
  changes,   \* how many changes GitLab has made
  asked,     \* history: was the author asked for fixes, the reviewers not
             \*   called back since?
  unsaved,   \* history: was the last message sent without being recorded?
  stray,     \* history: were reviewers called back for nothing?
  torn,      \* history: notes whose action a crash or an error swallowed
  blind      \* history: did the notifier drop an error in this round?

vars == <<gl, made, mr, comments, actions, notified, pc, snap, todo, left,
          seen, batch, current, calm, changes, asked, unsaved, stray, torn,
          blind>>

gitlab == <<gl, made, changes>>

pass == <<snap, todo, left, seen>>

told == <<asked, unsaved, stray>>

round == <<batch, current, blind>>

notifier == <<notified, round, told>>

People == {"author", "reviewer"}

Ids == 1 .. MaxNotes

Notes == [id : Ids, by : People]

GitLabMRs ==
  [state : {"opened", "ended"}, draft : BOOLEAN,
   notes : [Threads -> SUBSET Notes], resolved : [Threads -> BOOLEAN]]

Snapshots ==
  [notes : [Threads -> SUBSET Notes], resolved : [Threads -> BOOLEAN]]

NoNotes == [d \in Threads |-> {}]

NoSnapshot == [notes |-> NoNotes, resolved |-> [d \in Threads |-> FALSE]]

Comments ==
  [disc : Threads, id : Ids, by : People, resolved : BOOLEAN, last : BOOLEAN]

Actions ==
  [type : {"comment_added", "comment_resolved"}, disc : Threads, id : Ids,
   age : 0 .. 2, notified : BOOLEAN]

Unnotified(type, disc, id, age) ==
  [type |-> type, disc |-> disc, id |-> id, age |-> age, notified |-> FALSE]

(* The poller meets the MR before or after its review has begun.           *)
Begun == [d \in Threads |-> {[id |-> 1, by |-> "reviewer"]}]

Init ==
  /\ \E notes \in {NoNotes, Begun} :
       /\ gl = [state |-> "opened", draft |-> FALSE, notes |-> notes,
                resolved |-> [d \in Threads |-> FALSE]]
       /\ made = [d \in Threads |-> IF notes[d] = {} THEN 0 ELSE 1]
  /\ mr = [state |-> "opened", draft |-> FALSE]
  /\ comments = {}
  /\ actions = {}
  /\ notified = "none"
  /\ pc = "idle"
  /\ snap = NoSnapshot
  /\ todo = {}
  /\ left = {}
  /\ seen = {}
  /\ batch = {}
  /\ current = "none"
  /\ blind = FALSE
  /\ calm = FALSE
  /\ changes = 0
  /\ asked = FALSE
  /\ unsaved = FALSE
  /\ stray = FALSE
  /\ torn = {}

-----------------------------------------------------------------------------
(* DeriveState, HasThreadsAwaitingAuthor.                                  *)

(* A discussion waits for the author when its last comment is somebody     *)
(* else's and one of its comments is not resolved.  `last' stands for      *)
(* is_last_in_thread with a thread_starter_id, which are read together.    *)
Awaiting(d) ==
  /\ \E c \in comments :
       c.disc = d /\ c.last /\ c.by # "author"
  /\ \E c \in comments : c.disc = d /\ ~ c.resolved

DerivedState ==
  CASE mr.state # "opened"              -> mr.state
    [] mr.state = "opened" /\ mr.draft  -> "draft"
    [] OTHER -> IF \E d \in Threads : Awaiting(d)
                  THEN "on_fixes" ELSE "on_review"

-----------------------------------------------------------------------------
(* GitLab.                                                                 *)

LastNote(notes) == {n \in notes : \A m \in notes : m.id <= n.id}

AddNote(d, who) ==
  /\ made[d] < MaxNotes
  /\ gl.state = "opened"
  /\ made' = [made EXCEPT ![d] = @ + 1]
  /\ gl' = [gl EXCEPT !.notes[d] = @ \union {[id |-> made[d] + 1, by |-> who]}]

DeleteNote(d, n) ==
  /\ gl' = [gl EXCEPT !.notes[d] = @ \ {n}]
  /\ UNCHANGED made

ToggleResolved(d) ==
  /\ gl.notes[d] # {}
  /\ gl' = [gl EXCEPT !.resolved[d] = ~ @]
  /\ UNCHANGED made

ToggleDraft ==
  /\ gl.state = "opened"
  /\ gl' = [gl EXCEPT !.draft = ~ @]
  /\ UNCHANGED made

(* "ended" stands for merged and for closed.                               *)
Finish ==
  /\ gl.state = "opened"
  /\ gl' = [gl EXCEPT !.state = "ended"]
  /\ UNCHANGED made

GitLabChange ==
  /\ ~ calm
  /\ changes < MaxChanges
  /\ changes' = changes + 1
  /\ \/ \E d \in Threads, who \in People : AddNote(d, who)
     \/ \E d \in Threads : \E n \in gl.notes[d] : DeleteNote(d, n)
     \/ \E d \in Threads : ToggleResolved(d)
     \/ ToggleDraft
     \/ Finish
  /\ UNCHANGED <<mr, comments, actions, pc, pass, notifier, calm, torn>>

Faulty == Faults /\ ~ calm

(* Half an hour passes.  Without faults the tick, a minute long, handles   *)
(* an action before it is that old.                                        *)
Age ==
  /\ Faults \/ \A a \in actions : a.age = 0 => a.notified
  /\ actions' = {[a EXCEPT !.age = IF @ < 2 THEN @ + 1 ELSE 2] : a \in actions}
  /\ UNCHANGED <<gitlab, mr, comments, pc, pass, notifier, calm, torn>>

(* From some point on GitLab is quiet and nothing fails.                   *)
Settle ==
  /\ ~ calm
  /\ calm' = TRUE
  /\ UNCHANGED <<gitlab, mr, comments, actions, pc, pass, notifier, torn>>

-----------------------------------------------------------------------------
(* The poller: the row of the MR, then its discussions.                    *)

(* A row the database holds as opened is mirrored, and its discussions are *)
(* fetched as long as it is.                                               *)
Mirror ==
  /\ pc = "idle"
  /\ IF mr.state = "opened"
       THEN /\ mr' = [state |-> gl.state, draft |-> gl.draft]
            /\ pc' = IF gl.state = "opened" THEN "fetch" ELSE "assign"
       ELSE pc' = "assign" /\ UNCHANGED mr
  /\ UNCHANGED <<gitlab, comments, actions, pass, notifier, calm, torn>>

MirrorFails ==
  /\ pc = "idle"
  /\ Faulty
  /\ pc' = "assign"
  /\ UNCHANGED <<gitlab, mr, comments, actions, pass, notifier, calm, torn>>

FetchDiscussions ==
  /\ pc = "fetch"
  /\ snap' = [notes |-> gl.notes, resolved |-> gl.resolved]
  /\ todo' = {d \in Threads : gl.notes[d] # {}}
  /\ left' = {}
  /\ seen' = {}
  /\ pc' = "next"
  /\ UNCHANGED <<gitlab, mr, comments, actions, notifier, calm, torn>>

FetchDiscussionsFails ==
  /\ pc = "fetch"
  /\ Faulty
  /\ pc' = "assign"
  /\ UNCHANGED <<gitlab, mr, comments, actions, pass, notifier, calm, torn>>

NextDiscussion(d) ==
  /\ pc = "next"
  /\ d \in todo
  /\ left' = snap.notes[d]
  /\ seen' = {}
  /\ pc' = d
  /\ UNCHANGED <<gitlab, mr, comments, actions, snap, todo, notifier, calm,
                 torn>>

(* The row of a note, as the snapshot has it.  Without the user who        *)
(* started it, where that could not be stored, the thread waits for nobody.*)
Row(d, n, starter) ==
  [disc |-> d, id |-> n.id, by |-> n.by,
   resolved |-> snap.resolved[d],
   last |-> starter /\ n \in LastNote(snap.notes[d])]

Stored(d, n) == {c \in comments : c.disc = d /\ c.id = n.id}

(* Fault: a note that is stored already is never updated.                  *)
UpsertNew(d, n) ==
  comments' = comments \union {c \in {Row(d, n, TRUE)} : Stored(d, n) = {}}

Upsert(d, n) ==
  \E starter \in {TRUE, ~ Faulty} :
    comments' = (comments \ Stored(d, n)) \union {Row(d, n, starter)}

(* Fault: of several new notes only the last is logged.                    *)
NoteActionsLast(d, n) ==
  {"comment_added" : m \in {n} \intersect LastNote(snap.notes[d])}

(* What the note tells the timeline: its creation, or the transition from  *)
(* unresolved to resolved.  The way back tells nothing.                    *)
NoteActions(d, n) ==
  IF Stored(d, n) = {} THEN {"comment_added"}
  ELSE {"comment_resolved" :
          c \in {e \in Stored(d, n) : ~ e.resolved /\ snap.resolved[d]}}

(* recordMRAction writes it with the time GitLab gives, which may be long  *)
(* past, unless the write fails or a row of the same kind is too close;    *)
(* nobody learns of either.                                                *)
Recordings(d, n) ==
  LET repeated == \E a \in actions : /\ a.type \in NoteActions(d, n)
                                     /\ a.disc = d /\ a.id = n.id
  IN  {{Unnotified(type, d, n.id, age) : type \in NoteActions(d, n)} :
         age \in 0 .. 2}
        \union {T \in {{}} : Faulty \/ repeated}

(* Notes are processed in the order of their ids.                          *)
NextNote(d, n) ==
  /\ pc = d
  /\ n \in left
  /\ \A m \in left : n.id <= m.id

(* A comment_added that was to be written and was not.                     *)
Lost(d, n, T) ==
  IF "comment_added" \in NoteActions(d, n) /\ T = {} THEN {<<d, n.id>>} ELSE {}

SyncNote(d) ==
  \E n \in left :
    /\ NextNote(d, n)
    /\ Upsert(d, n)
    /\ \E T \in Recordings(d, n) :
         /\ actions' = actions \union T
         /\ torn' = torn \union Lost(d, n, T)
    /\ left' = left \ {n}
    /\ seen' = seen \union {n.id}
    /\ UNCHANGED <<gitlab, mr, pc, snap, todo, notifier, calm>>

(* The write of the comment, or of its author, fails: the note is skipped. *)
SyncNoteFails(d) ==
  /\ Faulty
  /\ \E n \in left :
       /\ NextNote(d, n)
       /\ left' = left \ {n}
  /\ UNCHANGED <<gitlab, mr, comments, actions, pc, snap, todo, seen, notifier,
                 calm, torn>>

(* After its notes, the discussion's other comments lose the mark of the   *)
(* last one, unless that write fails.                                      *)
EndDiscussion(d) ==
  /\ pc = d
  /\ left = {}
  /\ \/ comments' = {IF c.disc = d /\ seen # {} /\ c.id \notin seen
                       THEN [c EXCEPT !.last = FALSE] ELSE c : c \in comments}
     \/ Faulty /\ UNCHANGED comments
  /\ todo' = todo \ {d}
  /\ seen' = {}
  /\ pc' = "next"
  /\ UNCHANGED <<gitlab, mr, actions, snap, left, notifier, calm, torn>>

Forget ==
  /\ snap' = NoSnapshot /\ todo' = {} /\ left' = {} /\ seen' = {}

EndDiscussions ==
  /\ pc = "next"
  /\ todo = {}
  /\ Forget
  /\ pc' = "assign"
  /\ UNCHANGED <<gitlab, mr, comments, actions, notifier, calm, torn>>

-----------------------------------------------------------------------------
(* AssignReviewers.                                                        *)

(* If it assigns a reviewer, it writes the first notification state.       *)
Assign ==
  /\ pc = "assign"
  /\ mr.state = "opened" /\ ~ mr.draft
  /\ notified' = IF notified = "none" THEN "on_review" ELSE notified
  /\ pc' = "notify"
  /\ UNCHANGED <<gitlab, mr, comments, actions, pass, round, calm, told, torn>>

NothingToAssign ==
  /\ pc = "assign"
  /\ pc' = "notify"
  /\ UNCHANGED <<gitlab, mr, comments, actions, pass, notifier, calm, torn>>

-----------------------------------------------------------------------------
(* ProcessStateChangeNotifications.                                        *)

Recent == {a \in actions : ~ a.notified /\ a.age = 0}

(* There are none, or the query fails.                                     *)
NothingRecent ==
  /\ pc = "notify"
  /\ Recent = {} \/ Faulty
  /\ pc' = "cleanup"
  /\ UNCHANGED <<gitlab, mr, comments, actions, pass, notifier, calm, torn>>

(* What GetStateInfo answers: a count of discussions that fails is 0.      *)
Readings ==
  {DerivedState}
    \union {s \in {"on_review"} : Faulty /\ DerivedState = "on_fixes"}

(* The actions are taken, and no message is sent.                          *)
Skip(dropped) ==
  /\ batch' = Recent
  /\ blind' = dropped
  /\ pc' = "mark"
  /\ UNCHANGED <<gitlab, mr, comments, actions, pass, notified, current, calm,
                 told, torn>>

(* Nobody is told when the MR is no longer open or its state is the one    *)
(* they know.                                                              *)
NothingNew ==
  /\ pc = "notify"
  /\ Recent # {}
  /\ \E s \in Readings : /\ mr.state # "opened" \/ s = notified
                         /\ Skip(mr.state = "opened" /\ s # DerivedState)

(* Nor when the state they know cannot be read.                            *)
StateUnread ==
  /\ pc = "notify"
  /\ Faulty
  /\ Recent # {}
  /\ mr.state = "opened"
  /\ Skip(TRUE)

(* Fault: the reviewers are called whenever nothing awaits the author.     *)
MessageOfState(s) ==
  CASE s = "on_fixes"  -> "fixes"
    [] s = "on_review" -> "rereview"
    [] OTHER           -> "none"

(* The author hears of fixes, the reviewers of the end of fixes, nobody of *)
(* any other change.                                                       *)
Message(s) ==
  CASE s = "on_fixes"                           -> "fixes"
    [] s = "on_review" /\ notified = "on_fixes" -> "rereview"
    [] OTHER                                    -> "none"

Send(m) ==
  /\ asked' = (m = "fixes" \/ (asked /\ m # "rereview"))
  /\ unsaved' = (unsaved \/ m # "none")
  /\ stray' = (stray \/ (m = "rereview" /\ ~ asked /\ ~ unsaved))

(* Fault: the state of an MR that is no longer open is told as well.       *)
TellClosed ==
  /\ pc = "notify"
  /\ Recent # {}
  /\ \E s \in Readings : /\ s # notified
                         /\ Send(Message(s))
                         /\ current' = s
                         /\ blind' = (s # DerivedState)
  /\ batch' = Recent
  /\ pc' = "record"
  /\ UNCHANGED <<gitlab, mr, comments, actions, pass, notified, calm, torn>>

(* Fault: the state is recorded only when somebody was told.               *)
TellQuietly ==
  /\ pc = "notify"
  /\ Recent # {}
  /\ mr.state = "opened"
  /\ \E s \in Readings :
       /\ s # notified
       /\ Send(Message(s))
       /\ current' = s
       /\ blind' = (s # DerivedState)
       /\ pc' = IF Message(s) = "none" THEN "mark" ELSE "record"
  /\ batch' = Recent
  /\ UNCHANGED <<gitlab, mr, comments, actions, pass, notified, calm, torn>>

Tell ==
  /\ pc = "notify"
  /\ Recent # {}
  /\ mr.state = "opened"
  /\ \E s \in Readings : /\ s # notified
                         /\ Send(Message(s))
                         /\ current' = s
                         /\ blind' = (s # DerivedState)
  /\ batch' = Recent
  /\ pc' = "record"
  /\ UNCHANGED <<gitlab, mr, comments, actions, pass, notified, calm, torn>>

Record ==
  /\ pc = "record"
  /\ notified' = current
  /\ unsaved' = FALSE
  /\ current' = "none"
  /\ pc' = "mark"
  /\ UNCHANGED <<gitlab, mr, comments, actions, pass, batch, blind, calm,
                 asked, stray, torn>>

(* The error is not even looked at, and the actions are marked all the     *)
(* same.                                                                   *)
RecordFails ==
  /\ pc = "record"
  /\ Faulty
  /\ blind' = TRUE
  /\ current' = "none"
  /\ pc' = "mark"
  /\ UNCHANGED <<gitlab, mr, comments, actions, pass, notified, batch, calm,
                 told, torn>>

SameRow(a, b) == a.type = b.type /\ a.disc = b.disc /\ a.id = b.id

(* The rows are marked one by one.  The age of a marked row is of no       *)
(* interest any more.                                                      *)
Marked(a) == [a EXCEPT !.notified = TRUE, !.age = 2]

Mark ==
  /\ pc = "mark"
  /\ \E b \in batch, a \in actions :
       /\ ~ a.notified /\ SameRow(a, b)
       /\ \A c \in actions : ~ c.notified /\ SameRow(c, b) => a.age <= c.age
       /\ actions' \in {(actions \ {a}) \union {Marked(a)}}
                        \union {same \in {actions} : Faulty}
       /\ batch' = batch \ {b}
  /\ UNCHANGED <<gitlab, mr, comments, notified, pc, pass, current, blind, calm,
                 told, torn>>

EndMarks ==
  /\ pc = "mark"
  /\ batch = {}
  /\ blind' = FALSE
  /\ pc' = "cleanup"
  /\ UNCHANGED <<gitlab, mr, comments, actions, pass, notified, batch, current,
                 calm, told, torn>>

(* Fault: an action older than an hour is taken for handled.               *)
CleanupBand ==
  /\ pc = "cleanup"
  /\ actions' = {IF a.age = 1 THEN Marked(a) ELSE a : a \in actions}
  /\ pc' = "idle"
  /\ UNCHANGED <<gitlab, mr, comments, pass, notifier, calm, torn>>

(* CleanupOldUnnotifiedActions.                                            *)
Cleanup ==
  /\ pc = "cleanup"
  /\ \/ actions' = {IF a.age = 2 THEN Marked(a) ELSE a : a \in actions}
     \/ Faulty /\ UNCHANGED actions
  /\ pc' = "idle"
  /\ UNCHANGED <<gitlab, mr, comments, pass, notifier, calm, torn>>

-----------------------------------------------------------------------------
(* Crashes.                                                                *)

(* Between any two steps; the memory of the pass is lost.                  *)
Crash ==
  /\ Faulty
  /\ pc # "idle"
  /\ pc' = "idle"
  /\ Forget
  /\ batch' = {}
  /\ current' = "none"
  /\ blind' = FALSE
  /\ UNCHANGED <<gitlab, mr, comments, actions, notified, calm, told, torn>>

(* After the write of a comment, before that of its action.                *)
CrashInNote(d) ==
  /\ Faulty
  /\ \E n \in left :
       /\ NextNote(d, n)
       /\ Upsert(d, n)
       /\ torn' = torn \union Lost(d, n, {})
  /\ pc' = "idle"
  /\ Forget
  /\ UNCHANGED <<gitlab, mr, actions, notifier, calm>>

-----------------------------------------------------------------------------

Discussion(d) ==
  NextDiscussion(d) \/ SyncNote(d) \/ SyncNoteFails(d) \/ EndDiscussion(d)

Pass ==
  \/ Mirror \/ MirrorFails
  \/ FetchDiscussions \/ FetchDiscussionsFails
  \/ \E d \in Threads : Discussion(d)
  \/ EndDiscussions
  \/ Assign \/ NothingToAssign
  \/ NothingRecent \/ NothingNew \/ StateUnread \/ Tell
  \/ Record \/ RecordFails \/ Mark \/ EndMarks
  \/ Cleanup

Next ==
  \/ GitLabChange
  \/ Age
  \/ Settle
  \/ Crash
  \/ \E d \in Threads : CrashInNote(d)
  \/ Pass

Spec == Init /\ [][Next]_vars

(* The ticker of main.go keeps firing, its pass runs on, time goes on, and *)
(* faults end.                                                             *)
FairSpec == Spec /\ WF_vars(Pass) /\ WF_vars(Age) /\ WF_vars(Settle)
-----------------------------------------------------------------------------
(* Properties.                                                             *)

TypeOK ==
  /\ gl \in GitLabMRs
  /\ made \in [Threads -> 0 .. MaxNotes]
  /\ mr \in [state : {"opened", "ended"}, draft : BOOLEAN]
  /\ comments \subseteq Comments
  /\ actions \subseteq Actions
  /\ notified \in {"none", "on_review", "on_fixes", "draft"}
  /\ pc \in PassSteps \union Threads
  /\ snap \in Snapshots
  /\ todo \subseteq Threads
  /\ left \subseteq Notes
  /\ seen \subseteq Ids
  /\ batch \subseteq Actions
  /\ current \in {"none", "on_review", "on_fixes", "draft"}
  /\ blind \in BOOLEAN
  /\ calm \in BOOLEAN /\ asked \in BOOLEAN
  /\ unsaved \in BOOLEAN /\ stray \in BOOLEAN
  /\ changes \in Nat
  /\ torn \subseteq Threads \X Ids

(* Every comment the database holds is on the timeline, where the notifier *)
(* finds it, unless a crash hit between its row and its action or the      *)
(* write of that action, the only one ever tried, failed.                  *)
CommentsLogged ==
  \A c \in comments :
    \/ <<c.disc, c.id>> \in torn
    \/ \E a \in actions : /\ a.type = "comment_added"
                          /\ a.disc = c.disc /\ a.id = c.id

(* The notifier marks an action of an open MR, and takes it for handled,   *)
(* only once the state recorded as told is the one the comments imply, or  *)
(* after it dropped an error in the very round that marks it.              *)
MarkedMeansTold ==
  [][\A a \in actions :
       /\ ~ a.notified /\ a.age < 2
       /\ \A b \in actions' : SameRow(a, b) => b.notified
       => mr.state # "opened" \/ notified = DerivedState \/ blind]_vars

(* Reviewers are called back only after the author was asked for fixes,    *)
(* and once for that, or again after a crash or an error that lost the     *)
(* record of it.                                                           *)
RereviewAfterFixes == ~ stray

(* The discussion still exists in GitLab, with all the notes stored of it. *)
NothingDeleted ==
  \A c \in comments : [id |-> c.id, by |-> c.by] \in gl.notes[c.disc]

AwaitingInGitLab(d) ==
  /\ ~ gl.resolved[d]
  /\ \E n \in LastNote(gl.notes[d]) : n.by # "author"

TrueState ==
  CASE gl.state # "opened"              -> gl.state
    [] gl.state = "opened" /\ gl.draft  -> "draft"
    [] OTHER -> IF \E d \in Threads : AwaitingInGitLab(d)
                  THEN "on_fixes" ELSE "on_review"

(* After any crashes, failures and half-synced discussions, the state that *)
(* the database implies becomes and stays that of GitLab, as long as no    *)
(* stored note was deleted there.                                          *)
StateConverges == <>[](NothingDeleted => DerivedState = TrueState)

(* No action stays unhandled for ever.                                     *)
AllHandled == <>[](\A a \in actions : a.notified)
==============================================================================

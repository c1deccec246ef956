-------------------------- MODULE ReviewCycleProofs ---------------------------
(***************************************************************************)
(* Theorems about ReviewCycle, for any discussions and bounds.             *)
(***************************************************************************)
EXTENDS ReviewCycle, TLAPS

(* What DeriveState can answer.                                            *)
LEMMA DerivedLemma ==
  ASSUME TypeOK
  PROVE  /\ DerivedState \in {"ended", "draft", "on_fixes", "on_review"}
         /\ mr.state = "opened" => DerivedState # "ended"
<1>1. mr.state \in {"opened", "ended"} /\ mr.draft \in BOOLEAN
  BY DEF TypeOK
<1>2. CASE mr.state # "opened"
  BY <1>1, <1>2 DEF DerivedState
<1>3. CASE mr.state = "opened" /\ mr.draft
  BY <1>3 DEF DerivedState
<1>4. CASE mr.state = "opened" /\ ~ mr.draft
  BY <1>4 DEF DerivedState
<1> QED
  BY <1>1, <1>2, <1>3, <1>4

(* Whom the notifier addresses.                                            *)
LEMMA MessageLemma ==
  ASSUME NEW s
  PROVE  /\ s = "on_fixes" => Message(s) = "fixes"
         /\ Message(s) = "rereview" => s = "on_review" /\ notified = "on_fixes"
<1>1. CASE s = "on_fixes"
  BY <1>1 DEF Message
<1>2. CASE s = "on_review" /\ notified = "on_fixes"
  BY <1>2 DEF Message
<1>3. CASE s # "on_fixes" /\ ~ (s = "on_review" /\ notified = "on_fixes")
  BY <1>3 DEF Message
<1> QED
  BY <1>1, <1>2, <1>3

-----------------------------------------------------------------------------
(* Type correctness.                                                       *)

(* The initial state is well typed.                                        *)
LEMMA InitTypeOK == Init => TypeOK
<1> SUFFICES ASSUME Init PROVE TypeOK
  OBVIOUS
<1>1. NoNotes \in [Threads -> SUBSET Notes]
      /\ Begun \in [Threads -> SUBSET Notes]
  BY CycleAssumption DEF NoNotes, Begun, Notes, Ids, People
<1>2. snap \in Snapshots
  BY <1>1 DEF NoSnapshot, Snapshots, Init
<1>a. PICK notes \in {NoNotes, Begun} :
        /\ gl = [state |-> "opened", draft |-> FALSE, notes |-> notes,
                 resolved |-> [d \in Threads |-> FALSE]]
        /\ made = [d \in Threads |-> IF notes[d] = {} THEN 0 ELSE 1]
  BY DEF Init
<1>3. gl \in GitLabMRs
  BY <1>1, <1>a DEF GitLabMRs
<1>4. made \in [Threads -> 0 .. MaxNotes]
  BY CycleAssumption, <1>a
<1>5. comments \subseteq Comments /\ actions \subseteq Actions
      /\ batch \subseteq Actions /\ todo \subseteq Threads
      /\ left \subseteq Notes /\ seen \subseteq Ids
      /\ torn \subseteq Threads \X Ids
  BY DEF Init
<1>6. /\ mr \in [state : {"opened", "ended"}, draft : BOOLEAN]
      /\ notified \in {"none", "on_review", "on_fixes", "draft"}
      /\ pc \in PassSteps \union Threads
      /\ current \in {"none", "on_review", "on_fixes", "draft"}
      /\ blind \in BOOLEAN
      /\ calm \in BOOLEAN /\ asked \in BOOLEAN
      /\ unsaved \in BOOLEAN /\ stray \in BOOLEAN
      /\ changes \in Nat
  BY DEF Init, PassSteps
<1> QED
  BY <1>2, <1>3, <1>4, <1>5, <1>6 DEF TypeOK

(* A change in GitLab leaves it well typed.                                *)
LEMMA GitLabType == TypeOK /\ GitLabChange => TypeOK'
<1> SUFFICES ASSUME TypeOK, GitLabChange PROVE TypeOK'
  OBVIOUS
<1> DEFINE GitLabOK == gl \in GitLabMRs /\ made \in [Threads -> 0 .. MaxNotes]
<1>1. GitLabOK
  BY DEF TypeOK
<1>2. GitLabOK'
  <2>1. ASSUME NEW d \in Threads, NEW who \in People, AddNote(d, who)
        PROVE  GitLabOK'
    <3>1. made[d] \in 0 .. MaxNotes /\ made[d] + 1 \in Ids
      BY <1>1, <2>1, CycleAssumption DEF AddNote, Ids
    <3>2. [id |-> made[d] + 1, by |-> who] \in Notes
      BY <3>1 DEF Notes
    <3>3. made' \in [Threads -> 0 .. MaxNotes]
      BY <1>1, <2>1, <3>1 DEF AddNote, Ids
    <3> QED
      BY <1>1, <2>1, <3>2, <3>3 DEF AddNote, GitLabMRs
  <2>2. ASSUME NEW d \in Threads, NEW n \in gl.notes[d], DeleteNote(d, n)
        PROVE  GitLabOK'
    BY <1>1, <2>2 DEF DeleteNote, GitLabMRs
  <2>3. ASSUME NEW d \in Threads, ToggleResolved(d) PROVE GitLabOK'
    BY <1>1, <2>3 DEF ToggleResolved, GitLabMRs
  <2>4. CASE ToggleDraft
    BY <1>1, <2>4 DEF ToggleDraft, GitLabMRs
  <2>5. CASE Finish
    BY <1>1, <2>5 DEF Finish, GitLabMRs
  <2> QED
    BY <2>1, <2>2, <2>3, <2>4, <2>5 DEF GitLabChange
<1>3. changes' \in Nat
  BY DEF GitLabChange, TypeOK
<1> QED
  BY <1>2, <1>3 DEF TypeOK, GitLabChange, pass, notifier, round, told

(* A fresh row, a row of the snapshot and a marked row are well typed.     *)
LEMMA RowTypes ==
  ASSUME TypeOK
  PROVE  /\ \A d \in Threads, n \in Notes, starter \in BOOLEAN :
              Row(d, n, starter) \in Comments
         /\ \A d \in Threads, n \in Notes : \A T \in Recordings(d, n) :
              T \subseteq Actions
         /\ \A a \in Actions : Marked(a) \in Actions
         /\ Recent \subseteq Actions
<1>1. ASSUME NEW d \in Threads, NEW n \in Notes, NEW starter \in BOOLEAN
      PROVE  Row(d, n, starter) \in Comments
  <2> DEFINE last == starter /\ n \in LastNote(snap.notes[d])
  <2>1. last \in BOOLEAN
    OBVIOUS
  <2>2. snap.resolved[d] \in BOOLEAN
    BY DEF TypeOK, Snapshots
  <2> HIDE DEF last
  <2>3. [disc |-> d, id |-> n.id, by |-> n.by, resolved |-> snap.resolved[d],
         last |-> last] \in Comments
    BY <2>1, <2>2 DEF Comments, Notes
  <2> QED
    BY <2>3 DEF last, Row
<1>2. ASSUME NEW d \in Threads, NEW n \in Notes, NEW T \in Recordings(d, n)
      PROVE  T \subseteq Actions
  <2>1. ASSUME NEW type \in {"comment_added", "comment_resolved"},
               NEW age \in 0 .. 2
        PROVE  Unnotified(type, d, n.id, age) \in Actions
    BY DEF Unnotified, Actions, Notes
  <2>2. NoteActions(d, n) \subseteq {"comment_added", "comment_resolved"}
    BY DEF NoteActions
  <2>3. T = {} \/ \E age \in 0 .. 2 :
          T = {Unnotified(type, d, n.id, age) : type \in NoteActions(d, n)}
    BY DEF Recordings
  <2> QED
    BY <2>1, <2>2, <2>3
<1>3. ASSUME NEW a \in Actions PROVE Marked(a) \in Actions
  <2> DEFINE b == [a EXCEPT !.notified = TRUE]
  <2>1. b \in Actions
    BY DEF Actions
  <2>2. [b EXCEPT !.age = 2] \in Actions
    <3> HIDE DEF b
    <3> QED
      BY <2>1 DEF Actions
  <2> QED
    BY <2>2 DEF Marked
<1>4. Recent \subseteq Actions
  BY DEF Recent, TypeOK
<1> QED
  BY <1>1, <1>2, <1>3, <1>4

(* The steps of the poller keep the types of what they write.              *)
LEMMA PollerType ==
  ASSUME TypeOK, Mirror \/ MirrorFails \/ FetchDiscussions
                 \/ FetchDiscussionsFails \/ EndDiscussions
  PROVE  TypeOK'
<1>1. CASE Mirror
  <2>1. mr' \in [state : {"opened", "ended"}, draft : BOOLEAN]
        /\ pc' \in PassSteps
    BY <1>1 DEF Mirror, TypeOK, GitLabMRs, PassSteps
  <2> QED
    BY <1>1, <2>1 DEF Mirror, TypeOK, gitlab, pass, notifier, round, told
<1>2. CASE MirrorFails
  BY <1>2 DEF MirrorFails, TypeOK, PassSteps, gitlab, pass, notifier, round, told
<1>3. CASE FetchDiscussions
  <2>1. snap' \in Snapshots /\ todo' \subseteq Threads /\ left' \subseteq Notes
        /\ seen' \subseteq Ids /\ pc' \in PassSteps
    BY <1>3 DEF FetchDiscussions, TypeOK, GitLabMRs, Snapshots, PassSteps
  <2> QED
    BY <1>3, <2>1 DEF FetchDiscussions, TypeOK, gitlab, notifier, round, told
<1>4. CASE FetchDiscussionsFails
  BY <1>4 DEF FetchDiscussionsFails, TypeOK, PassSteps, gitlab, pass,
              notifier, round, told
<1>5. CASE EndDiscussions
  <2>1. NoSnapshot \in Snapshots
    BY DEF NoSnapshot, NoNotes, Snapshots
  <2> QED
    BY <1>5, <2>1 DEF EndDiscussions, Forget, TypeOK, PassSteps, gitlab,
                      notifier, round, told
<1> QED
  BY <1>1, <1>2, <1>3, <1>4, <1>5

(* So do the steps that work through one discussion.                       *)
LEMMA DiscussionType ==
  ASSUME TypeOK, NEW d \in Threads, Discussion(d) \/ CrashInNote(d)
  PROVE  TypeOK'
<1>1. CASE NextDiscussion(d)
  <2>1. left' \subseteq Notes
    BY <1>1 DEF NextDiscussion, TypeOK, Snapshots
  <2> QED
    BY <1>1, <2>1 DEF NextDiscussion, TypeOK, gitlab, notifier, round, told
<1>2. ASSUME NEW n \in left, Upsert(d, n)
      PROVE  comments' \subseteq Comments
  <2>1. Faulty \in BOOLEAN
    BY CycleAssumption DEF Faulty, TypeOK
  <2>2. PICK starter \in {TRUE, ~ Faulty} :
          comments' = (comments \ Stored(d, n)) \union {Row(d, n, starter)}
    BY <1>2 DEF Upsert
  <2>3. starter \in BOOLEAN /\ n \in Notes
    BY <2>1 DEF TypeOK
  <2>4. Row(d, n, starter) \in Comments
    BY <2>3, RowTypes
  <2> QED
    BY <2>2, <2>4 DEF TypeOK
<1>3. CASE SyncNote(d)
  <2>1. PICK n \in left : /\ Upsert(d, n)
                          /\ \E T \in Recordings(d, n) :
                               /\ actions' = actions \union T
                               /\ torn' = torn \union Lost(d, n, T)
                          /\ left' = left \ {n}
                          /\ seen' = seen \union {n.id}
    BY <1>3 DEF SyncNote
  <2>2. n \in Notes /\ n.id \in Ids
    BY DEF TypeOK, Notes
  <2>3. actions' \subseteq Actions
    BY <2>1, <2>2, RowTypes DEF TypeOK
  <2>4. torn' \subseteq Threads \X Ids
    <3>1. \A T : Lost(d, n, T) \subseteq Threads \X Ids
      BY <2>2 DEF Lost
    <3> QED
      BY <2>1, <3>1 DEF TypeOK
  <2> QED
    BY <1>2, <1>3, <2>1, <2>2, <2>3, <2>4
    DEF SyncNote, TypeOK, gitlab, notifier, round, told
<1>4. CASE SyncNoteFails(d)
  BY <1>4 DEF SyncNoteFails, TypeOK, gitlab, notifier, round, told
<1>5. CASE EndDiscussion(d)
  <2>1. ASSUME NEW c \in Comments
        PROVE  [c EXCEPT !.last = FALSE] \in Comments
    BY DEF Comments
  <2>2. comments' \subseteq Comments
    BY <1>5, <2>1 DEF EndDiscussion, TypeOK
  <2> QED
    BY <1>5, <2>2 DEF EndDiscussion, TypeOK, PassSteps, gitlab, notifier, round, told
<1>6. CASE CrashInNote(d)
  <2>1. PICK n \in left : /\ Upsert(d, n)
                          /\ torn' = torn \union Lost(d, n, {})
    BY <1>6 DEF CrashInNote
  <2>2. n.id \in Ids
    BY DEF TypeOK, Notes
  <2>3. torn' \subseteq Threads \X Ids
    <3>1. Lost(d, n, {}) \subseteq Threads \X Ids
      BY <2>2 DEF Lost
    <3> QED
      BY <2>1, <3>1 DEF TypeOK
  <2>4. NoSnapshot \in Snapshots
    BY DEF NoSnapshot, NoNotes, Snapshots
  <2> QED
    BY <1>2, <1>6, <2>1, <2>3, <2>4
    DEF CrashInNote, Forget, TypeOK, PassSteps, gitlab, notifier, round, told
<1> QED
  BY <1>1, <1>3, <1>4, <1>5, <1>6 DEF Discussion

(* A message leaves the history of messages well typed.                    *)
LEMMA SendType ==
  ASSUME TypeOK, NEW m, Send(m)
  PROVE  asked' \in BOOLEAN /\ unsaved' \in BOOLEAN /\ stray' \in BOOLEAN
BY DEF Send, TypeOK

(* The notifier's memory stays well typed.                                 *)
LEMMA NotifierType ==
  ASSUME TypeOK, Assign \/ NothingToAssign \/ NothingRecent \/ NothingNew
                 \/ StateUnread \/ Tell \/ EndMarks
  PROVE  TypeOK'
<1>1. CASE Assign
  BY <1>1 DEF Assign, TypeOK, PassSteps, gitlab, pass, round, told
<1>2. CASE NothingToAssign
  BY <1>2 DEF NothingToAssign, TypeOK, PassSteps, gitlab, pass, notifier, round, told
<1>3. CASE NothingRecent
  BY <1>3 DEF NothingRecent, TypeOK, PassSteps, gitlab, pass, notifier, round, told
<1>4. ASSUME NEW dropped \in BOOLEAN, Skip(dropped) PROVE TypeOK'
  BY <1>4, RowTypes DEF Skip, TypeOK, PassSteps, gitlab, pass, told
<1>5. CASE NothingNew \/ StateUnread
  <2>1. PICK dropped \in BOOLEAN : Skip(dropped)
    BY <1>5 DEF NothingNew, StateUnread
  <2> QED
    BY <1>4, <2>1
<1>6. CASE Tell
  <2>1. PICK s \in Readings : /\ Send(Message(s))
                              /\ current' = s
                              /\ blind' = (s # DerivedState)
    BY <1>6 DEF Tell
  <2>2. s \in {"draft", "on_fixes", "on_review"}
    BY <1>6, DerivedLemma DEF Readings, Tell
  <2>3. current' \in {"none", "on_review", "on_fixes", "draft"}
        /\ blind' \in BOOLEAN
    BY <2>1, <2>2
  <2>4. asked' \in BOOLEAN /\ unsaved' \in BOOLEAN /\ stray' \in BOOLEAN
    BY <2>1, SendType
  <2> QED
    BY <1>6, <2>3, <2>4, RowTypes DEF Tell, TypeOK, PassSteps, gitlab, pass
<1>7. CASE EndMarks
  BY <1>7 DEF EndMarks, TypeOK, PassSteps, gitlab, pass, told
<1> QED
  BY <1>1, <1>2, <1>3, <1>5, <1>6, <1>7

(* Recording, marking, silencing, ageing and crashes keep the types.       *)
LEMMA MarkingType ==
  ASSUME TypeOK,
         Record \/ RecordFails \/ Mark \/ Cleanup \/ Crash \/ Age \/ Settle
  PROVE  TypeOK'
<1>1. CASE Record
  BY <1>1 DEF Record, TypeOK, PassSteps, gitlab, pass
<1>7. CASE RecordFails
  BY <1>7 DEF RecordFails, TypeOK, PassSteps, gitlab, pass, told
<1>2. CASE Mark
  <2>1. actions' \subseteq Actions /\ batch' \subseteq Actions
    BY <1>2, RowTypes DEF Mark, TypeOK
  <2> QED
    BY <1>2, <2>1 DEF Mark, TypeOK, gitlab, pass, told
<1>3. CASE Cleanup
  <2>1. actions' \subseteq Actions
    BY <1>3, RowTypes DEF Cleanup, TypeOK
  <2> QED
    BY <1>3, <2>1 DEF Cleanup, TypeOK, PassSteps, gitlab, pass, notifier, round, told
<1>4. CASE Crash
  <2>1. NoSnapshot \in Snapshots
    BY DEF NoSnapshot, NoNotes, Snapshots
  <2> QED
    BY <1>4, <2>1 DEF Crash, Forget, TypeOK, PassSteps, gitlab, told
<1>5. CASE Age
  <2>1. ASSUME NEW a \in Actions
        PROVE  [a EXCEPT !.age = IF @ < 2 THEN @ + 1 ELSE 2] \in Actions
    <3>1. (IF a.age < 2 THEN a.age + 1 ELSE 2) \in 0 .. 2
      BY DEF Actions
    <3> QED
      BY <3>1 DEF Actions
  <2>2. actions' \subseteq Actions
    BY <1>5, <2>1 DEF Age, TypeOK
  <2> QED
    BY <1>5, <2>2 DEF Age, TypeOK, gitlab, pass, notifier, round, told
<1>6. CASE Settle
  BY <1>6 DEF Settle, TypeOK, gitlab, pass, notifier, round, told
<1> QED
  BY <1>1, <1>2, <1>3, <1>4, <1>5, <1>6, <1>7

-----------------------------------------------------------------------------
(* The strengthened invariant.  A message is sent and recorded in two      *)
(* steps: what was sent (asked, unsaved) runs ahead of what is recorded    *)
(* (notified), never behind it, and rows are marked after the record.      *)
AskedFirst ==
  /\ notified = "on_fixes" => asked \/ unsaved
  /\ pc = "record" /\ current = "on_fixes" => asked
  /\ RereviewAfterFixes

RecordedFirst ==
  /\ pc = "record" => current = DerivedState \/ blind
  /\ pc = "mark" => mr.state # "opened" \/ notified = DerivedState \/ blind

CycleInv == TypeOK /\ AskedFirst /\ RecordedFirst /\ CommentsLogged

(* The derived state depends on the database's copy only.                  *)
LEMMA DerivedKept ==
  UNCHANGED <<mr, comments>> => DerivedState' = DerivedState
BY DEF DerivedState, Awaiting

(* The initial state satisfies the inductive invariant.                    *)
LEMMA InitCycle == Init => CycleInv
<1> SUFFICES ASSUME Init PROVE CycleInv
  OBVIOUS
<1>1. RecordedFirst /\ CommentsLogged
  BY DEF Init, RecordedFirst, CommentsLogged
<1>2. AskedFirst
  BY DEF Init, AskedFirst, RereviewAfterFixes
<1> QED
  BY <1>1, <1>2, InitTypeOK DEF CycleInv

(* Every step keeps the types.                                             *)
LEMMA TypeStep == TypeOK /\ [Next]_vars => TypeOK'
<1> SUFFICES ASSUME TypeOK, [Next]_vars PROVE TypeOK'
  OBVIOUS
<1>1. CASE UNCHANGED vars
  BY <1>1 DEF vars, TypeOK
<1>2. CASE GitLabChange
  BY <1>2, GitLabType
<1>3. CASE Age \/ Settle \/ Crash \/ Record \/ RecordFails \/ Mark \/ Cleanup
  BY <1>3, MarkingType
<1>4. ASSUME NEW d \in Threads, Discussion(d) \/ CrashInNote(d)
      PROVE  TypeOK'
  BY <1>4, DiscussionType
<1>5. CASE Mirror \/ MirrorFails \/ FetchDiscussions \/ FetchDiscussionsFails
           \/ EndDiscussions
  BY <1>5, PollerType
<1>6. CASE Assign \/ NothingToAssign \/ NothingRecent \/ NothingNew
           \/ StateUnread \/ Tell \/ EndMarks
  BY <1>6, NotifierType
<1> QED
  BY <1>1, <1>2, <1>3, <1>4, <1>5, <1>6 DEF Next, Pass

(* Steps that leave the notifier's memory alone and end outside of its     *)
(* critical steps keep its part of the invariant.                          *)
LEMMA Elsewhere ==
  ASSUME AskedFirst, UNCHANGED <<notified, asked, unsaved, stray>>,
         pc' \notin {"record", "mark"}
  PROVE  AskedFirst' /\ RecordedFirst'
BY DEF AskedFirst, RecordedFirst, RereviewAfterFixes

(* So do steps that leave all alone but GitLab, the clock and the marks.   *)
LEMMA Meanwhile ==
  ASSUME AskedFirst, RecordedFirst,
         UNCHANGED <<pc, mr, comments, notified, current, blind, asked, unsaved,
                     stray>>
  PROVE  AskedFirst' /\ RecordedFirst'
BY DerivedKept DEF AskedFirst, RecordedFirst, RereviewAfterFixes

(* Rows taken without a message: nothing is known about the state, or what *)
(* is known is what the comments imply, or an error is dropped.            *)
LEMMA SkipStep ==
  ASSUME AskedFirst, NEW dropped, Skip(dropped), UNCHANGED <<mr, comments>>,
         mr.state # "opened" \/ notified = DerivedState \/ dropped
  PROVE  AskedFirst' /\ RecordedFirst'
<1>1. DerivedState' = DerivedState
  BY DerivedKept
<1> QED
  BY <1>1 DEF Skip, told, AskedFirst, RecordedFirst, RereviewAfterFixes

(* Every step keeps the order of telling, recording and marking.           *)
LEMMA NotifierStep ==
  AskedFirst /\ RecordedFirst /\ [Next]_vars => AskedFirst' /\ RecordedFirst'
<1> SUFFICES ASSUME AskedFirst, RecordedFirst, [Next]_vars
             PROVE  AskedFirst' /\ RecordedFirst'
  OBVIOUS
<1>1. CASE UNCHANGED vars
  BY <1>1, Meanwhile DEF vars
<1>2. CASE GitLabChange \/ Age \/ Settle \/ Mark
  BY <1>2, Meanwhile DEF GitLabChange, Age, Settle, Mark, notifier, round, told
<1>3. CASE Mirror \/ MirrorFails \/ FetchDiscussions \/ FetchDiscussionsFails
           \/ EndDiscussions \/ Crash \/ NothingToAssign \/ NothingRecent
           \/ EndMarks \/ Cleanup
  <2>1. UNCHANGED <<notified, asked, unsaved, stray>>
        /\ pc' \notin {"record", "mark"}
    BY <1>3 DEF Mirror, MirrorFails, FetchDiscussions, FetchDiscussionsFails,
                EndDiscussions, Crash, NothingToAssign, NothingRecent,
                EndMarks, Cleanup, notifier, told
  <2> QED
    BY <2>1, Elsewhere
<1>4. ASSUME NEW d \in Threads, Discussion(d) \/ CrashInNote(d)
      PROVE  AskedFirst' /\ RecordedFirst'
  <2>1. UNCHANGED <<notified, asked, unsaved, stray>>
    BY <1>4 DEF Discussion, NextDiscussion, SyncNote, SyncNoteFails,
                EndDiscussion, CrashInNote, notifier, told
  <2>2. pc' \in {d, "next", "idle"}
    BY <1>4 DEF Discussion, NextDiscussion, SyncNote, SyncNoteFails,
                EndDiscussion, CrashInNote, NextNote
  <2>3. pc' \notin {"record", "mark"}
    BY <2>2, CycleAssumption DEF PassSteps
  <2> QED
    BY <2>1, <2>3, Elsewhere
<1>5. CASE Assign
  <2>1. /\ pc' = "notify" /\ notified' \in {notified, "on_review"}
        /\ UNCHANGED <<asked, unsaved, stray>>
    BY <1>5 DEF Assign, told
  <2> QED
    BY <2>1 DEF AskedFirst, RecordedFirst, RereviewAfterFixes
<1>6. CASE NothingNew
  <2>1. PICK s \in Readings : /\ mr.state # "opened" \/ s = notified
                              /\ Skip(mr.state = "opened" /\ s # DerivedState)
    BY <1>6 DEF NothingNew
  <2>2. UNCHANGED <<mr, comments>>
    BY <2>1 DEF Skip
  <2> QED
    BY <2>1, <2>2, SkipStep
<1>7. CASE StateUnread
  <2>1. Skip(TRUE) /\ UNCHANGED <<mr, comments>>
    BY <1>7 DEF StateUnread, Skip
  <2> QED
    BY <2>1, SkipStep
<1>8. CASE Tell
  <2>1. PICK s \in Readings : /\ Send(Message(s))
                              /\ current' = s
                              /\ blind' = (s # DerivedState)
    BY <1>8 DEF Tell
  <2>2. DerivedState' = DerivedState /\ pc' = "record" /\ notified' = notified
    BY <1>8, DerivedKept DEF Tell
  <2>3. RecordedFirst'
    BY <2>1, <2>2 DEF RecordedFirst
  <2>4. s = "on_fixes" => asked'
    BY <2>1, MessageLemma DEF Send
  <2>5. notified = "on_fixes" => asked' \/ unsaved'
    BY <2>1 DEF Send, AskedFirst
  <2>6. ~ stray'
    BY <2>1, MessageLemma DEF Send, AskedFirst, RereviewAfterFixes
  <2> QED
    BY <2>1, <2>2, <2>3, <2>4, <2>5, <2>6 DEF AskedFirst, RereviewAfterFixes
<1>9. CASE Record \/ RecordFails
  <2>1. DerivedState' = DerivedState
    BY <1>9, DerivedKept DEF Record, RecordFails
  <2> QED
    BY <1>9, <2>1
    DEF Record, RecordFails, told, AskedFirst, RecordedFirst, RereviewAfterFixes
<1> QED
  BY <1>1, <1>2, <1>3, <1>4, <1>5, <1>6, <1>7, <1>8, <1>9 DEF Next, Pass

-----------------------------------------------------------------------------
(* The timeline never loses an action: rows are aged and marked in place.  *)
LEMMA ActionsKept ==
  TypeOK /\ [Next]_vars =>
    \A a \in actions : \E b \in actions' : SameRow(a, b)
<1> SUFFICES ASSUME TypeOK, [Next]_vars, NEW a \in actions
             PROVE  \E b \in actions' : SameRow(a, b)
  OBVIOUS
<1> USE DEF SameRow
<1>1. CASE Age
  <2>1. [a EXCEPT !.age = IF @ < 2 THEN @ + 1 ELSE 2] \in actions'
    BY <1>1 DEF Age
  <2> QED
    BY <2>1 DEF TypeOK, Actions
<1>2. \A b \in Actions : SameRow(b, Marked(b))
  BY DEF Marked, Actions
<1>3. CASE Mark
  BY <1>2, <1>3 DEF Mark, TypeOK
<1>4. CASE Cleanup
  BY <1>2, <1>4 DEF Cleanup, TypeOK
<1>5. CASE actions \subseteq actions'
  BY <1>5
<1>6. CASE UNCHANGED vars
  BY <1>6 DEF vars
<1>7. ASSUME NEW d \in Threads, Discussion(d) \/ CrashInNote(d)
      PROVE  actions \subseteq actions'
  BY <1>7 DEF Discussion, NextDiscussion, SyncNote, SyncNoteFails,
              EndDiscussion, CrashInNote
<1>8. CASE GitLabChange \/ Settle \/ Crash \/ Mirror \/ MirrorFails
           \/ FetchDiscussions \/ FetchDiscussionsFails \/ EndDiscussions
           \/ Assign \/ NothingToAssign \/ NothingRecent \/ NothingNew
           \/ StateUnread \/ Tell \/ Record \/ RecordFails \/ EndMarks
  BY <1>8 DEF GitLabChange, Settle, Crash, Mirror, MirrorFails,
              FetchDiscussions, FetchDiscussionsFails, EndDiscussions, Assign,
              NothingToAssign, NothingRecent, NothingNew, StateUnread, Skip,
              Tell, Record, RecordFails, EndMarks
<1> QED
  BY <1>1, <1>3, <1>4, <1>5, <1>6, <1>7, <1>8 DEF Next, Pass

Logged(d, i) ==
  \/ <<d, i>> \in torn
  \/ \E a \in actions : a.type = "comment_added" /\ a.disc = d /\ a.id = i

(* No step loses a comment's action, or forgets that it was swallowed.     *)
LEMMA LoggedKept ==
  TypeOK /\ [Next]_vars => \A d, i : Logged(d, i) => Logged(d, i)'
<1> SUFFICES ASSUME TypeOK, [Next]_vars, NEW d, NEW i, Logged(d, i)
             PROVE  Logged(d, i)'
  OBVIOUS
<1>1. torn \subseteq torn'
  <2>1. ASSUME NEW e \in Threads, CrashInNote(e) PROVE torn \subseteq torn'
    BY <2>1 DEF CrashInNote
  <2>2. ASSUME NEW e \in Threads, Discussion(e) PROVE torn \subseteq torn'
    BY <2>2 DEF Discussion, NextDiscussion, SyncNote, SyncNoteFails,
                EndDiscussion
  <2>3. CASE Pass
    BY <2>2, <2>3
    DEF Pass, Mirror, MirrorFails, FetchDiscussions, FetchDiscussionsFails,
        EndDiscussions, Assign, NothingToAssign, NothingRecent, NothingNew,
        StateUnread, Skip, Tell, Record, RecordFails, Mark, EndMarks, Cleanup
  <2> QED
    BY <2>1, <2>3 DEF Next, GitLabChange, Age, Settle, Crash, vars
<1>2. CASE <<d, i>> \in torn
  BY <1>1, <1>2 DEF Logged
<1>3. CASE \E a \in actions :
             a.type = "comment_added" /\ a.disc = d /\ a.id = i
  BY <1>3, ActionsKept DEF SameRow, Logged
<1> QED
  BY <1>2, <1>3 DEF Logged

(* A comment enters with its action, or with a crash or an error that      *)
(* swallows it.                                                            *)
LEMMA LogStep == TypeOK /\ CommentsLogged /\ [Next]_vars => CommentsLogged'
<1> SUFFICES ASSUME TypeOK, CommentsLogged, [Next]_vars, NEW c \in comments'
             PROVE  Logged(c.disc, c.id)'
  BY DEF CommentsLogged, Logged
<1>1. \A e \in comments : Logged(e.disc, e.id)
  BY DEF CommentsLogged, Logged
<1>2. CASE \E e \in comments : c.disc = e.disc /\ c.id = e.id
  BY <1>1, <1>2, LoggedKept
<1>3. ASSUME NEW d \in Threads, NEW n \in left, Upsert(d, n),
             Stored(d, n) # {} \/ Logged(d, n.id)'
      PROVE  Logged(c.disc, c.id)'
  <2>1. CASE c \in comments
    BY <2>1, <1>2
  <2>2. ASSUME NEW starter, c = Row(d, n, starter)
        PROVE  Logged(c.disc, c.id)'
    <3>1. c.disc = d /\ c.id = n.id
      BY <2>2 DEF Row
    <3> QED
      BY <3>1, <1>2, <1>3 DEF Stored
  <2> QED
    BY <1>3, <2>1, <2>2 DEF Upsert
<1>4. ASSUME NEW d \in Threads, SyncNote(d)
      PROVE  Logged(c.disc, c.id)'
  <2>a. PICK n \in left : /\ Upsert(d, n)
                          /\ \E T \in Recordings(d, n) :
                               /\ actions' = actions \union T
                               /\ torn' = torn \union Lost(d, n, T)
    BY <1>4 DEF SyncNote
  <2>1. PICK T \in Recordings(d, n) : /\ actions' = actions \union T
                                      /\ torn' = torn \union Lost(d, n, T)
    BY <2>a
  <2>2. ASSUME Stored(d, n) = {}, T = {} PROVE Logged(d, n.id)'
    BY <2>1, <2>2 DEF Lost, NoteActions, Logged
  <2>3. ASSUME Stored(d, n) = {}, T # {} PROVE Logged(d, n.id)'
    <3>1. NoteActions(d, n) = {"comment_added"}
      BY <2>3 DEF NoteActions
    <3>2. PICK age \in 0 .. 2 : T = {Unnotified("comment_added", d, n.id, age)}
      BY <2>3, <3>1 DEF Recordings
    <3>3. Unnotified("comment_added", d, n.id, age) \in actions'
      BY <2>1, <3>2
    <3> QED
      BY <3>3 DEF Logged, Unnotified
  <2> QED
    BY <2>a, <2>2, <2>3, <1>3
<1>5. ASSUME NEW d \in Threads, CrashInNote(d)
      PROVE  Logged(c.disc, c.id)'
  <2>1. PICK n \in left : /\ Upsert(d, n)
                          /\ torn' = torn \union Lost(d, n, {})
    BY <1>5 DEF CrashInNote
  <2>2. Stored(d, n) = {} => Logged(d, n.id)'
    BY <2>1 DEF Lost, NoteActions, Logged
  <2> QED
    BY <2>1, <2>2, <1>3
<1>6. ASSUME NEW d \in Threads, EndDiscussion(d)
      PROVE  Logged(c.disc, c.id)'
  <2> DEFINE Unflag(e) == IF e.disc = d /\ seen # {} /\ e.id \notin seen
                            THEN [e EXCEPT !.last = FALSE] ELSE e
  <2>a. comments' = {Unflag(e) : e \in comments} \/ comments' = comments
    BY <1>6 DEF EndDiscussion
  <2>1. PICK e \in comments : c = Unflag(e) \/ c = e
    BY <2>a
  <2>2. c.disc = e.disc /\ c.id = e.id
    BY <2>1 DEF TypeOK, Comments
  <2> QED
    BY <2>2, <1>2
<1>7. ASSUME comments' = comments PROVE Logged(c.disc, c.id)'
  BY <1>7, <1>2
<1>8. ASSUME NEW d \in Threads, NextDiscussion(d) \/ SyncNoteFails(d)
      PROVE  comments' = comments
  BY <1>8 DEF NextDiscussion, SyncNoteFails
<1>9. CASE GitLabChange \/ Age \/ Settle \/ Crash \/ Mirror \/ MirrorFails
           \/ FetchDiscussions \/ FetchDiscussionsFails \/ EndDiscussions
           \/ Assign \/ NothingToAssign \/ NothingRecent \/ NothingNew
           \/ StateUnread \/ Tell \/ Record \/ RecordFails \/ Mark \/ EndMarks \/ Cleanup
           \/ UNCHANGED vars
  <2>1. comments' = comments
    BY <1>9 DEF GitLabChange, Age, Settle, Crash, Mirror, MirrorFails,
                FetchDiscussions, FetchDiscussionsFails, EndDiscussions,
                Assign, NothingToAssign, NothingRecent, NothingNew,
                StateUnread, Skip, Tell, Record, RecordFails, Mark, EndMarks,
                Cleanup, vars
  <2> QED
    BY <2>1, <1>7
<1> QED
  BY <1>4, <1>5, <1>6, <1>7, <1>8, <1>9 DEF Next, Pass, Discussion

-----------------------------------------------------------------------------
(* Theorems.                                                               *)

(* The inductive invariant holds in every reachable state.                 *)
LEMMA Invariance == Spec => []CycleInv
<1>1. CycleInv /\ [Next]_vars => CycleInv'
  BY TypeStep, NotifierStep, LogStep DEF CycleInv
<1> QED
  BY <1>1, InitCycle, PTL DEF Spec

(* The mirror of the discussions and the notifier's memory are well typed: *)
(* the notifier never records the state of an MR that is no longer open.   *)
THEOREM TypeCorrect == Spec => []TypeOK
<1>1. CycleInv => TypeOK
  BY DEF CycleInv
<1> QED
  BY <1>1, Invariance, PTL

(* syncMRDiscussions stores no comment without an action for the notifier, *)
(* except when a crash or an error swallowed the one write of that action: *)
(* whatever is updated, deleted or marked afterwards, no action is lost    *)
(* later on.                                                               *)
THEOREM CommentsReachTimeline == Spec => []CommentsLogged
<1>1. CycleInv => CommentsLogged
  BY DEF CycleInv
<1> QED
  BY <1>1, Invariance, PTL

(* Reviewers are called back for a re-review only when the author had been *)
(* asked for fixes, however the steps of the notifier, crashes and         *)
(* assignments interleave.                                                 *)
THEOREM NoStrayRereview == Spec => []RereviewAfterFixes
<1>1. CycleInv => RereviewAfterFixes
  BY DEF CycleInv, AskedFirst
<1> QED
  BY <1>1, Invariance, PTL

(* A young row is marked only in a step that finds the recorded state up   *)
(* to date, or in a round that dropped an error.                           *)
LEMMA MarkStep ==
  CycleInv /\ [Next]_vars =>
    \A a \in actions :
      /\ ~ a.notified /\ a.age < 2
      /\ \A b \in actions' : SameRow(a, b) => b.notified
      => mr.state # "opened" \/ notified = DerivedState \/ blind
<1> SUFFICES ASSUME CycleInv, [Next]_vars, NEW a \in actions,
                    ~ a.notified, a.age < 2,
                    \A b \in actions' : SameRow(a, b) => b.notified
             PROVE  mr.state # "opened" \/ notified = DerivedState \/ blind
  OBVIOUS
<1>1. a \notin actions'
  BY DEF SameRow
<1>2. CASE Mark
  BY <1>2 DEF Mark, CycleInv, RecordedFirst
<1>3. CASE Age
  <2>1. [a EXCEPT !.age = IF @ < 2 THEN @ + 1 ELSE 2] \in actions'
    BY <1>3 DEF Age
  <2>2. a \in Actions
    BY DEF CycleInv, TypeOK
  <2> QED
    BY <2>1, <2>2 DEF SameRow, Actions
<1>4. CASE Cleanup
  BY <1>1, <1>4 DEF Cleanup
<1>5. ~ (actions \subseteq actions')
  BY <1>1
<1>6. ASSUME NEW d \in Threads, Discussion(d) \/ CrashInNote(d)
      PROVE  actions \subseteq actions'
  BY <1>6 DEF Discussion, NextDiscussion, SyncNote, SyncNoteFails,
              EndDiscussion, CrashInNote
<1>7. CASE GitLabChange \/ Settle \/ Crash \/ Mirror \/ MirrorFails
           \/ FetchDiscussions \/ FetchDiscussionsFails \/ EndDiscussions
           \/ Assign \/ NothingToAssign \/ NothingRecent \/ NothingNew
           \/ StateUnread \/ Tell \/ Record \/ RecordFails \/ EndMarks \/ UNCHANGED vars
  BY <1>5, <1>7
  DEF GitLabChange, Settle, Crash, Mirror, MirrorFails, FetchDiscussions,
      FetchDiscussionsFails, EndDiscussions, Assign, NothingToAssign,
      NothingRecent, NothingNew, StateUnread, Skip, Tell, Record, RecordFails, EndMarks, vars
<1> QED
  BY <1>2, <1>3, <1>4, <1>5, <1>6, <1>7 DEF Next, Pass

(* The notifier takes an action of an open MR for handled only once the    *)
(* state recorded as told is the one the comments imply, unless it dropped *)
(* an error (of a count, of reading or of writing the recorded state) in   *)
(* the very round that marks the action.                                   *)
THEOREM MarkingIsSound == Spec => MarkedMeansTold
<1>1. CycleInv /\ [Next]_vars =>
        [\A a \in actions :
           /\ ~ a.notified /\ a.age < 2
           /\ \A b \in actions' : SameRow(a, b) => b.notified
           => mr.state # "opened" \/ notified = DerivedState \/ blind]_vars
  BY MarkStep
<1> QED
  BY <1>1, Invariance, PTL DEF Spec, MarkedMeansTold
==============================================================================

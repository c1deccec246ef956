------------------------------- MODULE Timeline -------------------------------
(***************************************************************************)
(* One opened merge request as the poller stores it, over days: its row,   *)
(* its labels, the notes of its discussions (MRComment) and the timeline   *)
(* (MRAction) from which the SLA code works out afterwards how long what   *)
(* has lasted.  StateTimes and CachedTimes are that code.                  *)
(*                                                                         *)
(* Each action is a poll that finds one change in GitLab, or a command     *)
(* about block labels.  What happens between two polls is taken to happen  *)
(* at the second one.  A poll that fails to store the change is none; but  *)
(* notes are stored one by one, and their rows apart, so that a discussion *)
(* may be stored as resolved in part and rows be missing.                  *)
(*                                                                         *)
(* GitLab is taken to store a reply to a resolved discussion as resolved,  *)
(* just before it is made.  History variables keep what was really the     *)
(* case.                                                                   *)
(***************************************************************************)
EXTENDS WorkingTime, ActionLog, Sequences, SequencesExt

CONSTANTS
  Author,     \* the author of the merge request
  Reviewers,  \* other users
  Discs,      \* discussions
  Labels,     \* labels
  Start,      \* when the merge request was made
  Gaps,       \* bound: how long it may be from one change to the next
  Calendars,  \* sets of holidays
  MaxChanges, \* bound: changes
  Settings,   \* do block labels change, or precede the merge request?
  Faults      \* may reads and writes of the database fail?

ASSUME TimelineAssumption ==
  /\ Author \notin Reviewers
  /\ Start \in Nat /\ Gaps \subseteq Nat \ {0, 1}
  /\ Calendars \subseteq SUBSET Int /\ IsFiniteSet(Labels)
  /\ MaxChanges \in Nat /\ Settings \in BOOLEAN /\ Faults \in BOOLEAN

VARIABLES
  now,
  draft,       \* MergeRequest.Draft
  labels,      \* its labels
  blockLabels, \* BlockLabel
  holidays,    \* Holiday
  comments,    \* MRComment: the notes, in the order of their creation, each
               \*   with the time it was resolved, or Never
  resolvedAt,  \* in GitLab: when a discussion was resolved, or Never
  actions,     \* MRAction: the rows, in the order they were written
  changes,     \* number of changes
  since,       \* history: when the merge request entered the state it has
               \*   in GitLab
  waits,       \* history: since when a user waits in a discussion for an
               \*   answer of the author
  blocked,     \* history: the instants at which it wore a block label
  lossy,       \* history: was a change of block labels not recorded?
  unlogged     \* history: was the last change of the draft flag not?

settings == <<labels, blockLabels, holidays>>

vars == <<now, settings, draft, comments, resolvedAt, actions, changes, since,
          waits, blocked, lossy, unlogged>>

Users == {Author} \union Reviewers

Never == -1

NoUser == "nobody"

Row(type, user, meta, ts) ==
  [type |-> type, user |-> user, meta |-> meta, ts |-> ts]

-----------------------------------------------------------------------------
(* The state as the rows imply it (DeriveState, for an opened MR).         *)

(* The places of the notes of a discussion.                                *)
Notes(cs, d) == {i \in DOMAIN cs : cs[i].disc = d}

(* HasThreadsAwaitingAuthor: a note that is the last of its thread, not by *)
(* the author, and a note of that discussion that is not resolved.         *)
Awaiting(cs, open) ==
  {d \in Discs :
     /\ Notes(cs, d) # {}
     /\ cs[Max(Notes(cs, d))].by # Author
     /\ d \in open}

StateOf(isDraft, cs, open) ==
  CASE isDraft -> "draft"
    [] ~ isDraft /\ Awaiting(cs, open) # {} -> "on_fixes"
    [] OTHER -> "on_review"

(* The discussions with a note that is stored as not resolved.             *)
Unresolved == {c.disc : c \in {m \in Range(comments) : m.res = Never}}

State == StateOf(draft, comments, Unresolved)

(* The same in GitLab, which resolves a discussion as a whole.             *)
OpenIn(res) == {d \in Discs : res[d] = Never}

StateIn(isDraft, cs, res) == StateOf(isDraft, cs, OpenIn(res))

(* When a note is resolved, if its discussion is: with it, or, if the note *)
(* is later, just before it is made.                                       *)
Resolution(note, res) ==
  CASE res[note.disc] = Never -> Never
    [] res[note.disc] # Never /\ note.at > res[note.disc] -> note.at - 1
    [] OTHER -> res[note.disc]

(* The notes that are not stored as GitLab has them.                       *)
Stale == {i \in DOMAIN comments :
            comments[i].res # Resolution(comments[i], resolvedAt)}

-----------------------------------------------------------------------------
IsBlocked == labels \intersect blockLabels # {}

Init ==
  /\ now = Start
  /\ draft \in BOOLEAN
  /\ labels \in IF Settings THEN {{}, Labels} ELSE {{}}
  /\ blockLabels = Labels
  /\ holidays \in Calendars
  /\ comments = <<>>
  /\ resolvedAt = [d \in Discs |-> Never]
  /\ actions = <<>>
  /\ changes = 0
  /\ since = Start
  /\ waits = [p \in Reviewers \X Discs |-> Never]
  /\ blocked = {}
  /\ lossy = (labels # {})
  /\ unlogged = FALSE

(* Time has gone by when something is found to be new.                     *)
Later ==
  /\ changes < MaxChanges
  /\ changes' = changes + 1
  /\ now' \in {now + g : g \in Gaps}
  /\ blocked' = blocked \union (IF IsBlocked THEN now .. now' - 1 ELSE {})

SameState == UNCHANGED <<draft, comments, resolvedAt, since>>

NewState ==
  since' = IF StateIn(draft', comments', resolvedAt')
                = StateIn(draft, comments, resolvedAt)
             THEN since ELSE now'

(* recordMRAction, for one row.                                            *)
Record(row) ==
  \E A \in Recorded(Range(actions), {row}, Faults) :
    actions' = actions \o SetToSeq(A)

(* detectBlockLabelChanges: additions are recorded before removals, and at *)
(* most one of each, because recordMRAction does not look at the label.    *)
PollLabels ==
  /\ Later
  /\ SameState
  /\ UNCHANGED <<blockLabels, holidays, waits, unlogged>>
  /\ labels' \in SUBSET Labels \ {labels}
  /\ LET Found(type, S) ==
           {Row(type, NoUser, l, now') : l \in S \intersect blockLabels}
         added == Found("block_label_added", labels' \ labels)
         removed == Found("block_label_removed", labels \ labels')
     IN  \E A \in Recorded(Range(actions), added, Faults),
            R \in Recorded(Range(actions), removed, Faults) :
           /\ actions' = actions \o SetToSeq(A) \o SetToSeq(R)
           /\ lossy' = (lossy \/ A # added \/ R # removed)

(* /add_block_label and its removal.  Nothing is recorded of merge         *)
(* requests that wear the label.                                           *)
SetBlockLabels ==
  /\ Settings
  /\ Later
  /\ SameState
  /\ \E l \in Labels :
       /\ blockLabels' = IF l \in blockLabels
                           THEN blockLabels \ {l} ELSE blockLabels \union {l}
       /\ lossy' = (lossy \/ l \in labels)
  /\ UNCHANGED <<labels, holidays, actions, waits, unlogged>>

PollDraft ==
  /\ Later
  /\ draft' = ~ draft
  /\ LET toggle == Row("draft_toggled", NoUser, draft', now')
     IN  /\ Record(toggle)
         /\ unlogged' = (toggle \notin Range(actions'))
  /\ UNCHANGED <<settings, comments, resolvedAt, waits, lossy>>
  /\ NewState

(* A note, in a new discussion or one that is there, also if it has been   *)
(* resolved.  Its row is left out: the SLA code reads the note.            *)
PollNote ==
  /\ Later
  /\ \E d \in Discs, u \in Users :
       LET note == [disc |-> d, by |-> u, at |-> now', res |-> Never]
       IN  /\ comments' = Append(comments,
                 [note EXCEPT !.res = Resolution(note, resolvedAt)])
           /\ waits' = [p \in DOMAIN waits |->
                          CASE p[2] = d /\ u = Author -> Never
                            [] p = <<u, d>> /\ waits[p] = Never -> now'
                            [] OTHER -> waits[p]]
  /\ UNCHANGED <<settings, draft, resolvedAt, actions, lossy, unlogged>>
  /\ NewState

(* Stored notes are updated one by one.  One that has been resolved makes  *)
(* a row with GitLab's time; of the same resolver within the dedup window, *)
(* or if a call fails, it makes none.                                      *)
Update(places) ==
  LET Now(i) == Resolution(comments[i], resolvedAt')
      resolved == {i \in places : comments[i].res = Never /\ Now(i) # Never}
  IN  /\ comments' = [i \in DOMAIN comments |->
                        IF i \in places THEN [comments[i] EXCEPT !.res = Now(i)]
                                        ELSE comments[i]]
      /\ \E logged \in SUBSET resolved :
           actions' = actions \o SetToSeq(
             {Row("comment_resolved", i, comments[i].disc, Now(i)) :
                i \in logged})

(* Those for which that succeeds.                                          *)
Updatable(places) == {places} \union {S \in SUBSET places : Faults}

PollResolved ==
  /\ Later
  /\ \E d \in Discs :
       /\ Notes(comments, d) # {}
       /\ resolvedAt[d] = Never
       /\ resolvedAt' = [resolvedAt EXCEPT ![d] = now']
       /\ \E S \in Updatable(Notes(comments, d)) : Update(S)
  /\ UNCHANGED <<settings, draft, waits, lossy, unlogged>>
  /\ NewState

PollReopened ==
  /\ Later
  /\ \E d \in Discs :
       /\ resolvedAt[d] # Never
       /\ resolvedAt' = [resolvedAt EXCEPT ![d] = Never]
       /\ \E S \in Updatable(Notes(comments, d)) : Update(S)
  /\ UNCHANGED <<settings, draft, waits, lossy, unlogged>>
  /\ NewState

(* A poll, a later one or that of the last change, makes up for updates    *)
(* that failed.                                                            *)
PollAgain ==
  /\ UNCHANGED <<now, settings, draft, resolvedAt, changes, since, waits,
                 blocked, lossy, unlogged>>
  /\ \E S \in SUBSET Stale \ {{}} : Update(S)

(* A reviewer who was not one at the last poll.  Those that the bot has    *)
(* assigned are in the database before, and no row tells of them.          *)
PollReviewer ==
  /\ Later
  /\ SameState
  /\ \E u \in Reviewers : Record(Row("reviewer_assigned", u, NoUser, now'))
  /\ UNCHANGED <<settings, waits, lossy, unlogged>>

Next ==
  \/ PollLabels \/ SetBlockLabels \/ PollDraft \/ PollNote \/ PollResolved
  \/ PollReopened \/ PollAgain \/ PollReviewer

Spec == Init /\ [][Next]_vars
==============================================================================

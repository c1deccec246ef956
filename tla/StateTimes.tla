------------------------------ MODULE StateTimes ------------------------------
(***************************************************************************)
(* When a merge request entered its state, and since when its people have  *)
(* something to do, as utils/mrstate.go finds it out with queries; and the *)
(* time it was blocked, which is taken off.                                *)
(***************************************************************************)
EXTENDS Timeline

(* Fault: any removal ends the time a merge request is blocked.            *)
CountedOnce(count, type) ==
  IF type = "block_label_added" THEN count + 1 ELSE 0

Counted(count, type) ==
  IF type = "block_label_added" THEN count + 1 ELSE count - 1

BlockLabelTypes == {"block_label_added", "block_label_removed"}

(* The loops of CalculateBlockedTime over the rows of these types.  Those  *)
(* before start only tell with how many labels it begins; from there on a  *)
(* time is counted from each row that makes the number positive to the row *)
(* that makes it zero again.                                               *)
BlockStep(start, end, holidaySet, s, r) ==
  LET count == Counted(s.count, r.type)
  IN  IF r.type \notin BlockLabelTypes THEN s
      ELSE IF r.ts < start
        THEN [count |-> count, from |-> IF count > 0 THEN start ELSE Never,
              total |-> s.total]
      ELSE IF r.ts > end THEN s
      ELSE IF r.type = "block_label_added"
        THEN [count |-> count, from |-> IF s.count = 0 THEN r.ts ELSE s.from,
              total |-> s.total]
      ELSE IF count = 0 /\ s.from # Never
        THEN [count |-> count, from |-> Never,
              total |-> s.total
                          + CalculateWorkingTime(s.from, r.ts, holidaySet)]
      ELSE [count |-> count, from |-> s.from, total |-> s.total]

NotBlocked == [count |-> 0, from |-> Never, total |-> 0]

BlockState(rows, start, end, holidaySet) ==
  FoldLeft(LAMBDA s, r : BlockStep(start, end, holidaySet, s, r),
           NotBlocked, rows)

BlockedTime(rows, start, end, holidaySet) ==
  LET last == BlockState(rows, start, end, holidaySet)
  IN  last.total + IF last.count > 0 /\ last.from # Never
                     THEN CalculateWorkingTime(last.from, end, holidaySet)
                     ELSE 0

CalculateBlockedTime(start, end) == BlockedTime(actions, start, end, holidays)

-----------------------------------------------------------------------------
(* When the state was entered.                                             *)

Rows(type) == {r \in Range(actions) : r.type = type}

PeriodBegins(count, from, at) == IF count = 0 THEN at ELSE from

(* A note makes an event when it is made and one when it is resolved.      *)
Event(n, at, starts) == [note |-> n, at |-> at, starts |-> starts]

Events(notes) ==
  {Event(n, n.at, TRUE) : n \in notes}
    \union {Event(n, n.res, FALSE) : n \in {m \in notes : m.res # Never}}

EventStep(e, s) ==
  IF e.starts
    THEN [count |-> s.count + 1, from |-> PeriodBegins(s.count, s.from, e.at)]
    ELSE [count |-> s.count - 1, from |-> IF s.count = 1 THEN Never ELSE s.from]

NoPeriod == [count |-> 0, from |-> Never]

LastEvent(es) == CHOOSE e \in es : \A o \in es : o.at <= e.at

(* Since when there have always been unresolved notes, found by going      *)
(* through the events in the order of their times.  Notes that are not     *)
(* resolved now count as such from their creation, whatever was in         *)
(* between.                                                                *)
PeriodStart(notes) ==
  MapThenFoldSet(EventStep, NoPeriod, LAMBDA e : e, LastEvent,
                 Events(notes)).from

Newest(times) == Max(times \union {Never})

OrCreated(t) == IF t = Never THEN Start ELSE t

(* The last row that ends a discussion or a draft, or the first that       *)
(* assigns somebody: replies of the author do not count.                   *)
OnReviewSince ==
  LET drafts == {r \in Rows("draft_toggled") : ~ r.meta}
      assigned == Rows("reviewer_assigned")
      first == {r \in assigned : \A o \in assigned : r.ts <= o.ts}
  IN  OrCreated(Newest({r.ts : r \in Rows("comment_resolved") \union drafts
                                       \union first}))

(* Only the latest toggle is looked at.                                    *)
DraftSince ==
  LET latest == Latest(Rows("draft_toggled"))
  IN  OrCreated(Newest({r.ts : r \in {d \in latest : d.meta}}))

GetStateTransitionTime(state) ==
  CASE state = "draft" -> DraftSince
    [] state = "on_fixes" -> PeriodStart(Range(comments))
    [] OTHER -> OnReviewSince

-----------------------------------------------------------------------------
(* Since when a user has something to do, or waits.                        *)

NotesOf(d) == {comments[i] : i \in Notes(comments, d)}

By(notes, users) == {n \in notes : n.by \in users}

Earliest(times) == IF times = {} THEN Never ELSE Min(times)

LastAuthorTime(notes) == Newest({n.at : n \in By(notes, {Author})})

(* Fault: the author's answers are passed over.                            *)
FirstEver(notes, users) == Earliest({n.at : n \in By(notes, users)})

(* The first note of one of the users after the author's last one.         *)
FirstAfterAuthor(notes, users) ==
  LET after == {n \in By(notes, users) : n.at > LastAuthorTime(notes)}
  IN  Earliest({n.at : n \in after})

getAuthorOnFixesTime ==
  Earliest({FirstAfterAuthor(NotesOf(d), Reviewers) :
              d \in Awaiting(comments, Unresolved)})

getAuthorStateTransitionTime ==
  IF Awaiting(comments, Unresolved) # {}
    THEN getAuthorOnFixesTime
    ELSE GetStateTransitionTime("on_review")

(* The last answer of the author, the last resolved discussion, the last   *)
(* assignment.                                                             *)
getReviewerNeedsActionTime(u) ==
  LET mine == {d \in Discs : By(NotesOf(d), {u}) # {}}
      answers == {c \in Range(comments) : c.by = Author /\ c.disc \in mine}
      resolved == {r \in Rows("comment_resolved") : r.meta \in mine}
      assigned == {r \in Rows("reviewer_assigned") : r.user = u}
  IN  OrCreated(Newest({c.at : c \in answers}
                         \union {r.ts : r \in resolved \union assigned}))

getReviewerStateTransitionTime(u) ==
  LET waiting == {d \in Awaiting(comments, Unresolved) :
                    \E n \in By(NotesOf(d), {u}) :
                       n.at > LastAuthorTime(NotesOf(d))}
  IN  IF waiting = {}
        THEN getReviewerNeedsActionTime(u)
        ELSE Earliest({FirstAfterAuthor(NotesOf(d), {u}) : d \in waiting})

GetUserStateTransitionTime(u) ==
  IF u = Author
    THEN getAuthorStateTransitionTime
    ELSE getReviewerStateTransitionTime(u)

-----------------------------------------------------------------------------
(* GetStateInfo at the time of a change.                                   *)
NetOf(working, lost) == IF working > lost THEN working - lost ELSE 0

GetStateInfo ==
  LET from == GetStateTransitionTime(State)
  IN  [state |-> State, since |-> from, inState |-> now - from,
       working |-> NetOf(CalculateWorkingTime(from, now, holidays),
                         CalculateBlockedTime(from, now))]

-----------------------------------------------------------------------------
(* Properties.                                                             *)

(* Over weekends, holidays and block labels that overlap, working time is  *)
(* what the calendar says, and the time blocked is the part of it in which *)
(* the merge request wore a block label, from whatever start; as long as   *)
(* all changes of block labels are on the timeline.                        *)
TimeMeasured ==
  \A s \in Start .. now :
    /\ CalculateWorkingTime(s, now, holidays)
         = Worked(s .. now - 1, holidays)
    /\ ~ lossy => CalculateBlockedTime(s, now)
                    = Worked(blocked \intersect (s .. now - 1), holidays)

(* "Handles overlapping block labels (multiple block labels = still just   *)
(* blocked once)": also two that come together.                            *)
OverlapCounted ==
  CalculateBlockedTime(Start, now) = Worked(blocked, holidays)

(* Replies to resolved discussions, which are resolved before they are     *)
(* made.                                                                   *)
LateReplies == {n \in Range(comments) : n.res # Never /\ n.res < n.at}

(* The clock of fixes does not start after them, but for a reply to a      *)
(* resolved discussion: as its end comes before its beginning, it may      *)
(* start the clock anew.                                                   *)
FixesNotLate ==
  State = "on_fixes" =>
    GetStateTransitionTime(State)
      \in Start .. Newest({since} \union {n.at : n \in LateReplies})

(* In an unresolved discussion, somebody waits.                            *)
WaitedFor(users) ==
  {waits[p] : p \in {q \in users \X Discs : resolvedAt[q[2]] = Never}}
    \ {Never}

(* The author's clock runs since the first unanswered note, a waiting      *)
(* reviewer's since their own; answers, replies, resolving and reopening   *)
(* in other discussions notwithstanding.                                   *)
PeopleNotLate ==
  /\ WaitedFor(Reviewers) # {}
       => GetUserStateTransitionTime(Author) = Min(WaitedFor(Reviewers))
  /\ \A u \in Reviewers :
       WaitedFor({u}) # {}
         => GetUserStateTransitionTime(u) = Min(WaitedFor({u}))

(* The clocks of the SLA start when what they measure has begun, as soon   *)
(* as all notes are stored as GitLab has them.                             *)
ClocksTrue == Stale = {} => FixesNotLate /\ PeopleNotLate
==============================================================================

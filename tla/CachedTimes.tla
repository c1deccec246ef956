------------------------------ MODULE CachedTimes ------------------------------
(***************************************************************************)
(* The other copy of StateTimes: the digests load the rows of all merge    *)
(* requests at once (utils/mrcache.go) and find the same times by going    *)
(* through lists (the ...FromCache functions of utils/mrstate.go).         *)
(***************************************************************************)
EXTENDS StateTimes

(* Where a row can stand among others that are in the order of their      *)
(* timestamps.                                                             *)
Filings(rows, r) ==
  {InsertAt(rows, i, r) : i \in {j \in 1 .. Len(rows) + 1 :
     /\ \A k \in 1 .. j - 1 : rows[k].ts <= r.ts
     /\ \A k \in j .. Len(rows) : r.ts <= rows[k].ts}}

(* LoadMRDataCache: all rows at once, in the order of their timestamps.    *)
(* The comments are stored in that order.  Rows may have the same          *)
(* timestamp, and the query leaves open which of them comes first.         *)
CachedActions ==
  FoldLeft(LAMBDA orders, r : UNION {Filings(rows, r) : rows \in orders},
           {<<>>}, actions)

(* The places of the rows of a type.  A scan from the end stops at the     *)
(* greatest of the places it looks for, one from the start at the least.   *)
Places(rows, type) == {i \in DOMAIN rows : rows[i].type = type}

(* The timestamps of the rows at places that were found.                   *)
Candidates(rows, places) == {rows[i].ts : i \in places \ {Never}}

LatestOr(times) == OrCreated(Newest(times))

CachedDraftSince(rows) ==
  LET drafts == {i \in Places(rows, "draft_toggled") : rows[i].meta}
  IN  LatestOr(Candidates(rows, {Newest(drafts)}))

CachedOnReviewSince(rows) ==
  LET resolved == Newest(Places(rows, "comment_resolved"))
      ready == Newest({i \in Places(rows, "draft_toggled") : ~ rows[i].meta})
      assigned == Earliest(Places(rows, "reviewer_assigned"))
  IN  LatestOr(Candidates(rows, {resolved, ready, assigned}))

GetStateTransitionTimeFromCache(rows, state) ==
  CASE state = "draft" -> CachedDraftSince(rows)
    [] state = "on_fixes" -> PeriodStart(Range(comments))
    [] OTHER -> CachedOnReviewSince(rows)

CalculateWorkingTimeFromCache(start, end, holidaySet) ==
  CalculateWorkingTime(start, end, holidaySet)

CalculateBlockedTimeFromCache(rows, start, end) ==
  BlockedTime(rows, start, end, holidays)

-----------------------------------------------------------------------------
IsLastInThread(i) ==
  \A j \in DOMAIN comments : j > i => comments[j].disc # comments[i].disc

unresolvedDiscussions ==
  {c.disc : c \in {m \in Range(comments) : m.res = Never}}

HasThreadsAwaitingAuthorFromCache ==
  \E i \in DOMAIN comments :
    /\ IsLastInThread(i)
    /\ comments[i].by # Author
    /\ comments[i].disc \in unresolvedDiscussions

DeriveStateFromCache ==
  CASE draft -> "draft"
    [] ~ draft /\ HasThreadsAwaitingAuthorFromCache -> "on_fixes"
    [] OTHER -> "on_review"

(* The discussions whose first note is not resolved and whose last note is *)
(* not the author's.                                                       *)
awaitingDiscussionIDs ==
  {d \in {c.disc : c \in Range(comments)} :
     LET starter == comments[Earliest(Notes(comments, d))]
         lastComment == comments[Newest(Notes(comments, d))]
     IN  starter.res = Never /\ lastComment.by # Author}

(* The place of the first note of one of the users that is later than the  *)
(* author's last one.                                                      *)
PlaceAfterAuthor(d, users) ==
  LET reply == Newest({i \in Notes(comments, d) : comments[i].by = Author})
  IN  Earliest({i \in Notes(comments, d) :
                  comments[i].by \in users /\ i > reply})

TimeAfterAuthor(d, users) ==
  LET place == PlaceAfterAuthor(d, users)
  IN  IF place = Never THEN Never ELSE comments[place].at

getAuthorOnFixesTimeFromCache ==
  Earliest({TimeAfterAuthor(d, Reviewers) : d \in awaitingDiscussionIDs})

getAuthorStateTransitionTimeFromCache(rows) ==
  IF HasThreadsAwaitingAuthorFromCache
    THEN getAuthorOnFixesTimeFromCache
    ELSE GetStateTransitionTimeFromCache(rows, "on_review")

(* Fault: whoever took part in the discussion waits for the author.        *)
reviewerParticipated(d, u) ==
  \E i \in Notes(comments, d) : comments[i].by = u

reviewerParticipatedAfterAuthor(d, u) == PlaceAfterAuthor(d, {u}) # Never

getReviewerNeedsActionTimeFromCache(rows, u) ==
  LET mine == {c.disc : c \in By(Range(comments), {u})}
      answer == Newest({i \in DOMAIN comments :
                          /\ comments[i].by = Author
                          /\ comments[i].disc \in mine})
      resolved == Newest({i \in Places(rows, "comment_resolved") :
                            rows[i].meta \in mine})
      assigned == Newest({i \in Places(rows, "reviewer_assigned") :
                            rows[i].user = u})
  IN  LatestOr(Candidates(rows, {resolved, assigned})
                 \union {comments[i].at : i \in {answer} \ {Never}})

getReviewerStateTransitionTimeFromCache(rows, u) ==
  LET waiting == {d \in unresolvedDiscussions :
                    /\ comments[Max(Notes(comments, d))].by # Author
                    /\ reviewerParticipatedAfterAuthor(d, u)}
  IN  IF waiting = {}
        THEN getReviewerNeedsActionTimeFromCache(rows, u)
        ELSE Earliest({TimeAfterAuthor(d, {u}) : d \in waiting})

GetUserStateTransitionTimeFromCache(rows, u) ==
  IF u = Author
    THEN getAuthorStateTransitionTimeFromCache(rows)
    ELSE getReviewerStateTransitionTimeFromCache(rows, u)

GetStateInfoFromCache(rows) ==
  LET state == DeriveStateFromCache
      from == GetStateTransitionTimeFromCache(rows, state)
  IN  [state |-> state, since |-> from, inState |-> now - from,
       working |-> NetOf(CalculateWorkingTimeFromCache(from, now, holidays),
                         CalculateBlockedTimeFromCache(rows, from, now))]

-----------------------------------------------------------------------------
(* Discussions that are stored as resolved in part.                        *)
Halves ==
  {d \in Unresolved : \E n \in NotesOf(d) : n.res # Never}

(* Digests and messages show the same: the two copies agree on the state,  *)
(* on its times, and on the time of each user, however the timeline came   *)
(* about and in whichever order rows of one time are read; but for drafts  *)
(* whose last toggle has no row, and for the author's clock while a        *)
(* discussion is stored as resolved in part.                               *)
CopiesAgree ==
  \A rows \in CachedActions :
    /\ (State = "draft" => ~ unlogged)
         => GetStateInfoFromCache(rows) = GetStateInfo
    /\ \A u \in Users :
         (u = Author => Halves = {})
           => GetUserStateTransitionTimeFromCache(rows, u)
                = GetUserStateTransitionTime(u)
==============================================================================

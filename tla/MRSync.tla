-------------------------------- MODULE MRSync --------------------------------
(***************************************************************************)
(* polling/mrs.go: the poller that mirrors one GitLab merge request into   *)
(* the database and writes its timeline.                                   *)
(*                                                                         *)
(* GitLab changes on its own between any two calls of the poller.  A pass  *)
(* of PollMergeRequests over the merge request is                          *)
(*                                                                         *)
(*   list the open MRs -> sync (one transaction) -> fetch the approvals    *)
(*     -> record them one by one -> replace the approvers                  *)
(*     -> check full approval                                              *)
(*                                                                         *)
(* and, when the MR was not listed or its sync failed while the database   *)
(* holds it as opened, a second one from GetMergeRequest.  The process may *)
(* crash between any two of these steps; the database survives.  Merge     *)
(* requests do not share rows, so one is enough.  Discussions are left to  *)
(* another module: they share nothing with these steps but the table of    *)
(* actions, and the types they write are their own.                        *)
(***************************************************************************)
EXTENDS ActionLog, FiniteSets

CONSTANTS
  Users,         \* people who can review or approve
  BlockLabels,   \* labels configured as block labels of the repository
  ReadyLabels,   \* labels configured as release-ready labels
  None,          \* the absent user or metadata of an action
  MaxTime,       \* bound: GitLab is quiet from this tick on
  MaxChanges     \* bound: changes made in GitLab

ASSUME SyncAssumption ==
  /\ None \notin Users
  /\ None \notin BlockLabels \union ReadyLabels
  /\ MaxTime \in Nat
  /\ MaxChanges \in Nat

VARIABLES
  gl,        \* the merge request in GitLab
  mr,        \* its row and associations in the database
  actions,   \* its MRAction rows
  pc,        \* where the poller stands in its pass over the MR
  via,       \* did the pass reach the MR by the list or as a stale row?
  snap,      \* the copy of gl the pass works on
  fetched,   \* the approvals the pass fetched
  pending,   \* the changes of approval it has still to record
  now,       \* the clock, in ticks of the polling interval
  lastPoll,  \* when the last pass began
  unlogged,  \* history: what changed last without a row of its own
  blind,     \* history: has the lookup of a full approval failed?
  changes    \* how many changes GitLab has made

history == <<unlogged, blind>>

vars == <<gl, mr, actions, pc, via, snap, fetched, pending, now, lastPoll,
          changes, history>>

gitlab == <<gl, changes>>

time == <<now, lastPoll>>

pass == <<via, snap, fetched, pending>>     \* what a pass holds in memory

Labels == BlockLabels \union ReadyLabels

Ended == {"merged", "closed"}

Failing == now < MaxTime    \* bound: calls may fail while GitLab is not quiet

GitLabStates == {"opened", "locked", "merged", "closed", "gone"}

GitLabMRs ==
  [state : GitLabStates, draft : BOOLEAN, labels : SUBSET Labels,
   reviewers : SUBSET Users, at : Nat, approvers : SUBSET Users]

StoredMRs ==
  [state : GitLabStates \union {"absent"}, draft : BOOLEAN,
   labels : SUBSET Labels, reviewers : SUBSET Users, approvers : SUBSET Users]

(* What an API call returns of a merge request; `at' is merged_at or       *)
(* closed_at.                                                              *)
Snapshots ==
  [state : GitLabStates \ {"gone"}, draft : BOOLEAN, labels : SUBSET Labels,
   reviewers : SUBSET Users, at : Nat]

Actions ==
  [type : {"draft_toggled", "merged", "closed", "reviewer_assigned",
           "reviewer_removed", "block_label_added", "block_label_removed",
           "release_ready_label_added", "approved", "unapproved",
           "fully_approved"},
   user : Users \union {None},
   meta : Labels \union {"draft", "ready", None},
   ts   : Nat]

Action(type, user, meta, ts) ==
  [type |-> type, user |-> user, meta |-> meta, ts |-> ts]

View(g) == [state |-> g.state, draft |-> g.draft, labels |-> g.labels,
            reviewers |-> g.reviewers, at |-> g.at]

Init ==
  /\ gl = [state |-> "opened", draft |-> FALSE, labels |-> {},
           reviewers |-> {}, at |-> 0, approvers |-> {}]
  /\ mr = [state |-> "absent", draft |-> FALSE, labels |-> {},
           reviewers |-> {}, approvers |-> {}]
  /\ actions = {}
  /\ pc = "idle"
  /\ via = "list"
  /\ snap = View(gl)
  /\ fetched = {}
  /\ pending = {}
  /\ now = 1
  /\ lastPoll = 0
  /\ unlogged = {}
  /\ blind = FALSE
  /\ changes = 0

-----------------------------------------------------------------------------
(* GitLab.  Reviewers and approvals move while the MR is open; merging may *)
(* pass through "locked"; a closed MR may be reopened; "gone" is a 404.    *)

GitLabMoves(s) ==
  CASE s = "opened" -> {"locked", "merged", "closed", "gone"}
    [] s = "locked" -> {"opened", "merged"}
    [] s = "closed" -> {"opened", "gone"}
    [] OTHER        -> {}

Moved(g, s) ==
  [g EXCEPT !.state = s, !.at = IF s \in Ended THEN now ELSE 0]

GitLabEdits(g) ==
  {[g EXCEPT !.draft = ~ @]}
    \union {[g EXCEPT !.labels = (@ \ {l}) \union ({l} \ @)] : l \in Labels}
    \union {[g EXCEPT !.reviewers = (@ \ {u}) \union ({u} \ @)] : u \in Users}
    \union {[g EXCEPT !.approvers = (@ \ {u}) \union ({u} \ @)] : u \in Users}

GitLabChange ==
  /\ now < MaxTime
  /\ changes < MaxChanges
  /\ \/ /\ gl.state = "opened"
        /\ gl' \in GitLabEdits(gl)
     \/ \E s \in GitLabMoves(gl.state) : gl' = Moved(gl, s)
  /\ changes' = changes + 1
  /\ UNCHANGED <<mr, actions, pc, pass, time, history>>

(* AssignReviewers, which runs between two passes: it sets the reviewers   *)
(* in GitLab to the database's and a new one, and appends that one to the  *)
(* database unless that fails or the process dies first.  It writes no     *)
(* action.                                                                 *)
BotAssign(u) ==
  /\ now < MaxTime
  /\ changes < MaxChanges
  /\ pc = "idle"
  /\ mr.state = "opened" /\ ~ mr.draft /\ u \notin mr.reviewers
  /\ mr.labels \intersect BlockLabels = {}
  /\ gl.state = "opened"
  /\ gl' = [gl EXCEPT !.reviewers = mr.reviewers \union {u}]
  /\ \/ mr' = mr /\ unlogged' = unlogged
     \/ /\ mr' = [mr EXCEPT !.reviewers = @ \union {u}]
        /\ unlogged' = unlogged \union {<<"reviewer", u>>}
  /\ changes' = changes + 1
  /\ UNCHANGED <<actions, pc, pass, time, blind>>

Tick ==
  /\ now < MaxTime
  /\ now' = now + 1
  /\ UNCHANGED <<gitlab, mr, actions, pc, pass, lastPoll, history>>

(* A restart comes back to the ticker of main.go with nothing in memory.   *)
Crash ==
  /\ now < MaxTime
  /\ pc # "idle"
  /\ pc' = "idle"
  /\ lastPoll' = now
  /\ UNCHANGED <<gitlab, mr, actions, pass, now, history>>

-----------------------------------------------------------------------------
(* PollMergeRequests.                                                      *)

StartPass ==
  /\ pc = "idle"
  /\ now > lastPoll \/ now = MaxTime
  /\ lastPoll' = now

(* The list of open merge requests holds the MR.                           *)
ListMR ==
  /\ StartPass
  /\ gl.state = "opened"
  /\ snap' = View(gl)
  /\ via' = "list"
  /\ pc' = "sync"
  /\ UNCHANGED <<gitlab, mr, actions, fetched, pending, now, history>>

(* It does not, or the page that would hold it could not be fetched.       *)
MissMR ==
  /\ StartPass
  /\ gl.state # "opened" \/ Failing
  /\ pc' = "stale"
  /\ UNCHANGED <<gitlab, mr, actions, pass, now, history>>

(* A row the database holds as opened and the list did not process is      *)
(* fetched by itself; a 404 closes it without any action, an error leaves  *)
(* it alone.                                                               *)
(* Fault: only MRs that are still open are fetched again.                  *)
FetchStaleOpened ==
  /\ pc = "stale"
  /\ mr.state = "opened"
  /\ gl.state = "opened"
  /\ snap' = View(gl)
  /\ via' = "stale"
  /\ pc' = "sync"
  /\ UNCHANGED <<gitlab, mr, actions, fetched, pending, time, history>>

FetchStale ==
  /\ pc = "stale"
  /\ mr.state = "opened"
  /\ gl.state # "gone"
  /\ snap' = View(gl)
  /\ via' = "stale"
  /\ pc' = "sync"
  /\ UNCHANGED <<gitlab, mr, actions, fetched, pending, time, history>>

CloseGone ==
  /\ pc = "stale"
  /\ mr.state = "opened"
  /\ gl.state = "gone"
  /\ mr' = [mr EXCEPT !.state = "closed"]
  /\ pc' = "idle"
  /\ UNCHANGED <<gitlab, actions, pass, time, history>>

SkipStale ==
  /\ pc = "stale"
  /\ mr.state # "opened" \/ Failing
  /\ pc' = "idle"
  /\ UNCHANGED <<gitlab, mr, actions, pass, time, history>>

-----------------------------------------------------------------------------
(* syncGitLabMRToDB: the transaction.                                      *)

StateChanges(old, new) ==
  (IF old.draft # new.draft
     THEN {Action("draft_toggled", None,
                  IF new.draft THEN "draft" ELSE "ready", now)}
     ELSE {})
    \union {Action(s, None, None, new.at) :
              s \in {e \in Ended : old.state # e /\ new.state = e}}

LabelChanges(old, new) ==
  {Action("block_label_added", None, l, now) :
      l \in (new.labels \ old.labels) \intersect BlockLabels}
    \union
  {Action("block_label_removed", None, l, now) :
      l \in (old.labels \ new.labels) \intersect BlockLabels}
    \union
  {Action("release_ready_label_added", None, l, now) :
      l \in (new.labels \ old.labels) \intersect ReadyLabels}

(* Fault: a reviewer who left is not logged.                               *)
ReviewerChangesArrivals(old, new) ==
  {Action("reviewer_assigned", u, None, now) :
      u \in new.reviewers \ old.reviewers}

ReviewerChanges(old, new) ==
  {Action("reviewer_assigned", u, None, now) :
      u \in new.reviewers \ old.reviewers}
    \union
  {Action("reviewer_removed", u, None, now) :
      u \in old.reviewers \ new.reviewers}

(* A merge request seen for the first time writes no action at all.        *)
SyncBatch(old, new) ==
  IF old.state = "absent" THEN {}
  ELSE StateChanges(old, new) \union LabelChanges(old, new)
         \union ReviewerChanges(old, new)

(* The reads of the old reviewers and labels drop their errors as well,    *)
(* and an association that was not read is empty: what it holds is taken   *)
(* for new.                                                                *)
Unread(row) == [row EXCEPT !.labels = {}, !.reviewers = {}]

Noticed ==
  SyncBatch(mr, snap)
    \union (IF Failing THEN SyncBatch(Unread(mr), snap) ELSE {})

ReviewerTypes == {"reviewer_assigned", "reviewer_removed"}

BlockLabelTypes == {"block_label_added", "block_label_removed"}

(* What an action of a sync is about.                                      *)
Subject(a) ==
  CASE a.type \in ReviewerTypes   -> <<"reviewer", a.user>>
    [] a.type \in BlockLabelTypes -> <<"block_label", a.meta>>
    [] OTHER                      -> <<a.type, None>>

Subjects(batch) == {Subject(a) : a \in batch}

(* The row and its associations are written or not as a whole; its actions *)
(* come with them, but each of them may fail without failing the           *)
(* transaction.                                                            *)
SyncTx ==
  /\ pc = "sync"
  /\ \E T \in Recorded(actions, Noticed, Failing) :
       /\ actions' = actions \union T
       /\ unlogged' = (unlogged \union Subjects(SyncBatch(mr, snap)))
                        \ Subjects(T)
  /\ mr' = [mr EXCEPT !.state = snap.state, !.draft = snap.draft,
                      !.labels = snap.labels, !.reviewers = snap.reviewers]
  /\ pc' = IF snap.state \in {"opened", "locked"} THEN "approvals" ELSE "clear"
  /\ UNCHANGED <<gitlab, pass, time, blind>>

(* After an error, a listed MR is not among the processed ones, and the    *)
(* stale branch of the same pass takes it up.                              *)
AfterError == IF via = "list" THEN "stale" ELSE "idle"

SyncTxFails ==
  /\ pc = "sync"
  /\ Failing
  /\ pc' = AfterError
  /\ UNCHANGED <<gitlab, mr, actions, pass, time, history>>

ClearApprovers ==
  /\ pc = "clear"
  /\ \/ mr' = [mr EXCEPT !.approvers = {}]
     \/ Failing /\ mr' = mr         \* the database fails
  /\ pc' = "idle"
  /\ UNCHANGED <<gitlab, actions, pass, time, history>>

-----------------------------------------------------------------------------
(* syncMRApprovals and checkAndRecordFullyApproved, outside the            *)
(* transaction.                                                            *)

(* An approver whose user cannot be stored is left out, and approvers that *)
(* cannot be read count as none.                                           *)
FetchApprovals ==
  /\ pc = "approvals"
  /\ fetched' \in IF Failing THEN SUBSET gl.approvers ELSE {gl.approvers}
  /\ \E old \in {mr.approvers} \union (IF Failing THEN {{}} ELSE {}) :
       pending' = [type : {"approved"}, user : fetched' \ old]
                    \union [type : {"unapproved"}, user : old \ gl.approvers]
  /\ pc' = "record"
  /\ UNCHANGED <<gitlab, mr, actions, via, snap, time, history>>

(* On an API error the code goes on with a nil list of approvers, which    *)
(* neither replaces the stored ones nor completes an approval.             *)
FetchApprovalsFails ==
  /\ pc = "approvals"
  /\ Failing
  /\ pc' = "idle"
  /\ UNCHANGED <<gitlab, mr, actions, pass, time, history>>

(* Every action is a transaction of its own.                               *)
RecordApproval ==
  /\ pc = "record"
  /\ \E p \in pending :
       /\ \E T \in Recorded(actions, {Action(p.type, p.user, None, now)},
                             Failing) : actions' = actions \union T
       /\ pending' = pending \ {p}
  /\ UNCHANGED <<gitlab, mr, pc, via, snap, fetched, time, history>>

(* Fault: an approval without a user is stored.                            *)
StoredApproversUnfiltered == fetched \union {None}

(* The list of approvers is a nil slice, and not stored, when it is empty. *)
StoredApprovers == IF fetched = {} THEN mr.approvers ELSE fetched

ReplaceApprovers ==
  /\ pc = "record"
  /\ pending = {}
  /\ mr' = [mr EXCEPT !.approvers = StoredApprovers]
  /\ pc' = "check"
  /\ UNCHANGED <<gitlab, actions, pass, time, history>>

(* Fault: the error is logged and the pass goes on.                        *)
ReplaceApproversIgnored ==
  /\ pc = "record"
  /\ Failing
  /\ pending = {}
  /\ fetched # {}
  /\ pc' = "check"
  /\ UNCHANGED <<gitlab, mr, actions, pass, time, history>>

ReplaceApproversFails ==
  /\ pc = "record"
  /\ Failing
  /\ pending = {}
  /\ fetched # {}
  /\ pc' = AfterError
  /\ UNCHANGED <<gitlab, mr, actions, pass, time, history>>

Covered(reviewers, approvers) ==
  reviewers # {} /\ reviewers \subseteq approvers

FullApproval == Action("fully_approved", None, None, now)

(* Fault: only recordMRAction keeps full approval from being logged twice. *)
AnnouncedLately == Duplicate(actions, FullApproval)

Announced == \E b \in actions : b.type = "fully_approved"

(* An error of the lookup reads as "not announced yet".                    *)
CheckFullyApproved ==
  /\ pc = "check"
  /\ \E seen \in {Announced} \union (IF Failing THEN {FALSE} ELSE {}) :
       LET due == Covered(snap.reviewers, fetched) /\ ~ seen
       IN  /\ \E T \in Recorded(actions, IF due THEN {FullApproval} ELSE {},
                                 Failing) : actions' = actions \union T
           /\ blind' = (blind \/ (due /\ Announced))
  /\ pc' = "idle"
  /\ UNCHANGED <<gitlab, mr, pass, time, unlogged>>

-----------------------------------------------------------------------------

Poll ==
  \/ ListMR \/ MissMR \/ FetchStale \/ CloseGone \/ SkipStale
  \/ SyncTx \/ SyncTxFails \/ ClearApprovers
  \/ FetchApprovals \/ FetchApprovalsFails \/ RecordApproval
  \/ ReplaceApprovers \/ ReplaceApproversFails \/ CheckFullyApproved

Next ==
  \/ GitLabChange
  \/ \E u \in Users : BotAssign(u)
  \/ Tick
  \/ Crash
  \/ Poll

Spec == Init /\ [][Next]_vars

(* The ticker of main.go keeps firing and each pass runs to its end.       *)
FairSpec == Spec /\ WF_vars(Tick) /\ WF_vars(Poll)
-----------------------------------------------------------------------------
(* Properties.                                                             *)

Rows(type) == {a \in actions : a.type = type}

TypeOK ==
  /\ gl \in GitLabMRs
  /\ mr \in StoredMRs
  /\ actions \subseteq Actions
  /\ pc \in {"idle", "stale", "sync", "clear", "approvals", "record", "check"}
  /\ via \in {"list", "stale"}
  /\ snap \in Snapshots
  /\ fetched \subseteq Users
  /\ pending \subseteq [type : {"approved", "unapproved"}, user : Users]
  /\ unlogged \subseteq
       {"reviewer", "block_label", "draft_toggled", "merged", "closed",
        "release_ready_label_added"} \X (Users \union Labels \union {None})
  /\ blind \in BOOLEAN
  /\ now \in Nat /\ lastPoll \in Nat /\ changes \in Nat

(* The SLA code replays the timeline instead of keeping history, so the    *)
(* latest row about a flag has to agree with what the database mirrors:    *)
(* the latest draft toggle with the draft flag, the latest row about a     *)
(* reviewer with the reviewers, the latest row about a block label with    *)
(* the labels.  Rows of one tick follow each other within it, so one of    *)
(* the latest is the last.                                                 *)
DraftReplays ==
  Rows("draft_toggled") # {} =>
    \E a \in Latest(Rows("draft_toggled")) : (a.meta = "draft") <=> mr.draft

ReviewerReplays(u) ==
  LET rows == {a \in actions : a.type \in ReviewerTypes /\ a.user = u}
  IN  rows # {} => \E a \in Latest(rows) :
                     (a.type = "reviewer_assigned") <=> u \in mr.reviewers

BlockLabelReplays(l) ==
  LET rows == {a \in actions : a.type \in BlockLabelTypes /\ a.meta = l}
  IN  rows # {} => \E a \in Latest(rows) :
                     (a.type = "block_label_added") <=> l \in mr.labels

(* Whatever crashes, fails, is synced again in the same pass or falls into *)
(* the window of recordMRAction: the timeline is wrong only about what     *)
(* changed last without a row, and right again with the next row about it. *)
LogReplays ==
  /\ <<"draft_toggled", None>> \notin unlogged => DraftReplays
  /\ \A u \in Users : <<"reviewer", u>> \notin unlogged => ReviewerReplays(u)
  /\ \A l \in BlockLabels :
       <<"block_label", l>> \notin unlogged => BlockLabelReplays(l)

(* The release notification is triggered by the merged row, and full       *)
(* approval by its own: whatever crashes, is fetched twice or synced again *)
(* after an error, a merge has one row, or none if its only write failed,  *)
(* and full approval has at most one unless a failed lookup hid it.        *)
MergeLoggedOnce ==
  /\ mr.state = "merged" /\ <<"merged", None>> \notin unlogged
       => Rows("merged") # {}
  /\ \A a, b \in Rows("merged") : a = b
  /\ ~ blind => \A a, b \in Rows("fully_approved") : a = b

(* Full approval is announced only when the stored approvers cover the     *)
(* stored reviewers, although the two come from two API calls between      *)
(* which GitLab moves and calls fail.                                      *)
FullApprovalSound ==
  [][Rows("fully_approved")' # Rows("fully_approved")
       => Covered(mr.reviewers, mr.approvers)]_vars

(* Once GitLab is quiet, a merge request open there or in the database     *)
(* ends up mirrored, whatever crashed or failed before; approvers only     *)
(* when somebody approves (see NoStaleApproval).                           *)
Mirrors ==
  /\ mr.state = gl.state /\ mr.draft = gl.draft /\ mr.labels = gl.labels
  /\ mr.reviewers = gl.reviewers
  /\ gl.approvers # {} => mr.approvers = gl.approvers

Converges ==
  <>[](gl.state = "opened" \/ mr.state = "opened" => Mirrors)

(* FindReleaseManagerActionMRs offers the MRs that are "fully approved and *)
(* ready for release", by the stored approvers: once a pass has stored the *)
(* approvals it fetched, they should be covered by those.                  *)
NoStaleApproval ==
  pc = "check" /\ Covered(mr.reviewers, mr.approvers)
    => Covered(mr.reviewers, fetched)

==============================================================================

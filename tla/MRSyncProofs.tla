----------------------------- MODULE MRSyncProofs -----------------------------
(***************************************************************************)
(* Theorems about MRSync, for any set of users and labels, any window and  *)
(* any bound.  TypeOK is inductive.  The timeline and full approval need   *)
(* PassInv, which says what a pass that is under way may rely on although  *)
(* GitLab moves: what it holds in memory and what the database holds agree *)
(* as far as the next step needs.                                          *)
(***************************************************************************)
EXTENDS MRSync, TLAPS

-----------------------------------------------------------------------------
(* The operators of the timeline.                                          *)

(* What the calls of recordMRAction add comes from the batch, holds one    *)
(* row of a key, and leaves out an action only if it has a duplicate in    *)
(* the log or its key is added with other metadata.                        *)
LEMMA AdditionsLemma ==
  ASSUME NEW log, NEW batch, NEW T \in Additions(log, batch)
  PROVE  /\ T \subseteq batch
         /\ \A a \in batch : \/ Duplicate(log, a)
                             \/ \E t \in T : SameKey(a, t)
         /\ \A a, b \in T : SameKey(a, b) => a = b
<1>1. T \subseteq Fresh(log, batch)
  BY DEF Additions
<1>2. \A a \in Fresh(log, batch) :
         \E t \in T : SameKey(a, t) /\ \A b \in T : SameKey(a, b) => b = t
  BY DEF Additions
<1>3. \A a \in batch : Duplicate(log, a) \/ a \in Fresh(log, batch)
  BY DEF Fresh
<1>4. \A a, b \in T : SameKey(a, b) => a = b
  <2>1. SUFFICES ASSUME NEW a \in T, NEW b \in T, SameKey(a, b)
                 PROVE  a = b
    OBVIOUS
  <2>2. PICK t \in T : SameKey(a, t) /\ \A c \in T : SameKey(a, c) => c = t
    BY <1>1, <1>2
  <2>3. SameKey(a, a)
    BY DEF SameKey
  <2> QED BY <2>1, <2>2, <2>3
<1> QED BY <1>1, <1>2, <1>3, <1>4 DEF Fresh

(* Whether its calls fail or not, recordMRAction adds nothing but actions  *)
(* of the batch.                                                           *)
LEMMA RecordedLemma ==
  ASSUME NEW log, NEW batch, NEW f, NEW T \in Recorded(log, batch, f)
  PROVE  T \subseteq batch
  BY AdditionsLemma DEF Recorded

(* Every action of a sync is well formed when the row and the snapshot     *)
(* are, and none of them is about approvals.                               *)
SyncTypes ==
  {"draft_toggled", "merged", "closed", "reviewer_assigned",
   "reviewer_removed", "block_label_added", "block_label_removed",
   "release_ready_label_added"}

(* The transaction writes well-typed rows, whichever row it compares with. *)
LEMMA SyncBatchLemma ==
  ASSUME TypeOK, NEW row \in StoredMRs
  PROVE  /\ SyncBatch(row, snap) \subseteq Actions
         /\ \A a \in SyncBatch(row, snap) : a.type \in SyncTypes
<1> USE DEF TypeOK, GitLabMRs, StoredMRs, Snapshots, Actions, Action, Labels,
            SyncTypes
<1>1. /\ StateChanges(row, snap) \subseteq Actions
      /\ \A a \in StateChanges(row, snap) : a.type \in SyncTypes
  BY DEF StateChanges, Ended
<1>2. /\ LabelChanges(row, snap) \subseteq Actions
      /\ \A a \in LabelChanges(row, snap) : a.type \in SyncTypes
  BY DEF LabelChanges
<1>3. /\ ReviewerChanges(row, snap) \subseteq Actions
      /\ \A a \in ReviewerChanges(row, snap) : a.type \in SyncTypes
  BY DEF ReviewerChanges
<1> QED BY <1>1, <1>2, <1>3 DEF SyncBatch

(* The same for what it takes for changes when reads fail.                 *)
LEMMA NoticedLemma ==
  ASSUME TypeOK
  PROVE  /\ Noticed \subseteq Actions
         /\ \A a \in Noticed : a.type \in SyncTypes
         /\ Subjects(SyncBatch(mr, snap)) \subseteq
              {"reviewer", "block_label", "draft_toggled", "merged", "closed",
               "release_ready_label_added"} \X (Users \union Labels \union {None})
<1>1. mr \in StoredMRs /\ Unread(mr) \in StoredMRs
  BY DEF TypeOK, StoredMRs, Unread
<1>2. \A a \in SyncBatch(mr, snap) : a \in Actions /\ a.type \in SyncTypes
  BY <1>1, SyncBatchLemma
<1>3. ASSUME NEW a \in SyncBatch(mr, snap)
      PROVE  Subject(a) \in
               {"reviewer", "block_label", "draft_toggled", "merged",
                "closed", "release_ready_label_added"}
                 \X (Users \union Labels \union {None})
  <2>1. CASE a.type \in ReviewerTypes
    <3>1. a.user \in Users \union {None}
      BY <1>2 DEF Actions
    <3>2. Subject(a) = <<"reviewer", a.user>>
      BY <2>1 DEF Subject, ReviewerTypes, BlockLabelTypes
    <3>3. <<"reviewer", a.user>> \in
            {"reviewer", "block_label", "draft_toggled", "merged", "closed",
             "release_ready_label_added"} \X (Users \union Labels \union {None})
      BY <3>1
    <3> QED BY <3>2, <3>3, Zenon
  <2>2. CASE a.type \in BlockLabelTypes
    <3>1. a.meta \in Labels \union {None}
      <4>1. a \in LabelChanges(mr, snap)
        BY <2>2 DEF SyncBatch, StateChanges, ReviewerChanges, Action, Ended,
                    BlockLabelTypes
      <4> QED BY <4>1 DEF LabelChanges, Action, Labels
    <3>2. a.type \notin ReviewerTypes
      BY <2>2 DEF BlockLabelTypes, ReviewerTypes
    <3> QED BY <2>2, <3>1, <3>2 DEF Subject
  <2>3. CASE a.type \notin ReviewerTypes \union BlockLabelTypes
    <3>1. a.type \in {"draft_toggled", "merged", "closed",
                      "release_ready_label_added"}
      BY <1>2, <2>3 DEF SyncTypes, ReviewerTypes, BlockLabelTypes
    <3> QED BY <2>3, <3>1 DEF Subject
  <2> QED BY <2>1, <2>2, <2>3
<1> QED BY <1>1, <1>2, <1>3, SyncBatchLemma DEF Noticed, Subjects

-----------------------------------------------------------------------------
(* Type correctness.                                                       *)

(* The initial state is well typed.                                        *)
LEMMA InitTypeOK == Init => TypeOK
<1> SUFFICES ASSUME Init PROVE TypeOK
  OBVIOUS
<1>1. gl \in GitLabMRs /\ mr \in StoredMRs
  BY DEF Init, GitLabMRs, StoredMRs, GitLabStates
<1>2. snap \in Snapshots
  BY DEF Init, View, Snapshots, GitLabStates
<1>3. unlogged = {} /\ blind \in BOOLEAN /\ actions = {} /\ pending = {}
  BY DEF Init
<1> QED BY <1>1, <1>2, <1>3 DEF Init, TypeOK

(* What GitLab returns of a merge request is a snapshot.                   *)
LEMMA ViewLemma ==
  ASSUME TypeOK, gl.state # "gone"
  PROVE  View(gl) \in Snapshots
  BY DEF TypeOK, GitLabMRs, Snapshots, View

(* Every step keeps the types.                                             *)
LEMMA TypeOKStep == TypeOK /\ [Next]_vars => TypeOK'
<1> SUFFICES ASSUME TypeOK, [Next]_vars PROVE TypeOK'
  OBVIOUS
<1> USE DEF gitlab, time, pass, history
<1>1. CASE GitLabChange
  <2>1. gl' \in GitLabMRs
    <3>1. CASE gl' \in GitLabEdits(gl)
      <4>1. CASE gl' = [gl EXCEPT !.draft = ~ @]
        BY <4>1 DEF TypeOK, GitLabMRs
      <4>2. CASE \E l \in Labels :
                   gl' = [gl EXCEPT !.labels = (@ \ {l}) \union ({l} \ @)]
        BY <4>2 DEF TypeOK, GitLabMRs
      <4>3. CASE \E u \in Users :
                   gl' = [gl EXCEPT !.reviewers = (@ \ {u}) \union ({u} \ @)]
        BY <4>3 DEF TypeOK, GitLabMRs
      <4>4. CASE \E u \in Users :
                   gl' = [gl EXCEPT !.approvers = (@ \ {u}) \union ({u} \ @)]
        BY <4>4 DEF TypeOK, GitLabMRs
      <4> QED BY <3>1, <4>1, <4>2, <4>3, <4>4 DEF GitLabEdits
    <3>2. ASSUME NEW s \in GitLabMoves(gl.state), gl' = Moved(gl, s)
          PROVE  gl' \in GitLabMRs
      <4>1. s \in GitLabStates
        BY DEF TypeOK, GitLabMoves, GitLabStates
      <4>2. CASE s \in Ended
        BY <3>2, <4>1, <4>2 DEF Moved, TypeOK, GitLabMRs
      <4>3. CASE s \notin Ended
        BY <3>2, <4>1, <4>3 DEF Moved, TypeOK, GitLabMRs
      <4> QED BY <4>2, <4>3
    <3> QED BY <1>1, <3>1, <3>2 DEF GitLabChange
  <2> QED BY <1>1, <2>1 DEF GitLabChange, TypeOK
<1>2. ASSUME NEW u \in Users, BotAssign(u) PROVE TypeOK'
  <2>1. unlogged' \subseteq unlogged \union {<<"reviewer", u>>}
    BY <1>2 DEF BotAssign
  <2> QED BY <1>2, <2>1 DEF BotAssign, TypeOK, GitLabMRs, StoredMRs
<1>3. CASE Tick
  BY <1>3 DEF Tick, TypeOK
<1>4. CASE Crash
  BY <1>4 DEF Crash, TypeOK
<1>5. CASE ListMR
  BY <1>5, ViewLemma DEF ListMR, StartPass, TypeOK
<1>6. CASE MissMR
  BY <1>6 DEF MissMR, StartPass, TypeOK
<1>7. CASE FetchStale
  BY <1>7, ViewLemma DEF FetchStale, TypeOK
<1>8. CASE CloseGone
  BY <1>8 DEF CloseGone, TypeOK, StoredMRs, GitLabStates
<1>9. CASE SkipStale
  BY <1>9 DEF SkipStale, TypeOK
<1>10. CASE SyncTx
  <2>1. PICK T \in Recorded(actions, Noticed, Failing) :
           /\ actions' = actions \union T
           /\ unlogged' = (unlogged \union Subjects(SyncBatch(mr, snap)))
                            \ Subjects(T)
    BY <1>10 DEF SyncTx
  <2>2. actions' \subseteq Actions
    BY <2>1, RecordedLemma, NoticedLemma DEF TypeOK
  <2>3. mr' \in StoredMRs
    BY <1>10 DEF SyncTx, TypeOK, StoredMRs, Snapshots
  <2>4. unlogged' \subseteq
          {"reviewer", "block_label", "draft_toggled", "merged", "closed",
           "release_ready_label_added"} \X (Users \union Labels \union {None})
    BY <2>1, NoticedLemma DEF TypeOK
  <2> QED BY <1>10, <2>2, <2>3, <2>4 DEF SyncTx, TypeOK
<1>11. CASE SyncTxFails
  BY <1>11 DEF SyncTxFails, AfterError, TypeOK
<1>12. CASE ClearApprovers
  BY <1>12 DEF ClearApprovers, TypeOK, StoredMRs
<1>13. CASE FetchApprovals
  BY <1>13 DEF FetchApprovals, TypeOK, GitLabMRs, StoredMRs
<1>14. CASE FetchApprovalsFails
  BY <1>14 DEF FetchApprovalsFails, TypeOK
<1>15. CASE RecordApproval
  <2>1. PICK p \in pending :
           /\ \E T \in Recorded(actions, {Action(p.type, p.user, None, now)},
                                 Failing) : actions' = actions \union T
           /\ pending' = pending \ {p}
    BY <1>15 DEF RecordApproval
  <2>2. Action(p.type, p.user, None, now) \in Actions
    BY DEF TypeOK, Action, Actions
  <2> QED BY <1>15, <2>1, <2>2, RecordedLemma DEF RecordApproval, TypeOK
<1>16. CASE ReplaceApprovers
  BY <1>16 DEF ReplaceApprovers, StoredApprovers, TypeOK, StoredMRs
<1>17. CASE ReplaceApproversFails
  BY <1>17 DEF ReplaceApproversFails, AfterError, TypeOK
<1>18. CASE CheckFullyApproved
  <2>1. FullApproval \in Actions
    BY DEF TypeOK, FullApproval, Action, Actions
  <2>2. actions' \subseteq Actions
    BY <1>18, <2>1, RecordedLemma DEF CheckFullyApproved, TypeOK
  <2>3. blind' \in BOOLEAN
    BY <1>18 DEF CheckFullyApproved
  <2> QED BY <1>18, <2>2, <2>3 DEF CheckFullyApproved, TypeOK
<1>19. CASE UNCHANGED vars
  BY <1>19 DEF vars, TypeOK
<1> QED BY <1>1, <1>2, <1>3, <1>4, <1>5, <1>6, <1>7, <1>8, <1>9, <1>10, <1>11,
           <1>12, <1>13, <1>14, <1>15, <1>16, <1>17, <1>18, <1>19
        DEF Next, Poll

(* Every variable of the poller keeps its type: in particular no action    *)
(* row, pending change or stored approver without a user of GitLab.        *)
THEOREM TypeCorrect == Spec => []TypeOK
<1>1. Init => TypeOK
  BY InitTypeOK
<1>2. TypeOK /\ [Next]_vars => TypeOK'
  BY TypeOKStep
<1> QED BY <1>1, <1>2, PTL DEF Spec

-----------------------------------------------------------------------------
(* What a pass relies on.  A merge is final in GitLab, so neither a        *)
(* snapshot nor the database is ahead of it; a sync is due only for an MR  *)
(* that GitLab listed or the database holds as opened; and only the        *)
(* transaction of the pass changes the reviewers, the pass itself the      *)
(* approvers, until the check of full approval.                            *)
PassInv ==
  /\ mr.state = "merged" => gl.state = "merged"
  /\ snap.state = "merged" => gl.state = "merged"
  /\ pc = "sync" => /\ mr.state # "merged"
                    /\ snap.state = "opened" \/ mr.state = "opened"
  /\ pc \in {"approvals", "record", "check"} => mr.reviewers = snap.reviewers
  /\ pc = "check" /\ fetched # {} => mr.approvers = fetched

(* No pass has begun in the initial state.                                 *)
LEMMA InitPassInv == Init => PassInv
  BY DEF Init, PassInv, View

(* Every step of the pass, of GitLab and of a crash keeps PassInv.         *)
LEMMA PassInvStep == TypeOK /\ PassInv /\ [Next]_vars => PassInv'
<1> SUFFICES ASSUME TypeOK, PassInv, [Next]_vars PROVE PassInv'
  OBVIOUS
<1> USE DEF gitlab, time, pass, history
<1>1. CASE GitLabChange
  <2>1. gl.state = "merged" => gl'.state = "merged"
    <3>1. gl.state = "merged" => GitLabMoves(gl.state) = {}
      BY DEF GitLabMoves
    <3> QED BY <1>1, <3>1 DEF GitLabChange
  <2> QED BY <1>1, <2>1 DEF GitLabChange, PassInv
<1>2. ASSUME NEW u \in Users, BotAssign(u) PROVE PassInv'
  BY <1>2 DEF BotAssign, PassInv, TypeOK, GitLabMRs, StoredMRs
<1>3. CASE Tick
  BY <1>3 DEF Tick, PassInv
<1>4. CASE Crash
  BY <1>4 DEF Crash, PassInv
<1>5. CASE ListMR
  BY <1>5 DEF ListMR, StartPass, View, PassInv
<1>6. CASE MissMR
  BY <1>6 DEF MissMR, StartPass, PassInv
<1>7. CASE FetchStale
  BY <1>7 DEF FetchStale, View, PassInv
<1>8. CASE CloseGone
  BY <1>8 DEF CloseGone, PassInv, TypeOK, StoredMRs
<1>9. CASE SkipStale
  BY <1>9 DEF SkipStale, PassInv
<1>10. CASE SyncTx
  <2>1. mr'.state = snap.state /\ mr'.reviewers = snap.reviewers
    BY <1>10 DEF SyncTx, TypeOK, StoredMRs
  <2>2. pc' \in {"approvals", "clear"} /\ snap' = snap /\ gl' = gl
    BY <1>10 DEF SyncTx
  <2> QED BY <2>1, <2>2 DEF PassInv
<1>11. CASE SyncTxFails
  BY <1>11 DEF SyncTxFails, AfterError, PassInv
<1>12. CASE ClearApprovers
  BY <1>12 DEF ClearApprovers, PassInv, TypeOK, StoredMRs
<1>13. CASE FetchApprovals
  BY <1>13 DEF FetchApprovals, PassInv
<1>14. CASE FetchApprovalsFails
  BY <1>14 DEF FetchApprovalsFails, PassInv
<1>15. CASE RecordApproval
  BY <1>15 DEF RecordApproval, PassInv
<1>16. CASE ReplaceApprovers
  <2>1. /\ mr'.state = mr.state /\ mr'.reviewers = mr.reviewers
        /\ mr'.approvers = StoredApprovers
    BY <1>16 DEF ReplaceApprovers, TypeOK, StoredMRs
  <2> QED BY <1>16, <2>1 DEF ReplaceApprovers, StoredApprovers, PassInv
<1>17. CASE ReplaceApproversFails
  BY <1>17 DEF ReplaceApproversFails, AfterError, PassInv
<1>18. CASE CheckFullyApproved
  BY <1>18 DEF CheckFullyApproved, PassInv
<1>19. CASE UNCHANGED vars
  BY <1>19 DEF vars, PassInv
<1> QED BY <1>1, <1>2, <1>3, <1>4, <1>5, <1>6, <1>7, <1>8, <1>9, <1>10, <1>11,
           <1>12, <1>13, <1>14, <1>15, <1>16, <1>17, <1>18, <1>19
        DEF Next, Poll

-----------------------------------------------------------------------------
(* Who writes which rows.                                                  *)

(* A step of the poller other than these three leaves the timeline alone.  *)
LEMMA RowsLemma ==
  ASSUME TypeOK, [Next]_vars
  PROVE  \/ actions' = actions
         \/ /\ SyncTx
            /\ \E T \in SUBSET Noticed : actions' = actions \union T
         \/ /\ RecordApproval
            /\ \E T : /\ actions' = actions \union T
                      /\ \A a \in T : a.type \in {"approved", "unapproved"}
         \/ /\ CheckFullyApproved
            /\ ~ Announced \/ blind'
            /\ Covered(snap.reviewers, fetched)
            /\ \E T \in SUBSET {FullApproval} : actions' = actions \union T
<1>1. CASE SyncTx
  BY <1>1, RecordedLemma DEF SyncTx
<1>2. CASE RecordApproval
  <2>1. PICK p \in pending :
           \E T \in Recorded(actions, {Action(p.type, p.user, None, now)},
                             Failing) : actions' = actions \union T
    BY <1>2 DEF RecordApproval
  <2>2. Action(p.type, p.user, None, now).type \in {"approved", "unapproved"}
    BY DEF TypeOK, Action
  <2> QED BY <1>2, <2>1, <2>2, RecordedLemma
<1>3. CASE CheckFullyApproved
  <2>1. PICK seen \in BOOLEAN :
           LET due == Covered(snap.reviewers, fetched) /\ ~ seen
           IN  /\ \E T \in Recorded(actions,
                                    IF due THEN {FullApproval} ELSE {},
                                    Failing) : actions' = actions \union T
               /\ blind' = (blind \/ (due /\ Announced))
    <3>1. {Announced} \union (IF Failing THEN {FALSE} ELSE {}) \subseteq BOOLEAN
      BY DEF Announced
    <3> QED BY <1>3, <3>1 DEF CheckFullyApproved
  <2>2. CASE Covered(snap.reviewers, fetched) /\ ~ seen
    BY <1>3, <2>1, <2>2, RecordedLemma
  <2>3. CASE ~ (Covered(snap.reviewers, fetched) /\ ~ seen)
    <3>1. PICK T \in Recorded(actions, {}, Failing) : actions' = actions \union T
      BY <2>1, <2>3
    <3> QED BY <3>1, RecordedLemma
  <2> QED BY <2>2, <2>3
<1>4. CASE ~ SyncTx /\ ~ RecordApproval /\ ~ CheckFullyApproved
  BY <1>4
  DEF Next, Poll, GitLabChange, BotAssign, Tick, Crash, ListMR, MissMR,
      FetchStale, CloseGone, SkipStale, SyncTxFails, ClearApprovers,
      FetchApprovals, FetchApprovalsFails, ReplaceApprovers,
      ReplaceApproversFails, vars
<1> QED BY <1>1, <1>2, <1>3, <1>4

(* No step but a sync forgets a row that is missing, and only the bot adds *)
(* one.                                                                    *)
LEMMA HistoryLemma ==
  ASSUME TypeOK, [Next]_vars, ~ SyncTx
  PROVE  /\ blind => blind'
         /\ \/ unlogged' = unlogged
            \/ \E u \in Users :
                 BotAssign(u) /\ unlogged' = unlogged \union {<<"reviewer", u>>}
<1>1. CASE CheckFullyApproved
  BY <1>1 DEF CheckFullyApproved, TypeOK
<1>2. ASSUME NEW u \in Users, BotAssign(u)
      PROVE  /\ blind' = blind
             /\ \/ unlogged' = unlogged
                \/ unlogged' = unlogged \union {<<"reviewer", u>>}
  BY <1>2 DEF BotAssign
<1>3. CASE UNCHANGED history
  BY <1>3 DEF history
<1> QED BY <1>1, <1>2, <1>3
        DEF Next, Poll, GitLabChange, Tick, Crash, ListMR, MissMR,
            FetchStale, CloseGone, SkipStale, SyncTxFails, ClearApprovers,
            FetchApprovals, FetchApprovalsFails, RecordApproval,
            ReplaceApprovers, ReplaceApproversFails, history, vars

-----------------------------------------------------------------------------
(* A merge and full approval are logged once.                              *)

(* The last conjunct is what makes MergeLoggedOnce inductive: until the    *)
(* database has seen the merge, there is no row for it.                    *)
LogInv ==
  /\ MergeLoggedOnce
  /\ Rows("merged") # {} => mr.state = "merged"

(* The timeline is empty in the initial state.                             *)
LEMMA InitLogInv == Init => LogInv
  BY DEF Init, LogInv, MergeLoggedOnce, Rows

(* The row the transaction writes when it sees a merge.                    *)
MergedRow == Action("merged", None, None, snap.at)

(* The batch holds it when there is a merge to see.                        *)
LEMMA MergeBatch ==
  ASSUME TypeOK, PassInv, pc = "sync", snap.state = "merged"
  PROVE  MergedRow \in SyncBatch(mr, snap)
<1>1. mr.state = "opened"
  BY DEF PassInv
<1>2. MergedRow \in StateChanges(mr, snap)
  BY <1>1 DEF StateChanges, Ended, MergedRow
<1> QED BY <1>1, <1>2 DEF SyncBatch

(* It holds no other row about a merge, whichever row it compares with,    *)
(* and this one only when there is one.                                    *)
LEMMA MergedOnly ==
  ASSUME NEW row, NEW a \in SyncBatch(row, snap), a.type = "merged"
  PROVE  a = MergedRow /\ snap.state = "merged"
<1>1. a \in StateChanges(row, snap)
  BY DEF SyncBatch, LabelChanges, ReviewerChanges, Action
<1> QED BY <1>1 DEF StateChanges, Action, MergedRow, Ended

(* Every step keeps LogInv.                                                *)
LEMMA LogInvStep == TypeOK /\ PassInv /\ LogInv /\ [Next]_vars => LogInv'
<1> SUFFICES ASSUME TypeOK, PassInv, LogInv, [Next]_vars PROVE LogInv'
  OBVIOUS
<1>1. CASE SyncTx
  <2>1. PICK T \in Recorded(actions, Noticed, Failing) :
           /\ actions' = actions \union T
           /\ unlogged' = (unlogged \union Subjects(SyncBatch(mr, snap)))
                            \ Subjects(T)
    BY <1>1 DEF SyncTx
  <2>2. mr'.state = snap.state /\ mr.state # "merged" /\ pc = "sync"
        /\ blind' = blind
    BY <1>1 DEF SyncTx, PassInv, TypeOK, StoredMRs
  <2>3. Rows("merged") = {}
    BY <2>2 DEF LogInv
  <2>4. T \subseteq Noticed
    BY RecordedLemma
  <2>5. \A a \in T : a.type # "fully_approved"
    BY <2>4, NoticedLemma DEF SyncTypes
  <2>6. Rows("merged")' = {a \in T : a.type = "merged"}
    BY <2>1, <2>3 DEF Rows
  <2>7. \A a \in T : a.type = "merged" =>
           a = MergedRow /\ snap.state = "merged"
    BY <2>4, MergedOnly DEF Noticed
  <2>8. ASSUME mr'.state = "merged", <<"merged", None>> \notin unlogged'
        PROVE  Rows("merged")' # {}
    <3>1. MergedRow \in SyncBatch(mr, snap)
      BY <2>2, <2>8, MergeBatch
    <3>2. Subject(MergedRow) = <<"merged", None>>
      BY DEF Subject, MergedRow, Action, ReviewerTypes, BlockLabelTypes
    <3>3. <<"merged", None>> \in Subjects(T)
      BY <2>1, <2>8, <3>1, <3>2 DEF Subjects
    <3>4. PICK a \in T : Subject(a) = <<"merged", None>>
      BY <3>3 DEF Subjects
    <3>5. a.type = "merged"
      BY <3>4 DEF Subject
    <3> QED BY <2>6, <3>5
  <2>9. \A a, b \in Rows("merged")' : a = b
    BY <2>6, <2>7
  <2>10. Rows("merged")' # {} => mr'.state = "merged"
    BY <2>2, <2>6, <2>7
  <2>11. Rows("fully_approved")' = Rows("fully_approved")
    BY <2>1, <2>5 DEF Rows
  <2>12. ~ blind' => \A a, b \in Rows("fully_approved")' : a = b
    BY <2>2, <2>11 DEF LogInv, MergeLoggedOnce
  <2> QED BY <2>8, <2>9, <2>10, <2>12 DEF LogInv, MergeLoggedOnce
<1>2. CASE ~ SyncTx
  <2>1. Rows("merged")' = Rows("merged")
    BY <1>2, RowsLemma DEF Rows, FullApproval, Action
  <2>2. \/ mr'.state = mr.state
        \/ mr.state = "opened" /\ mr'.state = "closed"
    <3>1. CASE \E u \in Users : BotAssign(u)
      BY <3>1 DEF BotAssign, TypeOK, StoredMRs
    <3>2. CASE CloseGone
      BY <3>2 DEF CloseGone, TypeOK, StoredMRs
    <3>3. CASE ClearApprovers
      BY <3>3 DEF ClearApprovers, TypeOK, StoredMRs
    <3>4. CASE ReplaceApprovers
      BY <3>4 DEF ReplaceApprovers, TypeOK, StoredMRs
    <3>5. CASE mr' = mr
      BY <3>5
    <3> QED BY <1>2, <3>1, <3>2, <3>3, <3>4, <3>5
            DEF Next, Poll, GitLabChange, Tick, Crash, ListMR, MissMR,
                FetchStale, SkipStale, SyncTxFails, FetchApprovals,
                FetchApprovalsFails, RecordApproval, ReplaceApproversFails,
                CheckFullyApproved, gitlab, vars
  <2>3. /\ blind => blind'
        /\ <<"merged", None>> \in unlogged => <<"merged", None>> \in unlogged'
    BY <1>2, HistoryLemma
  <2>4. ~ blind' => \A a, b \in Rows("fully_approved")' : a = b
    <3>1. CASE Rows("fully_approved")' = Rows("fully_approved")
      BY <2>3, <3>1 DEF LogInv, MergeLoggedOnce
    <3>2. CASE ~ Announced /\ \E T \in SUBSET {FullApproval} :
                                  actions' = actions \union T
      BY <3>2 DEF Announced, Rows
    <3>3. CASE blind'
      BY <3>3
    <3> QED BY <1>2, <3>1, <3>2, <3>3, RowsLemma DEF Rows
  <2> QED BY <2>1, <2>2, <2>3, <2>4 DEF LogInv, MergeLoggedOnce
<1> QED BY <1>1, <1>2

-----------------------------------------------------------------------------
(* The timeline replays.                                                   *)

FlagTypes == {"draft_toggled"} \union ReviewerTypes \union BlockLabelTypes

(* No row about a flag is ahead of the clock, and a merge request that is  *)
(* not in the database has none.                                           *)
ReplayInv ==
  /\ \A a \in actions : a.type \in FlagTypes =>
       a.ts <= now /\ mr.state # "absent"
  /\ LogReplays

(* The timeline is empty in the initial state.                             *)
LEMMA InitReplayInv == Init => ReplayInv
  BY DEF Init, ReplayInv, LogReplays, DraftReplays, ReviewerReplays,
         BlockLabelReplays, Rows

(* What a sync writes about a flag has the time of the sync and tells the  *)
(* new value of the flag, even if the old one could not be read.           *)
LEMMA FlagRows ==
  ASSUME TypeOK, NEW a \in Noticed, a.type \in FlagTypes
  PROVE  /\ a.ts = now /\ mr.state # "absent"
         /\ a.type = "draft_toggled" => ((a.meta = "draft") <=> snap.draft)
         /\ a.type \in ReviewerTypes =>
              ((a.type = "reviewer_assigned") <=> a.user \in snap.reviewers)
         /\ a.type \in BlockLabelTypes =>
              ((a.type = "block_label_added") <=> a.meta \in snap.labels)
<1>1. PICK row \in {mr, Unread(mr)} : a \in SyncBatch(row, snap)
  BY DEF Noticed
<1>2. row.state = mr.state
  BY DEF Unread, TypeOK, StoredMRs
<1>3. /\ mr.state # "absent"
      /\ \/ a \in StateChanges(row, snap)
         \/ a \in LabelChanges(row, snap)
         \/ a \in ReviewerChanges(row, snap)
  BY <1>1, <1>2 DEF SyncBatch
<1> USE DEF FlagTypes, ReviewerTypes, BlockLabelTypes, Action
<1>4. CASE a \in StateChanges(row, snap)
  BY <1>3, <1>4 DEF StateChanges, Ended
<1>5. CASE a \in LabelChanges(row, snap)
  BY <1>3, <1>5 DEF LabelChanges
<1>6. CASE a \in ReviewerChanges(row, snap)
  BY <1>3, <1>6 DEF ReviewerChanges
<1> QED BY <1>3, <1>4, <1>5, <1>6

(* A flag that changes is among the subjects of the batch.                 *)
LEMMA BatchComplete ==
  ASSUME TypeOK, mr.state # "absent"
  PROVE  /\ mr.draft # snap.draft =>
              <<"draft_toggled", None>> \in Subjects(SyncBatch(mr, snap))
         /\ \A u \in Users : ~ (u \in snap.reviewers <=> u \in mr.reviewers) =>
              <<"reviewer", u>> \in Subjects(SyncBatch(mr, snap))
         /\ \A l \in BlockLabels : ~ (l \in snap.labels <=> l \in mr.labels) =>
              <<"block_label", l>> \in Subjects(SyncBatch(mr, snap))
<1>1. SyncBatch(mr, snap) = StateChanges(mr, snap)
                              \union LabelChanges(mr, snap)
                              \union ReviewerChanges(mr, snap)
  BY DEF SyncBatch
<1> USE DEF Subject, Subjects, Action, ReviewerTypes, BlockLabelTypes
<1>2. ASSUME mr.draft # snap.draft
      PROVE  <<"draft_toggled", None>> \in Subjects(SyncBatch(mr, snap))
  <2> DEFINE a == Action("draft_toggled", None,
                         IF snap.draft THEN "draft" ELSE "ready", now)
  <2>1. a \in SyncBatch(mr, snap)
    BY <1>1, <1>2 DEF StateChanges
  <2>2. Subject(a) = <<"draft_toggled", None>>
    OBVIOUS
  <2> QED BY <2>1, <2>2
<1>3. ASSUME NEW u \in Users, NEW type \in ReviewerTypes,
             Action(type, u, None, now) \in SyncBatch(mr, snap)
      PROVE  <<"reviewer", u>> \in Subjects(SyncBatch(mr, snap))
  <2>1. Subject(Action(type, u, None, now)) = <<"reviewer", u>>
    OBVIOUS
  <2> QED BY <1>3, <2>1
<1>4. ASSUME NEW l \in BlockLabels, NEW type \in BlockLabelTypes,
             Action(type, None, l, now) \in SyncBatch(mr, snap)
      PROVE  <<"block_label", l>> \in Subjects(SyncBatch(mr, snap))
  <2>1. Subject(Action(type, None, l, now)) = <<"block_label", l>>
    OBVIOUS
  <2> QED BY <1>4, <2>1
<1>5. \A u \in Users : ~ (u \in snap.reviewers <=> u \in mr.reviewers) =>
         \E type \in ReviewerTypes :
           Action(type, u, None, now) \in SyncBatch(mr, snap)
  BY <1>1 DEF ReviewerChanges
<1>6. \A l \in BlockLabels : ~ (l \in snap.labels <=> l \in mr.labels) =>
         \E type \in BlockLabelTypes :
           Action(type, None, l, now) \in SyncBatch(mr, snap)
  BY <1>1 DEF LabelChanges
<1> QED BY <1>2, <1>3, <1>4, <1>5, <1>6

(* A row written now is among the latest.                                  *)
LEMMA LatestLemma ==
  ASSUME NEW X, NEW a \in X, \A x \in X : x.ts <= a.ts
  PROVE  a \in Latest(X)
  BY DEF Latest

(* The transaction keeps ReplayInv: a flag has a new row, which tells its  *)
(* value, or it has not changed, or it is unlogged.                        *)
LEMMA SyncReplays ==
  ASSUME TypeOK, ReplayInv, SyncTx
  PROVE  ReplayInv'
<1>1. PICK T \in Recorded(actions, Noticed, Failing) :
         /\ actions' = actions \union T
         /\ unlogged' = (unlogged \union Subjects(SyncBatch(mr, snap)))
                          \ Subjects(T)
  BY DEF SyncTx
<1>2. T \subseteq Noticed
  BY RecordedLemma
<1>3. /\ mr'.state = snap.state /\ mr'.draft = snap.draft
      /\ mr'.labels = snap.labels /\ mr'.reviewers = snap.reviewers
      /\ now' = now /\ now \in Nat
      /\ mr'.state # "absent"
  BY DEF SyncTx, TypeOK, StoredMRs, Snapshots, GitLabStates, time
<1>4. \A a \in actions' : a.type \in FlagTypes => a.ts <= now
  BY <1>1, <1>2, <1>3, FlagRows DEF ReplayInv
<1>5. \A x : x \notin unlogged' /\ x \notin Subjects(T) =>
         x \notin unlogged /\ x \notin Subjects(SyncBatch(mr, snap))
  BY <1>1
<1>6. ASSUME <<"draft_toggled", None>> \notin unlogged'
      PROVE  DraftReplays'
  <2> DEFINE X == {a \in actions : a.type = "draft_toggled"}
             Y == {a \in actions' : a.type = "draft_toggled"}
  <2>1. SUFFICES ASSUME Y # {}
                 PROVE  \E a \in Latest(Y) : (a.meta = "draft") <=> snap.draft
    BY <1>3 DEF DraftReplays, Rows, Latest
  <2>2. CASE \E t \in T : t.type = "draft_toggled"
    <3>1. PICK t \in T : t.type = "draft_toggled"
      BY <2>2
    <3>2. t.ts = now /\ ((t.meta = "draft") <=> snap.draft)
      BY <1>2, <3>1, FlagRows DEF FlagTypes
    <3>3. t \in Y /\ \A x \in Y : x.ts <= t.ts
      BY <1>1, <1>4, <3>1, <3>2 DEF FlagTypes
    <3> QED BY <3>2, <3>3, LatestLemma
  <2>3. CASE ~ \E t \in T : t.type = "draft_toggled"
    <3>1. X = Y
      BY <1>1, <2>3
    <3>2. <<"draft_toggled", None>> \notin Subjects(T)
      BY <2>3 DEF Subjects, Subject
    <3>3. mr.state # "absent"
      BY <2>1, <3>1 DEF ReplayInv, FlagTypes
    <3>4. mr.draft = snap.draft
      BY <1>5, <1>6, <3>2, <3>3, BatchComplete
    <3>5. DraftReplays
      BY <1>5, <1>6, <3>2 DEF ReplayInv, LogReplays
    <3> QED BY <2>1, <3>1, <3>4, <3>5 DEF DraftReplays, Rows
  <2> QED BY <2>2, <2>3
<1>7. ASSUME NEW u \in Users, <<"reviewer", u>> \notin unlogged'
      PROVE  ReviewerReplays(u)'
  <2> DEFINE X == {a \in actions : a.type \in ReviewerTypes /\ a.user = u}
             Y == {a \in actions' : a.type \in ReviewerTypes /\ a.user = u}
  <2>1. SUFFICES ASSUME Y # {}
                 PROVE  \E a \in Latest(Y) : (a.type = "reviewer_assigned")
                                              <=> u \in snap.reviewers
    BY <1>3 DEF ReviewerReplays, Latest, ReviewerTypes
  <2>2. CASE \E t \in T : t.type \in ReviewerTypes /\ t.user = u
    <3>1. PICK t \in T : t.type \in ReviewerTypes /\ t.user = u
      BY <2>2
    <3>2. t.ts = now
          /\ ((t.type = "reviewer_assigned") <=> u \in snap.reviewers)
      BY <1>2, <3>1, FlagRows DEF FlagTypes
    <3>3. t \in Y /\ \A x \in Y : x.ts <= t.ts
      BY <1>1, <1>4, <3>1, <3>2 DEF FlagTypes
    <3> QED BY <3>2, <3>3, LatestLemma
  <2>3. CASE ~ \E t \in T : t.type \in ReviewerTypes /\ t.user = u
    <3>1. X = Y
      BY <1>1, <2>3
    <3>2. <<"reviewer", u>> \notin Subjects(T)
      <4>1. ASSUME NEW t \in T, Subject(t) = <<"reviewer", u>>
            PROVE  FALSE
        <5>1. t.type \in SyncTypes
          BY <1>2, NoticedLemma
        <5>2. t.type \in ReviewerTypes
          BY <4>1, <5>1 DEF Subject, SyncTypes
        <5> QED BY <2>3, <4>1, <5>2 DEF Subject
      <4> QED BY <4>1 DEF Subjects
    <3>3. mr.state # "absent"
      BY <2>1, <3>1 DEF ReplayInv, FlagTypes
    <3>4. u \in mr.reviewers <=> u \in snap.reviewers
      BY <1>5, <1>7, <3>2, <3>3, BatchComplete
    <3>5. ReviewerReplays(u)
      BY <1>5, <1>7, <3>2 DEF ReplayInv, LogReplays
    <3> QED BY <2>1, <3>1, <3>4, <3>5 DEF ReviewerReplays
  <2> QED BY <2>2, <2>3
<1>8. ASSUME NEW l \in BlockLabels, <<"block_label", l>> \notin unlogged'
      PROVE  BlockLabelReplays(l)'
  <2> DEFINE X == {a \in actions : a.type \in BlockLabelTypes /\ a.meta = l}
             Y == {a \in actions' : a.type \in BlockLabelTypes /\ a.meta = l}
  <2>1. SUFFICES ASSUME Y # {}
                 PROVE  \E a \in Latest(Y) : (a.type = "block_label_added")
                                              <=> l \in snap.labels
    BY <1>3 DEF BlockLabelReplays, Latest, BlockLabelTypes
  <2>2. CASE \E t \in T : t.type \in BlockLabelTypes /\ t.meta = l
    <3>1. PICK t \in T : t.type \in BlockLabelTypes /\ t.meta = l
      BY <2>2
    <3>2. t.ts = now
          /\ ((t.type = "block_label_added") <=> l \in snap.labels)
      BY <1>2, <3>1, FlagRows DEF FlagTypes
    <3>3. t \in Y /\ \A x \in Y : x.ts <= t.ts
      BY <1>1, <1>4, <3>1, <3>2 DEF FlagTypes
    <3> QED BY <3>2, <3>3, LatestLemma
  <2>3. CASE ~ \E t \in T : t.type \in BlockLabelTypes /\ t.meta = l
    <3>1. X = Y
      BY <1>1, <2>3
    <3>2. <<"block_label", l>> \notin Subjects(T)
      <4>1. ASSUME NEW t \in T, Subject(t) = <<"block_label", l>>
            PROVE  FALSE
        <5>1. t.type \in SyncTypes
          BY <1>2, NoticedLemma
        <5>2. t.type \in BlockLabelTypes
          BY <4>1, <5>1 DEF Subject, SyncTypes
        <5>3. t.type \notin ReviewerTypes
          BY <5>2 DEF ReviewerTypes, BlockLabelTypes
        <5> QED BY <2>3, <4>1, <5>2, <5>3 DEF Subject
      <4> QED BY <4>1 DEF Subjects
    <3>3. mr.state # "absent"
      BY <2>1, <3>1 DEF ReplayInv, FlagTypes
    <3>4. l \in mr.labels <=> l \in snap.labels
      BY <1>5, <1>8, <3>2, <3>3, BatchComplete
    <3>5. BlockLabelReplays(l)
      BY <1>5, <1>8, <3>2 DEF ReplayInv, LogReplays
    <3> QED BY <2>1, <3>1, <3>4, <3>5 DEF BlockLabelReplays
  <2> QED BY <2>2, <2>3
<1>9. LogReplays'
  BY <1>6, <1>7, <1>8 DEF LogReplays
<1> QED BY <1>3, <1>4, <1>9 DEF ReplayInv

(* Every other step leaves the rows about flags alone, and the flags,      *)
(* except that the bot adds a reviewer, who has no row.                    *)
LEMMA OtherSteps ==
  ASSUME TypeOK, [Next]_vars, ~ SyncTx
  PROVE  /\ {a \in actions' : a.type \in FlagTypes}
              = {a \in actions : a.type \in FlagTypes}
         /\ unlogged \subseteq unlogged'
         /\ mr'.draft = mr.draft /\ mr'.labels = mr.labels
         /\ \A u \in Users : <<"reviewer", u>> \notin unlogged' =>
              (u \in mr'.reviewers <=> u \in mr.reviewers)
         /\ mr.state # "absent" => mr'.state # "absent"
         /\ now' \in Nat /\ now <= now'
<1>1. {a \in actions' : a.type \in FlagTypes}
        = {a \in actions : a.type \in FlagTypes}
  BY RowsLemma DEF FlagTypes, ReviewerTypes, BlockLabelTypes, FullApproval,
                   Action
<1>2. unlogged \subseteq unlogged'
  BY HistoryLemma
<1>3. now' = now \/ now' = now + 1
  BY DEF Next, Poll, GitLabChange, BotAssign, Tick, Crash, ListMR, MissMR,
         FetchStale, CloseGone, SkipStale, SyncTxFails, ClearApprovers,
         FetchApprovals, FetchApprovalsFails, RecordApproval,
         ReplaceApprovers, ReplaceApproversFails, CheckFullyApproved,
         StartPass, time, vars
<1>4. /\ mr'.draft = mr.draft /\ mr'.labels = mr.labels
      /\ \A u \in Users : <<"reviewer", u>> \notin unlogged' =>
           (u \in mr'.reviewers <=> u \in mr.reviewers)
      /\ mr.state # "absent" => mr'.state # "absent"
  <2>1. CASE \E u \in Users : BotAssign(u)
    BY <2>1 DEF BotAssign, TypeOK, StoredMRs
  <2>2. CASE CloseGone
    BY <2>2 DEF CloseGone, TypeOK, StoredMRs
  <2>3. CASE ClearApprovers
    BY <2>3 DEF ClearApprovers, TypeOK, StoredMRs
  <2>4. CASE ReplaceApprovers
    BY <2>4 DEF ReplaceApprovers, TypeOK, StoredMRs
  <2>5. CASE mr' = mr
    BY <2>5
  <2> QED BY <2>1, <2>2, <2>3, <2>4, <2>5
          DEF Next, Poll, GitLabChange, Tick, Crash, ListMR, MissMR,
              FetchStale, SkipStale, SyncTxFails, FetchApprovals,
              FetchApprovalsFails, RecordApproval, ReplaceApproversFails,
              CheckFullyApproved, gitlab, vars
<1>5. now' \in Nat /\ now <= now'
  BY <1>3 DEF TypeOK
<1> QED BY <1>1, <1>2, <1>4, <1>5

(* Every step keeps ReplayInv.                                             *)
LEMMA ReplayInvStep ==
  ASSUME TypeOK, ReplayInv, [Next]_vars
  PROVE  ReplayInv'
<1>1. CASE SyncTx
  BY <1>1, SyncReplays
<1>2. CASE ~ SyncTx
  <2>1. /\ {a \in actions' : a.type \in FlagTypes}
             = {a \in actions : a.type \in FlagTypes}
        /\ unlogged \subseteq unlogged'
        /\ mr'.draft = mr.draft /\ mr'.labels = mr.labels
        /\ \A u \in Users : <<"reviewer", u>> \notin unlogged' =>
             (u \in mr'.reviewers <=> u \in mr.reviewers)
        /\ mr.state # "absent" => mr'.state # "absent"
        /\ now' \in Nat /\ now <= now'
    BY <1>2, OtherSteps
  <2>2. \A a \in actions' : a.type \in FlagTypes =>
           a.ts <= now' /\ mr'.state # "absent"
    BY <2>1 DEF ReplayInv, TypeOK, Actions
  <2>3. Rows("draft_toggled")' = Rows("draft_toggled")
    BY <2>1 DEF Rows, FlagTypes
  <2>4. DraftReplays => DraftReplays'
    BY <2>1, <2>3 DEF DraftReplays, Latest
  <2>5. ASSUME NEW u \in Users, <<"reviewer", u>> \notin unlogged'
        PROVE  ReviewerReplays(u)'
    <3>1. {a \in actions' : a.type \in ReviewerTypes /\ a.user = u}
            = {a \in actions : a.type \in ReviewerTypes /\ a.user = u}
      BY <2>1 DEF FlagTypes
    <3>2. ReviewerReplays(u)
      BY <2>1, <2>5 DEF ReplayInv, LogReplays
    <3> QED BY <2>1, <2>5, <3>1, <3>2 DEF ReviewerReplays, Latest, ReviewerTypes
  <2>6. ASSUME NEW l \in BlockLabels, <<"block_label", l>> \notin unlogged'
        PROVE  BlockLabelReplays(l)'
    <3>1. {a \in actions' : a.type \in BlockLabelTypes /\ a.meta = l}
            = {a \in actions : a.type \in BlockLabelTypes /\ a.meta = l}
      BY <2>1 DEF FlagTypes
    <3>2. BlockLabelReplays(l)
      BY <2>1, <2>6 DEF ReplayInv, LogReplays
    <3> QED BY <2>1, <3>1, <3>2 DEF BlockLabelReplays, Latest, BlockLabelTypes
  <2>7. LogReplays'
    BY <2>1, <2>4, <2>5, <2>6 DEF LogReplays, ReplayInv
  <2> QED BY <2>2, <2>7 DEF ReplayInv
<1> QED BY <1>1, <1>2

-----------------------------------------------------------------------------
(* The theorems.                                                           *)

IInv == TypeOK /\ PassInv /\ LogInv

(* The inductive invariant holds in every reachable state.                 *)
LEMMA Invariance == Spec => []IInv
<1>1. Init => IInv
  BY InitTypeOK, InitPassInv, InitLogInv DEF IInv
<1>2. IInv /\ [Next]_vars => IInv'
  BY TypeOKStep, PassInvStep, LogInvStep DEF IInv
<1> QED BY <1>1, <1>2, PTL DEF Spec

(* Whatever fails, crashes or is fetched twice, a merge that the database  *)
(* mirrors has one row on the timeline, from which its notification is     *)
(* made, or none if the only write of it failed; and full approval has at  *)
(* most one, unless the lookup of an older one failed.                     *)
THEOREM MergesLogged == Spec => []MergeLoggedOnce
<1>1. IInv => MergeLoggedOnce
  BY DEF IInv, LogInv
<1> QED BY <1>1, Invariance, PTL

(* Full approval is announced only in a state whose stored approvers cover *)
(* the stored reviewers, although reviewers and approvals come from two    *)
(* calls to GitLab and the approvers are stored outside the transaction.   *)
THEOREM FullApprovalIsSound == Spec => FullApprovalSound
<1>1. IInv /\ [Next]_vars =>
        [Rows("fully_approved")' # Rows("fully_approved")
           => Covered(mr.reviewers, mr.approvers)]_vars
  <2> SUFFICES ASSUME IInv, [Next]_vars,
                      Rows("fully_approved")' # Rows("fully_approved")
               PROVE  Covered(mr.reviewers, mr.approvers)
    OBVIOUS
  <2>1. \A a \in Noticed : a.type # "fully_approved"
    BY NoticedLemma DEF SyncTypes, IInv
  <2>2. CheckFullyApproved /\ Covered(snap.reviewers, fetched)
    BY <2>1, RowsLemma DEF Rows, IInv
  <2>3. pc = "check"
    BY <2>2 DEF CheckFullyApproved
  <2>4. fetched # {}
    BY <2>2 DEF Covered
  <2> QED BY <2>2, <2>3, <2>4 DEF Covered, IInv, PassInv
<1> QED BY <1>1, Invariance, PTL DEF Spec, FullApprovalSound

(* Whatever crashes, fails, is synced twice or falls into the window of    *)
(* recordMRAction, replaying the timeline gives the draft flag, every      *)
(* reviewer and every block label that the database mirrors, but for those *)
(* whose last change was left without a row.                               *)
THEOREM TimelineReplays == Spec => []LogReplays
<1>1. Init => TypeOK /\ ReplayInv
  BY InitTypeOK, InitReplayInv
<1>2. TypeOK /\ ReplayInv /\ [Next]_vars => (TypeOK /\ ReplayInv)'
  BY TypeOKStep, ReplayInvStep
<1>3. TypeOK /\ ReplayInv => LogReplays
  BY DEF ReplayInv
<1> QED BY <1>1, <1>2, <1>3, PTL DEF Spec
==============================================================================

# DevStreamlineBot in TLA+

A verification project for DevStreamlineBot, a Go bot that mirrors GitLab merge
requests (MRs) into SQLite, assigns reviewers, derives a review state, measures
SLAs, automates release branches, and reports all of it to VK Teams chats.

## The system

One process, one database, two services it does not control (GitLab, the
VK Teams API). What runs concurrently:

| goroutine | code | what it does |
|---|---|---|
| ticker loop | `main.go:154-174` | one *pass* per `poll_interval`, strictly in sequence: repositories, merge requests, reviewer assignment, state messages, removal messages, full-approval messages, cleanup, auto-release, release descriptions, release notifications, deploy jobs |
| chat commands | `polling/vk.go`, `consumers/vk_command_consumer.go` | events of the chat service go through an unbuffered channel to one consumer that handles them one by one |
| personal digest | `consumers/personal_digest_consumer.go` | a ticker of a minute |
| review digest | `consumers/review_digest_consumer.go` | a daily timer |
| user poller | `polling/users.go` | e-mail addresses of GitLab users |

The goroutines share nothing but the database; GitLab's users act at any time,
every call may fail, and the process may die and restart between any two writes.
Nothing is kept in memory from one pass to the next.

### Components

* **Merge request poller** (`polling/mrs.go`). State: `MergeRequest` rows with
  labels, reviewers, approvers; `MRComment` rows; `MRAction` rows, an append-only
  timeline. A pass lists the opened MRs of a repository, then re-fetches every
  row the database still holds as opened and the list did not return; each MR is
  synced in a transaction that compares the old row with the snapshot and
  records actions, then - outside of that transaction - its approvals and its
  discussions. Hard: two or three API calls make one picture, `recordMRAction`
  has a dedup window and tells nobody of its errors, half-failed syncs are
  retried in the same pass, the process may die between the transaction and what
  follows it. Correct when the mirror converges, the timeline replays to the
  mirror but for rows that were never written, one-off events are logged once.
* **Derived state** (`utils/mrstate.go`). No state of its own: `DeriveState`
  reads comments, and the times in each state, blocked time and thread times are
  replayed from the timeline. Correct when it agrees with GitLab's discussions
  and with the timeline.
* **State change messages** (`consumers/mr_reviewer_consumer.go:636-838`). State:
  `MRAction.Notified`, `MRNotificationState`. Sends, then records, then marks.
  Correct when an action marked was told unless an error was dropped, when nobody
  is called back for nothing, and when nothing stays unhandled.
* **Reviewer assignment** (`consumers/mr_reviewer_consumer.go:28-634`). Chooses
  reviewers from label pools and default pools, writes them to GitLab and then to
  the database.
* **Release notifications** (`consumers/release_notification_consumer.go`). Reads
  `release_ready_label_added` and `merged` actions, diffs the release MR's
  description with the last announced one, and writes `MRNotificationState` rows
  next to those of the state messages.
* **Auto-release** (`consumers/auto_release_consumer.go`). No state of its own:
  finds or creates the release branch and MR in GitLab, retargets MRs onto it,
  rewrites its description.
* **Deploy tracking** (`consumers/deploy_tracking_consumer.go`). State:
  `DeployTrackingRule`, `TrackedDeployJob`; a running and a finished message per
  job. Hard: a row is saved whole after commands may have deleted it; a message
  is sent before its flag is stored. Correct when chats hear of a start and an
  end at most once, never too early, never in the wrong order.
* **Chat commands** (`consumers/vk_command_consumer.go`). Writes the settings
  that all of the above read: subscriptions, pools, labels, SLAs, holidays,
  vacations, digest preferences, auto-release; most are soft-deleted rows under
  unique indexes.
* **Personal digest** (`consumers/personal_digest_consumer.go`) and **review
  digest**. State: `LastSentAt` of a preference. Hard: one exact minute per day,
  in the user's zone, and a command that saves the same row. Correct when a user
  gets one digest a day and misses none.
* **SLA and working time** (`utils/sla.go`) and the **cache** for digests
  (`utils/mrcache.go`). Pure: durations over weekends, holidays and block labels,
  once with queries and once over lists. Correct when both say the same, and what
  the calendar says.
* **Reference data** (`polling/users.go`, `polling/repos.go`, `utils/backfill.go`),
  **queries and mentions** (`utils/dbutils.go`, `utils/mention.go`).

### How the components interact

* GitLab -> poller -> database -> everybody else. The poller is the only writer
  of the mirror, but for the reviewers, which the assignment also writes, to
  GitLab first and then to the database.
* `MRAction` connects the poller to the state messages, the cleanup and the
  release notifications; they share its `Notified` flag. SLA code and digests
  replay it.
* `MRNotificationState` is appended to by the state messages and by the release
  notifications; each reads the other's latest row.
* Chat commands write settings between any two steps of a tick.
* A tick runs its parts in one goroutine and in the order of `main.go`; chat
  commands are handled one by one in another.

### What is hard here

Every entry is a hazard of `PROJECT.json`, at its line. In short: several calls
make one picture of a merge request while GitLab moves; a write that fails half
way is retried in the same pass over data that was partly committed; the process
dies between a send and the write that remembers it, or between a row and the
action that announces it; two consumers share a flag and a "latest row"; errors
of writes are dropped and error answers are read as "nothing there"; listings
shift while their members are moved; label groups share reviewers; settings are soft-deleted under unique
indexes.

## The modules

| module | models | TLA+ state <-> code |
|---|---|---|
| `ActionLog` | `recordMRAction` | the dedup window over a set of `MRAction` rows, and what calls that may fail add to it (`Recorded`); `Latest`, the reader the SLA code uses |
| `MRSync` | `polling/mrs.go` without discussions | `gl`: the MR in GitLab; `mr`: its row, labels, reviewers, approvers; `actions`: `MRAction`; `pc`, `snap`, `fetched`, `pending`: the locals of a pass |
| `ReviewCycle` | `syncMRDiscussions`, `DeriveState`, `ProcessStateChangeNotifications`, `CleanupOldUnnotifiedActions` | `comments`: `MRComment`; `actions`; `notified`: `NotifiedState` of the latest `MRNotificationState`; `todo`, `left`, `seen`, `batch`: loops in progress |
| `ReleaseNotify` | `consumers/release_notification_consumer.go` and the tables it shares | `latest`: the latest `MRNotificationState`; `pending`: actions not marked; `subscribed`: is there a `ReleaseSubscription` |
| `AutoRelease` | `consumers/auto_release_consumer.go`, `/auto_release_branch`, `/spawn_branch`, `/add_feature_release_tag`, `/add_block_label` | `mrs`, `releases`, `branches`: GitLab; `config`: `AutoReleaseBranchConfig`; `labels`: which of `FeatureReleaseLabel` and `BlockLabel` are configured; `names`: those the tick has read; `page`, `more`, `todo`, `gone`, `there`, `current`: its other locals |
| `ReviewerAssignment` | `AssignReviewers` and the commands that keep its pools | `mr`, `db`: GitLab's and the database's copy; `settings`, `vacation`; `needed`, `groups`, `others`, `picked`: the locals of the choice |
| `Subscriptions` | `/subscribe`, `/unsubscribe` and the configuring commands | `subs`: how many live `RepositorySubscription` rows a repository has of each chat; `rows`: the rows of the soft-deleted tables, each never made, live or deleted; `pool`: `PossibleReviewer` |
| `DeployNews` | nothing of the code: what chats are promised of deploy jobs | `status` of the jobs; `heard`: the last news of each rule's chats |
| `DeployTracking` | `PollDeployJobs`, `/track_deploy`, `/untrack_deploy` | `gl`: the jobs; `rules`: `DeployTrackingRule`; `rows`: `TrackedDeployJob`; `read`, `listing`, `todo`, `at`, `tracked`: the locals of a pass; `deleting`: a command half done |
| `DailyDigest` | the personal digest's ticker and `/daily_digest` | `row`: `DailyDigestPreference`; `pref`, `today`: the ticker's copy and day; `draft`: the command's copy |
| `WorkingTime` | `utils/sla.go` | operators only: instants are numbers, days are multiples of `DayLength` |
| `Timeline` | the rows that a merge request leaves behind over days | `draft`, `labels`, `blockLabels`, `holidays`, `comments`, `actions`: the tables, each note with its own `resolved_at`; `resolvedAt`: when GitLab has a discussion resolved; `since`, `waits`, `blocked`: history, what was really the case |
| `StateTimes` | the times of `utils/mrstate.go` that are found with queries | operators on `Timeline`'s tables |
| `CachedTimes` | the `...FromCache` twins over the lists of `utils/mrcache.go` | operators on `Timeline`'s tables |

`...Proofs` modules hold the theorems of the module they are named after;
`CommandProofs` those of the two whose state chat commands keep, `Subscriptions`
and `DailyDigest`, and `TimelineProofs` those of `Timeline` and of the three
modules of operators around it (`WorkingTime`, `StateTimes`, `CachedTimes`).
`MC...` modules and `.cfg` files are TLC's instances. `ReviewCycle` takes `MRSync`'s part
of a tick as one step (`Mirror`), `ReleaseNotify` takes those of both as one step
each, `ReviewerAssignment` that of the poller: each module details the step that
the others take whole, and what they share (the tables) is a variable of each.
`CachedTimes` extends `StateTimes`, which extends `Timeline`, which extends
`WorkingTime` and `ActionLog`: the clocks read a timeline as the dedup window of
`ActionLog` leaves it. `DeployTracking` instantiates `DeployNews`, its abstract
specification, with `status` and `heard` as the refinement mapping.

One action is one stretch of code between two points where something else can
happen: a call to GitLab or the chat service, a commit, or a read of the
database that another goroutine may invalidate. Several actions of a module are
failures (`...Fails`: a call or write returned an error and the code took its
error path) and crashes (`Crash`: `main` starts again and only the database is
left). In `Timeline` one action is one poll or one command. `PROJECT.json` maps
every definition to its lines.

Definitions that begin with the comment "Fault" are variants of the definition
below them, as a plausible slip would have it. Nothing uses them: they exist so
that one can exchange them for the original and see the property fail.

### Errors the code drops

Much of this code goes on after an error, and the models do too. History
variables remember where it did, and the properties name exactly these as their
exceptions: everything else must hold also when calls fail.

* `recordMRAction` logs the error of its write and reads any error of its lookup
  as "no duplicate" (`polling/mrs.go:43`, `:57`): with faults, a call adds its row
  or does not, whatever the timeline holds (`ActionLog!Recorded`). `MRSync`
  remembers in `unlogged` what changed last without a row, `ReviewCycle` in `torn`
  the comments without an action, `Timeline` in `unlogged` and `lossy` drafts and
  block labels.
* The lookup for an earlier full approval reads an error as "none"
  (`polling/mrs.go:350`; `blind` in `MRSync`). Reviewers and labels of the old row
  that cannot be read count as none (`Unread`).
* The state messages drop the error of counting discussions, of reading the last
  state (then the actions are marked and nobody is told) and of writing the new
  one (`consumers/mr_reviewer_consumer.go:766`, `:807`; `blind` and `unsaved` in
  `ReviewCycle`).
* The release notifier drops the errors of its label queries, so that a release
  looks like none and its merge is marked untold
  (`consumers/release_notification_consumer.go:63`, `:403`; `misread` in
  `ReleaseNotify`), and those of its writes, after the message
  (`:115`, `:263`; `unsaved`).
* The tick of auto-release reads the feature release labels once, at its start, and
  the block labels once, before its last loop, and takes an error for "none"
  (`consumers/auto_release_consumer.go:71`, `:102`; `names` in `AutoRelease`).
* `/subscribe` takes an error of either owner lookup for "nobody has it"
  (`consumers/vk_command_consumer.go:180`, `:185`; `Found` and `misread` in
  `Subscriptions`).
* `/untrack_deploy` ignores the error of its first deletion
  (`consumers/vk_command_consumer.go:2339`; `UntrackRows` in `DeployTracking`).

### Faithful details worth knowing

* `syncMRApprovals` returns a nil slice when the MR has no approvers, so the last
  withdrawn approval is not stored (`MRSync!StoredApprovers` keeps the old ones
  for an empty answer).
* A take-over leaves release labels, feature release labels and Jira prefixes as
  the old chat had them (`Kept` in `Subscriptions`), and copies none.
* The stale re-fetch of a pass also takes up MRs whose sync failed in the same
  pass; the transaction may have committed before.
* A comment and its action are two transactions; notes of one discussion are
  re-flagged one after the other.
* The state messages compare with the latest notification row whoever wrote it;
  release rows have no state.
* `findOpenReleaseMR` answers "none" for an error (`misread` remembers it).
* `branchExists` answers "yes" for an error other than 404.
* The reviewers written to GitLab are the database's and the new ones.
* Cleared settings stay in their unique index: a cleared auto-release
  configuration, a removed holiday, a replaced release manager, an untracked
  deploy rule cannot be made again.
* `Save` writes a whole row: in `DeployTracking` it revives a row that
  `/untrack_deploy` deleted, in `DailyDigest` it puts an older `LastSentAt` back.
* `LastSentAt` is stored before the digest is made: what fails after it loses the
  day's digest rather than sending it twice.
* The digests sort the rows of a merge request by time alone, and the rows of one
  poll have one time: `CachedActions` is the set of all lists the query can
  return, and `CopiesAgree` is about each of them.
* Notes of a discussion are resolved one by one, and an update may fail:
  `Timeline` has discussions that are resolved in part (`Stale`, `Halves`).
* A reply to a resolved discussion is stored like any note. `src/` does not show
  what GitLab makes of it; `Timeline` takes it to be resolved, just before it is
  made (`Resolution`). This is an assumption about GitLab, and the less
  convenient one for the code: without it the exception for such replies in
  `FixesNotLate` would be empty.
* A deploy job that is first listed after its end is told only of its end; one
  that fifty newer jobs push from the page is never told again (`PushOut`).

## The runs

Times are for two workers.

| run | states | instance and why it is enough | shows |
|---|---|---|---|
| `mrsync` | 1.7 M, 70 s | two users (reviewers and approvers can differ, one can leave while another stays), one block and one ready label, dedup window of a tick, three ticks of time, three changes in GitLab, rows lost and lookups failed | `TypeOK`, `LogReplays`, `MergeLoggedOnce`, `FullApprovalSound`, `Converges` |
| `reviewcycle` | 1.7 M, 145 s | one discussion of two notes (a last note can change hands and be deleted), two changes, met before or after its first note, ages 0/1/2, all faults | `TypeOK`, `CommentsLogged`, `RereviewAfterFixes`, `MarkedMeansTold`, `StateConverges`, `AllHandled` |
| `releasenotify` | 2.2 M, 115 s | two description entries, four changes or commands, all faults | `TypeOK`, `RecordedWasAnnounced`, `NothingToldTwice`, `MergeTold`, `EntriesReach` |
| `autorelease` | 3.0 M, 160 s | two MRs on pages of one (so that pages shift), two releases, five changes, labels configured before or meanwhile, all faults | `TypeOK`, `OneRelease`, `FeatureIsolated`, `RescuesOrphans`, `Settles` |
| `assignment` | 0.70 M, 40 s | three users, two labels whose groups overlap, counts 1 and 2, three changes, all faults | `TypeOK`, `GroupsServed`, `Filled`, `NotCrowded`, `KnownReviewersStay`, `Staffed` |
| `subscriptions` | 1.3 M, 90 s | two repositories, two chats (symmetric), a setting that is only added, one that is cleared, one that outlives a take-over, managers, failing lookups, eight commands | `SubTypeOK`, `OneOwner`, `TakeOverClean` |
| `deploy` | 0.21 M, 20 s | two rules that compete for one job, commands between any two steps of a pass, all faults | `TypeOK`, `MarkedWasSent`, `NothingSentTwice`, `KeepsPromise` (refinement of `DeployNews`), `EndTold` |
| `digest` | 0.33 M, 3 s | four zones on both sides of UTC, from Saturday to Monday night (a weekend, two days that differ between zones), two repositories, two commands, all faults | `OncePerDay`, `NoDayMissed` |
| `timeline` | 0.67 M, 90 s | two block labels and two reviewers (each symmetric), quarters of days from a Thursday on, gaps of two of them and one of ten (that can cross the weekend), a holiday on the Saturday and one on the Monday after, four changes; or two discussions, gaps of two, five changes; a dedup window longer than the short gap, rows lost, notes updated in part | `TimeMeasured`, `ClocksTrue`, `CopiesAgree` |

Three runs end in a violation, and each is a finding of `PROJECT.json`:

| run | what the counterexample shows |
|---|---|
| `stale_approval` | the last approver withdraws, and the MR stays fully approved in the database |
| `take_over` | a chat that comes back to a repository, or takes it over after anyone configured it, cannot subscribe if its own repositories have the same kind of setting |
| `overlap` | two block labels found in one poll leave one row, since the dedup does not compare the label; when one of them is taken off, the MR counts as not blocked |

Bounds. `MaxChanges`, `MaxTime`, `MaxHour`, `MaxNotes`, `MaxMRs`, `MaxReleases`,
`MaxCommands` and `MaxGiven` cap what the environment does, never what the bot does: the
bot's steps go on after the last change, which is what the liveness properties
are about. Two to five changes are enough for each order of two conflicting
changes, and a third that hides them where none is there from the start; every counterexample above, and every one
that the "Fault" variants produce, is found well below the bounds. `Gaps` and
`Calendars` bound how long it is from one change to the next and which days are
holidays; quarters of days (`DayLength` 4) are enough for a broken day at each end of
a period and a whole one in between. `MCTimeline` has a next-state relation of its
own that bounds `Timeline`'s: a timeline with discussions keeps to short gaps and
has no block labels, because the blocked time reads no notes and the clocks of
discussions no labels (drafts and reviewers change in both), and one gap at most is
long, which is enough to come behind a weekend. `MRSync` has a clock: from
`MaxTime` on it stands still, GitLab is quiet and calls succeed, and passes go on.
In `ReviewCycle` the first note may be there from the start, so that two changes
answer it and resolve it, or answer it and take the answer back.

Deadlock is checked in `mrsync`, `reviewcycle`, `releasenotify`, `autorelease`
and `assignment`. It is not checked in `subscriptions` (nothing has to happen
after the last command), `deploy` (nothing to poll when there is no rule),
`digest` (after the last hour), and `timeline` and `overlap` (after the last
change): there the system really may stop.

### Fairness

`Tick`/`Poll`/`Pass` are weakly fair: the ticker of `main.go:154` keeps firing,
each part of a tick is a loop without locks over a finite list, and a process that
died is started again. In `DeployTracking` a command that has begun runs to its
end (`WF_vars(Untrack)`): the consumer handles one at a time and waits for nothing
but the database. `Settle` (where it has fairness) says that faults and
changes end at some time: "eventually" properties say what the bot makes of the
last change, not that it keeps up with an endless stream. In
`ReviewerAssignment`, `Staffed` says so itself (`<>calm => ...`). Nothing is
assumed about users. Within a fair `Tick`, the choice between success and failure
is free until `Settle`; in `MRSync`
until `MaxTime`. `DailyDigest` has no fairness: `NoDayMissed` is about what an
hour leaves behind when it ends, so it needs none.

### Known divergences without a run

The models have these behaviours; no run claims the opposite.

* What errors that the code drops lead to (see above): two owners of a
  repository, a merge that no chat hears of, a message told again, a feature
  release moved, a stored merge without its action, a second `fully_approved`.
* Rows that are not stored as opened are never fetched again
  (`polling/mrs.go:645`, `:698`): approvers of a merge after which the process
  died stay stored, and a row stored as locked is never closed.
* A reply to a resolved discussion can start the clock of fixes anew
  (`utils/mrstate.go:197`): its end comes before its beginning, so the count of
  open notes passes through zero. A draft whose last toggle has no row is a draft
  since an earlier toggle or since its creation, and the queries and the cache
  differ about it (`utils/mrstate.go:156`, `:685`). While a discussion is stored as
  resolved in part, they differ about the author's clock (`utils/mrstate.go:346`,
  `:892`).
* A reviewer added by hand since the last pass is removed when the bot assigns
  others (`consumers/mr_reviewer_consumer.go:551`).
* `/untrack_deploy` that deletes the jobs but not the rule leaves a rule that can
  track none of these jobs again (`consumers/vk_command_consumer.go:2340`).
* A resolved discussion that is reopened moves an MR back to fixes and leaves no
  action (`polling/mrs.go:314`): nobody is told before the next one.
* A note that is deleted in GitLab stays in the database (`polling/mrs.go:320`):
  it keeps its MR in fixes until the author answers.
* A release-ready row has no `NotifiedState`
  (`consumers/release_notification_consumer.go:115`): the state messages forget
  that reviewers wait for fixes.
* Setting the release managers anew drops those who were managers before
  (`consumers/vk_command_consumer.go:514`, `:563`) and says otherwise.
* A second rule that tracks the same job never hears of it
  (`consumers/deploy_tracking_consumer.go:101`): the job id is unique by itself.
* Reviewers whom the bot assigned have no `reviewer_assigned` row
  (`consumers/mr_reviewer_consumer.go:614`): they are in the database before the
  poller compares.
* The clock of `on_review` looks at resolved discussions, ended drafts and the
  first assignment, not at replies of the author, which end fixes as well; the
  clock of `on_fixes` counts from unresolved notes, not from awaiting ones
  (`utils/mrstate.go:51`). So `ClocksTrue` says "not late" of fixes and is silent
  about review. It is exact for people who wait.
* Labels an MR wears when it is first seen, and labels that become block labels
  later, are on no timeline (`lossy` in `Timeline`).
* A user whose only MRs are releases to manage gets no digest:
  `len(repoIDs) == 0` is an empty block
  (`consumers/personal_digest_consumer.go:136`), and no holidays are as many as no
  repositories.
* `/daily_digest +0` as a first command stores UTC+3, the column's default
  (`models/models.go:422`). A command can undo `LastSentAt`, and a user who moves
  over the date line can be told that a day is still to come.

## What is proved

Proofs hold for any constants that satisfy the `ASSUME` of the module (mostly:
bounds are numbers, and names of different kinds are different), and any number of
steps.

* **`MRSyncProofs`**: `TypeCorrect`; `MergesLogged`: a mirrored merge has exactly
  one row, or none if its write failed, and full approval one unless a lookup
  failed; `FullApprovalIsSound`. `MergeLoggedOnce` is not inductive: one has to
  know that a pass that is about to sync works on an MR the database does not
  hold as merged and on a snapshot that is not ahead of GitLab, and that the
  reviewers do not change between the transaction and the check. That is
  `PassInv`. `LogInv` adds that there is no merged row before the database has
  seen the merge. `IInv == TypeOK /\ PassInv /\ LogInv`. `TimelineReplays` is
  `LogReplays`, for any number of labels, any spacing of syncs and any loss of
  rows: `ReplayInv` adds that no row about a flag is later than the clock. A sync
  either writes a row about what it changed, which is then one of the latest, or
  leaves it unlogged (`FlagRows`).
* **`ReviewCycleProofs`**: `TypeCorrect`, `CommentsReachTimeline`,
  `NoStrayRereview`, `MarkingIsSound`. `CycleInv` adds to the properties:
  `AskedFirst`
  (where fixes are recorded as told, the author was asked, or the record of
  calling back was lost) and `RecordedFirst` (marking begins after recording,
  or in a round that dropped an error).
* **`ReleaseNotifyProofs`**: `TypeCorrect`, `RecordsAreTrue`, `ToldOnce`,
  `MergesTold`. `SentFirst` says that what a row is about to take over has been
  sent; `KnownOK` that what chats know is in the description and, unless a row is
  being written or was not, in the latest row: an entry told before is therefore
  not new. `MergeOK` says that a merge is marked after it happened.
* **`AutoReleaseProofs`**: `TypeCorrect`, `OneReleaseOpen`, `FeaturesStay`,
  `OnlyOrphansRescued`. `ReleaseOK` is the heart: unless an answer was misread, a tick that is about to
  create a release has found none and none has been opened since, because only
  the tick opens releases. `ListedOK` says that an old listing is still right
  about what makes a feature release, so that `FeaturesStay` holds of every tick
  that has read the label; `GitLabOK` that the tables keep within
  their bounds; `GoneOK` that a branch which was found missing does not come back
  before its orphans are moved. Lemmas on appending and overwriting rows carry them over each call.
* **`ReviewerAssignmentProofs`**: `TypeCorrect`, `LabelsServed`, `ChoiceFills`,
  `ChoiceIsModest`, `BotDropsNobody`. `OnePerGroupLemma` and `PickFromLemma` say
  what the two choices yield for any groups; `HalfWay` carries the first to the
  second, since the default pool is read in between.
* **`CommandProofs`**, `Subscriptions`: `SubscriptionsTyped`, `OwnedOnce`,
  `TakeOverInherits`. `OneOwner` is inductive with `SubTypeOK`: a subscription is
  added only where none was found, and one that was not found is in `misread`. The
  take-over property holds of every single step, also where a repository has
  several owners.
  `DailyDigest`: `OneDigestADay`, `NoneMissed` (the type invariant is part of
  their `IInv`). `StoredOK`: the row remembers the last hour a digest was claimed
  unless a command put an older one back; `DayOK`: the day the ticker looked up
  has begun; `FreshOK`: in a steady hour its copy is the row; `SentOK`: in a
  steady hour a claim is followed by a digest if one is due.
* **`DeployTrackingProofs`**: `TypeCorrect`, `FlagsTellTruth`, `NothingTwice`,
  `PromiseKept`. The row in memory and the row stored differ while a pass works,
  and `Save` may overwrite either way: `PassOK` relates the two, `ListingOK` says
  that a listing is never ahead of GitLab, `SentOK` and `MarkedOrTorn` that a flag
  follows its message and a message its flag unless it was torn. `HeardOK` is what
  the refinement needs: chats have heard of an end only of jobs that have ended,
  and of nothing before a start. `PromiseKept` maps every step of `DeployTracking`
  to `Advance`, `HearStart`, `HearEnd` or a stutter of `DeployNews`.
* **`TimelineProofs`** is the longest, because the code it is about computes: it
  has no bound on time, changes, notes or rows, any set of holidays (`Calendars
  \subseteq SUBSET Int`), any length of a day, and any finite set of labels.
  * `TimesRight` is `TimeMeasured`. That the closed formula of
    `CalculateWorkingTime` - whole weeks, the days left over, the broken days at
    the ends - is the number of working instants in between is a matter of finite
    sets of days (`WorkedDays`, `FullWeeks`, `WeekendsCounted`, `MiddleRight`,
    `WorkingTimeRight`). That the loops of `CalculateBlockedTime` find the
    instants at which a block label was worn is the invariant `Kept`: from every
    start, what the rows say up to now is either closed or open since an instant
    from which a label has been worn ever since (`Right`). A step moves now and
    adds at most two rows per label and type; how many labels are worn at an
    instant is counted by a closed form over the rows (`Net`). `Kept` holds while no change of a label was lost
    (`lossy`): the run `overlap` shows what happens otherwise.
  * `ClocksRight` is `ClocksTrue`. `ClockInv`: notes are in order, and no
    discussion is resolved at the time of a note or next to it (`NotesInv`), a user
    waits since the first of their notes that no answer follows (`WaitsOK`), and
    while a merge request is in fixes there was at each instant a note that was
    open in GitLab (`SinceOK`). The
    clock of fixes goes through starts and ends of notes: `PeriodCovers` says that
    it stops at a note's start before which all is resolved (`GoodStart`) or that
    is a late reply's (`Late`).

  The library's rules of induction take an operator, which no prover here can
  instantiate. `Induction` and `LeastNumber` state the rule for a *set* of
  numbers, from the well-foundedness of the naturals, and the proofs that go by
  induction define that set. What a fold yields is defined by a recursive
  function on subsets; its equation says something only if such a function
  exists, and tlapm does not ask. `FoldExists` (over the places of a list)
  and `FoldOver` (over a finite set) prove that one does, and everything said of
  a fold goes through them (`BlockSteps`, `PeriodFold`).

Every invariant and every action property that the passing runs check is proved,
but one. Only model-checked are: liveness (`Converges`, `StateConverges`,
`AllHandled`, `EntriesReach`, `Settles`, `Staffed`, `EndTold`), which the prover
cannot do; `CopiesAgree`, which quantifies over all lists that a sort by time can
return, and would need a theory of sorting, over rows with equal times, that the
library does not have; and what the three runs with a violation show.

## What is abstracted, and why it does no harm

* One MR (one repository in `AutoRelease`, one deploy project and job name in
  `DeployTracking`, one user in `DailyDigest`): rows of different ones never
  touch. Pagination and the limit of 100 in lists only matter where listings
  shift, which is in `AutoRelease`; release MRs take no room on its pages. The
  single page of deploy jobs is `PushOut`.
* Upserts of users and labels, wording, links, mentions, Jira ids: data. Plain
  comments outside of discussions only add an action of their own.
* A failed send counts as told: the code only logs it. `DeployTracking` and
  `DailyDigest` keep the two apart, because their properties do.
* The weighted random choice of reviewers yields anyone. MRs that get no
  reviewers (draft, blocked, release) are `held`.
* `Describe` of `AutoRelease` is one step; the hazard list has what that hides.
* A row of a setting has no value in `Subscriptions`. Release subscriptions and
  deploy rules, which belong to a chat and not to the repository's owner, are left
  out: no command of this module touches them.
* Success, failure and cancellation of a deploy job are one status.
* `DailyDigest` counts hours: only the first minute of an hour matters to the
  code, and several ticks, or none, may fall into it.
* `Timeline` takes the mark of the last note of a thread as right, and keeps no
  `comment_added` rows: `ReviewCycle` is where the mark can be wrong, and no clock
  reads these rows. A poll of `Timeline` that cannot store the row of the merge
  request at all is no step.
* Errors that the code returns or retries are error paths of the models; those it
  drops are listed above. Errors in code that only reads and replies are left out.
* What happens in GitLab between two polls is taken to happen at the second one
  in `Timeline`: its history is what a poller can know.

## Not modelled

* The messages for removed reviewers and for full approval
  (`consumers/mr_reviewer_consumer.go:646-725`): they send and then mark, as the
  state messages of `ReviewCycle` do, on actions nobody else reads but the cleanup.
* **Queries and mentions** (`utils/dbutils.go`, `utils/mention.go`): they read
  only; predicates that other modules need are modelled with those.
* **Review digest**: a timer that reads and sends, without state.
* **User, repository and chat pollers, backfill**: upserts of reference data by
  one writer each; a chat event is handed over by an unbuffered channel.
* Commands that only read and reply, parsing of durations and dates, SLA
  thresholds as such, migration and configuration.

## What could come next

An abstract specification of the notifiers (an event is pending, told, or given
up after an hour) that `ReviewCycle` and `ReleaseNotify` implement, an abstract
mirror that `MRSync` implements, and the two remaining direct messages in
`ReviewCycle`'s tick.

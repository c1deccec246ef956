---------------------------- MODULE ReleaseNotify -----------------------------
(***************************************************************************)
(* What chats hear about one release merge request                         *)
(* (consumers/release_notification_consumer.go): that it is ready, what    *)
(* is added to its description, that it was merged.                        *)
(*                                                                         *)
(* The notifier runs at the end of the tick of main.go, after the poller,  *)
(* the state change messages and the cleanup:                              *)
(*                                                                         *)
(*   sync -> states -> cleanup -> new releases -> descriptions -> merged   *)
(*                                                                         *)
(* It shares two tables with them: the actions, whose Notified flag the    *)
(* cleanup sets as well, and MRNotificationState, whose latest row holds   *)
(* both the state and the description told last.  A message is sent, then  *)
(* a row is written, then the action is marked: the process may die        *)
(* between any two of these.  Chats subscribe and unsubscribe meanwhile.   *)
(* The result of a send is only logged: a message counts as told when it   *)
(* was sent.  Neither do failed writes stop the code, nor failed reads of  *)
(* the labels that make an MR a release: it reads on as if there were none.*)
(*                                                                         *)
(* A description is the set of merge requests it links to.  The poller's   *)
(* part is MRSync's and that of the state messages ReviewCycle's: each is  *)
(* one step here.  Ages are ReviewCycle's: an action is fresh (0), between *)
(* half an hour and an hour old (1), or older (2).                         *)
(***************************************************************************)
EXTENDS Naturals, FiniteSets

CONSTANTS
  Entries,       \* merge requests a description may link to
  Faults,        \* may calls fail, the process die, a tick be late?
  MaxChanges     \* bound: changes in GitLab and commands

ASSUME ReleaseAssumption ==
  /\ Faults \in BOOLEAN
  /\ MaxChanges \in Nat

VARIABLES
  gl,         \* the MR in GitLab, and the age of its merge
  mr,         \* its row in the database
  pending,    \* its actions that are not marked as notified
  latest,     \* its latest MRNotificationState
  subscribed, \* has a chat subscribed to the releases of the repository?
  pc,         \* where the tick stands
  todo,       \* the actions it has read and not processed yet, by id
  calm,       \* no more changes, commands, crashes or failures
  changes,    \* how many changes there were: the id of the next action
  announced,  \* history: entries ever sent, or there at the first encounter
  known,      \* history: those not missing since
  unsaved,    \* history: entries sent, not recorded and not missing since
  merged,     \* history: was the merge announced?
  misread     \* history: has a failed query hidden the labels of the merge?

vars == <<gl, mr, pending, latest, subscribed, pc, todo, calm, changes,
          announced, known, unsaved, merged, misread>>

environment == <<gl, subscribed, changes, calm>>

told == <<announced, known, unsaved>>

history == <<told, merged, misread>>

ReleaseMRs ==
  [state : {"opened", "merged"}, labels : SUBSET {"release", "ready"},
   desc : SUBSET Entries, fixes : BOOLEAN]

(* Only the ready label can be added again, and the two be told apart.     *)
Action(type, age) ==
  [type |-> type, id |-> IF type = "ready" THEN changes ELSE 0, age |-> age]

NoRow == [state |-> "none", desc |-> {}]

Init ==
  /\ gl = [mr |-> [state |-> "opened", labels |-> {"release"}, desc |-> {},
                   fixes |-> FALSE],
           age |-> 0]
  /\ mr = gl.mr
  /\ pending = {}
  /\ latest = NoRow
  /\ subscribed \in BOOLEAN
  /\ pc = "sync"
  /\ todo = {}
  /\ calm = FALSE
  /\ changes = 0
  /\ announced = {}
  /\ known = {}
  /\ unsaved = {}
  /\ merged = FALSE
  /\ misread = FALSE

-----------------------------------------------------------------------------
(* GitLab, chats and time.                                                 *)

Change ==
  /\ ~ calm
  /\ changes < MaxChanges
  /\ changes' = changes + 1

(* Labels, the description (also by the bot itself, ProcessReleaseMR-      *)
(* Descriptions), the discussions, the merge.                              *)
GitLabChange ==
  /\ Change
  /\ gl.mr.state = "opened"
  /\ \/ \E l \in {"release", "ready"} :
          gl' = [gl EXCEPT !.mr.labels = (@ \ {l}) \union ({l} \ @)]
     \/ \E e \in Entries :
          gl' = [gl EXCEPT !.mr.desc = (@ \ {e}) \union ({e} \ @)]
     \/ gl' = [gl EXCEPT !.mr.fixes = ~ @]
     \/ gl' = [gl EXCEPT !.mr.state = "merged"]
  /\ UNCHANGED <<mr, pending, latest, subscribed, pc, todo, calm, history>>

(* /release_subscribe and /release_unsubscribe, by any of the chats.       *)
Command ==
  /\ Change
  /\ subscribed' = ~ subscribed
  /\ UNCHANGED <<gl, mr, pending, latest, pc, todo, calm, history>>

Older(age) == IF age < 2 THEN age + 1 ELSE 2

(* Half an hour passes; without faults only between two ticks that have    *)
(* left nothing behind.                                                    *)
Age ==
  /\ \/ Faults
     \/ pc = "sync" /\ pending = {} /\ (gl.mr.state = "merged" => mr = gl.mr)
  /\ pending' = {[a EXCEPT !.age = Older(@)] : a \in pending}
  /\ gl' = IF gl.mr.state = "merged" THEN [gl EXCEPT !.age = Older(@)] ELSE gl
  /\ UNCHANGED <<mr, latest, subscribed, pc, todo, calm, changes, history>>

Settle ==
  /\ ~ calm
  /\ calm' = TRUE
  /\ UNCHANGED <<gl, mr, pending, latest, subscribed, pc, todo, changes, history>>

Faulty == Faults /\ ~ calm

-----------------------------------------------------------------------------
(* The earlier parts of the tick.                                          *)

(* The actions the poller records for what is new in the row; that of the  *)
(* merge has the time of the merge.                                        *)
Detected(old, new) ==
  {Action("ready", 0) : l \in {"ready"} \intersect (new.labels \ old.labels)}
  \union {Action("comment", 0) : f \in {new.fixes} \ {old.fixes}}
  \union {Action("merged", gl.age) : s \in {new.state} \ {old.state}}

(* The write of an action may fail without failing the rest.               *)
Sync ==
  /\ pc = "sync"
  /\ pc' = "states"
  /\ IF mr.state = "opened"
       THEN /\ mr' = gl.mr
            /\ \E T \in SUBSET Detected(mr, gl.mr) :
                 /\ Faulty \/ T = Detected(mr, gl.mr)
                 /\ pending' = pending \union T
            /\ known' = known \intersect gl.mr.desc
            /\ unsaved' = unsaved \intersect gl.mr.desc
       ELSE UNCHANGED <<mr, pending, known, unsaved>>
  /\ UNCHANGED <<environment, latest, todo, announced, merged, misread>>

SyncFails ==
  /\ pc = "sync"
  /\ Faulty
  /\ pc' = "states"
  /\ UNCHANGED <<environment, mr, pending, latest, todo, history>>

(* AssignReviewers may write the first row, but not for a release.         *)
Assign ==
  /\ pc = "states"
  /\ mr.state = "opened" /\ "release" \notin mr.labels
  /\ latest = NoRow
  /\ latest' = [state |-> "on_review", desc |-> {}]
  /\ UNCHANGED <<environment, mr, pending, pc, todo, history>>

DerivedState ==
  CASE mr.state # "opened"             -> mr.state
    [] mr.state = "opened" /\ mr.fixes -> "on_fixes"
    [] OTHER                           -> "on_review"

Comments == {a \in pending : a.type = "comment" /\ a.age = 0}

(* What is left of the pending actions when S is marked: a failed write is *)
(* only logged.                                                            *)
AfterMark(S) == {pending \ S} \union {same \in {pending} : Faulty}

(* Fault: the new row loses the description.                               *)
StateRowBare(s) == [state |-> s, desc |-> {}]

StateRow(s) == [state |-> s, desc |-> latest.desc]

(* Fault: the state of an MR that is no longer open is told as well.       *)
TellClosed ==
  /\ pc = "states"
  /\ Comments # {} /\ DerivedState # latest.state
  /\ latest' = StateRow(DerivedState)
  /\ pending' \in AfterMark(Comments)
  /\ pc' = "cleanup"
  /\ UNCHANGED <<environment, mr, todo, history>>

(* ProcessStateChangeNotifications as a whole; a count of discussions that *)
(* fails reads as on_review.                                               *)
TellState ==
  /\ pc = "states"
  /\ Comments # {} /\ mr.state = "opened"
  /\ \E s \in {DerivedState} \union {r \in {"on_review"} : Faulty} :
       /\ s # latest.state
       /\ latest' = StateRow(s)
  /\ pending' \in AfterMark(Comments)
  /\ pc' = "cleanup"
  /\ UNCHANGED <<environment, mr, todo, history>>

(* Nothing to tell, or the state cannot be read or the row not be written. *)
TellNoState ==
  /\ pc = "states"
  /\ \/ Comments = {} \/ mr.state # "opened" \/ DerivedState = latest.state
     \/ Faulty
  /\ pending' \in AfterMark(Comments)
  /\ pc' = "cleanup"
  /\ UNCHANGED <<environment, mr, latest, todo, history>>

(* Fault: actions older than half an hour are silenced as well.            *)
CleanupEager ==
  /\ pc = "cleanup"
  /\ pending' = {a \in pending : a.age = 0}
  /\ pc' = "new"
  /\ UNCHANGED <<environment, mr, latest, todo, history>>

Cleanup ==
  /\ pc = "cleanup"
  /\ pending' \in AfterMark({a \in pending : a.age = 2})
  /\ pc' = "new"
  /\ UNCHANGED <<environment, mr, latest, todo, history>>

-----------------------------------------------------------------------------
(* ProcessNewReleaseNotifications.                                         *)

OfType(type) == {a \in pending : a.type = type}

(* The ids of the actions that the query of a notifier finds; none when it *)
(* fails.                                                                  *)
Queried(type) ==
  {{a.id : a \in OfType(type)}} \union {none \in {{}} : Faulty}

(* markActionNotified.                                                     *)
Mark(type, id) == pending' \in AfterMark({a \in OfType(type) : a.id = id})

IsRelease == "release" \in mr.labels

(* A failed query of the release labels makes any MR look like no release. *)
LooksLikeNone == ~ IsRelease \/ Faulty

FetchReleases ==
  /\ pc = "new"
  /\ todo' \in Queried("ready")
  /\ pc' = "each new"
  /\ UNCHANGED <<environment, mr, pending, latest, history>>

(* The whole description goes to the chats.                                *)
AnnounceRelease ==
  /\ pc = "each new"
  /\ todo # {}
  /\ IsRelease /\ subscribed
  /\ announced' = announced \union mr.desc
  /\ known' = known \union mr.desc
  /\ unsaved' = unsaved \union mr.desc
  /\ pc' = "new row"
  /\ UNCHANGED <<environment, mr, pending, latest, todo, merged, misread>>

(* The new row says nothing of the state told last.  Whether it could be   *)
(* written is not asked.                                                   *)
RecordRelease ==
  /\ pc = "new row"
  /\ \/ /\ latest' = [state |-> "", desc |-> mr.desc]
        /\ unsaved' = {}
     \/ Faulty /\ UNCHANGED <<latest, unsaved>>
  /\ pc' = "new mark"
  /\ UNCHANGED <<environment, mr, pending, todo, announced, known,
                 merged, misread>>

MarkRelease ==
  /\ pc = "new mark"
  /\ \E id \in todo : Mark("ready", id) /\ todo' = todo \ {id}
  /\ pc' = "each new"
  /\ UNCHANGED <<environment, mr, latest, history>>

(* No release label any more, or nobody to tell.                           *)
SkipRelease ==
  /\ pc = "each new"
  /\ LooksLikeNone \/ ~ subscribed
  /\ \E id \in todo : Mark("ready", id) /\ todo' = todo \ {id}
  /\ UNCHANGED <<environment, mr, latest, pc, history>>

(* The query of the subscriptions fails: the action waits for the next     *)
(* tick.                                                                   *)
PutOff ==
  /\ pc \in {"each new", "each merged"}
  /\ Faulty /\ IsRelease
  /\ \E id \in todo : todo' = todo \ {id}
  /\ UNCHANGED <<environment, mr, pending, latest, pc, history>>

EndReleases ==
  /\ pc = "each new"
  /\ todo = {}
  /\ pc' = "changes"
  /\ UNCHANGED <<environment, mr, pending, latest, todo, history>>

-----------------------------------------------------------------------------
(* ProcessReleaseMRDescriptionChanges.                                     *)

Watched ==
  mr.state = "opened" /\ IsRelease /\ "ready" \in mr.labels

(* Or one of five queries fails.                                           *)
NothingWatched ==
  /\ pc = "changes"
  /\ ~ (subscribed /\ Watched) \/ Faulty
  /\ pc' = "merged"
  /\ UNCHANGED <<environment, mr, pending, latest, todo, history>>

Watch ==
  /\ pc = "changes"
  /\ subscribed /\ Watched
  /\ pc' = "diff"
  /\ UNCHANGED <<environment, mr, pending, latest, todo, history>>

(* The first encounter of an MR that was not announced.                    *)
Seed ==
  /\ pc = "diff"
  /\ latest = NoRow
  /\ latest' = [state |-> "", desc |-> mr.desc]
  /\ announced' = announced \union mr.desc
  /\ known' = known \union mr.desc
  /\ unsaved' = {}
  /\ pc' = "merged"
  /\ UNCHANGED <<environment, mr, pending, todo, merged, misread>>

(* The same description, or a query or the row of a description nobody is  *)
(* told of fails.                                                          *)
SameDescription ==
  /\ pc = "diff"
  /\ (latest # NoRow /\ mr.desc = latest.desc) \/ Faulty
  /\ pc' = "merged"
  /\ UNCHANGED <<environment, mr, pending, latest, todo, history>>

(* Fault: entries are new only if the description has grown.               *)
NewEntriesGrown ==
  IF Cardinality(mr.desc) > Cardinality(latest.desc)
    THEN mr.desc \ latest.desc ELSE {}

NewEntries == mr.desc \ latest.desc

(* Entries were only taken away.                                           *)
RecordRemoval ==
  /\ pc = "diff"
  /\ latest # NoRow /\ mr.desc # latest.desc /\ NewEntries = {}
  /\ latest' = [latest EXCEPT !.desc = mr.desc]
  /\ unsaved' = {}
  /\ pc' = "merged"
  /\ UNCHANGED <<environment, mr, pending, todo, announced, known,
                 merged, misread>>

AnnounceEntries ==
  /\ pc = "diff"
  /\ latest # NoRow /\ NewEntries # {}
  /\ subscribed
  /\ announced' = announced \union NewEntries
  /\ known' = known \union NewEntries
  /\ unsaved' = unsaved \union NewEntries
  /\ pc' = "changes row"
  /\ UNCHANGED <<environment, mr, pending, latest, todo, merged, misread>>

(* Fault: the description is recorded although nobody is left to tell.     *)
ChatsLeaveRecorded ==
  /\ pc = "diff"
  /\ latest # NoRow /\ NewEntries # {}
  /\ ~ subscribed
  /\ latest' = [latest EXCEPT !.desc = mr.desc]
  /\ pc' = "merged"
  /\ UNCHANGED <<environment, mr, pending, todo, history>>

(* The last chat left since the first look at the subscriptions: the       *)
(* entries stay new.                                                       *)
ChatsLeave ==
  /\ pc = "diff"
  /\ latest # NoRow /\ NewEntries # {}
  /\ ~ subscribed
  /\ pc' = "merged"
  /\ UNCHANGED <<environment, mr, pending, latest, todo, history>>

RecordEntries ==
  /\ pc = "changes row"
  /\ \/ /\ latest' = [latest EXCEPT !.desc = mr.desc]
        /\ unsaved' = {}
     \/ Faulty /\ UNCHANGED <<latest, unsaved>>
  /\ pc' = "merged"
  /\ UNCHANGED <<environment, mr, pending, todo, announced, known,
                 merged, misread>>

-----------------------------------------------------------------------------
(* ProcessReleaseMergedNotifications.                                      *)

FetchMerges ==
  /\ pc = "merged"
  /\ todo' \in Queried("merged")
  /\ pc' = "each merged"
  /\ UNCHANGED <<environment, mr, pending, latest, history>>

AnnounceMerge ==
  /\ pc = "each merged"
  /\ todo # {}
  /\ IsRelease /\ subscribed
  /\ merged' = TRUE
  /\ pc' = "merged mark"
  /\ UNCHANGED <<environment, mr, pending, latest, todo, told, misread>>

MarkMerge ==
  /\ pc = "merged mark"
  /\ \E id \in todo : Mark("merged", id) /\ todo' = todo \ {id}
  /\ pc' = "each merged"
  /\ UNCHANGED <<environment, mr, latest, history>>

SkipMerge ==
  /\ pc = "each merged"
  /\ LooksLikeNone \/ ~ subscribed
  /\ \E id \in todo : Mark("merged", id) /\ todo' = todo \ {id}
  /\ misread' = (misread \/ (IsRelease /\ subscribed))
  /\ UNCHANGED <<environment, mr, latest, pc, told, merged>>

EndTick ==
  /\ pc = "each merged"
  /\ todo = {}
  /\ pc' = "sync"
  /\ UNCHANGED <<environment, mr, pending, latest, todo, history>>

-----------------------------------------------------------------------------
(* The process dies and starts again with the next tick.                   *)
Crash ==
  /\ Faulty
  /\ pc # "sync"
  /\ pc' = "sync"
  /\ todo' = {}
  /\ UNCHANGED <<environment, mr, pending, latest, history>>

NewReleases ==
  \/ FetchReleases \/ AnnounceRelease \/ RecordRelease \/ MarkRelease
  \/ SkipRelease \/ EndReleases

DescriptionChanges ==
  \/ NothingWatched \/ Watch \/ Seed \/ SameDescription \/ RecordRemoval
  \/ AnnounceEntries \/ ChatsLeave \/ RecordEntries

Merges == FetchMerges \/ AnnounceMerge \/ MarkMerge \/ SkipMerge \/ EndTick

Tick ==
  \/ Sync \/ SyncFails \/ Assign \/ TellState \/ TellNoState \/ Cleanup
  \/ NewReleases \/ DescriptionChanges \/ Merges \/ PutOff

Next == GitLabChange \/ Command \/ Age \/ Settle \/ Crash \/ Tick

Spec == Init /\ [][Next]_vars

(* The ticker keeps firing, its pass runs on, and faults end.              *)
FairSpec == Spec /\ WF_vars(Tick) /\ WF_vars(Settle)
-----------------------------------------------------------------------------
(* Properties.                                                             *)

Steps ==
  {"sync", "states", "cleanup", "new", "each new", "new row", "new mark",
   "changes", "diff", "changes row", "merged", "each merged", "merged mark"}

TypeOK ==
  /\ gl \in [mr : ReleaseMRs, age : 0 .. 2]
  /\ mr \in ReleaseMRs
  /\ pending \subseteq [type : {"ready", "comment", "merged"}, id : Nat,
                        age : 0 .. 2]
  /\ latest \in [state : {"none", "", "on_review", "on_fixes"},
                 desc : SUBSET Entries]
  /\ subscribed \in BOOLEAN /\ calm \in BOOLEAN
  /\ pc \in Steps /\ todo \subseteq Nat
  /\ changes \in Nat
  /\ announced \subseteq Entries
  /\ known \subseteq Entries /\ unsaved \subseteq Entries
  /\ merged \in BOOLEAN /\ misread \in BOOLEAN

(* What the bot takes for told was sent to the chats, or was there when it *)
(* first looked: no entry is recorded that was in neither.                 *)
RecordedWasAnnounced ==
  latest.desc \subseteq announced

(* An entry that stays in the description is announced as new again,       *)
(* whoever else writes notification rows in between, only if its own       *)
(* telling was never recorded: the process died or the write failed        *)
(* between the message and the row.                                        *)
NothingToldTwice ==
  [][pc = "diff" /\ pc' = "changes row"
       => NewEntries \intersect known \subseteq unsaved]_vars

(* The merge of a release leaves the pending actions while younger than an *)
(* hour only once it was announced, when there was nobody to tell, or when *)
(* a failed query hid that it is a release, which the code does not tell   *)
(* from its having no such label.  The cleanup that shares the flag does   *)
(* not take it away first.                                                 *)
MergeTold ==
  [][\A a \in OfType("merged") :
       a.age < 2 /\ OfType("merged")' = {}
         => merged \/ ~ subscribed \/ ~ IsRelease \/ misread']_vars

(* As long as a chat is subscribed to a ready release, everything in its   *)
(* description is announced in the end, whatever crashed before.           *)
EntriesReach ==
  <>[](subscribed /\ Watched => mr.desc \subseteq announced)
==============================================================================

----------------------------- MODULE AutoRelease ------------------------------
(***************************************************************************)
(* Release branches of one repository                                      *)
(* (consumers/auto_release_consumer.go, /auto_release_branch and           *)
(* /spawn_branch of consumers/vk_command_consumer.go).                     *)
(*                                                                         *)
(* The bot keeps no state of its own: a tick finds the open release merge  *)
(* request in GitLab or creates one, moves merge requests whose target     *)
(* branch is gone to the development branch, those of the development      *)
(* branch to the release branch, and lists in the release's description    *)
(* what was merged into it.  Each of these is a sequence of calls, page by *)
(* page, on listings that GitLab's users, chat commands and the bot itself *)
(* outdate meanwhile.  Calls fail and the process dies at any point.  Which *)
(* labels exempt an MR the tick reads from the database, those of feature  *)
(* releases at its start and those that block only before the last loop; a *)
(* read that fails is not noticed and gives none.                          *)
(*                                                                         *)
(* Branch 0 is the development branch; release branches are numbered as    *)
(* they are made (their names are random, none is made twice).  Release    *)
(* merge requests are recognised by their label and kept apart from the    *)
(* others here; they take no room on the pages of a listing.               *)
(***************************************************************************)
EXTENDS Naturals, Sequences, FiniteSets

CONSTANTS
  PageSize,      \* merge requests on a page of a listing
  Faults,        \* may calls fail and the process die?
  MaxMRs,        \* bound: merge requests ever opened
  MaxReleases,   \* bound: release branches ever made
  MaxChanges     \* bound: changes in GitLab and commands

ASSUME AutoReleaseAssumption ==
  /\ PageSize \in Nat \ {0}
  /\ Faults \in BOOLEAN
  /\ MaxMRs \in Nat /\ MaxReleases \in Nat \ {0} /\ MaxChanges \in Nat

VARIABLES
  mrs,       \* the ordinary and feature release MRs, oldest first
  releases,  \* the release branches and their MRs, oldest first
  branches,  \* the release branches that exist
  config,    \* the auto-release settings: never made, on, or cleared
  labels,    \* the kinds of labels that are configured
  pc,        \* where the tick stands
  page,      \* the page of the listing it is at
  more,      \* was there a page after it?
  todo,      \* the MRs of the page it has still to look at, as listed
  gone,      \* branchExistsCache: branches found missing
  there,     \* branchExistsCache: branches found, or not known to be missing
  current,   \* the release branch of this tick, 0 if none
  names,     \* the kinds of labels this tick has read
  calm,      \* no more changes, commands, crashes or failures
  changes,   \* how many changes there were
  misread    \* history: was an open release overlooked?

vars == <<mrs, releases, branches, config, labels, pc, page, more, todo, gone,
          there, current, names, calm, changes, misread>>

settings == <<config, labels>>

gitlab == <<mrs, releases, branches, settings, changes, calm>>

listing == <<page, more, todo>>

tick == <<pc, listing, gone, there, current, names>>

Branches == 0 .. MaxReleases

Labels == {"feature", "block"}

(* An MR is blocked, or a feature release, by the label it carries.        *)
MRs ==
  [state : {"opened", "merged"}, target : Branches, blocked : BOOLEAN,
   feature : BOOLEAN]

(* A branch without an MR is in state "branch".                            *)
Releases ==
  [state : {"branch", "opened", "merged", "closed"},
   merged : SUBSET (1 .. MaxMRs), listed : SUBSET (1 .. MaxMRs)]

Init ==
  /\ mrs = <<>>
  /\ releases = <<>>
  /\ branches = {}
  /\ \/ config = "none" /\ labels = {}
     \/ config = "on" /\ labels = Labels
  /\ pc = "idle"
  /\ page = 1
  /\ more = FALSE
  /\ todo = {}
  /\ gone = {}
  /\ there = {}
  /\ current = 0
  /\ names = {}
  /\ calm = FALSE
  /\ changes = 0
  /\ misread = FALSE

-----------------------------------------------------------------------------
(* GitLab's users and the chats.                                           *)

Exists(b) == b = 0 \/ b \in branches

NewMR(target, feature) ==
  /\ Len(mrs) < MaxMRs
  /\ mrs' = Append(mrs, [state |-> "opened", target |-> target,
                         blocked |-> FALSE, feature |-> feature])

(* A developer opens an MR, into any branch there is.                      *)
OpenMR ==
  /\ \E b \in Branches : Exists(b) /\ NewMR(b, FALSE)
  /\ UNCHANGED <<releases, branches, settings>>

Opened(i) == i \in DOMAIN mrs /\ mrs[i].state = "opened"

(* A block label is put on or taken off.                                   *)
ToggleBlock ==
  /\ \E i \in DOMAIN mrs :
       Opened(i) /\ mrs' = [mrs EXCEPT ![i].blocked = ~ @]
  /\ UNCHANGED <<releases, branches, settings>>

MoveMR ==
  /\ \E i \in DOMAIN mrs, b \in Branches :
       /\ Opened(i) /\ ~ mrs[i].feature
       /\ Exists(b) /\ mrs[i].target # b
       /\ mrs' = [mrs EXCEPT ![i].target = b]
  /\ UNCHANGED <<releases, branches, settings>>

MergeMR ==
  /\ \E i \in DOMAIN mrs :
       /\ Opened(i) /\ Exists(mrs[i].target)
       /\ mrs' = [mrs EXCEPT ![i].state = "merged"]
       /\ releases' = [b \in DOMAIN releases |->
                         IF b = mrs[i].target
                           THEN [releases[b] EXCEPT !.merged = @ \union {i}]
                           ELSE releases[b]]
  /\ UNCHANGED <<branches, settings>>

OpenReleases == {b \in DOMAIN releases : releases[b].state = "opened"}

(* A release is merged, and its branch removed with it, or closed.  The    *)
(* bound leaves room for the next release.                                 *)
EndRelease ==
  /\ Len(releases) < MaxReleases
  /\ \E b \in OpenReleases :
       \/ /\ releases' = [releases EXCEPT ![b].state = "merged"]
          /\ branches' = branches \ {b}
       \/ /\ releases' = [releases EXCEPT ![b].state = "closed"]
          /\ UNCHANGED branches
  /\ UNCHANGED <<mrs, settings>>

(* A branch that no release uses any more is cleaned up by hand.           *)
DeleteBranch ==
  /\ \E b \in branches :
       /\ releases[b].state # "opened" /\ (pc = "mr" => b # current)
       /\ branches' = branches \ {b}
  /\ UNCHANGED <<mrs, releases, settings>>

(* /auto_release_branch with and without arguments.  The cleared row stays *)
(* in the unique index: auto-release cannot be configured a second time.   *)
Configure ==
  /\ \/ config = "none" /\ config' = "on"
     \/ config = "on" /\ config' = "cleared"
  /\ UNCHANGED <<mrs, releases, branches, labels>>

(* /add_feature_release_tag and /add_block_label.                          *)
ConfigureLabels ==
  /\ \E l \in Labels \ labels : labels' = labels \union {l}
  /\ UNCHANGED <<mrs, releases, branches, config>>

(* /spawn_branch: a feature release branch, and its MR into the            *)
(* development branch, labelled as it is created.                          *)
SpawnBranch ==
  /\ config = "on" /\ "feature" \in labels
  /\ NewMR(0, TRUE)
  /\ UNCHANGED <<releases, branches, settings>>

Change ==
  /\ ~ calm
  /\ changes < MaxChanges
  /\ changes' = changes + 1
  /\ \/ OpenMR \/ ToggleBlock \/ MoveMR \/ MergeMR
     \/ EndRelease \/ DeleteBranch \/ Configure \/ ConfigureLabels
     \/ SpawnBranch
  /\ UNCHANGED <<tick, calm, misread>>

Settle ==
  /\ ~ calm
  /\ calm' = TRUE
  /\ UNCHANGED <<mrs, releases, branches, settings, tick, changes, misread>>

Faulty == Faults /\ ~ calm

-----------------------------------------------------------------------------
(* Listings.                                                               *)

(* The place of an MR in a listing, newest first.                          *)
Place(i, listed) == Cardinality({j \in listed : j >= i})

PageOf(listed) ==
  {i \in listed : /\ Place(i, listed) > (page - 1) * PageSize
                  /\ Place(i, listed) <= page * PageSize}

(* An MR as a listing shows it.                                            *)
Listed(i) == [id |-> i, mr |-> mrs[i]]

FetchPage(listed) ==
  /\ todo' = {Listed(i) : i \in PageOf(listed)}
  /\ more' = (Cardinality(listed) > page * PageSize)
  /\ UNCHANGED page

EndPage(at, again, after) ==
  /\ pc = at
  /\ todo = {}
  /\ pc' = IF more THEN again ELSE after
  /\ page' = IF more THEN page + 1 ELSE 1
  /\ more' = FALSE
  /\ UNCHANGED <<gitlab, todo, gone, there, current, names, misread>>

ListingFails(at, after) ==
  /\ pc = at
  /\ Faulty
  /\ pc' = after
  /\ page' = 1
  /\ UNCHANGED <<gitlab, more, todo, gone, there, current, names, misread>>

(* The MRs of a page are handled in order.                                 *)
First(x) == x \in todo /\ \A y \in todo : y.id <= x.id

(* A call that moves an MR: one that was merged in the meantime stays, and *)
(* GitLab may refuse a branch that does not exist.                         *)
SetTarget(i, b) ==
  mrs' = IF Opened(i) THEN [mrs EXCEPT ![i].target = b] ELSE mrs

Handled(x) == todo' = todo \ {x} /\ UNCHANGED <<page, more, pc>>

-----------------------------------------------------------------------------
(* retargetOrphanedMRs.                                                    *)

(* What a read of the labels of a kind gives.                              *)
LabelsRead(kind) == {{kind} \intersect labels} \union {none \in {{}} : Faulty}

StartTick ==
  /\ pc = "idle"
  /\ config = "on"
  /\ names' \in LabelsRead("feature")
  /\ pc' = "orphans"
  /\ page' = 1
  /\ gone' = {} /\ there' = {}
  /\ current' = 0
  /\ UNCHANGED <<gitlab, more, todo, misread>>

(* Or the settings or the release label cannot be read.                    *)
NotConfigured ==
  /\ pc = "idle"
  /\ config # "on" \/ Faulty
  /\ pc' = "describe"
  /\ UNCHANGED <<gitlab, listing, gone, there, current, names, misread>>

OrphanPage ==
  /\ pc = "orphans"
  /\ FetchPage({i \in DOMAIN mrs : Opened(i)})
  /\ pc' = "orphan"
  /\ UNCHANGED <<gitlab, gone, there, current, names, misread>>

(* Fault: a failed look at a branch is taken for its absence.              *)
BranchExistsStrict(b) ==
  \/ b \in branches /\ there' = there \union {b} /\ UNCHANGED gone
  \/ b \notin branches /\ gone' = gone \union {b} /\ UNCHANGED there
  \/ Faulty /\ gone' = gone \union {b} /\ UNCHANGED there

(* Looked up once per listing; a branch is taken to exist if the call      *)
(* fails.                                                                  *)
BranchExists(b) ==
  \/ b \in branches /\ there' = there \union {b} /\ UNCHANGED gone
  \/ b \notin branches /\ gone' = gone \union {b} /\ UNCHANGED there
  \/ Faulty /\ there' = there \union {b} /\ UNCHANGED gone

(* Does the tick know a label of a listed MR?                              *)
Feature(x) == x.mr.feature /\ "feature" \in names

Blocked(x) == x.mr.blocked /\ "block" \in names

(* Fault: blocked MRs are left where they are.                             *)
RescuableUnblocked(x) == ~ Feature(x) /\ ~ x.mr.blocked

(* Blocked MRs are rescued too.                                            *)
Rescuable(x) == ~ Feature(x)

(* The branch is not in the cache yet.                                     *)
LookUp ==
  /\ pc = "orphan"
  /\ \E x \in todo :
       /\ First(x)
       /\ Rescuable(x) /\ x.mr.target \notin {0} \union gone \union there
       /\ BranchExists(x.mr.target)
  /\ UNCHANGED <<gitlab, pc, listing, current, names, misread>>

SkipOrphan ==
  /\ pc = "orphan"
  /\ \E x \in todo :
       /\ First(x)
       /\ ~ Rescuable(x) \/ x.mr.target \in {0} \union there
       /\ Handled(x)
  /\ UNCHANGED <<gitlab, gone, there, current, names, misread>>

MoveOrphan ==
  /\ pc = "orphan"
  /\ \E x \in todo :
       /\ First(x)
       /\ Rescuable(x) /\ x.mr.target \in gone
       /\ Handled(x)
       /\ \/ SetTarget(x.id, 0)
          \/ Faulty /\ UNCHANGED mrs
  /\ UNCHANGED <<releases, branches, settings, changes, calm, gone, there,
                 current, names, misread>>

EndOrphanPage == EndPage("orphan", "orphans", "find")

OrphanPageFails == ListingFails("orphans", "find")

-----------------------------------------------------------------------------
(* findOpenReleaseMR, createReleaseBranch, createReleaseMR.                *)

Newest(set) == {b \in set : \A c \in set : c <= b}

FindRelease ==
  /\ pc = "find"
  /\ \E b \in Newest(OpenReleases) : current' = b
  /\ pc' = "labels"
  /\ UNCHANGED <<gitlab, listing, gone, there, names, misread>>

FindNone ==
  /\ pc = "find"
  /\ OpenReleases = {}
  /\ pc' = "branch"
  /\ UNCHANGED <<gitlab, listing, gone, there, current, names, misread>>

(* An error reads as "none".                                               *)
FindFails ==
  /\ pc = "find"
  /\ Faulty /\ Len(releases) < MaxReleases
  /\ misread' = (misread \/ OpenReleases # {})
  /\ pc' = "branch"
  /\ UNCHANGED <<gitlab, listing, gone, there, current, names>>

CreateBranch ==
  /\ pc = "branch"
  /\ Len(releases) < MaxReleases
  /\ releases' = Append(releases,
                        [state |-> "branch", merged |-> {}, listed |-> {}])
  /\ branches' = branches \union {Len(releases) + 1}
  /\ current' = Len(releases) + 1
  /\ pc' = "mr"
  /\ UNCHANGED <<mrs, settings, changes, calm, listing, gone, there, names,
                 misread>>

(* Fault: the tick goes on without a branch.                               *)
CreateBranchIgnored ==
  /\ pc = "branch"
  /\ Faulty
  /\ pc' = "labels"
  /\ UNCHANGED <<gitlab, listing, gone, there, current, names, misread>>

CreateBranchFails ==
  /\ pc = "branch"
  /\ Faulty
  /\ pc' = "describe"
  /\ UNCHANGED <<gitlab, listing, gone, there, current, names, misread>>

CreateMR ==
  /\ pc = "mr"
  /\ releases' = [releases EXCEPT ![current].state = "opened"]
  /\ pc' = "labels"
  /\ UNCHANGED <<mrs, branches, settings, changes, calm, listing, gone, there,
                 current, names, misread>>

CreatedOrNot ==
  releases' \in {releases, [releases EXCEPT ![current].state = "opened"]}

(* Fault: the tick tries again, with a new branch.                         *)
CreateMRRetries ==
  /\ pc = "mr"
  /\ Faulty /\ Len(releases) < MaxReleases
  /\ CreatedOrNot
  /\ pc' = "branch"
  /\ UNCHANGED <<mrs, branches, settings, changes, calm, listing, gone, there,
                 current, names, misread>>

(* The call fails, or its answer is lost.  A branch without an MR stays    *)
(* behind.                                                                 *)
CreateMRFails ==
  /\ pc = "mr"
  /\ Faulty /\ Len(releases) < MaxReleases
  /\ CreatedOrNot
  /\ pc' = "describe"
  /\ UNCHANGED <<mrs, branches, settings, changes, calm, listing, gone, there,
                 current, names, misread>>

-----------------------------------------------------------------------------
(* retargetMRsToReleaseBranch.                                             *)

ReadBlockLabels ==
  /\ pc = "labels"
  /\ \E read \in LabelsRead("block") : names' = names \union read
  /\ pc' = "moves"
  /\ UNCHANGED <<gitlab, listing, gone, there, current, misread>>

(* The listing is of the MRs that are still on the development branch: the *)
(* pages shift as they are moved away.                                     *)
MovePage ==
  /\ pc = "moves"
  /\ FetchPage({i \in DOMAIN mrs : Opened(i) /\ mrs[i].target = 0})
  /\ pc' = "move"
  /\ UNCHANGED <<gitlab, gone, there, current, names, misread>>

(* Fault: feature releases are not left out.                               *)
MovableUnblocked(x) == ~ Blocked(x)

Movable(x) == ~ Blocked(x) /\ ~ Feature(x)

SkipMove ==
  /\ pc = "move"
  /\ \E x \in todo :
       /\ First(x)
       /\ ~ Movable(x)
       /\ Handled(x)
  /\ UNCHANGED <<gitlab, gone, there, current, names, misread>>

Move ==
  /\ pc = "move"
  /\ \E x \in todo :
       /\ First(x)
       /\ Movable(x)
       /\ Handled(x)
       /\ \/ SetTarget(x.id, current)
          \/ (Faulty \/ ~ Exists(current)) /\ UNCHANGED mrs
  /\ UNCHANGED <<releases, branches, settings, changes, calm, gone, there,
                 current, names, misread>>

EndMovePage == EndPage("move", "moves", "describe")

MovePageFails == ListingFails("moves", "describe")

-----------------------------------------------------------------------------
(* ProcessReleaseMRDescriptions.                                           *)

(* The MRs that the commits of the newest open release refer to are added  *)
(* to its description; one whose details cannot be fetched is left out.    *)
Describe ==
  /\ pc = "describe"
  /\ config = "on"
  /\ \E b \in Newest(OpenReleases) : \E S \in SUBSET releases[b].merged :
       /\ S = releases[b].merged \/ Faulty
       /\ releases' = [releases EXCEPT ![b].listed = @ \union S]
  /\ pc' = "idle"
  /\ names' = {}
  /\ UNCHANGED <<mrs, branches, settings, changes, calm, listing, gone, there,
                 current, misread>>

NothingToDescribe ==
  /\ pc = "describe"
  /\ config # "on" \/ OpenReleases = {} \/ Faulty
  /\ pc' = "idle"
  /\ names' = {}
  /\ UNCHANGED <<gitlab, listing, gone, there, current, misread>>

-----------------------------------------------------------------------------
(* The process dies.                                                       *)
Crash ==
  /\ Faulty
  /\ pc # "idle"
  /\ pc = "mr" => Len(releases) < MaxReleases
  /\ pc' = "idle"
  /\ page' = 1 /\ more' = FALSE /\ todo' = {}
  /\ gone' = {} /\ there' = {} /\ current' = 0 /\ names' = {}
  /\ UNCHANGED <<gitlab, misread>>

Orphans ==
  \/ StartTick \/ NotConfigured \/ OrphanPage \/ OrphanPageFails \/ LookUp
  \/ SkipOrphan \/ MoveOrphan \/ EndOrphanPage

Release ==
  \/ FindRelease \/ FindNone \/ FindFails \/ CreateBranch \/ CreateBranchFails
  \/ CreateMR \/ CreateMRFails

Moves ==
  \/ ReadBlockLabels \/ MovePage \/ MovePageFails \/ SkipMove \/ Move
  \/ EndMovePage

Tick == Orphans \/ Release \/ Moves \/ Describe \/ NothingToDescribe

Next == Change \/ Settle \/ Crash \/ Tick

Spec == Init /\ [][Next]_vars

(* The ticker keeps firing, its pass runs on, and faults end.              *)
FairSpec == Spec /\ WF_vars(Tick) /\ WF_vars(Settle)
-----------------------------------------------------------------------------
(* Properties.                                                             *)

Steps ==
  {"idle", "orphans", "orphan", "find", "branch", "mr", "labels", "moves",
   "move", "describe"}

TypeOK ==
  /\ mrs \in Seq(MRs)
  /\ releases \in Seq(Releases)
  /\ branches \subseteq DOMAIN releases
  /\ config \in {"none", "on", "cleared"}
  /\ labels \subseteq Labels /\ names \subseteq Labels
  /\ more \in BOOLEAN /\ calm \in BOOLEAN
  /\ misread \in BOOLEAN
  /\ pc \in Steps
  /\ page \in Nat \ {0} /\ changes \in Nat
  /\ todo \subseteq [id : DOMAIN mrs, mr : MRs]
  /\ gone \subseteq Branches /\ there \subseteq Branches
  /\ current \in 0 .. Len(releases)
  /\ pc \in {"mr", "labels", "moves", "move"} => current # 0

(* A release is opened only when the last one has ended: however ticks are *)
(* cut short and commands and users interfere, two releases are open only  *)
(* after an error was read as "no release".                                *)
OneRelease == misread \/ Cardinality(OpenReleases) <= 1

(* "MRs with feature release labels are excluded from regular release      *)
(* retargeting": whatever the age of its listings, a tick moves a feature  *)
(* release only if the label was not configured, or could not be read,     *)
(* when the tick began.                                                    *)
FeatureIsolated ==
  [][\A i \in DOMAIN mrs :
       mrs[i].feature /\ mrs'[i].target # mrs[i].target
         => "feature" \in labels \ names]_vars

(* An MR is called an orphan, and sent back to the development branch,     *)
(* only if the branch it was listed with is gone, also when calls fail and *)
(* the answer is an old one.                                               *)
RescuesOrphans ==
  [][\A i \in DOMAIN mrs :
       pc = "orphan" /\ pc' = "orphan" /\ changes' = changes
         /\ mrs'[i].target # mrs[i].target
       => \E x \in todo : x.id = i /\ x.mr.target \notin branches]_vars

(* With auto-release on, once everything is quiet: a release is open,      *)
(* every ordinary MR is on a branch that exists, only if it is blocked on  *)
(* the development branch, and the newest release lists all that was       *)
(* merged into it - although pages shift while MRs are moved and a tick    *)
(* may have been cut short anywhere.  (A feature release moved off the     *)
(* development branch is not brought back.)                                *)
Settled ==
  /\ OpenReleases # {}
  /\ \A i \in DOMAIN mrs : Opened(i) /\ ~ mrs[i].feature =>
       /\ Exists(mrs[i].target)
       /\ mrs[i].target = 0 => mrs[i].blocked /\ "block" \in labels
  /\ \A b \in Newest(OpenReleases) : releases[b].merged = releases[b].listed

Settles == <>[](config = "on" => Settled)
==============================================================================

-------------------------- MODULE ReviewerAssignment --------------------------
(***************************************************************************)
(* How a merge request gets its reviewers: AssignReviewers of              *)
(* consumers/mr_reviewer_consumer.go, the pools that chat commands keep    *)
(* (consumers/vk_command_consumer.go) and the copy of the merge request    *)
(* that polling/mrs.go makes.                                              *)
(*                                                                         *)
(* A tick copies the MR from GitLab, counts the reviewers of the copy,     *)
(* reads the reviewers of the MR's labels, then the default pool, writes   *)
(* the old and the chosen reviewers to GitLab, tells the chats and stores  *)
(* the chosen ones.  GitLab's users and the commands change the MR, the    *)
(* pools and who is on vacation at any point; calls fail and the process   *)
(* dies.  Whom a pool yields depends on a random number weighted with the  *)
(* reviews of the last two weeks: here, anyone.                            *)
(*                                                                         *)
(* Labels are numbered in the order of their names.                        *)
(***************************************************************************)
EXTENDS Naturals, FiniteSets

CONSTANTS
  People,      \* GitLab users
  Author,      \* the author of the MR
  Labels,      \* labels that may have reviewers of their own
  MaxCount,    \* bound: the largest assign count
  Starts,      \* bound: the settings a behaviour starts from
  Faults,      \* may calls fail and the process die?
  MaxChanges   \* bound: changes in GitLab and commands

(* Rows of label reviewers are deleted softly and stay unique: those that  *)
(* were cleared once are spent.                                            *)
Settings ==
  [count : 1 .. MaxCount, pool : SUBSET People,
   team : [Labels -> SUBSET People], spent : [Labels -> SUBSET People]]

ASSUME AssignmentAssumption ==
  /\ IsFiniteSet(People) /\ Author \in People
  /\ IsFiniteSet(Labels) /\ Labels \subseteq Nat
  /\ MaxCount \in Nat \ {0}
  /\ Starts \subseteq Settings
  /\ Faults \in BOOLEAN
  /\ MaxChanges \in Nat

VARIABLES
  mr,        \* the MR in GitLab
  db,        \* the database's copy of it
  settings,  \* assign count, default pool, reviewers per label
  vacation,  \* who is on vacation
  pc,        \* where the tick stands
  needed,    \* how many reviewers it looks for
  groups,    \* the reviewers it found per label
  others,    \* the default reviewers it found
  picked,    \* those it has chosen
  calm,      \* no more changes, commands, crashes or failures
  changes    \* how many changes there were

vars == <<mr, db, settings, vacation, pc, needed, groups, others, picked,
          calm, changes>>

round == <<needed, groups, others, picked>>

gitlab == <<mr, settings, vacation, calm, changes>>

(* An MR that is a draft, closed, blocked or a release is held: it gets no *)
(* reviewers.                                                              *)
MRs ==
  [labels : SUBSET Labels, reviewers : SUBSET People, held : BOOLEAN]

NoGroups == [l \in Labels |-> {}]

(* The tick is done with the MR.                                           *)
Done ==
  /\ pc' = "idle"
  /\ needed' = 0
  /\ groups' = NoGroups
  /\ others' = {}
  /\ picked' = {}

Init ==
  /\ mr \in [labels : SUBSET Labels, reviewers : {{}}, held : {FALSE}]
  /\ db = mr
  /\ settings \in Starts
  /\ vacation = {}
  /\ pc = "idle"
  /\ needed = 0
  /\ groups = NoGroups
  /\ others = {}
  /\ picked = {}
  /\ calm = FALSE
  /\ changes = 0

-----------------------------------------------------------------------------
(* GitLab's users.                                                         *)

Relabel ==
  /\ \E ls \in SUBSET Labels \ {mr.labels} : mr' = [mr EXCEPT !.labels = ls]
  /\ UNCHANGED <<settings, vacation>>

ToggleHold ==
  /\ mr' = [mr EXCEPT !.held = ~ @]
  /\ UNCHANGED <<settings, vacation>>

AddReviewer ==
  /\ \E u \in People \ mr.reviewers :
       mr' = [mr EXCEPT !.reviewers = @ \union {u}]
  /\ UNCHANGED <<settings, vacation>>

RemoveReviewer ==
  /\ \E u \in mr.reviewers : mr' = [mr EXCEPT !.reviewers = @ \ {u}]
  /\ UNCHANGED <<settings, vacation>>

(* /assign_count.                                                          *)
SetAssignCount ==
  /\ \E n \in 1 .. MaxCount \ {settings.count} :
       settings' = [settings EXCEPT !.count = n]
  /\ UNCHANGED <<mr, vacation>>

(* /reviewers: named users are added, no name clears the pool.             *)
SetReviewers ==
  /\ \/ \E u \in People \ settings.pool :
          settings' = [settings EXCEPT !.pool = @ \union {u}]
     \/ settings' = [settings EXCEPT !.pool = {}]
  /\ UNCHANGED <<mr, vacation>>

(* /label_reviewers: the same for a label, but the row of a user that was  *)
(* cleared cannot be created again, and the error goes unnoticed.          *)
SetLabelReviewers ==
  /\ \E l \in Labels :
       \/ \E u \in People \ (settings.team[l] \union settings.spent[l]) :
            settings' = [settings EXCEPT !.team[l] = @ \union {u}]
       \/ settings' = [settings EXCEPT
                         !.team[l] = {},
                         !.spent[l] = @ \union settings.team[l]]
  /\ UNCHANGED <<mr, vacation>>

(* /vacation reads the flag and writes its negation.                       *)
ToggleVacation ==
  /\ \E u \in People :
       vacation' = IF u \in vacation THEN vacation \ {u}
                                     ELSE vacation \union {u}
  /\ UNCHANGED <<mr, settings>>

Change ==
  /\ ~ calm
  /\ changes < MaxChanges
  /\ changes' = changes + 1
  /\ \/ Relabel \/ ToggleHold \/ AddReviewer \/ RemoveReviewer
     \/ SetAssignCount \/ SetReviewers \/ SetLabelReviewers
     \/ ToggleVacation
  /\ UNCHANGED <<db, pc, round, calm>>

Settle ==
  /\ ~ calm
  /\ calm' = TRUE
  /\ UNCHANGED <<mr, db, settings, vacation, pc, round, changes>>

Faulty == Faults /\ ~ calm

-----------------------------------------------------------------------------
(* The choice.                                                             *)

(* Fault: the MR's reviewers are not left out.                             *)
FitAnew(users) == users \ ({Author} \union vacation)

(* Neither the author, nor a reviewer already, nor on vacation.            *)
Fit(users) == users \ ({Author} \union db.reviewers \union vacation)

(* Fault: only the first label with reviewers gets one.                    *)
OnePerGroupFirst(found) ==
  LET served == {l \in Labels : found[l] # {}}
  IN {picks \in {{}} \union {{u} : u \in People} :
        /\ picks = {} <=> served = {}
        /\ \A l \in served :
             (\A k \in served : l <= k) => picks \subseteq found[l]}

(* Those of a label's group that no earlier label has taken.               *)
Left(found, choice, l) ==
  found[l] \ UNION {choice[k] : k \in {m \in Labels : m < l}}

(* One member of each label's group, label by label, nobody twice: a group *)
(* whose members are all taken gets nobody more.                           *)
Choices(found) ==
  {choice \in [Labels -> {{}} \union {{u} : u \in People}] :
     \A l \in Labels :
       IF Left(found, choice, l) = {}
         THEN choice[l] = {}
         ELSE \E u \in Left(found, choice, l) : choice[l] = {u}}

Members(found) == UNION {found[l] : l \in Labels}

OnePerGroup(found) == {Members(choice) : choice \in Choices(found)}

(* Fault: one too few.                                                     *)
PickFromShort(users, n) == {s \in SUBSET users : Cardinality(s) + 1 = n}

(* So many members of the pool, or all there are.                          *)
PickFrom(users, n) ==
  IF Cardinality(users) <= n
    THEN {users}
    ELSE {s \in SUBSET users : Cardinality(s) = n}

(* Fault: what the labels yielded is not taken off.                        *)
MissingAll == needed

Missing == IF Cardinality(picked) < needed THEN needed - Cardinality(picked)
                                           ELSE 0

-----------------------------------------------------------------------------
(* The tick.                                                               *)

(* The poller copies the MR, or fails to.                                  *)
Poll ==
  /\ pc = "idle"
  /\ \/ db' = mr
     \/ Faulty /\ UNCHANGED db
  /\ pc' = "assign"
  /\ UNCHANGED <<gitlab, round>>

(* Fault: MRs that have their reviewers are not passed over.               *)
LacksAlways == TRUE

Lacks == Cardinality(db.reviewers) < settings.count

NothingToAssign ==
  /\ pc = "assign"
  /\ db.held \/ ~ Lacks
  /\ Done
  /\ UNCHANGED <<gitlab, db>>

(* The assign count, and the reviewers of the MR's labels; a query that    *)
(* fails finds none.                                                       *)
Consider ==
  /\ pc = "assign"
  /\ ~ db.held /\ Lacks
  /\ needed' = settings.count - Cardinality(db.reviewers)
  /\ \/ groups' = [l \in Labels |->
                     IF l \in db.labels THEN Fit(settings.team[l]) ELSE {}]
     \/ Faulty /\ groups' = NoGroups
  /\ picked' \in OnePerGroup(groups')
  /\ pc' = "fill"
  /\ UNCHANGED <<gitlab, db, others>>

(* What the labels did not yield comes from the rest of their reviewers    *)
(* and the default pool; a query that fails finds nobody.                  *)
Fill ==
  /\ pc = "fill"
  /\ \/ others' = Fit(settings.pool)
     \/ Faulty /\ others' = {}
  /\ \E extra \in
         PickFrom((Members(groups) \union others') \ picked, Missing) :
       picked' = picked \union extra
  /\ pc' = "chosen"
  /\ UNCHANGED <<gitlab, db, needed, groups>>

NobodyFound ==
  /\ pc = "chosen"
  /\ picked = {}
  /\ Done
  /\ UNCHANGED <<gitlab, db>>

(* Fault: GitLab is given the new reviewers only.                          *)
AllReviewersNew == picked

AllReviewers == db.reviewers \union picked

(* GitLab is given the whole list.                                         *)
Update ==
  /\ pc = "chosen"
  /\ picked # {}
  /\ mr' = [mr EXCEPT !.reviewers = AllReviewers]
  /\ pc' = "store"
  /\ UNCHANGED <<settings, vacation, calm, changes, db, round>>

(* The call fails, or its answer is lost.                                  *)
UpdateFails ==
  /\ pc = "chosen"
  /\ picked # {}
  /\ Faulty
  /\ mr' \in {mr, [mr EXCEPT !.reviewers = AllReviewers]}
  /\ Done
  /\ UNCHANGED <<settings, vacation, calm, changes, db>>

(* The chats are told and the chosen reviewers are stored; they are not if *)
(* the subscriptions cannot be read or the write fails.                    *)
Store ==
  /\ pc = "store"
  /\ \/ db' = [db EXCEPT !.reviewers = @ \union picked]
     \/ Faulty /\ UNCHANGED db
  /\ Done
  /\ UNCHANGED gitlab

Crash ==
  /\ Faulty
  /\ pc # "idle"
  /\ Done
  /\ UNCHANGED <<gitlab, db>>

Tick ==
  \/ Poll \/ NothingToAssign \/ Consider \/ Fill \/ NobodyFound
  \/ Update \/ Store

Next == Change \/ Settle \/ Tick \/ UpdateFails \/ Crash

(* The ticker goes on for as long as the process lives, and the process is *)
(* restarted; faults end.                                                  *)
Spec == Init /\ [][Next]_vars /\ WF_vars(Tick)

-----------------------------------------------------------------------------
TypeOK ==
  /\ mr \in MRs /\ db \in MRs
  /\ settings \in Settings
  /\ vacation \subseteq People
  /\ pc \in {"idle", "assign", "fill", "chosen", "store"}
  /\ needed \in 0 .. MaxCount
  /\ groups \in [Labels -> SUBSET People]
  /\ others \subseteq People /\ picked \subseteq People
  /\ calm \in BOOLEAN
  /\ changes \in 0 .. MaxChanges

(* Whatever the order of the labels and the overlaps of their groups, each *)
(* label that had a reviewer to offer has one of them chosen ("Pick        *)
(* exactly 1 from each label group (no reuse across groups)").             *)
GroupsServed ==
  pc \in {"chosen", "store"} =>
    \A l \in Labels : groups[l] # {} => groups[l] \cap picked # {}

(* As many are chosen as the MR lacks, unless every reviewer there is is   *)
(* chosen: those of the labels and those of the default pool.              *)
Filled ==
  pc \in {"chosen", "store"} =>
    \/ Cardinality(picked) >= needed
    \/ picked = others \union Members(groups)

(* No more are chosen than the MR lacks, or it has labels with reviewers:  *)
(* filling up counts those that were chosen for the labels.                *)
NotCrowded ==
  Cardinality(picked) <= needed
    \/ Cardinality(picked) <= Cardinality({l \in Labels : groups[l] # {}})

(* The list that is written to GitLab is the database's and may be out of  *)
(* date, but a reviewer that both know leaves the MR by the hand of a      *)
(* user only.                                                              *)
KnownReviewersStay ==
  [][\A u \in mr.reviewers \cap db.reviewers :
       u \notin mr'.reviewers => changes' # changes]_vars

(* Everyone who could review the MR at present.                            *)
Candidates ==
  (settings.pool \union UNION {settings.team[l] : l \in mr.labels})
    \ ({Author} \union vacation)

(* Once nothing changes or fails any more, the MR comes to have the        *)
(* reviewers it needs, or all there are, and the database knows them,      *)
(* whatever failures and crashes left behind.                              *)
Staffed ==
  <>calm => <>[](/\ db = mr
                 /\ \/ mr.held
                    \/ Cardinality(mr.reviewers) >= settings.count
                    \/ Candidates \subseteq mr.reviewers)

=============================================================================

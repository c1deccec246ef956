---------------------------- MODULE Subscriptions -----------------------------
(***************************************************************************)
(* Which chat a repository belongs to, and the settings of repositories    *)
(* (/subscribe, /unsubscribe and the commands that configure, in           *)
(* consumers/vk_command_consumer.go, over the tables of models/models.go). *)
(*                                                                         *)
(* A chat's commands configure all the repositories it is subscribed to.   *)
(* A new subscription copies the settings of another repository of the     *)
(* chat; a take-over deletes most of the repository's settings first: not  *)
(* its release labels, feature release labels and Jira prefixes, which are *)
(* not copied either.  Deletions are soft: a deleted row is not found, but *)
(* stays in the unique index of its table, and the same row cannot be      *)
(* created again.  Lookups that fail are taken for lookups that find       *)
(* nothing, also those for the chat that has the repository.               *)
(*                                                                         *)
(* A setting stands for a row of such a table: the SLA row, the auto-      *)
(* release configuration, a holiday, a label reviewer, a block or ready    *)
(* label, a release manager.  Commands are handled one at a time.          *)
(***************************************************************************)
EXTENDS Naturals, FiniteSets

CONSTANTS
  Repos,       \* repositories
  Chats,       \* chats
  Users,       \* users that can be reviewers
  Added,       \* settings that commands only add: SLA, block, ready labels
  Cleared,     \* settings that commands add and clear: holidays, label
               \* reviewers, auto-release
  Kept,        \* settings that outlive a take-over: release and feature
               \* release labels, Jira prefixes
  Managers,    \* the release managers, set all together
  DbFaults,    \* may reads and writes of the database fail?
  MaxGiven     \* bound: commands

(* What a take-over deletes and a subscription copies.                     *)
Passing == Added \union Cleared \union Managers

Names == Passing \union Kept

ASSUME SubscriptionsAssumption ==
  /\ MaxGiven \in Nat
  /\ Added \cap Cleared = {} /\ (Added \union Cleared) \cap Managers = {}
  /\ Passing \cap Kept = {}
  /\ DbFaults \in BOOLEAN

VARIABLES
  subs,      \* how many live subscriptions a repository has of each chat
  rows,      \* for each repository and setting: never made, live or deleted
  pool,      \* the default reviewers (their table has no unique index)
  pending,   \* the managers that a half-done command has still to create
  refused,   \* history: why the last /subscribe did nothing
  misread,   \* history: repositories with a subscription that a failed
             \* lookup hid from the /subscribe that made another
  given      \* how many commands there were

subVars == <<subs, rows, pool, pending, refused, misread, given>>

Nobody == [repos |-> {}, managers |-> {}]

SubInit ==
  /\ subs = [r \in Repos |-> [c \in Chats |-> 0]]
  /\ rows = [r \in Repos |-> [n \in Names |-> "none"]]
  /\ pool = [r \in Repos |-> {}]
  /\ pending = Nobody
  /\ refused = "no"
  /\ misread = {}
  /\ given = 0

-----------------------------------------------------------------------------
(* Tables.                                                                 *)

Owners(r) == {c \in Chats : subs[r][c] > 0}

ReposOf(c) == {r \in Repos : subs[r][c] > 0}

Deleted(row, names) ==
  [n \in Names |->
     IF n \in names /\ row[n] = "live" THEN "deleted" ELSE row[n]]

(* Fault: without the unique index, a new row is created beside the        *)
(* deleted one.                                                            *)
CreatedBeside(row, names) ==
  [n \in Names |->
     IF n \notin names THEN row[n]
     ELSE IF row[n] = "deleted" THEN "both" ELSE "live"]

(* Creating a row that was deleted violates the unique index.              *)
Created(row, names) ==
  [n \in Names |->
     IF n \in names /\ row[n] = "none" THEN "live" ELSE row[n]]

Live(row) == {n \in Names : row[n] = "live"}

-----------------------------------------------------------------------------
(* Commands.                                                               *)

Command ==
  /\ pending = Nobody
  /\ given < MaxGiven
  /\ given' = given + 1

(* A chat without a repository is told so, and nothing else happens.       *)
Configures(c) == Command /\ ReposOf(c) # {}

(* FirstOrCreate, repository by repository: the error of a row that was    *)
(* deleted leaves the others alone.  A repository is passed over when      *)
(* GitLab cannot make its label or it lacks a release label; block labels  *)
(* stop at the first error.                                                *)
AddSetting(c) ==
  /\ Configures(c)
  /\ \E n \in Added \union Cleared \union Kept, done \in SUBSET ReposOf(c) :
       rows' = [r \in Repos |-> IF r \in done THEN Created(rows[r], {n})
                                              ELSE rows[r]]
  /\ UNCHANGED <<subs, pool, pending, refused, misread>>

ClearSetting(c) ==
  /\ Configures(c)
  /\ \E n \in Cleared :
       rows' = [r \in Repos |-> IF r \in ReposOf(c) THEN Deleted(rows[r], {n})
                                                    ELSE rows[r]]
  /\ UNCHANGED <<subs, pool, pending, refused, misread>>

(* /reviewers.                                                             *)
SetReviewers(c) ==
  /\ Configures(c)
  /\ \/ \E u \in Users :
          pool' = [r \in Repos |-> IF r \in ReposOf(c) THEN pool[r] \union {u}
                                                       ELSE pool[r]]
     \/ pool' = [r \in Repos |-> IF r \in ReposOf(c) THEN {} ELSE pool[r]]
  /\ UNCHANGED <<subs, rows, pending, refused, misread>>

(* /release_managers deletes the managers of the chat's repositories, then *)
(* creates the new ones, row by row.                                       *)
ClearManagers(c) ==
  /\ Configures(c)
  /\ rows' = [r \in Repos |->
                IF r \in ReposOf(c) THEN Deleted(rows[r], Managers)
                                    ELSE rows[r]]
  /\ \E ms \in SUBSET Managers \ {{}} :
       pending' = [repos |-> ReposOf(c), managers |-> ms]
  /\ UNCHANGED <<subs, pool, refused, misread>>

CreateManagers ==
  /\ pending # Nobody
  /\ rows' = [r \in Repos |->
                IF r \in pending.repos THEN Created(rows[r], pending.managers)
                                       ELSE rows[r]]
  /\ pending' = Nobody
  /\ UNCHANGED <<subs, pool, refused, misread, given>>

(* The process dies in between, or the command gives up at a user that it  *)
(* cannot look up or store.                                                *)
GiveUp ==
  /\ pending # Nobody
  /\ \E done \in SUBSET (pending.repos \X pending.managers) :
       rows' = [r \in Repos |->
                  Created(rows[r], {m \in Managers : <<r, m>> \in done})]
  /\ pending' = Nobody
  /\ UNCHANGED <<subs, pool, refused, misread, given>>

(* One of a chat's subscriptions of a repository is deleted.               *)
Without(r, c) == [subs EXCEPT ![r][c] = @ - 1]

Unsubscribe(c) ==
  /\ Command
  /\ \E r \in ReposOf(c) : subs' = Without(r, c)
  /\ UNCHANGED <<rows, pool, pending, refused, misread>>

-----------------------------------------------------------------------------
(* /subscribe, in one transaction.                                         *)

Refuse(why) ==
  /\ refused' = why
  /\ UNCHANGED <<subs, rows, pool, pending, misread>>

(* The chats whose subscriptions the two lookups find, that of the chat    *)
(* itself and that of another: a lookup that fails finds none.             *)
Found(r, c) ==
  {Owners(r)}
  \union {seen \in {Owners(r) \ {c}, Owners(r) \cap {c}, {}} : DbFaults}

(* A chat that has the repository already, or that does not use force on   *)
(* one of another chat, is turned away.                                    *)
Turned(c, seen, force) ==
  \/ c \in seen /\ Refuse("subscribed")
  \/ c \notin seen /\ seen # {} /\ ~ force /\ Refuse("owned")

(* Fault: the old subscription is kept.                                    *)
TakenOverKept(r, seen) == {subs}

(* The take-over ends one subscription, the first of another chat.         *)
TakenOver(r, seen) ==
  IF seen = {} THEN {subs} ELSE {Without(r, d) : d \in seen}

(* Fault: a take-over keeps the default reviewers.                         *)
RemainingReviewers(r, seen) ==
  [row |-> IF seen = {} THEN rows[r] ELSE Deleted(rows[r], Passing),
   pool |-> pool[r]]

(* The settings are deleted with another chat's subscription only.         *)
Remaining(r, seen) ==
  IF seen = {}
    THEN [row |-> rows[r], pool |-> pool[r]]
    ELSE [row |-> Deleted(rows[r], Passing), pool |-> {}]

(* A row that exists, live or deleted, cannot be created.                  *)
Clash(row, names) == \E n \in names : row[n] # "none"

Nothing == [names |-> {}, users |-> {}]

(* What is read to be copied, from one of the chat's other repositories; a *)
(* read that fails gives nothing.                                          *)
Copies(r, c) ==
  LET sources == ReposOf(c) \ {r}
      All(s) == [names |-> Live(rows[s]) \cap Passing, users |-> pool[s]]
      Some(s) == [names : SUBSET All(s).names, users : {{}, pool[s]}]
  IN  {All(s) : s \in sources}
      \union {copy \in {Nothing} : sources = {} \/ DbFaults}
      \union {copy \in UNION {Some(s) : s \in sources} : DbFaults}

(* An error while a setting is copied rolls everything back.               *)
Join(r, c, seen, copy) ==
  LET start == Remaining(r, seen)
  IN  /\ ~ Clash(start.row, copy.names)
      /\ \E left \in TakenOver(r, seen) :
           subs' = [left EXCEPT ![r][c] = @ + 1]
      /\ rows' = [rows EXCEPT ![r] = Created(start.row, copy.names)]
      /\ pool' = [pool EXCEPT ![r] = start.pool \union copy.users]
      /\ misread' = misread \union {q \in {r} : seen # Owners(r)}
      /\ refused' = "no"
      /\ UNCHANGED pending

Admitted(r, c, seen) ==
  \E copy \in Copies(r, c) :
    \/ Join(r, c, seen, copy)
    \/ /\ Clash(Remaining(r, seen).row, copy.names) \/ DbFaults
       /\ Refuse("failed")

Subscribe(c, force) ==
  /\ Command
  /\ \E r \in Repos : \E seen \in Found(r, c) :
       \/ Turned(c, seen, force)
       \/ /\ c \notin seen /\ (seen = {} \/ force)
          /\ Admitted(r, c, seen)

SubNext ==
  \/ \E c \in Chats :
       \/ AddSetting(c) \/ ClearSetting(c) \/ SetReviewers(c)
       \/ ClearManagers(c) \/ Unsubscribe(c)
       \/ \E force \in BOOLEAN : Subscribe(c, force)
  \/ CreateManagers \/ GiveUp

SubSpec == SubInit /\ [][SubNext]_subVars

-----------------------------------------------------------------------------
States == {"none", "live", "deleted"}

(* A row exists once at most.                                              *)
SubTypeOK ==
  /\ subs \in [Repos -> [Chats -> Nat]]
  /\ rows \in [Repos -> [Names -> States]]
  /\ pool \in [Repos -> SUBSET Users]
  /\ pending \in [repos : SUBSET Repos, managers : SUBSET Managers]
  /\ refused \in {"no", "subscribed", "owned", "failed"}
  /\ misread \subseteq Repos
  /\ given \in 0 .. MaxGiven

(* A repository belongs to one chat at most, and by one subscription,      *)
(* although nothing in the table of subscriptions says so: reviewers are   *)
(* announced in one place, and one chat's commands configure it.  Only     *)
(* where a lookup failed, and the failure was taken for "nobody has it",   *)
(* may there be another.                                                   *)
OneOwner ==
  \A r \in Repos \ misread : \A c, d \in Owners(r) : c = d /\ subs[r][c] = 1

(* What a chat that takes a repository over finds configured of reviewers, *)
(* SLA, holidays, block and ready labels, auto-release and managers comes  *)
(* from its own repositories, nothing of it from the chat before; and the  *)
(* release labels and prefixes of that chat stay as they were.             *)
TakeOverClean ==
  [][\A r \in Repos, c, d \in Chats :
       /\ c # d
       /\ subs'[r][d] < subs[r][d] /\ subs[r][c] < subs'[r][c]
       => LET rest == ReposOf(c) \ {r}
          IN  /\ Live(rows'[r]) \ Kept
                   \subseteq UNION {Live(rows[s]) : s \in rest}
              /\ pool'[r] \subseteq UNION {pool[s] : s \in rest}
              /\ \A n \in Kept : rows'[r][n] = rows[r][n]]_subVars

(* README.md:116: "Use `--force` to take over a repo from another chat",   *)
(* "Failed to create subscription" being for errors of the database.  A    *)
(* setting that the repository has, or once had, stands in the way of the  *)
(* copy.                                                                   *)
SubscribeWorks == refused # "failed"
=============================================================================

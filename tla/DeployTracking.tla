---------------------------- MODULE DeployTracking -----------------------------
(***************************************************************************)
(* Deploy tracking (consumers/deploy_tracking_consumer.go): the last part  *)
(* of the tick of main.go lists the jobs of a deploy project, keeps a row  *)
(* per job and tells the chats subscribed to the releases of the target    *)
(* repository that a job has started and that it has ended.                *)
(*                                                                         *)
(*   idle -> list -> lookup -> store -> send -> mark -> lookup ... idle    *)
(*                                                                         *)
(* Meanwhile chats add and remove rules, in a goroutine of their own, one  *)
(* command at a time.  Removing a rule takes two writes: its rows go       *)
(* first.  Both are soft deletes: a deleted row still occupies its place   *)
(* in the unique index, of a rule as well as of a job.                     *)
(*                                                                         *)
(* The rules are those of one deploy project and one job name: they differ *)
(* by their target repository.  Success, failure and cancellation are one  *)
(* status here, "ended": the code tells them apart only in the wording.    *)
(* Rules and jobs are numbered in the order of their creation.             *)
(***************************************************************************)
EXTENDS Naturals

CONSTANTS
  Rules,   \* tracking rules
  Jobs,    \* jobs of the deploy project
  Faults   \* may calls fail and the process die?

ASSUME DeployAssumption ==
  /\ Rules \subseteq Nat \ {0}
  /\ Jobs \subseteq Nat
  /\ Faults \in BOOLEAN

VARIABLES
  gl,       \* the jobs in GitLab: status, on the page that is listed?
  rules,    \* the rules in the database: "none", "live" or "deleted"
  old,      \* the jobs that were there before a rule
  rows,     \* TrackedDeployJob: a row for a job
  deleting, \* the rule that /untrack_deploy still has to delete
  pc,       \* where the pass stands
  read,     \* the rules the pass has read
  listing,  \* the statuses the pass was given
  todo,     \* the jobs it still has to process, with the rules
  at,       \* the rule and the job it processes now
  tracked,  \* the row it has in memory
  calm,     \* no more changes, commands, crashes or failures
  heard,    \* history: the last news a rule's chats have of a job
  lost,     \* history: news whose sending failed
  torn      \* history: news that was sent and not marked

vars == <<gl, rules, old, rows, deleting, pc, read, listing, todo, at,
          tracked, calm, heard, lost, torn>>

pass == <<pc, read, listing, todo, at, tracked>>

history == <<heard, lost, torn>>

NoRow == [rule |-> 0, status |-> "none", started |-> FALSE,
          finished |-> FALSE, deleted |-> FALSE]

NewRow(r, s) == [NoRow EXCEPT !.rule = r, !.status = s]

NoListing == [j \in Jobs |-> "none"]

Pairs == Rules \X Jobs

NoPair == <<0, 0>>

Init ==
  /\ gl = [j \in Jobs |-> [status |-> "none", listed |-> TRUE]]
  /\ rules = [r \in Rules |-> "none"]
  /\ old = [r \in Rules |-> {}]
  /\ rows = [j \in Jobs |-> NoRow]
  /\ deleting = 0
  /\ pc = "idle"
  /\ read = {}
  /\ listing = NoListing
  /\ todo = {}
  /\ at = NoPair
  /\ tracked = NoRow
  /\ calm = FALSE
  /\ heard = [p \in Pairs |-> "nothing"]
  /\ lost = {}
  /\ torn = {}

Faulty == Faults /\ ~ calm

-----------------------------------------------------------------------------
(* GitLab.                                                                 *)

Follows(s) ==
  CASE s = "none"    -> {"created"}
    [] s = "created" -> {"running", "ended"}
    [] s = "running" -> {"ended"}
    [] OTHER         -> {}

Advance(j) ==
  /\ ~ calm
  /\ \A i \in Jobs : i < j => gl[i].status # "none"
  /\ \E s \in Follows(gl[j].status) : gl' = [gl EXCEPT ![j].status = s]
  /\ UNCHANGED <<rules, old, rows, deleting, pass, calm, history>>

(* Fifty newer jobs push a job from the only page that is asked for.       *)
PushOut(j) ==
  /\ ~ calm
  /\ gl[j].status # "none" /\ gl[j].listed
  /\ \A i \in Jobs : i < j => ~ gl[i].listed
  /\ gl' = [gl EXCEPT ![j].listed = FALSE]
  /\ UNCHANGED <<rules, old, rows, deleting, pass, calm, history>>

Settle ==
  /\ ~ calm
  /\ calm' = TRUE
  /\ UNCHANGED <<gl, rules, old, rows, deleting, pass, history>>

-----------------------------------------------------------------------------
(* The commands.                                                           *)

(* /track_deploy.  A rule that is there already is only reported; one that *)
(* was deleted cannot be created again.                                    *)
Track(r) ==
  /\ ~ calm
  /\ deleting = 0
  /\ rules[r] = "none"
  /\ \A q \in Rules : q < r => rules[q] # "none"
  /\ rules' = [rules EXCEPT ![r] = "live"]
  /\ old' = [old EXCEPT ![r] = {j \in Jobs : gl[j].status # "none"}]
  /\ UNCHANGED <<gl, rows, deleting, pass, calm, history>>

(* /untrack_deploy: the rows of the rule, then the rule; that the first    *)
(* write fails is not noticed.                                             *)
UntrackRows(r) ==
  /\ ~ calm
  /\ deleting = 0
  /\ rules[r] = "live"
  /\ \/ rows' = [j \in Jobs |-> IF rows[j].rule = r
                                THEN [rows[j] EXCEPT !.deleted = TRUE]
                                ELSE rows[j]]
     \/ Faults /\ UNCHANGED rows
  /\ deleting' = r
  /\ UNCHANGED <<gl, rules, old, pass, calm, history>>

UntrackRule ==
  /\ deleting # 0
  /\ rules' = [rules EXCEPT ![deleting] = "deleted"]
  /\ deleting' = 0
  /\ UNCHANGED <<gl, old, rows, pass, calm, history>>

(* The second write fails; the chat is told that the rule was removed.     *)
UntrackRuleFails ==
  /\ deleting # 0
  /\ Faulty
  /\ deleting' = 0
  /\ UNCHANGED <<gl, rules, old, rows, pass, calm, history>>

-----------------------------------------------------------------------------
(* PollDeployJobs.                                                         *)

(* What a pass has read it leaves behind.                                  *)
Forget ==
  /\ pc' = "idle"
  /\ read' = {}
  /\ listing' = NoListing
  /\ todo' = {}
  /\ at' = NoPair
  /\ tracked' = NoRow

Live == {r \in Rules : rules[r] = "live"}

ReadRules ==
  /\ pc = "idle"
  /\ Live # {}
  /\ read' = Live
  /\ pc' = "list"
  /\ UNCHANGED <<gl, rules, old, rows, deleting, listing, todo, at, tracked,
                 calm, history>>

(* Fault: jobs that wait for their start are listed as well.               *)
ListedAll == {j \in Jobs : gl[j].listed /\ gl[j].status # "none"}

Listed == {j \in Jobs : gl[j].listed /\ gl[j].status \in {"running", "ended"}}

List ==
  /\ pc = "list"
  /\ listing' = [j \in Jobs |-> IF j \in Listed THEN gl[j].status
                                ELSE "none"]
  /\ todo' = {p \in read \X Listed : p[2] \notin old[p[1]]}
  /\ pc' = "lookup"
  /\ UNCHANGED <<gl, rules, old, rows, deleting, read, at, tracked, calm,
                 history>>

ListFails ==
  /\ pc = "list"
  /\ Faulty
  /\ Forget
  /\ UNCHANGED <<gl, rules, old, rows, deleting, calm, history>>

(* The jobs come newest first, the rules in the order of their ids.        *)
Precedes(p, q) == p[2] > q[2] \/ (p[2] = q[2] /\ p[1] < q[1])

Rule == at[1]

Job == at[2]

NextPair ==
  /\ todo' = todo \ {at}
  /\ at' = NoPair
  /\ tracked' = NoRow
  /\ pc' = "lookup"
  /\ UNCHANGED <<read, listing>>

EndPass ==
  /\ pc = "lookup"
  /\ todo = {}
  /\ Forget
  /\ UNCHANGED <<gl, rules, old, rows, deleting, calm, history>>

TrackedRow(p) ==
  IF rows[p[2]].rule = p[1] /\ ~ rows[p[2]].deleted THEN rows[p[2]] ELSE NoRow

Lookup ==
  /\ pc = "lookup"
  /\ \E p \in todo :
       /\ \A q \in todo \ {p} : Precedes(p, q)
       /\ at' = p
       /\ tracked' = TrackedRow(p)
  /\ pc' = "store"
  /\ UNCHANGED <<gl, rules, old, rows, deleting, read, listing, todo, calm,
                 history>>

(* The row may be new.                                                     *)
Create ==
  /\ pc = "store"
  /\ tracked = NoRow /\ rows[Job] = NoRow
  /\ rows' = [rows EXCEPT ![Job] = NewRow(Rule, listing[Job])]
  /\ tracked' = NewRow(Rule, listing[Job])
  /\ pc' = "send"
  /\ UNCHANGED <<gl, rules, old, deleting, read, listing, todo, at, calm,
                 history>>

(* Another rule has a row for the job, or had one: the index is unique.    *)
Conflict ==
  /\ pc = "store"
  /\ tracked = NoRow /\ rows[Job] # NoRow
  /\ NextPair
  /\ UNCHANGED <<gl, rules, old, rows, deleting, calm, history>>

(* Fault: the new status is kept in memory only if the job is running.     *)
SavedRunning ==
  IF listing[Job] = "running" THEN [tracked EXCEPT !.status = "running"]
  ELSE tracked

(* The whole row is saved: one that was deleted meanwhile is back.         *)
Saved == [tracked EXCEPT !.status = listing[Job]]

Save ==
  /\ pc = "store"
  /\ tracked # NoRow
  /\ tracked' = Saved
  /\ rows' = IF Saved # tracked THEN [rows EXCEPT ![Job] = Saved] ELSE rows
  /\ pc' = "send"
  /\ UNCHANGED <<gl, rules, old, deleting, read, listing, todo, at, calm,
                 history>>

(* The lookup, Create or Save fails: the pair is left for the next pass.   *)
StoreFails ==
  /\ pc = "store"
  /\ Faulty
  /\ NextPair
  /\ UNCHANGED <<gl, rules, old, rows, deleting, calm, history>>

-----------------------------------------------------------------------------
(* notifyIfNeeded.                                                         *)

(* Fault: the flag of the start is not looked at.                          *)
StartDueAlways == tracked.status = "running"

StartDue == tracked.status = "running" /\ ~ tracked.started

(* Fault: a job that has started is taken for ended.                       *)
EndDueEarly == tracked.started /\ ~ tracked.finished

EndDue == tracked.status = "ended" /\ ~ tracked.finished

Due == StartDue \/ EndDue

Kind == IF StartDue THEN "running" ELSE "ended"

NothingDue ==
  /\ pc = "send"
  /\ ~ Due
  /\ NextPair
  /\ UNCHANGED <<gl, rules, old, rows, deleting, calm, history>>

News == <<at, Kind>>

Send ==
  /\ pc = "send"
  /\ Due
  /\ heard' = [heard EXCEPT ![at] = Kind]
  /\ pc' = "mark"
  /\ UNCHANGED <<gl, rules, old, rows, deleting, read, listing, todo, at,
                 tracked, calm, lost, torn>>

(* Nobody is subscribed, or the call fails: that is not noticed below.     *)
SendFails ==
  /\ pc = "send"
  /\ Due
  /\ Faulty
  /\ lost' = lost \union {News}
  /\ pc' = "mark"
  /\ UNCHANGED <<gl, rules, old, rows, deleting, read, listing, todo, at,
                 tracked, calm, heard, torn>>

(* Fault: one flag for both messages.                                      *)
MarkedBoth(row) == [row EXCEPT !.started = TRUE, !.finished = TRUE]

Marked(row) ==
  IF Kind = "running" THEN [row EXCEPT !.started = TRUE]
  ELSE [row EXCEPT !.finished = TRUE]

(* Update touches no row that was deleted.                                 *)
Mark ==
  /\ pc = "mark"
  /\ rows' = IF rows[Job].deleted THEN rows
             ELSE [rows EXCEPT ![Job] = Marked(@)]
  /\ torn' = torn \ {News}
  /\ NextPair
  /\ UNCHANGED <<gl, rules, old, deleting, calm, heard, lost>>

MarkFails ==
  /\ pc = "mark"
  /\ Faulty
  /\ torn' = torn \union {News}
  /\ NextPair
  /\ UNCHANGED <<gl, rules, old, rows, deleting, calm, heard, lost>>

(* The process dies, a command under way with it, and starts again.        *)
Crash ==
  /\ Faulty
  /\ pc # "idle" \/ deleting # 0
  /\ torn' = IF pc = "mark" THEN torn \union {News} ELSE torn
  /\ Forget
  /\ deleting' = 0
  /\ UNCHANGED <<gl, rules, old, rows, calm, heard, lost>>

-----------------------------------------------------------------------------
Environment ==
  \/ \E j \in Jobs : Advance(j) \/ PushOut(j)
  \/ \E r \in Rules : Track(r) \/ UntrackRows(r)
  \/ Crash

Poll ==
  \/ ReadRules \/ List \/ ListFails \/ EndPass \/ Lookup \/ Create
  \/ Conflict \/ Save \/ StoreFails \/ NothingDue \/ Send \/ SendFails
  \/ Mark \/ MarkFails

Untrack == UntrackRule \/ UntrackRuleFails

Next == Environment \/ Settle \/ Untrack \/ Poll

Spec == Init /\ [][Next]_vars

(* The ticker keeps firing, a command runs to its end, and faults end.     *)
FairSpec == Spec /\ WF_vars(Poll) /\ WF_vars(Untrack) /\ WF_vars(Settle)

-----------------------------------------------------------------------------
(* Properties.                                                             *)

Statuses == {"none", "created", "running", "ended"}

Seen == {"none", "running", "ended"}

RowType ==
  [rule : Rules \union {0}, status : Seen, started : BOOLEAN,
   finished : BOOLEAN, deleted : BOOLEAN]

TypeOK ==
  /\ gl \in [Jobs -> [status : Statuses, listed : BOOLEAN]]
  /\ rules \in [Rules -> {"none", "live", "deleted"}]
  /\ old \in [Rules -> SUBSET Jobs]
  /\ rows \in [Jobs -> RowType]
  /\ deleting \in Rules \union {0}
  /\ pc \in {"idle", "list", "lookup", "store", "send", "mark"}
  /\ read \subseteq Rules
  /\ listing \in [Jobs -> Seen]
  /\ todo \subseteq Pairs
  /\ at \in Pairs \union {NoPair}
  /\ tracked \in RowType
  /\ calm \in BOOLEAN
  /\ heard \in [Pairs -> {"nothing", "running", "ended"}]
  /\ lost \subseteq Pairs \X Seen
  /\ torn \subseteq Pairs \X Seen

(* The flags of a row tell the truth: what is marked as told was sent to   *)
(* the chats of the row's rule, or its sending failed.                     *)
MarkedWasSent ==
  \A j \in Jobs : LET p == <<rows[j].rule, j>> IN
    /\ rows[j].started
         => heard[p] # "nothing" \/ <<p, "running">> \in lost
    /\ rows[j].finished
         => heard[p] = "ended" \/ <<p, "ended">> \in lost

(* No news is sent twice, whoever deletes or brings back rows in between,  *)
(* but for news that could not be marked when it was sent.                 *)
NothingSentTwice ==
  [][pc = "send" /\ pc' = "mark"
       => heard[at] # Kind \/ News \in torn]_vars

(* Chats hear what README.md, Deploy Tracking, promises: of the start and  *)
(* the end of a job, neither before it is so, and the end last.            *)
Promise ==
  INSTANCE DeployNews WITH status <- [j \in Jobs |-> gl[j].status],
                           heard <- heard

KeepsPromise == Promise!Spec

(* The end of a job that has a row is told in the end, whatever failed or  *)
(* died before, unless the job has left the page, or the rule its row.     *)
EndTold ==
  \A r \in Rules, j \in Jobs :
    gl[j].status = "ended" /\ rows[j].rule = r
      ~> \/ heard[r, j] = "ended" \/ <<<<r, j>>, "ended">> \in lost
         \/ ~ gl[j].listed
         \/ rows[j].deleted \/ rules[r] = "deleted"
==============================================================================

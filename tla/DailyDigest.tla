------------------------------ MODULE DailyDigest ------------------------------
(***************************************************************************)
(* The personal daily digest of one user                                   *)
(* (consumers/personal_digest_consumer.go) and the command that switches   *)
(* it (handleDailyDigestCommand).                                          *)
(*                                                                         *)
(* A goroutine looks at the clock once a minute.  When it is the first     *)
(* minute after ten for the user, on a working day, it stores LastSentAt   *)
(* and then makes and sends the digest.  The command, in another           *)
(* goroutine, reads the row of the user, changes it and saves it whole,    *)
(* LastSentAt included.                                                    *)
(*                                                                         *)
(* Time is in hours; hour 0 is a Monday's midnight, UTC.  Only the first   *)
(* minute of an hour matters: several ticks may fall into it (the ticker   *)
(* delivers a late one at once), or none.                                  *)
(***************************************************************************)
EXTENDS Integers

CONSTANTS
  Zones,       \* offsets of the user's time from UTC, in hours
  Projects,    \* repositories of the merge requests that need the user
  Start,       \* the hour the model starts with
  MaxHour,     \* bound: the last hour
  MaxCommands, \* bound: commands
  Faults       \* may calls fail, ticks be late, the process die?

ASSUME DigestAssumption ==
  /\ Zones \subseteq -14 .. 14
  /\ 3 \in Zones
  /\ Start \in Nat /\ MaxHour \in Nat /\ Start <= MaxHour
  /\ MaxCommands \in Nat
  /\ Faults \in BOOLEAN

VARIABLES
  now,      \* the hour
  ticked,   \* was there a tick in the first minute of the hour?
  own,      \* repositories of the merge requests the digest lists first
  holidays, \* repositories with a holiday on the user's day
  row,      \* DailyDigestPreference
  draft,    \* the command's copy of the row
  commands, \* how many commands there were
  pc,       \* where the tick stands
  pref,     \* the tick's copy of the row
  today,    \* the user's day when the tick looked at the clock
  written,  \* history: the hour LastSentAt was last written by a tick
  sent,     \* history: the hour the last digest was sent
  undone,   \* history: has a command put an older LastSentAt back?
  steady    \* history: no command and no fault in this hour

vars == <<now, ticked, own, holidays, row, draft, commands, pc, pref, today,
          written, sent, undone, steady>>

clock == <<now, ticked, own, holidays>>

history == <<written, sent, undone>>

Never == -1

NoRow == [enabled |-> FALSE, zone |-> 3, last |-> Never, stored |-> FALSE]

Day(hour, zone) == (hour + zone) \div 24

LocalHour(hour, zone) == (hour + zone) % 24

Weekend(day) == day % 7 \in {5, 6}

Init ==
  /\ now = Start
  /\ ticked = FALSE
  /\ own = {} /\ holidays = {}
  /\ row = NoRow
  /\ draft = NoRow
  /\ commands = 0
  /\ pc = "idle"
  /\ pref = NoRow
  /\ today = 0
  /\ written = Never
  /\ sent = Never
  /\ undone = FALSE
  /\ steady = TRUE

-----------------------------------------------------------------------------
(* Time.  Without faults the ticker fires in every minute and is not held  *)
(* up for an hour.                                                         *)
NextHour ==
  /\ now < MaxHour
  /\ Faults \/ (ticked /\ pc = "idle")
  /\ now' = now + 1
  /\ ticked' = FALSE
  /\ IF LocalHour(now + 1, row.zone) = 10
       THEN own' \in SUBSET Projects /\ holidays' \in SUBSET Projects
       ELSE own' = {} /\ holidays' = {}
  /\ steady' = (pc = "idle" /\ ~ draft.stored)
  /\ UNCHANGED <<row, draft, commands, pc, pref, today, history>>

-----------------------------------------------------------------------------
(* /daily_digest.  "stored" tells that there is a row, or that the command *)
(* has one in hand.                                                        *)

ReadRow ==
  /\ ~ draft.stored
  /\ commands < MaxCommands
  /\ commands' = commands + 1
  /\ draft' = [row EXCEPT !.stored = TRUE]
  /\ steady' = FALSE
  /\ UNCHANGED <<clock, row, pc, pref, today, history>>

(* Without an argument it toggles, "off" disables, an offset enables.      *)
Changed(r) ==
  {[r EXCEPT !.enabled = ~ @], [r EXCEPT !.enabled = FALSE]}
  \union {[r EXCEPT !.enabled = TRUE, !.zone = z] : z \in Zones}

(* A zone of 0 in a new row is left to the column's default, which is 3.   *)
Defaulted(r) ==
  IF ~ row.stored /\ r.zone = 0 THEN [r EXCEPT !.zone = 3] ELSE r

SaveRow ==
  /\ draft.stored
  /\ row' \in {Defaulted(r) : r \in Changed(draft)}
  /\ undone' = (undone \/ draft.last # row.last)
  /\ draft' = NoRow
  /\ steady' = FALSE
  /\ UNCHANGED <<clock, commands, pc, pref, today, written, sent>>

SaveFails ==
  /\ draft.stored
  /\ Faults
  /\ draft' = NoRow
  /\ UNCHANGED <<clock, row, commands, pc, pref, today, history, steady>>

-----------------------------------------------------------------------------
(* The tick.                                                               *)

Done ==
  /\ pc' = "idle"
  /\ pref' = NoRow
  /\ today' = 0
  /\ ticked' = TRUE
  /\ UNCHANGED <<now, own, holidays, draft, commands>>

NotEnabled ==
  /\ pc = "idle"
  /\ ~ row.enabled
  /\ Done
  /\ UNCHANGED <<row, history, steady>>

Tick ==
  /\ pc = "idle"
  /\ row.enabled
  /\ pref' = row
  /\ pc' = "look"
  /\ UNCHANGED <<clock, row, draft, commands, today, history, steady>>

Due ==
  LocalHour(now, pref.zone) = 10 /\ ~ Weekend(Day(now, pref.zone))

NotDue ==
  /\ pc = "look"
  /\ ~ Due
  /\ Done
  /\ UNCHANGED <<row, history, steady>>

Look ==
  /\ pc = "look"
  /\ Due
  /\ today' = Day(now, pref.zone)
  /\ pc' = "lock"
  /\ UNCHANGED <<clock, row, draft, commands, pref, history, steady>>

(* Fault: the day of the last digest is UTC's.                             *)
SentTodayUTC == row.last # Never /\ Day(row.last, 0) >= today

SentToday == row.last # Never /\ Day(row.last, row.zone) >= today

AlreadySent ==
  /\ pc = "lock"
  /\ SentToday
  /\ Done
  /\ UNCHANGED <<row, history, steady>>

(* The transaction reads the row again and stores the time of the digest.  *)
Claim ==
  /\ pc = "lock"
  /\ ~ SentToday
  /\ row' = [row EXCEPT !.last = now]
  /\ written' = now
  /\ pc' = "send"
  /\ UNCHANGED <<clock, draft, commands, pref, today, sent, undone, steady>>

(* Fault: one holiday is enough.                                           *)
HolidayInOne == own \intersect holidays # {}

(* As many of the user's repositories have a holiday as there are: also    *)
(* when there are none.  The merge requests of a release manager do not    *)
(* count.                                                                  *)
Holiday == own \subseteq holidays

SkipHoliday ==
  /\ pc = "send"
  /\ Holiday
  /\ Done
  /\ UNCHANGED <<row, history, steady>>

Send ==
  /\ pc = "send"
  /\ ~ Holiday
  /\ sent' = now
  /\ Done
  /\ UNCHANGED <<row, written, undone, steady>>

(* A call fails, nobody in GitLab has the user's address, or the process   *)
(* dies: a command under way dies with it.                                 *)
Stop ==
  /\ Faults
  /\ pc # "look"
  /\ Done
  /\ steady' = FALSE
  /\ UNCHANGED <<row, history>>

Crash ==
  /\ Faults
  /\ pc' = "idle" /\ pref' = NoRow /\ today' = 0
  /\ draft' = NoRow
  /\ steady' = FALSE
  /\ UNCHANGED <<clock, row, commands, history>>

Next ==
  \/ NextHour \/ ReadRow \/ SaveRow \/ SaveFails \/ NotEnabled \/ Tick
  \/ NotDue \/ Look \/ AlreadySent \/ Claim \/ SkipHoliday \/ Send \/ Stop
  \/ Crash

Spec == Init /\ [][Next]_vars

-----------------------------------------------------------------------------
(* Properties.                                                             *)

Hours == {Never} \union (Start .. MaxHour)

Rows == [enabled : BOOLEAN, zone : Zones, last : Hours, stored : BOOLEAN]

TypeOK ==
  /\ now \in Start .. MaxHour
  /\ ticked \in BOOLEAN
  /\ own \subseteq Projects /\ holidays \subseteq Projects
  /\ row \in Rows /\ draft \in Rows /\ pref \in Rows
  /\ commands \in 0 .. MaxCommands
  /\ pc \in {"idle", "look", "lock", "send"}
  /\ today \in Int
  /\ written \in Hours /\ sent \in Hours
  /\ undone \in BOOLEAN /\ steady \in BOOLEAN

(* "Track last send to avoid duplicates": a digest follows the one before  *)
(* on a later day of the user, also when ticks crowd into the minute and   *)
(* the user moves between time zones, but for a command that has put an    *)
(* older LastSentAt back, or changed the zone under the tick.              *)
OncePerDay ==
  [][pc = "lock" /\ pc' = "send" /\ written # Never
       => \/ undone
          \/ row.zone # pref.zone
          \/ Day(written, row.zone) < Day(now, row.zone)]_vars

DigestDue ==
  /\ row.enabled
  /\ LocalHour(now, row.zone) = 10
  /\ ~ Weekend(Day(now, row.zone))
  /\ \E r \in own : r \notin holidays

HadOneToday ==
  /\ written # Never
  /\ written < now
  /\ Day(written, row.zone) >= Day(now, row.zone)

(* The hour after ten does not end on a working day without a digest for a *)
(* user who had it enabled, has something to do in a repository without a  *)
(* holiday, and has not had one that day, unless the ticks missed the      *)
(* first minute, or a command or a failure came into that hour.            *)
NoDayMissed ==
  [][(now' # now /\ ticked /\ steady /\ DigestDue)
       => (sent = now \/ HadOneToday)]_vars
==============================================================================

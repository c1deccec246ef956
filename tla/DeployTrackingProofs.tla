------------------------- MODULE DeployTrackingProofs -------------------------
(***************************************************************************)
(* For any rules and jobs: what the chats hear of deploy jobs refines      *)
(* DeployNews, the flags of a row tell what was sent, and nothing is sent  *)
(* twice unless it could not be marked, whatever fails and dies and        *)
(* whatever rules are removed during a pass.                               *)
(***************************************************************************)
EXTENDS DeployTracking, TLAPS

Busy == pc \in {"store", "send", "mark"}

(* What the pass works on: the pair it has taken from the list, and a copy *)
(* of the pair's row, with the flags the row has.                          *)
PassOK ==
  /\ Busy => at \in todo
  /\ ~ Busy => tracked = NoRow
  /\ pc = "store" => tracked = NoRow \/ tracked.rule = Rule
  /\ pc \in {"send", "mark"} => /\ tracked.rule = Rule
                                /\ tracked.status = listing[Job]
  /\ tracked # NoRow => /\ tracked.rule # 0
                        /\ ~ tracked.deleted
                        /\ rows[Job].rule = Rule
                        /\ rows[Job].started = tracked.started
                        /\ rows[Job].finished = tracked.finished
  /\ pc = "mark" => Due

(* A row that is not there has no flags.                                   *)
RowsOK == \A j \in Jobs : rows[j].rule = 0 => rows[j] = NoRow

(* A status on the list is one the job had.                                *)
ListingOK ==
  /\ \A p \in todo : listing[p[2]] \in {"running", "ended"}
  /\ \A j \in Jobs :
       /\ listing[j] = "running" => gl[j].status \in {"running", "ended"}
       /\ listing[j] = "ended" => gl[j].status = "ended"

(* What was heard is so, and what is heard to have ended is not on the     *)
(* list as running.                                                        *)
HeardOK ==
  /\ \A p \in Pairs :
       /\ heard[p] = "running" => gl[p[2]].status \in {"running", "ended"}
       /\ heard[p] = "ended" => gl[p[2]].status = "ended"
  /\ \A p \in todo : heard[p] = "ended" => listing[p[2]] = "ended"

(* A message on its way to be marked was sent, or its sending failed.      *)
SentOK ==
  pc = "mark" => \/ News \in lost
                 \/ Kind = "running" /\ heard[at] # "nothing"
                 \/ Kind = "ended" /\ heard[at] = "ended"

(* What was heard last is marked as told, or is about to be, or could not  *)
(* be: its row is gone for good.                                           *)
InHand(p) == pc \in {"store", "send"} /\ at = p /\ tracked # NoRow

Flagged(row, news) ==
  \/ news = "running" /\ row.started
  \/ news = "ended" /\ row.finished

MarkedOrTorn ==
  \A p \in Pairs :
    heard[p] # "nothing" =>
      \/ <<p, heard[p]>> \in torn
      \/ pc = "mark" /\ at = p /\ Kind = heard[p]
      \/ rows[p[2]].rule = p[1] /\ Flagged(rows[p[2]], heard[p])
      \/ rows[p[2]].rule = p[1] /\ rows[p[2]].deleted /\ ~ InHand(p)

IInv ==
  /\ TypeOK
  /\ PassOK
  /\ RowsOK
  /\ ListingOK
  /\ HeardOK
  /\ SentOK
  /\ MarkedWasSent
  /\ MarkedOrTorn

-----------------------------------------------------------------------------
(* Types.                                                                  *)

(* The rows, listings and news of a pass have their types.                 *)
LEMMA RowLemma ==
  ASSUME TypeOK, Busy => at \in todo
  PROVE  /\ NoRow \in RowType
         /\ NoListing \in [Jobs -> Seen]
         /\ Busy => /\ at \in Pairs /\ Rule \in Rules /\ Job \in Jobs
                    /\ NewRow(Rule, listing[Job]) \in RowType
                    /\ Saved \in RowType
                    /\ Marked(rows[Job]) \in RowType
                    /\ News \in Pairs \X Seen
<1>1. NoRow \in RowType /\ NoListing \in [Jobs -> Seen]
  BY DEF NoRow, RowType, NoListing, Seen
<1>2. ASSUME Busy
      PROVE  at \in Pairs /\ Rule \in Rules /\ Job \in Jobs
  BY <1>2 DEF TypeOK, Pairs, Rule, Job
<1>3. ASSUME Busy
      PROVE  NewRow(Rule, listing[Job]) \in RowType
  <2>1. listing[Job] \in Seen /\ Rule \in Rules
    BY <1>2, <1>3 DEF TypeOK
  <2>2. QED
    BY <2>1 DEF NewRow, NoRow, RowType
<1>4. ASSUME Busy
      PROVE  Saved \in RowType
  <2>1. listing[Job] \in Seen /\ tracked \in RowType
    BY <1>2, <1>4 DEF TypeOK
  <2>2. QED
    BY <2>1 DEF Saved, RowType
<1>5. ASSUME Busy
      PROVE  Marked(rows[Job]) \in RowType
  <2>1. rows[Job] \in RowType
    BY <1>2, <1>5 DEF TypeOK
  <2>2. QED
    BY <2>1 DEF Marked, RowType
<1>6. ASSUME Busy
      PROVE  News \in Pairs \X Seen
  BY <1>2, <1>6 DEF News, Kind, Seen
<1>7. QED
  BY <1>1, <1>2, <1>3, <1>4, <1>5, <1>6

(* Every step keeps the types.                                             *)
LEMMA TypeStep ==
  ASSUME TypeOK, Busy => at \in todo, [Next]_vars
  PROVE  TypeOK'
<1> USE DeployAssumption
<1>1. ASSUME NEW j \in Jobs, Advance(j) PROVE TypeOK'
  <2>1. PICK s \in Follows(gl[j].status) :
          gl' = [gl EXCEPT ![j].status = s]
    BY <1>1 DEF Advance
  <2>2. s \in Statuses
    BY DEF Follows, Statuses
  <2>3. gl' \in [Jobs -> [status : Statuses, listed : BOOLEAN]]
    BY <2>1, <2>2 DEF TypeOK
  <2>4. QED
    BY <2>3, <1>1 DEF Advance, TypeOK, pass, history
<1>2. ASSUME NEW j \in Jobs, PushOut(j) PROVE TypeOK'
  <2>1. gl' \in [Jobs -> [status : Statuses, listed : BOOLEAN]]
    BY <1>2 DEF PushOut, TypeOK
  <2>2. QED
    BY <2>1, <1>2 DEF PushOut, TypeOK, pass, history
<1>3. ASSUME NEW r \in Rules, Track(r) PROVE TypeOK'
  BY <1>3 DEF Track, pass, history, TypeOK
<1>4. ASSUME NEW r \in Rules, UntrackRows(r) PROVE TypeOK'
  <2>1. rows' \in [Jobs -> RowType]
    <3>1. CASE rows' = [j \in Jobs |-> IF rows[j].rule = r
                                       THEN [rows[j] EXCEPT !.deleted = TRUE]
                                       ELSE rows[j]]
      BY <3>1 DEF TypeOK, RowType
    <3>2. CASE UNCHANGED rows
      BY <3>2 DEF TypeOK
    <3>3. QED
      BY <1>4, <3>1, <3>2 DEF UntrackRows
  <2>2. QED
    BY <2>1, <1>4 DEF UntrackRows, TypeOK, pass, history
<1>5. CASE Crash
  BY <1>5, RowLemma DEF Crash, Forget, Busy, pass, history, TypeOK
<1>6. CASE Settle
  BY <1>6 DEF Settle, pass, history, TypeOK
<1>7. CASE UntrackRule
  BY <1>7 DEF UntrackRule, pass, history, TypeOK
<1>8. CASE UntrackRuleFails
  BY <1>8 DEF UntrackRuleFails, pass, history, TypeOK
<1>9. CASE ReadRules
  BY <1>9 DEF ReadRules, Live, pass, history, TypeOK
<1>10. CASE List
  BY <1>10 DEF List, Listed, Pairs, Seen, Statuses, pass, history, TypeOK
<1>11. CASE ListFails
  BY <1>11, RowLemma DEF ListFails, Forget, pass, history, TypeOK
<1>12. CASE EndPass
  BY <1>12, RowLemma DEF EndPass, Forget, pass, history, TypeOK
<1>13. CASE Lookup
  <2>1. PICK p \in todo : at' = p /\ tracked' = TrackedRow(p)
    BY <1>13 DEF Lookup
  <2>2. p \in Pairs /\ p[2] \in Jobs
    BY DEF TypeOK, Pairs
  <2>3. tracked' \in RowType
    BY <2>1, <2>2, RowLemma DEF TrackedRow, TypeOK
  <2>4. at' \in Pairs \union {NoPair}
    BY <2>1, <2>2
  <2>5. QED
    BY <2>3, <2>4, <1>13 DEF Lookup, pass, history, TypeOK
<1>14. CASE Create
  BY <1>14, RowLemma DEF Create, Busy, pass, history, TypeOK
<1>15. CASE Conflict
  BY <1>15, RowLemma DEF Conflict, NextPair, pass, history, TypeOK
<1>16. CASE Save
  BY <1>16, RowLemma DEF Save, Busy, pass, history, TypeOK
<1>17. CASE StoreFails
  BY <1>17, RowLemma DEF StoreFails, NextPair, pass, history, TypeOK
<1>18. CASE NothingDue
  BY <1>18, RowLemma DEF NothingDue, NextPair, pass, history, TypeOK
<1>19. CASE Send
  BY <1>19, RowLemma DEF Send, Kind, Busy, pass, history, TypeOK
<1>20. CASE SendFails
  BY <1>20, RowLemma DEF SendFails, Busy, pass, history, TypeOK
<1>21. CASE Mark
  BY <1>21, RowLemma DEF Mark, NextPair, Busy, pass, history, TypeOK
<1>22. CASE MarkFails
  BY <1>22, RowLemma DEF MarkFails, NextPair, Busy, pass, history, TypeOK
<1>23. CASE UNCHANGED vars
  BY <1>23 DEF vars, pass, history, TypeOK
<1>24. QED
  BY <1>1, <1>2, <1>3, <1>4, <1>5, <1>6, <1>7, <1>8, <1>9, <1>10, <1>11,
    <1>12, <1>13, <1>14, <1>15, <1>16, <1>17, <1>18, <1>19, <1>20, <1>21,
      <1>22, <1>23
  DEF Next, Environment, Poll, Untrack

-----------------------------------------------------------------------------
(* The pass.                                                               *)

(* Its copy of a row stays the row, but for a deletion: only the pass sets *)
(* flags.                                                                  *)
LEMMA PassStep ==
  ASSUME TypeOK, PassOK, [Next]_vars
  PROVE  PassOK'
<1> USE DeployAssumption
<1>1. ASSUME NEW j \in Jobs, Advance(j) PROVE PassOK'
  BY <1>1 DEF Advance, Due, StartDue, EndDue, pass, history, PassOK, Busy,
    Rule, Job
<1>2. ASSUME NEW j \in Jobs, PushOut(j) PROVE PassOK'
  BY <1>2 DEF PushOut, Due, StartDue, EndDue, pass, history, PassOK, Busy,
    Rule, Job
<1>3. ASSUME NEW r \in Rules, Track(r) PROVE PassOK'
  BY <1>3 DEF Track, Due, StartDue, EndDue, pass, history, PassOK, Busy, Rule,
    Job
<1>4. ASSUME NEW r \in Rules, UntrackRows(r) PROVE PassOK'
  <2>1. \A i \in Jobs : /\ rows'[i].rule = rows[i].rule
                        /\ rows'[i].started = rows[i].started
                        /\ rows'[i].finished = rows[i].finished
    BY <1>4 DEF UntrackRows, TypeOK, RowType
  <2>2. tracked # NoRow => Job \in Jobs
    BY DEF PassOK, TypeOK, Pairs, Job
  <2>3. UNCHANGED <<pc, todo, at, tracked, listing>>
    BY <1>4 DEF UntrackRows, pass
  <2>4. QED
    BY <2>1, <2>2, <2>3 DEF PassOK, Busy, Rule, Job, Due, StartDue, EndDue
<1>5. CASE Crash
  BY <1>5 DEF Crash, Forget, pass, history, PassOK, Busy, Rule, Job
<1>6. CASE Settle
  BY <1>6 DEF Settle, Due, StartDue, EndDue, pass, history, PassOK, Busy,
    Rule, Job
<1>7. CASE UntrackRule
  BY <1>7 DEF UntrackRule, Due, StartDue, EndDue, pass, history, PassOK, Busy,
    Rule, Job
<1>8. CASE UntrackRuleFails
  BY <1>8 DEF UntrackRuleFails, Due, StartDue, EndDue, pass, history, PassOK,
    Busy, Rule, Job
<1>9. CASE ReadRules
  BY <1>9 DEF ReadRules, pass, history, PassOK, Busy, Rule, Job
<1>10. CASE List
  BY <1>10 DEF List, pass, history, PassOK, Busy, Rule, Job
<1>11. CASE ListFails
  BY <1>11 DEF ListFails, Forget, pass, history, PassOK, Busy, Rule, Job
<1>12. CASE EndPass
  BY <1>12 DEF EndPass, Forget, pass, history, PassOK, Busy, Rule, Job
<1>13. CASE Lookup
  <2>1. PICK p \in todo : at' = p /\ tracked' = TrackedRow(p)
    BY <1>13 DEF Lookup
  <2>2. p \in Pairs /\ p[1] # 0
    BY DEF TypeOK, Pairs
  <2>3. QED
    BY <2>1, <2>2, <1>13 DEF Lookup, TrackedRow, PassOK, Busy, Rule, Job, NoRow
<1>14. CASE Create
  BY <1>14 DEF Create, NewRow, NoRow, TypeOK, Pairs, pass, history, PassOK,
    Busy, Rule, Job
<1>15. CASE Conflict
  BY <1>15 DEF Conflict, NextPair, pass, history, PassOK, Busy, Rule, Job
<1>16. CASE Save
  BY <1>16 DEF Save, Saved, NoRow, TypeOK, Pairs, RowType, pass, history,
    PassOK, Busy, Rule, Job
<1>17. CASE StoreFails
  BY <1>17 DEF StoreFails, NextPair, pass, history, PassOK, Busy, Rule, Job
<1>18. CASE NothingDue
  BY <1>18 DEF NothingDue, NextPair, pass, history, PassOK, Busy, Rule, Job
<1>19. CASE Send
  BY <1>19 DEF Send, Due, StartDue, EndDue, pass, history, PassOK, Busy, Rule,
    Job
<1>20. CASE SendFails
  BY <1>20 DEF SendFails, Due, StartDue, EndDue, pass, history, PassOK, Busy,
    Rule, Job
<1>21. CASE Mark
  BY <1>21 DEF Mark, NextPair, pass, history, PassOK, Busy, Rule, Job
<1>22. CASE MarkFails
  BY <1>22 DEF MarkFails, NextPair, pass, history, PassOK, Busy, Rule, Job
<1>23. CASE UNCHANGED vars
  BY <1>23 DEF vars, pass, history, Due, StartDue, EndDue, PassOK, Busy, Rule,
    Job
<1>24. QED
  BY <1>1, <1>2, <1>3, <1>4, <1>5, <1>6, <1>7, <1>8, <1>9, <1>10, <1>11,
    <1>12, <1>13, <1>14, <1>15, <1>16, <1>17, <1>18, <1>19, <1>20, <1>21,
      <1>22, <1>23
  DEF Next, Environment, Poll, Untrack

(* What is on the list stays true: a job does not go back.                 *)
LEMMA ListingStep ==
  ASSUME TypeOK, ListingOK, [Next]_vars
  PROVE  ListingOK'
<1> USE DeployAssumption
<1>1. ASSUME NEW j \in Jobs, Advance(j) PROVE ListingOK'
  <2>1. PICK s \in Follows(gl[j].status) :
          gl' = [gl EXCEPT ![j].status = s]
    BY <1>1 DEF Advance
  <2>2. gl[j].status \in {"running", "ended"} => s = "ended"
    BY DEF Follows
  <2>3. gl[j].status # "ended"
    BY DEF Follows
  <2>4. \A i \in Jobs : gl'[i].status = IF i = j THEN s ELSE gl[i].status
    BY <2>1 DEF TypeOK
  <2>5. UNCHANGED <<listing, todo>>
    BY <1>1 DEF Advance, pass
  <2>6. QED
    BY <2>2, <2>3, <2>4, <2>5 DEF ListingOK
<1>2. ASSUME NEW j \in Jobs, PushOut(j) PROVE ListingOK'
  <2>1. \A i \in Jobs : gl'[i].status = gl[i].status
    BY <1>2 DEF PushOut, TypeOK
  <2>2. UNCHANGED <<listing, todo>>
    BY <1>2 DEF PushOut, pass
  <2>3. QED
    BY <2>1, <2>2 DEF ListingOK
<1>3. ASSUME NEW r \in Rules, Track(r) PROVE ListingOK'
  BY <1>3 DEF Track, pass, ListingOK
<1>4. ASSUME NEW r \in Rules, UntrackRows(r) PROVE ListingOK'
  BY <1>4 DEF UntrackRows, pass, ListingOK
<1>5. CASE Crash
  BY <1>5 DEF Crash, Forget, NoListing, pass, ListingOK
<1>6. CASE Settle
  BY <1>6 DEF Settle, pass, ListingOK
<1>7. CASE UntrackRule
  BY <1>7 DEF UntrackRule, pass, ListingOK
<1>8. CASE UntrackRuleFails
  BY <1>8 DEF UntrackRuleFails, pass, ListingOK
<1>9. CASE ReadRules
  BY <1>9 DEF ReadRules, pass, ListingOK
<1>10. CASE List
  BY <1>10 DEF List, Listed, Pairs, pass, ListingOK
<1>11. CASE ListFails
  BY <1>11 DEF ListFails, Forget, NoListing, pass, ListingOK
<1>12. CASE EndPass
  BY <1>12 DEF EndPass, Forget, NoListing, pass, ListingOK
<1>13. CASE Lookup
  BY <1>13 DEF Lookup, pass, ListingOK
<1>14. CASE Create
  BY <1>14 DEF Create, pass, ListingOK
<1>15. CASE Conflict
  BY <1>15 DEF Conflict, NextPair, pass, ListingOK
<1>16. CASE Save
  BY <1>16 DEF Save, pass, ListingOK
<1>17. CASE StoreFails
  BY <1>17 DEF StoreFails, NextPair, pass, ListingOK
<1>18. CASE NothingDue
  BY <1>18 DEF NothingDue, NextPair, pass, ListingOK
<1>19. CASE Send
  BY <1>19 DEF Send, pass, ListingOK
<1>20. CASE SendFails
  BY <1>20 DEF SendFails, pass, ListingOK
<1>21. CASE Mark
  BY <1>21 DEF Mark, NextPair, pass, ListingOK
<1>22. CASE MarkFails
  BY <1>22 DEF MarkFails, NextPair, pass, ListingOK
<1>23. CASE UNCHANGED vars
  BY <1>23 DEF vars, pass, history, ListingOK
<1>24. QED
  BY <1>1, <1>2, <1>3, <1>4, <1>5, <1>6, <1>7, <1>8, <1>9, <1>10, <1>11,
    <1>12, <1>13, <1>14, <1>15, <1>16, <1>17, <1>18, <1>19, <1>20, <1>21,
      <1>22, <1>23
  DEF Next, Environment, Poll, Untrack

(* Nothing is heard that is not so, and no start after the end: the list   *)
(* of a later pass has the end.                                            *)
LEMMA HeardStep ==
  ASSUME TypeOK, PassOK, ListingOK, HeardOK, [Next]_vars
  PROVE  HeardOK'
<1> USE DeployAssumption
<1>1. ASSUME NEW j \in Jobs, Advance(j) PROVE HeardOK'
  <2>1. PICK s \in Follows(gl[j].status) :
          gl' = [gl EXCEPT ![j].status = s]
    BY <1>1 DEF Advance
  <2>2. gl[j].status \in {"running", "ended"} => s = "ended"
    BY DEF Follows
  <2>3. gl[j].status # "ended"
    BY DEF Follows
  <2>4. \A i \in Jobs : gl'[i].status = IF i = j THEN s ELSE gl[i].status
    BY <2>1 DEF TypeOK
  <2>5. UNCHANGED <<heard, listing, todo>>
    BY <1>1 DEF Advance, pass, history
  <2>6. QED
    BY <2>2, <2>3, <2>4, <2>5 DEF HeardOK, Pairs
<1>2. ASSUME NEW j \in Jobs, PushOut(j) PROVE HeardOK'
  <2>1. \A i \in Jobs : gl'[i].status = gl[i].status
    BY <1>2 DEF PushOut, TypeOK
  <2>2. UNCHANGED <<heard, listing, todo>>
    BY <1>2 DEF PushOut, pass, history
  <2>3. QED
    BY <2>1, <2>2 DEF HeardOK, Pairs
<1>3. ASSUME NEW r \in Rules, Track(r) PROVE HeardOK'
  BY <1>3 DEF Track, pass, history, HeardOK
<1>4. ASSUME NEW r \in Rules, UntrackRows(r) PROVE HeardOK'
  BY <1>4 DEF UntrackRows, pass, history, HeardOK
<1>5. CASE Crash
  BY <1>5 DEF Crash, Forget, pass, history, HeardOK
<1>6. CASE Settle
  BY <1>6 DEF Settle, pass, history, HeardOK
<1>7. CASE UntrackRule
  BY <1>7 DEF UntrackRule, pass, history, HeardOK
<1>8. CASE UntrackRuleFails
  BY <1>8 DEF UntrackRuleFails, pass, history, HeardOK
<1>9. CASE ReadRules
  BY <1>9 DEF ReadRules, pass, history, HeardOK
<1>10. CASE List
  <2>1. \A p \in todo' : /\ p \in Pairs
                         /\ listing'[p[2]] = gl[p[2]].status
    BY <1>10 DEF List, Listed, TypeOK, Pairs
  <2>2. UNCHANGED <<heard, gl>>
    BY <1>10 DEF List, history
  <2>3. QED
    BY <2>1, <2>2 DEF HeardOK
<1>11. CASE ListFails
  BY <1>11 DEF ListFails, Forget, pass, history, HeardOK
<1>12. CASE EndPass
  BY <1>12 DEF EndPass, Forget, pass, history, HeardOK
<1>13. CASE Lookup
  BY <1>13 DEF Lookup, pass, history, HeardOK
<1>14. CASE Create
  BY <1>14 DEF Create, pass, history, HeardOK
<1>15. CASE Conflict
  BY <1>15 DEF Conflict, NextPair, pass, history, HeardOK
<1>16. CASE Save
  BY <1>16 DEF Save, pass, history, HeardOK
<1>17. CASE StoreFails
  BY <1>17 DEF StoreFails, NextPair, pass, history, HeardOK
<1>18. CASE NothingDue
  BY <1>18 DEF NothingDue, NextPair, pass, history, HeardOK
<1>19. CASE Send
  <2>1. at \in todo /\ at \in Pairs /\ at[2] \in Jobs
    BY <1>19 DEF Send, PassOK, Busy, TypeOK, Pairs
  <2>2. tracked.status = listing[at[2]]
    BY <1>19 DEF Send, PassOK, Job
  <2>3. Kind = listing[at[2]]
    BY <1>19, <2>2 DEF Send, Due, StartDue, EndDue, Kind
  <2>4. /\ Kind = "running" => gl[at[2]].status \in {"running", "ended"}
        /\ Kind = "ended" => gl[at[2]].status = "ended"
    BY <2>1, <2>3 DEF ListingOK
  <2>5. heard' = [heard EXCEPT ![at] = Kind]
    BY <1>19 DEF Send
  <2>6. UNCHANGED <<gl, listing, todo>>
    BY <1>19 DEF Send
  <2>7. heard \in [Pairs -> {"nothing", "running", "ended"}]
    BY DEF TypeOK
  <2>8. Kind \in {"running", "ended"}
    BY DEF Kind
  <2>9. todo \subseteq Pairs
    BY DEF TypeOK
  <2>10. QED
    BY <2>1, <2>3, <2>4, <2>5, <2>6, <2>7, <2>8, <2>9 DEF HeardOK
<1>20. CASE SendFails
  BY <1>20 DEF SendFails, pass, history, HeardOK
<1>21. CASE Mark
  BY <1>21 DEF Mark, NextPair, pass, history, HeardOK
<1>22. CASE MarkFails
  BY <1>22 DEF MarkFails, NextPair, pass, history, HeardOK
<1>23. CASE UNCHANGED vars
  BY <1>23 DEF vars, pass, history, HeardOK
<1>24. QED
  BY <1>1, <1>2, <1>3, <1>4, <1>5, <1>6, <1>7, <1>8, <1>9, <1>10, <1>11,
    <1>12, <1>13, <1>14, <1>15, <1>16, <1>17, <1>18, <1>19, <1>20, <1>21,
      <1>22, <1>23
  DEF Next, Environment, Poll, Untrack

-----------------------------------------------------------------------------
(* The flags.                                                              *)

(* What is about to be marked was sent, or its sending failed.             *)
LEMMA SentStep ==
  ASSUME TypeOK, PassOK, SentOK, [Next]_vars
  PROVE  SentOK'
<1> USE DeployAssumption
<1>1. ASSUME NEW j \in Jobs, Advance(j) PROVE SentOK'
  BY <1>1 DEF Advance, pass, history, SentOK, News, Kind, StartDue
<1>2. ASSUME NEW j \in Jobs, PushOut(j) PROVE SentOK'
  BY <1>2 DEF PushOut, pass, history, SentOK, News, Kind, StartDue
<1>3. ASSUME NEW r \in Rules, Track(r) PROVE SentOK'
  BY <1>3 DEF Track, pass, history, SentOK, News, Kind, StartDue
<1>4. ASSUME NEW r \in Rules, UntrackRows(r) PROVE SentOK'
  BY <1>4 DEF UntrackRows, pass, history, SentOK, News, Kind, StartDue
<1>5. CASE Crash
  BY <1>5 DEF Crash, Forget, pass, history, SentOK, News, Kind, StartDue
<1>6. CASE Settle
  BY <1>6 DEF Settle, pass, history, SentOK, News, Kind, StartDue
<1>7. CASE UntrackRule
  BY <1>7 DEF UntrackRule, pass, history, SentOK, News, Kind, StartDue
<1>8. CASE UntrackRuleFails
  BY <1>8 DEF UntrackRuleFails, pass, history, SentOK, News, Kind, StartDue
<1>9. CASE ReadRules
  BY <1>9 DEF ReadRules, pass, history, SentOK, News, Kind, StartDue
<1>10. CASE List
  BY <1>10 DEF List, pass, history, SentOK, News, Kind, StartDue
<1>11. CASE ListFails
  BY <1>11 DEF ListFails, Forget, pass, history, SentOK, News, Kind, StartDue
<1>12. CASE EndPass
  BY <1>12 DEF EndPass, Forget, pass, history, SentOK, News, Kind, StartDue
<1>13. CASE Lookup
  BY <1>13 DEF Lookup, pass, history, SentOK, News, Kind, StartDue
<1>14. CASE Create
  BY <1>14 DEF Create, pass, history, SentOK, News, Kind, StartDue
<1>15. CASE Conflict
  BY <1>15 DEF Conflict, NextPair, pass, history, SentOK, News, Kind, StartDue
<1>16. CASE Save
  BY <1>16 DEF Save, pass, history, SentOK, News, Kind, StartDue
<1>17. CASE StoreFails
  BY <1>17 DEF StoreFails, NextPair, pass, history, SentOK, News, Kind,
    StartDue
<1>18. CASE NothingDue
  BY <1>18 DEF NothingDue, NextPair, pass, history, SentOK, News, Kind,
    StartDue
<1>19. CASE Send
  <2>1. at \in Pairs
    BY <1>19 DEF Send, PassOK, Busy, TypeOK
  <2>2. heard'[at] = Kind /\ Kind \in {"running", "ended"}
    BY <2>1, <1>19 DEF Send, TypeOK, Kind
  <2>3. Kind' = Kind /\ at' = at
    BY <1>19 DEF Send, Kind, StartDue
  <2>4. QED
    BY <2>2, <2>3 DEF SentOK
<1>20. CASE SendFails
  BY <1>20 DEF SendFails, pass, history, SentOK, News, Kind, StartDue
<1>21. CASE Mark
  BY <1>21 DEF Mark, NextPair, pass, history, SentOK, News, Kind, StartDue
<1>22. CASE MarkFails
  BY <1>22 DEF MarkFails, NextPair, pass, history, SentOK, News, Kind, StartDue
<1>23. CASE UNCHANGED vars
  BY <1>23 DEF vars, pass, history, SentOK, News, Kind, StartDue
<1>24. QED
  BY <1>1, <1>2, <1>3, <1>4, <1>5, <1>6, <1>7, <1>8, <1>9, <1>10, <1>11,
    <1>12, <1>13, <1>14, <1>15, <1>16, <1>17, <1>18, <1>19, <1>20, <1>21,
      <1>22, <1>23
  DEF Next, Environment, Poll, Untrack

(* Rows that are not there.                                                *)
LEMMA RowsStep ==
  ASSUME TypeOK, PassOK, RowsOK, [Next]_vars
  PROVE  RowsOK'
<1> USE DeployAssumption
<1>1. ASSUME NEW j \in Jobs, Advance(j) PROVE RowsOK'
  BY <1>1 DEF Advance, RowsOK
<1>2. ASSUME NEW j \in Jobs, PushOut(j) PROVE RowsOK'
  BY <1>2 DEF PushOut, RowsOK
<1>3. ASSUME NEW r \in Rules, Track(r) PROVE RowsOK'
  BY <1>3 DEF Track, RowsOK
<1>4. ASSUME NEW r \in Rules, UntrackRows(r) PROVE RowsOK'
  <2>1. \A i \in Jobs : /\ rows'[i].rule = rows[i].rule
                        /\ rows[i].rule = 0 => rows'[i] = rows[i]
    BY <1>4 DEF UntrackRows, TypeOK, RowType
  <2>2. QED
    BY <2>1 DEF RowsOK, NoRow
<1>5. CASE Crash
  BY <1>5 DEF Crash, Forget, RowsOK
<1>6. CASE Settle
  BY <1>6 DEF Settle, RowsOK
<1>7. CASE UntrackRule
  BY <1>7 DEF UntrackRule, RowsOK
<1>8. CASE UntrackRuleFails
  BY <1>8 DEF UntrackRuleFails, RowsOK
<1>9. CASE ReadRules
  BY <1>9 DEF ReadRules, RowsOK
<1>10. CASE List
  BY <1>10 DEF List, RowsOK
<1>11. CASE ListFails
  BY <1>11 DEF ListFails, Forget, RowsOK
<1>12. CASE EndPass
  BY <1>12 DEF EndPass, Forget, RowsOK
<1>13. CASE Lookup
  BY <1>13 DEF Lookup, RowsOK
<1>14. CASE Create
  <2>1. Rule # 0
    BY <1>14 DEF Create, PassOK, Busy, Rule, TypeOK, Pairs
  <2>2. NewRow(Rule, listing[Job]).rule # 0
    BY <2>1 DEF NewRow, NoRow
  <2>3. QED
    BY <2>2, <1>14 DEF Create, RowsOK, TypeOK
<1>15. CASE Conflict
  BY <1>15 DEF Conflict, NextPair, RowsOK
<1>16. CASE Save
  <2>1. Saved.rule # 0
    BY <1>16 DEF Save, PassOK, Saved, TypeOK, RowType
  <2>2. QED
    BY <2>1, <1>16 DEF Save, RowsOK, TypeOK
<1>17. CASE StoreFails
  BY <1>17 DEF StoreFails, NextPair, RowsOK
<1>18. CASE NothingDue
  BY <1>18 DEF NothingDue, NextPair, RowsOK
<1>19. CASE Send
  BY <1>19 DEF Send, RowsOK
<1>20. CASE SendFails
  BY <1>20 DEF SendFails, RowsOK
<1>21. CASE Mark
  <2>1. Job \in Jobs /\ Rule # 0 /\ tracked # NoRow
    BY <1>21 DEF Mark, PassOK, Busy, Rule, Job, NoRow, TypeOK, Pairs
  <2>2. Marked(rows[Job]).rule # 0
    BY <2>1 DEF PassOK, Marked, TypeOK, RowType
  <2>3. QED
    BY <2>2, <1>21 DEF Mark, RowsOK, TypeOK
<1>22. CASE MarkFails
  BY <1>22 DEF MarkFails, NextPair, RowsOK
<1>23. CASE UNCHANGED vars
  BY <1>23 DEF vars, pass, history, RowsOK
<1>24. QED
  BY <1>1, <1>2, <1>3, <1>4, <1>5, <1>6, <1>7, <1>8, <1>9, <1>10, <1>11,
    <1>12, <1>13, <1>14, <1>15, <1>16, <1>17, <1>18, <1>19, <1>20, <1>21,
      <1>22, <1>23
  DEF Next, Environment, Poll, Untrack

(* News is not forgotten: a start that was heard may be followed by the    *)
(* end, the end by nothing.                                                *)
LEMMA NewsStays ==
  ASSUME TypeOK, PassOK, HeardOK, [Next]_vars
  PROVE  /\ \A p \in Pairs :
              /\ heard[p] # "nothing" => heard'[p] # "nothing"
              /\ heard[p] = "ended" => heard'[p] = "ended"
         /\ lost \subseteq lost'
<1>1. CASE Send
  <2>1. at \in todo /\ at \in Pairs
    BY <1>1 DEF Send, PassOK, Busy, TypeOK
  <2>2. heard[at] = "ended" => Kind = "ended"
    BY <1>1, <2>1 DEF Send, Due, StartDue, EndDue, Kind, PassOK, HeardOK, Job
  <2>3. heard' = [heard EXCEPT ![at] = Kind] /\ lost' = lost
    BY <1>1 DEF Send
  <2>4. Kind \in {"running", "ended"}
    BY DEF Kind
  <2>5. QED
    BY <2>1, <2>2, <2>3, <2>4 DEF TypeOK
<1>2. CASE ~ Send
  <2>1. UNCHANGED heard /\ lost \subseteq lost'
    BY <1>2 DEF Next, Environment, Poll, Untrack, vars, pass, history,
      Advance, PushOut, Track, UntrackRows, Crash, Settle, UntrackRule,
      UntrackRuleFails, ReadRules, List, ListFails, EndPass, Lookup, Create,
      Conflict, Save, StoreFails, NothingDue, SendFails, Mark, MarkFails
  <2>2. QED
    BY <2>1
<1>3. QED
  BY <1>1, <1>2

(* Whatever keeps the flags of the rows that are there keeps the truth.    *)
LEMMA FlagsStay ==
  ASSUME TypeOK, PassOK, HeardOK, RowsOK, MarkedWasSent, [Next]_vars,
         TypeOK',
         \A j \in Jobs : \/ rows'[j].rule = rows[j].rule
                            /\ rows'[j].started = rows[j].started
                            /\ rows'[j].finished = rows[j].finished
                         \/ ~ rows'[j].started /\ ~ rows'[j].finished
  PROVE  MarkedWasSent'
<1>1. ASSUME NEW j \in Jobs, rows[j].started \/ rows[j].finished
      PROVE  <<rows[j].rule, j>> \in Pairs
  BY <1>1 DEF TypeOK, RowType, RowsOK, NoRow, Pairs
<1>2. QED
  BY <1>1, NewsStays DEF MarkedWasSent

(* The flags.                                                              *)
LEMMA FlagsStep ==
  ASSUME TypeOK, PassOK, RowsOK, HeardOK, SentOK, MarkedWasSent, TypeOK',
    [Next]_vars
  PROVE  MarkedWasSent'
<1> USE DeployAssumption
<1>1. ASSUME NEW j \in Jobs, Advance(j) PROVE MarkedWasSent'
  BY <1>1, FlagsStay DEF Advance
<1>2. ASSUME NEW j \in Jobs, PushOut(j) PROVE MarkedWasSent'
  BY <1>2, FlagsStay DEF PushOut
<1>3. ASSUME NEW r \in Rules, Track(r) PROVE MarkedWasSent'
  BY <1>3, FlagsStay DEF Track
<1>4. ASSUME NEW r \in Rules, UntrackRows(r) PROVE MarkedWasSent'
  <2>1. \A i \in Jobs : /\ rows'[i].rule = rows[i].rule
                        /\ rows'[i].started = rows[i].started
                        /\ rows'[i].finished = rows[i].finished
    BY <1>4 DEF UntrackRows, TypeOK, RowType
  <2>2. QED
    BY <2>1, FlagsStay
<1>5. CASE Crash
  BY <1>5, FlagsStay DEF Crash
<1>6. CASE Settle
  BY <1>6, FlagsStay DEF Settle
<1>7. CASE UntrackRule
  BY <1>7, FlagsStay DEF UntrackRule
<1>8. CASE UntrackRuleFails
  BY <1>8, FlagsStay DEF UntrackRuleFails
<1>9. CASE ReadRules
  BY <1>9, FlagsStay DEF ReadRules
<1>10. CASE List
  BY <1>10, FlagsStay DEF List
<1>11. CASE ListFails
  BY <1>11, FlagsStay DEF ListFails
<1>12. CASE EndPass
  BY <1>12, FlagsStay DEF EndPass
<1>13. CASE Lookup
  BY <1>13, FlagsStay DEF Lookup
<1>14. CASE Create
  <2>1. ASSUME NEW i \in Jobs, rows'[i] # rows[i]
        PROVE  ~ rows'[i].started /\ ~ rows'[i].finished
    <3>1. /\ ~ NewRow(Rule, listing[Job]).started
          /\ ~ NewRow(Rule, listing[Job]).finished
      BY DEF NewRow, NoRow
    <3>2. rows'[i] = NewRow(Rule, listing[Job])
      BY <2>1, <1>14 DEF Create, TypeOK
    <3>3. QED
      BY <3>1, <3>2
  <2>2. QED
    BY <2>1, FlagsStay
<1>15. CASE Conflict
  BY <1>15, FlagsStay DEF Conflict
<1>16. CASE Save
  <2>1. /\ Saved.rule = rows[Job].rule
        /\ Saved.started = rows[Job].started
        /\ Saved.finished = rows[Job].finished
    BY <1>16 DEF Save, PassOK, Saved, TypeOK, RowType
  <2>2. \A i \in Jobs : /\ rows'[i].rule = rows[i].rule
                        /\ rows'[i].started = rows[i].started
                        /\ rows'[i].finished = rows[i].finished
    BY <2>1, <1>16 DEF Save, TypeOK
  <2>3. QED
    BY <2>2, FlagsStay
<1>17. CASE StoreFails
  BY <1>17, FlagsStay DEF StoreFails
<1>18. CASE NothingDue
  BY <1>18, FlagsStay DEF NothingDue
<1>19. CASE Send
  BY <1>19, FlagsStay DEF Send
<1>20. CASE SendFails
  BY <1>20, FlagsStay DEF SendFails
<1>21. CASE Mark
  <2>1. /\ Job \in Jobs /\ tracked # NoRow
        /\ at = <<Rule, Job>> /\ rows[Job].rule = Rule
    BY <1>21 DEF Mark, PassOK, Busy, Rule, Job, NoRow, TypeOK, Pairs
  <2>2. UNCHANGED <<heard, lost>>
    BY <1>21 DEF Mark
  <2>3. CASE rows[Job].deleted
    BY <2>3, <1>21, FlagsStay DEF Mark
  <2>4. CASE ~ rows[Job].deleted
    <3>1. \A i \in Jobs : rows'[i] = IF i = Job THEN Marked(rows[Job])
                                     ELSE rows[i]
      BY <2>1, <2>4, <1>21 DEF Mark, TypeOK
    <3>2. /\ Marked(rows[Job]).rule = Rule
          /\ Marked(rows[Job]).started
               => rows[Job].started \/ Kind = "running"
          /\ Marked(rows[Job]).finished
               => rows[Job].finished \/ Kind = "ended"
      BY <2>1 DEF Marked, TypeOK, RowType, Kind
    <3>3. \/ <<at, Kind>> \in lost
          \/ Kind = "running" /\ heard[at] # "nothing"
          \/ Kind = "ended" /\ heard[at] = "ended"
      BY <1>21 DEF Mark, SentOK, News
    <3>4. QED
      BY <2>1, <2>2, <3>1, <3>2, <3>3 DEF MarkedWasSent
  <2>5. QED
    BY <2>3, <2>4
<1>22. CASE MarkFails
  BY <1>22, FlagsStay DEF MarkFails
<1>23. CASE UNCHANGED vars
  BY <1>23, FlagsStay DEF vars
<1>24. QED
  BY <1>1, <1>2, <1>3, <1>4, <1>5, <1>6, <1>7, <1>8, <1>9, <1>10, <1>11,
    <1>12, <1>13, <1>14, <1>15, <1>16, <1>17, <1>18, <1>19, <1>20, <1>21,
      <1>22, <1>23
  DEF Next, Environment, Poll, Untrack

(* Nothing that was heard is without a mark, but for what could not be     *)
(* marked and for rows that are gone.                                      *)
LEMMA MarksStep ==
  ASSUME TypeOK, PassOK, MarkedOrTorn, [Next]_vars
  PROVE  MarkedOrTorn'
<1> USE DeployAssumption
<1>1. ASSUME NEW j \in Jobs, Advance(j) PROVE MarkedOrTorn'
  BY <1>1 DEF Advance, pass, history, MarkedOrTorn, InHand, Flagged, Kind,
    StartDue
<1>2. ASSUME NEW j \in Jobs, PushOut(j) PROVE MarkedOrTorn'
  BY <1>2 DEF PushOut, pass, history, MarkedOrTorn, InHand, Flagged, Kind,
    StartDue
<1>3. ASSUME NEW r \in Rules, Track(r) PROVE MarkedOrTorn'
  BY <1>3 DEF Track, pass, history, MarkedOrTorn, InHand, Flagged, Kind,
    StartDue
<1>4. ASSUME NEW r \in Rules, UntrackRows(r) PROVE MarkedOrTorn'
  <2>1. ASSUME NEW p \in Pairs, heard'[p] # "nothing"
        PROVE  \/ <<p, heard'[p]>> \in torn'
               \/ pc' = "mark" /\ at' = p /\ Kind' = heard'[p]
               \/ /\ rows'[p[2]].rule = p[1]
                  /\ Flagged(rows'[p[2]], heard'[p])
               \/ /\ rows'[p[2]].rule = p[1] /\ rows'[p[2]].deleted
                  /\ ~ InHand(p)'
    <3>1. /\ rows'[p[2]].rule = rows[p[2]].rule
          /\ rows'[p[2]].started = rows[p[2]].started
          /\ rows'[p[2]].finished = rows[p[2]].finished
          /\ rows[p[2]].deleted => rows'[p[2]].deleted
      BY <1>4 DEF UntrackRows, TypeOK, RowType, Pairs
    <3>2. UNCHANGED <<pc, at, tracked, heard, torn>>
      BY <1>4 DEF UntrackRows, pass, history
    <3>3. Kind' = Kind /\ InHand(p)' = InHand(p)
      BY <3>2 DEF Kind, StartDue, InHand
    <3>4. QED
      BY <2>1, <3>1, <3>2, <3>3 DEF MarkedOrTorn, Flagged
  <2>2. QED
    BY <2>1 DEF MarkedOrTorn, Pairs
<1>5. CASE Crash
  <2>1. ASSUME NEW p \in Pairs, heard'[p] # "nothing"
        PROVE  \/ <<p, heard'[p]>> \in torn'
               \/ pc' = "mark" /\ at' = p /\ Kind' = heard'[p]
               \/ /\ rows'[p[2]].rule = p[1]
                  /\ Flagged(rows'[p[2]], heard'[p])
               \/ /\ rows'[p[2]].rule = p[1] /\ rows'[p[2]].deleted
                  /\ ~ InHand(p)'
    <3>1. /\ UNCHANGED <<rows, heard>>
          /\ pc = "mark" => <<at, Kind>> \in torn'
          /\ torn \subseteq torn'
          /\ pc' \in {"idle", "lookup"}
      BY <1>5 DEF Crash, Forget, News
    <3>2. ~ InHand(p)'
      BY <3>1 DEF InHand
    <3>3. QED
      BY <2>1, <3>1, <3>2 DEF MarkedOrTorn
  <2>2. QED
    BY <2>1 DEF MarkedOrTorn, Pairs
<1>6. CASE Settle
  BY <1>6 DEF Settle, pass, history, MarkedOrTorn, InHand, Flagged, Kind,
    StartDue
<1>7. CASE UntrackRule
  BY <1>7 DEF UntrackRule, pass, history, MarkedOrTorn, InHand, Flagged, Kind,
    StartDue
<1>8. CASE UntrackRuleFails
  BY <1>8 DEF UntrackRuleFails, pass, history, MarkedOrTorn, InHand, Flagged,
    Kind, StartDue
<1>9. CASE ReadRules
  BY <1>9 DEF ReadRules, pass, history, MarkedOrTorn, InHand, Flagged, Kind,
    StartDue
<1>10. CASE List
  BY <1>10 DEF List, pass, history, MarkedOrTorn, InHand, Flagged, Kind,
    StartDue
<1>11. CASE ListFails
  BY <1>11 DEF ListFails, Forget, pass, history, MarkedOrTorn, InHand,
    Flagged, Kind, StartDue
<1>12. CASE EndPass
  BY <1>12 DEF EndPass, Forget, pass, history, MarkedOrTorn, InHand, Flagged,
    Kind, StartDue
<1>13. CASE Lookup
  <2>1. ASSUME NEW p \in Pairs, heard'[p] # "nothing"
        PROVE  \/ <<p, heard'[p]>> \in torn'
               \/ pc' = "mark" /\ at' = p /\ Kind' = heard'[p]
               \/ /\ rows'[p[2]].rule = p[1]
                  /\ Flagged(rows'[p[2]], heard'[p])
               \/ /\ rows'[p[2]].rule = p[1] /\ rows'[p[2]].deleted
                  /\ ~ InHand(p)'
    <3>1. PICK q \in todo : at' = q /\ tracked' = TrackedRow(q)
      BY <1>13 DEF Lookup
    <3>2. UNCHANGED <<rows, heard, torn>> /\ pc = "lookup"
      BY <1>13 DEF Lookup, history
    <3>3. rows[p[2]].deleted => ~ InHand(p)'
      BY <3>1 DEF InHand, TrackedRow
    <3>4. QED
      BY <2>1, <3>2, <3>3 DEF MarkedOrTorn
  <2>2. QED
    BY <2>1 DEF MarkedOrTorn, Pairs
<1>14. CASE Create
  <2>1. ASSUME NEW p \in Pairs, heard'[p] # "nothing"
        PROVE  \/ <<p, heard'[p]>> \in torn'
               \/ pc' = "mark" /\ at' = p /\ Kind' = heard'[p]
               \/ /\ rows'[p[2]].rule = p[1]
                  /\ Flagged(rows'[p[2]], heard'[p])
               \/ /\ rows'[p[2]].rule = p[1] /\ rows'[p[2]].deleted
                  /\ ~ InHand(p)'
    <3>1. /\ Job \in Jobs /\ p[1] # 0
          /\ rows[Job].rule = 0
      BY <1>14 DEF Create, PassOK, Busy, Job, TypeOK, Pairs, NoRow
    <3>2. UNCHANGED <<heard, torn>> /\ pc = "store"
      BY <1>14 DEF Create, history
    <3>3. rows[p[2]].rule = p[1] => rows'[p[2]] = rows[p[2]]
      BY <3>1, <1>14 DEF Create, TypeOK, Pairs
    <3>4. rows[p[2]].rule = p[1] => ~ InHand(p)'
      BY <3>1, <1>14 DEF Create, InHand, Job
    <3>5. QED
      BY <2>1, <3>2, <3>3, <3>4 DEF MarkedOrTorn
  <2>2. QED
    BY <2>1 DEF MarkedOrTorn, Pairs
<1>15. CASE Conflict
  BY <1>15 DEF Conflict, NextPair, pass, history, MarkedOrTorn, InHand,
    Flagged, Kind, StartDue
<1>16. CASE Save
  <2>1. ASSUME NEW p \in Pairs, heard'[p] # "nothing"
        PROVE  \/ <<p, heard'[p]>> \in torn'
               \/ pc' = "mark" /\ at' = p /\ Kind' = heard'[p]
               \/ /\ rows'[p[2]].rule = p[1]
                  /\ Flagged(rows'[p[2]], heard'[p])
               \/ /\ rows'[p[2]].rule = p[1] /\ rows'[p[2]].deleted
                  /\ ~ InHand(p)'
    <3>1. /\ Job \in Jobs /\ at \in Pairs /\ tracked # NoRow
          /\ rows[Job].rule = Rule
      BY <1>16 DEF Save, PassOK, Busy, Job, TypeOK, Pairs
    <3>2. UNCHANGED <<heard, torn, at>> /\ pc = "store" /\ pc' = "send"
      BY <1>16 DEF Save, history
    <3>3. /\ Saved.rule = rows[Job].rule
          /\ Saved.started = rows[Job].started
          /\ Saved.finished = rows[Job].finished
      BY <1>16 DEF Save, PassOK, Saved, TypeOK, RowType
    <3>4. /\ rows'[p[2]].rule = rows[p[2]].rule
          /\ rows'[p[2]].started = rows[p[2]].started
          /\ rows'[p[2]].finished = rows[p[2]].finished
      BY <3>1, <3>3, <1>16 DEF Save, TypeOK, Pairs
    <3>5. ASSUME rows[p[2]].rule = p[1], ~ InHand(p)
          PROVE  at # p /\ rows'[p[2]] = rows[p[2]] /\ ~ InHand(p)'
      <4>1. at # p
        BY <3>1, <3>2, <3>5 DEF InHand
      <4>2. p[2] # Job
        BY <4>1, <3>1, <3>5 DEF Rule, Job, Pairs
      <4>3. QED
        BY <4>1, <4>2, <3>1, <3>2, <1>16 DEF Save, TypeOK, InHand
    <3>6. QED
      BY <2>1, <3>2, <3>4, <3>5 DEF MarkedOrTorn, Flagged
  <2>2. QED
    BY <2>1 DEF MarkedOrTorn, Pairs
<1>17. CASE StoreFails
  BY <1>17 DEF StoreFails, NextPair, pass, history, MarkedOrTorn, InHand,
    Flagged, Kind, StartDue
<1>18. CASE NothingDue
  BY <1>18 DEF NothingDue, NextPair, pass, history, MarkedOrTorn, InHand,
    Flagged, Kind, StartDue
<1>19. CASE Send
  <2>1. ASSUME NEW p \in Pairs, heard'[p] # "nothing"
        PROVE  \/ <<p, heard'[p]>> \in torn'
               \/ pc' = "mark" /\ at' = p /\ Kind' = heard'[p]
               \/ /\ rows'[p[2]].rule = p[1]
                  /\ Flagged(rows'[p[2]], heard'[p])
               \/ /\ rows'[p[2]].rule = p[1] /\ rows'[p[2]].deleted
                  /\ ~ InHand(p)'
    <3>1. at \in Pairs /\ heard' = [heard EXCEPT ![at] = Kind]
      BY <1>19 DEF Send, PassOK, Busy, TypeOK
    <3>2. UNCHANGED <<rows, torn, at, tracked>> /\ pc = "send" /\ pc' = "mark"
      BY <1>19 DEF Send
    <3>3. Kind' = Kind /\ ~ InHand(p)'
      BY <3>2 DEF Kind, StartDue, InHand
    <3>4. CASE p = at
      BY <3>1, <3>2, <3>3, <3>4 DEF TypeOK
    <3>5. CASE p # at
      <4>1. heard'[p] = heard[p]
        BY <3>1, <3>5 DEF TypeOK
      <4>2. QED
        BY <2>1, <4>1, <3>2, <3>3 DEF MarkedOrTorn
    <3>6. QED
      BY <3>4, <3>5
  <2>2. QED
    BY <2>1 DEF MarkedOrTorn, Pairs
<1>20. CASE SendFails
  <2>1. ASSUME NEW p \in Pairs, heard'[p] # "nothing"
        PROVE  \/ <<p, heard'[p]>> \in torn'
               \/ pc' = "mark" /\ at' = p /\ Kind' = heard'[p]
               \/ /\ rows'[p[2]].rule = p[1]
                  /\ Flagged(rows'[p[2]], heard'[p])
               \/ /\ rows'[p[2]].rule = p[1] /\ rows'[p[2]].deleted
                  /\ ~ InHand(p)'
    <3>1. UNCHANGED <<rows, heard, torn, at, tracked>> /\ pc = "send"
      BY <1>20 DEF SendFails
    <3>2. ~ InHand(p)'
      BY <1>20 DEF SendFails, InHand
    <3>3. QED
      BY <2>1, <3>1, <3>2 DEF MarkedOrTorn
  <2>2. QED
    BY <2>1 DEF MarkedOrTorn, Pairs
<1>21. CASE Mark
  <2>1. ASSUME NEW p \in Pairs, heard'[p] # "nothing"
        PROVE  \/ <<p, heard'[p]>> \in torn'
               \/ pc' = "mark" /\ at' = p /\ Kind' = heard'[p]
               \/ /\ rows'[p[2]].rule = p[1]
                  /\ Flagged(rows'[p[2]], heard'[p])
               \/ /\ rows'[p[2]].rule = p[1] /\ rows'[p[2]].deleted
                  /\ ~ InHand(p)'
    <3>1. /\ Job \in Jobs /\ at \in Pairs /\ tracked # NoRow
          /\ rows[Job].rule = Rule
      BY <1>21 DEF Mark, PassOK, Busy, Rule, Job, NoRow, TypeOK, Pairs
    <3>2. /\ UNCHANGED heard /\ pc = "mark" /\ pc' = "lookup"
          /\ torn' = torn \ {<<at, Kind>>}
          /\ rows' = IF rows[Job].deleted THEN rows
                     ELSE [rows EXCEPT ![Job] = Marked(rows[Job])]
      BY <1>21 DEF Mark, NextPair, News
    <3>3. ~ InHand(p)' /\ ~ InHand(p)
      BY <3>2 DEF InHand
    <3>4. /\ Marked(rows[Job]).rule = rows[Job].rule
          /\ rows[Job].started => Marked(rows[Job]).started
          /\ rows[Job].finished => Marked(rows[Job]).finished
          /\ Marked(rows[Job]).deleted = rows[Job].deleted
      BY <3>1 DEF Marked, TypeOK, RowType
    <3>5. Flagged(Marked(rows[Job]), Kind)
      BY <3>1 DEF Flagged, Marked, Kind, TypeOK, RowType
    <3>6. rows \in [Jobs -> RowType] /\ p[2] \in Jobs
      BY DEF TypeOK, Pairs
    <3>7. CASE p = at /\ heard[p] = Kind
      <4>1. CASE rows[Job].deleted
        BY <3>1, <3>2, <3>3, <3>7, <4>1 DEF Rule, Job
      <4>2. CASE ~ rows[Job].deleted
        <5>1. rows'[p[2]] = Marked(rows[Job])
          BY <3>2, <3>6, <3>7, <4>2 DEF Job
        <5>2. QED
          BY <5>1, <3>1, <3>2, <3>4, <3>5, <3>7 DEF Rule, Job
      <4>3. QED
        BY <4>1, <4>2
    <3>8. CASE ~ (p = at /\ heard[p] = Kind)
      <4>1. \/ <<p, heard[p]>> \in torn'
            \/ rows[p[2]].rule = p[1] /\ Flagged(rows[p[2]], heard[p])
            \/ rows[p[2]].rule = p[1] /\ rows[p[2]].deleted
        BY <2>1, <3>2, <3>8 DEF MarkedOrTorn
      <4>2. /\ rows'[p[2]].rule = rows[p[2]].rule
            /\ rows[p[2]].started => rows'[p[2]].started
            /\ rows[p[2]].finished => rows'[p[2]].finished
            /\ rows[p[2]].deleted => rows'[p[2]].deleted
        BY <3>2, <3>4, <3>6
      <4>3. QED
        BY <4>1, <4>2, <3>2, <3>3 DEF Flagged
    <3>9. QED
      BY <3>7, <3>8
  <2>2. QED
    BY <2>1 DEF MarkedOrTorn, Pairs
<1>22. CASE MarkFails
  <2>1. ASSUME NEW p \in Pairs, heard'[p] # "nothing"
        PROVE  \/ <<p, heard'[p]>> \in torn'
               \/ pc' = "mark" /\ at' = p /\ Kind' = heard'[p]
               \/ /\ rows'[p[2]].rule = p[1]
                  /\ Flagged(rows'[p[2]], heard'[p])
               \/ /\ rows'[p[2]].rule = p[1] /\ rows'[p[2]].deleted
                  /\ ~ InHand(p)'
    <3>1. /\ UNCHANGED <<rows, heard>>
          /\ pc = "mark" => <<at, Kind>> \in torn'
          /\ torn \subseteq torn'
          /\ pc' \in {"idle", "lookup"}
      BY <1>22 DEF MarkFails, NextPair, News
    <3>2. ~ InHand(p)'
      BY <3>1 DEF InHand
    <3>3. QED
      BY <2>1, <3>1, <3>2 DEF MarkedOrTorn
  <2>2. QED
    BY <2>1 DEF MarkedOrTorn, Pairs
<1>23. CASE UNCHANGED vars
  BY <1>23 DEF vars, pass, history, MarkedOrTorn, InHand, Flagged, Kind,
    StartDue
<1>24. QED
  BY <1>1, <1>2, <1>3, <1>4, <1>5, <1>6, <1>7, <1>8, <1>9, <1>10, <1>11,
    <1>12, <1>13, <1>14, <1>15, <1>16, <1>17, <1>18, <1>19, <1>20, <1>21,
      <1>22, <1>23
  DEF Next, Environment, Poll, Untrack

-----------------------------------------------------------------------------
(* The theorems.                                                           *)

(* The invariant holds at the start.                                       *)
LEMMA InitInv == Init => IInv
<1> SUFFICES ASSUME Init PROVE IInv
  OBVIOUS
<1> USE DeployAssumption
<1>1. NoRow \in RowType /\ NoListing \in [Jobs -> Seen]
  BY DEF NoRow, RowType, NoListing, Seen
<1>2. TypeOK
  BY <1>1 DEF Init, TypeOK, Statuses
<1>3. PassOK
  BY DEF Init, PassOK, Busy
<1>4. RowsOK /\ MarkedWasSent
  BY DEF Init, RowsOK, MarkedWasSent, NoRow
<1>5. ListingOK /\ HeardOK /\ SentOK /\ MarkedOrTorn
  BY DEF Init, ListingOK, HeardOK, SentOK, MarkedOrTorn, NoListing
<1>6. QED
  BY <1>2, <1>3, <1>4, <1>5 DEF IInv

(* Every step keeps the invariant.                                         *)
LEMMA StepInv == IInv /\ [Next]_vars => IInv'
<1> SUFFICES ASSUME IInv, [Next]_vars PROVE IInv'
  OBVIOUS
<1>1. TypeOK'
  BY TypeStep DEF IInv, PassOK
<1>2. PassOK' /\ RowsOK' /\ ListingOK' /\ HeardOK' /\ SentOK'
  BY PassStep, RowsStep, ListingStep, HeardStep, SentStep DEF IInv
<1>3. MarkedWasSent'
  BY <1>1, FlagsStep DEF IInv
<1>4. MarkedOrTorn'
  BY MarksStep DEF IInv
<1>5. QED
  BY <1>1, <1>2, <1>3, <1>4 DEF IInv

(* It always holds.                                                        *)
THEOREM Invariance == Spec => []IInv
  BY InitInv, StepInv, PTL DEF Spec

(* Type correctness, for any rules and jobs.                               *)
THEOREM TypeCorrect == Spec => []TypeOK
<1>1. IInv => TypeOK
  BY DEF IInv
<1>2. QED
  BY <1>1, Invariance, PTL

(* processJob and notifyIfNeeded: a flag tells that the message was sent,  *)
(* or that its sending failed.                                             *)
THEOREM FlagsTellTruth == Spec => []MarkedWasSent
<1>1. IInv => MarkedWasSent
  BY DEF IInv
<1>2. QED
  BY <1>1, Invariance, PTL

(* A message that is due was not heard before, or it could not be marked.  *)
LEMMA DueIsNew ==
  ASSUME IInv, pc = "send", Due, heard[at] = Kind
  PROVE  News \in torn
<1>1. /\ at \in Pairs /\ at[1] = Rule /\ at[2] = Job
      /\ tracked # NoRow /\ rows[Job].rule = Rule
      /\ rows[Job].started = tracked.started
      /\ rows[Job].finished = tracked.finished
  BY DeployAssumption
     DEF IInv, PassOK, Busy, TypeOK, Pairs, Rule, Job, NoRow
<1>2. InHand(at)
  BY <1>1 DEF InHand
<1>3. ~ Flagged(rows[Job], Kind)
  BY <1>1 DEF Flagged, Kind, Due, StartDue, EndDue
<1>4. Kind # "nothing"
  BY DEF Kind
<1>5. QED
  BY <1>1, <1>2, <1>3, <1>4 DEF IInv, MarkedOrTorn, News

(* Nothing is sent twice, whatever rows are deleted or brought back.       *)
THEOREM NothingTwice == Spec => NothingSentTwice
<1>1. IInv /\ [Next]_vars
        => [pc = "send" /\ pc' = "mark"
              => heard[at] # Kind \/ News \in torn]_vars
  <2> SUFFICES ASSUME IInv, [Next]_vars, pc = "send", pc' = "mark",
                      heard[at] = Kind
               PROVE  News \in torn
    OBVIOUS
  <2>1. Due
    BY DEF Next, Environment, Poll, Untrack, vars, pass, history, Advance,
      PushOut, Track, UntrackRows, Crash, Settle, UntrackRule,
      UntrackRuleFails, ReadRules, List, ListFails, EndPass, Lookup, Create,
      Conflict, Save, StoreFails, NothingDue, Send, SendFails, Mark,
      MarkFails, NextPair, Forget
  <2>2. QED
    BY <2>1, DueIsNew
<1>2. QED
  BY <1>1, Invariance, PTL DEF Spec, NothingSentTwice

(* The refinement: the tables, passes and faults are behind the promise.   *)
LEMMA InitRefines == Init => Promise!Init
<1> SUFFICES ASSUME Init PROVE Promise!Init
  OBVIOUS
<1>1. [j \in Jobs |-> gl[j].status] = [j \in Jobs |-> "none"]
  BY DEF Init
<1>2. QED
  BY <1>1 DEF Promise!Init, Init, Pairs

(* GitLab's steps are its steps, a message is heard or is not, and all     *)
(* else is not noticed by the chats.                                       *)
LEMMA StepRefines ==
  ASSUME IInv, [Next]_vars
  PROVE  [Promise!Next]_<<[j \in Jobs |-> gl[j].status], heard>>
<1> DEFINE status == [j \in Jobs |-> gl[j].status]
<1>1. ASSUME NEW j \in Jobs, Advance(j)
      PROVE  Promise!Advance(j)
  <2>1. PICK s \in Follows(gl[j].status) :
          gl' = [gl EXCEPT ![j].status = s]
    BY <1>1 DEF Advance
  <2>2. s \in Promise!Follows(gl[j].status)
    BY DEF Follows, Promise!Follows
  <2>3. status' = [status EXCEPT ![j] = s]
    BY <2>1 DEF IInv, TypeOK
  <2>4. status[j] = gl[j].status
    OBVIOUS
  <2>5. UNCHANGED heard
    BY <1>1 DEF Advance, history
  <2>6. QED
    BY <2>2, <2>3, <2>4, <2>5 DEF Promise!Advance
<1>2. CASE Send
  <2>1. /\ at \in todo /\ at \in Rules \X Jobs /\ at[2] = Job
        /\ heard' = [heard EXCEPT ![at] = Kind] /\ gl' = gl
    BY <1>2 DEF Send, IInv, PassOK, Busy, TypeOK, Pairs, Job
  <2>2. Kind = listing[Job]
    BY <1>2 DEF Send, Due, StartDue, EndDue, Kind, IInv, PassOK
  <2>3. status[at[2]] = gl[Job].status /\ status' = status /\ Job \in Jobs
    BY <2>1
  <2>4. CASE Kind = "ended"
    <3>1. gl[Job].status = "ended"
      BY <2>2, <2>3, <2>4 DEF IInv, ListingOK
    <3>2. Promise!HearEnd(at)
      BY <2>1, <2>3, <2>4, <3>1 DEF Promise!HearEnd
    <3>3. QED
      BY <2>1, <3>2 DEF Promise!Next
  <2>5. CASE Kind = "running"
    <3>1. gl[Job].status \in {"running", "ended"}
      BY <2>2, <2>3, <2>5 DEF IInv, ListingOK
    <3>2. heard[at] # "ended"
      BY <2>1, <2>2, <2>5 DEF IInv, HeardOK
    <3>3. heard[at] \in {"nothing", "running", "ended"}
      BY <2>1 DEF IInv, TypeOK, Pairs
    <3>4. CASE heard[at] = "running"
      <4>1. heard' = heard
        BY <2>1, <2>5, <3>4 DEF IInv, TypeOK, Pairs
      <4>2. QED
        BY <4>1, <2>3
    <3>5. CASE heard[at] = "nothing"
      <4>1. Promise!HearStart(at)
        BY <2>1, <2>3, <2>5, <3>1, <3>5 DEF Promise!HearStart
      <4>2. QED
        BY <2>1, <4>1 DEF Promise!Next
    <3>6. QED
      BY <3>2, <3>3, <3>4, <3>5
  <2>6. QED
    BY <2>4, <2>5 DEF Kind
<1>3. ASSUME NEW j \in Jobs, PushOut(j)
      PROVE  status' = status /\ UNCHANGED heard
  BY <1>3 DEF PushOut, history, IInv, TypeOK
<1>4. CASE UNCHANGED <<gl, heard>>
  BY <1>4
<1>5. ASSUME ~ Send, ~ \E j \in Jobs : Advance(j) \/ PushOut(j)
      PROVE  UNCHANGED <<gl, heard>>
  BY <1>5 DEF Next, Environment, Poll, Untrack, vars, pass, history, Track,
    UntrackRows, Crash, Settle, UntrackRule, UntrackRuleFails, ReadRules,
    List, ListFails, EndPass, Lookup, Create, Conflict, Save, StoreFails,
    NothingDue, SendFails, Mark, MarkFails
<1>6. QED
  <2>1. CASE \E j \in Jobs : Advance(j)
    BY <2>1, <1>1 DEF Promise!Next
  <2>2. CASE \E j \in Jobs : PushOut(j)
    BY <2>2, <1>3
  <2>3. QED
    BY <2>1, <2>2, <1>2, <1>4, <1>5

(* What chats hear of deploy jobs is what README.md, Deploy Tracking, says *)
(* they hear, whatever fails, dies or is removed meanwhile.                *)
THEOREM PromiseKept == Spec => KeepsPromise
<1>1. IInv /\ [Next]_vars
        => [Promise!Next]_<<[j \in Jobs |-> gl[j].status], heard>>
  BY StepRefines
<1>2. QED
  BY <1>1, InitRefines, Invariance, PTL DEF Spec, KeepsPromise, Promise!Spec
==============================================================================

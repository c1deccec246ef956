-------------------------- MODULE ReleaseNotifyProofs -------------------------
(***************************************************************************)
(* For any merge requests a release may list and any number of changes,    *)
(* whatever fails and wherever the process dies: what the bot takes for    *)
(* told was told, only entries whose telling was not recorded are told     *)
(* again, and no merge leaves the queue unannounced before its time unless *)
(* a failed query hid that it is a release.                                *)
(***************************************************************************)
EXTENDS ReleaseNotify, TLAPS

(* What the row is about to take over has been sent.                       *)
SentFirst ==
  /\ pc = "new row" => mr.desc \subseteq announced
  /\ pc = "changes row" => mr.desc \subseteq announced \union latest.desc

(* What the chats know is in the description the bot has, and in the row   *)
(* unless it is not recorded, yet or at all.                               *)
KnownOK ==
  /\ known \subseteq mr.desc
  /\ known \subseteq latest.desc \union unsaved

MergeOK == pc = "merged mark" => merged

IInv ==
  /\ TypeOK
  /\ RecordedWasAnnounced
  /\ SentFirst
  /\ KnownOK
  /\ MergeOK

PendingActions ==
  [type : {"ready", "comment", "merged"}, id : Nat, age : 0 .. 2]

-----------------------------------------------------------------------------
(* The invariant.                                                          *)

(* The initial states satisfy the invariant.                               *)
LEMMA InitInvariant == Init => IInv
<1> SUFFICES ASSUME Init
             PROVE  IInv
  OBVIOUS
<1>1. /\ gl \in [mr : ReleaseMRs, age : 0 .. 2]
      /\ mr \in ReleaseMRs
  BY DEF Init, ReleaseMRs
<1>2. TypeOK
  BY <1>1 DEF Init, TypeOK, NoRow, Steps
<1>3. QED
  BY <1>2 DEF Init, IInv, RecordedWasAnnounced, SentFirst, KnownOK, MergeOK,
              NoRow

(* The row of a release, and the actions a sync detects, have their types. *)
LEMMA RowTypes ==
  ASSUME TypeOK
  PROVE  /\ mr.desc \subseteq Entries /\ latest.desc \subseteq Entries
         /\ mr.state = "opened" => DerivedState \in {"on_review", "on_fixes"}
         /\ Detected(mr, gl.mr) \subseteq PendingActions
<1>1. /\ mr.desc \subseteq Entries /\ latest.desc \subseteq Entries
      /\ gl.age \in 0 .. 2 /\ changes \in Nat
  BY DEF TypeOK, ReleaseMRs
<1>2. mr.state = "opened" => DerivedState \in {"on_review", "on_fixes"}
  BY DEF DerivedState
<1>3. Detected(mr, gl.mr) \subseteq PendingActions
  BY <1>1 DEF Detected, Action, PendingActions
<1>4. QED
  BY <1>1, <1>2, <1>3

(* Marking, or failing to mark, adds nothing and removes only S.           *)
LEMMA MarkLemma ==
  ASSUME NEW S, pending' \in AfterMark(S)
  PROVE  pending' \subseteq pending /\ pending \ S \subseteq pending'
BY DEF AfterMark

(* Every step keeps the types.                                             *)
LEMMA TypeStep ==
  ASSUME TypeOK, [Next]_vars
  PROVE  TypeOK'
<1>1. CASE GitLabChange
  <2>1. gl' \in [mr : ReleaseMRs, age : 0 .. 2]
    <3> DEFINE m == gl.mr
    <3>0. m \in ReleaseMRs /\ gl.age \in 0 .. 2 /\ gl = [mr |-> m, age |->
      gl.age]
      BY DEF TypeOK
    <3> HIDE DEF m
    <3>1. CASE \E l \in {"release", "ready"} :
                 gl' = [gl EXCEPT !.mr.labels = (@ \ {l}) \union ({l} \ @)]
      <4>1. PICK l \in {"release", "ready"} :
              gl' = [gl EXCEPT !.mr.labels = (@ \ {l}) \union ({l} \ @)]
        BY <3>1
      <4>2. [m EXCEPT !.labels = (@ \ {l}) \union ({l} \ @)] \in ReleaseMRs
        BY <3>0 DEF ReleaseMRs
      <4>3. gl' = [gl EXCEPT !.mr = [m EXCEPT !.labels =
                                       (@ \ {l}) \union ({l} \ @)]]
        BY <4>1 DEF m
      <4>4. QED
        BY <3>0, <4>2, <4>3
    <3>2. CASE \E e \in Entries :
                 gl' = [gl EXCEPT !.mr.desc = (@ \ {e}) \union ({e} \ @)]
      <4>1. PICK e \in Entries :
              gl' = [gl EXCEPT !.mr.desc = (@ \ {e}) \union ({e} \ @)]
        BY <3>2
      <4>2. [m EXCEPT !.desc = (@ \ {e}) \union ({e} \ @)] \in ReleaseMRs
        BY <3>0 DEF ReleaseMRs
      <4>3. gl' = [gl EXCEPT !.mr = [m EXCEPT !.desc =
                                       (@ \ {e}) \union ({e} \ @)]]
        BY <4>1 DEF m
      <4>4. QED
        BY <3>0, <4>2, <4>3
    <3>3. CASE gl' = [gl EXCEPT !.mr.fixes = ~ @]
      <4>1. (~ m.fixes) \in BOOLEAN
        OBVIOUS
      <4>2. \A f \in BOOLEAN : [m EXCEPT !.fixes = f] \in ReleaseMRs
        BY <3>0 DEF ReleaseMRs
      <4>3. gl' = [gl EXCEPT !.mr = [m EXCEPT !.fixes = ~ m.fixes]]
        BY <3>3, Zenon DEF m
      <4>4. [m EXCEPT !.fixes = ~ m.fixes] \in ReleaseMRs
        BY <4>1, <4>2, Zenon
      <4>5. QED
        BY <3>0, <4>3, <4>4
    <3>4. CASE gl' = [gl EXCEPT !.mr.state = "merged"]
      <4>1. [m EXCEPT !.state = "merged"] \in ReleaseMRs
        BY <3>0 DEF ReleaseMRs
      <4>2. gl' = [gl EXCEPT !.mr = [m EXCEPT !.state = "merged"]]
        BY <3>4 DEF m
      <4>3. QED
        BY <3>0, <4>1, <4>2
    <3>5. QED
      BY <1>1, <3>1, <3>2, <3>3, <3>4 DEF GitLabChange
  <2>2. changes' \in Nat
    <3>1. changes' = changes + 1
      BY <1>1, Zenon DEF GitLabChange, Change
    <3>2. changes \in Nat
      BY DEF TypeOK
    <3>3. QED
      BY <3>1, <3>2
  <2>3. QED
    BY <2>1, <2>2, <1>1 DEF GitLabChange, history, told, TypeOK
<1>2. CASE Command
  <2>1. subscribed' \in BOOLEAN
    BY <1>2, Zenon DEF Command, TypeOK
  <2>2. changes' \in Nat
    <3>1. changes' = changes + 1
      BY <1>2, Zenon DEF Command, Change
    <3>2. changes \in Nat
      BY DEF TypeOK
    <3>3. QED
      BY <3>1, <3>2
  <2>3. QED
    BY <2>1, <2>2, <1>2 DEF Command, history, told, TypeOK
<1>3. CASE Age
  <2>1. /\ pending' = {[a EXCEPT !.age = Older(@)] : a \in pending}
        /\ gl' = IF gl.mr.state = "merged" THEN [gl EXCEPT !.age = Older(@)]
                                           ELSE gl
        /\ UNCHANGED <<mr, latest, subscribed, pc, todo, calm, changes, history>>
    BY <1>3 DEF Age
  <2>2. \A age \in 0 .. 2 : Older(age) \in 0 .. 2
    BY DEF Older
  <2>3. gl' \in [mr : ReleaseMRs, age : 0 .. 2]
    BY <2>1, <2>2 DEF TypeOK
  <2>4. pending' \subseteq [type : {"ready", "comment", "merged"}, id : Nat,
                           age : 0 .. 2]
    <3>1. \A a \in pending :
            /\ a \in [type : {"ready", "comment", "merged"}, id : Nat,
                     age : 0 .. 2]
            /\ Older(a.age) \in 0 .. 2
      BY <2>2 DEF TypeOK
    <3>2. \A a \in pending :
            [a EXCEPT !.age = Older(@)] \in
              [type : {"ready", "comment", "merged"}, id : Nat, age : 0 .. 2]
      BY <3>1
    <3>3. QED
      BY <2>1, <3>2
  <2>5. QED
    BY <2>1, <2>3, <2>4 DEF history, told, TypeOK
<1>4. CASE Settle \/ Crash \/ SyncFails \/ UNCHANGED vars
  BY <1>4 DEF Settle, Crash, SyncFails, vars, environment, history, told,
              TypeOK, Steps
<1>5. CASE Sync
  <2>1. mr' \in ReleaseMRs /\ known' \subseteq Entries
        /\ unsaved' \subseteq Entries
    BY <1>5 DEF Sync, TypeOK
  <2>2. pending' \subseteq PendingActions
    BY <1>5, RowTypes DEF Sync, TypeOK, PendingActions
  <2>3. pc' = "states"
        /\ UNCHANGED <<environment, latest, todo, announced, merged, misread>>
    BY <1>5 DEF Sync
  <2>4. QED
    BY <2>1, <2>2, <2>3 DEF environment, TypeOK, Steps, PendingActions
<1>6. CASE Assign
  BY <1>6 DEF Assign, environment, history, told, TypeOK, Steps
<1>7. CASE TellState
  <2>1. latest' \in [state : {"none", "", "on_review", "on_fixes"},
                    desc : SUBSET Entries]
    <3>1. PICK s \in {DerivedState} \union {r \in {"on_review"} : Faulty} :
            latest' = StateRow(s)
      BY <1>7 DEF TellState
    <3>2. mr.state = "opened"
      BY <1>7 DEF TellState
    <3>3. s \in {"on_review", "on_fixes"} /\ latest.desc \in SUBSET Entries
      BY <3>2, RowTypes
    <3>4. QED
      BY <3>1, <3>3 DEF StateRow
  <2>2. pending' \subseteq pending
    BY <1>7, MarkLemma DEF TellState
  <2>3. pc' = "cleanup" /\ UNCHANGED <<environment, mr, todo, history>>
    BY <1>7 DEF TellState
  <2>4. QED
    BY <2>1, <2>2, <2>3 DEF environment, history, told, TypeOK, Steps
<1>8. CASE TellNoState \/ Cleanup
  <2>1. pending' \subseteq pending
    BY <1>8, MarkLemma DEF TellNoState, Cleanup
  <2>2. QED
    BY <1>8, <2>1 DEF TellNoState, Cleanup, environment, history, told, TypeOK,
                      Steps
<1>9. CASE FetchReleases \/ FetchMerges
  <2>1. ASSUME NEW type, NEW S \in Queried(type)
        PROVE  S \subseteq Nat
    <3>1. \A a \in OfType(type) : a.id \in Nat
      BY DEF OfType, TypeOK
    <3>2. S = {} \/ S = {a.id : a \in OfType(type)}
      BY DEF Queried
    <3>3. QED
      BY <3>1, <3>2
  <2>a. todo' \subseteq Nat
    BY <1>9, <2>1 DEF FetchReleases, FetchMerges
  <2>2. QED
    BY <1>9, <2>a DEF FetchReleases, FetchMerges, environment, history, told,
                      TypeOK, Steps
<1>10. CASE MarkRelease \/ SkipRelease \/ MarkMerge \/ SkipMerge
  <2>1. pending' \subseteq pending /\ todo' \subseteq todo
    BY <1>10, MarkLemma DEF MarkRelease, SkipRelease, MarkMerge, SkipMerge, Mark
  <2>2. CASE SkipMerge
    <3>1. misread' \in BOOLEAN
      BY <2>2, Zenon DEF SkipMerge, TypeOK
    <3>2. UNCHANGED <<environment, mr, latest, pc, told, merged>>
      BY <2>2 DEF SkipMerge
    <3>3. QED
      BY <2>1, <3>1, <3>2 DEF environment, told, TypeOK
  <2>3. CASE MarkRelease \/ SkipRelease \/ MarkMerge
    BY <2>1, <2>3 DEF MarkRelease, SkipRelease, MarkMerge, environment, history,
                      told, TypeOK, Steps
  <2>4. QED
    BY <1>10, <2>2, <2>3
<1>11. CASE AnnounceRelease \/ AnnounceEntries \/ AnnounceMerge
  BY <1>11, RowTypes
  DEF AnnounceRelease, AnnounceEntries, AnnounceMerge, NewEntries, environment,
      told, TypeOK, Steps
<1>12. CASE RecordRelease \/ Seed \/ RecordRemoval \/ RecordEntries
  <2>1. latest \in [state : {"none", "", "on_review", "on_fixes"},
                   desc : SUBSET Entries]
        /\ mr.desc \subseteq Entries
    BY RowTypes DEF TypeOK
  <2>2. [latest EXCEPT !.desc = mr.desc] \in
          [state : {"none", "", "on_review", "on_fixes"}, desc : SUBSET Entries]
    BY <2>1
  <2>3. CASE RecordRelease
    <3>1. pc' = "new mark"
          /\ UNCHANGED <<environment, mr, pending, todo, announced, known,
                        merged, misread>>
      BY <2>3 DEF RecordRelease
    <3>2. CASE latest' = [state |-> "", desc |-> mr.desc] /\ unsaved' = {}
      BY <2>1, <3>1, <3>2 DEF environment, TypeOK, Steps
    <3>3. CASE UNCHANGED <<latest, unsaved>>
      BY <3>1, <3>3 DEF environment, TypeOK, Steps
    <3>4. QED
      BY <2>3, <3>2, <3>3 DEF RecordRelease
  <2>4. CASE Seed
    BY <2>1, <2>4 DEF Seed, environment, TypeOK, Steps
  <2>5. CASE RecordRemoval
    BY <2>1, <2>2, <2>5 DEF RecordRemoval, environment, TypeOK, Steps
  <2>6. CASE RecordEntries
    BY <2>1, <2>2, <2>6 DEF RecordEntries, environment, TypeOK, Steps
  <2>7. QED
    BY <1>12, <2>3, <2>4, <2>5, <2>6
<1>13. CASE EndReleases \/ NothingWatched \/ Watch \/ SameDescription
            \/ ChatsLeave \/ EndTick \/ PutOff
  BY <1>13
  DEF EndReleases, NothingWatched, Watch, SameDescription, ChatsLeave, EndTick,
      PutOff, environment, history, told, TypeOK, Steps
<1>14. QED
  BY <1>1, <1>2, <1>3, <1>4, <1>5, <1>6, <1>7, <1>8, <1>9, <1>10, <1>11,
     <1>12, <1>13
  DEF Next, Tick, NewReleases, DescriptionChanges, Merges

(* The steps that send nothing, record nothing and take nothing over.      *)
Elsewhere ==
  \/ GitLabChange \/ Command \/ Age \/ Settle \/ Crash \/ SyncFails
  \/ TellNoState \/ Cleanup \/ FetchReleases \/ MarkRelease \/ SkipRelease
  \/ EndReleases \/ NothingWatched \/ Watch \/ SameDescription \/ ChatsLeave
  \/ FetchMerges \/ AnnounceMerge \/ MarkMerge \/ SkipMerge \/ EndTick \/ PutOff
  \/ UNCHANGED vars

(* They leave rows, entries and histories of them alone, and do not lead   *)
(* to where a row is written.                                              *)
LEMMA ElsewhereLemma ==
  ASSUME Elsewhere
  PROVE  /\ UNCHANGED <<mr, latest, announced, known, unsaved>>
         /\ pc' = pc \/ pc' \notin {"new row", "changes row"}
<1>1. CASE GitLabChange \/ Command \/ Age \/ Settle \/ Crash \/ SyncFails
           \/ TellNoState \/ Cleanup
  BY <1>1 DEF GitLabChange, Command, Age, Settle, Crash, SyncFails,
              TellNoState, Cleanup, history, told
<1>2. CASE FetchReleases \/ MarkRelease \/ SkipRelease \/ EndReleases
           \/ NothingWatched \/ Watch \/ SameDescription \/ ChatsLeave
  BY <1>2 DEF FetchReleases, MarkRelease, SkipRelease, EndReleases,
              NothingWatched, Watch, SameDescription, ChatsLeave, history, told
<1>3. CASE FetchMerges \/ AnnounceMerge \/ MarkMerge \/ SkipMerge \/ EndTick
           \/ PutOff \/ UNCHANGED vars
  BY <1>3 DEF FetchMerges, AnnounceMerge, MarkMerge, SkipMerge, EndTick,
              PutOff, vars, history, told
<1>4. QED
  BY <1>1, <1>2, <1>3 DEF Elsewhere

(* Every other step, one by one.                                           *)
LEMMA Cases ==
  ASSUME [Next]_vars
  PROVE  \/ Elsewhere \/ Sync \/ Assign \/ TellState \/ AnnounceRelease
         \/ RecordRelease \/ Seed \/ RecordRemoval \/ AnnounceEntries
         \/ RecordEntries
BY DEF Next, Tick, NewReleases, DescriptionChanges, Merges, Elsewhere

(* A step that writes a row records the description the bot has, and       *)
(* nothing is unsaved then, or, where it was sent before, fails to.        *)
LEMMA RecordingLemma ==
  ASSUME TypeOK, RecordRelease \/ Seed \/ RecordRemoval \/ RecordEntries
  PROVE  /\ mr' = mr /\ pc' \notin {"new row", "changes row"}
         /\ \/ latest'.desc = mr.desc /\ unsaved' = {}
            \/ UNCHANGED <<latest, unsaved, announced, known>>
         /\ known' \subseteq known \union mr.desc
         /\ announced \subseteq announced'
         /\ Seed => mr.desc \subseteq announced'
<1>1. latest \in [state : {"none", "", "on_review", "on_fixes"},
                 desc : SUBSET Entries]
  BY DEF TypeOK
<1>2. [latest EXCEPT !.desc = mr.desc].desc = mr.desc
  BY <1>1
<1>3. CASE RecordRelease
  <2>1. pc' = "new mark" /\ pc = "new row"
        /\ UNCHANGED <<environment, mr, pending, todo, announced, known,
                      merged, misread>>
    BY <1>3 DEF RecordRelease
  <2>2. CASE latest' = [state |-> "", desc |-> mr.desc] /\ unsaved' = {}
    BY <2>1, <2>2 DEF Seed
  <2>3. CASE UNCHANGED <<latest, unsaved>>
    BY <2>1, <2>3 DEF Seed
  <2>4. QED
    BY <1>3, <2>2, <2>3 DEF RecordRelease
<1>4. CASE Seed
  BY <1>4 DEF Seed
<1>5. CASE RecordRemoval
  BY <1>2, <1>5 DEF RecordRemoval, Seed
<1>6. CASE RecordEntries
  BY <1>2, <1>6 DEF RecordEntries, Seed
<1>7. QED
  BY <1>3, <1>4, <1>5, <1>6

(* A state row keeps the description of the row before it.                 *)
LEMMA StatesLemma ==
  ASSUME Assign \/ TellState
  PROVE  /\ latest'.desc = latest.desc
         /\ UNCHANGED <<mr, announced, known, unsaved>>
         /\ pc' \notin {"new row", "changes row"}
<1>1. CASE Assign
  <2>1. latest = [state |-> "none", desc |-> {}]
        /\ latest' = [state |-> "on_review", desc |-> {}]
    BY <1>1 DEF Assign, NoRow
  <2>2. latest.desc = {} /\ latest'.desc = {}
    BY <2>1
  <2>3. QED
    BY <1>1, <2>2 DEF Assign, history, told
<1>2. CASE TellState
  <2>1. PICK s : latest' = StateRow(s)
    BY <1>2 DEF TellState
  <2>2. latest'.desc = latest.desc
    BY <2>1 DEF StateRow
  <2>3. QED
    BY <1>2, <2>2 DEF TellState, history, told
<1>3. QED
  BY <1>1, <1>2

(* Every step keeps what was recorded within what was announced.           *)
LEMMA RecordStep ==
  ASSUME IInv, [Next]_vars
  PROVE  RecordedWasAnnounced' /\ SentFirst'
<1> USE DEF IInv, RecordedWasAnnounced, SentFirst
<1>1. CASE Elsewhere
  BY <1>1, ElsewhereLemma
<1>2. CASE Sync
  BY <1>2 DEF Sync
<1>3. CASE Assign \/ TellState
  BY <1>3, StatesLemma
<1>4. CASE AnnounceRelease \/ AnnounceEntries
  BY <1>4 DEF AnnounceRelease, AnnounceEntries, NewEntries
<1>5. CASE RecordRelease \/ Seed \/ RecordRemoval \/ RecordEntries
  <2>1. CASE RecordRelease \/ RecordEntries
    <3>1. mr.desc \subseteq announced
      BY <2>1 DEF RecordRelease, RecordEntries
    <3>2. QED
      BY <2>1, <3>1, RecordingLemma
  <2>2. CASE Seed
    BY <2>2, RecordingLemma
  <2>3. CASE RecordRemoval
    <3>1. mr.desc \subseteq announced
      BY <2>3 DEF RecordRemoval, NewEntries
    <3>2. QED
      BY <2>3, <3>1, RecordingLemma
  <2>4. QED
    BY <1>5, <2>1, <2>2, <2>3
<1>6. QED
  BY <1>1, <1>2, <1>3, <1>4, <1>5, Cases

(* Every step keeps what the chats know within the row and what is not     *)
(* recorded.                                                               *)
LEMMA KnownStep ==
  ASSUME IInv, [Next]_vars
  PROVE  KnownOK'
<1> USE DEF IInv, KnownOK
<1>1. CASE Elsewhere
  BY <1>1, ElsewhereLemma
<1>2. CASE Sync
  BY <1>2 DEF Sync
<1>3. CASE Assign \/ TellState
  BY <1>3, StatesLemma
<1>4. CASE AnnounceRelease \/ AnnounceEntries
  BY <1>4 DEF AnnounceRelease, AnnounceEntries, NewEntries
<1>5. CASE RecordRelease \/ Seed \/ RecordRemoval \/ RecordEntries
  BY <1>5, RecordingLemma
<1>6. QED
  BY <1>1, <1>2, <1>3, <1>4, <1>5, Cases

(* Every step keeps that a merge is announced before it is marked.         *)
LEMMA MergeStep ==
  ASSUME IInv, [Next]_vars
  PROVE  MergeOK'
<1>1. CASE AnnounceMerge
  BY <1>1 DEF AnnounceMerge, MergeOK
<1>2. CASE GitLabChange \/ Command \/ Age \/ Settle \/ Crash \/ SyncFails
           \/ TellNoState \/ Cleanup \/ Sync \/ Assign \/ TellState
           \/ UNCHANGED vars
  BY <1>2
  DEF GitLabChange, Command, Age, Settle, Crash, SyncFails, TellNoState,
      Cleanup, Sync, Assign, TellState, vars, history, IInv, MergeOK
<1>3. CASE NewReleases
  BY <1>3
  DEF NewReleases, FetchReleases, AnnounceRelease, RecordRelease, MarkRelease,
      SkipRelease, EndReleases, history, IInv, MergeOK
<1>4. CASE DescriptionChanges
  BY <1>4
  DEF DescriptionChanges, NothingWatched, Watch, Seed, SameDescription,
      RecordRemoval, AnnounceEntries, ChatsLeave, RecordEntries, history, IInv,
      MergeOK
<1>5. CASE FetchMerges \/ MarkMerge \/ SkipMerge \/ EndTick \/ PutOff
  BY <1>5 DEF FetchMerges, MarkMerge, SkipMerge, EndTick, PutOff, history, IInv,
              MergeOK
<1>6. QED
  BY <1>1, <1>2, <1>3, <1>4, <1>5 DEF Next, Tick, Merges

(* Every step keeps the invariant.                                         *)
LEMMA StepInvariant == IInv /\ [Next]_vars => IInv'
<1> SUFFICES ASSUME IInv, [Next]_vars
             PROVE  IInv'
  OBVIOUS
<1>1. TypeOK'
  BY TypeStep DEF IInv
<1>2. QED
  BY <1>1, RecordStep, KnownStep, MergeStep DEF IInv

-----------------------------------------------------------------------------
(* The theorems.                                                           *)

(* The invariant holds in every reachable state.                           *)
THEOREM Invariance == Spec => []IInv
BY InitInvariant, StepInvariant, PTL DEF Spec

(* Every variable keeps its type.                                          *)
THEOREM TypeCorrect == Spec => []TypeOK
<1>1. IInv => TypeOK
  BY DEF IInv
<1>2. QED
  BY <1>1, Invariance, PTL

(* Whatever a row records as told was sent to the chats, or was there when *)
(* the bot first looked.                                                   *)
THEOREM RecordsAreTrue == Spec => []RecordedWasAnnounced
<1>1. IInv => RecordedWasAnnounced
  BY DEF IInv
<1>2. QED
  BY <1>1, Invariance, PTL

(* An entry that stays in the description is announced as new again only   *)
(* if its telling was never recorded, by a crash or a failed write.        *)
THEOREM ToldOnce == Spec => NothingToldTwice
<1>1. IInv /\ [Next]_vars
      => [pc = "diff" /\ pc' = "changes row"
          => NewEntries \intersect known \subseteq unsaved]_vars
  BY DEF IInv, KnownOK, NewEntries
<1>2. QED
  BY <1>1, Invariance, PTL DEF Spec, NothingToldTwice

(* A step that keeps the actions of a type keeps all of them; one that     *)
(* marks others keeps these.                                               *)
LEMMA OthersKept ==
  ASSUME NEW S, pending' \in AfterMark(S), NEW a \in OfType("merged"),
         a \notin S
  PROVE  OfType("merged")' # {}
BY MarkLemma DEF OfType

(* A merge younger than an hour leaves the queue only when it was          *)
(* announced, when there was nobody to tell, or when a failed query of the *)
(* labels hid that it is a release.                                        *)
THEOREM MergesTold == Spec => MergeTold
<1>1. IInv /\ [Next]_vars
      => [\A a \in OfType("merged") :
            a.age < 2 /\ OfType("merged")' = {}
              => merged \/ ~ subscribed \/ ~ IsRelease \/ misread']_vars
  <2> SUFFICES ASSUME IInv, [Next]_vars, vars' # vars,
                      NEW a \in OfType("merged"), a.age < 2,
                      OfType("merged")' = {}
               PROVE  merged \/ ~ subscribed \/ ~ IsRelease \/ misread'
    OBVIOUS
  <2>1. ~ (pending \subseteq pending')
    BY DEF OfType
  <2>2. CASE Age
    <3>1. [a EXCEPT !.age = Older(@)] \in OfType("merged")'
      BY <2>2 DEF Age, OfType, IInv, TypeOK
    <3>2. QED
      BY <3>1
  <2>3. CASE TellState \/ TellNoState
    BY <2>3, OthersKept DEF TellState, TellNoState, Comments, OfType
  <2>4. CASE Cleanup
    BY <2>4, OthersKept DEF Cleanup
  <2>5. CASE MarkRelease \/ SkipRelease
    <3>1. PICK id : Mark("ready", id)
      BY <2>5 DEF MarkRelease, SkipRelease
    <3>2. a \notin {b \in OfType("ready") : b.id = id}
      BY DEF OfType
    <3>3. QED
      BY <3>1, <3>2, OthersKept DEF Mark
  <2>6. CASE MarkMerge
    BY <2>6 DEF MarkMerge, IInv, MergeOK
  <2>7. CASE SkipMerge
    BY <2>7 DEF SkipMerge
  <2>8. CASE GitLabChange \/ Command \/ Settle \/ Crash \/ Sync \/ SyncFails
             \/ Assign
    BY <2>1, <2>8 DEF GitLabChange, Command, Settle, Crash, Sync, SyncFails,
                      Assign
  <2>9. CASE FetchReleases \/ AnnounceRelease \/ RecordRelease \/ EndReleases
             \/ DescriptionChanges \/ FetchMerges \/ AnnounceMerge \/ EndTick
             \/ PutOff
    BY <2>1, <2>9
    DEF FetchReleases, AnnounceRelease, RecordRelease, EndReleases,
        DescriptionChanges, NothingWatched, Watch, Seed, SameDescription,
        RecordRemoval, AnnounceEntries, ChatsLeave, RecordEntries, FetchMerges,
        AnnounceMerge, EndTick, PutOff
  <2>10. QED
    BY <2>2, <2>3, <2>4, <2>5, <2>6, <2>7, <2>8, <2>9
    DEF Next, Tick, NewReleases, Merges
<1>2. QED
  BY <1>1, Invariance, PTL DEF Spec, MergeTold
==============================================================================

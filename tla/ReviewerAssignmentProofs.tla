----------------------- MODULE ReviewerAssignmentProofs -----------------------
(***************************************************************************)
(* Theorems about ReviewerAssignment, for any users, labels and pools.     *)
(***************************************************************************)
EXTENDS ReviewerAssignment, FiniteSetTheorems, TLAPS

-----------------------------------------------------------------------------
(* The choice.                                                             *)

Offering(found) == {l \in Labels : found[l] # {}}

(* Choosing one user per label serves every label that offers somebody,    *)
(* chooses nobody else, and no more users than there are such labels.      *)
LEMMA OnePerGroupLemma ==
  ASSUME NEW found \in [Labels -> SUBSET People],
         NEW chosen \in OnePerGroup(found)
  PROVE  /\ chosen \subseteq Members(found)
         /\ \A l \in Labels : found[l] # {} => found[l] \cap chosen # {}
         /\ Cardinality(chosen) <= Cardinality(Offering(found))
<1>1. PICK choice \in Choices(found) :
        chosen = UNION {choice[l] : l \in Labels}
  BY DEF OnePerGroup, Members
<1>2. ASSUME NEW l \in Labels
      PROVE  /\ choice[l] \subseteq chosen
             /\ choice[l] \subseteq found[l]
             /\ choice[l] = {} \/ \E u : choice[l] = {u}
             /\ choice[l] = {} => Left(found, choice, l) = {}
  <2>1. choice[l] \subseteq chosen
    BY <1>1
  <2>2. IF Left(found, choice, l) = {}
          THEN choice[l] = {}
          ELSE \E u \in Left(found, choice, l) : choice[l] = {u}
    BY <1>1 DEF Choices
  <2>3. Left(found, choice, l) \subseteq found[l]
    BY DEF Left
  <2> QED
    BY <2>1, <2>2, <2>3
<1>3. chosen \subseteq Members(found)
  BY <1>1, <1>2 DEF Members
<1>4. ASSUME NEW l \in Labels, found[l] # {}
      PROVE  found[l] \cap chosen # {}
  <2>1. CASE choice[l] # {}
    BY <1>2, <2>1
  <2>2. CASE choice[l] = {}
    <3>1. found[l] \subseteq UNION {choice[k] : k \in {m \in Labels : m < l}}
      BY <1>2, <2>2 DEF Left
    <3>2. found[l] \subseteq chosen
      BY <1>1, <3>1
    <3> QED
      BY <1>4, <3>2
  <2> QED
    BY <2>1, <2>2
<1>5. Cardinality(chosen) <= Cardinality(Offering(found))
  <2> DEFINE Used == {l \in Labels : choice[l] # {}}
             f == [l \in Used |-> CHOOSE u : choice[l] = {u}]
  <2>1. ASSUME NEW l \in Used
        PROVE  choice[l] = {f[l]}
    <3>1. \E u : choice[l] = {u}
      BY <1>2
    <3> QED
      BY <3>1
  <2>2. f \in [Used -> chosen]
    BY <2>1, <1>2
  <2>3. \A u \in chosen : \E l \in Used : f[l] = u
    <3> SUFFICES ASSUME NEW u \in chosen
                 PROVE  \E l \in Used : f[l] = u
      OBVIOUS
    <3>1. PICK l \in Labels : u \in choice[l]
      BY <1>1
    <3> QED
      BY <2>1, <3>1
  <2>4. f \in Surjection(Used, chosen)
    BY <2>2, <2>3 DEF Surjection
  <2>5. Used \subseteq Offering(found)
    BY <1>2 DEF Offering
  <2>6. IsFiniteSet(Offering(found)) /\ IsFiniteSet(Used)
    BY <2>5, FS_Subset, AssignmentAssumption DEF Offering
  <2>7. /\ Cardinality(chosen) <= Cardinality(Used)
        /\ Cardinality(Used) <= Cardinality(Offering(found))
        /\ IsFiniteSet(chosen)
    BY <2>4, <2>5, <2>6, FS_Surjection, FS_Subset
  <2>8. /\ Cardinality(chosen) \in Nat
        /\ Cardinality(Used) \in Nat
        /\ Cardinality(Offering(found)) \in Nat
    BY <2>6, <2>7, FS_CardinalityType
  <2> QED
    BY <2>7, <2>8
<1> QED
  BY <1>3, <1>4, <1>5

(* Filling up takes from the pool as many as are wanted, or everyone.      *)
LEMMA PickFromLemma ==
  ASSUME NEW users, IsFiniteSet(users), NEW n \in Nat,
         NEW extra \in PickFrom(users, n)
  PROVE  /\ extra \subseteq users
         /\ Cardinality(extra) \in Nat /\ Cardinality(extra) <= n
         /\ Cardinality(extra) = n \/ extra = users
<1>1. Cardinality(users) \in Nat
  BY FS_CardinalityType
<1> QED
  BY <1>1 DEF PickFrom

-----------------------------------------------------------------------------
(* Type correctness.                                                       *)

(* Users are finitely many.                                                *)
LEMMA Finite ==
  ASSUME NEW users \in SUBSET People
  PROVE  IsFiniteSet(users) /\ Cardinality(users) \in Nat
BY FS_Subset, FS_CardinalityType, AssignmentAssumption

(* A finished round leaves well-typed variables.                           *)
LEMMA DoneTypes ==
  ASSUME Done
  PROVE  /\ pc' = "idle"
         /\ needed' \in 0 .. MaxCount
         /\ groups' \in [Labels -> SUBSET People]
         /\ others' \subseteq People /\ picked' \subseteq People
<1>1. NoGroups \in [Labels -> SUBSET People]
  BY DEF NoGroups
<1> QED
  BY <1>1, AssignmentAssumption DEF Done

(* The initial state is well typed.                                        *)
LEMMA InitTypeOK == Init => TypeOK
<1> SUFFICES ASSUME Init PROVE TypeOK
  OBVIOUS
<1>1. mr \in MRs /\ db \in MRs
  BY DEF Init, MRs
<1>2. NoGroups \in [Labels -> SUBSET People]
  BY DEF NoGroups
<1>3. settings \in Settings
  BY AssignmentAssumption DEF Init
<1>4. calm \in BOOLEAN
  BY DEF Init
<1>5. needed \in 0 .. MaxCount /\ changes \in 0 .. MaxChanges
  BY AssignmentAssumption DEF Init
<1> QED
  BY <1>1, <1>2, <1>3, <1>4, <1>5 DEF Init, TypeOK

(* A command or a user.                                                    *)
LEMMA ChangeTypes ==
  ASSUME TypeOK, Change
  PROVE  /\ mr' \in MRs
         /\ settings' \in Settings
         /\ vacation' \subseteq People
         /\ changes' \in 0 .. MaxChanges
<1> USE DEF TypeOK
<1>1. changes' \in 0 .. MaxChanges
  BY AssignmentAssumption DEF Change
<1>2. CASE Relabel
  BY <1>1, <1>2 DEF Relabel, MRs
<1>3. CASE ToggleHold
  BY <1>1, <1>3 DEF ToggleHold, MRs
<1>4. CASE AddReviewer
  BY <1>1, <1>4 DEF AddReviewer, MRs
<1>5. CASE RemoveReviewer
  BY <1>1, <1>5 DEF RemoveReviewer, MRs
<1>6. CASE SetAssignCount
  BY <1>1, <1>6 DEF SetAssignCount, Settings
<1>7. CASE SetReviewers
  BY <1>1, <1>7 DEF SetReviewers, Settings
<1>8. CASE SetLabelReviewers
  <2>1. PICK l \in Labels :
          \/ \E u \in People :
               settings' = [settings EXCEPT !.team[l] = @ \union {u}]
          \/ settings' = [settings EXCEPT
                            !.team[l] = {},
                            !.spent[l] = @ \union settings.team[l]]
    BY <1>8 DEF SetLabelReviewers
  <2>2. /\ settings.team \in [Labels -> SUBSET People]
        /\ settings.spent \in [Labels -> SUBSET People]
    BY DEF Settings
  <2>3. ASSUME NEW t \in SUBSET People, NEW s \in SUBSET People
        PROVE  /\ [settings.team EXCEPT ![l] = t]
                    \in [Labels -> SUBSET People]
               /\ [settings.spent EXCEPT ![l] = s]
                    \in [Labels -> SUBSET People]
    BY <2>2
  <2>4. settings' \in Settings
    <3>1. ASSUME NEW u \in People,
                 settings' = [settings EXCEPT !.team[l] = @ \union {u}]
          PROVE  settings' \in Settings
      <4>1. settings.team[l] \union {u} \in SUBSET People
        BY <2>2
      <4> QED
        BY <2>3, <3>1, <4>1 DEF Settings
    <3>2. CASE settings' = [settings EXCEPT
                              !.team[l] = {},
                              !.spent[l] = @ \union settings.team[l]]
      <4>1. settings.spent[l] \union settings.team[l] \in SUBSET People
        BY <2>2
      <4>2. settings' =
              [count |-> settings.count, pool |-> settings.pool,
               team |-> [settings.team EXCEPT ![l] = {}],
               spent |-> [settings.spent EXCEPT
                            ![l] = settings.spent[l] \union settings.team[l]]]
        BY <3>2 DEF Settings
      <4> QED
        BY <2>3, <4>1, <4>2 DEF Settings
    <3> QED
      BY <2>1, <3>1, <3>2
  <2> QED
    BY <1>1, <1>8, <2>4 DEF SetLabelReviewers
<1>9. CASE ToggleVacation
  BY <1>1, <1>9 DEF ToggleVacation
<1> QED
  BY <1>2, <1>3, <1>4, <1>5, <1>6, <1>7, <1>8, <1>9 DEF Change

(* The list written to GitLab.                                             *)
LEMMA UpdatedTypes ==
  ASSUME TypeOK
  PROVE  [mr EXCEPT !.reviewers = AllReviewers] \in MRs
BY DEF TypeOK, MRs, AllReviewers

(* Every step keeps the types.                                             *)
LEMMA NextTypeOK == TypeOK /\ [Next]_vars => TypeOK'
<1> SUFFICES ASSUME TypeOK, [Next]_vars PROVE TypeOK'
  OBVIOUS
<1> USE DEF TypeOK
<1>1. CASE Change
  BY <1>1, ChangeTypes DEF Change, round
<1>2. CASE Settle
  BY <1>2 DEF Settle, round
<1>3. CASE Poll
  BY <1>3 DEF Poll, gitlab, round
<1>4. CASE NothingToAssign
  BY <1>4, DoneTypes DEF NothingToAssign, gitlab
<1>5. CASE Consider
  <2>1. needed' \in 0 .. MaxCount
    <3>1. Cardinality(db.reviewers) \in Nat
      BY Finite DEF MRs
    <3>2. settings.count \in 1 .. MaxCount
      BY DEF Settings
    <3> QED
      BY <1>5, <3>1, <3>2, AssignmentAssumption DEF Consider, Lacks
  <2>2. groups' \in [Labels -> SUBSET People]
    BY <1>5 DEF Consider, NoGroups, Fit, Settings
  <2>3. picked' \subseteq People
    <3>1. picked' \subseteq Members(groups')
      BY <1>5, <2>2, OnePerGroupLemma DEF Consider
    <3> QED
      BY <2>2, <3>1 DEF Members
  <2> QED
    BY <1>5, <2>1, <2>2, <2>3 DEF Consider, gitlab
<1>6. CASE Fill
  <2>1. others' \subseteq People
    BY <1>6 DEF Fill, Fit, Settings
  <2> DEFINE pool == (Members(groups) \union others') \ picked
  <2>2. pool \subseteq People
    BY <2>1 DEF Members
  <2>3. Missing \in Nat
    BY Finite, AssignmentAssumption DEF Missing
  <2>4. PICK extra \in PickFrom(pool, Missing) :
          picked' = picked \union extra
    BY <1>6 DEF Fill
  <2>5. extra \subseteq People
    <3> HIDE DEF pool
    <3> QED
      BY <2>2, <2>3, <2>4, Finite, PickFromLemma
  <2> QED
    BY <1>6, <2>1, <2>4, <2>5 DEF Fill, gitlab
<1>7. CASE NobodyFound
  BY <1>7, DoneTypes DEF NobodyFound, gitlab
<1>8. CASE Update
  BY <1>8, UpdatedTypes DEF Update, round
<1>9. CASE UpdateFails
  BY <1>9, UpdatedTypes, DoneTypes DEF UpdateFails
<1>10. CASE Store
  <2>1. db' \in MRs
    BY <1>10 DEF Store, MRs
  <2> QED
    BY <1>10, <2>1, DoneTypes DEF Store, gitlab
<1>11. CASE Crash
  BY <1>11, DoneTypes DEF Crash, gitlab
<1>12. CASE UNCHANGED vars
  BY <1>12 DEF vars
<1> QED
  BY <1>1, <1>2, <1>3, <1>4, <1>5, <1>6, <1>7, <1>8, <1>9, <1>10, <1>11,
     <1>12 DEF Next, Tick

(* Every variable of the assignment keeps its type: in particular a round  *)
(* never looks for more reviewers than the assign count, nor picks or      *)
(* stores anyone but a user of GitLab.                                     *)
THEOREM TypeCorrect == Spec => []TypeOK
BY InitTypeOK, NextTypeOK, PTL DEF Spec

-----------------------------------------------------------------------------
(* The choice, step by step.  Between the labels and the default pool the  *)
(* choice is what OnePerGroupLemma says.                                   *)

Served == \A l \in Labels : groups[l] # {} => groups[l] \cap picked # {}

HalfWay ==
  pc = "fill" =>
    /\ picked \subseteq Members(groups)
    /\ Served
    /\ Cardinality(picked) <= Cardinality(Offering(groups))

AssignInv == TypeOK /\ HalfWay /\ GroupsServed /\ Filled /\ NotCrowded

(* A finished round has chosen nobody.                                     *)
LEMMA DoneInv ==
  ASSUME Done
  PROVE  HalfWay' /\ GroupsServed' /\ Filled' /\ NotCrowded'
<1>1. Cardinality(picked') <= needed'
  BY FS_EmptySet DEF Done
<1> QED
  BY <1>1 DEF Done, HalfWay, GroupsServed, Filled, NotCrowded

(* The picks for the labels establish HalfWay.                             *)
LEMMA ConsiderInv ==
  ASSUME TypeOK', Consider
  PROVE  HalfWay' /\ GroupsServed' /\ Filled' /\ NotCrowded'
<1>1. /\ picked' \subseteq Members(groups')
      /\ \A l \in Labels : groups'[l] # {} => groups'[l] \cap picked' # {}
      /\ Cardinality(picked') <= Cardinality(Offering(groups'))
  BY OnePerGroupLemma DEF TypeOK, Consider
<1>2. pc' = "fill"
  BY DEF Consider
<1> QED
  BY <1>1, <1>2
  DEF HalfWay, Served, GroupsServed, Filled, NotCrowded, Offering, Members

(* Filling up from the default pool completes the choice.                  *)
LEMMA FillInv ==
  ASSUME TypeOK, TypeOK', HalfWay, Fill
  PROVE  HalfWay' /\ GroupsServed' /\ Filled' /\ NotCrowded'
<1> DEFINE all == Members(groups) \union others'
           pool == all \ picked
<1>1. all \in SUBSET People
  BY DEF TypeOK, Members
<1>2. PICK extra \in PickFrom(pool, Missing) : picked' = picked \union extra
  BY DEF Fill
<1>3. /\ IsFiniteSet(pool)
      /\ IsFiniteSet(picked) /\ Cardinality(picked) \in Nat
      /\ needed \in Nat
  <2>1. pool \in SUBSET People /\ picked \in SUBSET People
    BY <1>1 DEF TypeOK
  <2> QED
    BY <2>1, Finite, AssignmentAssumption DEF TypeOK
<1>4. /\ Missing \in Nat
      /\ Cardinality(picked) < needed =>
           Missing + Cardinality(picked) = needed
      /\ ~ (Cardinality(picked) < needed) => Missing = 0
  BY <1>3 DEF Missing
<1>5. /\ extra \subseteq pool
      /\ Cardinality(extra) \in Nat /\ Cardinality(extra) <= Missing
      /\ Cardinality(extra) = Missing \/ extra = pool
  <2> HIDE DEF pool
  <2> QED
    BY <1>2, <1>3, <1>4, PickFromLemma
<1>6. /\ picked \subseteq Members(groups)
      /\ Served
      /\ Cardinality(picked) <= Cardinality(Offering(groups))
      /\ pc' = "chosen" /\ groups' = groups /\ needed' = needed
  BY DEF Fill, HalfWay
<1>7. Cardinality(picked') = Cardinality(picked) + Cardinality(extra)
  <2>1. IsFiniteSet(extra)
    BY <1>3, <1>5, FS_Subset
  <2>2. picked \cap extra = {}
    BY <1>5
  <2> QED
    BY <1>2, <1>3, <1>5, <2>1, <2>2, FS_Union, FS_EmptySet
<1>8. GroupsServed'
  BY <1>2, <1>6 DEF GroupsServed, Served
<1>9. Filled'
  <2>1. CASE Cardinality(extra) = Missing
    <3>1. Cardinality(picked') >= needed
      BY <1>3, <1>4, <1>7, <2>1
    <3> QED
      BY <1>6, <3>1 DEF Filled
  <2>2. CASE extra = pool
    <3>1. picked' = others' \union Members(groups)
      BY <1>2, <1>6, <2>2
    <3>2. Members(groups') = Members(groups)
      BY <1>6
    <3> QED
      BY <3>1, <3>2 DEF Filled
  <2> QED
    BY <1>5, <2>1, <2>2
<1>10. NotCrowded'
  <2>1. CASE Cardinality(picked) < needed
    <3>1. Cardinality(picked') <= needed
      BY <1>3, <1>4, <1>5, <1>7, <2>1
    <3> QED
      BY <1>6, <3>1 DEF NotCrowded
  <2>2. CASE ~ (Cardinality(picked) < needed)
    <3>1. Cardinality(picked') = Cardinality(picked)
      BY <1>3, <1>4, <1>5, <1>7, <2>2
    <3> QED
      BY <1>6, <3>1 DEF NotCrowded, Offering
  <2> QED
    BY <2>1, <2>2
<1> QED
  BY <1>6, <1>8, <1>9, <1>10 DEF HalfWay

(* The initial state satisfies the inductive invariant.                    *)
LEMMA InitInv == Init => AssignInv
<1> SUFFICES ASSUME Init PROVE AssignInv
  OBVIOUS
<1>1. Cardinality(picked) <= needed
  BY FS_EmptySet DEF Init
<1> QED
  BY <1>1, InitTypeOK
  DEF Init, AssignInv, HalfWay, GroupsServed, Filled, NotCrowded

(* Every step keeps the inductive invariant.                               *)
LEMMA NextInv == AssignInv /\ [Next]_vars => AssignInv'
<1> SUFFICES ASSUME AssignInv, [Next]_vars PROVE AssignInv'
  OBVIOUS
<1>1. TypeOK /\ TypeOK'
  BY NextTypeOK DEF AssignInv
<1>2. CASE Done
  BY <1>1, <1>2, DoneInv DEF AssignInv
<1>3. CASE Consider
  BY <1>1, <1>3, ConsiderInv DEF AssignInv
<1>4. CASE Fill
  BY <1>1, <1>4, FillInv DEF AssignInv
<1>5. ASSUME UNCHANGED round, pc' = pc \/ pc' = "assign"
      PROVE  AssignInv'
  BY <1>1, <1>5
  DEF AssignInv, round, HalfWay, Served, GroupsServed, Filled, NotCrowded,
      Members, Offering
<1>6. CASE Change \/ Settle \/ Poll \/ UNCHANGED vars
  BY <1>5, <1>6 DEF Change, Settle, Poll, vars, round
<1>7. CASE Update
  <2>1. pc = "chosen" /\ pc' = "store" /\ UNCHANGED round
    BY <1>7 DEF Update
  <2> QED
    BY <1>1, <2>1
    DEF AssignInv, round, HalfWay, GroupsServed, Filled, NotCrowded, Members
<1>8. CASE NothingToAssign \/ NobodyFound \/ UpdateFails \/ Store \/ Crash
  BY <1>2, <1>8 DEF NothingToAssign, NobodyFound, UpdateFails, Store, Crash
<1> QED
  BY <1>3, <1>4, <1>6, <1>7, <1>8 DEF Next, Tick

(* The inductive invariant holds in every reachable state.                 *)
LEMMA Invariance == Spec => []AssignInv
BY InitInv, NextInv, PTL DEF Spec

(* Every label that had a reviewer to offer has one of them chosen,        *)
(* however the groups of the labels overlap.                               *)
THEOREM LabelsServed == Spec => []GroupsServed
<1>1. AssignInv => GroupsServed
  BY DEF AssignInv
<1> QED
  BY <1>1, Invariance, PTL

(* The MR gets the reviewers it lacks, or everybody there is.              *)
THEOREM ChoiceFills == Spec => []Filled
<1>1. AssignInv => Filled
  BY DEF AssignInv
<1> QED
  BY <1>1, Invariance, PTL

(* It gets no more than it lacks or has labels with reviewers.             *)
THEOREM ChoiceIsModest == Spec => []NotCrowded
<1>1. AssignInv => NotCrowded
  BY DEF AssignInv
<1> QED
  BY <1>1, Invariance, PTL

(* The bot never takes off a reviewer whom both GitLab and the database    *)
(* know: only a user does.                                                 *)
LEMMA StayStep ==
  TypeOK /\ [Next]_vars =>
    \A u \in mr.reviewers \cap db.reviewers :
      u \notin mr'.reviewers => changes' # changes
<1> SUFFICES ASSUME TypeOK, [Next]_vars, changes' = changes,
                    NEW u \in mr.reviewers \cap db.reviewers
             PROVE  u \in mr'.reviewers
  OBVIOUS
<1>1. ~ Change
  BY AssignmentAssumption DEF TypeOK, Change
<1>2. ASSUME mr' = [mr EXCEPT !.reviewers = AllReviewers]
      PROVE  u \in mr'.reviewers
  BY <1>2 DEF TypeOK, MRs, AllReviewers
<1>3. CASE Update \/ UpdateFails
  BY <1>2, <1>3 DEF Update, UpdateFails
<1>4. CASE mr' = mr
  BY <1>4
<1> QED
  BY <1>1, <1>3, <1>4
  DEF Next, Tick, Settle, Poll, NothingToAssign, Consider, Fill, NobodyFound,
      Store, Crash, gitlab, vars

(* So whatever fails or crashes, a reviewer that GitLab and the database   *)
(* both know leaves the MR only by a user's hand.                          *)
THEOREM BotDropsNobody == Spec => KnownReviewersStay
<1>1. TypeOK /\ [Next]_vars =>
        [\A u \in mr.reviewers \cap db.reviewers :
           u \notin mr'.reviewers => changes' # changes]_vars
  BY StayStep
<1> QED
  BY <1>1, TypeCorrect, PTL DEF Spec, KnownReviewersStay
==============================================================================

--------------------------- MODULE AutoReleaseProofs --------------------------
(***************************************************************************)
(* For any size of a page and any number of merge requests, releases and   *)
(* changes, whatever fails and wherever the process dies: two releases are *)
(* open only after a failed look was read as "none", and no tick that      *)
(* knows the label of feature releases moves one.                          *)
(***************************************************************************)
EXTENDS AutoRelease, FiniteSetTheorems, SequenceTheorems, TLAPS

GitLabOK ==
  /\ mrs \in Seq(MRs) /\ Len(mrs) <= MaxMRs
  /\ releases \in Seq(Releases) /\ Len(releases) <= MaxReleases
  /\ branches \subseteq DOMAIN releases

(* A listing may be old, but what makes a merge request a feature release  *)
(* does not change.                                                        *)
ListedOK == \A x \in todo : x.mr.feature = mrs[x.id].feature

(* A release is made only when the tick has found none, or has misread the *)
(* answer.                                                                 *)
ReleaseOK ==
  ~ misread =>
    /\ \A b, c \in OpenReleases : b = c
    /\ pc \in {"branch", "mr"} => OpenReleases = {}

(* There is a feature release only if their label is configured.           *)
LabelOK == \A i \in DOMAIN mrs : mrs[i].feature => "feature" \in labels

IInv ==
  /\ TypeOK
  /\ GitLabOK
  /\ ListedOK
  /\ ReleaseOK
  /\ LabelOK

(* What a step does to the tables in GitLab: nothing goes away, and an MR  *)
(* keeps its kind.                                                         *)
Grows ==
  /\ GitLabOK'
  /\ Len(mrs) <= Len(mrs') /\ Len(releases) <= Len(releases')
  /\ \A i \in DOMAIN mrs : mrs'[i].feature = mrs[i].feature

(* Only the creation of its MR opens a release.                            *)
OpensOwn ==
  \/ OpenReleases' \subseteq OpenReleases
  \/ /\ pc = "mr" /\ pc' \in {"labels", "describe"}
     /\ OpenReleases' \subseteq OpenReleases \union {current}

(* A feature release moves only if the tick does not know its label.       *)
FeaturesKept ==
  "feature" \in names =>
    \A i \in DOMAIN mrs : mrs[i].feature => mrs'[i].target = mrs[i].target

Safe ==
  /\ Grows
  /\ FeaturesKept
  /\ LabelOK'
  /\ OpensOwn

-----------------------------------------------------------------------------
(* The parts of the type invariant.                                        *)

SmallOK ==
  /\ config \in {"none", "on", "cleared"}
  /\ labels \subseteq Labels /\ names \subseteq Labels
  /\ more \in BOOLEAN /\ calm \in BOOLEAN /\ misread \in BOOLEAN
  /\ pc \in Steps
  /\ page \in Nat \ {0} /\ changes \in Nat

TodoOK == todo \subseteq [id : DOMAIN mrs, mr : MRs]

CacheOK == gone \subseteq Branches /\ there \subseteq Branches

CurrentOK ==
  /\ current \in 0 .. Len(releases)
  /\ pc \in {"mr", "labels", "moves", "move"} => current # 0

-----------------------------------------------------------------------------
(* Tables.                                                                 *)

(* The tables have the numbers 1 to their length.                          *)
LEMMA Tables ==
  ASSUME GitLabOK
  PROVE  /\ Len(mrs) \in Nat /\ DOMAIN mrs = 1 .. Len(mrs)
         /\ \A i \in DOMAIN mrs : mrs[i] \in MRs
         /\ Len(releases) \in Nat /\ DOMAIN releases = 1 .. Len(releases)
         /\ \A b \in DOMAIN releases : releases[b] \in Releases
         /\ DOMAIN mrs \subseteq 1 .. MaxMRs
         /\ 0 .. Len(releases) \subseteq Branches
<1>1. /\ Len(mrs) \in Nat /\ DOMAIN mrs = 1 .. Len(mrs)
      /\ Len(releases) \in Nat /\ DOMAIN releases = 1 .. Len(releases)
  BY LenProperties DEF GitLabOK
<1>2. /\ \A i \in 1 .. Len(mrs) : mrs[i] \in MRs
      /\ \A b \in 1 .. Len(releases) : releases[b] \in Releases
  BY ElementOfSeq DEF GitLabOK
<1>3. 1 .. Len(mrs) \subseteq 1 .. MaxMRs
  BY <1>1, AutoReleaseAssumption DEF GitLabOK
<1>4. 0 .. Len(releases) \subseteq Branches
  BY <1>1, AutoReleaseAssumption DEF GitLabOK, Branches
<1>5. QED
  BY <1>1, <1>2, <1>3, <1>4

(* An MR that is replaced by one of its kind.                              *)
LEMMA ReplaceMR ==
  ASSUME GitLabOK, NEW i \in DOMAIN mrs, NEW m \in MRs,
         m.feature = mrs[i].feature, mrs' = [mrs EXCEPT ![i] = m],
         UNCHANGED <<releases, branches>>
  PROVE  /\ Grows
         /\ \A j \in DOMAIN mrs' : mrs'[j] = IF j = i THEN m ELSE mrs[j]
         /\ DOMAIN mrs' = DOMAIN mrs
<1>1. i \in 1 .. Len(mrs) /\ Len(mrs) \in Nat /\ DOMAIN mrs = 1 .. Len(mrs)
  BY Tables
<1>2. /\ mrs' \in Seq(MRs) /\ Len(mrs') = Len(mrs)
      /\ \A j \in 1 .. Len(mrs) : mrs'[j] = IF j = i THEN m ELSE mrs[j]
  BY <1>1, ExceptSeq DEF GitLabOK
<1>3. DOMAIN mrs' = DOMAIN mrs
  BY <1>1, <1>2, LenProperties
<1>4. Len(releases') = Len(releases) /\ Len(releases) <= Len(releases')
  BY Tables
<1>5. QED
  BY <1>1, <1>2, <1>3, <1>4 DEF Grows, GitLabOK

(* A new MR.                                                               *)
LEMMA AppendMR ==
  ASSUME GitLabOK, NEW m \in MRs, Len(mrs) < MaxMRs,
         mrs' = Append(mrs, m), UNCHANGED <<releases, branches>>
  PROVE  /\ Grows
         /\ \A j \in DOMAIN mrs' : \/ mrs'[j] = m
                                 \/ /\ j \in DOMAIN mrs
                                    /\ mrs'[j] = mrs[j]
         /\ \A j \in DOMAIN mrs : mrs'[j] = mrs[j]
<1>1. Len(mrs) \in Nat /\ DOMAIN mrs = 1 .. Len(mrs)
  BY Tables
<1>2. /\ mrs' \in Seq(MRs) /\ Len(mrs') = Len(mrs) + 1
      /\ \A j \in 1 .. Len(mrs) : mrs'[j] = mrs[j]
      /\ mrs'[Len(mrs) + 1] = m
  BY AppendProperties DEF GitLabOK
<1>3. DOMAIN mrs' = 1 .. Len(mrs) + 1
  BY <1>2, LenProperties
<1>4. Len(mrs') <= MaxMRs /\ Len(mrs) <= Len(mrs')
  BY <1>1, <1>2, AutoReleaseAssumption
<1>5. Len(releases') = Len(releases) /\ Len(releases) <= Len(releases')
  BY Tables
<1>6. \A j \in DOMAIN mrs' : j = Len(mrs) + 1 \/ j \in DOMAIN mrs
  BY <1>1, <1>3
<1>7. QED
  BY <1>1, <1>2, <1>4, <1>5, <1>6 DEF Grows, GitLabOK

(* A release whose row is replaced, and branches that go away.             *)
LEMMA ReplaceRelease ==
  ASSUME GitLabOK, NEW b \in DOMAIN releases, NEW r \in Releases,
         releases' = [releases EXCEPT ![b] = r], UNCHANGED mrs,
         branches' \subseteq branches
  PROVE  /\ Grows
         /\ DOMAIN releases' = DOMAIN releases
         /\ \A c \in DOMAIN releases :
              releases'[c] = IF c = b THEN r ELSE releases[c]
<1>1. /\ b \in 1 .. Len(releases) /\ Len(releases) \in Nat
      /\ DOMAIN releases = 1 .. Len(releases) /\ Len(mrs) \in Nat
  BY Tables
<1>2. /\ releases' \in Seq(Releases) /\ Len(releases') = Len(releases)
      /\ \A c \in 1 .. Len(releases) :
           releases'[c] = IF c = b THEN r ELSE releases[c]
  BY <1>1, ExceptSeq DEF GitLabOK
<1>3. DOMAIN releases' = DOMAIN releases
  BY <1>1, <1>2, LenProperties
<1>4. QED
  BY <1>1, <1>2, <1>3 DEF Grows, GitLabOK

(* A new branch, without an MR.                                            *)
LEMMA AppendRelease ==
  ASSUME GitLabOK, NEW r \in Releases, Len(releases) < MaxReleases,
         releases' = Append(releases, r), UNCHANGED mrs,
         branches' = branches \union {Len(releases) + 1}
  PROVE  /\ Grows
         /\ Len(releases') = Len(releases) + 1
         /\ DOMAIN releases' = DOMAIN releases \union {Len(releases) + 1}
         /\ \A c \in DOMAIN releases : releases'[c] = releases[c]
         /\ releases'[Len(releases) + 1] = r
<1>1. /\ Len(releases) \in Nat /\ DOMAIN releases = 1 .. Len(releases)
      /\ Len(mrs) \in Nat
  BY Tables
<1>2. /\ releases' \in Seq(Releases) /\ Len(releases') = Len(releases) + 1
      /\ \A c \in 1 .. Len(releases) : releases'[c] = releases[c]
      /\ releases'[Len(releases) + 1] = r
  BY AppendProperties DEF GitLabOK
<1>3. DOMAIN releases' = 1 .. Len(releases) + 1
  BY <1>2, LenProperties
<1>4. 1 .. Len(releases) + 1 = 1 .. Len(releases) \union {Len(releases) + 1}
  BY <1>1
<1>5. Len(releases') <= MaxReleases /\ Len(releases) <= Len(releases')
  BY <1>1, <1>2, AutoReleaseAssumption
<1>6. branches' \subseteq DOMAIN releases'
  BY <1>1, <1>3, <1>4 DEF GitLabOK
<1>7. QED
  BY <1>1, <1>2, <1>3, <1>4, <1>5, <1>6 DEF Grows, GitLabOK

(* Nothing changes, or branches go away.                                   *)
LEMMA SameTables ==
  ASSUME GitLabOK, UNCHANGED <<mrs, releases>>, branches' \subseteq branches
  PROVE  Grows
<1>1. Len(mrs) \in Nat /\ Len(releases) \in Nat
  BY Tables
<1>2. QED
  BY <1>1 DEF Grows, GitLabOK

-----------------------------------------------------------------------------
(* The steps that change GitLab.                                           *)

(* Nothing changes, or branches go away.                                   *)
LEMMA QuietSafe ==
  ASSUME IInv, UNCHANGED <<mrs, releases>>, branches' \subseteq branches,
         labels \subseteq labels'
  PROVE  Safe
<1>1. Grows
  BY SameTables DEF IInv
<1>2. FeaturesKept /\ LabelOK'
  BY DEF IInv, FeaturesKept, LabelOK
<1>3. OpensOwn
  BY DEF OpensOwn, OpenReleases
<1>4. QED
  BY <1>1, <1>2, <1>3 DEF Safe

(* An MR moves or changes; a feature release whose label the tick knows    *)
(* stays where it is.                                                      *)
LEMMA ReplaceSafe ==
  ASSUME IInv, NEW i \in DOMAIN mrs, NEW m \in MRs,
         m.feature = mrs[i].feature,
         m.feature /\ "feature" \in names => m.target = mrs[i].target,
         mrs' = [mrs EXCEPT ![i] = m], UNCHANGED <<releases, branches, labels>>
  PROVE  Safe
<1>1. /\ Grows
      /\ \A j \in DOMAIN mrs' : mrs'[j] = IF j = i THEN m ELSE mrs[j]
      /\ DOMAIN mrs' = DOMAIN mrs
  BY ReplaceMR DEF IInv
<1>2. FeaturesKept /\ LabelOK'
  BY <1>1 DEF IInv, FeaturesKept, LabelOK
<1>3. OpensOwn
  BY DEF OpensOwn, OpenReleases
<1>4. QED
  BY <1>1, <1>2, <1>3 DEF Safe

(* A new MR; that of a feature release has a label that is configured.     *)
LEMMA AppendSafe ==
  ASSUME IInv, NEW b \in Branches, NEW f \in BOOLEAN,
         f => "feature" \in labels,
         NewMR(b, f), UNCHANGED <<releases, branches, labels>>
  PROVE  Safe
<1> DEFINE m == [state |-> "opened", target |-> b, blocked |-> FALSE,
                 feature |-> f]
<1>1. m \in MRs /\ (m.feature => "feature" \in labels)
  BY DEF MRs
<1>2. Len(mrs) < MaxMRs /\ mrs' = Append(mrs, m)
  BY DEF NewMR
<1> HIDE DEF m
<1>3. /\ Grows
      /\ \A j \in DOMAIN mrs' : \/ mrs'[j] = m
                               \/ /\ j \in DOMAIN mrs
                                  /\ mrs'[j] = mrs[j]
      /\ \A j \in DOMAIN mrs : mrs'[j] = mrs[j]
  BY <1>1, <1>2, AppendMR DEF IInv
<1>4. FeaturesKept /\ LabelOK'
  BY <1>1, <1>3 DEF IInv, FeaturesKept, LabelOK
<1>5. OpensOwn
  BY DEF OpensOwn, OpenReleases
<1>6. QED
  BY <1>3, <1>4, <1>5 DEF Safe

(* The row of a release changes.                                           *)
LEMMA ReleaseSafe ==
  ASSUME IInv, NEW b \in DOMAIN releases, NEW r \in Releases,
         \/ r.state = "opened" => releases[b].state = "opened"
         \/ b = current /\ pc = "mr" /\ pc' \in {"labels", "describe"},
         releases' = [releases EXCEPT ![b] = r], UNCHANGED <<mrs, labels>>,
         branches' \subseteq branches
  PROVE  Safe
<1>1. /\ Grows
      /\ DOMAIN releases' = DOMAIN releases
      /\ \A c \in DOMAIN releases :
           releases'[c] = IF c = b THEN r ELSE releases[c]
  BY ReplaceRelease DEF IInv
<1>2. FeaturesKept /\ LabelOK'
  BY DEF IInv, FeaturesKept, LabelOK
<1>3. OpensOwn
  BY <1>1 DEF OpensOwn, OpenReleases
<1>4. QED
  BY <1>1, <1>2, <1>3 DEF Safe

(* A call that moves an MR.                                                *)
LEMMA SetTargetSafe ==
  ASSUME IInv, NEW i \in DOMAIN mrs, NEW b \in Branches,
         mrs[i].feature => "feature" \notin names,
         SetTarget(i, b), UNCHANGED <<releases, branches, labels>>
  PROVE  Safe
<1>1. mrs[i] \in MRs
  BY Tables DEF IInv
<1>2. CASE ~ Opened(i)
  BY <1>2, QuietSafe DEF SetTarget
<1>3. CASE Opened(i)
  <2> DEFINE m == [mrs[i] EXCEPT !.target = b]
  <2>1. /\ m \in MRs /\ m.feature = mrs[i].feature
    BY <1>1 DEF MRs
  <2>2. mrs' = [mrs EXCEPT ![i] = m]
    BY <1>3 DEF SetTarget
  <2> HIDE DEF m
  <2>3. QED
    BY <2>1, <2>2, ReplaceSafe
<1>4. QED
  BY <1>2, <1>3

(* The changes of users and chats are safe.                                *)
LEMMA ChangeSafe ==
  ASSUME IInv, Change
  PROVE  Safe
<1>1. CASE OpenMR
  <2>1. PICK b \in Branches : NewMR(b, FALSE)
    BY <1>1 DEF OpenMR
  <2>2. UNCHANGED <<releases, branches, labels>>
    BY <1>1 DEF OpenMR, settings
  <2>3. QED
    BY <2>1, <2>2, AppendSafe
<1>2. CASE ToggleBlock
  <2>1. PICK i \in DOMAIN mrs : mrs' = [mrs EXCEPT ![i].blocked = ~ @]
    BY <1>2 DEF ToggleBlock
  <2>2. mrs[i] \in MRs
    BY Tables DEF IInv
  <2> DEFINE m == [mrs[i] EXCEPT !.blocked = ~ @]
  <2>3. \A f \in BOOLEAN :
          LET n == [mrs[i] EXCEPT !.blocked = f]
          IN  /\ n \in MRs /\ n.feature = mrs[i].feature
              /\ n.target = mrs[i].target
    BY <2>2 DEF MRs
  <2>4. (~ mrs[i].blocked) \in BOOLEAN
    OBVIOUS
  <2>5. /\ m \in MRs /\ m.feature = mrs[i].feature
        /\ m.target = mrs[i].target
    BY <2>3, <2>4, Zenon
  <2>6. mrs' = [mrs EXCEPT ![i] = m]
    BY <2>1, Zenon
  <2>7. UNCHANGED <<releases, branches, labels>>
    BY <1>2, Zenon DEF ToggleBlock, settings
  <2> HIDE DEF m
  <2>8. QED
    BY <2>2, <2>5, <2>6, <2>7, ReplaceSafe
<1>3. CASE MoveMR
  <2>1. PICK i \in DOMAIN mrs, b \in Branches :
          /\ ~ mrs[i].feature
          /\ mrs' = [mrs EXCEPT ![i].target = b]
    BY <1>3 DEF MoveMR
  <2>2. mrs[i] \in MRs
    BY Tables DEF IInv
  <2> DEFINE m == [mrs[i] EXCEPT !.target = b]
  <2>3. m \in MRs /\ m.feature = mrs[i].feature
    BY <2>2 DEF MRs
  <2>4. mrs' = [mrs EXCEPT ![i] = m]
    BY <2>1
  <2>5. UNCHANGED <<releases, branches, labels>>
    BY <1>3 DEF MoveMR, settings
  <2> HIDE DEF m
  <2>6. QED
    BY <2>1, <2>3, <2>4, <2>5, ReplaceSafe
<1>4. CASE MergeMR
  <2>1. PICK i \in DOMAIN mrs :
          /\ mrs' = [mrs EXCEPT ![i].state = "merged"]
          /\ releases' = [b \in DOMAIN releases |->
                IF b = mrs[i].target
                  THEN [releases[b] EXCEPT !.merged = @ \union {i}]
                  ELSE releases[b]]
          /\ UNCHANGED <<branches, labels>>
    BY <1>4 DEF MergeMR, settings
  <2>2. /\ mrs[i] \in MRs /\ i \in 1 .. MaxMRs /\ i \in 1 .. Len(mrs)
        /\ Len(mrs) \in Nat /\ Len(releases) \in Nat
        /\ DOMAIN releases = 1 .. Len(releases)
        /\ DOMAIN mrs = 1 .. Len(mrs)
    BY Tables DEF IInv
  <2> DEFINE m == [mrs[i] EXCEPT !.state = "merged"]
  <2>3. m \in MRs /\ m.feature = mrs[i].feature /\ m.target = mrs[i].target
    BY <2>2 DEF MRs
  <2>4. mrs' = [mrs EXCEPT ![i] = m]
    BY <2>1
  <2> HIDE DEF m
  <2>5. /\ mrs' \in Seq(MRs) /\ Len(mrs') = Len(mrs)
        /\ \A j \in 1 .. Len(mrs) : mrs'[j] = IF j = i THEN m ELSE mrs[j]
    BY <2>2, <2>3, <2>4, ExceptSeq DEF IInv, GitLabOK
  <2>6. DOMAIN mrs' = DOMAIN mrs
    BY <2>2, <2>5, LenProperties
  <2>7. \A b \in DOMAIN releases :
          releases'[b] \in Releases /\ releases'[b].state = releases[b].state
    <3>1. TAKE b \in DOMAIN releases
    <3>2. releases[b] \in Releases
      BY Tables DEF IInv
    <3>3. QED
      BY <2>1, <2>2, <3>2 DEF Releases
  <2>8. DOMAIN releases' = DOMAIN releases
    BY <2>1
  <2>9. releases' \in [1 .. Len(releases) -> Releases]
    BY <2>1, <2>2, <2>7
  <2>10. releases' \in Seq(Releases)
    BY <2>2, <2>9, SeqDef
  <2>11. Len(releases') = Len(releases)
    BY <2>2, <2>8, <2>10, LenProperties
  <2>12. Grows
    <3>1. /\ Len(mrs) <= MaxMRs /\ Len(releases) <= MaxReleases
          /\ branches \subseteq DOMAIN releases
      BY DEF IInv, GitLabOK
    <3>2. GitLabOK'
      BY <2>1, <2>5, <2>8, <2>10, <2>11, <3>1 DEF GitLabOK
    <3>3. \A j \in DOMAIN mrs : mrs'[j].feature = mrs[j].feature
      BY <2>2, <2>3, <2>5
    <3>4. Len(mrs) <= Len(mrs') /\ Len(releases) <= Len(releases')
      BY <2>2, <2>5, <2>11
    <3>5. QED
      BY <3>2, <3>3, <3>4 DEF Grows
  <2>13. FeaturesKept /\ LabelOK'
    BY <2>1, <2>2, <2>3, <2>5, <2>6 DEF IInv, FeaturesKept, LabelOK
  <2>14. OpensOwn
    BY <2>7, <2>8 DEF OpensOwn, OpenReleases
  <2>15. QED
    BY <2>12, <2>13, <2>14 DEF Safe
<1>5. CASE EndRelease
  <2>1. PICK b \in OpenReleases, s \in {"merged", "closed"} :
          /\ releases' = [releases EXCEPT ![b].state = s]
          /\ branches' \subseteq branches
    BY <1>5 DEF EndRelease
  <2>2. b \in DOMAIN releases /\ releases[b] \in Releases
    BY Tables DEF OpenReleases, IInv
  <2> DEFINE r == [releases[b] EXCEPT !.state = s]
  <2>3. r \in Releases /\ r.state # "opened"
    BY <2>2 DEF Releases
  <2>4. releases' = [releases EXCEPT ![b] = r]
    BY <2>1
  <2>5. UNCHANGED <<mrs, labels>>
    BY <1>5 DEF EndRelease, settings
  <2> HIDE DEF r
  <2>6. QED
    BY <2>1, <2>2, <2>3, <2>4, <2>5, ReleaseSafe
<1>6. CASE DeleteBranch
  BY <1>6, QuietSafe DEF DeleteBranch, settings
<1>7. CASE Configure \/ ConfigureLabels
  BY <1>7, QuietSafe DEF Configure, ConfigureLabels
<1>8. CASE SpawnBranch
  <2>1. /\ NewMR(0, TRUE) /\ UNCHANGED <<releases, branches, labels>>
        /\ "feature" \in labels
    BY <1>8 DEF SpawnBranch, settings
  <2>2. 0 \in Branches
    BY AutoReleaseAssumption DEF Branches
  <2>3. QED
    BY <2>1, <2>2, AppendSafe
<1>9. QED
  BY <1>1, <1>2, <1>3, <1>4, <1>5, <1>6, <1>7, <1>8 DEF Change

(* The calls of a tick are safe.                                           *)
LEMMA CallSafe ==
  ASSUME IInv,
         \/ MoveOrphan \/ Move \/ CreateBranch \/ CreateMR \/ CreateMRFails
         \/ Describe
  PROVE  Safe
<1>0. /\ 0 .. Len(releases) \subseteq Branches /\ Len(releases) \in Nat
      /\ DOMAIN releases = 1 .. Len(releases)
      /\ \A x \in todo : x.id \in DOMAIN mrs
  BY Tables DEF IInv, TypeOK
<1>1. CASE MoveOrphan
  <2>1. PICK x \in todo :
          Rescuable(x) /\ (SetTarget(x.id, 0) \/ UNCHANGED mrs)
    BY <1>1 DEF MoveOrphan
  <2>2. UNCHANGED <<releases, branches, labels>>
    BY <1>1 DEF MoveOrphan, settings
  <2>3. /\ 0 \in Branches /\ x.id \in DOMAIN mrs
        /\ mrs[x.id].feature => "feature" \notin names
    BY <1>0, <2>1 DEF IInv, ListedOK, Rescuable, Feature
  <2>4. QED
    BY <2>1, <2>2, <2>3, SetTargetSafe, QuietSafe
<1>2. CASE Move
  <2>1. PICK x \in todo :
          Movable(x) /\ (SetTarget(x.id, current) \/ UNCHANGED mrs)
    BY <1>2 DEF Move
  <2>2. UNCHANGED <<releases, branches, labels>>
    BY <1>2 DEF Move, settings
  <2>3. /\ current \in Branches /\ x.id \in DOMAIN mrs
        /\ mrs[x.id].feature => "feature" \notin names
    BY <1>0, <2>1 DEF IInv, TypeOK, ListedOK, Movable, Feature
  <2>4. QED
    BY <2>1, <2>2, <2>3, SetTargetSafe, QuietSafe
<1>3. CASE CreateBranch
  <2> DEFINE r == [state |-> "branch", merged |-> {}, listed |-> {}]
  <2>1. r \in Releases /\ r.state # "opened"
    BY DEF Releases
  <2>2. /\ Len(releases) < MaxReleases /\ releases' = Append(releases, r)
        /\ branches' = branches \union {Len(releases) + 1}
        /\ UNCHANGED <<mrs, labels>>
    BY <1>3 DEF CreateBranch, settings
  <2> HIDE DEF r
  <2>3. /\ Grows
        /\ DOMAIN releases' = DOMAIN releases \union {Len(releases) + 1}
        /\ \A c \in DOMAIN releases : releases'[c] = releases[c]
        /\ releases'[Len(releases) + 1] = r
    BY <2>1, <2>2, AppendRelease DEF IInv
  <2>4. FeaturesKept /\ LabelOK'
    BY <2>2 DEF IInv, FeaturesKept, LabelOK
  <2>5. OpensOwn
    BY <2>1, <2>3 DEF OpensOwn, OpenReleases
  <2>6. QED
    BY <2>3, <2>4, <2>5 DEF Safe
<1>4. CASE CreateMR \/ CreateMRFails
  <2>1. /\ pc = "mr" /\ pc' \in {"labels", "describe"}
        /\ UNCHANGED <<mrs, branches, labels>>
        /\ \/ UNCHANGED releases
           \/ releases' = [releases EXCEPT ![current].state = "opened"]
    BY <1>4 DEF CreateMR, CreateMRFails, CreatedOrNot, settings
  <2>2. CASE UNCHANGED releases
    BY <2>1, <2>2, QuietSafe
  <2>3. CASE releases' = [releases EXCEPT ![current].state = "opened"]
    <3>1. current \in DOMAIN releases /\ releases[current] \in Releases
      BY <1>0, <2>1, Tables DEF IInv, TypeOK
    <3> DEFINE r == [releases[current] EXCEPT !.state = "opened"]
    <3>2. r \in Releases
      BY <3>1 DEF Releases
    <3>3. releases' = [releases EXCEPT ![current] = r]
      BY <2>3
    <3> HIDE DEF r
    <3>4. QED
      BY <2>1, <3>1, <3>2, <3>3, ReleaseSafe
  <2>4. QED
    BY <2>1, <2>2, <2>3
<1>5. CASE Describe
  <2>1. PICK b \in Newest(OpenReleases) : \E S \in SUBSET releases[b].merged :
          releases' = [releases EXCEPT ![b].listed = @ \union S]
    BY <1>5 DEF Describe
  <2>0. PICK S \in SUBSET releases[b].merged :
          releases' = [releases EXCEPT ![b].listed = @ \union S]
    BY <2>1
  <2>2. b \in DOMAIN releases /\ releases[b] \in Releases
    BY Tables DEF Newest, OpenReleases, IInv
  <2> DEFINE r == [releases[b] EXCEPT !.listed = @ \union S]
  <2>3. r \in Releases /\ r.state = releases[b].state
    BY <2>2 DEF Releases
  <2>4. releases' = [releases EXCEPT ![b] = r]
    BY <2>0
  <2>5. UNCHANGED <<mrs, branches, labels>>
    BY <1>5 DEF Describe, settings
  <2> HIDE DEF r
  <2>6. QED
    BY <2>2, <2>3, <2>4, <2>5, ReleaseSafe
<1>6. QED
  BY <1>1, <1>2, <1>3, <1>4, <1>5

(* Every step is safe.                                                     *)
LEMMA StepSafe ==
  ASSUME IInv, [Next]_vars
  PROVE  Safe
<1>1. CASE Change
  BY <1>1, ChangeSafe
<1>2. CASE \/ MoveOrphan \/ Move \/ CreateBranch \/ CreateMR \/ CreateMRFails
           \/ Describe
  BY <1>2, CallSafe
<1>3. CASE ~ Change /\ ~ (\/ MoveOrphan \/ Move \/ CreateBranch \/ CreateMR
                           \/ CreateMRFails \/ Describe)
  <2>1. UNCHANGED <<mrs, releases, branches, labels>>
    BY <1>3 DEF Next, Tick, Orphans, Release, Moves, vars, gitlab, settings,
                Settle, Crash, ReadBlockLabels, StartTick, NotConfigured,
                OrphanPage, OrphanPageFails,
                LookUp, SkipOrphan, EndOrphanPage, FindRelease, FindNone,
                FindFails, CreateBranchFails, MovePage, MovePageFails,
                SkipMove, EndMovePage, NothingToDescribe, EndPage,
                ListingFails
  <2>2. QED
    BY <2>1, QuietSafe
<1>4. QED
  BY <1>1, <1>2, <1>3

-----------------------------------------------------------------------------
(* The steps of the tick.                                                  *)

(* The type invariant in parts.                                            *)
LEMMA TypeParts ==
  /\ TypeOK => SmallOK /\ TodoOK /\ CacheOK /\ CurrentOK
  /\ GitLabOK /\ SmallOK /\ TodoOK /\ CacheOK /\ CurrentOK => TypeOK
BY DEF TypeOK, GitLabOK, SmallOK, TodoOK, CacheOK, CurrentOK

(* What is left of a page is as it was listed, and so is a new page.       *)
LEMMA KeptTodo ==
  ASSUME IInv, Grows, todo' \subseteq todo
  PROVE  TodoOK' /\ ListedOK'
<1>1. DOMAIN mrs \subseteq DOMAIN mrs'
  <2>1. Len(mrs) \in Nat /\ DOMAIN mrs = 1 .. Len(mrs)
    BY Tables DEF IInv
  <2>2. Len(mrs') \in Nat /\ DOMAIN mrs' = 1 .. Len(mrs')
    BY LenProperties DEF Grows, GitLabOK
  <2>3. QED
    BY <2>1, <2>2 DEF Grows
<1>2. TodoOK
  BY TypeParts DEF IInv
<1>3. TodoOK'
  BY <1>1, <1>2 DEF TodoOK
<1>4. ListedOK'
  BY <1>2 DEF TodoOK, ListedOK, IInv, Grows
<1>5. QED
  BY <1>3, <1>4

(* A page that is fetched shows the MRs as they are.                       *)
LEMMA FetchedTodo ==
  ASSUME IInv, UNCHANGED mrs, NEW S \in SUBSET DOMAIN mrs, FetchPage(S)
  PROVE  TodoOK' /\ ListedOK'
<1>1. todo' = {Listed(i) : i \in PageOf(S)} /\ PageOf(S) \subseteq DOMAIN mrs
  BY DEF FetchPage, PageOf
<1>2. \A i \in DOMAIN mrs : mrs[i] \in MRs
  BY Tables DEF IInv
<1>3. QED
  BY <1>1, <1>2 DEF Listed, TodoOK, ListedOK

(* There is a page after a page or not.                                    *)
LEMMA FetchedMore ==
  ASSUME NEW S, FetchPage(S)
  PROVE  more' \in BOOLEAN
<1>1. more' = (Cardinality(S) > page * PageSize)
  BY Zenon DEF FetchPage
<1>2. (Cardinality(S) > page * PageSize) \in BOOLEAN
  OBVIOUS
<1>3. QED
  BY <1>1, <1>2, Zenon

(* Every step keeps the page.                                              *)
LEMMA TodoStep ==
  ASSUME IInv, [Next]_vars
  PROVE  TodoOK' /\ ListedOK'
<1>1. Grows
  BY StepSafe DEF Safe
<1>2. CASE OrphanPage
  <2>1. /\ FetchPage({i \in DOMAIN mrs : Opened(i)}) /\ UNCHANGED mrs
        /\ {i \in DOMAIN mrs : Opened(i)} \in SUBSET DOMAIN mrs
    BY <1>2 DEF OrphanPage, gitlab
  <2>2. QED
    BY <2>1, FetchedTodo
<1>3. CASE MovePage
  <2>1. /\ FetchPage({i \in DOMAIN mrs : Opened(i) /\ mrs[i].target = 0})
        /\ {i \in DOMAIN mrs : Opened(i) /\ mrs[i].target = 0}
             \in SUBSET DOMAIN mrs
        /\ UNCHANGED mrs
    BY <1>3 DEF MovePage, gitlab
  <2>2. QED
    BY <2>1, FetchedTodo
<1>4. CASE ~ OrphanPage /\ ~ MovePage
  <2>1. todo' \subseteq todo
    BY <1>4 DEF Next, Tick, Orphans, Release, Moves, vars, tick, listing,
                Handled, Change, Settle, Crash, StartTick, NotConfigured,
                OrphanPageFails, LookUp, SkipOrphan, MoveOrphan,
                EndOrphanPage, FindRelease, FindNone, FindFails,
                CreateBranch, CreateBranchFails, CreateMR, CreateMRFails,
                MovePageFails, SkipMove, Move, EndMovePage, Describe,
                NothingToDescribe, EndPage, ListingFails, ReadBlockLabels
  <2>2. QED
    BY <1>1, <2>1, KeptTodo
<1>5. QED
  BY <1>2, <1>3, <1>4

(* A read of labels gives kinds of labels.                                 *)
LEMMA ReadKinds ==
  ASSUME NEW kind \in Labels, NEW read \in LabelsRead(kind)
  PROVE  read \subseteq Labels
BY DEF LabelsRead

(* Every step keeps the types of the smaller variables.                    *)
LEMMA SmallStep ==
  ASSUME IInv, [Next]_vars
  PROVE  SmallOK'
<1>0. SmallOK
  BY TypeParts DEF IInv
<1>1. CASE Change
  <2>1. changes' = changes + 1 /\ UNCHANGED <<tick, calm, misread>>
    BY <1>1, Zenon DEF Change
  <2>2. config' \in {"none", "on", "cleared"} /\ labels' \subseteq Labels
    BY <1>1, <1>0 DEF Change, OpenMR, ToggleBlock, MoveMR, MergeMR, EndRelease,
                  DeleteBranch, Configure, ConfigureLabels, SpawnBranch,
                  settings, SmallOK
  <2>3. changes' \in Nat
    BY <2>1, <1>0 DEF SmallOK
  <2>4. QED
    BY <2>1, <2>2, <2>3, <1>0 DEF SmallOK, tick, listing
<1>2. CASE Settle
  BY <1>2, <1>0 DEF Settle, gitlab, settings, listing, tick, SmallOK, Steps
<1>3. CASE Crash
  <2>1. more' \in BOOLEAN
    BY <1>3 DEF Crash
  <2>2. /\ pc' \in Steps /\ names' = {}
        /\ UNCHANGED <<settings, calm, misread, changes>>
    BY <1>3 DEF Crash, gitlab, Steps
  <2>3. page' \in Nat \ {0}
    BY <1>3, <1>0 DEF Crash, SmallOK
  <2>4. QED
    BY <2>1, <2>2, <2>3, <1>0 DEF SmallOK, settings
<1>4. CASE StartTick
  <2>1. names' \subseteq Labels
    BY <1>4, ReadKinds DEF StartTick, Labels
  <2>2. /\ UNCHANGED <<gitlab, more, misread>> /\ pc' = "orphans" /\ page' = 1
    BY <1>4 DEF StartTick
  <2>3. QED
    BY <2>1, <2>2, <1>0 DEF gitlab, settings, SmallOK, Steps
<1>5. CASE NotConfigured
  BY <1>5, <1>0 DEF NotConfigured, gitlab, settings, listing, tick, SmallOK,
    Steps
<1>6. CASE OrphanPage
  <2>1. more' \in BOOLEAN
    BY <1>6, FetchedMore DEF OrphanPage
  <2>2. /\ UNCHANGED <<settings, names, calm, misread, page, changes>>
        /\ pc' \in Steps
    BY <1>6 DEF OrphanPage, FetchPage, gitlab, Steps
  <2>3. QED
    BY <2>1, <2>2, <1>0 DEF SmallOK, settings
<1>7. CASE OrphanPageFails
  BY <1>7, <1>0 DEF OrphanPageFails, ListingFails, gitlab, settings, listing,
    tick,
    SmallOK, Steps
<1>8. CASE LookUp
  BY <1>8, <1>0 DEF LookUp, gitlab, settings, listing, tick, SmallOK, Steps
<1>9. CASE SkipOrphan
  BY <1>9, <1>0 DEF SkipOrphan, Handled, gitlab, settings, listing, tick,
    SmallOK, Steps
<1>10. CASE MoveOrphan
  BY <1>10, <1>0 DEF MoveOrphan, Handled, gitlab, settings, listing, tick,
    SmallOK, Steps
<1>11. CASE EndOrphanPage
  <2>1. more' \in BOOLEAN
    BY <1>11 DEF EndOrphanPage, EndPage
  <2>2. /\ pc' \in Steps
        /\ UNCHANGED <<settings, names, calm, misread, changes>>
    BY <1>11 DEF EndOrphanPage, EndPage, gitlab, Steps
  <2>3. page' \in Nat \ {0}
    BY <1>11, <1>0 DEF EndOrphanPage, EndPage, SmallOK
  <2>4. QED
    BY <2>1, <2>2, <2>3, <1>0 DEF SmallOK, settings
<1>12. CASE FindRelease
  BY <1>12, <1>0 DEF FindRelease, gitlab, settings, listing, tick, SmallOK,
    Steps
<1>13. CASE FindNone
  BY <1>13, <1>0 DEF FindNone, gitlab, settings, listing, tick, SmallOK, Steps
<1>14. CASE FindFails
  <2>1. misread' \in BOOLEAN
    BY <1>14, <1>0, Zenon DEF FindFails, SmallOK
  <2>2. pc' \in Steps /\ UNCHANGED <<gitlab, listing, names>>
    BY <1>14 DEF FindFails, Steps
  <2>3. QED
    BY <2>1, <2>2, <1>0 DEF SmallOK, gitlab, settings, listing
<1>15. CASE CreateBranch
  BY <1>15, <1>0 DEF CreateBranch, gitlab, settings, listing, tick, SmallOK,
    Steps
<1>16. CASE CreateBranchFails
  BY <1>16, <1>0 DEF CreateBranchFails, gitlab, settings, listing, tick,
    SmallOK, Steps
<1>17. CASE CreateMR
  BY <1>17, <1>0 DEF CreateMR, gitlab, settings, listing, tick, SmallOK, Steps
<1>18. CASE CreateMRFails
  BY <1>18, <1>0 DEF CreateMRFails, gitlab, settings, listing, tick, SmallOK,
    Steps
<1>19. CASE MovePage
  <2>1. more' \in BOOLEAN
    BY <1>19, FetchedMore DEF MovePage
  <2>2. /\ UNCHANGED <<settings, names, calm, misread, page, changes>>
        /\ pc' \in Steps
    BY <1>19 DEF MovePage, FetchPage, gitlab, Steps
  <2>3. QED
    BY <2>1, <2>2, <1>0 DEF SmallOK, settings
<1>20. CASE MovePageFails
  BY <1>20, <1>0 DEF MovePageFails, ListingFails, gitlab, settings, listing,
    tick,
    SmallOK, Steps
<1>21. CASE SkipMove
  BY <1>21, <1>0 DEF SkipMove, Handled, gitlab, settings, listing, tick,
    SmallOK, Steps
<1>22. CASE Move
  BY <1>22, <1>0 DEF Move, Handled, gitlab, settings, listing, tick, SmallOK,
    Steps
<1>23. CASE EndMovePage
  <2>1. more' \in BOOLEAN
    BY <1>23 DEF EndMovePage, EndPage
  <2>2. /\ pc' \in Steps
        /\ UNCHANGED <<settings, names, calm, misread, changes>>
    BY <1>23 DEF EndMovePage, EndPage, gitlab, Steps
  <2>3. page' \in Nat \ {0}
    BY <1>23, <1>0 DEF EndMovePage, EndPage, SmallOK
  <2>4. QED
    BY <2>1, <2>2, <2>3, <1>0 DEF SmallOK, settings
<1>24. CASE Describe
  BY <1>24, <1>0 DEF Describe, gitlab, settings, listing, tick, SmallOK, Steps
<1>25. CASE NothingToDescribe
  BY <1>25, <1>0 DEF NothingToDescribe, gitlab, settings, listing, tick,
    SmallOK, Steps
<1>27. CASE ReadBlockLabels
  <2>1. names' \subseteq Labels
    BY <1>27, <1>0, ReadKinds DEF ReadBlockLabels, SmallOK, Labels
  <2>2. UNCHANGED <<gitlab, page, more, misread>> /\ pc' = "moves"
    BY <1>27 DEF ReadBlockLabels, listing
  <2>3. QED
    BY <2>1, <2>2, <1>0 DEF gitlab, settings, SmallOK, Steps
<1>26. CASE UNCHANGED vars
  BY <1>26, <1>0 DEF vars, gitlab, settings, listing, tick, SmallOK, Steps
<1>28. QED
  BY <1>1, <1>2, <1>3, <1>4, <1>5, <1>6, <1>7, <1>8, <1>9, <1>10, <1>11,
    <1>12, <1>13, <1>14, <1>15, <1>16, <1>17, <1>18, <1>19, <1>20, <1>21,
      <1>22, <1>23, <1>24, <1>25, <1>26,
      <1>27
  DEF Next, Tick, Orphans, Release, Moves

(* Every step keeps the cache.                                             *)
LEMMA CacheStep ==
  ASSUME IInv, [Next]_vars
  PROVE  CacheOK'
<1>0. CacheOK
  BY TypeParts DEF IInv
<1>1. CASE Change
  BY <1>1, <1>0 DEF Change, gitlab, listing, tick, CacheOK
<1>2. CASE Settle
  BY <1>2, <1>0 DEF Settle, gitlab, listing, tick, CacheOK
<1>3. CASE Crash
  BY <1>3, <1>0 DEF Crash, gitlab, listing, tick, CacheOK
<1>4. CASE StartTick
  BY <1>4, <1>0 DEF StartTick, gitlab, listing, tick, CacheOK
<1>5. CASE NotConfigured
  BY <1>5, <1>0 DEF NotConfigured, gitlab, listing, tick, CacheOK
<1>6. CASE OrphanPage
  BY <1>6, <1>0 DEF OrphanPage, gitlab, listing, tick, CacheOK
<1>7. CASE OrphanPageFails
  BY <1>7, <1>0 DEF OrphanPageFails, ListingFails, gitlab, listing, tick,
    CacheOK
<1>8. CASE LookUp
  <2>1. PICK x \in todo : BranchExists(x.mr.target)
    BY <1>8 DEF LookUp
  <2>2. x.mr.target \in Branches
    BY TypeParts DEF IInv, TodoOK, MRs
  <2>3. QED
    BY <2>1, <2>2, <1>0 DEF BranchExists, CacheOK
<1>9. CASE SkipOrphan
  BY <1>9, <1>0 DEF SkipOrphan, Handled, gitlab, listing, tick, CacheOK
<1>10. CASE MoveOrphan
  BY <1>10, <1>0 DEF MoveOrphan, Handled, gitlab, listing, tick, CacheOK
<1>11. CASE EndOrphanPage
  BY <1>11, <1>0 DEF EndOrphanPage, EndPage, gitlab, listing, tick, CacheOK
<1>12. CASE FindRelease
  BY <1>12, <1>0 DEF FindRelease, gitlab, listing, tick, CacheOK
<1>13. CASE FindNone
  BY <1>13, <1>0 DEF FindNone, gitlab, listing, tick, CacheOK
<1>14. CASE FindFails
  BY <1>14, <1>0 DEF FindFails, gitlab, listing, tick, CacheOK
<1>15. CASE CreateBranch
  BY <1>15, <1>0 DEF CreateBranch, gitlab, listing, tick, CacheOK
<1>16. CASE CreateBranchFails
  BY <1>16, <1>0 DEF CreateBranchFails, gitlab, listing, tick, CacheOK
<1>17. CASE CreateMR
  BY <1>17, <1>0 DEF CreateMR, gitlab, listing, tick, CacheOK
<1>18. CASE CreateMRFails
  BY <1>18, <1>0 DEF CreateMRFails, gitlab, listing, tick, CacheOK
<1>19. CASE MovePage
  BY <1>19, <1>0 DEF MovePage, gitlab, listing, tick, CacheOK
<1>20. CASE MovePageFails
  BY <1>20, <1>0 DEF MovePageFails, ListingFails, gitlab, listing, tick,
    CacheOK
<1>21. CASE SkipMove
  BY <1>21, <1>0 DEF SkipMove, Handled, gitlab, listing, tick, CacheOK
<1>22. CASE Move
  BY <1>22, <1>0 DEF Move, Handled, gitlab, listing, tick, CacheOK
<1>23. CASE EndMovePage
  BY <1>23, <1>0 DEF EndMovePage, EndPage, gitlab, listing, tick, CacheOK
<1>24. CASE Describe
  BY <1>24, <1>0 DEF Describe, gitlab, listing, tick, CacheOK
<1>25. CASE NothingToDescribe
  BY <1>25, <1>0 DEF NothingToDescribe, gitlab, listing, tick, CacheOK
<1>27. CASE ReadBlockLabels
  BY <1>27, <1>0 DEF ReadBlockLabels, gitlab, listing, tick, CacheOK
<1>26. CASE UNCHANGED vars
  BY <1>26, <1>0 DEF vars, gitlab, listing, tick, CacheOK
<1>28. QED
  BY <1>1, <1>2, <1>3, <1>4, <1>5, <1>6, <1>7, <1>8, <1>9, <1>10, <1>11,
    <1>12, <1>13, <1>14, <1>15, <1>16, <1>17, <1>18, <1>19, <1>20, <1>21,
      <1>22, <1>23, <1>24, <1>25, <1>26,
      <1>27
  DEF Next, Tick, Orphans, Release, Moves

(* Every step keeps the release of the tick.                               *)
LEMMA CurrentStep ==
  ASSUME IInv, [Next]_vars
  PROVE  CurrentOK'
<1>0. /\ CurrentOK /\ Len(releases) \in Nat /\ Len(releases') \in Nat
      /\ Len(releases) <= Len(releases')
  <2>1. CurrentOK
    BY TypeParts DEF IInv
  <2>2. Len(releases) \in Nat
    BY Tables DEF IInv
  <2>3. Len(releases') \in Nat /\ Len(releases) <= Len(releases')
    BY StepSafe, LenProperties DEF Safe, Grows, GitLabOK
  <2>4. QED
    BY <2>1, <2>2, <2>3
<1>1. CASE Change
  BY <1>1, <1>0 DEF Change, gitlab, listing, tick, CurrentOK
<1>2. CASE Settle
  BY <1>2, <1>0 DEF Settle, gitlab, listing, tick, CurrentOK
<1>3. CASE Crash
  BY <1>3, <1>0 DEF Crash, gitlab, listing, tick, CurrentOK
<1>4. CASE StartTick
  BY <1>4, <1>0 DEF StartTick, gitlab, listing, tick, CurrentOK
<1>5. CASE NotConfigured
  BY <1>5, <1>0 DEF NotConfigured, gitlab, listing, tick, CurrentOK
<1>6. CASE OrphanPage
  BY <1>6, <1>0 DEF OrphanPage, gitlab, listing, tick, CurrentOK
<1>7. CASE OrphanPageFails
  BY <1>7, <1>0 DEF OrphanPageFails, ListingFails, gitlab, listing, tick,
    CurrentOK
<1>8. CASE LookUp
  BY <1>8, <1>0 DEF LookUp, gitlab, listing, tick, CurrentOK
<1>9. CASE SkipOrphan
  BY <1>9, <1>0 DEF SkipOrphan, Handled, gitlab, listing, tick, CurrentOK
<1>10. CASE MoveOrphan
  BY <1>10, <1>0 DEF MoveOrphan, Handled, gitlab, listing, tick, CurrentOK
<1>11. CASE EndOrphanPage
  BY <1>11, <1>0 DEF EndOrphanPage, EndPage, gitlab, listing, tick, CurrentOK
<1>12. CASE FindRelease
  <2>1. PICK b \in OpenReleases : current' = b
    BY <1>12 DEF FindRelease, Newest
  <2>2. b \in 1 .. Len(releases) /\ Len(releases) \in Nat
    BY Tables DEF IInv, OpenReleases
  <2>3. UNCHANGED releases
    BY <1>12 DEF FindRelease, gitlab
  <2>4. QED
    BY <2>1, <2>2, <2>3 DEF CurrentOK
<1>13. CASE FindNone
  BY <1>13, <1>0 DEF FindNone, gitlab, listing, tick, CurrentOK
<1>14. CASE FindFails
  BY <1>14, <1>0 DEF FindFails, gitlab, listing, tick, CurrentOK
<1>15. CASE CreateBranch
  <2>1. current' = Len(releases) + 1
        /\ releases' = Append(releases, [state |-> "branch", merged |-> {},
                                        listed |-> {}])
    BY <1>15 DEF CreateBranch
  <2>2. Len(releases') = Len(releases) + 1
    <3>1. [state |-> "branch", merged |-> {}, listed |-> {}] \in Releases
      BY DEF Releases
    <3>2. QED
      BY <2>1, <3>1, AppendProperties DEF IInv, GitLabOK
  <2>3. QED
    BY <2>1, <2>2, <1>0 DEF CurrentOK
<1>16. CASE CreateBranchFails
  BY <1>16, <1>0 DEF CreateBranchFails, gitlab, listing, tick, CurrentOK
<1>17. CASE CreateMR
  BY <1>17, <1>0 DEF CreateMR, gitlab, listing, tick, CurrentOK
<1>18. CASE CreateMRFails
  BY <1>18, <1>0 DEF CreateMRFails, gitlab, listing, tick, CurrentOK
<1>19. CASE MovePage
  BY <1>19, <1>0 DEF MovePage, gitlab, listing, tick, CurrentOK
<1>20. CASE MovePageFails
  BY <1>20, <1>0 DEF MovePageFails, ListingFails, gitlab, listing, tick,
    CurrentOK
<1>21. CASE SkipMove
  BY <1>21, <1>0 DEF SkipMove, Handled, gitlab, listing, tick, CurrentOK
<1>22. CASE Move
  BY <1>22, <1>0 DEF Move, Handled, gitlab, listing, tick, CurrentOK
<1>23. CASE EndMovePage
  BY <1>23, <1>0 DEF EndMovePage, EndPage, gitlab, listing, tick, CurrentOK
<1>24. CASE Describe
  BY <1>24, <1>0 DEF Describe, gitlab, listing, tick, CurrentOK
<1>25. CASE NothingToDescribe
  BY <1>25, <1>0 DEF NothingToDescribe, gitlab, listing, tick, CurrentOK
<1>27. CASE ReadBlockLabels
  BY <1>27, <1>0 DEF ReadBlockLabels, gitlab, listing, tick, CurrentOK
<1>26. CASE UNCHANGED vars
  BY <1>26, <1>0 DEF vars, gitlab, listing, tick, CurrentOK
<1>28. QED
  BY <1>1, <1>2, <1>3, <1>4, <1>5, <1>6, <1>7, <1>8, <1>9, <1>10, <1>11,
    <1>12, <1>13, <1>14, <1>15, <1>16, <1>17, <1>18, <1>19, <1>20, <1>21,
      <1>22, <1>23, <1>24, <1>25, <1>26,
      <1>27
  DEF Next, Tick, Orphans, Release, Moves

(* A misread answer is not forgotten, and a release is about to be made    *)
(* only after a look that found none or was misread.                       *)
LEMMA LookFirst ==
  ASSUME misread \in BOOLEAN, [Next]_vars
  PROVE  /\ misread => misread'
         /\ pc' \in {"branch", "mr"} => \/ pc \in {"branch", "mr"}
                                       \/ OpenReleases = {}
                                       \/ misread'
<1>1. CASE Change
  BY <1>1 DEF Change, tick
<1>2. CASE Settle
  BY <1>2 DEF Settle, tick
<1>3. CASE Crash
  BY <1>3 DEF Crash, tick
<1>4. CASE StartTick
  BY <1>4 DEF StartTick, tick
<1>5. CASE NotConfigured
  BY <1>5 DEF NotConfigured, tick
<1>6. CASE OrphanPage
  BY <1>6 DEF OrphanPage, tick
<1>7. CASE OrphanPageFails
  BY <1>7 DEF OrphanPageFails, ListingFails, tick
<1>8. CASE LookUp
  BY <1>8 DEF LookUp, tick
<1>9. CASE SkipOrphan
  BY <1>9 DEF SkipOrphan, Handled, tick
<1>10. CASE MoveOrphan
  BY <1>10 DEF MoveOrphan, Handled, tick
<1>11. CASE EndOrphanPage
  BY <1>11 DEF EndOrphanPage, EndPage, tick
<1>12. CASE FindRelease
  BY <1>12 DEF FindRelease, tick
<1>13. CASE FindNone
  BY <1>13 DEF FindNone, tick
<1>14. CASE FindFails
  <2>1. misread' = (misread \/ OpenReleases # {})
    BY <1>14, Zenon DEF FindFails
  <2>2. QED
    BY <2>1, Zenon
<1>15. CASE CreateBranch
  BY <1>15 DEF CreateBranch, tick
<1>16. CASE CreateBranchFails
  BY <1>16 DEF CreateBranchFails, tick
<1>17. CASE CreateMR
  BY <1>17 DEF CreateMR, tick
<1>18. CASE CreateMRFails
  BY <1>18 DEF CreateMRFails, tick
<1>19. CASE MovePage
  BY <1>19 DEF MovePage, tick
<1>20. CASE MovePageFails
  BY <1>20 DEF MovePageFails, ListingFails, tick
<1>21. CASE SkipMove
  BY <1>21 DEF SkipMove, Handled, tick
<1>22. CASE Move
  BY <1>22 DEF Move, Handled, tick
<1>23. CASE EndMovePage
  BY <1>23 DEF EndMovePage, EndPage, tick
<1>24. CASE Describe
  BY <1>24 DEF Describe, tick
<1>25. CASE NothingToDescribe
  BY <1>25 DEF NothingToDescribe, tick
<1>27. CASE ReadBlockLabels
  BY <1>27 DEF ReadBlockLabels, tick
<1>26. CASE UNCHANGED vars
  BY <1>26 DEF vars, tick
<1>28. QED
  BY <1>1, <1>2, <1>3, <1>4, <1>5, <1>6, <1>7, <1>8, <1>9, <1>10, <1>11,
    <1>12, <1>13, <1>14, <1>15, <1>16, <1>17, <1>18, <1>19, <1>20, <1>21,
      <1>22, <1>23, <1>24, <1>25, <1>26,
      <1>27
  DEF Next, Tick, Orphans, Release, Moves

(* Every step keeps that a release is only made when there is none.        *)
LEMMA ReleaseStep ==
  ASSUME IInv, [Next]_vars
  PROVE  ReleaseOK'
<1>1. SUFFICES ASSUME ~ misread'
               PROVE  /\ \A b, c \in OpenReleases' : b = c
                      /\ pc' \in {"branch", "mr"} => OpenReleases' = {}
  BY DEF ReleaseOK
<1>2. misread \in BOOLEAN
  BY TypeParts DEF IInv, SmallOK
<1>3. /\ ~ misread
      /\ pc' \in {"branch", "mr"} => \/ pc \in {"branch", "mr"}
                                    \/ OpenReleases = {}
  BY <1>1, <1>2, LookFirst
<1>4. /\ \A b, c \in OpenReleases : b = c
      /\ pc \in {"branch", "mr"} => OpenReleases = {}
  BY <1>3 DEF IInv, ReleaseOK
<1>5. OpensOwn
  BY StepSafe DEF Safe
<1>6. QED
  BY <1>3, <1>4, <1>5 DEF OpensOwn

(* The initial states satisfy the invariant.                               *)
LEMMA InitInvariant == Init => IInv
<1> SUFFICES ASSUME Init
             PROVE  IInv
  OBVIOUS
<1>1. /\ mrs \in Seq(MRs) /\ Len(mrs) = 0 /\ DOMAIN mrs = {}
      /\ releases \in Seq(Releases) /\ Len(releases) = 0
      /\ DOMAIN releases = {}
  BY EmptySeq, LenProperties DEF Init
<1>2. GitLabOK
  BY <1>1, AutoReleaseAssumption DEF Init, GitLabOK
<1>3. SmallOK
  <2>1. more \in BOOLEAN /\ calm \in BOOLEAN /\ misread \in BOOLEAN
    BY DEF Init
  <2>2. /\ config \in {"none", "on", "cleared"} /\ pc \in Steps
        /\ page \in Nat \ {0} /\ changes \in Nat
    BY DEF Init, Steps
  <2>3. labels \subseteq Labels /\ names \subseteq Labels
    BY DEF Init
  <2>4. QED
    BY <2>1, <2>2, <2>3 DEF SmallOK
<1>4. TodoOK /\ CacheOK /\ CurrentOK
  BY <1>1 DEF Init, TodoOK, CacheOK, CurrentOK
<1>5. ListedOK /\ ReleaseOK /\ LabelOK
  BY <1>1 DEF Init, ListedOK, ReleaseOK, OpenReleases, LabelOK
<1>6. QED
  BY <1>2, <1>3, <1>4, <1>5, TypeParts DEF IInv

(* Every step keeps the invariant.                                         *)
LEMMA StepInvariant == IInv /\ [Next]_vars => IInv'
<1> SUFFICES ASSUME IInv, [Next]_vars
             PROVE  IInv'
  OBVIOUS
<1>1. GitLabOK' /\ LabelOK'
  BY StepSafe DEF Safe, Grows
<1>2. SmallOK' /\ TodoOK' /\ CacheOK' /\ CurrentOK' /\ ListedOK' /\ ReleaseOK'
  BY SmallStep, TodoStep, CacheStep, CurrentStep, ReleaseStep
<1>3. TypeOK'
  BY <1>1, <1>2 DEF TypeOK, GitLabOK, SmallOK, TodoOK, CacheOK, CurrentOK
<1>4. QED
  BY <1>1, <1>2, <1>3 DEF IInv

-----------------------------------------------------------------------------
(* The theorems.                                                           *)

(* The invariant holds in every reachable state.                           *)
THEOREM Invariance == Spec => []IInv
BY InitInvariant, StepInvariant, PTL DEF Spec

(* Every variable keeps its type.                                          *)
THEOREM TypeCorrect == Spec => []TypeOK
<1>1. IInv => TypeOK
  BY DEF IInv
<1>2. QED
  BY <1>1, Invariance, PTL

(* Two releases are open only after an error was read as "no release".     *)
THEOREM OneReleaseOpen == Spec => []OneRelease
<1>1. IInv => OneRelease
  <2> SUFFICES ASSUME IInv, ~ misread
               PROVE  Cardinality(OpenReleases) <= 1
    BY DEF OneRelease
  <2>1. \A b, c \in OpenReleases : b = c
    BY DEF IInv, ReleaseOK
  <2>2. CASE OpenReleases = {}
    BY <2>2, FS_EmptySet
  <2>3. CASE OpenReleases # {}
    <3>1. PICK b : OpenReleases = {b}
      BY <2>1, <2>3
    <3>2. Cardinality({b}) = 1
      BY FS_Singleton, Zenon
    <3>3. QED
      BY <3>1, <3>2
  <2>4. QED
    BY <2>2, <2>3
<1>2. QED
  BY <1>1, Invariance, PTL

(* No tick that has read the label of feature releases moves one.          *)
THEOREM FeaturesStay == Spec => FeatureIsolated
<1>1. IInv /\ [Next]_vars
      => [\A i \in DOMAIN mrs :
            mrs[i].feature /\ mrs'[i].target # mrs[i].target
              => "feature" \in labels \ names]_vars
  <2> SUFFICES ASSUME IInv, Next, NEW i \in DOMAIN mrs, mrs[i].feature,
                      mrs'[i].target # mrs[i].target
               PROVE  "feature" \in labels \ names
    OBVIOUS
  <2>1. FeaturesKept
    BY StepSafe DEF Safe
  <2>2. QED
    BY <2>1 DEF FeaturesKept, IInv, LabelOK
<1>2. QED
  BY <1>1, Invariance, PTL DEF Spec, FeatureIsolated

-----------------------------------------------------------------------------
(* Orphans.                                                                *)

(* While orphans are looked for, no branch that was found missing exists:  *)
(* a tick makes a branch only afterwards, and never an old one again.      *)
GoneOK == pc \in {"orphans", "orphan"} => gone \cap branches = {}

(* Branches appear in one step only, and the cache forgets or learns.      *)
LEMMA BranchesShrink ==
  ASSUME Next, ~ CreateBranch
  PROVE  branches' \subseteq branches
<1>1. CASE Change
  BY <1>1 DEF Change, OpenMR, ToggleBlock, MoveMR, MergeMR, EndRelease,
              DeleteBranch, Configure, ConfigureLabels, SpawnBranch
<1>2. CASE Settle \/ Crash \/ Tick
  BY <1>2 DEF Settle, Crash, Tick, Orphans, Release, Moves, gitlab,
              StartTick, NotConfigured, OrphanPage, OrphanPageFails, LookUp,
              SkipOrphan, MoveOrphan, EndOrphanPage, FindRelease, FindNone,
              FindFails, CreateBranchFails, CreateMR, CreateMRFails,
              MovePage, MovePageFails, SkipMove, Move, EndMovePage, EndPage,
              ListingFails, Describe, NothingToDescribe, ReadBlockLabels
<1>3. QED
  BY <1>1, <1>2 DEF Next

(* A branch is called gone only where it is.                               *)
LEMMA GoneStep == GoneOK /\ [Next]_vars => GoneOK'
<1> SUFFICES ASSUME GoneOK, [Next]_vars
             PROVE  GoneOK'
  OBVIOUS
<1>1. CASE UNCHANGED vars
  BY <1>1 DEF vars, GoneOK
<1>2. CASE CreateBranch
  BY <1>2 DEF CreateBranch, GoneOK
<1>3. CASE StartTick
  BY <1>3 DEF StartTick, GoneOK
<1>4. CASE LookUp
  <2>1. PICK x \in todo : BranchExists(x.mr.target)
    BY <1>4 DEF LookUp
  <2>2. pc = "orphan" /\ UNCHANGED branches
    BY <1>4 DEF LookUp, gitlab
  <2>3. gone' \cap branches = {}
    BY <2>1, <2>2 DEF BranchExists, GoneOK
  <2>4. QED
    BY <2>2, <2>3 DEF GoneOK
<1>5. CASE Next /\ ~ CreateBranch /\ ~ StartTick /\ ~ LookUp
  <2>1. branches' \subseteq branches
    BY <1>5, BranchesShrink
  <2>2. CASE Change \/ Settle
    <3>1. UNCHANGED <<pc, gone>>
      BY <2>2 DEF Change, Settle, tick
    <3>2. QED
      BY <2>1, <3>1 DEF GoneOK
  <2>3. CASE Crash
    BY <2>3 DEF Crash, GoneOK
  <2>4. CASE Tick
    <3>1. pc' \in {"orphans", "orphan"} =>
             pc \in {"orphans", "orphan"} /\ UNCHANGED gone
      BY <1>5, <2>4
      DEF Tick, Orphans, Release, Moves, NotConfigured, OrphanPage,
          OrphanPageFails, SkipOrphan, MoveOrphan, EndOrphanPage, FindRelease,
          FindNone, FindFails, CreateBranchFails, CreateMR, CreateMRFails,
          MovePage, MovePageFails, SkipMove, Move, EndMovePage, EndPage,
          ListingFails, Handled, Describe, NothingToDescribe,
          ReadBlockLabels
    <3>2. QED
      BY <2>1, <3>1 DEF GoneOK
  <2>5. QED
    BY <1>5, <2>2, <2>3, <2>4 DEF Next
<1>6. QED
  BY <1>1, <1>2, <1>3, <1>4, <1>5

(* While orphans are looked for, the tick itself moves only those.         *)
LEMMA OnlyOrphansMove ==
  ASSUME IInv, Next, pc = "orphan", pc' = "orphan", UNCHANGED changes,
         NEW i \in DOMAIN mrs, mrs'[i].target # mrs[i].target
  PROVE  \E x \in todo : x.id = i /\ x.mr.target \in gone
<1>1. ~ Change
  BY TypeParts DEF IInv, Change, SmallOK
<1>2. ~ Settle /\ ~ Crash
  BY DEF Settle, Crash
<1>3. ~ Release /\ ~ Moves /\ ~ Describe /\ ~ NothingToDescribe
  BY DEF Release, Moves, FindRelease, FindNone, FindFails, CreateBranch,
         CreateBranchFails, CreateMR, CreateMRFails, MovePage, MovePageFails,
         SkipMove, Move, EndMovePage, EndPage, ListingFails, Describe,
         NothingToDescribe, ReadBlockLabels
<1>4. MoveOrphan
  BY <1>1, <1>2, <1>3
  DEF Next, Tick, Orphans, StartTick, NotConfigured, OrphanPage,
      OrphanPageFails, LookUp, SkipOrphan, EndOrphanPage, EndPage,
      ListingFails, gitlab
<1>5. PICK x \in todo : /\ x.mr.target \in gone
                       /\ \/ SetTarget(x.id, 0)
                          \/ UNCHANGED mrs
  BY <1>4 DEF MoveOrphan
<1>6. mrs' = [mrs EXCEPT ![x.id].target = 0]
  BY <1>5 DEF SetTarget
<1>7. x.id = i
  BY <1>6
<1>8. QED
  BY <1>5, <1>7

(* However old the listing and whatever fails, an MR is sent back only     *)
(* when the branch it was listed with is gone.                             *)
THEOREM OnlyOrphansRescued == Spec => RescuesOrphans
<1>1. Init => GoneOK
  BY DEF Init, GoneOK
<1>2. Spec => []GoneOK
  BY <1>1, GoneStep, PTL DEF Spec
<1>3. ASSUME IInv, GoneOK, [Next]_vars
      PROVE  [\A i \in DOMAIN mrs :
                pc = "orphan" /\ pc' = "orphan" /\ changes' = changes
                  /\ mrs'[i].target # mrs[i].target
                => \E x \in todo :
                     x.id = i /\ x.mr.target \notin branches]_vars
  <2> SUFFICES ASSUME Next,
                      NEW i \in DOMAIN mrs, pc = "orphan", pc' = "orphan",
                      changes' = changes, mrs'[i].target # mrs[i].target
               PROVE  \E x \in todo : x.id = i /\ x.mr.target \notin branches
    BY <1>3
  <2>1. PICK x \in todo : x.id = i /\ x.mr.target \in gone
    BY <1>3, OnlyOrphansMove
  <2>2. QED
    BY <1>3, <2>1 DEF GoneOK
<1>4. QED
  BY <1>2, <1>3, Invariance, PTL DEF Spec, RescuesOrphans
==============================================================================

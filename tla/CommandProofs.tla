----------------------------- MODULE CommandProofs ----------------------------
(***************************************************************************)
(* What commands of chats and users set up.                                *)
(*                                                                         *)
(* For any repositories, chats and settings, any number of commands and    *)
(* whatever fails: a repository belongs to one chat at most unless a       *)
(* failed lookup hid its subscription, and a take-over drops all the       *)
(* settings of the chat that had it but those it does not touch.           *)
(*                                                                         *)
(* For any repositories and time zones, and however long the bot runs: the *)
(* user of the personal digest gets no second one on a day, and misses     *)
(* none, but for the cases the two properties name.                        *)
(***************************************************************************)
EXTENDS Subscriptions, DailyDigest, TLAPS

-----------------------------------------------------------------------------
(* Subscriptions.                                                          *)


(* What the commands make of one repository's rows.                        *)
LEMMA RowLemma ==
  ASSUME NEW line \in [Names -> States], NEW names
  PROVE  /\ Created(line, names) \in [Names -> States]
         /\ Deleted(line, names) \in [Names -> States]
         /\ Live(Created(line, names)) \subseteq Live(line) \union names
         /\ Live(Deleted(line, names)) = Live(line) \ names
         /\ \A n \in Names \ names :
              /\ Created(line, names)[n] = line[n]
              /\ Deleted(line, names)[n] = line[n]
  BY DEF Created, Deleted, Live, States

(* The transaction starts from rows and reviewers of the repository; of a  *)
(* take-over only the rows that are kept are live.                         *)
LEMMA RemainingLemma ==
  ASSUME SubTypeOK, NEW r \in Repos, NEW seen
  PROVE  /\ Remaining(r, seen).row \in [Names -> States]
         /\ Remaining(r, seen).pool \in SUBSET Users
         /\ seen # {} => /\ Live(Remaining(r, seen).row) \subseteq Kept
                         /\ Remaining(r, seen).pool = {}
         /\ \A n \in Kept : Remaining(r, seen).row[n] = rows[r][n]
<1>1. rows[r] \in [Names -> States] /\ pool[r] \in SUBSET Users
  BY DEF SubTypeOK
<1>2. CASE seen = {}
  BY <1>1, <1>2 DEF Remaining
<1>3. CASE seen # {}
  <2>1. /\ Remaining(r, seen).row = Deleted(rows[r], Passing)
        /\ Remaining(r, seen).pool = {}
    BY <1>3 DEF Remaining
  <2>2. Live(rows[r]) \subseteq Names /\ Names = Passing \union Kept
    BY DEF Live, Names
  <2>3. Kept \subseteq Names \ Passing
    BY SubscriptionsAssumption DEF Names
  <2>4. /\ Deleted(rows[r], Passing) \in [Names -> States]
        /\ Live(Deleted(rows[r], Passing)) = Live(rows[r]) \ Passing
        /\ \A n \in Names \ Passing : Deleted(rows[r], Passing)[n] = rows[r][n]
    BY <1>1, RowLemma
  <2>5. QED
    BY <2>1, <2>2, <2>3, <2>4
<1>4. QED
  BY <1>2, <1>3

(* What is copied are settings and reviewers of the chat's repositories.   *)
LEMMA CopiesLemma ==
  ASSUME SubTypeOK, NEW r \in Repos, NEW c \in Chats, NEW copy \in Copies(r, c)
  PROVE  /\ copy.names \subseteq Passing
         /\ copy.users \in SUBSET Users
         /\ copy.names \subseteq UNION {Live(rows[s]) : s \in ReposOf(c) \ {r}}
         /\ copy.users \subseteq UNION {pool[s] : s \in ReposOf(c) \ {r}}
<1> DEFINE sources == ReposOf(c) \ {r}
<1>1. \A s \in sources : pool[s] \in SUBSET Users
  BY DEF SubTypeOK, ReposOf
<1>2. CASE copy = Nothing
  BY <1>2 DEF Nothing
<1>3. CASE \E s \in sources :
             /\ copy.names \subseteq Live(rows[s]) \cap Passing
             /\ copy.users = pool[s] \/ copy.users = {}
  BY <1>1, <1>3
<1>4. copy = Nothing \/ \E s \in sources :
        /\ copy.names \subseteq Live(rows[s]) \cap Passing
        /\ copy.users = pool[s] \/ copy.users = {}
  BY DEF Copies
<1>5. QED
  BY <1>2, <1>3, <1>4

(* A chat the lookups find has a subscription.                             *)
LEMMA FoundLemma ==
  ASSUME NEW r, NEW c, NEW seen \in Found(r, c)
  PROVE  seen \subseteq Owners(r)
BY DEF Found

(* What a /subscribe that succeeds does.                                   *)
Joined(r, c) ==
  \E seen \in SUBSET Owners(r), copy \in Copies(r, c) :
    c \notin seen /\ Join(r, c, seen, copy)

(* The outcomes of a /subscribe.                                           *)
LEMMA SubscribeLemma ==
  ASSUME NEW c \in Chats, NEW force \in BOOLEAN, Subscribe(c, force)
  PROVE  /\ Command
         /\ \/ /\ UNCHANGED <<subs, rows, pool, pending, misread>>
               /\ refused' \in {"subscribed", "owned", "failed"}
            \/ \E r \in Repos : Joined(r, c)
<1>1. PICK r \in Repos : \E seen \in Found(r, c) :
        \/ Turned(c, seen, force)
        \/ c \notin seen /\ Admitted(r, c, seen)
  BY DEF Subscribe
<1>2. PICK seen \in Found(r, c) :
        \/ Turned(c, seen, force)
        \/ c \notin seen /\ Admitted(r, c, seen)
  BY <1>1
<1>3. Command
  BY DEF Subscribe
<1>4. CASE Turned(c, seen, force)
  BY <1>3, <1>4 DEF Turned, Refuse
<1>5. CASE c \notin seen /\ Admitted(r, c, seen)
  <2>1. PICK copy \in Copies(r, c) :
          Join(r, c, seen, copy) \/ Refuse("failed")
    BY <1>5 DEF Admitted
  <2>2. seen \in SUBSET Owners(r)
    BY FoundLemma
  <2>3. CASE Refuse("failed")
    BY <1>3, <2>3 DEF Refuse
  <2>4. CASE Join(r, c, seen, copy)
    BY <1>3, <1>5, <2>2, <2>4 DEF Joined
  <2>5. QED
    BY <2>1, <2>3, <2>4
<1>6. QED
  BY <1>2, <1>4, <1>5

(* Its subscriptions: one more of the chat, and of another that it takes   *)
(* the repository from, one less.                                          *)
Moved(r, c, seen) ==
  \/ seen = {} /\ subs' = [subs EXCEPT ![r][c] = @ + 1]
  \/ \E d \in seen : /\ subs[r][d] > 0 /\ d # c /\ d \in Chats
                    /\ subs' = [subs EXCEPT ![r][d] = @ - 1,
                                           ![r][c] = @ + 1]

(* What it does to the tables.                                             *)
LEMMA JoinLemma ==
  ASSUME SubTypeOK, NEW r \in Repos, NEW c \in Chats,
         NEW seen \in SUBSET Owners(r), c \notin seen,
         NEW copy \in Copies(r, c), Join(r, c, seen, copy)
  PROVE  /\ Moved(r, c, seen)
         /\ subs' \in [Repos -> [Chats -> Nat]]
         /\ rows' \in [Repos -> [Names -> States]]
         /\ pool' \in [Repos -> SUBSET Users]
         /\ rows'[r] = Created(Remaining(r, seen).row, copy.names)
         /\ pool'[r] = Remaining(r, seen).pool \union copy.users
<1>1. /\ Remaining(r, seen).row \in [Names -> States]
      /\ Remaining(r, seen).pool \in SUBSET Users
  BY RemainingLemma
<1>2. copy.users \in SUBSET Users
  BY CopiesLemma
<1>3. /\ rows' = [rows EXCEPT
                    ![r] = Created(Remaining(r, seen).row, copy.names)]
      /\ pool' = [pool EXCEPT ![r] = Remaining(r, seen).pool \union copy.users]
  BY DEF Join
<1>4. Created(Remaining(r, seen).row, copy.names) \in [Names -> States]
  BY <1>1, RowLemma
<1>5. PICK left \in TakenOver(r, seen) : subs' = [left EXCEPT ![r][c] = @ + 1]
  BY DEF Join
<1>6. ASSUME seen = {}
      PROVE  /\ subs' = [subs EXCEPT ![r][c] = @ + 1]
             /\ subs' \in [Repos -> [Chats -> Nat]]
  BY <1>5, <1>6 DEF TakenOver, SubTypeOK
<1>7. ASSUME seen # {}
      PROVE  /\ subs' \in [Repos -> [Chats -> Nat]]
             /\ \E d \in seen : /\ subs[r][d] > 0 /\ d # c /\ d \in Chats
                              /\ subs' = [subs EXCEPT ![r][d] = @ - 1,
                                                     ![r][c] = @ + 1]
  <2>1. PICK d \in seen : left = Without(r, d)
    BY <1>5, <1>7 DEF TakenOver
  <2>2. subs[r][d] > 0 /\ d \in Chats /\ d # c
    BY DEF Owners
  <2>3. subs' = [subs EXCEPT ![r][d] = @ - 1, ![r][c] = @ + 1]
    BY <1>5, <2>1 DEF Without
  <2>4. subs' \in [Repos -> [Chats -> Nat]]
    BY <2>2, <2>3 DEF SubTypeOK
  <2>5. QED
    BY <2>2, <2>3, <2>4
<1>8. subs' \in [Repos -> [Chats -> Nat]] /\ Moved(r, c, seen)
  BY <1>6, <1>7 DEF Moved
<1>9. /\ rows' \in [Repos -> [Names -> States]]
      /\ pool' \in [Repos -> SUBSET Users]
  BY <1>1, <1>2, <1>3, <1>4 DEF SubTypeOK
<1>10. QED
  BY <1>3, <1>8, <1>9 DEF SubTypeOK

-----------------------------------------------------------------------------
(* Types.                                                                  *)

(* Every variable keeps its type: in particular a row is never there       *)
(* twice, live and deleted, so that what was deleted once is gone for      *)
(* good.                                                                   *)
THEOREM SubscriptionsTyped == SubSpec => []SubTypeOK
<1>1. SubInit => SubTypeOK
  BY SubscriptionsAssumption DEF SubInit, SubTypeOK, States, Nobody
<1>2. SubTypeOK /\ [SubNext]_subVars => SubTypeOK'
  <2> SUFFICES ASSUME SubTypeOK, [SubNext]_subVars PROVE SubTypeOK'
    OBVIOUS
  <2> USE SubscriptionsAssumption
  <2>0. /\ \A r \in Repos : rows[r] \in [Names -> States]
        /\ Command => given' \in 0 .. MaxGiven /\ pending = Nobody
    BY DEF SubTypeOK, Command
  <2>1. ASSUME NEW c \in Chats, AddSetting(c) PROVE SubTypeOK'
    BY <2>0, <2>1, RowLemma DEF AddSetting, Configures, SubTypeOK
  <2>2. ASSUME NEW c \in Chats, ClearSetting(c) PROVE SubTypeOK'
    BY <2>0, <2>2, RowLemma DEF ClearSetting, Configures, SubTypeOK
  <2>3. ASSUME NEW c \in Chats, SetReviewers(c) PROVE SubTypeOK'
    <3>1. pool' \in [Repos -> SUBSET Users]
      <4>1. \A r \in Repos : pool[r] \in SUBSET Users
        BY DEF SubTypeOK
      <4>2. ASSUME NEW u \in Users,
                   pool' = [r \in Repos |-> IF r \in ReposOf(c)
                                             THEN pool[r] \union {u}
                                             ELSE pool[r]]
            PROVE  pool' \in [Repos -> SUBSET Users]
        <5>1. \A r \in Repos : (IF r \in ReposOf(c) THEN pool[r] \union {u}
                                                   ELSE pool[r])
                                  \in SUBSET Users
          BY <4>1
        <5>2. QED
          BY <4>2, <5>1
      <4>3. CASE pool' = [r \in Repos |-> IF r \in ReposOf(c) THEN {}
                                                             ELSE pool[r]]
        BY <4>1, <4>3
      <4>4. QED
        BY <2>3, <4>2, <4>3 DEF SetReviewers
    <3>2. QED
      BY <2>0, <2>3, <3>1 DEF SetReviewers, Configures, SubTypeOK
  <2>4. ASSUME NEW c \in Chats, ClearManagers(c) PROVE SubTypeOK'
    <3>1. rows' \in [Repos -> [Names -> States]]
      BY <2>0, <2>4, RowLemma DEF ClearManagers
    <3>2. pending' \in [repos : SUBSET Repos, managers : SUBSET Managers]
      BY <2>4 DEF ClearManagers, ReposOf
    <3>3. QED
      BY <2>0, <2>4, <3>1, <3>2 DEF ClearManagers, Configures, SubTypeOK
  <2>5. ASSUME NEW c \in Chats, Unsubscribe(c) PROVE SubTypeOK'
    <3>1. PICK r \in ReposOf(c) : subs' = Without(r, c)
      BY <2>5 DEF Unsubscribe
    <3>2. subs' \in [Repos -> [Chats -> Nat]]
      BY <3>1 DEF ReposOf, Without, SubTypeOK
    <3>3. QED
      BY <2>0, <2>5, <3>2 DEF Unsubscribe, SubTypeOK
  <2>6. ASSUME NEW c \in Chats, NEW force \in BOOLEAN, Subscribe(c, force)
        PROVE  SubTypeOK'
    <3>1. Command
      BY <2>6, SubscribeLemma
    <3>2. CASE /\ UNCHANGED <<subs, rows, pool, pending, misread>>
               /\ refused' \in {"subscribed", "owned", "failed"}
      BY <2>0, <3>1, <3>2 DEF SubTypeOK
    <3>3. ASSUME NEW r \in Repos, Joined(r, c)
          PROVE  SubTypeOK'
      <4>1. PICK seen \in SUBSET Owners(r), copy \in Copies(r, c) :
              c \notin seen /\ Join(r, c, seen, copy)
        BY <3>3 DEF Joined
      <4>2. /\ subs' \in [Repos -> [Chats -> Nat]]
            /\ rows' \in [Repos -> [Names -> States]]
            /\ pool' \in [Repos -> SUBSET Users]
        BY <4>1, JoinLemma
      <4>3. /\ misread' \subseteq Repos
            /\ refused' = "no" /\ UNCHANGED pending
        BY <4>1 DEF Join, SubTypeOK
      <4>4. QED
        BY <2>0, <3>1, <4>2, <4>3 DEF SubTypeOK
    <3>4. QED
      BY <2>6, <3>2, <3>3, SubscribeLemma
  <2>7. CASE CreateManagers
    BY <2>0, <2>7, RowLemma DEF CreateManagers, Nobody, SubTypeOK
  <2>8. CASE GiveUp
    BY <2>0, <2>8, RowLemma DEF GiveUp, Nobody, SubTypeOK
  <2>9. CASE UNCHANGED subVars
    BY <2>9 DEF subVars, SubTypeOK
  <2>10. QED
    BY <2>1, <2>2, <2>3, <2>4, <2>5, <2>6, <2>7, <2>8, <2>9 DEF SubNext
<1>3. QED
  BY <1>1, <1>2, PTL DEF SubSpec

-----------------------------------------------------------------------------
(* Ownership.                                                              *)

(* A step is a /subscribe that succeeds, or makes no subscription.         *)
LEMMA GainLemma ==
  ASSUME SubTypeOK, [SubNext]_subVars
  PROVE  \/ \E r \in Repos, c \in Chats : Joined(r, c)
         \/ /\ UNCHANGED misread
            /\ \/ UNCHANGED subs
               \/ \E r \in Repos, c \in Chats :
                    subs[r][c] > 0 /\ subs' = Without(r, c)
<1>1. CASE \E c \in Chats, force \in BOOLEAN : Subscribe(c, force)
  BY <1>1, SubscribeLemma
<1>2. CASE \E c \in Chats : Unsubscribe(c)
  BY <1>2 DEF Unsubscribe, ReposOf
<1>3. CASE \/ \E c \in Chats : \/ AddSetting(c) \/ ClearSetting(c)
                              \/ SetReviewers(c) \/ ClearManagers(c)
           \/ CreateManagers \/ GiveUp \/ UNCHANGED subVars
  BY <1>3 DEF subVars, AddSetting, ClearSetting, SetReviewers, ClearManagers,
              CreateManagers, GiveUp
<1>4. QED
  BY <1>1, <1>2, <1>3 DEF SubNext

(* No sequence of /subscribe, /unsubscribe and take-overs gives a          *)
(* repository to two chats, although only the lookups in the transaction   *)
(* say so, unless one of those fails.                                      *)
THEOREM OwnedOnce == SubSpec => []OneOwner
<1>1. SubInit => OneOwner
  BY DEF SubInit, OneOwner, Owners
<1>2. SubTypeOK /\ OneOwner /\ [SubNext]_subVars => OneOwner'
  <2> SUFFICES ASSUME SubTypeOK, OneOwner, [SubNext]_subVars,
                      NEW q \in Repos \ misread',
                      NEW a \in Chats, NEW b \in Chats,
                      subs'[q][a] > 0, subs'[q][b] > 0
               PROVE  a = b /\ subs'[q][a] = 1
    BY DEF OneOwner, Owners
  <2>0. \A r \in Repos : subs[r] \in [Chats -> Nat]
    BY DEF SubTypeOK
  <2>1. q \notin misread => \A c, d \in Chats :
          subs[q][c] > 0 /\ subs[q][d] > 0 => c = d /\ subs[q][c] = 1
    BY DEF OneOwner, Owners
  <2>2. CASE \E r \in Repos, c \in Chats : Joined(r, c)
    <3>1. PICK r \in Repos : \E c \in Chats : Joined(r, c)
      BY <2>2
    <3>2. PICK c \in Chats : Joined(r, c)
      BY <3>1
    <3>3. PICK seen \in SUBSET Owners(r), copy \in Copies(r, c) :
            c \notin seen /\ Join(r, c, seen, copy)
      BY <3>2 DEF Joined
    <3>4. /\ misread' = misread \union {p \in {r} : seen # Owners(r)}
          /\ q \notin misread
      BY <3>3 DEF Join
    <3>5. Moved(r, c, seen)
      BY <3>3, JoinLemma
    <3>6. CASE q # r
      <4>1. subs'[q] = subs[q]
        BY <3>5, <3>6 DEF Moved, SubTypeOK
      <4>2. QED
        BY <2>1, <3>4, <4>1
    <3>7. CASE q = r
      <4>1. seen = Owners(r) /\ subs[r][c] = 0
        BY <2>0, <3>3, <3>4, <3>7 DEF Owners
      <4>2. CASE seen = {} /\ subs' = [subs EXCEPT ![r][c] = @ + 1]
        <5>1. \A e \in Chats : subs[r][e] = 0
          BY <2>0, <4>1, <4>2 DEF Owners
        <5>2. \A e \in Chats : subs'[r][e] = IF e = c THEN 1 ELSE 0
          BY <2>0, <4>2, <5>1 DEF SubTypeOK
        <5>3. QED
          BY <3>7, <5>2
      <4>3. ASSUME NEW d \in seen, subs[r][d] > 0, d # c, d \in Chats,
                   subs' = [subs EXCEPT ![r][d] = @ - 1, ![r][c] = @ + 1]
            PROVE  a = b /\ subs'[q][a] = 1
        <5>1. \A e \in Chats : subs[r][e] = IF e = d THEN 1 ELSE 0
          BY <2>0, <2>1, <3>4, <3>7, <4>3
        <5>2. \A e \in Chats : subs'[r][e] = IF e = c THEN 1 ELSE 0
          BY <2>0, <4>3, <5>1 DEF SubTypeOK
        <5>3. QED
          BY <3>7, <5>2
      <4>4. QED
        BY <3>5, <4>2, <4>3 DEF Moved
    <3>8. QED
      BY <3>6, <3>7
  <2>3. CASE UNCHANGED <<subs, misread>>
    BY <2>1, <2>3
  <2>4. CASE /\ UNCHANGED misread
             /\ \E r \in Repos, c \in Chats :
                  subs[r][c] > 0 /\ subs' = Without(r, c)
    <3>1. PICK r \in Repos, c \in Chats :
            subs[r][c] > 0 /\ subs' = Without(r, c)
      BY <2>4
    <3>2. \A e \in Chats :
            subs'[q][e] = IF q = r /\ e = c THEN subs[q][e] - 1 ELSE subs[q][e]
      BY <3>1 DEF Without, SubTypeOK
    <3>3. /\ subs[q][a] \in Nat /\ subs[q][b] \in Nat
          /\ subs[q][a] > 0 /\ subs[q][b] > 0
      BY <2>0, <3>2
    <3>4. a = b /\ subs[q][a] = 1
      BY <2>1, <2>4, <3>3
    <3>5. QED
      BY <3>2, <3>4
  <2>5. QED
    BY <2>2, <2>3, <2>4, GainLemma
<1>3. QED
  BY <1>1, <1>2, SubscriptionsTyped, PTL DEF SubSpec

(* What a chat finds configured after a take-over comes from its other     *)
(* repositories, or is of the kinds that a take-over does not touch.       *)
LEMMA TakeOverStep ==
  ASSUME SubTypeOK, [SubNext]_subVars,
         NEW r \in Repos, NEW c \in Chats, NEW d \in Chats, c # d,
         subs'[r][d] < subs[r][d], subs[r][c] < subs'[r][c]
  PROVE  LET rest == ReposOf(c) \ {r}
         IN  /\ Live(rows'[r]) \ Kept
                  \subseteq UNION {Live(rows[s]) : s \in rest}
             /\ pool'[r] \subseteq UNION {pool[s] : s \in rest}
             /\ \A n \in Kept : rows'[r][n] = rows[r][n]
<1>0. /\ \A q \in Repos : subs[q] \in [Chats -> Nat]
      /\ subs[r][c] \in Nat /\ subs[r][d] \in Nat
  BY DEF SubTypeOK
<1>1. \E q \in Repos, e \in Chats : Joined(q, e)
  <2>1. ~ UNCHANGED subs
    BY <1>0
  <2>2. \A q \in Repos, e \in Chats : subs' # Without(q, e)
    <3> SUFFICES ASSUME NEW q \in Repos, NEW e \in Chats, subs' = Without(q, e)
                 PROVE  FALSE
      OBVIOUS
    <3>1. subs'[r][c] = IF q = r /\ e = c THEN subs[r][c] - 1 ELSE subs[r][c]
      BY DEF Without, SubTypeOK
    <3>2. QED
      BY <1>0, <3>1
  <2>3. QED
    BY <2>1, <2>2, GainLemma
<1>2. PICK q \in Repos : \E e \in Chats : Joined(q, e)
  BY <1>1
<1>3. PICK e \in Chats : Joined(q, e)
  BY <1>2
<1>4. PICK seen \in SUBSET Owners(q), copy \in Copies(q, e) :
        e \notin seen /\ Join(q, e, seen, copy)
  BY <1>3 DEF Joined
<1>5. /\ Moved(q, e, seen)
      /\ rows'[q] = Created(Remaining(q, seen).row, copy.names)
      /\ pool'[q] = Remaining(q, seen).pool \union copy.users
  BY <1>4, JoinLemma
<1>6. q = r /\ e = c /\ seen # {}
  <2>1. CASE seen = {} /\ subs' = [subs EXCEPT ![q][e] = @ + 1]
    BY <1>0, <2>1 DEF SubTypeOK
  <2>2. ASSUME NEW f \in seen, f \in Chats, f # e,
               subs' = [subs EXCEPT ![q][f] = @ - 1, ![q][e] = @ + 1]
        PROVE  q = r /\ e = c
    BY <1>0, <2>2 DEF SubTypeOK
  <2>3. QED
    BY <1>5, <2>1, <2>2 DEF Moved
<1>7. /\ Remaining(r, seen).row \in [Names -> States]
      /\ Live(Remaining(r, seen).row) \subseteq Kept
      /\ Remaining(r, seen).pool = {}
      /\ \A n \in Kept : Remaining(r, seen).row[n] = rows[r][n]
  BY <1>6, RemainingLemma
<1>8. /\ copy.names \subseteq Passing
      /\ copy.names \subseteq UNION {Live(rows[s]) : s \in ReposOf(c) \ {r}}
      /\ copy.users \subseteq UNION {pool[s] : s \in ReposOf(c) \ {r}}
  BY <1>4, <1>6, CopiesLemma
<1>9. Live(rows'[r]) \subseteq Kept \union copy.names
  BY <1>5, <1>6, <1>7, RowLemma
<1>10. \A n \in Kept : rows'[r][n] = rows[r][n]
  <2>1. \A n \in Kept : n \in Names \ copy.names
    BY <1>8, SubscriptionsAssumption DEF Names
  <2>2. QED
    BY <1>5, <1>6, <1>7, <2>1, RowLemma
<1>11. QED
  BY <1>5, <1>6, <1>7, <1>8, <1>9, <1>10

(* So of the settings a take-over clears nothing is inherited from the     *)
(* chat before, and the others all are.                                    *)
THEOREM TakeOverInherits == SubSpec => TakeOverClean
<1>1. SubTypeOK /\ [SubNext]_subVars =>
        [\A r \in Repos, c, d \in Chats :
           /\ c # d
           /\ subs'[r][d] < subs[r][d] /\ subs[r][c] < subs'[r][c]
           => LET rest == ReposOf(c) \ {r}
              IN  /\ Live(rows'[r]) \ Kept
                       \subseteq UNION {Live(rows[s]) : s \in rest}
                  /\ pool'[r] \subseteq UNION {pool[s] : s \in rest}
                  /\ \A n \in Kept : rows'[r][n] = rows[r][n]]_subVars
  BY TakeOverStep
<1>2. QED
  BY <1>1, SubscriptionsTyped, PTL DEF SubSpec, TakeOverClean

-----------------------------------------------------------------------------
(* The personal digest.                                                    *)


(* The hour written last is stored in the row, unless a command has put    *)
(* an older one back.  That takes the copy the command has in hand.        *)
StoredOK ==
  /\ ~ undone => row.last = written
  /\ row.last <= written /\ draft.last <= written
  /\ written <= now

(* The day the tick has looked up has begun.                               *)
DayOK == pc = "lock" => today <= Day(now, pref.zone)

(* In a steady hour the tick knows the row as it is, and the day.          *)
FreshOK ==
  steady => /\ pc # "idle" => pref.zone = row.zone /\ row.enabled
            /\ pc = "lock" => today = Day(now, row.zone)

(* In a steady hour a time that was stored is followed by a digest if one  *)
(* is due, and a tick that has ended has left either of them.              *)
RowToday == row.last # Never /\ Day(row.last, row.zone) >= Day(now, row.zone)

SentOK ==
  steady /\ DigestDue =>
    /\ written = now => pc = "send" \/ sent = now
    /\ ticked => sent = now \/ (pc # "send" /\ RowToday)

IInv ==
  /\ TypeOK
  /\ StoredOK
  /\ DayOK
  /\ FreshOK
  /\ SentOK

-----------------------------------------------------------------------------
(* Days and rows.                                                          *)

(* The hours are whole numbers, and so are days.                           *)
LEMMA HourType ==
  /\ Hours \subseteq Int /\ Never \in Hours /\ Start .. MaxHour \subseteq Hours
  /\ NoRow \in Rows
  /\ \A z \in Zones : z \in Int
BY DigestAssumption DEF Hours, Never, NoRow, Rows

(* A later hour is not on an earlier day.                                  *)
LEMMA DayGrows ==
  ASSUME NEW h \in Int, NEW k \in Int, h <= k, NEW z \in Int
  PROVE  Day(h, z) \in Int /\ Day(h, z) <= Day(k, z)
BY DEF Day

(* What the command saves is a row, with the LastSentAt it has read.       *)
LEMMA SavedRow ==
  ASSUME NEW r \in Rows, NEW c \in Changed(r)
  PROVE  Defaulted(c) \in Rows /\ Defaulted(c).last = r.last
<1>1. c \in Rows /\ c.last = r.last
  BY DEF Changed, Rows
<1>2. QED
  BY <1>1, DigestAssumption DEF Defaulted, Rows

-----------------------------------------------------------------------------
(* The invariant.                                                          *)

(* The initial states satisfy the invariant.                               *)
LEMMA InitInvariant == Init => IInv
<1> SUFFICES ASSUME Init
             PROVE  IInv
  OBVIOUS
<1>1. TypeOK
  <2>1. ticked \in BOOLEAN /\ undone \in BOOLEAN /\ steady \in BOOLEAN
    BY DEF Init
  <2>2. now \in Start .. MaxHour /\ commands \in 0 .. MaxCommands
    BY DigestAssumption DEF Init
  <2>3. /\ row \in Rows /\ draft \in Rows /\ pref \in Rows
        /\ written \in Hours /\ sent \in Hours
    BY HourType DEF Init
  <2>4. /\ own = {} /\ holidays = {} /\ pc = "idle" /\ today = 0
    BY DEF Init
  <2>5. QED
    BY <2>1, <2>2, <2>3, <2>4 DEF TypeOK
<1>2. StoredOK /\ DayOK /\ FreshOK
  BY DigestAssumption DEF Init, StoredOK, DayOK, FreshOK, NoRow, Never
<1>3. SentOK
  BY DEF Init, SentOK, DigestDue, NoRow
<1>4. QED
  BY <1>1, <1>2, <1>3 DEF IInv

(* Every step keeps the types.                                             *)
LEMMA TypeStep ==
  ASSUME TypeOK, [Next]_vars
  PROVE  TypeOK'
<1> USE DigestAssumption
<1>1. CASE NextHour
  <2>1. now' \in Start .. MaxHour
    BY <1>1 DEF NextHour, TypeOK
  <2>2. own' \subseteq Projects /\ holidays' \subseteq Projects
    BY <1>1 DEF NextHour
  <2>3. steady' \in BOOLEAN
    BY <1>1, Zenon DEF NextHour
  <2>4. ticked' \in BOOLEAN /\ UNCHANGED <<row, draft, commands, pc, pref,
                                        today, history>>
    BY <1>1 DEF NextHour
  <2>5. QED
    BY <2>1, <2>2, <2>3, <2>4 DEF history, TypeOK
<1>2. CASE ReadRow
  <2>1. draft' \in Rows
    BY <1>2 DEF ReadRow, TypeOK, Rows
  <2>2. commands' \in 0 .. MaxCommands
    BY <1>2 DEF ReadRow, TypeOK
  <2>3. QED
    BY <2>1, <2>2, <1>2 DEF ReadRow, clock, history, TypeOK
<1>3. CASE SaveRow
  <2>1. row' \in Rows
    BY <1>3, SavedRow DEF SaveRow, TypeOK
  <2>2. QED
    BY <2>1, <1>3, HourType DEF SaveRow, clock, history, TypeOK
<1>4. CASE SaveFails
  BY <1>4, HourType DEF SaveFails, clock, history, TypeOK
<1>5. CASE NotEnabled
  BY <1>5, HourType DEF NotEnabled, Done, clock, history, TypeOK
<1>6. CASE Tick
  BY <1>6, HourType DEF Tick, clock, history, TypeOK
<1>7. CASE NotDue
  BY <1>7, HourType DEF NotDue, Done, clock, history, TypeOK
<1>8. CASE Look
  <2>1. today' \in Int
    BY <1>8, HourType, DigestAssumption DEF Look, Day, TypeOK, Rows
  <2>2. QED
    BY <2>1, <1>8 DEF Look, clock, history, TypeOK
<1>9. CASE AlreadySent
  BY <1>9, HourType DEF AlreadySent, Done, clock, history, TypeOK
<1>10. CASE Claim
  BY <1>10, HourType DEF Claim, Rows, clock, history, TypeOK
<1>11. CASE SkipHoliday
  BY <1>11, HourType DEF SkipHoliday, Done, clock, history, TypeOK
<1>12. CASE Send
  BY <1>12, HourType DEF Send, Done, clock, history, TypeOK
<1>13. CASE Stop
  <2>1. /\ pc' = "idle" /\ pref' = NoRow /\ today' = 0
         /\ UNCHANGED <<now, own, holidays, draft, commands, row, history>>
    BY <1>13 DEF Stop, Done
  <2>2. ticked' \in BOOLEAN /\ steady' \in BOOLEAN
    BY <1>13 DEF Stop, Done
  <2>3. QED
    BY <2>1, <2>2, HourType DEF history, TypeOK
<1>14. CASE Crash
  <2>1. /\ pc' = "idle" /\ pref' = NoRow /\ today' = 0 /\ draft' = NoRow
         /\ UNCHANGED <<clock, commands, row, history>>
    BY <1>14 DEF Crash
  <2>2. steady' \in BOOLEAN
    BY <1>14 DEF Crash
  <2>3. QED
    BY <2>1, <2>2, HourType DEF clock, history, TypeOK
<1>15. CASE UNCHANGED vars
  BY <1>15 DEF vars, clock, history, TypeOK
<1>16. QED
  BY <1>1, <1>2, <1>3, <1>4, <1>5, <1>6, <1>7, <1>8, <1>9, <1>10, <1>11,
    <1>12, <1>13, <1>14, <1>15
  DEF Next

(* The hours and zones of a state are whole numbers.                       *)
LEMMA HourFacts ==
  ASSUME TypeOK
  PROVE  /\ now \in Int /\ now \in Hours /\ today \in Int
         /\ row.last \in Int /\ draft.last \in Int /\ written \in Int
         /\ sent \in Int /\ now # Never /\ now >= 0 /\ written >= Never
         /\ row.last >= Never
         /\ row.zone \in Int /\ pref.zone \in Int
<1>1. now \in Start .. MaxHour /\ today \in Int
  BY DEF TypeOK
<1>2. \A h \in Hours : h \in Int /\ h >= Never
  BY DigestAssumption DEF Hours, Never
<1>3. /\ row.last \in Hours /\ draft.last \in Hours /\ written \in Hours
      /\ sent \in Hours /\ row.zone \in Zones /\ pref.zone \in Zones
  BY DEF TypeOK, Rows
<1>4. now \in Int /\ now \in Hours /\ now # Never /\ now >= 0
  BY <1>1, DigestAssumption DEF Hours, Never
<1>5. QED
  BY <1>1, <1>2, <1>3, <1>4, HourType

(* Every step keeps the rows in step with what was written.                *)
LEMMA StoredStep ==
  ASSUME IInv, [Next]_vars
  PROVE  StoredOK'
<1>1. CASE NextHour
  BY <1>1, HourFacts DEF NextHour, clock, history, IInv, StoredOK
<1>2. CASE ReadRow
  BY <1>2, HourFacts DEF ReadRow, TypeOK, Rows, clock, history, IInv, StoredOK
<1>3. CASE SaveRow
  <2>1. row'.last = draft.last
    BY <1>3, SavedRow DEF SaveRow, IInv, TypeOK
  <2>2. QED
    BY <2>1, <1>3, HourFacts DEF SaveRow, clock, IInv, StoredOK, NoRow,
       Never
<1>4. CASE SaveFails
  BY <1>4, HourFacts DEF SaveFails, NoRow, Never, clock, history, IInv,
    StoredOK
<1>5. CASE NotEnabled
  BY <1>5, HourFacts DEF NotEnabled, Done, clock, history, IInv, StoredOK
<1>6. CASE Tick
  BY <1>6, HourFacts DEF Tick, clock, history, IInv, StoredOK
<1>7. CASE NotDue
  BY <1>7, HourFacts DEF NotDue, Done, clock, history, IInv, StoredOK
<1>8. CASE Look
  BY <1>8, HourFacts DEF Look, clock, history, IInv, StoredOK
<1>9. CASE AlreadySent
  BY <1>9, HourFacts DEF AlreadySent, Done, clock, history, IInv, StoredOK
<1>10. CASE Claim
  BY <1>10, HourFacts DEF Claim, TypeOK, Rows, clock, history, IInv, StoredOK
<1>11. CASE SkipHoliday
  BY <1>11, HourFacts DEF SkipHoliday, Done, clock, history, IInv, StoredOK
<1>12. CASE Send
  BY <1>12, HourFacts DEF Send, Done, clock, history, IInv, StoredOK
<1>13. CASE Stop
  BY <1>13, HourFacts DEF Stop, Done, clock, history, IInv, StoredOK
<1>14. CASE Crash
  BY <1>14, HourFacts DEF Crash, NoRow, Never, clock, history, IInv, StoredOK
<1>15. CASE UNCHANGED vars
  BY <1>15 DEF vars, clock, history, IInv, StoredOK
<1>16. QED
  BY <1>1, <1>2, <1>3, <1>4, <1>5, <1>6, <1>7, <1>8, <1>9, <1>10, <1>11,
    <1>12, <1>13, <1>14, <1>15
  DEF Next

(* Every step keeps the day the tick has looked up.                        *)
LEMMA DayStep ==
  ASSUME IInv, [Next]_vars
  PROVE  DayOK'
<1>1. CASE NextHour
  <2>1. ASSUME pc = "lock"
        PROVE  today <= Day(now + 1, pref.zone)
    <3>1. TypeOK /\ today <= Day(now, pref.zone)
      BY <2>1 DEF IInv, DayOK
    <3>2. /\ now \in Int /\ now + 1 \in Int /\ now <= now + 1
          /\ today \in Int /\ pref.zone \in Int
      BY <3>1, HourFacts
    <3>3. /\ Day(now, pref.zone) \in Int /\ Day(now + 1, pref.zone) \in Int
          /\ Day(now, pref.zone) <= Day(now + 1, pref.zone)
      BY <3>2 DEF Day
    <3>4. QED
      BY <3>1, <3>2, <3>3
  <2>2. QED
    BY <2>1, <1>1 DEF NextHour, history, DayOK
<1>2. CASE ReadRow
  BY <1>2, HourFacts DEF ReadRow, clock, history, IInv, DayOK
<1>3. CASE SaveRow
  BY <1>3, HourFacts DEF SaveRow, clock, history, IInv, DayOK
<1>4. CASE SaveFails
  BY <1>4, HourFacts DEF SaveFails, clock, history, IInv, DayOK
<1>5. CASE NotEnabled
  BY <1>5, HourFacts DEF NotEnabled, Done, clock, history, IInv, DayOK
<1>6. CASE Tick
  BY <1>6, HourFacts DEF Tick, clock, history, IInv, DayOK
<1>7. CASE NotDue
  BY <1>7, HourFacts DEF NotDue, Done, clock, history, IInv, DayOK
<1>8. CASE Look
  <2>1. now \in Int /\ pref.zone \in Int
    BY HourFacts DEF IInv
  <2>2. Day(now, pref.zone) \in Int
    BY <2>1 DEF Day
  <2>3. today' = Day(now, pref.zone) /\ UNCHANGED <<now, pref>>
    BY <1>8 DEF Look, clock
  <2>4. QED
    BY <2>2, <2>3 DEF DayOK, Day
<1>9. CASE AlreadySent
  BY <1>9, HourFacts DEF AlreadySent, Done, clock, history, IInv, DayOK
<1>10. CASE Claim
  BY <1>10, HourFacts DEF Claim, clock, history, IInv, DayOK
<1>11. CASE SkipHoliday
  BY <1>11, HourFacts DEF SkipHoliday, Done, clock, history, IInv, DayOK
<1>12. CASE Send
  BY <1>12, HourFacts DEF Send, Done, clock, history, IInv, DayOK
<1>13. CASE Stop
  BY <1>13, HourFacts DEF Stop, Done, clock, history, IInv, DayOK
<1>14. CASE Crash
  BY <1>14, HourFacts DEF Crash, clock, history, IInv, DayOK
<1>15. CASE UNCHANGED vars
  BY <1>15 DEF vars, clock, history, IInv, DayOK
<1>16. QED
  BY <1>1, <1>2, <1>3, <1>4, <1>5, <1>6, <1>7, <1>8, <1>9, <1>10, <1>11,
    <1>12, <1>13, <1>14, <1>15
  DEF Next

(* Every step keeps the tick's knowledge of a steady hour.                 *)
LEMMA FreshStep ==
  ASSUME IInv, [Next]_vars
  PROVE  FreshOK'
<1>1. CASE NextHour
  BY <1>1, HourFacts DEF NextHour, clock, history, IInv, FreshOK
<1>2. CASE ReadRow
  BY <1>2, HourFacts DEF ReadRow, clock, history, IInv, FreshOK
<1>3. CASE SaveRow
  BY <1>3, HourFacts DEF SaveRow, clock, history, IInv, FreshOK
<1>4. CASE SaveFails
  BY <1>4, HourFacts DEF SaveFails, clock, history, IInv, FreshOK
<1>5. CASE NotEnabled
  BY <1>5, HourFacts DEF NotEnabled, Done, clock, history, IInv, FreshOK
<1>6. CASE Tick
  BY <1>6, HourFacts DEF Tick, clock, history, IInv, FreshOK
<1>7. CASE NotDue
  BY <1>7, HourFacts DEF NotDue, Done, clock, history, IInv, FreshOK
<1>8. CASE Look
  BY <1>8, HourFacts DEF Look, clock, history, IInv, FreshOK
<1>9. CASE AlreadySent
  BY <1>9, HourFacts DEF AlreadySent, Done, clock, history, IInv, FreshOK
<1>10. CASE Claim
  BY <1>10, HourFacts DEF Claim, TypeOK, Rows, clock, history, IInv, FreshOK
<1>11. CASE SkipHoliday
  BY <1>11, HourFacts DEF SkipHoliday, Done, clock, history, IInv, FreshOK
<1>12. CASE Send
  BY <1>12, HourFacts DEF Send, Done, clock, history, IInv, FreshOK
<1>13. CASE Stop
  BY <1>13, HourFacts DEF Stop, Done, clock, history, IInv, FreshOK
<1>14. CASE Crash
  BY <1>14, HourFacts DEF Crash, clock, history, IInv, FreshOK
<1>15. CASE UNCHANGED vars
  BY <1>15 DEF vars, clock, history, IInv, FreshOK
<1>16. QED
  BY <1>1, <1>2, <1>3, <1>4, <1>5, <1>6, <1>7, <1>8, <1>9, <1>10, <1>11,
    <1>12, <1>13, <1>14, <1>15
  DEF Next

(* Every step keeps the digest of a steady hour.                           *)
LEMMA SentStep ==
  ASSUME IInv, [Next]_vars
  PROVE  SentOK'
<1>1. CASE NextHour
  <2>1. written' # now' /\ ~ ticked'
    BY <1>1, HourFacts DEF NextHour, history, IInv, StoredOK
  <2>2. QED
    BY <2>1 DEF SentOK
<1>2. CASE ReadRow
  BY <1>2, HourFacts DEF ReadRow, clock, history, IInv, SentOK, FreshOK,
    DigestDue, RowToday
<1>3. CASE SaveRow
  BY <1>3, HourFacts DEF SaveRow, clock, history, IInv, SentOK, FreshOK,
    DigestDue, RowToday
<1>4. CASE SaveFails
  BY <1>4, HourFacts DEF SaveFails, clock, history, IInv, SentOK, FreshOK,
    DigestDue, RowToday
<1>5. CASE NotEnabled
  BY <1>5, HourFacts DEF NotEnabled, Done, clock, history, IInv, SentOK,
    FreshOK, DigestDue, RowToday
<1>6. CASE Tick
  BY <1>6, HourFacts DEF Tick, clock, history, IInv, SentOK, FreshOK,
    DigestDue, RowToday
<1>7. CASE NotDue
  BY <1>7, HourFacts DEF NotDue, Done, Due, clock, history, IInv, SentOK,
    FreshOK, DigestDue, RowToday
<1>8. CASE Look
  BY <1>8, HourFacts DEF Look, clock, history, IInv, SentOK, FreshOK,
    DigestDue, RowToday
<1>9. CASE AlreadySent
  BY <1>9, HourFacts DEF AlreadySent, Done, SentToday, clock, history, IInv,
    SentOK, FreshOK, DigestDue, RowToday
<1>10. CASE Claim
  <2>1. steady /\ DigestDue /\ ticked => sent = now
    BY <1>10, HourFacts DEF Claim, SentToday, IInv, SentOK, FreshOK, RowToday
  <2>2. DigestDue' => DigestDue
    BY <1>10 DEF Claim, clock, DigestDue, IInv, TypeOK, Rows
  <2>3. QED
    BY <2>1, <2>2, <1>10 DEF Claim, clock, SentOK
<1>11. CASE SkipHoliday
  BY <1>11, HourFacts DEF SkipHoliday, Done, Holiday, clock, history, IInv,
    SentOK, FreshOK, DigestDue, RowToday
<1>12. CASE Send
  BY <1>12, HourFacts DEF Send, Done, clock, history, IInv, SentOK, FreshOK,
    DigestDue, RowToday
<1>13. CASE Stop
  BY <1>13, HourFacts DEF Stop, Done, clock, history, IInv, SentOK, FreshOK,
    DigestDue, RowToday
<1>14. CASE Crash
  BY <1>14, HourFacts DEF Crash, clock, history, IInv, SentOK, FreshOK,
    DigestDue, RowToday
<1>15. CASE UNCHANGED vars
  BY <1>15 DEF vars, clock, history, IInv, SentOK, FreshOK, DigestDue, RowToday
<1>16. QED
  BY <1>1, <1>2, <1>3, <1>4, <1>5, <1>6, <1>7, <1>8, <1>9, <1>10, <1>11,
    <1>12, <1>13, <1>14, <1>15
  DEF Next

(* Every step keeps the invariant.                                         *)
LEMMA StepInvariant == IInv /\ [Next]_vars => IInv'
<1> SUFFICES ASSUME IInv, [Next]_vars
             PROVE  IInv'
  OBVIOUS
<1>1. TypeOK'
  BY TypeStep DEF IInv
<1>2. QED
  BY <1>1, StoredStep, DayStep, FreshStep, SentStep DEF IInv

-----------------------------------------------------------------------------
(* The theorems.                                                           *)

(* The invariant holds in every reachable state.                           *)
THEOREM Invariance == Spec => []IInv
BY InitInvariant, StepInvariant, PTL DEF Spec

(* Every variable keeps its type.                                          *)
THEOREM TypeCorrect == Spec => []TypeOK
<1>1. IInv => TypeOK
  BY DEF IInv
<1>2. QED
  BY <1>1, Invariance, PTL

(* A digest follows the one before on a later day of the user, unless a    *)
(* command has put an older LastSentAt back or changed the zone.           *)
THEOREM OneDigestADay == Spec => OncePerDay
<1>1. IInv /\ [Next]_vars
      => [pc = "lock" /\ pc' = "send" /\ written # Never
          => \/ undone
             \/ row.zone # pref.zone
             \/ Day(written, row.zone) < Day(now, row.zone)]_vars
  <2> SUFFICES ASSUME IInv, Next, pc = "lock", pc' = "send",
                      written # Never, ~ undone, row.zone = pref.zone
               PROVE  Day(written, row.zone) < Day(now, row.zone)
    OBVIOUS
  <2>1. Claim
    BY DEF Next, NextHour, ReadRow, SaveRow, SaveFails, NotEnabled, Tick,
           NotDue, Look, AlreadySent, SkipHoliday, Send, Stop, Crash, Done
  <2>2. row.last = written /\ today <= Day(now, row.zone)
    BY DEF IInv, StoredOK, DayOK
  <2>3. Day(written, row.zone) < today
    BY <2>1, <2>2, HourFacts, DayGrows DEF Claim, SentToday, IInv
  <2>4. QED
    <3>1. now \in Int /\ written \in Int /\ row.zone \in Int /\ today \in Int
      BY HourFacts DEF IInv
    <3>2. Day(now, row.zone) \in Int /\ Day(written, row.zone) \in Int
      BY <3>1 DEF Day
    <3>3. QED
      BY <2>2, <2>3, <3>1, <3>2
<1>2. QED
  BY <1>1, Invariance, PTL DEF Spec, OncePerDay

(* No hour after ten ends without a digest that was due, unless a command, *)
(* a failure or a late tick came into it.                                  *)
THEOREM NoneMissed == Spec => NoDayMissed
<1>1. IInv /\ [Next]_vars
      => [(now' # now /\ ticked /\ steady /\ DigestDue)
          => (sent = now \/ HadOneToday)]_vars
  <2> SUFFICES ASSUME IInv, now' # now, ticked, steady, DigestDue,
                      sent # now
               PROVE  HadOneToday
    OBVIOUS
  <2>1. pc # "send" /\ RowToday /\ written # now
    BY DEF IInv, SentOK
  <2>2. row.last <= written /\ written < now /\ written # Never
    BY <2>1, HourFacts DEF IInv, StoredOK, RowToday, Never
  <2>3. Day(row.last, row.zone) <= Day(written, row.zone)
    BY <2>2, HourFacts, DayGrows DEF IInv
  <2>4. Day(written, row.zone) >= Day(now, row.zone)
    <3>1. /\ now \in Int /\ written \in Int /\ row.last \in Int
          /\ row.zone \in Int
      BY HourFacts DEF IInv
    <3>2. /\ Day(now, row.zone) \in Int /\ Day(written, row.zone) \in Int
          /\ Day(row.last, row.zone) \in Int
      BY <3>1 DEF Day
    <3>3. QED
      BY <2>1, <2>3, <3>2 DEF RowToday
  <2>5. QED
    BY <2>2, <2>4 DEF HadOneToday
<1>2. QED
  BY <1>1, Invariance, PTL DEF Spec, NoDayMissed
===============================================================================

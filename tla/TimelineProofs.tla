---------------------------- MODULE TimelineProofs ----------------------------
(***************************************************************************)
(* For any length of a day and any calendar, and for every timeline: what  *)
(* the SLA code computes from the rows is what happened.                   *)
(***************************************************************************)
EXTENDS CachedTimes, FiniteSetTheorems, SequenceTheorems, TLAPS

-----------------------------------------------------------------------------
(* Induction.  The library's rules of induction take an operator; a set of *)
(* numbers does as well.                                                   *)

(* The numbers are well-founded, as a relation.                            *)
LEMMA NatOrder == IsWellFoundedOn({p \in Nat \X Nat : p[1] < p[2]}, Nat)
BY NatLessThanWellFounded, Zenon DEF OpToRel

(* A set of numbers has a least one.                                       *)
LEMMA LeastNumber ==
  ASSUME NEW T, T \subseteq Nat, T # {}
  PROVE  \E x \in T : \A y \in T : x <= y
<1> DEFINE R == {p \in Nat \X Nat : p[1] < p[2]}
<1>1. IsWellFoundedOn(R, Nat)
  BY NatOrder
<1> HIDE DEF R
<1>2. PICK x \in T : \A y \in T : ~ (<<y, x>> \in R)
  BY <1>1, WFMin
<1>3. \A y \in T : ~ (y < x)
  BY <1>2 DEF R
<1>4. QED
  BY <1>3

(* A set with zero and with the successors of its numbers has them all.    *)
LEMMA Induction ==
  ASSUME NEW T, 0 \in T, \A n \in Nat : n \in T => n + 1 \in T
  PROVE  \A n \in Nat : n \in T
<1>1. SUFFICES ASSUME Nat \ T # {}
               PROVE  FALSE
  OBVIOUS
<1>2. PICK x \in Nat \ T : \A y \in Nat \ T : x <= y
  BY <1>1, LeastNumber
<1>3. x # 0 /\ x - 1 \in Nat
  BY <1>2
<1>4. x - 1 \in T
  BY <1>2, <1>3
<1>5. QED
  BY <1>2, <1>3, <1>4

-----------------------------------------------------------------------------
(* Days.                                                                   *)

(* An instant is on one day.                                               *)
LEMMA OneDay ==
  ASSUME NEW t \in Nat
  PROVE  /\ DayOf(t) \in Nat
         /\ Midnight(DayOf(t)) <= t /\ t < Midnight(DayOf(t) + 1)
         /\ \A d \in Nat :
              Midnight(d) <= t /\ t < Midnight(d + 1) => DayOf(t) = d
<1> DEFINE L == DayLength
<1>1. L \in Nat \ {0}
  BY DayLengthAssumption
<1> HIDE DEF L
<1>2. t \div L \in Nat
  BY <1>1
<1>3. (t \div L) * L <= t /\ t < (t \div L) * L + L
  BY <1>1
<1>4. \A d \in Nat : (d + 1) * L = d * L + L
  BY <1>1
<1>5. \A d \in Nat : d * L <= t /\ t < d * L + L => t \div L = d
  BY <1>1
<1>6. QED
  BY <1>2, <1>3, <1>4, <1>5 DEF DayOf, Midnight, L

(* Midnights are in order, a day apart.                                    *)
LEMMA Midnights ==
  ASSUME NEW d \in Nat
  PROVE  /\ Midnight(d) \in Nat
         /\ Midnight(d + 1) = Midnight(d) + DayLength
         /\ \A e \in Nat : d <= e => Midnight(d) <= Midnight(e)
<1> DEFINE L == DayLength
<1>1. L \in Nat \ {0}
  BY DayLengthAssumption
<1> HIDE DEF L
<1>2. d * L \in Nat
  BY <1>1
<1>3. (d + 1) * L = d * L + L
  BY <1>1
<1>4. ASSUME NEW e \in Nat, d <= e
      PROVE  d * L <= e * L
  <2>1. e * L = d * L + (e - d) * L
    BY <1>1
  <2>2. (e - d) * L \in Nat
    BY <1>1, <1>4
  <2>3. QED
    BY <1>2, <2>1, <2>2
<1>5. QED
  BY <1>2, <1>3, <1>4 DEF Midnight, L

-----------------------------------------------------------------------------
(* Counting.                                                               *)

(* Disjoint sets add up.                                                   *)
LEMMA Together ==
  ASSUME NEW A, NEW B, IsFiniteSet(A), IsFiniteSet(B), A \cap B = {}
  PROVE  /\ IsFiniteSet(A \union B)
         /\ Cardinality(A) \in Nat /\ Cardinality(B) \in Nat
         /\ Cardinality(A \union B) = Cardinality(A) + Cardinality(B)
<1>1. Cardinality(A) \in Nat /\ Cardinality(B) \in Nat
  BY FS_CardinalityType
<1>2. Cardinality(A \cap B) = 0
  BY FS_EmptySet
<1>3. /\ IsFiniteSet(A \union B)
      /\ Cardinality(A \union B)
           = Cardinality(A) + Cardinality(B) - Cardinality(A \cap B)
  BY FS_Union, Zenon
<1>4. QED
  BY <1>1, <1>2, <1>3

(* Working time is a number, and that of disjoint sets adds up.            *)
LEMMA WorkedTogether ==
  ASSUME NEW A, NEW B, IsFiniteSet(A), IsFiniteSet(B), A \cap B = {}, NEW H
  PROVE  /\ Worked(A, H) \in Nat /\ Worked(B, H) \in Nat
         /\ Worked(A \union B, H) = Worked(A, H) + Worked(B, H)
<1> DEFINE W(S) == {t \in S : isWorkingDaySimple(DayOf(t), H)}
<1>1. W(A) \in SUBSET A /\ W(B) \in SUBSET B
  OBVIOUS
<1>2. W(A \union B) = W(A) \union W(B) /\ W(A) \cap W(B) = {}
  OBVIOUS
<1> HIDE DEF W
<1>3. IsFiniteSet(W(A)) /\ IsFiniteSet(W(B))
  BY <1>1, FS_Subset
<1>4. QED
  BY <1>2, <1>3, Together DEF Worked, W

(* Intervals are finite, and working time adds up along them.              *)
LEMMA WorkedAlong ==
  ASSUME NEW a \in Nat, NEW b \in Nat, NEW c \in Nat, a <= b, b <= c, NEW H
  PROVE  /\ Worked(a .. b - 1, H) \in Nat /\ Worked(b .. c - 1, H) \in Nat
         /\ Worked(a .. c - 1, H)
              = Worked(a .. b - 1, H) + Worked(b .. c - 1, H)
<1> DEFINE A == a .. b - 1
           B == b .. c - 1
<1>1. A \union B = a .. c - 1 /\ A \cap B = {}
  OBVIOUS
<1>2. IsFiniteSet(A) /\ IsFiniteSet(B)
  <2>1. a \in Int /\ b \in Int /\ b - 1 \in Int /\ c - 1 \in Int
    OBVIOUS
  <2>2. QED
    BY <2>1, FS_Interval, Zenon
<1> HIDE DEF A, B
<1>3. /\ Worked(A, H) \in Nat /\ Worked(B, H) \in Nat
      /\ Worked(A \union B, H) = Worked(A, H) + Worked(B, H)
  <2>1. /\ Worked(A, H) \in Nat /\ Worked(B, H) \in Nat
    BY <1>1, <1>2, WorkedTogether
  <2>2. Worked(A \union B, H) = Worked(A, H) + Worked(B, H)
    BY <1>1, <1>2, WorkedTogether
  <2>3. QED
    BY <2>1, <2>2
<1>4. QED
  BY <1>1, <1>3 DEF A, B

(* Instants of one day are all of them working time, or none.              *)
LEMMA WorkedOnDay ==
  ASSUME NEW d \in Nat, NEW a \in Nat, NEW b \in Nat, a <= b,
         Midnight(d) <= a, b <= Midnight(d + 1), NEW H
  PROVE  Worked(a .. b - 1, H)
           = IF isWorkingDaySimple(d, H) THEN b - a ELSE 0
<1>1. ASSUME NEW t \in a .. b - 1
      PROVE  DayOf(t) = d
  <2>1. t \in Nat /\ a <= t /\ t < b
    OBVIOUS
  <2>2. Midnight(d) \in Nat /\ Midnight(d + 1) \in Nat
    BY Midnights
  <2>3. Midnight(d) <= t /\ t < Midnight(d + 1)
    BY <2>1, <2>2
  <2>4. QED
    BY <2>1, <2>3, OneDay
<1>2. CASE isWorkingDaySimple(d, H)
  <2>1. {t \in a .. b - 1 : isWorkingDaySimple(DayOf(t), H)} = a .. b - 1
    BY <1>1, <1>2
  <2>2. Cardinality(a .. b - 1)
          = IF a > b - 1 THEN 0 ELSE b - 1 - a + 1
    BY FS_Interval
  <2>3. Cardinality(a .. b - 1) = b - a
    BY <2>2
  <2>4. Worked(a .. b - 1, H) = Cardinality(a .. b - 1)
    BY <2>1 DEF Worked
  <2>5. QED
    BY <1>2, <2>3, <2>4
<1>3. CASE ~ isWorkingDaySimple(d, H)
  <2>1. {t \in a .. b - 1 : isWorkingDaySimple(DayOf(t), H)} = {}
    BY <1>1, <1>3
  <2>2. QED
    BY <1>3, <2>1, FS_EmptySet DEF Worked
<1>4. QED
  BY <1>2, <1>3

(* The working days of a range, and those on weekends.                     *)
WorkDays(first, last, H) ==
  {d \in first .. last - 1 : isWorkingDaySimple(d, H)}

WeekendDays(first, last) == {d \in first .. last - 1 : Weekend(d)}

(* Working time from midnight to midnight is a day for each working day.   *)
LEMMA WorkedDays ==
  ASSUME NEW f \in Nat, NEW H
  PROVE  \A n \in Nat :
           /\ IsFiniteSet(WorkDays(f, f + n, H))
           /\ Worked(Midnight(f) .. Midnight(f + n) - 1, H)
                = Cardinality(WorkDays(f, f + n, H)) * DayLength
<1> DEFINE P(n) ==
             /\ IsFiniteSet(WorkDays(f, f + n, H))
             /\ Worked(Midnight(f) .. Midnight(f + n) - 1, H)
                  = Cardinality(WorkDays(f, f + n, H)) * DayLength
           T == {n \in Nat : P(n)}
<1>1. 0 \in T
  <2>1. WorkDays(f, f + 0, H) = {}
    BY DEF WorkDays
  <2>2. Midnight(f) .. Midnight(f + 0) - 1 = {}
    BY Midnights
  <2>3. Worked({}, H) = 0
    BY FS_EmptySet DEF Worked
  <2>4. 0 * DayLength = 0
    BY DayLengthAssumption
  <2>5. QED
    BY <2>1, <2>2, <2>3, <2>4, FS_EmptySet
<1>2. ASSUME NEW n \in Nat, n \in T
      PROVE  n + 1 \in T
  <2> DEFINE d == f + n
             A == Midnight(f) .. Midnight(d) - 1
             B == Midnight(d) .. Midnight(d + 1) - 1
             W == WorkDays(f, d, H)
  <2>1. P(n) /\ d \in Nat /\ f + (n + 1) = d + 1
    BY <1>2
  <2>2. /\ Midnight(f) \in Nat /\ Midnight(d) \in Nat
        /\ Midnight(d + 1) = Midnight(d) + DayLength
        /\ Midnight(f) <= Midnight(d)
    BY <2>1, Midnights
  <2>3. DayLength \in Nat
    BY DayLengthAssumption
  <2>4. /\ Worked(A, H) \in Nat /\ Worked(B, H) \in Nat
        /\ Worked(Midnight(f) .. Midnight(d + 1) - 1, H)
             = Worked(A, H) + Worked(B, H)
    <3>1. Midnight(d + 1) \in Nat /\ Midnight(d) <= Midnight(d + 1)
      BY <2>2, <2>3
    <3>2. QED
      BY <2>2, <3>1, WorkedAlong
  <2>5. Worked(B, H) = IF isWorkingDaySimple(d, H) THEN DayLength ELSE 0
    <3>1. Worked(B, H) = IF isWorkingDaySimple(d, H)
                           THEN Midnight(d + 1) - Midnight(d) ELSE 0
      BY <2>1, <2>2, <2>3, WorkedOnDay
    <3>2. QED
      BY <2>2, <2>3, <3>1
  <2>6. WorkDays(f, d + 1, H)
          = IF isWorkingDaySimple(d, H) THEN W \union {d} ELSE W
    BY <2>1 DEF WorkDays
  <2>7. d \notin W
    BY <2>1 DEF WorkDays
  <2>8. /\ IsFiniteSet(W) /\ Cardinality(W) \in Nat
         /\ Worked(A, H) = Cardinality(W) * DayLength
    BY <2>1, FS_CardinalityType
  <2>9. /\ IsFiniteSet(WorkDays(f, d + 1, H))
         /\ Cardinality(WorkDays(f, d + 1, H))
              = Cardinality(W)
                  + (IF isWorkingDaySimple(d, H) THEN 1 ELSE 0)
    BY <2>6, <2>7, <2>8, FS_AddElement
  <2>10. (Cardinality(W) + 1) * DayLength
           = Cardinality(W) * DayLength + DayLength
    BY <2>3, <2>8
  <2>11. Worked(Midnight(f) .. Midnight(d + 1) - 1, H)
           = Cardinality(WorkDays(f, d + 1, H)) * DayLength
    BY <2>3, <2>4, <2>5, <2>8, <2>9, <2>10
  <2>12. P(n + 1)
    BY <2>1, <2>9, <2>11
  <2>13. QED
    BY <2>12
<1> HIDE DEF P
<1>3. \A n \in Nat : n \in T
  BY <1>1, <1>2, Induction
<1>4. \A n \in Nat : P(n)
  BY <1>3
<1>5. QED
  BY <1>4 DEF P

(* Every week has two days of weekend, wherever it begins.                 *)
LEMMA OneWeek ==
  ASSUME NEW f \in Nat
  PROVE  /\ IsFiniteSet(WeekendDays(f, f + 7))
         /\ Cardinality(WeekendDays(f, f + 7)) = 2
<1>1. ASSUME NEW x \in Nat, NEW y \in Nat, x # y,
             WeekendDays(f, f + 7) = {x, y}
      PROVE  /\ IsFiniteSet(WeekendDays(f, f + 7))
             /\ Cardinality(WeekendDays(f, f + 7)) = 2
  <2>1. IsFiniteSet({x}) /\ Cardinality({x}) = 1
    BY FS_Singleton
  <2>2. /\ IsFiniteSet({x} \union {y})
        /\ Cardinality({x} \union {y}) = 2
    BY <1>1, <2>1, FS_AddElement
  <2>3. {x, y} = {x} \union {y}
    OBVIOUS
  <2>4. QED
    BY <1>1, <2>2, <2>3
<1>2. \E x, y \in Nat : x # y /\ WeekendDays(f, f + 7) = {x, y}
  <2>1. \A r \in 0 .. 6 : f % 7 = r =>
          \A d \in f .. f + 6 : d % 7 = (r + (d - f)) % 7
    OBVIOUS
  <2>2. CASE f % 7 = 6
    <3>1. WeekendDays(f, f + 7) = {f, f + 6}
      BY <2>2 DEF WeekendDays, Weekend
    <3>2. QED
      BY <3>1
  <2>3. ASSUME f % 7 # 6
        PROVE  WeekendDays(f, f + 7) = {f + (5 - (f % 7)), f + (6 - (f % 7))}
    BY <2>3 DEF WeekendDays, Weekend
  <2>4. QED
    BY <2>2, <2>3
<1>3. QED
  BY <1>1, <1>2

(* So have any number of weeks.                                            *)
LEMMA FullWeeks ==
  ASSUME NEW f \in Nat
  PROVE  \A n \in Nat : /\ IsFiniteSet(WeekendDays(f, f + 7 * n))
                        /\ Cardinality(WeekendDays(f, f + 7 * n)) = 2 * n
<1> DEFINE P(n) == /\ IsFiniteSet(WeekendDays(f, f + 7 * n))
                   /\ Cardinality(WeekendDays(f, f + 7 * n)) = 2 * n
           T == {n \in Nat : P(n)}
<1>1. 0 \in T
  <2>1. WeekendDays(f, f + 7 * 0) = {}
    BY DEF WeekendDays
  <2>2. QED
    BY <2>1, FS_EmptySet
<1>2. ASSUME NEW n \in Nat, n \in T
      PROVE  n + 1 \in T
  <2> DEFINE d == f + 7 * n
             A == WeekendDays(f, d)
             B == WeekendDays(d, d + 7)
  <2>1. P(n) /\ d \in Nat /\ f + 7 * (n + 1) = d + 7
    BY <1>2
  <2>2. WeekendDays(f, d + 7) = A \union B /\ A \cap B = {}
    BY <2>1 DEF WeekendDays
  <2>3. /\ IsFiniteSet(A) /\ Cardinality(A) = 2 * n
        /\ IsFiniteSet(B) /\ Cardinality(B) = 2
    BY <2>1, OneWeek
  <2> HIDE DEF A, B
  <2>4. IsFiniteSet(A \union B)
    BY <2>2, <2>3, Together
  <2>5. Cardinality(A \union B) = Cardinality(A) + Cardinality(B)
    BY <2>2, <2>3, Together
  <2>6. 2 * n + 2 = 2 * (n + 1)
    OBVIOUS
  <2>7. P(n + 1)
    BY <2>1, <2>2, <2>3, <2>4, <2>5, <2>6
  <2>8. QED
    BY <2>7
<1> HIDE DEF P
<1>3. \A n \in Nat : n \in T
  BY <1>1, <1>2, Induction
<1>4. \A n \in Nat : P(n)
  BY <1>3
<1>5. QED
  BY <1>4 DEF P

(* Weekends are counted right.                                             *)
LEMMA WeekendsCounted ==
  ASSUME NEW f \in Nat, NEW l \in Nat, f <= l
  PROVE  /\ IsFiniteSet(WeekendDays(f, l))
         /\ countWeekendsInRange(f, l) = Cardinality(WeekendDays(f, l))
<1> DEFINE n == (l - f) \div 7
           d == f + 7 * n
           A == WeekendDays(f, d)
           B == WeekendDays(d, l)
<1>1. n \in Nat /\ d \in Nat /\ f <= d /\ d <= l
  OBVIOUS
<1>2. WeekendDays(f, l) = A \union B /\ A \cap B = {}
  BY <1>1 DEF WeekendDays
<1>3. IsFiniteSet(A) /\ Cardinality(A) = 2 * n
  BY <1>1, FullWeeks
<1>4. IsFiniteSet(B)
  <2>1. IsFiniteSet(d .. l - 1)
    BY <1>1, FS_Interval
  <2>2. B \in SUBSET (d .. l - 1)
    BY DEF WeekendDays
  <2>3. QED
    BY <2>1, <2>2, FS_Subset
<1>5. CASE f = l
  <2>1. WeekendDays(f, l) = {}
    BY <1>5 DEF WeekendDays
  <2>2. countWeekendsInRange(f, l) = 0
    BY <1>5 DEF countWeekendsInRange
  <2>3. QED
    BY <2>1, <2>2, FS_EmptySet
<1>6. CASE f # l
  <2>1. B = {e \in f + 7 * n .. l - 1 : Weekend(e)}
    BY DEF WeekendDays
  <2>2. countWeekendsInRange(f, l) = 2 * n + Cardinality(B)
    BY <1>6, <2>1 DEF countWeekendsInRange
  <2> HIDE DEF A, B
  <2>3. IsFiniteSet(A \union B)
    BY <1>2, <1>3, <1>4, Together
  <2>4. Cardinality(A \union B) = Cardinality(A) + Cardinality(B)
    BY <1>2, <1>3, <1>4, Together
  <2>5. QED
    BY <1>2, <1>3, <2>2, <2>3, <2>4
<1>7. QED
  BY <1>5, <1>6

(* What is left without weekends and holidays are the working days.        *)
LEMMA MiddleRight ==
  ASSUME NEW f \in Nat, NEW l \in Nat, f <= l, NEW H \in SUBSET Int
  PROVE  MiddleTime(f, l, H) = Worked(Midnight(f) .. Midnight(l) - 1, H)
<1> DEFINE A == WorkDays(f, l, H)
           B == WeekendDays(f, l)
           C == {d \in H : f <= d /\ d < l /\ ~ Weekend(d)}
           all == f .. l - 1
<1>1. all = A \union (B \union C) /\ A \cap (B \union C) = {} /\ B \cap C = {}
  <2>1. \A d : d \in A <=> d \in all /\ ~ Weekend(d) /\ d \notin H
    BY DEF WorkDays, isWorkingDaySimple
  <2>2. \A d : d \in B <=> d \in all /\ Weekend(d)
    BY DEF WeekendDays
  <2>3. \A d : d \in C <=> d \in all /\ ~ Weekend(d) /\ d \in H
    <3>1. \A d \in H : f <= d /\ d < l <=> d \in all
      OBVIOUS
    <3>2. \A d : d \in C <=> d \in H /\ f <= d /\ d < l /\ ~ Weekend(d)
      OBVIOUS
    <3> HIDE DEF C, all
    <3>3. QED
      BY <3>1, <3>2
  <2> HIDE DEF A, B, C, all
  <2>4. QED
    BY <2>1, <2>2, <2>3
<1>2. IsFiniteSet(all) /\ Cardinality(all) = l - f
  <2>1. /\ IsFiniteSet(f .. l - 1)
        /\ Cardinality(f .. l - 1)
             = IF f > l - 1 THEN 0 ELSE l - 1 - f + 1
    BY FS_Interval
  <2>2. QED
    BY <2>1
<1>3. A \in SUBSET all /\ B \in SUBSET all /\ C \in SUBSET all
  BY <1>1
<1>4. IsFiniteSet(A) /\ IsFiniteSet(B) /\ IsFiniteSet(C)
  BY <1>2, <1>3, FS_Subset, Zenon
<1>5. Cardinality(B) = countWeekendsInRange(f, l)
  BY WeekendsCounted
<1>6. Cardinality(C) = holidaysOnWeekdays(f, l, H)
  BY DEF holidaysOnWeekdays
<1> HIDE DEF A, B, C, all
<1>7. /\ Cardinality(A) \in Nat /\ Cardinality(B) \in Nat
      /\ Cardinality(C) \in Nat
  BY <1>4, FS_CardinalityType
<1>8. IsFiniteSet(B \union C)
  BY <1>1, <1>4, Together
<1>9. Cardinality(B \union C) = Cardinality(B) + Cardinality(C)
  BY <1>1, <1>4, Together
<1>10. Cardinality(A \union (B \union C))
         = Cardinality(A) + Cardinality(B \union C)
  BY <1>1, <1>4, <1>8, Together
<1>11. Cardinality(A) = l - f - countWeekendsInRange(f, l)
                          - holidaysOnWeekdays(f, l, H)
  BY <1>1, <1>2, <1>5, <1>6, <1>7, <1>9, <1>10
<1>12. Worked(Midnight(f) .. Midnight(l) - 1, H)
         = Cardinality(A) * DayLength
  <2>1. l - f \in Nat /\ f + (l - f) = l
    OBVIOUS
  <2>2. QED
    BY <2>1, WorkedDays DEF A
<1>13. Cardinality(A) = 0 => Cardinality(A) * DayLength = 0
  BY DayLengthAssumption
<1>14. f = l => Cardinality(A) = 0
  <2>1. f = l => A = {}
    BY DEF A, WorkDays
  <2>2. QED
    BY <2>1, FS_EmptySet
<1>15. MiddleTime(f, l, H) = IF f < l /\ Cardinality(A) > 0
                              THEN Cardinality(A) * DayLength ELSE 0
  BY <1>11 DEF MiddleTime, Midnight
<1>16. QED
  BY <1>7, <1>12, <1>13, <1>14, <1>15

(* Working time is what the calendar says.                                 *)
LEMMA WorkingTimeRight ==
  ASSUME NEW s \in Nat, NEW e \in Nat, NEW H \in SUBSET Int
  PROVE  CalculateWorkingTime(s, e, H) = Worked(s .. e - 1, H)
<1> DEFINE a == DayOf(s)
           b == DayOf(e)
           OnDay(d, time) == IF isWorkingDaySimple(d, H) THEN time ELSE 0
<1>1. /\ a \in Nat /\ b \in Nat /\ a + 1 \in Nat
      /\ Midnight(a) <= s /\ s < Midnight(a + 1)
      /\ Midnight(b) <= e /\ e < Midnight(b + 1)
  BY OneDay
<1>2. /\ Midnight(a) \in Nat /\ Midnight(b) \in Nat
      /\ Midnight(a + 1) \in Nat /\ Midnight(b + 1) \in Nat
  BY <1>1, Midnights
<1>3. CASE e <= s
  <2>1. s .. e - 1 = {}
    BY <1>3
  <2>2. Worked({}, H) = 0
    BY FS_EmptySet DEF Worked
  <2>3. QED
    BY <1>3, <2>1, <2>2 DEF CalculateWorkingTime
<1>4. CASE s < e /\ a = b
  <2>1. Worked(s .. e - 1, H) = OnDay(a, e - s)
    BY <1>1, <1>2, <1>4, WorkedOnDay
  <2>2. CalculateWorkingTime(s, e, H) = OnDay(a, e - s)
    BY <1>4 DEF CalculateWorkingTime
  <2>3. QED
    BY <2>1, <2>2
<1>5. CASE s < e /\ a # b
  <2>1. a + 1 <= b
    <3>1. b + 1 <= a => Midnight(b + 1) <= Midnight(a)
      BY <1>1, Midnights
    <3>2. QED
      BY <1>1, <1>2, <1>5, <3>1
  <2>2. Midnight(a + 1) <= Midnight(b)
    BY <1>1, <2>1, Midnights
  <2>3. Worked(s .. Midnight(a + 1) - 1, H) = OnDay(a, Midnight(a + 1) - s)
    BY <1>1, <1>2, WorkedOnDay
  <2>4. Worked(Midnight(b) .. e - 1, H) = OnDay(b, e - Midnight(b))
    <3>1. Midnight(b) <= Midnight(b) /\ e <= Midnight(b + 1)
      BY <1>1, <1>2
    <3>2. QED
      BY <1>1, <1>2, <3>1, WorkedOnDay
  <2>5. Worked(Midnight(a + 1) .. Midnight(b) - 1, H)
          = MiddleTime(a + 1, b, H)
    BY <1>1, <2>1, MiddleRight
  <2>6. /\ Worked(s .. Midnight(a + 1) - 1, H) \in Nat
        /\ Worked(Midnight(a + 1) .. e - 1, H) \in Nat
        /\ Worked(s .. e - 1, H)
             = Worked(s .. Midnight(a + 1) - 1, H)
                 + Worked(Midnight(a + 1) .. e - 1, H)
    BY <1>1, <1>2, <2>2, WorkedAlong
  <2>7. /\ Worked(Midnight(a + 1) .. Midnight(b) - 1, H) \in Nat
        /\ Worked(Midnight(b) .. e - 1, H) \in Nat
        /\ Worked(Midnight(a + 1) .. e - 1, H)
             = Worked(Midnight(a + 1) .. Midnight(b) - 1, H)
                 + Worked(Midnight(b) .. e - 1, H)
    BY <1>1, <1>2, <2>2, WorkedAlong
  <2>8. CalculateWorkingTime(s, e, H)
          = OnDay(a, Midnight(a + 1) - s) + MiddleTime(a + 1, b, H)
              + OnDay(b, e - Midnight(b))
    BY <1>5 DEF CalculateWorkingTime
  <2>9. QED
    BY <2>3, <2>4, <2>5, <2>6, <2>7, <2>8
<1>6. QED
  BY <1>3, <1>4, <1>5

-----------------------------------------------------------------------------
(* Folds.                                                                  *)

(* A set of whole numbers that is bounded has a greatest number.           *)
LEMMA Greatest ==
  ASSUME NEW S, S \subseteq Int, S # {}, NEW n \in Int, \A x \in S : x <= n
  PROVE  Max(S) \in S /\ \A x \in S : x <= Max(S)
<1> DEFINE T == {m \in Nat : n - m \in S}
<1>1. \A x \in S : n - x \in T
  OBVIOUS
<1>2. T \subseteq Nat /\ T # {}
  BY <1>1
<1>3. PICK y \in T : \A z \in T : y <= z
  BY <1>2, LeastNumber
<1>4. n - y \in S /\ n - y \in Int
  BY <1>3
<1>5. ASSUME NEW x \in S
      PROVE  n - y >= x
  <2> HIDE DEF T
  <2>1. n - x \in T /\ y \in Nat
    BY <1>1, <1>2
  <2>2. y <= n - x
    BY <1>3, <2>1
  <2>3. x \in Int
    OBVIOUS
  <2>4. QED
    BY <2>1, <2>2, <2>3
<1>6. QED
  BY <1>4, <1>5 DEF Max

(* The greatest number of a set up to k + 1, and of one up to k.           *)
LEMMA GreatestTo ==
  ASSUME NEW k \in Nat, NEW q \in SUBSET (1 .. k)
  PROVE  /\ q # {} => Max(q) \in q /\ \A x \in q : x <= Max(q)
         /\ k \in q => Max(q) = k /\ q \ {k} \in SUBSET (1 .. k - 1)
         /\ k \notin q => q \in SUBSET (1 .. k - 1)
<1>1. q \subseteq Int /\ k \in Int /\ \A x \in q : x <= k
  OBVIOUS
<1>2. q # {} => Max(q) \in q /\ \A x \in q : x <= Max(q)
  BY <1>1, Greatest, Zenon
<1>3. ASSUME k \in q
      PROVE  Max(q) = k
  <2>1. Max(q) \in Int /\ Max(q) <= k /\ k <= Max(q)
    BY <1>1, <1>2, <1>3
  <2>2. QED
    BY <1>1, <2>1
<1>4. /\ k \in q => q \ {k} \in SUBSET (1 .. k - 1)
      /\ k \notin q => q \in SUBSET (1 .. k - 1)
  OBVIOUS
<1>5. QED
  BY <1>2, <1>3, <1>4

(* A function that adds the numbers from 1 to k, one by one, to b.         *)
Closed(G, S, n) == \A x \in S, i \in 1 .. n : G[x, i] \in S

Folds(it, G, b, k) ==
  \A q \in SUBSET (1 .. k) :
    it[q] = IF q = {} THEN b ELSE G[it[q \ {Max(q)}], Max(q)]

(* There is one for one number more.                                       *)
LEMMA FoldStep ==
  ASSUME NEW k \in Nat, NEW S, NEW b \in S, NEW G, Closed(G, S, k + 1),
         NEW it \in [SUBSET (1 .. k) -> S], Folds(it, G, b, k)
  PROVE  \E new \in [SUBSET (1 .. k + 1) -> S] : Folds(new, G, b, k + 1)
<1> DEFINE Value(q) == IF k + 1 \in q THEN G[it[q \ {k + 1}], k + 1]
                                      ELSE it[q]
           new == [q \in SUBSET (1 .. k + 1) |-> Value(q)]
<1>1. ASSUME NEW q \in SUBSET (1 .. k + 1)
      PROVE  /\ q # {} => Max(q) \in q
             /\ k + 1 \in q => Max(q) = k + 1 /\ q \ {k + 1} \in SUBSET (1 .. k)
             /\ k + 1 \notin q => q \in SUBSET (1 .. k)
  <2>1. k + 1 \in Nat /\ (k + 1) - 1 = k
    OBVIOUS
  <2>2. QED
    BY <2>1, GreatestTo
<1>2. ASSUME NEW q \in SUBSET (1 .. k + 1)
      PROVE  Value(q) \in S
  <2>1. k + 1 \in 1 .. k + 1
    OBVIOUS
  <2>2. QED
    BY <1>1, <2>1 DEF Closed
<1>3. new \in [SUBSET (1 .. k + 1) -> S]
  BY <1>2
<1>4. ASSUME NEW q \in SUBSET (1 .. k + 1)
      PROVE  Value(q) = IF q = {} THEN b
                        ELSE G[Value(q \ {Max(q)}), Max(q)]
  <2>1. CASE k + 1 \in q
    <3>1. Value(q) = G[it[q \ {k + 1}], k + 1] /\ q # {} /\ Max(q) = k + 1
      BY <1>1, <2>1
    <3>2. Value(q \ {k + 1}) = it[q \ {k + 1}]
      OBVIOUS
    <3> HIDE DEF Value
    <3>3. QED
      BY <3>1, <3>2
  <2>2. CASE k + 1 \notin q
    <3>1. Value(q) = it[q] /\ q \in SUBSET (1 .. k)
      BY <1>1, <2>2
    <3>2. Value(q \ {Max(q)}) = it[q \ {Max(q)}]
      BY <2>2
    <3> HIDE DEF Value
    <3>3. QED
      BY <3>1, <3>2 DEF Folds
  <2>3. QED
    BY <2>1, <2>2
<1>5. ASSUME NEW q \in SUBSET (1 .. k + 1)
      PROVE  q \ {Max(q)} \in SUBSET (1 .. k + 1)
  OBVIOUS
<1> HIDE DEF Value
<1>6. \A q \in SUBSET (1 .. k + 1) : new[q] = Value(q)
  OBVIOUS
<1>7. Folds(new, G, b, k + 1)
  <2> HIDE DEF new
  <2>1. QED
    BY <1>4, <1>5, <1>6 DEF Folds
<1>8. QED
  BY <1>3, <1>7

(* There is one for any number.                                            *)
LEMMA FoldExists ==
  ASSUME NEW n \in Nat, NEW S, NEW b \in S, NEW G, Closed(G, S, n)
  PROVE  \E it \in [SUBSET (1 .. n) -> S] : Folds(it, G, b, n)
<1> DEFINE P(k) == \E it \in [SUBSET (1 .. k) -> S] : Folds(it, G, b, k)
           T == {k \in Nat : k <= n => P(k)}
<1>1. P(0)
  <2> DEFINE it == [q \in SUBSET (1 .. 0) |-> b]
  <2>1. it \in [SUBSET (1 .. 0) -> S]
    OBVIOUS
  <2>2. \A q \in SUBSET (1 .. 0) : q = {} /\ it[q] = b
    OBVIOUS
  <2> HIDE DEF it
  <2>3. QED
    BY <2>1, <2>2 DEF Folds
<1>2. ASSUME NEW k \in Nat, k + 1 <= n, P(k)
      PROVE  P(k + 1)
  <2>1. Closed(G, S, k + 1)
    <3>1. 1 .. k + 1 \subseteq 1 .. n
      BY <1>2
    <3>2. QED
      BY <3>1 DEF Closed
  <2>2. QED
    BY <1>2, <2>1, FoldStep
<1> HIDE DEF P
<1>3. 0 \in T /\ \A k \in Nat : k \in T => k + 1 \in T
  BY <1>1, <1>2
<1>4. \A k \in Nat : k \in T
  <2> HIDE DEF T
  <2>1. QED
    BY <1>3, Induction
<1>5. P(n)
  BY <1>4
<1>6. QED
  BY <1>5 DEF P

(* The numbers from 1 to k, one by one.                                    *)
LEMMA CountedUp ==
  ASSUME NEW n \in Nat
  PROVE  /\ 1 .. 0 = {} /\ 1 .. 0 \in SUBSET (1 .. n)
         /\ \A k \in 1 .. n : /\ 1 .. k \in SUBSET (1 .. n) /\ 1 .. k # {}
                              /\ Max(1 .. k) = k
                              /\ (1 .. k) \ {k} = 1 .. k - 1
<1>1. ASSUME NEW k \in 1 .. n
      PROVE  Max(1 .. k) = k
  <2>1. k \in 1 .. k /\ 1 .. k \in SUBSET (1 .. k) /\ k \in Nat
    OBVIOUS
  <2>2. QED
    BY <2>1, GreatestTo
<1>2. ASSUME NEW k \in 1 .. n
      PROVE  /\ 1 .. k \in SUBSET (1 .. n) /\ 1 .. k # {}
             /\ (1 .. k) \ {k} = 1 .. k - 1
  OBVIOUS
<1>3. 1 .. 0 = {} /\ 1 .. 0 \in SUBSET (1 .. n)
  OBVIOUS
<1>4. QED
  BY <1>1, <1>2, <1>3

-----------------------------------------------------------------------------
(* Rows of block labels.                                                   *)

BlockStates == [count : Int, from : Nat \union {Never}, total : Nat]

Timed(rows, n) == DOMAIN rows = 1 .. n /\ \A i \in 1 .. n : rows[i].ts \in Nat

(* A row changes the count and the time.                                   *)
LEMMA BlockStepType ==
  ASSUME NEW s \in Nat, NEW e \in Nat, NEW H \in SUBSET Int,
         NEW st \in BlockStates, NEW r, r.ts \in Nat
  PROVE  BlockStep(s, e, H, st, r) \in BlockStates
<1>1. Counted(st.count, r.type) \in Int
  BY DEF Counted, BlockStates
<1>2. /\ st.count \in Int /\ st.total \in Nat /\ st.from \in Nat \union {Never}
  BY DEF BlockStates
<1>3. ASSUME st.from # Never
      PROVE  CalculateWorkingTime(st.from, r.ts, H) \in Nat
  <2>1. st.from \in Nat
    BY <1>2, <1>3
  <2>2. IsFiniteSet(st.from .. r.ts - 1)
    <3>1. st.from \in Int /\ r.ts - 1 \in Int
      BY <2>1
    <3>2. QED
      BY <3>1, FS_Interval
  <2>3. Worked(st.from .. r.ts - 1, H) \in Nat
    <3>1. IsFiniteSet({}) /\ (st.from .. r.ts - 1) \cap {} = {}
      BY FS_EmptySet
    <3>2. QED
      BY <2>2, <3>1, WorkedTogether
  <2>4. QED
    BY <2>1, <2>3, WorkingTimeRight
<1> DEFINE c == Counted(st.count, r.type)
           w == CalculateWorkingTime(st.from, r.ts, H)
<1>4. /\ c \in Int
      /\ st.from # Never => st.total + w \in Nat
  BY <1>1, <1>2, <1>3
<1>5. ASSUME NEW f \in Nat \union {Never}, NEW m \in Nat
      PROVE  [count |-> c, from |-> f, total |-> m] \in BlockStates
  BY <1>4 DEF BlockStates
<1>6. \/ BlockStep(s, e, H, st, r) = st
      \/ \E f \in Nat \union {Never} :
           BlockStep(s, e, H, st, r)
             = [count |-> c, from |-> f, total |-> st.total]
      \/ /\ st.from # Never
         /\ BlockStep(s, e, H, st, r)
              = [count |-> c, from |-> Never, total |-> st.total + w]
  BY <1>2 DEF BlockStep
<1> HIDE DEF c, w
<1>7. QED
  BY <1>2, <1>4, <1>5, <1>6

(* The rows are gone through one by one.                                   *)
Walk(h, rows, n, s, e, H) ==
  /\ h \in [0 .. n -> BlockStates]
  /\ h[0] = NotBlocked
  /\ \A k \in 1 .. n : h[k] = BlockStep(s, e, H, h[k - 1], rows[k])
  /\ BlockState(rows, s, e, H) = h[n]

(* There is a walk along any rows.                                         *)
LEMMA BlockSteps ==
  ASSUME NEW n \in Nat, NEW rows, Timed(rows, n),
         NEW s \in Nat, NEW e \in Nat, NEW H \in SUBSET Int
  PROVE  \E h : Walk(h, rows, n, s, e, H)
<1> DEFINE Add(x, i) == BlockStep(s, e, H, x, rows[i])
           G == [p \in BlockStates \X (1 .. n) |-> Add(p[1], p[2])]
           R(it) == it = [q \in SUBSET DOMAIN rows |->
                            IF q = {} THEN NotBlocked
                            ELSE BlockStep(s, e, H, it[q \ {Max(q)}],
                                           rows[Max(q)])]
           chosen == CHOOSE it : R(it)
<1>1. \A x \in BlockStates, i \in 1 .. n : Add(x, i) \in BlockStates
  BY BlockStepType DEF Timed
<1>2. NotBlocked \in BlockStates
  BY DEF NotBlocked, BlockStates
<1>3. BlockState(rows, s, e, H) = chosen[DOMAIN rows]
  BY DEF BlockState, FoldLeft, MapThenFoldSet
<1>4. \A it : R(it) <=>
        it = [q \in SUBSET (1 .. n) |->
                IF q = {} THEN NotBlocked
                ELSE Add(it[q \ {Max(q)}], Max(q))]
  BY DEF Timed
<1> HIDE DEF Add, R, chosen
<1>5. \A x \in BlockStates, i \in 1 .. n : G[x, i] = Add(x, i)
  OBVIOUS
<1> HIDE DEF G
<1>6. Closed(G, BlockStates, n)
  BY <1>1, <1>5 DEF Closed
<1>7. PICK it \in [SUBSET (1 .. n) -> BlockStates] : Folds(it, G, NotBlocked, n)
  BY <1>2, <1>6, FoldExists
<1>8. R(it)
  <2>1. ASSUME NEW q \in SUBSET (1 .. n)
        PROVE  it[q] = IF q = {} THEN NotBlocked
                       ELSE Add(it[q \ {Max(q)}], Max(q))
    <3>1. q # {} => it[q] = G[it[q \ {Max(q)}], Max(q)]
      BY <1>7 DEF Folds
    <3>2. q \ {Max(q)} \in SUBSET (1 .. n)
      OBVIOUS
    <3>3. q # {} => Max(q) \in 1 .. n
      BY GreatestTo
    <3>4. it[q \ {Max(q)}] \in BlockStates
      BY <3>2
    <3>5. q = {} => it[q] = NotBlocked
      BY <1>7 DEF Folds
    <3>6. QED
      BY <1>5, <3>1, <3>3, <3>4, <3>5
  <2>2. it = [q \in SUBSET (1 .. n) |-> it[q]]
    OBVIOUS
  <2>3. QED
    BY <1>4, <2>1, <2>2
<1>9. R(chosen)
  BY <1>8 DEF chosen
<1>10. /\ chosen[1 .. 0] = NotBlocked
       /\ \A k \in 1 .. n : chosen[1 .. k] = Add(chosen[1 .. k - 1], k)
  <2>1. \A q \in SUBSET (1 .. n) :
          chosen[q] = IF q = {} THEN NotBlocked
                      ELSE Add(chosen[q \ {Max(q)}], Max(q))
    BY <1>4, <1>9
  <2>2. chosen[1 .. 0] = NotBlocked
    <3>1. 1 .. 0 = {} /\ 1 .. 0 \in SUBSET (1 .. n)
      OBVIOUS
    <3>2. QED
      BY <2>1, <3>1
  <2>3. ASSUME NEW k \in 1 .. n
        PROVE  chosen[1 .. k] = Add(chosen[1 .. k - 1], k)
    <3>1. /\ 1 .. k \in SUBSET (1 .. n) /\ 1 .. k # {}
          /\ Max(1 .. k) = k /\ (1 .. k) \ {k} = 1 .. k - 1
      BY CountedUp
    <3>2. QED
      BY <2>1, <3>1
  <2>4. QED
    BY <2>2, <2>3
<1>11. \A k \in 0 .. n : chosen[1 .. k] \in BlockStates
  <2> DEFINE T == {k \in Nat : k <= n => chosen[1 .. k] \in BlockStates}
  <2>1. 0 \in T
    BY <1>2, <1>10
  <2>2. ASSUME NEW k \in Nat, k \in T
        PROVE  k + 1 \in T
    <3> SUFFICES ASSUME k + 1 <= n
                 PROVE  chosen[1 .. k + 1] \in BlockStates
      OBVIOUS
    <3>1. k + 1 \in 1 .. n /\ (k + 1) - 1 = k /\ chosen[1 .. k] \in BlockStates
      BY <2>2
    <3>2. QED
      BY <1>1, <1>10, <3>1
  <2>3. \A k \in Nat : k \in T
    <3> HIDE DEF T
    <3>1. QED
      BY <2>1, <2>2, Induction
  <2>4. QED
    BY <2>3
<1> DEFINE h == [k \in 0 .. n |-> chosen[1 .. k]]
<1>12. h \in [0 .. n -> BlockStates]
  BY <1>11
<1>13. h[0] = NotBlocked /\ h[n] = chosen[1 .. n]
  BY <1>10
<1>14. ASSUME NEW k \in 1 .. n
       PROVE  h[k] = Add(h[k - 1], k)
  <2>1. k \in 0 .. n /\ k - 1 \in 0 .. n
    OBVIOUS
  <2>2. QED
    BY <1>10, <2>1
<1> HIDE DEF h
<1>15. BlockState(rows, s, e, H) = h[n]
  BY <1>3, <1>13 DEF Timed
<1>16. QED
  <2>1. \A k \in 1 .. n : h[k] = BlockStep(s, e, H, h[k - 1], rows[k])
    BY <1>14 DEF Add
  <2>2. Walk(h, rows, n, s, e, H)
    BY <1>12, <1>13, <1>15, <2>1 DEF Walk
  <2>3. QED
    BY <2>2

-----------------------------------------------------------------------------
(* What the loops find: the instants at which more labels have been added  *)
(* than removed, by the rows, are those at which it was blocked.           *)

AddedBy(S, t) == {r \in S : r.type = "block_label_added" /\ r.ts <= t}

RemovedBy(S, t) == {r \in S : r.type = "block_label_removed" /\ r.ts <= t}

Net(S, t) == Cardinality(AddedBy(S, t)) - Cardinality(RemovedBy(S, t))

(* The time from a start to an instant that the rows tell to be blocked.   *)
NetTime(S, s, x, H) == Worked({t \in s .. x - 1 : Net(S, t) > 0}, H)

(* The block rows among the first k rows that are not after e.             *)
Seen(rows, k, e) ==
  {rows[i] : i \in {j \in 1 .. k :
                      rows[j].type \in BlockLabelTypes /\ rows[j].ts <= e}}

(* Block rows are in the order of time, and there is none twice.           *)
InTime(rows) ==
  \A i, j \in DOMAIN rows :
    i < j /\ rows[i].type \in BlockLabelTypes
          /\ rows[j].type \in BlockLabelTypes
      => rows[i].ts <= rows[j].ts /\ rows[i] # rows[j]

(* There is a number of rows of each kind.                                 *)
LEMMA NetNumber ==
  ASSUME NEW S, IsFiniteSet(S), NEW t
  PROVE  /\ IsFiniteSet(AddedBy(S, t)) /\ IsFiniteSet(RemovedBy(S, t))
         /\ Cardinality(AddedBy(S, t)) \in Nat
         /\ Cardinality(RemovedBy(S, t)) \in Nat
         /\ Net(S, t) \in Int
<1>1. AddedBy(S, t) \in SUBSET S /\ RemovedBy(S, t) \in SUBSET S
  BY DEF AddedBy, RemovedBy
<1>2. IsFiniteSet(AddedBy(S, t)) /\ IsFiniteSet(RemovedBy(S, t))
  BY <1>1, FS_Subset
<1>3. /\ Cardinality(AddedBy(S, t)) \in Nat
      /\ Cardinality(RemovedBy(S, t)) \in Nat
  BY <1>2, FS_CardinalityType
<1>4. QED
  BY <1>2, <1>3 DEF Net

(* A row more.                                                             *)
LEMMA NetMore ==
  ASSUME NEW P, IsFiniteSet(P), NEW r, r \notin P,
         r.type \in BlockLabelTypes, r.ts \in Nat, NEW t \in Nat
  PROVE  Net(P \union {r}, t) = IF r.ts <= t THEN Counted(Net(P, t), r.type)
                                ELSE Net(P, t)
<1> DEFINE Q == P \union {r}
<1>1. /\ IsFiniteSet(AddedBy(P, t)) /\ IsFiniteSet(RemovedBy(P, t))
      /\ Cardinality(AddedBy(P, t)) \in Nat
      /\ Cardinality(RemovedBy(P, t)) \in Nat
  BY NetNumber
<1>2. r \notin AddedBy(P, t) /\ r \notin RemovedBy(P, t)
  BY DEF AddedBy, RemovedBy
<1>3. CASE ~ (r.ts <= t)
  <2>1. AddedBy(Q, t) = AddedBy(P, t) /\ RemovedBy(Q, t) = RemovedBy(P, t)
    BY <1>3 DEF AddedBy, RemovedBy
  <2>2. QED
    BY <1>3, <2>1 DEF Net
<1>4. CASE r.ts <= t /\ r.type = "block_label_added"
  <2>1. /\ AddedBy(Q, t) = AddedBy(P, t) \union {r}
        /\ RemovedBy(Q, t) = RemovedBy(P, t)
    BY <1>4 DEF AddedBy, RemovedBy
  <2>2. Cardinality(AddedBy(Q, t)) = Cardinality(AddedBy(P, t)) + 1
    BY <1>1, <1>2, <2>1, FS_AddElement
  <2>3. QED
    BY <1>1, <1>4, <2>1, <2>2 DEF Net, Counted
<1>5. CASE r.ts <= t /\ r.type = "block_label_removed"
  <2>1. /\ AddedBy(Q, t) = AddedBy(P, t)
        /\ RemovedBy(Q, t) = RemovedBy(P, t) \union {r}
    BY <1>5 DEF AddedBy, RemovedBy
  <2>2. Cardinality(RemovedBy(Q, t)) = Cardinality(RemovedBy(P, t)) + 1
    BY <1>1, <1>2, <2>1, FS_AddElement
  <2>3. QED
    BY <1>1, <1>5, <2>1, <2>2 DEF Net, Counted
<1>6. QED
  BY <1>3, <1>4, <1>5 DEF BlockLabelTypes

(* Rows that are not about block labels, or later, do not count.           *)
LEMMA NetSame ==
  ASSUME NEW S, NEW P, NEW t,
         \A r : (r.type \in BlockLabelTypes /\ r.ts <= t)
                  => (r \in S <=> r \in P)
  PROVE  Net(S, t) = Net(P, t)
<1>1. AddedBy(S, t) = AddedBy(P, t)
  BY DEF AddedBy, BlockLabelTypes
<1>2. RemovedBy(S, t) = RemovedBy(P, t)
  BY DEF RemovedBy, BlockLabelTypes
<1>3. QED
  BY <1>1, <1>2 DEF Net

(* The time blocked, up to a row and after it.                             *)
LEMMA NetAlong ==
  ASSUME NEW P, NEW s \in Nat, NEW u \in Nat, NEW x \in Nat, s <= u, u <= x,
         NEW n \in Int, \A t \in u .. x - 1 : Net(P, t) = n, NEW H
  PROVE  /\ Worked(u .. x - 1, H) \in Nat /\ NetTime(P, s, u, H) \in Nat
         /\ NetTime(P, s, x, H)
              = NetTime(P, s, u, H)
                  + (IF n > 0 THEN Worked(u .. x - 1, H) ELSE 0)
<1> DEFINE A == {t \in s .. u - 1 : Net(P, t) > 0}
           D == u .. x - 1
           B == IF n > 0 THEN D ELSE {}
           W == Worked(D, H)
<1>1. {t \in s .. x - 1 : Net(P, t) > 0} = A \union B
  <2>1. ASSUME NEW t
        PROVE  t \in s .. x - 1 <=> t \in s .. u - 1 \/ t \in u .. x - 1
    OBVIOUS
  <2>2. \A t \in u .. x - 1 : Net(P, t) > 0 <=> n > 0
    OBVIOUS
  <2>3. QED
    BY <2>1, <2>2
<1>2. A \cap D = {} /\ A \cap B = {}
  OBVIOUS
<1>3. IsFiniteSet(A) /\ IsFiniteSet(D) /\ IsFiniteSet(B)
  <2>1. s \in Int /\ u \in Int /\ u - 1 \in Int /\ x - 1 \in Int
    OBVIOUS
  <2>2. IsFiniteSet(s .. u - 1) /\ IsFiniteSet(D)
    BY <2>1, FS_Interval, Zenon
  <2>3. A \in SUBSET (s .. u - 1)
    OBVIOUS
  <2>4. IsFiniteSet({})
    BY FS_EmptySet
  <2>5. QED
    BY <2>2, <2>3, <2>4, FS_Subset
<1>4. Worked({}, H) = 0
  BY FS_EmptySet DEF Worked
<1> HIDE DEF A, D
<1>5. Worked(A, H) \in Nat /\ W \in Nat
  BY <1>2, <1>3, WorkedTogether
<1>6. Worked(A \union B, H) = Worked(A, H) + Worked(B, H)
  BY <1>2, <1>3, WorkedTogether
<1>7. Worked(B, H) = IF n > 0 THEN W ELSE 0
  BY <1>4
<1> HIDE DEF B, W
<1>8. Worked(A \union B, H) = Worked(A, H) + (IF n > 0 THEN W ELSE 0)
  BY <1>6, <1>7
<1>9. QED
  BY <1>1, <1>5, <1>8 DEF NetTime, A, D, W

(* it.                                                                     *)
Until(s, x, H) ==
  s.total + IF s.count > 0 THEN Worked(s.from .. x - 1, H) ELSE 0

(* A time is counted from an instant that has been, when a label is worn.  *)
Fine(s, start, x) ==
  /\ s \in BlockStates
  /\ s.count > 0 => s.from \in start .. x
  /\ ~ (s.count > 0) => s.from = Never

(* Working time of an interval is a number.                                *)
LEMMA WorkedNumber ==
  ASSUME NEW a \in Nat, NEW b \in Nat, a <= b, NEW H
  PROVE  /\ Worked(a .. b - 1, H) \in Nat
         /\ Worked(a .. a - 1, H) = 0
         /\ Worked(b .. b - 1, H) = 0
<1>1. Worked({}, H) = 0
  BY FS_EmptySet DEF Worked
<1>2. a .. a - 1 = {} /\ b .. b - 1 = {}
  OBVIOUS
<1>3. b <= b
  OBVIOUS
<1>4. Worked(a .. b - 1, H) \in Nat
  BY <1>3, WorkedAlong
<1>5. QED
  BY <1>1, <1>2, <1>4

(* While time goes by it is counted.                                       *)
LEMMA UntilLater ==
  ASSUME NEW start \in Nat, NEW x \in Nat, NEW y \in Nat, start <= x, x <= y,
         NEW s, Fine(s, start, x), NEW H
  PROVE  /\ Fine(s, start, y)
         /\ Until(s, x, H) \in Nat
         /\ Until(s, y, H)
              = Until(s, x, H)
                  + (IF s.count > 0 THEN Worked(x .. y - 1, H) ELSE 0)
<1>1. s \in BlockStates /\ s.total \in Nat
  BY DEF Fine, BlockStates
<1>2. CASE s.count > 0
  <2>1. s.from \in Nat /\ start <= s.from /\ s.from <= x
    BY <1>2 DEF Fine
  <2>2. Fine(s, start, y)
    BY <1>1, <1>2, <2>1 DEF Fine
  <2> DEFINE f == s.from
             m == s.total
             a == Worked(f .. x - 1, H)
             b == Worked(x .. y - 1, H)
             c == Worked(f .. y - 1, H)
  <2>3. a \in Nat /\ b \in Nat /\ c = a + b
    BY <2>1, WorkedAlong
  <2>4. Until(s, x, H) = m + a /\ Until(s, y, H) = m + c
    BY <1>2 DEF Until
  <2>5. m \in Nat
    BY <1>1
  <2> HIDE DEF m, a, b, c
  <2>6. m + c = (m + a) + b /\ m + a \in Nat
    BY <2>3, <2>5
  <2>7. QED
    BY <1>2, <2>2, <2>4, <2>6 DEF b
<1>3. CASE ~ (s.count > 0)
  <2>1. Until(s, x, H) = s.total + 0 /\ Until(s, y, H) = s.total + 0
    BY <1>3 DEF Until
  <2>2. Fine(s, start, y)
    BY <1>3 DEF Fine
  <2>3. QED
    BY <1>1, <1>3, <2>1, <2>2
<1>4. QED
  BY <1>2, <1>3

(* The instant of a row, or the start when it is older.                    *)
Instant(start, t) == IF t < start THEN start ELSE t

(* A row changes the count, but not what was counted until it.             *)
LEMMA BlockOne ==
  ASSUME NEW start \in Nat, NEW end \in Nat, NEW H \in SUBSET Int,
         NEW r, r.ts \in Nat, r.ts <= end,
         NEW s, Fine(s, start, Instant(start, r.ts))
  PROVE  LET new == BlockStep(start, end, H, s, r)
         IN  /\ Fine(new, start, Instant(start, r.ts))
             /\ new.count = IF r.type \in BlockLabelTypes
                              THEN Counted(s.count, r.type) ELSE s.count
             /\ Until(new, Instant(start, r.ts), H)
                  = Until(s, Instant(start, r.ts), H)
<1> DEFINE new == BlockStep(start, end, H, s, r)
           x == Instant(start, r.ts)
           c == Counted(s.count, r.type)
<1>1. x \in Nat /\ start <= x /\ r.ts <= x
  BY DEF Instant
<1>2. /\ s \in BlockStates /\ s.count \in Int /\ s.total \in Nat
      /\ s.count > 0 => s.from \in start .. x
      /\ ~ (s.count > 0) => s.from = Never
  BY DEF Fine, BlockStates
<1>3. new \in BlockStates
  BY <1>2, BlockStepType
<1>4. c \in Int /\ c = IF r.type = "block_label_added" THEN s.count + 1
                       ELSE s.count - 1
  BY <1>2 DEF Counted
<1>5. Worked(x .. x - 1, H) = 0
  BY <1>1, WorkedNumber
<1>6. CASE r.type \notin BlockLabelTypes
  <2>1. new = s
    BY <1>6 DEF BlockStep
  <2>2. QED
    BY <1>6, <2>1
<1>7. CASE r.type \in BlockLabelTypes /\ r.ts < start
  <2>1. x = start
    BY <1>7 DEF Instant
  <2>2. new = [count |-> c, from |-> IF c > 0 THEN start ELSE Never,
               total |-> s.total]
    BY <1>7 DEF BlockStep
  <2>3. /\ new.count = c /\ new.total = s.total
        /\ new.from = IF c > 0 THEN start ELSE Never
    BY <2>2
  <2> HIDE DEF new, c
  <2>4. Fine(new, start, x)
    <3>1. c > 0 => new.from \in start .. x
      BY <2>1, <2>3
    <3>2. QED
      BY <1>3, <2>3, <3>1 DEF Fine
  <2>5. Until(new, x, H) = s.total
    <3>1. Until(new, x, H) = s.total + 0
      BY <1>5, <2>1, <2>3 DEF Until
    <3>2. QED
      BY <1>2, <3>1
  <2>6. Until(s, x, H) = s.total
    <3>1. s.count > 0 => s.from = x
      BY <1>2, <2>1
    <3>2. Until(s, x, H) = s.total + 0
      BY <1>5, <3>1 DEF Until
    <3>3. QED
      BY <1>2, <3>2
  <2>7. QED
    BY <1>7, <2>3, <2>4, <2>5, <2>6 DEF new, c, x
<1>8. CASE r.type = "block_label_added" /\ ~ (r.ts < start)
  <2>1. x = r.ts
    BY <1>8 DEF Instant
  <2>2. ~ (r.ts > end) /\ r.type \in BlockLabelTypes
    BY <1>8 DEF BlockLabelTypes
  <2>3. new = [count |-> c, from |-> IF s.count = 0 THEN r.ts ELSE s.from,
               total |-> s.total]
    BY <1>8, <2>2 DEF BlockStep
  <2>4. /\ new.count = s.count + 1 /\ new.total = s.total
        /\ new.from = IF s.count = 0 THEN x ELSE s.from
    BY <1>4, <1>8, <2>1, <2>3
  <2>5. new.count = c
    BY <1>4, <1>8, <2>4
  <2> HIDE DEF new, c
  <2>6. CASE s.count = 0
    <3>1. new.count = 1 /\ new.from = x
      BY <2>4, <2>6
    <3>2. Fine(new, start, x)
      BY <1>1, <1>3, <3>1 DEF Fine
    <3>3. Until(new, x, H) = s.total + 0 /\ Until(s, x, H) = s.total + 0
      BY <1>5, <2>4, <2>6, <3>1 DEF Until
    <3>4. QED
      BY <2>2, <2>5, <3>2, <3>3 DEF new, c, x
  <2>7. CASE s.count > 0
    <3>1. new.count > 0 /\ new.from = s.from
      BY <1>2, <2>4, <2>7
    <3>2. Fine(new, start, x)
      BY <1>2, <1>3, <2>7, <3>1 DEF Fine
    <3>3. Until(new, x, H) = Until(s, x, H)
      BY <2>4, <2>7, <3>1 DEF Until
    <3>4. QED
      BY <2>2, <2>5, <3>2, <3>3 DEF new, c, x
  <2>8. CASE s.count < 0
    <3>1. ~ (new.count > 0) /\ new.from = Never /\ ~ (s.count > 0)
      BY <1>2, <2>4, <2>8
    <3>2. Fine(new, start, x)
      BY <1>3, <3>1 DEF Fine
    <3>3. Until(new, x, H) = Until(s, x, H)
      BY <2>4, <3>1 DEF Until
    <3>4. QED
      BY <2>2, <2>5, <3>2, <3>3 DEF new, c, x
  <2>9. QED
    BY <1>2, <2>6, <2>7, <2>8
<1>9. CASE r.type = "block_label_removed" /\ ~ (r.ts < start)
  <2>1. x = r.ts
    BY <1>9 DEF Instant
  <2>2. ~ (r.ts > end) /\ r.type \in BlockLabelTypes
        /\ r.type # "block_label_added"
    BY <1>9 DEF BlockLabelTypes
  <2>3. c = s.count - 1
    BY <1>4, <2>2
  <2>4. new = IF c = 0 /\ s.from # Never
                THEN [count |-> c, from |-> Never,
                      total |-> s.total + CalculateWorkingTime(s.from, x, H)]
                ELSE [count |-> c, from |-> s.from, total |-> s.total]
    BY <1>9, <2>1, <2>2 DEF BlockStep
  <2> HIDE DEF new, c
  <2>5. CASE s.count = 1
    <3>1. s.from \in Nat /\ s.from # Never /\ s.from \in start .. x /\ c = 0
      BY <1>2, <2>3, <2>5 DEF Never
    <3>2. CalculateWorkingTime(s.from, x, H) = Worked(s.from .. x - 1, H)
      BY <1>1, <3>1, WorkingTimeRight
    <3>3. new = [count |-> 0, from |-> Never,
                 total |-> s.total + Worked(s.from .. x - 1, H)]
      BY <2>4, <3>1, <3>2
    <3> DEFINE w == Worked(s.from .. x - 1, H)
    <3>4. new.count = 0 /\ new.from = Never /\ new.total = s.total + w
      BY <3>3
    <3>5. w \in Nat
      BY <1>1, <3>1, WorkedNumber
    <3>6. Until(s, x, H) = s.total + w
      BY <2>5 DEF Until
    <3>7. Until(new, x, H) = (s.total + w) + 0
      BY <3>4 DEF Until
    <3> HIDE DEF w
    <3>8. Until(new, x, H) = Until(s, x, H)
      BY <1>2, <3>5, <3>6, <3>7
    <3>9. Fine(new, start, x)
      BY <1>3, <3>4 DEF Fine
    <3>10. QED
      BY <2>2, <3>1, <3>4, <3>8, <3>9 DEF new, c, x
  <2>6. CASE s.count # 1
    <3>1. c # 0
      BY <1>2, <2>3, <2>6
    <3>2. new.count = c /\ new.from = s.from /\ new.total = s.total
      BY <2>4, <3>1
    <3>3. new.count > 0 <=> s.count > 0
      BY <1>2, <2>3, <2>6, <3>2
    <3>4. Fine(new, start, x)
      BY <1>2, <1>3, <3>2, <3>3 DEF Fine
    <3>5. Until(new, x, H) = Until(s, x, H)
      BY <3>2, <3>3 DEF Until
    <3>6. QED
      BY <2>2, <3>2, <3>4, <3>5 DEF new, c, x
  <2>7. QED
    BY <2>5, <2>6
<1>10. r.type \in BlockLabelTypes
         => r.type = "block_label_added" \/ r.type = "block_label_removed"
  BY DEF BlockLabelTypes
<1>11. QED
  BY <1>6, <1>7, <1>8, <1>9, <1>10

(* Rows that have all been by two instants.                                *)
LEMMA NetThen ==
  ASSUME NEW P, NEW t, NEW e, \A r \in P : r.ts <= t /\ r.ts <= e
  PROVE  Net(P, t) = Net(P, e)
<1>1. AddedBy(P, t) = AddedBy(P, e) /\ RemovedBy(P, t) = RemovedBy(P, e)
  BY DEF AddedBy, RemovedBy
<1>2. QED
  BY <1>1 DEF Net

(* What is counted of rows is what they tell.                              *)
Fits(st, P, s, e, H) ==
  /\ st.count = Net(P, e)
  /\ \A x \in s .. e :
       (\A r \in P : r.ts <= x)
         => Fine(st, s, x) /\ Until(st, x, H) = NetTime(P, s, x, H)

(* It stays so with a row more.                                            *)
LEMMA FitsStep ==
  ASSUME NEW s \in Nat, NEW e \in Nat, s <= e, NEW H \in SUBSET Int,
         NEW P, IsFiniteSet(P), NEW r, r \notin P,
         r.type \in BlockLabelTypes, r.ts \in Nat, r.ts <= e,
         \A q \in P : q.ts \in Nat /\ q.ts <= r.ts,
         NEW st, Fits(st, P, s, e, H)
  PROVE  Fits(BlockStep(s, e, H, st, r), P \union {r}, s, e, H)
<1> DEFINE new == BlockStep(s, e, H, st, r)
           Q == P \union {r}
           u == Instant(s, r.ts)
<1>1. u \in s .. e /\ u \in Nat /\ r.ts <= u /\ s <= u /\ u <= e
  BY DEF Instant
<1>2. \A q \in Q : q.ts \in Nat /\ q.ts <= u /\ q.ts <= e
  BY <1>1
<1>3. Fine(st, s, u) /\ Until(st, u, H) = NetTime(P, s, u, H)
  BY <1>1, <1>2 DEF Fits
<1>4. /\ Fine(new, s, u) /\ new.count = Counted(st.count, r.type)
      /\ Until(new, u, H) = Until(st, u, H)
  BY <1>3, BlockOne
<1>5. new.count = Net(Q, e)
  <2>1. Net(Q, e) = Counted(Net(P, e), r.type)
    BY NetMore
  <2>2. QED
    BY <1>4, <2>1 DEF Fits
<1>6. NetTime(Q, s, u, H) = NetTime(P, s, u, H)
  <2>1. ASSUME NEW t \in s .. u - 1
        PROVE  Net(Q, t) = Net(P, t)
    <3>1. ~ (r.ts <= t) /\ t \in Nat
      BY <1>1 DEF Instant
    <3>2. QED
      BY <3>1, NetMore
  <2> HIDE DEF Q, u
  <2>2. QED
    BY <2>1 DEF NetTime
<1>7. IsFiniteSet(Q)
  BY FS_AddElement
<1>8. Net(Q, e) \in Int
  BY <1>7, NetNumber
<1> HIDE DEF new, Q, u
<1>9. ASSUME NEW x \in s .. e, \A q \in Q : q.ts <= x
      PROVE  Fine(new, s, x) /\ Until(new, x, H) = NetTime(Q, s, x, H)
  <2>1. x \in Nat /\ s <= x /\ x <= e /\ u <= x
    <3>1. r.ts <= x
      BY <1>9 DEF Q
    <3>2. QED
      BY <3>1 DEF u, Instant
  <2>2. /\ Fine(new, s, x)
        /\ Until(new, x, H)
             = Until(new, u, H)
                 + (IF new.count > 0 THEN Worked(u .. x - 1, H) ELSE 0)
    BY <1>1, <1>4, <2>1, UntilLater
  <2>3. \A t \in u .. x - 1 : Net(Q, t) = Net(Q, e)
    <3>1. ASSUME NEW t \in u .. x - 1
          PROVE  \A q \in Q : q.ts <= t /\ q.ts <= e
      <4>1. t \in Int /\ u <= t
        BY <1>1, <2>1
      <4>2. QED
        BY <1>1, <1>2, <4>1
    <3>2. QED
      BY <3>1, NetThen
  <2>4. NetTime(Q, s, x, H)
          = NetTime(Q, s, u, H)
              + (IF Net(Q, e) > 0 THEN Worked(u .. x - 1, H) ELSE 0)
    BY <1>1, <1>8, <2>1, <2>3, NetAlong
  <2>5. QED
    BY <1>3, <1>4, <1>5, <1>6, <2>2, <2>4
<1>10. QED
  BY <1>5, <1>9 DEF Fits, new, Q

(* The rows of a timeline that are gone through.                           *)
LEMMA SeenMore ==
  ASSUME NEW n \in Nat, NEW rows, Timed(rows, n), InTime(rows),
         NEW e \in Nat, NEW k \in 1 .. n, NEW r, r = rows[k]
  PROVE  /\ r.type \in BlockLabelTypes /\ r.ts <= e
              => /\ Seen(rows, k, e) = Seen(rows, k - 1, e) \union {r}
                 /\ r \notin Seen(rows, k - 1, e)
                 /\ \A q \in Seen(rows, k - 1, e) :
                      q.ts \in Nat /\ q.ts <= r.ts
         /\ ~ (r.type \in BlockLabelTypes /\ r.ts <= e)
              => Seen(rows, k, e) = Seen(rows, k - 1, e)
<1> DEFINE Where(m) == {j \in 1 .. m : rows[j].type \in BlockLabelTypes
                                          /\ rows[j].ts <= e}
<1>1. \A m : Seen(rows, m, e) = {rows[i] : i \in Where(m)}
  BY DEF Seen
<1>2. k - 1 \in Nat /\ \A j : j \in 1 .. k <=> j \in 1 .. k - 1 \/ j = k
  OBVIOUS
<1>3. CASE r.type \in BlockLabelTypes /\ r.ts <= e
  <2>1. Where(k) = Where(k - 1) \union {k}
    BY <1>2, <1>3
  <2>2. ASSUME NEW i \in Where(k - 1)
        PROVE  rows[i] # r /\ rows[i].ts \in Nat /\ rows[i].ts <= r.ts
    <3>1. i \in 1 .. n /\ i < k /\ k \in 1 .. n
      OBVIOUS
    <3>2. rows[i].type \in BlockLabelTypes
      OBVIOUS
    <3> HIDE DEF Where
    <3>3. QED
      BY <1>3, <3>1, <3>2 DEF InTime, Timed
  <2> HIDE DEF Where
  <2>3. QED
    BY <1>1, <1>3, <2>1, <2>2
<1>4. CASE ~ (r.type \in BlockLabelTypes /\ r.ts <= e)
  <2>1. Where(k) = Where(k - 1)
    BY <1>2, <1>4
  <2> HIDE DEF Where
  <2>2. QED
    BY <1>1, <1>4, <2>1
<1>5. QED
  BY <1>3, <1>4

(* CalculateBlockedTime, for any timeline with block rows in the order of  *)
(* time: the working time at which more labels are added than removed.     *)
LEMMA BlockedNet ==
  ASSUME NEW n \in Nat, NEW rows, Timed(rows, n), InTime(rows),
         NEW s \in Nat, NEW e \in Nat, s <= e, NEW H \in SUBSET Int
  PROVE  BlockedTime(rows, s, e, H) = NetTime(Range(rows), s, e, H)
<1>1. PICK h : Walk(h, rows, n, s, e, H)
  BY BlockSteps
<1> DEFINE S(k) == Seen(rows, k, e)
           T == {k \in Nat : k <= n => /\ IsFiniteSet(S(k))
                                       /\ Fits(h[k], S(k), s, e, H)}
<1>2. 0 \in T
  <2>1. S(0) = {} /\ IsFiniteSet({})
    <3>1. 1 .. 0 = {}
      OBVIOUS
    <3>2. QED
      BY <3>1, FS_EmptySet DEF Seen
  <2>2. \A t : Net({}, t) = 0
    <3>1. \A t : AddedBy({}, t) = {} /\ RemovedBy({}, t) = {}
      BY DEF AddedBy, RemovedBy
    <3>2. QED
      BY <3>1, FS_EmptySet DEF Net
  <2>3. ASSUME NEW x \in s .. e
        PROVE  /\ Fine(NotBlocked, s, x)
               /\ Until(NotBlocked, x, H) = NetTime({}, s, x, H)
    <3>1. NetTime({}, s, x, H) = 0
      <4>1. {t \in s .. x - 1 : Net({}, t) > 0} = {}
        BY <2>2
      <4>2. QED
        BY <4>1, FS_EmptySet DEF NetTime, Worked
    <3>2. Fine(NotBlocked, s, x)
      BY DEF Fine, NotBlocked, BlockStates
    <3>3. Until(NotBlocked, x, H) = 0
      BY DEF Until, NotBlocked
    <3>4. QED
      BY <3>1, <3>2, <3>3
  <2>4. Fits(NotBlocked, {}, s, e, H)
    BY <2>2, <2>3 DEF Fits, NotBlocked
  <2>5. h[0] = NotBlocked
    BY <1>1 DEF Walk
  <2> HIDE DEF S
  <2>6. QED
    BY <2>1, <2>4, <2>5
<1>3. ASSUME NEW k \in Nat, k \in T
      PROVE  k + 1 \in T
  <2> SUFFICES ASSUME k + 1 <= n
               PROVE  /\ IsFiniteSet(S(k + 1))
                      /\ Fits(h[k + 1], S(k + 1), s, e, H)
    OBVIOUS
  <2> DEFINE r == rows[k + 1]
  <2>1. k + 1 \in 1 .. n /\ (k + 1) - 1 = k
    OBVIOUS
  <2>2. IsFiniteSet(S(k)) /\ Fits(h[k], S(k), s, e, H)
    BY <1>3
  <2>3. h[k + 1] = BlockStep(s, e, H, h[k], r)
    BY <1>1, <2>1 DEF Walk
  <2>4. r.ts \in Nat
    BY <2>1 DEF Timed
  <2>5. /\ r.type \in BlockLabelTypes /\ r.ts <= e
              => /\ S(k + 1) = S(k) \union {r} /\ r \notin S(k)
                 /\ \A q \in S(k) : q.ts \in Nat /\ q.ts <= r.ts
        /\ ~ (r.type \in BlockLabelTypes /\ r.ts <= e) => S(k + 1) = S(k)
    BY <2>1, SeenMore
  <2> HIDE DEF S, r, T
  <2>6. CASE r.type \in BlockLabelTypes /\ r.ts <= e
    <3>1. /\ S(k + 1) = S(k) \union {r} /\ r \notin S(k)
          /\ \A q \in S(k) : q.ts \in Nat /\ q.ts <= r.ts
      BY <2>5, <2>6
    <3>2. IsFiniteSet(S(k + 1))
      BY <2>2, <3>1, FS_AddElement
    <3>3. Fits(BlockStep(s, e, H, h[k], r), S(k) \union {r}, s, e, H)
      BY <2>2, <2>4, <2>6, <3>1, FitsStep
    <3>4. QED
      BY <2>3, <3>1, <3>2, <3>3
  <2>7. CASE ~ (r.type \in BlockLabelTypes /\ r.ts <= e)
    <3>1. BlockStep(s, e, H, h[k], r) = h[k]
      <4>1. CASE r.type \notin BlockLabelTypes
        BY <4>1 DEF BlockStep
      <4>2. CASE r.type \in BlockLabelTypes
        <5>1. r.ts > e /\ ~ (r.ts < s)
          BY <2>4, <2>7, <4>2
        <5>2. QED
          BY <4>2, <5>1 DEF BlockStep
      <4>3. QED
        BY <4>1, <4>2
    <3>2. QED
      BY <2>2, <2>3, <2>5, <2>7, <3>1
  <2>8. QED
    BY <2>6, <2>7
<1>4. Fits(h[n], S(n), s, e, H)
  <2>1. \A k \in Nat : k \in T
    <3> HIDE DEF T
    <3>1. QED
      BY <1>2, <1>3, Induction
  <2>2. QED
    BY <2>1
<1> DEFINE st == h[n]
<1>5. \A q \in S(n) : q.ts <= e
  BY DEF Seen
<1>6. Fine(st, s, e) /\ Until(st, e, H) = NetTime(S(n), s, e, H)
  <2>1. e \in s .. e
    OBVIOUS
  <2> HIDE DEF S, st
  <2>2. QED
    BY <1>4, <1>5, <2>1 DEF Fits, st
<1>7. NetTime(S(n), s, e, H) = NetTime(Range(rows), s, e, H)
  <2>1. ASSUME NEW t \in s .. e - 1
        PROVE  Net(S(n), t) = Net(Range(rows), t)
    <3>1. ASSUME NEW r, r.type \in BlockLabelTypes, r.ts <= t
          PROVE  r \in S(n) <=> r \in Range(rows)
      <4>1. r \in S(n) => r \in Range(rows)
        BY DEF Seen, Range, Timed
      <4>2. ASSUME NEW i \in DOMAIN rows, r = rows[i]
            PROVE  r \in S(n)
        <5>1. i \in 1 .. n /\ r.ts \in Nat
          BY <4>2 DEF Timed
        <5>2. r.ts <= e
          BY <3>1, <5>1
        <5>3. QED
          BY <3>1, <4>2, <5>1, <5>2 DEF Seen
      <4>3. QED
        BY <4>1, <4>2 DEF Range
    <3> HIDE DEF S
    <3>2. QED
      BY <3>1, NetSame
  <2> HIDE DEF S
  <2>2. QED
    BY <2>1 DEF NetTime
<1>8. BlockedTime(rows, s, e, H)
        = st.total + IF st.count > 0 /\ st.from # Never
                       THEN CalculateWorkingTime(st.from, e, H) ELSE 0
  BY <1>1 DEF BlockedTime, Walk
<1> HIDE DEF st, S
<1>9. CASE st.count > 0
  <2>1. st.from \in Nat /\ st.from # Never /\ st.from <= e
    BY <1>6, <1>9 DEF Fine, Never
  <2>2. CalculateWorkingTime(st.from, e, H) = Worked(st.from .. e - 1, H)
    BY <2>1, WorkingTimeRight
  <2>3. QED
    BY <1>6, <1>7, <1>8, <1>9, <2>1, <2>2 DEF Until
<1>10. CASE ~ (st.count > 0)
  BY <1>6, <1>7, <1>8, <1>10 DEF Until
<1>11. QED
  BY <1>9, <1>10

-----------------------------------------------------------------------------
(* Notes.                                                                  *)

NotesUntil(t) ==
  [disc : Discs, by : Users, at : Start .. t, res : Nat \union {Never}]

(* Between two notes there are other instants.                             *)
InOrder(cs) ==
  \A i, j \in DOMAIN cs : i < j => cs[i].at + 1 < cs[j].at

NotesOK ==
  /\ now \in Nat /\ Start <= now
  /\ comments \in Seq(NotesUntil(now)) /\ InOrder(comments)

(* A discussion is resolved at a time of its own.                          *)
Apart(x, r) == x + 1 < r \/ r + 1 < x

ResolvedOK ==
  /\ DOMAIN resolvedAt = Discs
  /\ \A d \in Discs :
       /\ resolvedAt[d] \in Nat \union {Never} /\ resolvedAt[d] <= now
       /\ resolvedAt[d] # Never
            => \A i \in DOMAIN comments : Apart(comments[i].at, resolvedAt[d])

NotesInv == NotesOK /\ ResolvedOK

(* What notes are.                                                         *)
LEMMA NotesTyped ==
  ASSUME NotesOK
  PROVE  /\ Len(comments) \in Nat /\ DOMAIN comments = 1 .. Len(comments)
         /\ \A i \in DOMAIN comments :
              /\ i \in Nat /\ comments[i].at \in Nat /\ comments[i].at <= now
              /\ Start <= comments[i].at
              /\ comments[i].by \in Users /\ comments[i].disc \in Discs
              /\ comments[i].res \in Nat \union {Never}
              /\ comments[i]
                   = [disc |-> comments[i].disc, by |-> comments[i].by,
                      at |-> comments[i].at, res |-> comments[i].res]
         /\ \A i, j \in DOMAIN comments :
              /\ comments[i].at < comments[j].at <=> i < j
              /\ comments[i].at = comments[j].at => i = j
              /\ comments[i].at + 1 # comments[j].at
         /\ \A d : Notes(comments, d) \subseteq DOMAIN comments
<1>1. /\ Len(comments) \in Nat /\ DOMAIN comments = 1 .. Len(comments)
      /\ \A i \in DOMAIN comments : comments[i] \in NotesUntil(now)
  BY DEF NotesOK
<1>2. Start \in Nat /\ now \in Nat
  BY TimelineAssumption DEF NotesOK
<1>3. \A i \in DOMAIN comments :
        /\ i \in Nat /\ comments[i].at \in Nat /\ comments[i].at <= now
        /\ Start <= comments[i].at
        /\ comments[i].by \in Users /\ comments[i].disc \in Discs
        /\ comments[i].res \in Nat \union {Never}
        /\ comments[i]
             = [disc |-> comments[i].disc, by |-> comments[i].by,
                at |-> comments[i].at, res |-> comments[i].res]
  BY <1>1, <1>2 DEF NotesUntil
<1>4. \A i, j \in DOMAIN comments :
        i < j => comments[i].at + 1 < comments[j].at
  BY DEF NotesOK, InOrder
<1>5. \A i, j \in DOMAIN comments :
        /\ comments[i].at < comments[j].at <=> i < j
        /\ comments[i].at = comments[j].at => i = j
        /\ comments[i].at + 1 # comments[j].at
  <2> TAKE i, j \in DOMAIN comments
  <2>1. i \in Nat /\ j \in Nat /\ comments[i].at \in Nat
        /\ comments[j].at \in Nat
    BY <1>3
  <2>2. CASE i < j
    BY <1>4, <2>1, <2>2
  <2>3. CASE j < i
    BY <1>4, <2>1, <2>3
  <2>4. CASE i = j
    BY <2>1, <2>4
  <2>5. QED
    BY <2>1, <2>2, <2>3, <2>4
<1>6. QED
  BY <1>1, <1>3, <1>5 DEF Notes

(* Time goes by.                                                           *)
LEMMA Goes ==
  ASSUME NotesOK, Later
  PROVE  /\ now \in Nat /\ now' \in Nat /\ now + 1 < now' /\ now < now'
         /\ Start \in Nat /\ Start <= now'
BY TimelineAssumption DEF NotesOK, Later

(* Older notes are notes still.                                            *)
LEMMA NotesStay ==
  ASSUME NotesOK, now' \in Nat, now <= now'
  PROVE  NotesUntil(now) \subseteq NotesUntil(now')
<1>1. Start \in Nat /\ now \in Nat
  BY TimelineAssumption DEF NotesOK
<1> DEFINE t == now'
<1>2. t \in Nat /\ now <= t
  OBVIOUS
<1> HIDE DEF t
<1>3. Start .. now \subseteq Start .. t
  BY <1>1, <1>2
<1>4. QED
  BY <1>3 DEF NotesUntil, t

(* When a note counts as resolved.                                         *)
LEMMA ResolutionTime ==
  ASSUME NEW t \in Nat, NEW n \in NotesUntil(t), NEW res, NEW r,
         r = res[n.disc], r \in Nat \union {Never}, r <= t
  PROVE  /\ Resolution(n, res) \in Nat \union {Never}
         /\ Resolution(n, res) <= t
         /\ Resolution(n, res) = Never <=> r = Never
         /\ r # Never /\ r < n.at => Resolution(n, res) = n.at - 1
         /\ r # Never /\ n.at <= r => Resolution(n, res) = r
<1>1. n.at \in Nat /\ n.at <= t
  BY TimelineAssumption DEF NotesUntil
<1>2. Resolution(n, res) = IF r = Never THEN Never
                           ELSE IF n.at > r THEN n.at - 1 ELSE r
  BY DEF Resolution
<1>3. Never = -1
  BY DEF Never
<1>4. QED
  BY <1>1, <1>2, <1>3

Adds(d, u) ==
  comments' = Append(comments,
    [disc |-> d, by |-> u, at |-> now',
     res |-> Resolution([disc |-> d, by |-> u, at |-> now', res |-> Never],
                        resolvedAt)])

(* Notes but for the times they were resolved.                             *)
SameNotes(cs, ds) ==
  /\ DOMAIN cs = DOMAIN ds
  /\ \A i \in DOMAIN cs : /\ ds[i].disc = cs[i].disc /\ ds[i].by = cs[i].by
                          /\ ds[i].at = cs[i].at

(* Discussions are resolved and reopened.                                  *)
ResMoves ==
  /\ DOMAIN resolvedAt' = Discs
  /\ \A d \in Discs : \/ resolvedAt'[d] = resolvedAt[d]
                      \/ resolvedAt'[d] = Never
                      \/ resolvedAt[d] = Never /\ resolvedAt'[d] = now'

(* What a step does to the notes.                                          *)
Notices == \E d \in Discs, u \in Users :
             Later /\ resolvedAt' = resolvedAt /\ Adds(d, u)

Leaves ==
  /\ Later \/ (now' = now /\ resolvedAt' = resolvedAt)
  /\ ResMoves
  /\ \/ comments' = comments
     \/ \E S \in SUBSET DOMAIN comments : Update(S)

(* A note that is found is the last.                                       *)
LEMMA NoteAdded ==
  ASSUME NotesInv, Later, NEW d \in Discs, NEW u \in Users, Adds(d, u)
  PROVE  /\ NotesOK'
         /\ DOMAIN comments' = DOMAIN comments \union {Len(comments) + 1}
         /\ comments'[Len(comments) + 1].disc = d
         /\ comments'[Len(comments) + 1].by = u
         /\ comments'[Len(comments) + 1].at = now'
         /\ \A i \in DOMAIN comments : /\ comments'[i] = comments[i]
                                       /\ i < Len(comments) + 1
         /\ \A e : Notes(comments', e)
                     = IF e = d THEN Notes(comments, d) \union {Len(comments) + 1}
                       ELSE Notes(comments, e)
<1> DEFINE n == Len(comments)
           t == now'
           b == [disc |-> d, by |-> u, at |-> t, res |-> Never]
           c == [disc |-> d, by |-> u, at |-> t,
                 res |-> Resolution(b, resolvedAt)]
           more == Append(comments, c)
<1>0. NotesOK /\ ResolvedOK
  BY DEF NotesInv
<1>1. now \in Nat /\ t \in Nat /\ now + 1 < t /\ Start \in Nat /\ Start <= t
  BY <1>0, Goes
<1>2. comments \in Seq(NotesUntil(t))
  <2>1. NotesUntil(now) \subseteq NotesUntil(t)
    BY <1>0, <1>1, NotesStay
  <2> HIDE DEF t
  <2>2. QED
    BY <1>0, <2>1 DEF NotesOK
<1>3. c \in NotesUntil(t)
  <2>1. b \in NotesUntil(t)
    <3> HIDE DEF t
    <3>1. QED
      BY <1>1 DEF NotesUntil
  <2>2. resolvedAt[d] \in Nat \union {Never} /\ resolvedAt[d] <= t
    <3>1. resolvedAt[d] \in Nat \union {Never} /\ resolvedAt[d] <= now
      BY <1>0 DEF ResolvedOK
    <3> HIDE DEF t
    <3>2. QED
      BY <1>1, <3>1 DEF Never
  <2>3. b.disc = d
    OBVIOUS
  <2> HIDE DEF b, t
  <2>4. Resolution(b, resolvedAt) \in Nat \union {Never}
    BY <1>1, <2>1, <2>2, <2>3, ResolutionTime
  <2>5. QED
    BY <1>1, <2>4 DEF NotesUntil
<1>4. c.at = t /\ c.disc = d /\ c.by = u
  OBVIOUS
<1>5. comments' = more
  BY DEF Adds
<1> HIDE DEF c, b, t
<1>6. /\ more \in Seq(NotesUntil(t)) /\ n \in Nat
      /\ DOMAIN more = 1 .. n + 1 /\ DOMAIN comments = 1 .. n
      /\ more[n + 1] = c
      /\ \A i \in 1 .. n : more[i] = comments[i]
  BY <1>2, <1>3
<1> HIDE DEF more, n
<1>7. /\ DOMAIN more = DOMAIN comments \union {n + 1}
      /\ \A i \in DOMAIN comments : i \in Nat /\ i < n + 1
      /\ n + 1 \notin DOMAIN comments
  BY <1>6
<1>8. \A i \in DOMAIN comments :
        comments[i].at \in Nat /\ comments[i].at + 1 < t
  BY <1>0, <1>1, NotesTyped
<1>9. InOrder(more)
  <2> SUFFICES ASSUME NEW i \in DOMAIN more, NEW j \in DOMAIN more, i < j
               PROVE  more[i].at + 1 < more[j].at
    BY DEF InOrder
  <2>1. CASE j = n + 1
    <3>1. i \in DOMAIN comments
      BY <1>6, <2>1
    <3>2. QED
      BY <1>4, <1>6, <1>8, <2>1, <3>1
  <2>2. CASE j # n + 1
    <3>1. i \in DOMAIN comments /\ j \in DOMAIN comments
      BY <1>6, <2>2
    <3>2. QED
      BY <1>0, <1>6, <3>1 DEF NotesOK, InOrder
  <2>3. QED
    BY <2>1, <2>2
<1>10. NotesOK'
  BY <1>1, <1>5, <1>6, <1>9 DEF NotesOK, t
<1>11. ASSUME NEW e
       PROVE  Notes(more, e) = IF e = d THEN Notes(comments, d) \union {n + 1}
                               ELSE Notes(comments, e)
  BY <1>4, <1>6, <1>7 DEF Notes
<1>12. QED
  BY <1>4, <1>5, <1>6, <1>7, <1>10, <1>11 DEF n, t

(* The same notes are where they were.                                     *)
LEMMA NotesUpdated ==
  ASSUME NotesInv, Leaves
  PROVE  NotesOK' /\ SameNotes(comments, comments')
<1> DEFINE t == now'
           more == comments'
<1>0. NotesOK /\ ResolvedOK
  BY DEF NotesInv
<1>1. /\ now \in Nat /\ t \in Nat /\ now <= t /\ Start <= t
  <2>1. CASE Later
    BY <1>0, <2>1, Goes
  <2>2. CASE now' = now
    BY <1>0, <2>2 DEF NotesOK
  <2>3. QED
    BY <2>1, <2>2 DEF Leaves
<1>2. comments \in Seq(NotesUntil(t))
  <2>1. NotesUntil(now) \subseteq NotesUntil(t)
    BY <1>0, <1>1, NotesStay
  <2> HIDE DEF t
  <2>2. QED
    BY <1>0, <2>1 DEF NotesOK
<1>3. ASSUME NEW S \in SUBSET DOMAIN comments, Update(S)
      PROVE  more \in Seq(NotesUntil(t)) /\ SameNotes(comments, more)
  <2> DEFINE N(i) == Resolution(comments[i], resolvedAt')
             V(i) == IF i \in S THEN [comments[i] EXCEPT !.res = N(i)]
                     ELSE comments[i]
  <2>1. more = [i \in DOMAIN comments |-> V(i)]
    BY <1>3 DEF Update
  <2>2. ASSUME NEW i \in DOMAIN comments
        PROVE  N(i) \in Nat \union {Never}
    <3> DEFINE d == comments[i].disc
               res == resolvedAt'
               r == res[d]
    <3>1. d \in Discs /\ resolvedAt[d] \in Nat \union {Never}
          /\ resolvedAt[d] <= now
      BY <1>0, NotesTyped DEF ResolvedOK
    <3>2. r = resolvedAt[d] \/ r = Never \/ r = t
      BY <3>1 DEF Leaves, ResMoves
    <3> HIDE DEF r, t
    <3>3. r \in Nat \union {Never} /\ r <= t
      BY <1>1, <3>1, <3>2 DEF Never
    <3>4. comments[i] \in NotesUntil(t)
      BY <1>2
    <3> HIDE DEF res, N
    <3>5. Resolution(comments[i], res) \in Nat \union {Never}
      BY <1>1, <3>3, <3>4, ResolutionTime DEF r
    <3>6. QED
      BY <3>5 DEF N, res
  <2> HIDE DEF N, more, t
  <2>3. ASSUME NEW i \in DOMAIN comments
        PROVE  /\ V(i) \in NotesUntil(t)
               /\ V(i).disc = comments[i].disc /\ V(i).by = comments[i].by
               /\ V(i).at = comments[i].at
    <3>1. comments[i] \in NotesUntil(t)
      BY <1>2
    <3>2. [comments[i] EXCEPT !.res = N(i)] \in NotesUntil(t)
      BY <2>2, <3>1 DEF NotesUntil
    <3>3. QED
      BY <3>1, <3>2 DEF NotesUntil
  <2>4. DOMAIN comments = 1 .. Len(comments) /\ Len(comments) \in Nat
    BY <1>2
  <2> HIDE DEF V
  <2>5. more \in Seq(NotesUntil(t))
    BY <2>1, <2>3, <2>4
  <2>6. SameNotes(comments, more)
    BY <2>1, <2>3 DEF SameNotes
  <2>7. QED
    BY <2>5, <2>6
<1>4. more \in Seq(NotesUntil(t)) /\ SameNotes(comments, more)
  <2>1. CASE more = comments
    <3> HIDE DEF t, more
    <3>1. QED
      BY <1>2, <2>1 DEF SameNotes
  <2>2. QED
    BY <1>3, <2>1 DEF Leaves
<1> HIDE DEF t, more
<1>5. InOrder(more)
  BY <1>0, <1>4 DEF InOrder, SameNotes, NotesOK
<1>6. QED
  BY <1>1, <1>4, <1>5 DEF NotesOK, t, more

(* Either keeps what is known of notes.                                    *)
LEMMA NotesNext ==
  ASSUME NotesInv, Notices \/ Leaves
  PROVE  NotesInv'
<1> DEFINE t == now'
           res == resolvedAt'
           more == comments'
<1>0. NotesOK /\ ResolvedOK
  BY DEF NotesInv
<1>1. CASE Notices
  <2>1. PICK d \in Discs, u \in Users :
          Later /\ res = resolvedAt /\ Adds(d, u)
    BY <1>1 DEF Notices
  <2> DEFINE n == Len(comments) + 1
  <2>2. /\ NotesOK'
        /\ DOMAIN more = DOMAIN comments \union {n} /\ more[n].at = t
        /\ \A i \in DOMAIN comments : more[i] = comments[i]
    BY <2>1, NoteAdded
  <2>3. now \in Nat /\ t \in Nat /\ now + 1 < t
    BY <1>0, <2>1, Goes
  <2> HIDE DEF t, more, n, res
  <2>4. ASSUME NEW e \in Discs
        PROVE  /\ res[e] \in Nat \union {Never} /\ res[e] <= t
               /\ res[e] # Never =>
                    \A i \in DOMAIN more : Apart(more[i].at, res[e])
    <3>1. /\ res[e] \in Nat \union {Never} /\ res[e] <= now
          /\ res[e] # Never =>
               \A i \in DOMAIN comments : Apart(comments[i].at, res[e])
      BY <1>0, <2>1 DEF ResolvedOK
    <3>2. res[e] <= t /\ (res[e] # Never => Apart(t, res[e]))
      BY <2>3, <3>1 DEF Never, Apart
    <3>3. QED
      BY <2>2, <3>1, <3>2
  <2>5. DOMAIN res = Discs
    BY <1>0, <2>1 DEF ResolvedOK
  <2>6. ResolvedOK'
    BY <2>4, <2>5 DEF ResolvedOK, more, res, t
  <2>7. QED
    BY <2>2, <2>6 DEF NotesInv
<1>2. CASE Leaves
  <2>1. NotesOK' /\ SameNotes(comments, more)
    BY <1>2, NotesUpdated
  <2>2. DOMAIN res = Discs
    BY <1>2 DEF Leaves, ResMoves
  <2>3. ASSUME NEW e \in Discs
        PROVE  /\ res[e] \in Nat \union {Never} /\ res[e] <= t
               /\ res[e] # Never =>
                    \A i \in DOMAIN more : Apart(more[i].at, res[e])
    <3>1. /\ resolvedAt[e] \in Nat \union {Never} /\ resolvedAt[e] <= now
          /\ resolvedAt[e] # Never =>
               \A i \in DOMAIN comments : Apart(comments[i].at, resolvedAt[e])
      BY <1>0 DEF ResolvedOK
    <3>2. \/ res[e] = resolvedAt[e] \/ res[e] = Never
          \/ res[e] = t
      BY <1>2 DEF Leaves, ResMoves
    <3>3. \/ t = now /\ res = resolvedAt
          \/ now \in Nat /\ t \in Nat /\ now + 1 < t
      BY <1>0, <1>2, Goes DEF Leaves
    <3>4. now \in Nat /\ \A i \in DOMAIN comments :
            comments[i].at \in Nat /\ comments[i].at <= now
      BY <1>0, NotesTyped DEF NotesOK
    <3>5. \A i \in DOMAIN more :
            i \in DOMAIN comments /\ more[i].at = comments[i].at
      BY <2>1 DEF SameNotes
    <3> HIDE DEF t, res, more
    <3>6. CASE t = now /\ res = resolvedAt
      BY <3>1, <3>5, <3>6
    <3>7. CASE now + 1 < t /\ t \in Nat
      <4>1. CASE res[e] = resolvedAt[e]
        BY <3>1, <3>4, <3>5, <3>7, <4>1 DEF Never
      <4>2. CASE res[e] = Never
        BY <3>7, <4>2 DEF Never
      <4>3. CASE res[e] = t
        BY <3>4, <3>5, <3>7, <4>3 DEF Apart
      <4>4. QED
        BY <3>2, <4>1, <4>2, <4>3
    <3>8. QED
      BY <3>3, <3>6, <3>7
  <2> HIDE DEF t, res, more
  <2>4. ResolvedOK'
    BY <2>2, <2>3 DEF ResolvedOK, more, res, t
  <2>5. QED
    BY <2>1, <2>4 DEF NotesInv
<1>3. QED
  BY <1>1, <1>2

-----------------------------------------------------------------------------
(* The timeline grows.                                                     *)

(* A set as a sequence has its elements, each once.                        *)
LEMMA Listed ==
  ASSUME NEW S, IsFiniteSet(S)
  PROVE  LET q == SetToSeq(S)
         IN  /\ q \in Seq(S) /\ DOMAIN q = 1 .. Len(q) /\ Range(q) = S
             /\ \A i, j \in DOMAIN q : q[i] = q[j] => i = j
<1> DEFINE q == SetToSeq(S)
           n == Cardinality(S)
<1>1. n \in Nat /\ ExistsBijection(1 .. n, S)
  BY FS_CardinalityType
<1> HIDE DEF n
<1>2. \E f \in [1 .. n -> S] : IsInjective(f)
  BY <1>1 DEF ExistsBijection, Bijection, Injection
<1>3. q \in [1 .. n -> S] /\ IsInjective(q)
  BY <1>2 DEF SetToSeq, n
<1> HIDE DEF q
<1>4. q \in Injection(1 .. n, S)
  BY <1>3 DEF Injection
<1>5. IsFiniteSet(1 .. n) /\ Cardinality(1 .. n) = Cardinality(S)
  <2>1. IsFiniteSet(1 .. n) /\ Cardinality(1 .. n) = n
    BY <1>1, FS_Interval
  <2>2. QED
    BY <2>1 DEF n
<1>6. q \in Surjection(1 .. n, S)
  BY <1>4, <1>5, FS_Injection
<1>7. q \in Seq(S) /\ DOMAIN q = 1 .. Len(q)
  BY <1>1, <1>3
<1>8. Range(q) = S
  BY <1>3, <1>6 DEF Surjection, Range
<1>9. QED
  BY <1>3, <1>7, <1>8 DEF IsInjective, q

(* Two sequences, one after the other.                                     *)
LEMMA Joined ==
  ASSUME NEW T, NEW a \in Seq(T), NEW b \in Seq(T)
  PROVE  /\ a \o b \in Seq(T) /\ Range(a \o b) = Range(a) \union Range(b)
         /\ DOMAIN (a \o b) = 1 .. Len(a) + Len(b)
         /\ \A i \in 1 .. Len(a) : (a \o b)[i] = a[i]
         /\ \A i \in Len(a) + 1 .. Len(a) + Len(b) :
              /\ i - Len(a) \in DOMAIN b
              /\ (a \o b)[i] = b[i - Len(a)]
<1> DEFINE c == a \o b
           n == Len(a)
           m == Len(b)
<1>1. n \in Nat /\ m \in Nat /\ DOMAIN a = 1 .. n /\ DOMAIN b = 1 .. m
  OBVIOUS
<1>2. /\ c \in Seq(T) /\ Len(c) = n + m /\ DOMAIN c = 1 .. n + m
      /\ \A i \in 1 .. n + m : c[i] = IF i <= n THEN a[i] ELSE b[i - n]
  OBVIOUS
<1> HIDE DEF c, n, m
<1>3. \A i \in 1 .. n : i \in 1 .. n + m /\ c[i] = a[i]
  BY <1>1, <1>2
<1>4. \A i \in n + 1 .. n + m : i - n \in 1 .. m /\ c[i] = b[i - n]
  BY <1>1, <1>2
<1>5. \A i \in 1 .. m : i + n \in 1 .. n + m /\ c[i + n] = b[i]
  BY <1>1, <1>2
<1>6. \A i \in 1 .. n + m : i \in 1 .. n \/ i \in n + 1 .. n + m
  BY <1>1
<1>7. Range(c) = Range(a) \union Range(b)
  <2>1. Range(c) \subseteq Range(a) \union Range(b)
    BY <1>1, <1>2, <1>3, <1>4, <1>6 DEF Range
  <2>2. \A i \in 1 .. n : a[i] \in Range(c)
    BY <1>2, <1>3 DEF Range
  <2>3. \A i \in 1 .. m : b[i] \in Range(c)
    BY <1>2, <1>5 DEF Range
  <2>4. Range(a) = {a[i] : i \in 1 .. n} /\ Range(b) = {b[i] : i \in 1 .. m}
    BY <1>1 DEF Range
  <2>5. QED
    BY <2>1, <2>2, <2>3, <2>4
<1>8. QED
  BY <1>1, <1>2, <1>3, <1>4, <1>7 DEF c, n, m

(* Rows of a timeline until an instant.  The resolver of a note is known   *)
(* by the note.                                                            *)
RowTypes ==
  BlockLabelTypes \union {"draft_toggled", "comment_resolved",
                          "reviewer_assigned"}

RowsUntil(t) ==
  [type : RowTypes, user : Users \union {NoUser} \union Nat,
   meta : BOOLEAN \union Discs \union Labels \union {NoUser}, ts : 0 .. t]

(* They have timestamps.                                                   *)
LEMMA RowsTimed ==
  ASSUME NEW t \in Nat, NEW rows \in Seq(RowsUntil(t))
  PROVE  /\ Len(rows) \in Nat /\ Timed(rows, Len(rows))
         /\ \A i \in 1 .. Len(rows) : rows[i].ts \in Nat /\ rows[i].ts <= t
         /\ IsFiniteSet(Range(rows)) /\ Range(rows) \subseteq RowsUntil(t)
         /\ \A r \in Range(rows) :
              r.ts \in Nat /\ r.ts <= t /\ r.type \in RowTypes
<1>1. \A r \in RowsUntil(t) :
        r.ts \in Nat /\ r.ts <= t /\ r.type \in RowTypes
  BY DEF RowsUntil
<1>2. /\ Len(rows) \in Nat /\ DOMAIN rows = 1 .. Len(rows)
      /\ \A i \in 1 .. Len(rows) : rows[i] \in RowsUntil(t)
  OBVIOUS
<1> DEFINE n == Len(rows)
<1> HIDE DEF n
<1>3. rows \in Surjection(1 .. n, Range(rows))
  BY <1>2 DEF Range, Surjection, n
<1>4. IsFiniteSet(1 .. n)
  BY <1>2, FS_Interval DEF n
<1>5. IsFiniteSet(Range(rows))
  BY <1>3, <1>4, FS_Surjection
<1>6. Range(rows) \subseteq RowsUntil(t)
  BY <1>2 DEF Range
<1>7. QED
  BY <1>1, <1>2, <1>5, <1>6 DEF Timed, n

(* What a step does to the notes: it adds one, or leaves them where they   *)
(* are.                                                                    *)
LEMMA StepKinds ==
  ASSUME NotesInv, Next
  PROVE  (Notices \/ Leaves) /\ (~ PollNote => Leaves)
<1>1. DOMAIN resolvedAt = Discs /\ \A d : Notes(comments, d)
                                            \subseteq DOMAIN comments
  BY NotesTyped DEF NotesInv, ResolvedOK
<1>2. ASSUME comments' = comments, resolvedAt' = resolvedAt, Later
      PROVE  Leaves
  BY <1>1, <1>2 DEF Leaves, ResMoves
<1>3. CASE PollNote
  <2>1. PICK d \in Discs, u \in Users :
          comments' = Append(comments,
            [[disc |-> d, by |-> u, at |-> now', res |-> Never]
               EXCEPT !.res = Resolution([disc |-> d, by |-> u, at |-> now',
                                          res |-> Never], resolvedAt)])
    BY <1>3 DEF PollNote
  <2>2. Adds(d, u)
    BY <2>1 DEF Adds
  <2>3. Later /\ resolvedAt' = resolvedAt
    BY <1>3 DEF PollNote
  <2>4. QED
    BY <1>3, <2>2, <2>3 DEF Notices
<1>4. ASSUME NEW S, NEW d, S \in Updatable(Notes(comments, d))
      PROVE  S \in SUBSET DOMAIN comments
  BY <1>1, <1>4 DEF Updatable
<1>5. CASE PollResolved
  <2>1. PICK d \in Discs :
          /\ resolvedAt[d] = Never
          /\ resolvedAt' = [resolvedAt EXCEPT ![d] = now']
          /\ \E S \in Updatable(Notes(comments, d)) : Update(S)
    BY <1>5 DEF PollResolved
  <2>2. ResMoves
    BY <1>1, <2>1 DEF ResMoves
  <2>3. \E S \in SUBSET DOMAIN comments : Update(S)
    BY <1>4, <2>1
  <2>4. QED
    BY <1>5, <2>2, <2>3 DEF Leaves, PollResolved
<1>6. CASE PollReopened
  <2>1. PICK d \in Discs :
          /\ resolvedAt' = [resolvedAt EXCEPT ![d] = Never]
          /\ \E S \in Updatable(Notes(comments, d)) : Update(S)
    BY <1>6 DEF PollReopened
  <2>2. ResMoves
    BY <1>1, <2>1 DEF ResMoves
  <2>3. \E S \in SUBSET DOMAIN comments : Update(S)
    BY <1>4, <2>1
  <2>4. QED
    BY <1>6, <2>2, <2>3 DEF Leaves, PollReopened
<1>7. CASE PollAgain
  <2>1. PICK S \in SUBSET Stale : Update(S)
    BY <1>7 DEF PollAgain
  <2>2. S \in SUBSET DOMAIN comments
    BY DEF Stale
  <2>3. now' = now /\ resolvedAt' = resolvedAt
    BY <1>7 DEF PollAgain
  <2>4. ResMoves
    BY <1>1, <2>3 DEF ResMoves
  <2>5. QED
    BY <2>1, <2>2, <2>3, <2>4 DEF Leaves
<1>8. CASE PollLabels \/ SetBlockLabels \/ PollReviewer
  BY <1>2, <1>8 DEF PollLabels, SetBlockLabels, PollReviewer, SameState
<1>9. CASE PollDraft
  BY <1>2, <1>9 DEF PollDraft
<1>10. QED
  BY <1>3, <1>5, <1>6, <1>7, <1>8, <1>9 DEF Next

(* Its row, its labels and its timeline are what they are declared to be,  *)
(* and the rows of block labels are on it in the order of time.            *)
Typed ==
  /\ now \in Nat /\ Start <= now
  /\ labels \in SUBSET Labels /\ blockLabels \in SUBSET Labels
  /\ holidays \in SUBSET Int
  /\ draft \in BOOLEAN /\ lossy \in BOOLEAN
  /\ blocked \in SUBSET (Start .. now - 1)
  /\ actions \in Seq(RowsUntil(now)) /\ InTime(actions)

(* The rows of a step that are not about block labels.                     *)
MoreRows(q) ==
  /\ q \in Seq(RowsUntil(now')) /\ actions' = actions \o q
  /\ \A r \in Range(q) :
       \/ r.type \in {"comment_resolved", "reviewer_assigned"}
       \/ PollDraft /\ r = Row("draft_toggled", NoUser, draft', now')

(* One call or none.                                                       *)
LEMMA OneRecorded ==
  ASSUME NEW row \in RowsUntil(now'), Record(row),
         actions \in Seq(RowsUntil(now'))
  PROVE  \E q \in Seq(RowsUntil(now')) :
           actions' = actions \o q /\ Range(q) \subseteq {row}
<1>1. PICK A \in Recorded(Range(actions), {row}, Faults) :
        actions' = actions \o SetToSeq(A)
  BY DEF Record
<1>2. A \subseteq {row}
  BY DEF Recorded, Additions, Fresh
<1>3. IsFiniteSet(A)
  BY <1>2, FS_Singleton, FS_Subset
<1> DEFINE q == SetToSeq(A)
<1>4. q \in Seq(A) /\ Range(q) = A
  BY <1>3, Listed
<1> HIDE DEF q
<1>5. q \in Seq(RowsUntil(now'))
  <2>1. A \subseteq RowsUntil(now')
    BY <1>2
  <2>2. Seq(A) \subseteq Seq(RowsUntil(now'))
    BY <2>1
  <2>3. QED
    BY <1>4, <2>2
<1>6. QED
  BY <1>1, <1>2, <1>4, <1>5 DEF q

(* A row for each note that has been resolved.                             *)
LEMMA UpdateRows ==
  ASSUME NotesInv, Leaves, NEW S \in SUBSET DOMAIN comments, Update(S),
         actions \in Seq(RowsUntil(now'))
  PROVE  \E q : MoreRows(q)
<1> DEFINE res == resolvedAt'
           t == now'
           N(i) == Resolution(comments[i], res)
           R(i) == Row("comment_resolved", i, comments[i].disc, N(i))
           P == {i \in S : comments[i].res = Never /\ N(i) # Never}
<1>1. PICK L \in SUBSET P :
        actions' = actions \o SetToSeq({R(i) : i \in L})
  BY DEF Update
<1>2. NotesOK /\ NotesOK' /\ ResolvedOK'
  BY NotesNext DEF NotesInv
<1>3. t \in Nat /\ now <= t
  <2>1. CASE Later
    BY <1>2, <2>1, Goes
  <2>2. CASE now' = now
    BY <1>2, <2>2 DEF NotesOK
  <2>3. QED
    BY <2>1, <2>2 DEF Leaves
<1>4. NotesUntil(now) \subseteq NotesUntil(t)
  BY <1>2, <1>3, NotesStay
<1>5. \A d \in Discs : res[d] \in Nat \union {Never} /\ res[d] <= t
  BY <1>2 DEF ResolvedOK
<1> HIDE DEF t, res
<1>6. ASSUME NEW i \in L
      PROVE  R(i) \in RowsUntil(t) /\ R(i).type = "comment_resolved"
  <2>1. /\ i \in DOMAIN comments /\ i \in Nat /\ comments[i] \in NotesUntil(t)
        /\ comments[i].disc \in Discs /\ N(i) # Never
    BY <1>2, <1>4, NotesTyped DEF NotesOK
  <2>2. N(i) \in Nat \union {Never} /\ N(i) <= t
    BY <1>3, <1>5, <2>1, ResolutionTime
  <2>3. N(i) \in 0 .. t
    BY <1>3, <2>1, <2>2
  <2> HIDE DEF N
  <2>4. QED
    BY <2>1, <2>3 DEF Row, RowsUntil, RowTypes
<1> DEFINE A == {R(i) : i \in L}
           q == SetToSeq(A)
<1>7. IsFiniteSet(A)
  <2>1. DOMAIN comments = 1 .. Len(comments) /\ Len(comments) \in Nat
    BY <1>2 DEF NotesOK
  <2>2. IsFiniteSet(L)
    <3>1. IsFiniteSet(DOMAIN comments)
      BY <2>1, FS_Interval
    <3>2. L \in SUBSET DOMAIN comments
      OBVIOUS
    <3> HIDE DEF P, A
    <3>3. QED
      BY <3>1, <3>2, FS_Subset
  <2> DEFINE f == [i \in L |-> R(i)]
  <2>3. f \in Surjection(L, A)
    <3>1. f \in [L -> A]
      OBVIOUS
    <3>2. \A a \in A : \E i \in L : f[i] = a
      OBVIOUS
    <3>3. QED
      BY <3>1, <3>2 DEF Surjection
  <2> HIDE DEF f, A
  <2>4. QED
    BY <2>2, <2>3, FS_Surjection
<1>8. A \subseteq RowsUntil(t) /\ \A r \in A : r.type = "comment_resolved"
  BY <1>6
<1>9. actions' = actions \o q
  BY <1>1
<1> HIDE DEF A, R, N
<1>10. q \in Seq(A) /\ Range(q) = A
  BY <1>7, Listed
<1> HIDE DEF q
<1>11. q \in Seq(RowsUntil(t))
  BY <1>8, <1>10
<1>12. QED
  BY <1>8, <1>9, <1>10, <1>11 DEF MoreRows, t

(* Time goes by, or it does not.                                           *)
LEMMA StepTime ==
  ASSUME Typed, Next
  PROVE  /\ now' \in Nat /\ now \in Nat /\ Start \in Nat /\ Start <= now'
         /\ \/ Later /\ now < now'
            \/ now' = now /\ blocked' = blocked
         /\ actions \in Seq(RowsUntil(now'))
<1>1. now \in Nat /\ Start \in Nat /\ Start <= now
      /\ Gaps \subseteq Nat \ {0, 1}
  BY TimelineAssumption DEF Typed
<1>2. Later \/ (now' = now /\ blocked' = blocked)
  BY DEF Next, PollLabels, SetBlockLabels, PollDraft, PollNote, PollResolved,
         PollReopened, PollAgain, PollReviewer
<1>3. Later => now' \in Nat /\ now < now'
  BY <1>1 DEF Later
<1> DEFINE t == now'
<1>4. t \in Nat /\ now <= t
  BY <1>1, <1>2, <1>3
<1> HIDE DEF t
<1>5. RowsUntil(now) \subseteq RowsUntil(t)
  <2>1. 0 .. now \subseteq 0 .. t
    BY <1>1, <1>4
  <2>2. QED
    BY <2>1 DEF RowsUntil
<1>6. actions \in Seq(RowsUntil(t))
  BY <1>5 DEF Typed
<1>7. QED
  BY <1>1, <1>2, <1>3, <1>4, <1>6 DEF t

(* Every step but a poll of the labels writes rows of other types.         *)
LEMMA OtherRows ==
  ASSUME Typed, NotesInv, Next, ~ PollLabels
  PROVE  \E q : MoreRows(q)
<1>1. actions \in Seq(RowsUntil(now')) /\ now' \in Nat
  BY StepTime
<1>2. ASSUME actions' = actions
      PROVE  \E q : MoreRows(q)
  <2>1. /\ <<>> \in Seq(RowsUntil(now')) /\ Range(<<>>) = {}
        /\ actions' = actions \o <<>>
    BY <1>1, <1>2 DEF Range
  <2>2. QED
    BY <2>1 DEF MoreRows
<1>3. CASE SetBlockLabels \/ PollNote
  BY <1>2, <1>3 DEF SetBlockLabels, SameState, PollNote
<1>4. CASE PollDraft
  <2> DEFINE row == Row("draft_toggled", NoUser, draft', now')
  <2>1. Record(row)
    BY <1>4 DEF PollDraft
  <2>2. row \in RowsUntil(now')
    <3>1. draft' \in BOOLEAN
      BY <1>4 DEF PollDraft, Typed
    <3>2. QED
      BY <1>1, <3>1 DEF Row, RowsUntil, RowTypes
  <2>3. PICK q \in Seq(RowsUntil(now')) :
          actions' = actions \o q /\ Range(q) \subseteq {row}
    BY <1>1, <2>1, <2>2, OneRecorded
  <2>4. QED
    BY <1>4, <2>3 DEF MoreRows
<1>5. CASE PollReviewer
  <2>1. PICK u \in Reviewers :
          Record(Row("reviewer_assigned", u, NoUser, now'))
    BY <1>5 DEF PollReviewer
  <2> DEFINE row == Row("reviewer_assigned", u, NoUser, now')
  <2>2. row \in RowsUntil(now') /\ row.type = "reviewer_assigned"
    BY <1>1 DEF Row, RowsUntil, RowTypes, Users
  <2>3. PICK q \in Seq(RowsUntil(now')) :
          actions' = actions \o q /\ Range(q) \subseteq {row}
    BY <1>1, <2>1, <2>2, OneRecorded
  <2>4. QED
    BY <2>2, <2>3 DEF MoreRows
<1>6. ASSUME Leaves, \E S \in SUBSET DOMAIN comments : Update(S)
      PROVE  \E q : MoreRows(q)
  BY <1>1, <1>6, UpdateRows
<1>7. CASE PollResolved \/ PollReopened \/ PollAgain
  <2>1. \A d, S : S \in Updatable(Notes(comments, d))
                    => S \in SUBSET DOMAIN comments
    BY DEF Updatable, Notes
  <2>2. \E S \in SUBSET DOMAIN comments : Update(S)
    <3>1. CASE PollResolved
      BY <2>1, <3>1 DEF PollResolved
    <3>2. CASE PollReopened
      BY <2>1, <3>2 DEF PollReopened
    <3>3. CASE PollAgain
      BY <3>3 DEF PollAgain, Stale
    <3>4. QED
      BY <1>7, <3>1, <3>2, <3>3
  <2>3. CASE Leaves
    BY <1>6, <2>2, <2>3
  <2>4. CASE Notices
    <3>1. PICK S \in SUBSET DOMAIN comments : Update(S)
      BY <2>2
    <3>2. PICK d \in Discs, u \in Users : Later /\ Adds(d, u)
      BY <2>4 DEF Notices
    <3>3. DOMAIN comments' = DOMAIN comments
      BY <3>1 DEF Update
    <3>4. /\ DOMAIN comments' = DOMAIN comments \union {Len(comments) + 1}
          /\ \A i \in DOMAIN comments : i < Len(comments) + 1
      BY <3>2, NoteAdded
    <3>5. Len(comments) \in Nat
      BY NotesTyped DEF NotesInv
    <3>6. Len(comments) + 1 \in DOMAIN comments
      BY <3>3, <3>4
    <3>7. Len(comments) + 1 < Len(comments) + 1
      BY <3>4, <3>6
    <3>8. QED
      BY <3>5, <3>7
  <2>5. QED
    BY <2>3, <2>4, StepKinds
<1>8. QED
  BY <1>3, <1>4, <1>5, <1>7 DEF Next

WornLabels == labels \intersect blockLabels

(* As long as all changes of block labels are on the timeline, it tells    *)
(* when it was blocked, and how many block labels it wears.                *)
Kept ==
  ~ lossy =>
    /\ \A t \in Start .. now - 1 : t \in blocked <=> Net(Range(actions), t) > 0
    /\ Net(Range(actions), now) = Cardinality(WornLabels)

TimelineInv == NotesInv /\ Typed /\ Kept

(* There is a number of labels that are worn.                              *)
LEMMA WornNumber ==
  ASSUME Typed
  PROVE  /\ IsFiniteSet(WornLabels) /\ Cardinality(WornLabels) \in Nat
         /\ IsBlocked <=> Cardinality(WornLabels) > 0
<1>1. IsFiniteSet(WornLabels)
  <2>1. WornLabels \in SUBSET Labels
    BY DEF WornLabels, Typed
  <2>2. QED
    BY <2>1, FS_Subset, TimelineAssumption
<1>2. Cardinality(WornLabels) \in Nat
  BY <1>1, FS_CardinalityType
<1>3. Cardinality(WornLabels) = 0 <=> WornLabels = {}
  BY <1>1, FS_EmptySet
<1>4. IsBlocked <=> WornLabels # {}
  BY DEF IsBlocked, WornLabels
<1>5. QED
  BY <1>1, <1>2, <1>3, <1>4

(* When time has gone by, the rows that were there tell so.                *)
LEMMA KeptLater ==
  ASSUME TimelineInv, Next
  PROVE  /\ blocked' \in SUBSET (Start .. now' - 1)
         /\ ~ lossy =>
              /\ \A t \in Start .. now' - 1 :
                   t \in blocked' <=> Net(Range(actions), t) > 0
              /\ Net(Range(actions), now') = Cardinality(WornLabels)
<1> DEFINE u == now'
           n == Cardinality(WornLabels)
           S == Range(actions)
<1>0. Typed /\ Kept
  BY DEF TimelineInv
<1>1. /\ u \in Nat /\ now \in Nat /\ Start \in Nat /\ Start <= now
      /\ \/ Later /\ now < u
         \/ u = now /\ blocked' = blocked
      /\ blocked \in SUBSET (Start .. now - 1)
  BY <1>0, StepTime DEF Typed
<1>2. /\ n \in Nat
      /\ IsBlocked <=> n > 0
  BY <1>0, WornNumber
<1>3. \A r \in S : r.ts \in Nat /\ r.ts <= now
  BY <1>0, <1>1, RowsTimed DEF Typed
<1>4. \/ blocked' = blocked \union (IF n > 0 THEN now .. u - 1 ELSE {})
         /\ now < u
      \/ u = now /\ blocked' = blocked
  BY <1>1, <1>2 DEF Later
<1> HIDE DEF u, n, S
<1>5. blocked' \in SUBSET (Start .. u - 1)
  <2>1. \A i \in now .. u - 1 : i \in Start .. u - 1
    BY <1>1
  <2>2. now <= u => \A i \in Start .. now - 1 : i \in Start .. u - 1
    BY <1>1
  <2>3. now <= u
    BY <1>1
  <2>4. blocked' \subseteq blocked \union (now .. u - 1)
    BY <1>4
  <2>5. blocked \subseteq Start .. now - 1
    BY <1>1
  <2>6. QED
    BY <2>1, <2>2, <2>3, <2>4, <2>5
<1>6. ASSUME ~ lossy, NEW t \in Nat, now <= t
      PROVE  Net(S, t) = n
  <2>1. \A r \in S : r.ts <= t /\ r.ts <= now
    BY <1>1, <1>3, <1>6
  <2>2. Net(S, t) = Net(S, now)
    BY <2>1, NetThen
  <2>3. QED
    BY <1>0, <1>6, <2>2 DEF Kept, S, n
<1>7. ASSUME ~ lossy, NEW t \in Start .. u - 1
      PROVE  t \in blocked' <=> Net(S, t) > 0
  <2>1. t \in Nat
    BY <1>1
  <2>2. CASE t < now
    <3>1. t \in Start .. now - 1 /\ t \notin now .. u - 1
      BY <1>1, <2>2
    <3>2. t \in blocked' <=> t \in blocked
      BY <1>4, <3>1
    <3>3. QED
      BY <1>0, <1>7, <3>1, <3>2 DEF Kept, S
  <2>3. CASE now <= t
    <3>1. t \in now .. u - 1 /\ t \notin Start .. now - 1 /\ u # now
      BY <1>1, <2>3
    <3>2. t \in blocked' <=> n > 0
      BY <1>1, <1>4, <3>1
    <3>3. QED
      BY <1>6, <1>7, <2>1, <2>3, <3>2
  <2>4. QED
    BY <1>1, <2>1, <2>2, <2>3
<1>8. u \in Nat /\ now <= u
  BY <1>1
<1>9. QED
  BY <1>5, <1>6, <1>7, <1>8 DEF u, n, S

(* Rows of other types leave the time blocked alone.                       *)
LEMMA OtherStep ==
  ASSUME TimelineInv, Next, ~ PollLabels
  PROVE  TimelineInv'
<1>0. Typed /\ NotesInv /\ Kept
  BY DEF TimelineInv
<1>1. PICK q : MoreRows(q)
  BY <1>0, OtherRows
<1>2. /\ now' \in Nat /\ Start <= now' /\ actions \in Seq(RowsUntil(now'))
  BY <1>0, StepTime
<1>3. /\ blocked' \in SUBSET (Start .. now' - 1)
      /\ ~ lossy =>
           /\ \A t \in Start .. now' - 1 :
                t \in blocked' <=> Net(Range(actions), t) > 0
           /\ Net(Range(actions), now') = Cardinality(WornLabels)
  BY KeptLater
<1>4. /\ q \in Seq(RowsUntil(now')) /\ actions' = actions \o q
      /\ \A r \in Range(q) : r.type \notin BlockLabelTypes
  BY <1>1 DEF MoreRows, Row, BlockLabelTypes
<1> DEFINE a == actions
           b == actions'
           n == Len(actions)
           m == Len(q)
<1>5. /\ b \in Seq(RowsUntil(now')) /\ Range(b) = Range(a) \union Range(q)
      /\ DOMAIN b = 1 .. n + m /\ n \in Nat /\ m \in Nat
      /\ \A i \in 1 .. n : b[i] = a[i]
      /\ \A i \in n + 1 .. n + m : b[i] \in Range(q)
      /\ DOMAIN a = 1 .. n
  <2>1. /\ b \in Seq(RowsUntil(now')) /\ Range(b) = Range(a) \union Range(q)
        /\ DOMAIN b = 1 .. n + m
        /\ \A i \in 1 .. n : b[i] = a[i]
        /\ \A i \in n + 1 .. n + m : i - n \in DOMAIN q /\ b[i] = q[i - n]
    BY <1>2, <1>4, Joined
  <2>2. n \in Nat /\ m \in Nat /\ DOMAIN a = 1 .. n
    BY <1>2, <1>4
  <2> HIDE DEF a, b, n, m
  <2>3. QED
    BY <2>1, <2>2 DEF Range
<1>6. InTime(a)
  BY <1>0 DEF Typed
<1> HIDE DEF a, b, n, m
<1>7. InTime(b)
  <2>1. \A i \in 1 .. n + m : b[i].type \in BlockLabelTypes
          => i \in DOMAIN a /\ b[i] = a[i]
    <3>1. \A i \in 1 .. n + m : i \in 1 .. n \/ i \in n + 1 .. n + m
      BY <1>5
    <3>2. QED
      BY <1>4, <1>5, <3>1
  <2>2. QED
    BY <1>5, <1>6, <2>1 DEF InTime
<1>8. ASSUME NEW t
      PROVE  Net(Range(b), t) = Net(Range(a), t)
  BY <1>4, <1>5, NetSame
<1>9. /\ labels' = labels /\ holidays' = holidays /\ draft' \in BOOLEAN
      /\ blockLabels' \in SUBSET Labels /\ lossy' \in BOOLEAN
      /\ ~ lossy' => ~ lossy /\ WornLabels' = WornLabels
  <2>1. /\ labels \in SUBSET Labels /\ blockLabels \in SUBSET Labels
        /\ draft \in BOOLEAN /\ lossy \in BOOLEAN
    BY <1>0 DEF Typed
  <2>2. CASE SetBlockLabels
    <3>1. PICK l \in Labels :
            /\ blockLabels' = IF l \in blockLabels
                                THEN blockLabels \ {l}
                                ELSE blockLabels \union {l}
            /\ lossy' = (lossy \/ l \in labels)
      BY <2>2 DEF SetBlockLabels
    <3>2. labels' = labels /\ holidays' = holidays /\ draft' = draft
      BY <2>2 DEF SetBlockLabels, SameState
    <3>3. ~ lossy' => WornLabels' = WornLabels
      BY <3>1, <3>2 DEF WornLabels
    <3>4. QED
      BY <2>1, <3>1, <3>2, <3>3
  <2>3. CASE ~ SetBlockLabels
    <3>1. UNCHANGED <<settings, lossy>> /\ draft' \in BOOLEAN
      BY <2>1, <2>3 DEF Next, PollDraft, PollNote, PollResolved, PollReopened,
         PollAgain, PollReviewer, SameState
    <3>2. QED
      BY <2>1, <3>1 DEF settings, WornLabels
  <2>4. QED
    BY <2>2, <2>3
<1>10. Typed'
  BY <1>0, <1>2, <1>3, <1>5, <1>7, <1>9 DEF Typed, b
<1>11. Kept'
  BY <1>3, <1>8, <1>9 DEF Kept, a, b
<1>12. NotesInv'
  BY <1>0, StepKinds, NotesNext
<1>13. QED
  BY <1>10, <1>11, <1>12 DEF TimelineInv

(* A row for each label.                                                   *)
RowsOf(type, S, u) == {Row(type, NoUser, l, u) : l \in S}

(* They are as many.                                                       *)
LEMMA RowsCounted ==
  ASSUME NEW type \in BlockLabelTypes, NEW S \in SUBSET Labels,
         NEW u \in Nat
  PROVE  /\ IsFiniteSet(S) /\ IsFiniteSet(RowsOf(type, S, u))
         /\ Cardinality(RowsOf(type, S, u)) = Cardinality(S)
         /\ Cardinality(S) \in Nat
         /\ \A r \in RowsOf(type, S, u) :
              r \in RowsUntil(u) /\ r.ts = u /\ r.type = type
<1>1. IsFiniteSet(S)
  BY FS_Subset, TimelineAssumption
<1> DEFINE T == RowsOf(type, S, u)
           f == [l \in S |-> Row(type, NoUser, l, u)]
<1>2. f \in [S -> T] /\ \A r \in T : \E l \in S : f[l] = r
  BY DEF RowsOf
<1>3. \A l, m \in S : f[l] = f[m] => l = m
  BY DEF Row
<1>4. \A r \in T : r \in RowsUntil(u) /\ r.ts = u /\ r.type = type
  BY DEF RowsOf, Row, RowsUntil, RowTypes
<1>5. DOMAIN f = S
  OBVIOUS
<1> HIDE DEF T, f
<1>6. f \in Surjection(S, T) /\ f \in Injection(S, T)
  BY <1>2, <1>3, <1>5 DEF Surjection, Injection, IsInjective
<1>7. IsFiniteSet(T) /\ Cardinality(T) = Cardinality(S)
  BY <1>1, <1>6, FS_Surjection
<1>8. Cardinality(S) \in Nat
  BY <1>1, FS_CardinalityType
<1>9. QED
  BY <1>1, <1>4, <1>7, <1>8 DEF T

(* Rows of one time that are new, one after the other.                     *)
LEMMA InTimeMore ==
  ASSUME NEW t \in Nat, NEW a \in Seq(RowsUntil(t)), InTime(a),
         NEW q \in Seq(RowsUntil(t)),
         \A i, j \in DOMAIN q : q[i] = q[j] => i = j,
         \A r \in Range(q) : r.ts = t /\ r \notin Range(a)
  PROVE  InTime(a \o q)
<1> DEFINE b == a \o q
           n == Len(a)
           m == Len(q)
<1>1. /\ n \in Nat /\ m \in Nat /\ DOMAIN a = 1 .. n /\ DOMAIN q = 1 .. m
      /\ \A i \in 1 .. n : a[i] \in Range(a)
      /\ \A i \in 1 .. m : q[i] \in Range(q)
  BY DEF Range
<1>2. /\ DOMAIN b = 1 .. n + m
      /\ \A i \in 1 .. n : b[i] = a[i]
      /\ \A i \in n + 1 .. n + m : i - n \in 1 .. m /\ b[i] = q[i - n]
  BY Joined
<1>3. \A i \in 1 .. n : a[i].ts \in Nat /\ a[i].ts <= t
  BY RowsTimed
<1> HIDE DEF b, n, m
<1> SUFFICES ASSUME NEW i \in 1 .. n + m, NEW j \in 1 .. n + m, i < j,
                    b[i].type \in BlockLabelTypes,
                    b[j].type \in BlockLabelTypes
             PROVE  b[i].ts <= b[j].ts /\ b[i] # b[j]
  BY <1>2 DEF InTime, b
<1>4. CASE j <= n
  <2>1. i \in 1 .. n /\ j \in 1 .. n
    BY <1>1, <1>4
  <2>2. a[i] = b[i] /\ a[j] = b[j]
    BY <1>2, <2>1
  <2>3. QED
    BY <1>1, <2>1, <2>2 DEF InTime
<1>5. CASE i <= n /\ n < j
  <2>1. i \in 1 .. n /\ j \in n + 1 .. n + m
    BY <1>1, <1>5
  <2>2. b[j] \in Range(q) /\ b[i] \in Range(a) /\ b[i].ts <= t
    BY <1>1, <1>2, <1>3, <2>1
  <2>3. QED
    BY <2>2
<1>6. CASE n < i
  <2>1. i \in n + 1 .. n + m /\ j \in n + 1 .. n + m
    BY <1>1, <1>6
  <2>2. /\ b[i] = q[i - n] /\ b[j] = q[j - n] /\ i - n # j - n
        /\ i - n \in 1 .. m /\ j - n \in 1 .. m
    BY <1>1, <1>2, <2>1
  <2>3. b[i].ts = t /\ b[j].ts = t
    BY <1>1, <2>2
  <2>4. QED
    BY <1>1, <2>2, <2>3
<1>7. QED
  BY <1>1, <1>4, <1>5, <1>6

(* Rows of a time that is new count from then on.                          *)
LEMMA NetRows ==
  ASSUME NEW u \in Nat, NEW S, IsFiniteSet(S),
         \A r \in S : r.ts \in Nat /\ r.ts < u,
         NEW A, IsFiniteSet(A),
         \A r \in A : r.type = "block_label_added" /\ r.ts = u,
         NEW R, IsFiniteSet(R),
         \A r \in R : r.type = "block_label_removed" /\ r.ts = u
  PROVE  Net(S \union A \union R, u)
           = Net(S, u) + Cardinality(A) - Cardinality(R)
<1> DEFINE T == S \union A \union R
<1>1. /\ AddedBy(T, u) = AddedBy(S, u) \union A
      /\ AddedBy(S, u) \cap A = {}
      /\ RemovedBy(T, u) = RemovedBy(S, u) \union R
      /\ RemovedBy(S, u) \cap R = {}
  <2>1. \A r : /\ r \in AddedBy(T, u) <=> r \in AddedBy(S, u) \/ r \in A
               /\ r \in AddedBy(S, u) => r \notin A
    BY DEF AddedBy
  <2>2. \A r : /\ r \in RemovedBy(T, u) <=> r \in RemovedBy(S, u) \/ r \in R
               /\ r \in RemovedBy(S, u) => r \notin R
    BY DEF RemovedBy
  <2> HIDE DEF T
  <2>3. QED
    BY <2>1, <2>2
<1>2. /\ IsFiniteSet(AddedBy(S, u)) /\ IsFiniteSet(RemovedBy(S, u))
      /\ Cardinality(AddedBy(S, u)) \in Nat
      /\ Cardinality(RemovedBy(S, u)) \in Nat
  BY NetNumber
<1>3. Cardinality(A) \in Nat /\ Cardinality(R) \in Nat
  BY FS_CardinalityType
<1>4. ASSUME NEW X, NEW Y, IsFiniteSet(X), IsFiniteSet(Y), X \cap Y = {}
      PROVE  Cardinality(X \union Y) = Cardinality(X) + Cardinality(Y)
  <2>1. Cardinality(X \union Y)
          = Cardinality(X) + Cardinality(Y) - Cardinality(X \cap Y)
    BY <1>4, FS_Union
  <2>2. Cardinality(X \cap Y) = 0
    BY <1>4, FS_EmptySet
  <2>3. Cardinality(X) \in Nat /\ Cardinality(Y) \in Nat
    BY <1>4, FS_CardinalityType
  <2>4. QED
    BY <2>1, <2>2, <2>3
<1>5. /\ Cardinality(AddedBy(T, u))
           = Cardinality(AddedBy(S, u)) + Cardinality(A)
      /\ Cardinality(RemovedBy(T, u))
           = Cardinality(RemovedBy(S, u)) + Cardinality(R)
  <2> HIDE DEF T
  <2>1. QED
    BY <1>1, <1>2, <1>4
<1>6. Net(T, u) = Net(S, u) + Cardinality(A) - Cardinality(R)
  BY <1>2, <1>3, <1>5 DEF Net
<1>7. QED
  BY <1>6

(* A poll of the labels.                                                   *)
LEMMA LabelStep ==
  ASSUME TimelineInv, PollLabels
  PROVE  TimelineInv'
<1> DEFINE u == now'
           Gained == (labels' \ labels) \intersect blockLabels
           Lost == (labels \ labels') \intersect blockLabels
           added == RowsOf("block_label_added", Gained, u)
           removed == RowsOf("block_label_removed", Lost, u)
           n == Cardinality(WornLabels)
<1>0. Typed /\ NotesInv /\ Kept /\ Next
  BY DEF TimelineInv, Next
<1>1. PICK A \in SUBSET added, R \in SUBSET removed :
        /\ actions' = actions \o SetToSeq(A) \o SetToSeq(R)
        /\ lossy' = (lossy \/ A # added \/ R # removed)
  <2>1. \A log, batch, f : Recorded(log, batch, f) \subseteq SUBSET batch
    BY DEF Recorded, Additions, Fresh
  <2>2. \E A \in Recorded(Range(actions), added, Faults),
           R \in Recorded(Range(actions), removed, Faults) :
          /\ actions' = actions \o SetToSeq(A) \o SetToSeq(R)
          /\ lossy' = (lossy \/ A # added \/ R # removed)
    BY DEF PollLabels, RowsOf
  <2> HIDE DEF added, removed
  <2>3. QED
    BY <2>1, <2>2
<1>2. /\ u \in Nat /\ now \in Nat /\ Start <= u /\ now < u
      /\ actions \in Seq(RowsUntil(u)) /\ actions \in Seq(RowsUntil(now))
      /\ InTime(actions)
  <2>1. Later
    BY DEF PollLabels
  <2>2. now < u
    BY <1>0, <2>1, Goes DEF NotesInv
  <2>3. QED
    BY <1>0, <2>2, StepTime DEF Typed
<1>3. /\ labels \in SUBSET Labels /\ blockLabels \in SUBSET Labels
      /\ holidays \in SUBSET Int /\ lossy \in BOOLEAN /\ draft \in BOOLEAN
      /\ labels' \in SUBSET Labels /\ blockLabels' = blockLabels
      /\ holidays' = holidays /\ draft' = draft
  BY <1>0 DEF Typed, PollLabels, SameState
<1>4. /\ blocked' \in SUBSET (Start .. u - 1)
      /\ ~ lossy =>
           /\ \A t \in Start .. u - 1 :
                t \in blocked' <=> Net(Range(actions), t) > 0
           /\ Net(Range(actions), u) = n
  BY <1>0, KeptLater
<1>5. Gained \in SUBSET Labels /\ Lost \in SUBSET Labels
  BY <1>3
<1>6. WornLabels' = (WornLabels \ Lost) \union Gained /\ Lost \subseteq WornLabels
      /\ (WornLabels \ Lost) \cap Gained = {}
  BY <1>3 DEF WornLabels
<1> HIDE DEF u, Gained, Lost, n
<1>7. /\ IsFiniteSet(Gained) /\ IsFiniteSet(Lost)
      /\ IsFiniteSet(added) /\ IsFiniteSet(removed)
      /\ Cardinality(added) = Cardinality(Gained)
      /\ Cardinality(removed) = Cardinality(Lost)
      /\ Cardinality(Gained) \in Nat /\ Cardinality(Lost) \in Nat
      /\ \A r \in added : /\ r \in RowsUntil(u) /\ r.ts = u
                          /\ r.type = "block_label_added"
      /\ \A r \in removed : /\ r \in RowsUntil(u) /\ r.ts = u
                            /\ r.type = "block_label_removed"
  BY <1>2, <1>5, RowsCounted DEF BlockLabelTypes
<1> HIDE DEF added, removed
<1>8. IsFiniteSet(A) /\ IsFiniteSet(R)
  BY <1>7, FS_Subset
<1> DEFINE p == SetToSeq(A)
           q == SetToSeq(R)
           S == Range(actions)
<1>9. /\ p \in Seq(RowsUntil(u)) /\ Range(p) = A
      /\ \A i, j \in DOMAIN p : p[i] = p[j] => i = j
      /\ q \in Seq(RowsUntil(u)) /\ Range(q) = R
      /\ \A i, j \in DOMAIN q : q[i] = q[j] => i = j
  <2>1. /\ p \in Seq(A) /\ Range(p) = A
        /\ \A i, j \in DOMAIN p : p[i] = p[j] => i = j
    BY <1>8, Listed
  <2>2. /\ q \in Seq(R) /\ Range(q) = R
        /\ \A i, j \in DOMAIN q : q[i] = q[j] => i = j
    BY <1>8, Listed
  <2>3. A \subseteq RowsUntil(u) /\ R \subseteq RowsUntil(u)
    BY <1>7
  <2> HIDE DEF p, q
  <2>4. QED
    BY <2>1, <2>2, <2>3
<1>10. /\ \A r \in S : r.ts \in Nat /\ r.ts < u
       /\ IsFiniteSet(S)
  BY <1>2, RowsTimed
<1>11. actions' = (actions \o p) \o q
  BY <1>1
<1> HIDE DEF p, q
<1> DEFINE b == actions \o p
<1>12. b \in Seq(RowsUntil(u)) /\ Range(b) = S \union A /\ InTime(b)
  <2>1. \A r \in Range(p) : r.ts = u /\ r \notin Range(actions)
    BY <1>7, <1>9, <1>10
  <2>2. InTime(b)
    BY <1>2, <1>9, <2>1, InTimeMore
  <2>3. QED
    BY <1>2, <1>9, <2>2, Joined
<1> HIDE DEF b
<1>13. /\ actions' \in Seq(RowsUntil(u)) /\ InTime(actions')
       /\ Range(actions') = S \union A \union R
  <2>1. \A r \in Range(q) : r.ts = u /\ r \notin Range(b)
    <3>1. \A r \in R : /\ r.ts = u /\ r \notin S
                       /\ r.type # "block_label_added"
      BY <1>7, <1>10
    <3>2. QED
      BY <1>7, <1>9, <1>12, <3>1
  <2>2. actions' = b \o q
    BY <1>11 DEF b
  <2>3. InTime(b \o q)
    BY <1>2, <1>9, <1>12, <2>1, InTimeMore
  <2>4. b \o q \in Seq(RowsUntil(u)) /\ Range(b \o q) = Range(b) \union Range(q)
    BY <1>9, <1>12, Joined
  <2>5. QED
    BY <1>9, <1>12, <2>2, <2>3, <2>4
<1>14. Typed'
  <2>1. lossy' \in BOOLEAN
    BY <1>1, <1>3
  <2>2. QED
    BY <1>2, <1>3, <1>4, <1>13, <2>1 DEF Typed, u
<1>15. ASSUME ~ lossy'
       PROVE  /\ \A t \in Start .. u - 1 :
                   t \in blocked' <=> Net(Range(actions'), t) > 0
              /\ Net(Range(actions'), u) = Cardinality(WornLabels')
  <2>1. ~ lossy /\ A = added /\ R = removed
    BY <1>1, <1>15
  <2>2. /\ Net(Range(actions'), u)
             = Net(S, u) + Cardinality(A) - Cardinality(R)
        /\ \A t \in Nat : t < u => Net(Range(actions'), t) = Net(S, t)
    <3>1. /\ \A r \in A : r.type = "block_label_added" /\ r.ts = u
          /\ \A r \in R : r.type = "block_label_removed" /\ r.ts = u
      BY <1>7
    <3> HIDE DEF S
    <3>2. u \in Nat /\ IsFiniteSet(S)
      BY <1>2, <1>10
    <3>3. \A r \in S : r.ts \in Nat /\ r.ts < u
      BY <1>10
    <3>4. Net(S \union A \union R, u)
            = Net(S, u) + Cardinality(A) - Cardinality(R)
      BY <1>8, <3>1, <3>2, <3>3, NetRows
    <3>5. \A r \in A \union R : r.ts = u
      BY <3>1
    <3>6. Range(actions') = S \union (A \union R)
      BY <1>13
    <3>7. ASSUME NEW t \in Nat, t < u
          PROVE  Net(Range(actions'), t) = Net(S, t)
      <4>1. \A r : r.ts <= t => (r \in Range(actions') <=> r \in S)
        BY <3>2, <3>5, <3>6, <3>7
      <4>2. QED
        BY <4>1, NetSame
    <3>8. QED
      BY <1>13, <3>4, <3>7
  <2>3. IsFiniteSet(WornLabels) /\ n \in Nat /\ n = Cardinality(WornLabels)
    BY <1>0, WornNumber DEF n
  <2>4. Cardinality(WornLabels') = n - Cardinality(Lost) + Cardinality(Gained)
    <3> DEFINE W == WornLabels \ Lost
    <3>1. IsFiniteSet(W) /\ Cardinality(W) = n - Cardinality(Lost)
      <4>1. /\ IsFiniteSet(W)
            /\ Cardinality(W) = n - Cardinality(WornLabels \cap Lost)
        BY <1>7, <2>3, FS_Difference
      <4>2. WornLabels \cap Lost = Lost
        BY <1>6
      <4>3. QED
        BY <4>1, <4>2
    <3>2. W \cap Gained = {} /\ WornLabels' = W \union Gained
      BY <1>6
    <3> HIDE DEF W
    <3>3. Cardinality(W \union Gained)
            = Cardinality(W) + Cardinality(Gained) - Cardinality(W \cap Gained)
      BY <1>7, <3>1, FS_Union
    <3>4. Cardinality(W \cap Gained) = 0
      BY <3>2, FS_EmptySet
    <3>5. QED
      BY <1>7, <2>3, <3>1, <3>2, <3>3, <3>4
  <2>5. Net(S, u) = n /\ \A t \in Start .. u - 1 :
                           t \in blocked' <=> Net(S, t) > 0
    BY <1>4, <2>1
  <2>6. Start \in Nat
    BY TimelineAssumption
  <2>7. \A t \in Start .. u - 1 : t \in Nat /\ t < u
    BY <1>2, <2>6
  <2> HIDE DEF S
  <2>8. \A t \in Start .. u - 1 : t \in blocked' <=> Net(Range(actions'), t) > 0
    BY <2>2, <2>5, <2>7
  <2>9. QED
    BY <1>7, <2>1, <2>2, <2>3, <2>4, <2>5, <2>8
<1>16. Kept'
  BY <1>15 DEF Kept, u
<1>17. NotesInv'
  BY <1>0, StepKinds, NotesNext
<1>18. QED
  BY <1>14, <1>16, <1>17 DEF TimelineInv

(* At first nothing is on the timeline, and no label is worn, unless it    *)
(* was before.                                                             *)
LEMMA TimelineInit ==
  ASSUME Init
  PROVE  TimelineInv
<1>1. /\ Start \in Nat /\ Calendars \subseteq SUBSET Int
      /\ now = Start /\ labels \in SUBSET Labels /\ blockLabels = Labels
      /\ holidays \in SUBSET Int /\ draft \in BOOLEAN /\ blocked = {}
      /\ actions = <<>> /\ lossy = (labels # {})
      /\ comments = <<>> /\ resolvedAt = [d \in Discs |-> Never]
  BY TimelineAssumption DEF Init
<1>2. Typed
  <2>1. actions \in Seq(RowsUntil(now)) /\ lossy \in BOOLEAN
    BY <1>1
  <2>2. InTime(actions)
    BY <1>1 DEF InTime
  <2>3. QED
    BY <1>1, <2>1, <2>2 DEF Typed
<1>3. Kept
  <2>1. Range(actions) = {}
    BY <1>1 DEF Range
  <2>2. Net({}, now) = 0
    <3>1. AddedBy({}, now) = {} /\ RemovedBy({}, now) = {}
      BY DEF AddedBy, RemovedBy
    <3>2. QED
      BY <3>1, FS_EmptySet DEF Net
  <2>3. ~ lossy => Cardinality(WornLabels) = 0
    BY <1>1, FS_EmptySet DEF WornLabels
  <2>4. Start .. now - 1 = {}
    BY <1>1
  <2>5. QED
    BY <2>1, <2>2, <2>3, <2>4 DEF Kept
<1>4. NotesInv
  <2>1. comments \in Seq(NotesUntil(now)) /\ InOrder(comments)
    BY <1>1 DEF InOrder
  <2>2. NotesOK
    BY <1>1, <2>1 DEF NotesOK
  <2>3. ResolvedOK
    BY <1>1 DEF ResolvedOK, Never
  <2>4. QED
    BY <2>2, <2>3 DEF NotesInv
<1>5. QED
  BY <1>2, <1>3, <1>4 DEF TimelineInv

(* Every step keeps it.                                                    *)
LEMMA TimelineStep ==
  ASSUME TimelineInv, [Next]_vars
  PROVE  TimelineInv'
<1>1. CASE PollLabels
  BY <1>1, LabelStep
<1>2. CASE Next /\ ~ PollLabels
  BY <1>2, OtherStep
<1>3. CASE UNCHANGED vars
  BY <1>3 DEF vars, settings, TimelineInv, Typed, Kept, WornLabels, NotesInv,
     NotesOK, ResolvedOK
<1>4. QED
  BY <1>1, <1>2, <1>3

(* A timeline that tells when it was blocked does so for the SLA code.     *)
LEMMA InvMeasured == TimelineInv => TimeMeasured
<1> SUFFICES ASSUME TimelineInv, NEW s \in Start .. now
             PROVE  /\ CalculateWorkingTime(s, now, holidays)
                          = Worked(s .. now - 1, holidays)
                    /\ ~ lossy =>
                         CalculateBlockedTime(s, now)
                           = Worked(blocked \intersect (s .. now - 1),
                                    holidays)
  BY DEF TimeMeasured
<1>0. Typed /\ Kept
  BY DEF TimelineInv
<1>1. /\ s \in Nat /\ now \in Nat /\ s <= now /\ holidays \in SUBSET Int
      /\ Start \in Nat /\ Start <= s
  BY <1>0, TimelineAssumption DEF Typed
<1>2. CalculateWorkingTime(s, now, holidays) = Worked(s .. now - 1, holidays)
  BY <1>1, WorkingTimeRight
<1>3. ASSUME ~ lossy
      PROVE  CalculateBlockedTime(s, now)
               = Worked(blocked \intersect (s .. now - 1), holidays)
  <2>1. Timed(actions, Len(actions)) /\ Len(actions) \in Nat /\ InTime(actions)
    BY <1>0, <1>1, RowsTimed DEF Typed
  <2>2. CalculateBlockedTime(s, now)
          = NetTime(Range(actions), s, now, holidays)
    BY <1>1, <2>1, BlockedNet DEF CalculateBlockedTime
  <2>3. \A t \in s .. now - 1 :
          /\ t \in Start .. now - 1
          /\ t \in blocked <=> Net(Range(actions), t) > 0
    BY <1>0, <1>1, <1>3 DEF Kept
  <2>4. {t \in s .. now - 1 : Net(Range(actions), t) > 0}
          = blocked \intersect (s .. now - 1)
    BY <2>3
  <2>5. QED
    BY <2>2, <2>4 DEF NetTime
<1>4. QED
  BY <1>2, <1>3

(* Over weekends, holidays and block labels that overlap, working time is  *)
(* what the calendar says, and the time blocked is what was, from whatever *)
(* start, as long as the timeline has all changes of block labels: the     *)
(* arithmetic of CalculateWorkingTime and the loops of                     *)
(* CalculateBlockedTime, for any calendar, and for any timeline that the   *)
(* poller can write, rows dropped or not.                                  *)
THEOREM TimesRight == Spec => []TimeMeasured
<1>1. Init => TimelineInv
  BY TimelineInit
<1>2. TimelineInv /\ [Next]_vars => TimelineInv'
  BY TimelineStep
<1>3. TimelineInv => TimeMeasured
  BY InvMeasured
<1>4. QED
  BY <1>1, <1>2, <1>3, PTL DEF Spec

-----------------------------------------------------------------------------
(* The greatest and the least of times.                                    *)

(* Who is not less than any is the greatest.                               *)
LEMMA GreatestIs ==
  ASSUME NEW S, S \subseteq Int, NEW m \in S, \A x \in S : x <= m
  PROVE  Max(S) = m
<1>1. \E x \in S : \A y \in S : x >= y
  OBVIOUS
<1>2. Max(S) \in S /\ \A y \in S : Max(S) >= y
  BY <1>1 DEF Max
<1>3. m \in Int /\ Max(S) \in Int /\ Max(S) <= m /\ m <= Max(S)
  BY <1>2
<1>4. QED
  BY <1>3

(* Who is not more than any is the least.                                  *)
LEMMA LeastIs ==
  ASSUME NEW S, S \subseteq Int, NEW m \in S, \A x \in S : m <= x
  PROVE  Min(S) = m
<1>1. \E x \in S : \A y \in S : x =< y
  OBVIOUS
<1>2. Min(S) \in S /\ \A y \in S : Min(S) <= y
  BY <1>1 DEF Min
<1>3. m \in Int /\ Min(S) \in Int /\ Min(S) <= m /\ m <= Min(S)
  BY <1>2
<1>4. QED
  BY <1>3

(* There is a first of times, unless there are none.                       *)
LEMMA First ==
  ASSUME NEW S, S \subseteq Nat
  PROVE  /\ S = {} => Earliest(S) = Never
         /\ S # {} => /\ Earliest(S) \in S
                      /\ \A x \in S : Earliest(S) <= x
<1>1. ASSUME S # {}
      PROVE  Min(S) \in S /\ \A x \in S : Min(S) <= x
  <2>1. PICK m \in S : \A x \in S : m <= x
    BY <1>1, LeastNumber
  <2>2. S \subseteq Int
    OBVIOUS
  <2>3. Min(S) = m
    BY <2>1, <2>2, LeastIs
  <2>4. QED
    BY <2>1, <2>3
<1>2. QED
  BY <1>1 DEF Earliest

(* A time of a set that is not later than any is the first.                *)
LEMMA FirstIs ==
  ASSUME NEW S, S \subseteq Nat, NEW m \in S, \A x \in S : m <= x
  PROVE  Earliest(S) = m
<1>1. S \subseteq Int /\ S # {}
  OBVIOUS
<1>2. Min(S) = m
  BY <1>1, LeastIs
<1>3. QED
  BY <1>1, <1>2 DEF Earliest

(* There is a last of times that are not later than one, unless there are  *)
(* none.                                                                   *)
LEMMA LastOne ==
  ASSUME NEW S, S \subseteq Nat, NEW n \in Nat, \A x \in S : x <= n
  PROVE  /\ Newest(S) \in S \union {Never}
         /\ \A x \in S : x <= Newest(S)
         /\ S = {} => Newest(S) = Never
         /\ S # {} => Newest(S) \in S /\ Newest(S) = Max(S)
<1> DEFINE T == S \union {Never}
<1>1. T \subseteq Int /\ T # {} /\ \A x \in T : x <= n
  BY DEF Never
<1>2. Max(T) \in T /\ \A x \in T : x <= Max(T)
  BY <1>1, Greatest
<1>3. ASSUME S # {}
      PROVE  Max(T) \in S /\ Max(T) = Max(S)
  <2>1. PICK y \in S : TRUE
    BY <1>3
  <2>2. y \in Nat /\ y <= Max(T)
    BY <1>2, <2>1
  <2>3. Max(T) # -1
    BY <2>2
  <2>4. Max(T) \in S /\ \A x \in S : x <= Max(T)
    BY <1>2, <2>3 DEF Never
  <2>5. S \subseteq Int
    OBVIOUS
  <2>6. Max(S) = Max(T)
    BY <2>4, <2>5, GreatestIs
  <2>7. QED
    BY <2>4, <2>6
<1>4. QED
  BY <1>2, <1>3 DEF Newest

-----------------------------------------------------------------------------
(* Who asks.                                                               *)

(* The notes of a discussion that some users wrote after the author's last *)
(* one, and when they did.                                                 *)
Asks(cs, d, users) ==
  {i \in Notes(cs, d) :
     cs[i].by \in users /\ \A j \in Notes(cs, d) : cs[j].by = Author => j < i}

Asking(users) ==
  {d \in Discs : d \in Unresolved /\ Asks(comments, d, users) # {}}

Times(cs, places) == {cs[i].at : i \in places}

Asked(cs, d, u) == Times(cs, Asks(cs, d, {u}))

(* To compare times with the author's last one is to compare places.       *)
LEMMA AskTimes ==
  ASSUME NotesOK, NEW d, NEW users
  PROVE  /\ FirstAfterAuthor(NotesOf(d), users)
              = Earliest(Times(comments, Asks(comments, d, users)))
         /\ (\E n \in By(NotesOf(d), users) : n.at > LastAuthorTime(NotesOf(d)))
              <=> Asks(comments, d, users) # {}
<1> DEFINE P == {i \in Notes(comments, d) : comments[i].by = Author}
           A == {n.at : n \in By(NotesOf(d), {Author})}
           L == LastAuthorTime(NotesOf(d))
<1>1. A = Times(comments, P)
  BY DEF NotesOf, By, Times
<1>2. A \subseteq Nat /\ \A x \in A : x <= now
  BY <1>1, NotesTyped DEF Times
<1>3. now \in Nat
  BY DEF NotesOK
<1>4. L \in A \union {Never} /\ \A x \in A : x <= L
  <2>1. L = Newest(A)
    BY DEF LastAuthorTime
  <2> HIDE DEF A, L
  <2>2. QED
    BY <1>2, <1>3, <2>1, LastOne
<1>5. ASSUME NEW i \in Notes(comments, d)
      PROVE  comments[i].at > L
               <=> \A j \in Notes(comments, d) : comments[j].by = Author => j < i
  <2> HIDE DEF A, L
  <2>1. i \in DOMAIN comments /\ comments[i].at \in Nat
    BY NotesTyped
  <2>2. L \in Int
    BY <1>2, <1>4 DEF Never
  <2>3. ASSUME comments[i].at > L, NEW j \in Notes(comments, d),
               comments[j].by = Author
        PROVE  j < i
    <3>1. comments[j].at \in A
      BY <1>1, <2>3 DEF Times
    <3>2. comments[j].at \in Nat /\ comments[j].at <= L /\ j \in DOMAIN comments
      BY <1>4, <3>1, NotesTyped
    <3>3. comments[j].at < comments[i].at
      BY <2>1, <2>2, <2>3, <3>2
    <3>4. QED
      BY <2>1, <3>2, <3>3, NotesTyped
  <2>4. ASSUME \A j \in Notes(comments, d) : comments[j].by = Author => j < i
        PROVE  comments[i].at > L
    <3>1. CASE L = Never
      BY <2>1, <3>1 DEF Never
    <3>2. ASSUME L \in A
          PROVE  comments[i].at > L
      <4>1. PICK j \in P : L = comments[j].at
        BY <1>1, <3>2 DEF Times
      <4>2. j < i /\ j \in DOMAIN comments
        BY <2>4, NotesTyped
      <4>3. comments[j].at < comments[i].at
        BY <2>1, <4>2, NotesTyped
      <4>4. QED
        BY <2>1, <2>2, <4>1, <4>3
    <3>3. QED
      BY <1>4, <3>1, <3>2
  <2>5. QED
    BY <2>3, <2>4
<1>6. {n.at : n \in {m \in By(NotesOf(d), users) : m.at > L}}
        = Times(comments, Asks(comments, d, users))
  <2> HIDE DEF L
  <2>1. By(NotesOf(d), users)
          = {comments[i] : i \in {k \in Notes(comments, d) :
                                    comments[k].by \in users}}
    BY DEF By, NotesOf
  <2>2. Asks(comments, d, users)
          = {i \in Notes(comments, d) :
               comments[i].by \in users /\ comments[i].at > L}
    BY <1>5 DEF Asks
  <2>3. QED
    BY <2>1, <2>2 DEF Times
<1>7. FirstAfterAuthor(NotesOf(d), users)
        = Earliest(Times(comments, Asks(comments, d, users)))
  BY <1>6 DEF FirstAfterAuthor
<1>8. (\E n \in By(NotesOf(d), users) : n.at > L)
        <=> Asks(comments, d, users) # {}
  <2> HIDE DEF L
  <2>1. Times(comments, Asks(comments, d, users)) = {}
          <=> Asks(comments, d, users) = {}
    BY DEF Times
  <2>2. QED
    BY <1>6, <2>1
<1>9. QED
  BY <1>7, <1>8

(* Author and reviewers are different.                                     *)
LEMMA Roles == \A u \in Users : u # Author <=> u \in Reviewers
BY TimelineAssumption DEF Users

(* Somebody waits for the author where the last note is not the author's.  *)
LEMMA LastAsks ==
  ASSUME NotesOK, NEW d, Notes(comments, d) # {}
  PROVE  /\ Newest(Notes(comments, d)) = Max(Notes(comments, d))
         /\ Max(Notes(comments, d)) \in Notes(comments, d)
         /\ \A i \in Notes(comments, d) : i <= Max(Notes(comments, d))
         /\ comments[Max(Notes(comments, d))].by # Author
              <=> Asks(comments, d, Reviewers) # {}
<1> DEFINE P == Notes(comments, d)
           n == Len(comments)
           k == Max(P)
<1>1. n \in Nat /\ P \subseteq Nat /\ \A i \in P : i <= n
  BY NotesTyped
<1>2. Newest(P) = k /\ k \in P /\ \A i \in P : i <= k
  <2> HIDE DEF P, n
  <2>1. Newest(P) = Max(P) /\ Newest(P) \in P /\ \A i \in P : i <= Newest(P)
    BY <1>1, LastOne DEF P
  <2>2. QED
    BY <2>1
<1>3. \A i \in P : comments[i].by # Author <=> comments[i].by \in Reviewers
  BY NotesTyped, Roles
<1> HIDE DEF k, n
<1>4. ASSUME comments[k].by # Author
      PROVE  k \in Asks(comments, d, Reviewers)
  <2>1. \A j \in P : comments[j].by = Author => j < k
    BY <1>1, <1>2, <1>4
  <2>2. QED
    BY <1>2, <1>3, <1>4, <2>1 DEF Asks
<1>5. ASSUME NEW i \in Asks(comments, d, Reviewers)
      PROVE  comments[k].by # Author
  <2>1. i \in P /\ \A j \in P : comments[j].by = Author => j < i
    BY DEF Asks
  <2>2. i <= k /\ i \in Nat /\ k \in Nat
    BY <1>1, <1>2, <2>1
  <2>3. QED
    BY <1>2, <2>1, <2>2
<1>6. QED
  BY <1>2, <1>4, <1>5 DEF k

(* In these discussions it is the author's turn.                           *)
LEMMA AwaitingIs ==
  ASSUME NotesOK
  PROVE  Awaiting(comments, Unresolved) = Asking(Reviewers)
<1>1. ASSUME NEW d
      PROVE  /\ Notes(comments, d) # {}
             /\ comments[Max(Notes(comments, d))].by # Author
             <=> Asks(comments, d, Reviewers) # {}
  <2>1. CASE Notes(comments, d) = {}
    BY <2>1 DEF Asks
  <2>2. CASE Notes(comments, d) # {}
    BY <2>2, LastAsks
  <2>3. QED
    BY <2>1, <2>2
<1>2. QED
  BY <1>1 DEF Awaiting, Asking


(* When all notes are stored as GitLab has them, discussions are.          *)
LEMMA OpenAgree ==
  ASSUME NotesInv, Stale = {}
  PROVE  /\ \A i \in DOMAIN comments :
              /\ comments[i].res = Resolution(comments[i], resolvedAt)
              /\ comments[i].res = Never
                   <=> resolvedAt[comments[i].disc] = Never
         /\ \A d \in Discs : Notes(comments, d) # {}
              => (d \in Unresolved <=> resolvedAt[d] = Never)
<1>0. NotesOK /\ ResolvedOK /\ now \in Nat
  BY DEF NotesInv, NotesOK
<1>1. \A i \in DOMAIN comments :
        comments[i].res = Resolution(comments[i], resolvedAt)
  BY DEF Stale
<1>2. ASSUME NEW i \in DOMAIN comments
      PROVE  comments[i].res = Never <=> resolvedAt[comments[i].disc] = Never
  <2>1. comments[i] \in NotesUntil(now) /\ comments[i].disc \in Discs
    BY <1>0, NotesTyped DEF NotesOK
  <2>2. /\ resolvedAt[comments[i].disc] \in Nat \union {Never}
        /\ resolvedAt[comments[i].disc] <= now
    BY <1>0, <2>1 DEF ResolvedOK
  <2>3. Resolution(comments[i], resolvedAt) = Never
          <=> resolvedAt[comments[i].disc] = Never
    BY <1>0, <2>1, <2>2, ResolutionTime
  <2>4. QED
    BY <1>1, <2>3
<1>3. ASSUME NEW d \in Discs, Notes(comments, d) # {}
      PROVE  d \in Unresolved <=> resolvedAt[d] = Never
  <2>1. Unresolved = {comments[i].disc : i \in {j \in DOMAIN comments :
                                                  comments[j].res = Never}}
    BY DEF Unresolved, Range
  <2>2. \A i \in Notes(comments, d) :
          i \in DOMAIN comments /\ comments[i].disc = d
    BY DEF Notes
  <2>3. QED
    BY <1>2, <1>3, <2>1, <2>2
<1>4. QED
  BY <1>1, <1>2, <1>3

(* Who waits.                                                              *)

(* The history knows since when, and the notes tell.                       *)
WaitsOK ==
  /\ DOMAIN waits = Reviewers \X Discs
  /\ \A u \in Reviewers, d \in Discs :
       waits[<<u, d>>] = Earliest(Asked(comments, d, u))

(* Somebody asks when one of them does.                                    *)
LEMMA AskersTogether ==
  ASSUME NEW cs, NEW d, NEW users
  PROVE  /\ \A i \in Asks(cs, d, users) :
              \E u \in users : i \in Asks(cs, d, {u})
         /\ \A u \in users : Asks(cs, d, {u}) \subseteq Asks(cs, d, users)
BY DEF Asks

(* The first of all that is asked is the first of what one of them asks.   *)
LEMMA FirstOfAll ==
  ASSUME NotesInv, Stale = {}, WaitsOK,
         NEW users, users \subseteq Reviewers, WaitedFor(users) # {}
  PROVE  /\ Asking(users) # {}
         /\ Earliest({Earliest(Times(comments, Asks(comments, d, users))) :
                        d \in Asking(users)})
              = Min(WaitedFor(users))
<1> DEFINE A(d, us) == Times(comments, Asks(comments, d, us))
           D == Asking(users)
           F == {Earliest(A(d, users)) : d \in D}
           W == WaitedFor(users)
<1>0. /\ NotesOK
      /\ \A d \in Discs : \A us : A(d, us) # {}
           => (d \in Unresolved <=> resolvedAt[d] = Never)
  <2>1. \A d, us : A(d, us) # {} => Notes(comments, d) # {}
    BY DEF Times, Asks
  <2> HIDE DEF A
  <2>2. QED
    BY <2>1, OpenAgree DEF NotesInv
<1>1. \A d, us : A(d, us) \subseteq Nat
  BY <1>0, NotesTyped DEF Times, Asks
<1>2. \A d, us : A(d, us) = {} <=> Asks(comments, d, us) = {}
  BY DEF Times
<1>3. \A d, us : /\ A(d, us) = {} => Earliest(A(d, us)) = Never
                 /\ A(d, us) # {} => /\ Earliest(A(d, us)) \in A(d, us)
                                     /\ \A x \in A(d, us) :
                                          Earliest(A(d, us)) <= x
  <2> HIDE DEF A
  <2>1. QED
    BY <1>1, First
<1>4. \A d : \A u \in users : A(d, {u}) \subseteq A(d, users)
  BY AskersTogether DEF Times
<1>5. \A d : \A x \in A(d, users) : \E u \in users : x \in A(d, {u})
  <2> TAKE d
  <2> TAKE x \in A(d, users)
  <2>1. PICK i \in Asks(comments, d, users) : x = comments[i].at
    BY DEF Times
  <2>2. PICK u \in users : i \in Asks(comments, d, {u})
    BY AskersTogether
  <2>3. QED
    BY <2>1, <2>2 DEF Times
<1>6. \A u \in users, d \in Discs : waits[<<u, d>>] = Earliest(A(d, {u}))
  BY DEF WaitsOK, Asked
<1> HIDE DEF A
<1>7. /\ \A w \in W : \E u \in users, d \in Discs :
           resolvedAt[d] = Never /\ w = Earliest(A(d, {u})) /\ w # Never
      /\ \A u \in users, d \in Discs :
           resolvedAt[d] = Never /\ Earliest(A(d, {u})) # Never
             => Earliest(A(d, {u})) \in W
  <2>1. W = {waits[p] : p \in {q \in users \X Discs :
                                 resolvedAt[q[2]] = Never}} \ {Never}
    BY DEF WaitedFor
  <2> HIDE DEF W
  <2>2. ASSUME NEW w \in W
        PROVE  \E u \in users, d \in Discs :
                 resolvedAt[d] = Never /\ w = Earliest(A(d, {u})) /\ w # Never
    <3>1. PICK p \in users \X Discs : /\ resolvedAt[p[2]] = Never
                                     /\ w = waits[p] /\ w # Never
      BY <2>1
    <3>2. PICK u \in users, d \in Discs : p = <<u, d>>
      OBVIOUS
    <3>3. QED
      BY <1>6, <3>1, <3>2
  <2>3. ASSUME NEW u \in users, NEW d \in Discs,
               resolvedAt[d] = Never, Earliest(A(d, {u})) # Never
        PROVE  Earliest(A(d, {u})) \in W
    <3>1. /\ <<u, d>> \in users \X Discs /\ <<u, d>>[2] = d
          /\ waits[<<u, d>>] = Earliest(A(d, {u}))
      BY <1>6
    <3>2. QED
      BY <2>1, <2>3, <3>1
  <2>4. QED
    BY <2>2, <2>3
<1> HIDE DEF W
<1>8. F \subseteq Nat /\ (F # {} => D # {})
  BY <1>1, <1>2, <1>3 DEF Asking
<1>9. ASSUME NEW w \in W
      PROVE  /\ w \in Nat
             /\ \E f \in F : f <= w
  <2>1. PICK u \in users, d \in Discs : /\ resolvedAt[d] = Never
                                        /\ w = Earliest(A(d, {u})) /\ w # Never
    BY <1>7
  <2>2. w \in A(d, {u})
    BY <1>3, <2>1
  <2>3. w \in A(d, users)
    BY <1>4, <2>2
  <2>4. d \in D
    BY <1>0, <1>2, <2>1, <2>3 DEF Asking
  <2>5. Earliest(A(d, users)) <= w /\ Earliest(A(d, users)) \in F
    BY <1>3, <2>3, <2>4
  <2>6. QED
    BY <1>1, <2>2, <2>5
<1>10. ASSUME NEW f \in F
       PROVE  \E w \in W : w <= f
  <2>1. PICK d \in D : f = Earliest(A(d, users))
    OBVIOUS
  <2>2. f \in A(d, users)
    BY <1>2, <1>3, <2>1 DEF Asking
  <2>3. PICK u \in users : f \in A(d, {u})
    BY <1>5, <2>2
  <2>4. Earliest(A(d, {u})) \in A(d, {u}) /\ Earliest(A(d, {u})) <= f
    BY <1>3, <2>3
  <2>5. Earliest(A(d, {u})) # Never
    BY <1>1, <2>4 DEF Never
  <2>6. Earliest(A(d, {u})) \in W
    BY <1>0, <1>7, <2>1, <2>2, <2>5 DEF Asking
  <2>7. QED
    BY <2>4, <2>6
<1> HIDE DEF F, D
<1>11. W \subseteq Nat /\ W # {} /\ F # {}
  <2>1. W # {} /\ W \subseteq Nat
    BY <1>9 DEF W
  <2>2. QED
    BY <1>9, <2>1
<1>12. PICK w \in W : \A x \in W : w <= x
  BY <1>11, LeastNumber
<1>13. Min(W) = w
  <2>1. W \subseteq Int
    BY <1>11
  <2>2. QED
    BY <1>12, <2>1, LeastIs
<1>14. w \in F /\ \A f \in F : w <= f
  <2>1. PICK f \in F : f <= w
    BY <1>9
  <2>2. PICK v \in W : v <= f
    BY <1>10
  <2>3. f \in Nat /\ v \in Nat /\ w \in Nat /\ w <= v
    BY <1>8, <1>11, <1>12
  <2>4. f = w
    BY <2>1, <2>2, <2>3
  <2>5. ASSUME NEW g \in F
        PROVE  w <= g
    <3>1. PICK x \in W : x <= g
      BY <1>10
    <3>2. g \in Nat /\ x \in Nat /\ w <= x
      BY <1>8, <1>11, <1>12
    <3>3. QED
      BY <2>3, <3>1, <3>2
  <2>6. QED
    BY <2>4, <2>5
<1>15. Earliest(F) = w
  BY <1>8, <1>14, FirstIs
<1>16. QED
  BY <1>8, <1>11, <1>13, <1>15 DEF F, D, W, A

(* Everybody's clock runs since the first note of an answer that is still  *)
(* waited for.                                                             *)
LEMMA PeopleInTime ==
  ASSUME NotesInv, Stale = {}, WaitsOK
  PROVE  PeopleNotLate
<1>0. NotesOK
  BY DEF NotesInv
<1>1. ASSUME WaitedFor(Reviewers) # {}
      PROVE  GetUserStateTransitionTime(Author) = Min(WaitedFor(Reviewers))
  <2>1. Awaiting(comments, Unresolved) = Asking(Reviewers)
    BY <1>0, AwaitingIs
  <2>2. getAuthorOnFixesTime
          = Earliest({Earliest(Times(comments, Asks(comments, d, Reviewers))) :
                        d \in Asking(Reviewers)})
    BY <1>0, <2>1, AskTimes DEF getAuthorOnFixesTime
  <2>3. QED
    BY <1>1, <2>1, <2>2, FirstOfAll
    DEF GetUserStateTransitionTime, getAuthorStateTransitionTime
<1>2. ASSUME NEW u \in Reviewers, WaitedFor({u}) # {}
      PROVE  GetUserStateTransitionTime(u) = Min(WaitedFor({u}))
  <2>1. Asking({u})
          = {d \in Awaiting(comments, Unresolved) :
               \E n \in By(NotesOf(d), {u}) : n.at > LastAuthorTime(NotesOf(d))}
    <3>1. \A d : Asks(comments, d, {u}) # {} => Asks(comments, d, Reviewers) # {}
      BY AskersTogether
    <3>2. QED
      BY <1>0, <3>1, AwaitingIs, AskTimes DEF Asking
  <2>2. {FirstAfterAuthor(NotesOf(d), {u}) : d \in Asking({u})}
          = {Earliest(Times(comments, Asks(comments, d, {u}))) :
               d \in Asking({u})}
    BY <1>0, AskTimes
  <2>3. {u} \subseteq Reviewers /\ u # Author
    BY TimelineAssumption
  <2>4. Asking({u}) # {}
    BY <1>2, <2>3, FirstOfAll
  <2>5. Earliest({FirstAfterAuthor(NotesOf(d), {u}) : d \in Asking({u})})
          = Min(WaitedFor({u}))
    BY <1>2, <2>2, <2>3, FirstOfAll
  <2>6. GetUserStateTransitionTime(u)
          = Earliest({FirstAfterAuthor(NotesOf(d), {u}) : d \in Asking({u})})
    BY <2>1, <2>3, <2>4
    DEF GetUserStateTransitionTime, getReviewerStateTransitionTime
  <2>7. QED
    BY <2>5, <2>6
<1>3. QED
  BY <1>1, <1>2 DEF PeopleNotLate

-----------------------------------------------------------------------------

-----------------------------------------------------------------------------
(* How notes come about.                                                   *)

(* What is asked does not depend on what is resolved.                      *)
LEMMA AskedSame ==
  ASSUME NEW cs, NEW ds, SameNotes(cs, ds), NEW d, NEW users
  PROVE  /\ Notes(ds, d) = Notes(cs, d)
         /\ Asks(ds, d, users) = Asks(cs, d, users)
         /\ Times(ds, Asks(ds, d, users)) = Times(cs, Asks(cs, d, users))
<1>1. Notes(ds, d) = Notes(cs, d) /\ Notes(cs, d) \subseteq DOMAIN cs
  BY DEF SameNotes, Notes
<1>2. \A i \in Notes(cs, d) : ds[i].by = cs[i].by /\ ds[i].at = cs[i].at
  BY <1>1 DEF SameNotes
<1>3. Asks(ds, d, users) = Asks(cs, d, users)
  BY <1>1, <1>2 DEF Asks
<1>4. \A i \in Asks(cs, d, users) : ds[i].at = cs[i].at
  BY <1>2 DEF Asks
<1>5. Times(ds, Asks(cs, d, users)) = Times(cs, Asks(cs, d, users))
  BY <1>4 DEF Times
<1>6. QED
  BY <1>1, <1>3, <1>5

(* A note asks, or answers.                                                *)
LEMMA AsksAdded ==
  ASSUME NotesInv, Later, NEW d \in Discs, NEW u \in Users, Adds(d, u),
         NEW e, NEW w \in Reviewers
  PROVE  Asked(comments', e, w)
           = IF e # d THEN Asked(comments, e, w)
             ELSE IF u = Author THEN {}
             ELSE IF u = w THEN Asked(comments, e, w) \union {now'}
             ELSE Asked(comments, e, w)
<1> DEFINE n == Len(comments) + 1
           t == now'
           more == comments'
           P == Asks(comments, e, {w})
           Q == Asks(more, e, {w})
<1>0. NotesOK
  BY DEF NotesInv
<1>1. /\ DOMAIN more = DOMAIN comments \union {n}
      /\ more[n].by = u /\ more[n].at = t
      /\ \A i \in DOMAIN comments : more[i] = comments[i] /\ i < n
      /\ Notes(more, e) = IF e = d THEN Notes(comments, d) \union {n}
                          ELSE Notes(comments, e)
  BY NoteAdded
<1>2. more[n].by = u /\ more[n].at = t
  BY <1>1
<1>3. /\ Notes(comments, e) \subseteq DOMAIN comments
      /\ n \in Nat /\ \A i \in DOMAIN comments : i \in Nat
  BY <1>0, NotesTyped
<1>4. w # Author
  BY TimelineAssumption
<1> HIDE DEF n, t, more
<1>5. /\ e # d => Q = P
      /\ e = d /\ u = Author => Q = {}
      /\ e = d /\ u = w => Q = P \union {n}
      /\ e = d /\ u # Author /\ u # w => Q = P
  <2>1. ASSUME e # d
        PROVE  Q = P
    BY <1>1, <1>3, <2>1 DEF Asks
  <2>2. ASSUME e = d, u = Author
        PROVE  Q = {}
    <3>1. \A i \in Notes(more, e) : i = n \/ i < n
      BY <1>1, <1>3, <2>2
    <3>2. n \in Notes(more, e) /\ more[n].by = Author
      BY <1>1, <1>2, <2>2
    <3>3. \A i \in Q : i \in Notes(more, e) /\ more[i].by = w /\ n < i
      BY <3>2 DEF Asks
    <3>4. \A i \in Q : i = n \/ i < n
      BY <3>1, <3>3
    <3>5. ASSUME NEW i \in Q
          PROVE  FALSE
      <4>1. i # n
        BY <1>4, <3>2, <3>3
      <4>2. i < n /\ n < i /\ i \in Nat
        BY <1>1, <1>3, <3>3, <3>4, <4>1
      <4>3. QED
        BY <1>3, <4>2
    <3>6. QED
      BY <3>5
  <2>3. ASSUME e = d, u # Author
        PROVE  Q = P \union (IF u = w THEN {n} ELSE {})
    <3>1. Notes(more, e) = Notes(comments, e) \union {n}
      BY <1>1, <2>3
    <3>2. \A i \in Notes(comments, e) : more[i].by = comments[i].by /\ i < n
      BY <1>1, <1>3
    <3>3. \A i : (\A j \in Notes(more, e) : more[j].by = Author => j < i)
                 <=> \A j \in Notes(comments, e) :
                       comments[j].by = Author => j < i
      BY <1>2, <2>3, <3>1, <3>2
    <3>4. \A j \in Notes(comments, e) : comments[j].by = Author => j < n
      BY <3>2
    <3>5. \A i : i \in Q <=> /\ i \in Notes(comments, e) \/ i = n
                            /\ more[i].by = w
                            /\ \A j \in Notes(comments, e) :
                                 comments[j].by = Author => j < i
      BY <3>1, <3>3 DEF Asks
    <3>6. \A i : i \in P <=> /\ i \in Notes(comments, e)
                            /\ comments[i].by = w
                            /\ \A j \in Notes(comments, e) :
                                 comments[j].by = Author => j < i
      BY DEF Asks
    <3>7. n \notin Notes(comments, e)
      BY <1>3, <3>2
    <3>8. QED
      BY <1>2, <3>2, <3>4, <3>5, <3>6, <3>7
  <2>4. QED
    BY <1>4, <2>1, <2>2, <2>3
<1>6. P \subseteq DOMAIN comments
  BY <1>3 DEF Asks
<1> HIDE DEF P, Q
<1>7. /\ Times(more, P) = Times(comments, P)
      /\ Times(more, P \union {n}) = Times(comments, P) \union {t}
      /\ Times(more, {}) = {}
  <2>1. \A i \in P : more[i].at = comments[i].at
    BY <1>1, <1>6
  <2>2. Times(more, P) = Times(comments, P)
    BY <2>1 DEF Times
  <2>3. Times(more, P \union {n}) = Times(more, P) \union {t}
    BY <1>2 DEF Times
  <2>4. QED
    BY <2>2, <2>3 DEF Times
<1>8. Times(more, Q) = IF e # d THEN Times(comments, P)
                       ELSE IF u = Author THEN {}
                       ELSE IF u = w THEN Times(comments, P) \union {t}
                       ELSE Times(comments, P)
  BY <1>5, <1>7
<1>9. QED
  BY <1>8 DEF P, Q, t, more, Asked

(* The history keeps up with the notes.                                    *)
LEMMA WaitsNote ==
  ASSUME NotesInv, WaitsOK, PollNote
  PROVE  /\ WaitsOK'
         /\ \E d \in Discs, u \in Users : Adds(d, u)
<1>1. Later /\ NotesOK
  BY DEF PollNote, NotesInv
<1>2. PICK d \in Discs, u \in Users :
        /\ Adds(d, u)
        /\ waits' = [p \in DOMAIN waits |->
                       CASE p[2] = d /\ u = Author -> Never
                         [] p = <<u, d>> /\ waits[p] = Never -> now'
                         [] OTHER -> waits[p]]
  <2>1. PICK d \in Discs, u \in Users :
          /\ comments' = Append(comments,
               [[disc |-> d, by |-> u, at |-> now', res |-> Never]
                  EXCEPT !.res = Resolution([disc |-> d, by |-> u,
                                             at |-> now', res |-> Never],
                                            resolvedAt)])
          /\ waits' = [p \in DOMAIN waits |->
                         CASE p[2] = d /\ u = Author -> Never
                           [] p = <<u, d>> /\ waits[p] = Never -> now'
                           [] OTHER -> waits[p]]
    BY DEF PollNote
  <2>2. Adds(d, u)
    BY <2>1 DEF Adds
  <2>3. QED
    BY <2>1, <2>2
<1>4. DOMAIN waits = Reviewers \X Discs /\ DOMAIN waits' = DOMAIN waits
  BY <1>2 DEF WaitsOK
<1>5. ASSUME NEW w \in Reviewers, NEW e \in Discs
      PROVE  waits'[<<w, e>>]
               = Earliest(Asked(comments', e, w))
  <2>0. Asked(comments', e, w)
          = IF e # d THEN Asked(comments, e, w)
            ELSE IF u = Author THEN {}
            ELSE IF u = w THEN Asked(comments, e, w) \union {now'}
            ELSE Asked(comments, e, w)
    BY <1>1, <1>2, AsksAdded
  <2> DEFINE old == Asked(comments, e, w)
             new == Asked(comments', e, w)
             t == now'
             p == <<w, e>>
  <2>1. waits[p] = Earliest(old)
    BY DEF WaitsOK
  <2>2. waits'[p] = CASE e = d /\ u = Author -> Never
                      [] w = u /\ e = d /\ waits[p] = Never -> t
                      [] OTHER -> waits[p]
    <3>1. p \in DOMAIN waits /\ p[2] = e /\ (p = <<u, d>> <=> w = u /\ e = d)
      BY <1>4
    <3>2. QED
      BY <1>2, <3>1
  <2>3. new = IF e # d THEN old ELSE IF u = Author THEN {}
              ELSE IF u = w THEN old \union {t} ELSE old
    BY <2>0
  <2>4. old \subseteq Nat /\ \A x \in old : x <= now
    BY <1>1, NotesTyped DEF Times, Asks, Asked
  <2>5. t \in Nat /\ now < t /\ now \in Nat
    BY <1>1, Goes DEF NotesOK
  <2>6. w # Author
    BY TimelineAssumption
  <2> HIDE DEF old, new, t, p
  <2>7. ASSUME e = d, u = Author
        PROVE  waits'[p] = Earliest(new)
    <3>1. Earliest(new) = Never
      BY <2>3, <2>7 DEF Earliest
    <3>2. QED
      BY <2>2, <2>6, <2>7, <3>1
  <2>8. ASSUME e = d, u = w
        PROVE  waits'[p] = Earliest(new)
    <3>1. u # Author /\ new = old \union {t} /\ new \subseteq Nat
      BY <2>3, <2>4, <2>5, <2>6, <2>8
    <3>2. CASE old = {}
      <4>1. waits[p] = Never
        BY <2>1, <3>2 DEF Earliest
      <4>2. t \in new /\ \A x \in new : t <= x
        BY <2>5, <3>1, <3>2
      <4>3. Earliest(new) = t
        BY <3>1, <4>2, FirstIs
      <4>4. QED
        BY <2>2, <2>8, <3>1, <4>1, <4>3
    <3>3. CASE old # {}
      <4>1. waits[p] \in old /\ \A x \in old : waits[p] <= x
        BY <2>1, <2>4, <3>3, First
      <4> DEFINE v == waits[p]
      <4> HIDE DEF v
      <4>2. v \in Nat /\ v # Never /\ v <= t
        <5>1. v \in Nat /\ v <= now
          BY <2>4, <4>1 DEF v
        <5>2. QED
          BY <2>5, <5>1 DEF Never
      <4>3. waits[p] \in new /\ \A x \in new : waits[p] <= x
        BY <3>1, <4>1, <4>2 DEF v
      <4>4. Earliest(new) = waits[p]
        BY <3>1, <4>3, FirstIs
      <4>5. QED
        BY <2>2, <2>8, <3>1, <4>2, <4>4 DEF v
    <3>4. QED
      BY <3>2, <3>3
  <2>9. ASSUME ~ (e = d /\ u = Author), ~ (e = d /\ u = w)
        PROVE  waits'[p] = Earliest(new)
    BY <2>1, <2>2, <2>3, <2>9
  <2>10. QED
    BY <2>7, <2>8, <2>9 DEF new, p
<1>6. QED
  BY <1>2, <1>4, <1>5 DEF WaitsOK

(* At each instant since the clock of fixes should run there was a note    *)
(* that was not resolved, as far as GitLab can tell now.                   *)
Open(i, x) ==
  /\ comments[i].at <= x
  /\ \/ resolvedAt[comments[i].disc] = Never
     \/ x < resolvedAt[comments[i].disc]

StateThere == StateIn(draft, comments, resolvedAt)

SinceOK ==
  /\ since \in Start .. now
  /\ StateThere = "on_fixes"
       => \A x \in since .. now : \E i \in DOMAIN comments : Open(i, x)

(* Older notes stay, and there may be one more.                            *)
Grows ==
  \A i \in DOMAIN comments : /\ i \in DOMAIN comments'
                             /\ comments'[i].disc = comments[i].disc
                             /\ comments'[i].at = comments[i].at

(* The clock that was running runs on.                                     *)
LEMMA SinceStep ==
  ASSUME NotesInv, SinceOK, NotesInv', Later, Grows, ResMoves,
         since' = IF StateThere' = StateThere THEN since ELSE now'
  PROVE  SinceOK'
<1>0. NotesOK /\ ResolvedOK /\ NotesOK'
  BY DEF NotesInv
<1>1. /\ now \in Nat /\ now' \in Nat /\ now < now' /\ Start <= now'
      /\ Start \in Nat
  BY <1>0, Goes DEF NotesOK
<1>2. since \in Start .. now
  BY DEF SinceOK
<1>3. since' \in Start .. now'
  <2> DEFINE t == now'
             f == since'
  <2>1. t \in Nat /\ now < t /\ Start <= t
    BY <1>1
  <2>2. f = since \/ f = t
    OBVIOUS
  <2> HIDE DEF t, f
  <2>3. f \in Start .. t
    BY <1>1, <1>2, <2>1, <2>2
  <2>4. QED
    BY <2>3 DEF f, t
<1>4. ASSUME NEW i \in DOMAIN comments, NEW x \in Nat, x < now',
             Open(i, x)
      PROVE  i \in DOMAIN comments' /\ Open(i, x)'
  <2> DEFINE d == comments[i].disc
             t == now'
             res == resolvedAt'
  <2>1. d \in Discs /\ resolvedAt[d] \in Nat \union {Never}
    BY <1>0, NotesTyped DEF ResolvedOK
  <2>2. comments[i].at <= x /\ (resolvedAt[d] = Never \/ x < resolvedAt[d])
    BY <1>4 DEF Open
  <2>3. \/ res[d] = resolvedAt[d] \/ res[d] = Never
        \/ resolvedAt[d] = Never /\ res[d] = t
    BY <2>1 DEF ResMoves
  <2>4. x < t
    BY <1>4
  <2> HIDE DEF d, t, res
  <2>5. res[d] = Never \/ x < res[d]
    BY <2>2, <2>3, <2>4
  <2>6. /\ i \in DOMAIN comments' /\ comments'[i].disc = d
        /\ comments'[i].at = comments[i].at
    BY DEF Grows, d
  <2>7. QED
    BY <2>2, <2>5, <2>6 DEF Open, d, res
<1>5. ASSUME StateThere' = "on_fixes", NEW x \in since' .. now'
      PROVE  \E i \in DOMAIN comments' : Open(i, x)'
  <2>1. x \in Nat /\ x <= now' /\ since' <= x
    <3> DEFINE t == now'
               f == since'
    <3>1. f \in Start .. t /\ x \in f .. t /\ Start \in Nat /\ t \in Nat
      BY <1>1, <1>3
    <3> HIDE DEF t, f
    <3>2. x \in Nat /\ x <= t /\ f <= x
      BY <3>1
    <3>3. QED
      BY <3>2 DEF t, f
  <2>2. CASE x = now'
    <3>1. PICK d \in Discs : /\ Notes(comments', d) # {}
                             /\ resolvedAt'[d] = Never
      BY <1>5 DEF StateThere, StateIn, StateOf, Awaiting, OpenIn
    <3>2. PICK i \in Notes(comments', d) : TRUE
      BY <3>1
    <3>3. i \in DOMAIN comments' /\ comments'[i].disc = d
      BY DEF Notes
    <3>4. comments'[i].at <= now'
      <4> DEFINE more == comments'
                 t == now'
      <4>1. more \in Seq(NotesUntil(t)) /\ t \in Nat
        BY <1>0 DEF NotesOK
      <4> HIDE DEF more, t
      <4>2. \A j \in DOMAIN more : more[j] \in NotesUntil(t)
        BY <4>1
      <4>3. \A c \in NotesUntil(t) : c.at <= t
        BY <1>1, <4>1 DEF NotesUntil
      <4>4. QED
        BY <3>3, <4>2, <4>3 DEF more, t
    <3>5. Open(i, x)'
      BY <2>2, <3>1, <3>3, <3>4 DEF Open
    <3>6. QED
      BY <3>3, <3>5
  <2>3. CASE x # now'
    <3>1. x < now'
      <4> DEFINE t == now'
      <4>1. x \in Nat /\ x <= t /\ x # t /\ t \in Nat
        BY <1>1, <2>1, <2>3
      <4> HIDE DEF t
      <4>2. x < t
        BY <4>1
      <4>3. QED
        BY <4>2 DEF t
    <3>2. since' # now'
      <4> DEFINE t == now'
      <4>1. x \in Nat /\ x < t /\ t \in Nat
        BY <1>1, <2>1, <3>1
      <4> HIDE DEF t
      <4>2. ~ (t <= x)
        BY <4>1
      <4>3. QED
        BY <2>1, <4>2 DEF t
    <3>3. StateThere = "on_fixes" /\ since' = since
      BY <1>5, <3>2
    <3>4. \E i \in DOMAIN comments : Open(i, x)
      <4>1. CASE x <= now
        <5>1. x \in since .. now
          BY <1>1, <1>2, <2>1, <3>3, <4>1
        <5>2. QED
          BY <3>3, <5>1 DEF SinceOK
      <4>2. CASE ~ (x <= now)
        <5>1. PICK d \in Discs : /\ Notes(comments, d) # {}
                                 /\ resolvedAt[d] = Never
          BY <3>3 DEF StateThere, StateIn, StateOf, Awaiting, OpenIn
        <5>2. PICK i \in Notes(comments, d) : TRUE
          BY <5>1
        <5>3. i \in DOMAIN comments /\ comments[i].disc = d
          BY DEF Notes
        <5>4. comments[i].at \in Nat /\ comments[i].at <= now
          BY <1>0, <5>3, NotesTyped
        <5>5. comments[i].at <= x
          BY <1>1, <2>1, <4>2, <5>4
        <5>6. QED
          BY <5>1, <5>3, <5>5 DEF Open
      <4>3. QED
        BY <4>1, <4>2
    <3>5. QED
      BY <1>4, <2>1, <3>1, <3>4
  <2>4. QED
    BY <2>2, <2>3
<1>6. QED
  BY <1>3, <1>5 DEF SinceOK

(* The state does not depend on the times of resolved notes.               *)
LEMMA StateSame ==
  ASSUME NEW cs, NEW ds, SameNotes(cs, ds), NEW isDraft, NEW res,
         \A d : Notes(cs, d) # {} => Max(Notes(cs, d)) \in DOMAIN cs
  PROVE  StateIn(isDraft, ds, res) = StateIn(isDraft, cs, res)
<1>1. \A d : Notes(ds, d) = Notes(cs, d)
  BY AskedSame
<1>2. \A d : Notes(cs, d) # {}
        => ds[Max(Notes(cs, d))].by = cs[Max(Notes(cs, d))].by
  BY DEF SameNotes
<1>3. Awaiting(ds, OpenIn(res)) = Awaiting(cs, OpenIn(res))
  BY <1>1, <1>2 DEF Awaiting
<1>4. QED
  BY <1>3 DEF StateIn, StateOf

ClockInv == NotesInv /\ WaitsOK /\ SinceOK

(* At first there are no notes.                                            *)
LEMMA ClockInit ==
  ASSUME Init
  PROVE  ClockInv
<1>1. /\ now = Start /\ comments = <<>> /\ since = Start
      /\ resolvedAt = [d \in Discs |-> Never]
      /\ waits = [p \in Reviewers \X Discs |-> Never]
      /\ Start \in Nat
  BY TimelineAssumption DEF Init
<1>2. comments \in Seq(NotesUntil(now)) /\ DOMAIN comments = {}
  BY <1>1
<1>3. NotesOK
  BY <1>1, <1>2 DEF NotesOK, InOrder
<1>4. ResolvedOK
  <2>1. \A d \in Discs : resolvedAt[d] = Never
    BY <1>1
  <2>2. Never <= now
    BY <1>1 DEF Never
  <2>3. DOMAIN resolvedAt = Discs
    BY <1>1
  <2>4. QED
    BY <1>2, <2>1, <2>2, <2>3 DEF ResolvedOK
<1>5. WaitsOK
  <2>1. \A d, u : Asked(comments, d, u) = {}
    BY <1>2 DEF Asked, Times, Asks, Notes
  <2>2. Earliest({}) = Never
    BY DEF Earliest
  <2>3. QED
    BY <1>1, <2>1, <2>2 DEF WaitsOK
<1>6. SinceOK
  <2>1. Awaiting(comments, OpenIn(resolvedAt)) = {}
    BY <1>2 DEF Awaiting, Notes
  <2>2. StateThere # "on_fixes"
    BY <2>1 DEF StateThere, StateIn, StateOf
  <2>3. QED
    BY <1>1, <2>2 DEF SinceOK
<1>7. QED
  BY <1>3, <1>4, <1>5, <1>6 DEF ClockInv, NotesInv

(* When nobody begins or ends to wait, the notes are where they were.      *)
LEMMA WaitsSame ==
  ASSUME WaitsOK, SameNotes(comments, comments'), waits' = waits
  PROVE  WaitsOK'
<1>1. \A d, u : Asked(comments', d, u) = Asked(comments, d, u)
  BY AskedSame DEF Asked
<1>2. QED
  BY <1>1 DEF WaitsOK

(* Every step keeps it.                                                    *)
LEMMA ClockStep ==
  ASSUME ClockInv, [Next]_vars
  PROVE  ClockInv'
<1>0. NotesInv /\ NotesOK /\ ResolvedOK /\ WaitsOK /\ SinceOK
  BY DEF ClockInv, NotesInv
<1>1. ASSUME UNCHANGED vars
      PROVE  ClockInv'
  <2>1. /\ now' = now /\ comments' = comments /\ resolvedAt' = resolvedAt
        /\ waits' = waits /\ since' = since /\ draft' = draft
    BY <1>1 DEF vars
  <2>2. NotesInv' /\ WaitsOK'
    BY <1>0, <2>1 DEF NotesInv, NotesOK, ResolvedOK, WaitsOK
  <2>3. SinceOK'
    BY <1>0, <2>1 DEF SinceOK, Open, StateThere
  <2>4. QED
    BY <2>2, <2>3 DEF ClockInv
<1>2. ASSUME Next
      PROVE  ClockInv'
  <2>1. Notices \/ Leaves
    BY <1>0, <1>2, StepKinds
  <2>2. NotesInv'
    BY <1>0, <2>1, NotesNext
  <2>3. Later \/ PollAgain
    BY <1>2 DEF Next, PollLabels, SetBlockLabels, PollDraft, PollNote,
       PollResolved, PollReopened, PollReviewer
  <2>4. Later => since' = IF StateThere' = StateThere THEN since ELSE now'
    <3>1. ASSUME SameState
          PROVE  since' = IF StateThere' = StateThere THEN since ELSE now'
      BY <3>1 DEF SameState, StateThere
    <3>2. ASSUME NewState
          PROVE  since' = IF StateThere' = StateThere THEN since ELSE now'
      BY <3>2 DEF NewState, StateThere
    <3>3. CASE PollAgain
      <4>1. now' = now /\ now \in Nat
        BY <1>0, <3>3 DEF PollAgain, NotesOK
      <4>2. Later => now + 1 < now'
        BY <1>0, Goes
      <4>3. QED
        BY <4>1, <4>2
    <3>4. SameState \/ NewState \/ PollAgain
      BY <1>2 DEF Next, PollLabels, SetBlockLabels, PollDraft, PollNote,
         PollResolved, PollReopened, PollReviewer
    <3>5. QED
      BY <3>1, <3>2, <3>3, <3>4
  <2>5. CASE PollNote
    <3>1. PICK d \in Discs, u \in Users : Adds(d, u)
      BY <1>0, <2>5, WaitsNote
    <3>2. WaitsOK' /\ Later /\ resolvedAt' = resolvedAt
      BY <1>0, <2>5, WaitsNote DEF PollNote
    <3>3. Grows
      <4>1. /\ DOMAIN comments' = DOMAIN comments \union {Len(comments) + 1}
            /\ \A i \in DOMAIN comments : comments'[i] = comments[i]
        BY <1>0, <3>1, <3>2, NoteAdded
      <4>2. QED
        BY <4>1 DEF Grows
    <3>4. ResMoves
      BY <1>0, <3>2 DEF ResMoves, ResolvedOK
    <3>5. SinceOK'
      BY <1>0, <2>2, <2>4, <3>2, <3>3, <3>4, SinceStep
    <3>6. QED
      BY <2>2, <3>2, <3>5 DEF ClockInv
  <2>6. CASE ~ PollNote
    <3>1. Leaves
      BY <1>0, <1>2, <2>6, StepKinds
    <3>2. SameNotes(comments, comments') /\ ResMoves
      BY <1>0, <3>1, NotesUpdated DEF Leaves
    <3>3. waits' = waits
      BY <1>2, <2>6 DEF Next, PollLabels, SetBlockLabels, PollDraft,
         PollResolved, PollReopened, PollAgain, PollReviewer
    <3>4. WaitsOK'
      BY <1>0, <3>2, <3>3, WaitsSame
    <3>5. Grows
      BY <3>2 DEF SameNotes, Grows
    <3>6. CASE Later
      <4>1. SinceOK'
        BY <1>0, <2>2, <2>4, <3>2, <3>5, <3>6, SinceStep
      <4>2. QED
        BY <2>2, <3>4, <4>1 DEF ClockInv
    <3>7. CASE PollAgain
      <4>1. /\ now' = now /\ resolvedAt' = resolvedAt /\ since' = since
            /\ draft' = draft
        BY <3>7 DEF PollAgain
      <4>2. \A d : Notes(comments, d) # {}
                     => Max(Notes(comments, d)) \in DOMAIN comments
        BY <1>0, LastAsks DEF Notes
      <4>3. StateThere' = StateThere
        BY <3>2, <4>1, <4>2, StateSame DEF StateThere
      <4>4. ASSUME NEW i \in DOMAIN comments, NEW x, Open(i, x)
            PROVE  i \in DOMAIN comments' /\ Open(i, x)'
        BY <3>5, <4>1, <4>4 DEF Open, Grows
      <4>5. SinceOK'
        BY <1>0, <4>1, <4>3, <4>4 DEF SinceOK
      <4>6. QED
        BY <2>2, <3>4, <4>5 DEF ClockInv
    <3>8. QED
      BY <2>3, <3>6, <3>7
  <2>7. QED
    BY <2>5, <2>6
<1>3. QED
  BY <1>1, <1>2

-----------------------------------------------------------------------------
(* Folds over any finite set, in the order in which c takes its members.   *)

Small(S, k) == {q \in SUBSET S : Cardinality(q) <= k}

FoldsBy(it, G, b, c, Q) ==
  \A q \in Q : it[q] = IF q = {} THEN b ELSE G[<<it[q \ {c[q]}], c[q]>>]

(* There is one for subsets of one member more.                            *)
LEMMA FoldMore ==
  ASSUME NEW S, IsFiniteSet(S), NEW X, NEW b \in X, NEW G, NEW c,
         \A x \in X, e \in S : G[<<x, e>>] \in X,
         \A q \in SUBSET S : q # {} => c[q] \in q,
         NEW k \in Nat, NEW it \in [Small(S, k) -> X],
         FoldsBy(it, G, b, c, Small(S, k))
  PROVE  \E new \in [Small(S, k + 1) -> X] :
           FoldsBy(new, G, b, c, Small(S, k + 1))
<1> DEFINE Value(q) == IF q = {} THEN b ELSE G[<<it[q \ {c[q]}], c[q]>>]
           new == [q \in Small(S, k + 1) |-> Value(q)]
<1>1. ASSUME NEW q \in Small(S, k + 1), q # {}
      PROVE  c[q] \in S /\ q \ {c[q]} \in Small(S, k)
  <2>1. q \in SUBSET S /\ c[q] \in q /\ Cardinality(q) <= k + 1
    BY <1>1 DEF Small
  <2>2. IsFiniteSet(q) /\ Cardinality(q) \in Nat
    <3>1. IsFiniteSet(q)
      BY <2>1, FS_Subset
    <3>2. QED
      BY <3>1, FS_CardinalityType
  <2>3. Cardinality(q \ {c[q]}) = Cardinality(q) - 1
    BY <2>1, <2>2, FS_RemoveElement
  <2>4. Cardinality(q \ {c[q]}) <= k
    BY <2>1, <2>2, <2>3
  <2>5. QED
    BY <2>1, <2>4 DEF Small
<1>2. ASSUME NEW q \in Small(S, k + 1)
      PROVE  Value(q) \in X
  <2>1. CASE q = {}
    BY <2>1
  <2>2. CASE q # {}
    <3>1. it[q \ {c[q]}] \in X /\ c[q] \in S
      BY <1>1, <2>2
    <3>2. QED
      BY <2>2, <3>1
  <2>3. QED
    BY <2>1, <2>2
<1>3. \A q \in Small(S, k) : Value(q) = it[q]
  BY DEF FoldsBy
<1>4. \A q : Value(q) = IF q = {} THEN b ELSE G[<<it[q \ {c[q]}], c[q]>>]
  OBVIOUS
<1> HIDE DEF Value
<1>5. \A q \in Small(S, k + 1) : new[q] = Value(q)
  OBVIOUS
<1>6. new \in [Small(S, k + 1) -> X]
  BY <1>2
<1> HIDE DEF new
<1>7. Small(S, k) \subseteq Small(S, k + 1)
  <2>1. \A q \in SUBSET S : Cardinality(q) \in Nat
    BY FS_Subset, FS_CardinalityType
  <2>2. QED
    BY <2>1 DEF Small
<1>8. ASSUME NEW q \in Small(S, k + 1)
      PROVE  new[q] = IF q = {} THEN b ELSE G[<<new[q \ {c[q]}], c[q]>>]
  <2>1. CASE q = {}
    BY <1>4, <1>5, <2>1
  <2>2. CASE q # {}
    <3>1. q \ {c[q]} \in Small(S, k) /\ q \ {c[q]} \in Small(S, k + 1)
      BY <1>1, <1>7, <2>2
    <3>2. new[q \ {c[q]}] = it[q \ {c[q]}]
      BY <1>3, <1>5, <3>1
    <3>3. QED
      BY <1>4, <1>5, <2>2, <3>2
  <2>3. QED
    BY <2>1, <2>2
<1>9. QED
  BY <1>6, <1>8 DEF FoldsBy

(* There is one for all subsets.                                           *)
LEMMA FoldOver ==
  ASSUME NEW S, IsFiniteSet(S), NEW X, NEW b \in X, NEW G, NEW c,
         \A x \in X, e \in S : G[<<x, e>>] \in X,
         \A q \in SUBSET S : q # {} => c[q] \in q
  PROVE  \E it \in [SUBSET S -> X] : FoldsBy(it, G, b, c, SUBSET S)
<1> DEFINE P(k) == \E it \in [Small(S, k) -> X] :
                     FoldsBy(it, G, b, c, Small(S, k))
           T == {k \in Nat : P(k)}
<1>1. \A q \in SUBSET S : IsFiniteSet(q) /\ Cardinality(q) \in Nat
  BY FS_Subset, FS_CardinalityType
<1>2. P(0)
  <2> DEFINE it == [q \in Small(S, 0) |-> b]
  <2>1. \A q \in Small(S, 0) : q = {} /\ it[q] = b
    <3>1. \A q \in Small(S, 0) : q \in SUBSET S /\ Cardinality(q) <= 0
      BY DEF Small
    <3>2. \A q \in Small(S, 0) : Cardinality(q) = 0
      BY <1>1, <3>1
    <3>3. \A q \in Small(S, 0) : q = {}
      BY <1>1, <3>1, <3>2, FS_EmptySet
    <3>4. QED
      BY <3>3
  <2>2. it \in [Small(S, 0) -> X]
    OBVIOUS
  <2> HIDE DEF it
  <2>3. FoldsBy(it, G, b, c, Small(S, 0))
    BY <2>1 DEF FoldsBy
  <2>4. QED
    BY <2>2, <2>3
<1>3. ASSUME NEW k \in Nat, P(k)
      PROVE  P(k + 1)
  BY <1>3, FoldMore
<1> HIDE DEF P
<1>4. 0 \in T /\ \A k \in Nat : k \in T => k + 1 \in T
  BY <1>2, <1>3
<1>5. \A k \in Nat : k \in T
  <2> HIDE DEF T
  <2>1. QED
    BY <1>4, Induction
<1>6. Cardinality(S) \in Nat /\ P(Cardinality(S))
  <2>1. Cardinality(S) \in Nat
    BY FS_CardinalityType
  <2>2. QED
    BY <1>5, <2>1
<1>7. Small(S, Cardinality(S)) = SUBSET S
  <2>1. \A q \in SUBSET S : Cardinality(q) <= Cardinality(S)
    BY FS_Subset
  <2>2. QED
    BY <2>1 DEF Small
<1>8. QED
  BY <1>6, <1>7 DEF P

-----------------------------------------------------------------------------
(* The events of notes, gone through in the order of their times.          *)

(* Notes up to an instant.  Such as are resolved before they are made are  *)
(* so just before, and at no time when a note is made.                     *)
NotesFit(N, t) ==
  /\ IsFiniteSet(N) /\ t \in Nat
  /\ \A n \in N : /\ n.at \in Nat /\ n.at <= t
                  /\ n.res \in Nat \union {Never} /\ n.res <= t
                  /\ n.res # Never => n.at < n.res \/ n.res = n.at - 1
  /\ \A n, m \in N : n.at # m.res /\ (n.at = m.at => n = m)

Ended(N) == {n \in N : n.res # Never}

(* A function on a finite set has finitely many values.                    *)
LEMMA FewValues ==
  ASSUME NEW S, IsFiniteSet(S), NEW f
  PROVE  IsFiniteSet({f[x] : x \in S})
<1> DEFINE T == {f[x] : x \in S}
           g == [x \in S |-> f[x]]
<1>1. g \in [S -> T] /\ \A y \in T : \E x \in S : g[x] = y
  OBVIOUS
<1> HIDE DEF T, g
<1>2. g \in Surjection(S, T)
  BY <1>1 DEF Surjection
<1>3. QED
  BY <1>2, FS_Surjection DEF T

(* Each note has its events, and each event its note.                      *)
LEMMA EventKinds ==
  ASSUME NEW N
  PROVE  /\ \A n \in N : Event(n, n.at, TRUE) \in Events(N)
         /\ \A n \in Ended(N) :
              Event(n, n.res, FALSE) \in Events(N)
         /\ \A e \in Events(N) :
              \/ \E n \in N : e = Event(n, n.at, TRUE)
              \/ \E n \in Ended(N) : e = Event(n, n.res, FALSE)
BY DEF Events, Ended

(* There are finitely many, each at its time.                              *)
LEMMA EventFacts ==
  ASSUME NEW N, NEW t, NotesFit(N, t)
  PROVE  /\ IsFiniteSet(Events(N))
         /\ \A e \in Events(N) : e.at \in Nat /\ e.at <= t
<1> DEFINE A == {Event(n, n.at, TRUE) : n \in N}
           B == {Event(n, n.res, FALSE) : n \in Ended(N)}
<1>1. Events(N) = A \union B
  BY DEF Events, Ended
<1>2. IsFiniteSet(A) /\ IsFiniteSet(B)
  <2>1. IsFiniteSet(N)
    BY DEF NotesFit
  <2>2. IsFiniteSet(Ended(N))
    BY <2>1, FS_Subset DEF Ended
  <2> DEFINE a == [n \in N |-> Event(n, n.at, TRUE)]
             b == [n \in Ended(N) |-> Event(n, n.res, FALSE)]
  <2>3. A = {a[n] : n \in N} /\ B = {b[n] : n \in Ended(N)}
    OBVIOUS
  <2> HIDE DEF a, b, A, B
  <2>4. QED
    BY <2>1, <2>2, <2>3, FewValues
<1>3. IsFiniteSet(A \union B)
  BY <1>2, FS_Union
<1>4. \A e \in A : e.at \in Nat /\ e.at <= t
  BY DEF Event, NotesFit
<1>5. \A e \in B : e.at \in Nat /\ e.at <= t
  BY DEF Event, NotesFit, Ended
<1> HIDE DEF A, B
<1>6. QED
  BY <1>1, <1>3, <1>4, <1>5

(* Some event is the last.                                                 *)
LEMMA LastOfEvents ==
  ASSUME NEW N, NEW t, NotesFit(N, t),
         NEW q \in SUBSET Events(N), q # {}
  PROVE  LastEvent(q) \in q /\ \A o \in q : o.at <= LastEvent(q).at
<1> DEFINE S == {e.at : e \in q}
<1>1. S \subseteq Int /\ S # {} /\ \A x \in S : x <= t
  BY EventFacts
<1>2. t \in Int
  BY DEF NotesFit
<1>3. Max(S) \in S /\ \A x \in S : x <= Max(S)
  <2> HIDE DEF S
  <2>1. QED
    BY <1>1, <1>2, Greatest
<1>4. \E e \in q : \A o \in q : o.at <= e.at
  BY <1>3
<1>5. QED
  BY <1>4 DEF LastEvent

Periods == [count : Int, from : Int]

(* The periods that the events make, as far as they are gone through.      *)
GoneThrough(it, E) ==
  /\ it \in [SUBSET E -> Periods]
  /\ it[{}] = NoPeriod
  /\ \A q \in SUBSET E :
       q # {} => it[q] = EventStep(LastEvent(q), it[q \ {LastEvent(q)}])

(* There are such, and PeriodStart is where the last of them began.        *)
LEMMA PeriodFold ==
  ASSUME NEW N, NEW t, NotesFit(N, t)
  PROVE  \E it : /\ GoneThrough(it, Events(N))
                 /\ PeriodStart(N) = it[Events(N)].from
<1> DEFINE E == Events(N)
           G == [p \in Periods \X E |-> EventStep(p[2], p[1])]
           c == [q \in SUBSET E |-> LastEvent(q)]
           R(it) == it = [q \in SUBSET E |->
                            IF q = {} THEN NoPeriod
                            ELSE EventStep(LastEvent(q),
                                           it[q \ {LastEvent(q)}])]
           chosen == CHOOSE it : R(it)
<1>1. PeriodStart(N) = chosen[E].from
  BY DEF PeriodStart, MapThenFoldSet
<1>2. IsFiniteSet(E) /\ NoPeriod \in Periods
  BY EventFacts DEF NoPeriod, Periods, Never
<1>3. \A x \in Periods, e \in E : EventStep(e, x) \in Periods
  <2>1. \A e \in E : e.at \in Int
    BY EventFacts
  <2> HIDE DEF E
  <2>2. QED
    BY <2>1 DEF EventStep, Periods, PeriodBegins, Never
<1>4. \A q \in SUBSET E : c[q] = LastEvent(q) /\ (q # {} => c[q] \in q)
  BY LastOfEvents
<1> HIDE DEF E, R, chosen
<1>5. \A x \in Periods, e \in E : G[<<x, e>>] = EventStep(e, x)
  OBVIOUS
<1> HIDE DEF G, c
<1>6. PICK it \in [SUBSET E -> Periods] :
        FoldsBy(it, G, NoPeriod, c, SUBSET E)
  <2>1. \A x \in Periods, e \in E : G[<<x, e>>] \in Periods
    BY <1>3, <1>5
  <2>2. QED
    BY <1>2, <1>4, <2>1, FoldOver
<1>7. ASSUME NEW q \in SUBSET E
      PROVE  it[q] = IF q = {} THEN NoPeriod
                     ELSE EventStep(LastEvent(q), it[q \ {LastEvent(q)}])
  <2>1. CASE q = {}
    BY <1>6, <2>1 DEF FoldsBy
  <2>2. CASE q # {}
    <3>1. it[q] = G[<<it[q \ {c[q]}], c[q]>>]
      BY <1>6, <2>2 DEF FoldsBy
    <3>2. c[q] = LastEvent(q) /\ c[q] \in E
      BY <1>4, <2>2
    <3>3. it[q \ {c[q]}] \in Periods
      OBVIOUS
    <3>4. QED
      BY <1>5, <2>2, <3>1, <3>2, <3>3
  <2>3. QED
    BY <2>1, <2>2
<1>8. R(it)
  <2>1. it = [q \in SUBSET E |-> it[q]]
    OBVIOUS
  <2>2. QED
    BY <1>7, <2>1 DEF R
<1>9. R(chosen)
  BY <1>8 DEF chosen
<1>10. \A q \in SUBSET E :
         chosen[q] = IF q = {} THEN NoPeriod
                     ELSE EventStep(LastEvent(q), chosen[q \ {LastEvent(q)}])
  BY <1>9 DEF R
<1>11. chosen \in [SUBSET E -> Periods]
  <2> DEFINE T == {k \in Nat : \A q \in SUBSET E :
                     Cardinality(q) = k => chosen[q] \in Periods}
  <2>1. \A q \in SUBSET E : IsFiniteSet(q) /\ Cardinality(q) \in Nat
    BY <1>2, FS_Subset, FS_CardinalityType
  <2>2. 0 \in T
    <3> SUFFICES ASSUME NEW q \in SUBSET E, Cardinality(q) = 0
                 PROVE  chosen[q] \in Periods
      OBVIOUS
    <3>1. q = {}
      BY <2>1, FS_EmptySet
    <3>2. QED
      BY <1>2, <1>10, <3>1
  <2>3. ASSUME NEW k \in Nat, k \in T
        PROVE  k + 1 \in T
    <3> SUFFICES ASSUME NEW q \in SUBSET E, Cardinality(q) = k + 1
                 PROVE  chosen[q] \in Periods
      OBVIOUS
    <3>1. q # {}
      BY FS_EmptySet
    <3> DEFINE e == LastEvent(q)
    <3>2. e \in q /\ e \in E
      BY <1>4, <3>1
    <3>3. Cardinality(q \ {e}) = k
      <4>1. Cardinality(q \ {e}) = Cardinality(q) - 1
        BY <2>1, <3>2, FS_RemoveElement
      <4>2. QED
        BY <4>1
    <3>4. chosen[q \ {e}] \in Periods
      BY <2>3, <3>3
    <3>5. chosen[q] = EventStep(e, chosen[q \ {e}])
      BY <1>10, <3>1
    <3>6. QED
      BY <1>3, <3>2, <3>4, <3>5
  <2>4. \A k \in Nat : k \in T
    <3> HIDE DEF T
    <3>1. QED
      BY <2>2, <2>3, Induction
  <2>5. \A q \in SUBSET E : chosen[q] \in Periods
    BY <2>1, <2>4
  <2>6. chosen = [q \in SUBSET E |-> chosen[q]]
    BY <1>9 DEF R
  <2>7. QED
    BY <2>5, <2>6
<1>12. GoneThrough(chosen, E)
  BY <1>10, <1>11 DEF GoneThrough
<1>13. QED
  BY <1>1, <1>12 DEF E

Begin(n) == Event(n, n.at, TRUE)

End(n) == Event(n, n.res, FALSE)

(* A note is begun and ended by events of its own.                         *)
LEMMA EventParts ==
  /\ \A n : Begin(n).at = n.at /\ End(n).at = n.res
  /\ \A n, m : /\ Begin(n) = Begin(m) => n = m
               /\ End(n) = End(m) => n = m
               /\ Begin(n) # End(m)
<1>1. \A n : /\ Begin(n).note = n /\ End(n).note = n
            /\ Begin(n).at = n.at /\ End(n).at = n.res
  BY DEF Begin, End, Event
<1>2. \A n, m : Begin(n) # End(m)
  BY DEF Begin, End, Event
<1>3. \A n, m : /\ Begin(n) = Begin(m) => n = m
                /\ End(n) = End(m) => n = m
  <2> TAKE n, m
  <2>1. Begin(n).note = n /\ Begin(m).note = m
    BY <1>1
  <2>2. End(n).note = n /\ End(m).note = m
    BY <1>1
  <2>3. QED
    BY <2>1, <2>2
<1>4. QED
  BY <1>1, <1>2, <1>3

(* What an event does.                                                     *)
LEMMA EventSteps ==
  ASSUME NEW n, NEW s \in Periods
  PROVE  /\ EventStep(Begin(n), s)
              = [count |-> s.count + 1,
                 from |-> IF s.count = 0 THEN n.at ELSE s.from]
         /\ EventStep(End(n), s)
              = [count |-> s.count - 1,
                 from |-> IF s.count = 1 THEN Never ELSE s.from]
BY DEF EventStep, Begin, End, Event, PeriodBegins

(* Events that come before all others.                                     *)
Initial(q, E) == \A e \in q, o \in E \ q : e.at <= o.at

(* The notes that are made in these, and those that are resolved.          *)
Begun(q, N) == {n \in N : Begin(n) \in q}

Done(q, N) == {n \in Ended(N) : End(n) \in q}

(* A time at which a period may begin: that of a reply to a resolved       *)
(* discussion, or one before which all notes are resolved.                 *)
Late(n) == n.res # Never /\ n.res < n.at

GoodStart(f, N) ==
  \E n \in N : /\ f = n.at
               /\ \/ Late(n)
                  \/ \A m \in N : m.at < f => m.res # Never /\ m.res <= f

Covered(q, N, s) ==
  /\ s.count = Cardinality(Begun(q, N)) - Cardinality(Done(q, N))
  /\ s.count > 0 => GoodStart(s.from, N)

(* There are finitely many of them.                                        *)
LEMMA FewNotes ==
  ASSUME NEW N, IsFiniteSet(N), NEW q
  PROVE  /\ IsFiniteSet(Begun(q, N)) /\ Cardinality(Begun(q, N)) \in Nat
         /\ IsFiniteSet(Done(q, N)) /\ Cardinality(Done(q, N)) \in Nat
<1>1. Begun(q, N) \in SUBSET N /\ Done(q, N) \in SUBSET N
  BY DEF Begun, Done, Ended
<1>2. IsFiniteSet(Begun(q, N)) /\ IsFiniteSet(Done(q, N))
  BY <1>1, FS_Subset
<1>3. QED
  BY <1>2, FS_CardinalityType

(* When nothing counts as unresolved and a note is made that is not late,  *)
(* all earlier ones are resolved.                                          *)
LEMMA AllResolved ==
  ASSUME NEW N, NEW t, NotesFit(N, t),
         NEW q \in SUBSET Events(N), q # {}, Initial(q, Events(N)),
         NEW n \in N, LastEvent(q) = Begin(n), ~ Late(n),
         Cardinality(Begun(q \ {Begin(n)}, N))
           = Cardinality(Done(q \ {Begin(n)}, N)),
         NEW m \in N, m.at < n.at
  PROVE  m.res # Never /\ m.res <= n.at
<1> DEFINE E == Events(N)
           e == Begin(n)
           p == q \ {e}
<1>1. e \in q /\ \A o \in q : o.at <= e.at
  BY LastOfEvents
<1>2. \A o \in E \ q : e.at <= o.at
  BY <1>1 DEF Initial
<1>3. \A l : Begin(l).at = l.at /\ End(l).at = l.res
  BY EventParts
<1>4. \A l \in N : l.at \in Nat /\ l.res \in Nat \union {Never}
  BY DEF NotesFit
<1>5. \A l \in N : Begin(l) \in E
  BY EventKinds DEF Begin
<1> HIDE DEF E
<1>6. ASSUME NEW l \in N, l.at < n.at
      PROVE  Begin(l) \in p
  <2>1. Begin(l) # e
    BY <1>3, <1>4, <1>6
  <2>2. ~ (n.at <= l.at)
    BY <1>4, <1>6
  <2>3. Begin(l) \in q
    BY <1>2, <1>3, <1>5, <2>2
  <2>4. QED
    BY <2>1, <2>3
<1>7. Done(p, N) \subseteq Begun(p, N)
  <2> SUFFICES ASSUME NEW l \in N, l.res # Never, End(l) \in p
               PROVE  Begin(l) \in p
    BY DEF Done, Begun, Ended
  <2>1. l.res <= n.at /\ l.res # n.at
    BY <1>1, <1>3 DEF NotesFit
  <2>2. l.at < l.res \/ l.res = l.at - 1
    BY DEF NotesFit
  <2>3. l.at < n.at \/ (l.at = n.at /\ Late(l))
    BY <1>4, <2>1, <2>2 DEF Late
  <2>4. l.at < n.at
    BY <2>3 DEF NotesFit
  <2>5. QED
    BY <1>6, <2>4
<1>8. IsFiniteSet(Begun(p, N)) /\ IsFiniteSet(Done(p, N))
  BY FewNotes DEF NotesFit
<1>9. Done(p, N) = Begun(p, N)
  <2>1. Cardinality(Begun(p, N)) = Cardinality(Done(p, N))
    OBVIOUS
  <2> HIDE DEF p
  <2>2. Cardinality(Done(p, N)) = Cardinality(Begun(p, N))
    BY <2>1
  <2>3. QED
    BY <1>7, <1>8, <2>2, FS_Subset
<1>10. m \in Done(p, N)
  <2>1. Begin(m) \in p
    BY <1>6
  <2>2. m \in Begun(p, N)
    BY <2>1 DEF Begun
  <2>3. QED
    BY <1>9, <2>2
<1>11. m.res # Never /\ End(m) \in q
  BY <1>10 DEF Done, Ended
<1>12. m.res <= n.at
  BY <1>1, <1>3, <1>11
<1>13. QED
  BY <1>11, <1>12

(* Each event keeps what is known of a period.                             *)
LEMMA PeriodStep ==
  ASSUME NEW N, NEW t, NotesFit(N, t),
         NEW q \in SUBSET Events(N), q # {}, Initial(q, Events(N)),
         NEW s \in Periods, Covered(q \ {LastEvent(q)}, N, s)
  PROVE  Covered(q, N, EventStep(LastEvent(q), s))
<1> DEFINE e == LastEvent(q)
           p == q \ {e}
           new == EventStep(e, s)
           B == Begun(p, N)
           D == Done(p, N)
<1>1. e \in q /\ e \in Events(N)
  BY LastOfEvents
<1>2. \/ \E n \in N : e = Begin(n)
      \/ \E n \in Ended(N) : e = End(n)
  BY <1>1, EventKinds DEF Begin, End
<1>3. /\ IsFiniteSet(B) /\ Cardinality(B) \in Nat
      /\ IsFiniteSet(D) /\ Cardinality(D) \in Nat
  BY FewNotes DEF NotesFit
<1>4. /\ s.count = Cardinality(B) - Cardinality(D)
      /\ s.count > 0 => GoodStart(s.from, N)
  BY DEF Covered
<1> HIDE DEF e
<1>5. ASSUME NEW n \in N, e = Begin(n)
      PROVE  Covered(q, N, new)
  <2>1. new = [count |-> s.count + 1,
               from |-> IF s.count = 0 THEN n.at ELSE s.from]
    BY <1>5, EventSteps
  <2>2. \A m : /\ Begin(m) = e => m = n
               /\ End(m) # e
    BY <1>5, EventParts
  <2>3. Begun(q, N) = B \union {n} /\ n \notin B
    BY <1>1, <1>5, <2>2 DEF Begun
  <2>4. Done(q, N) = D
    BY <2>2 DEF Done
  <2>5. Cardinality(B \union {n}) = Cardinality(B) + 1
    BY <1>3, <2>3, FS_AddElement
  <2> HIDE DEF B, D
  <2>6. new.count = Cardinality(Begun(q, N)) - Cardinality(Done(q, N))
    BY <1>3, <1>4, <2>1, <2>3, <2>4, <2>5
  <2>7. ASSUME s.count = 0
        PROVE  GoodStart(n.at, N)
    <3>1. CASE Late(n)
      BY <3>1 DEF GoodStart
    <3>2. CASE ~ Late(n)
      <4>1. Cardinality(Begun(q \ {Begin(n)}, N))
              = Cardinality(Done(q \ {Begin(n)}, N))
        BY <1>3, <1>4, <1>5, <2>7 DEF B, D
      <4>2. LastEvent(q) = Begin(n)
        BY <1>5 DEF e
      <4>3. \A m \in N : m.at < n.at => m.res # Never /\ m.res <= n.at
        BY <3>2, <4>1, <4>2, AllResolved
      <4>4. QED
        BY <4>3 DEF GoodStart
    <3>3. QED
      BY <3>1, <3>2
  <2>8. new.count > 0 => GoodStart(new.from, N)
    <3>1. s.count \in Int
      BY <1>3, <1>4
    <3>2. CASE s.count = 0
      BY <2>1, <2>7, <3>2
    <3>3. CASE s.count > 0
      BY <1>4, <2>1, <3>3
    <3>4. CASE s.count < 0
      BY <2>1, <3>1, <3>4
    <3>5. QED
      BY <3>1, <3>2, <3>3, <3>4
  <2> HIDE DEF new
  <2>9. QED
    BY <2>6, <2>8 DEF Covered
<1>6. ASSUME NEW n \in Ended(N), e = End(n)
      PROVE  Covered(q, N, new)
  <2>1. new = [count |-> s.count - 1,
               from |-> IF s.count = 1 THEN Never ELSE s.from]
    BY <1>6, EventSteps
  <2>2. \A m : /\ End(m) = e => m = n
               /\ Begin(m) # e
    BY <1>6, EventParts
  <2>3. Done(q, N) = D \union {n} /\ n \notin D
    BY <1>1, <1>6, <2>2 DEF Done
  <2>4. Begun(q, N) = B
    BY <2>2 DEF Begun
  <2>5. Cardinality(D \union {n}) = Cardinality(D) + 1
    BY <1>3, <2>3, FS_AddElement
  <2> HIDE DEF B, D
  <2>6. new.count = Cardinality(Begun(q, N)) - Cardinality(Done(q, N))
    BY <1>3, <1>4, <2>1, <2>3, <2>4, <2>5
  <2>7. new.count > 0 => GoodStart(new.from, N)
    <3>1. s.count \in Int
      BY <1>3, <1>4
    <3>2. ASSUME new.count > 0
          PROVE  s.count > 0 /\ new.from = s.from
      BY <2>1, <3>1, <3>2
    <3>3. QED
      BY <1>4, <3>2
  <2> HIDE DEF new
  <2>8. QED
    BY <2>6, <2>7 DEF Covered
<1>7. QED
  BY <1>2, <1>5, <1>6 DEF e

(* A period that lasts began at such a time.                               *)
LEMMA PeriodCovers ==
  ASSUME NEW N, NEW t, NotesFit(N, t), \E n \in N : n.res = Never
  PROVE  GoodStart(PeriodStart(N), N)
<1> DEFINE E == Events(N)
<1>1. PICK it : GoneThrough(it, E) /\ PeriodStart(N) = it[E].from
  BY PeriodFold
<1> DEFINE T == {k \in Nat : \A q \in SUBSET E :
                   Cardinality(q) = k /\ Initial(q, E)
                     => Covered(q, N, it[q])}
<1>2. \A q \in SUBSET E : IsFiniteSet(q) /\ Cardinality(q) \in Nat
  BY EventFacts, FS_Subset, FS_CardinalityType
<1>3. 0 \in T
  <2> SUFFICES ASSUME NEW q \in SUBSET E, Cardinality(q) = 0
               PROVE  Covered(q, N, it[q])
    OBVIOUS
  <2>1. q = {}
    BY <1>2, FS_EmptySet
  <2>2. it[q].count = 0
    BY <1>1, <2>1 DEF GoneThrough, NoPeriod
  <2>3. Begun(q, N) = {} /\ Done(q, N) = {}
    BY <2>1 DEF Begun, Done
  <2>4. Cardinality({}) = 0
    BY FS_EmptySet
  <2>5. QED
    BY <2>2, <2>3, <2>4 DEF Covered
<1>4. ASSUME NEW k \in Nat, k \in T
      PROVE  k + 1 \in T
  <2> SUFFICES ASSUME NEW q \in SUBSET E, Cardinality(q) = k + 1,
                      Initial(q, E)
               PROVE  Covered(q, N, it[q])
    OBVIOUS
  <2> DEFINE e == LastEvent(q)
             p == q \ {e}
  <2>1. q # {}
    BY FS_EmptySet
  <2>2. e \in q
    BY <2>1, LastOfEvents
  <2>3. Cardinality(p) = k
    <3>1. Cardinality(p) = Cardinality(q) - 1
      BY <1>2, <2>2, FS_RemoveElement
    <3>2. QED
      BY <3>1
  <2>4. p \in SUBSET E /\ it[p] \in Periods
    BY <1>1 DEF GoneThrough
  <2>5. Initial(p, E)
    <3>1. \A o \in q, x \in E \ q : o.at <= x.at
      BY DEF Initial
    <3>2. \A o \in q : o.at <= e.at
      BY <2>1, LastOfEvents
    <3>3. \A o \in p, x \in E \ p : o \in q /\ (x \in E \ q \/ x = e)
      OBVIOUS
    <3> HIDE DEF e, p, E
    <3>4. QED
      BY <3>1, <3>2, <3>3 DEF Initial
  <2>6. Covered(p, N, it[p])
    BY <1>4, <2>3, <2>4, <2>5
  <2>7. it[q] = EventStep(e, it[p])
    BY <1>1, <2>1 DEF GoneThrough
  <2>8. Covered(q, N, EventStep(e, it[p]))
    BY <2>1, <2>4, <2>6, PeriodStep
  <2>9. QED
    BY <2>7, <2>8
<1>5. \A k \in Nat : k \in T
  <2> HIDE DEF T
  <2>1. QED
    BY <1>3, <1>4, Induction
<1>6. Covered(E, N, it[E])
  <2>1. Initial(E, E)
    BY DEF Initial
  <2>2. E \in SUBSET E /\ Cardinality(E) \in Nat
    BY <1>2
  <2>3. QED
    BY <1>5, <2>1, <2>2
<1>7. it[E].count > 0
  <2>1. Begun(E, N) = N /\ Done(E, N) = Ended(N)
    BY EventKinds DEF Begin, End, Begun, Done
  <2>2. Ended(N) \subseteq N /\ Ended(N) # N
    BY DEF Ended
  <2>3. IsFiniteSet(N) /\ Cardinality(N) \in Nat
        /\ Cardinality(Ended(N)) \in Nat
    BY <2>1, FewNotes DEF NotesFit
  <2>4. Cardinality(Ended(N)) < Cardinality(N)
    <3>1. /\ Cardinality(Ended(N)) <= Cardinality(N)
          /\ Cardinality(Ended(N)) = Cardinality(N) => Ended(N) = N
      BY <2>2, <2>3, FS_Subset
    <3>2. QED
      BY <2>2, <2>3, <3>1
  <2>5. QED
    BY <1>6, <2>1, <2>3, <2>4 DEF Covered
<1>8. QED
  BY <1>1, <1>6, <1>7 DEF Covered

(* The notes of a merge request are such, and there are finitely many.     *)
LEMMA NotesFitted ==
  ASSUME NotesInv, Stale = {}
  PROVE  NotesFit(Range(comments), now)
<1>0. NotesOK /\ ResolvedOK /\ now \in Nat
  BY DEF NotesInv, NotesOK
<1>1. IsFiniteSet(Range(comments))
  <2>1. Len(comments) \in Nat /\ DOMAIN comments = 1 .. Len(comments)
    BY <1>0, NotesTyped
  <2>2. IsFiniteSet(DOMAIN comments)
    BY <2>1, FS_Interval
  <2>3. Range(comments) = {comments[i] : i \in DOMAIN comments}
    BY DEF Range
  <2>4. QED
    BY <2>2, <2>3, FewValues
<1>2. ASSUME NEW i \in DOMAIN comments
      PROVE  LET n == comments[i]
                 r == resolvedAt[n.disc]
             IN  /\ n.at \in Nat /\ n.at <= now
                 /\ n.res \in Nat \union {Never} /\ n.res <= now
                 /\ n.res = Never <=> r = Never
                 /\ r # Never /\ r < n.at => n.res = n.at - 1
                 /\ r # Never /\ n.at <= r => n.res = r
                 /\ r \in Nat \union {Never}
                 /\ r # Never
                      => \A j \in DOMAIN comments : Apart(comments[j].at, r)
  <2> DEFINE n == comments[i]
             r == resolvedAt[n.disc]
  <2>1. /\ n \in NotesUntil(now) /\ n.disc \in Discs
        /\ n.at \in Nat /\ n.at <= now
    BY <1>0, NotesTyped DEF NotesOK
  <2>2. /\ r \in Nat \union {Never} /\ r <= now
        /\ r # Never => \A j \in DOMAIN comments : Apart(comments[j].at, r)
    BY <1>0, <2>1 DEF ResolvedOK
  <2>3. n.res = Resolution(n, resolvedAt)
    BY DEF Stale
  <2> HIDE DEF n, r
  <2>4. r = resolvedAt[n.disc]
    BY DEF r
  <2>5. /\ n.res \in Nat \union {Never} /\ n.res <= now
        /\ n.res = Never <=> r = Never
        /\ r # Never /\ r < n.at => n.res = n.at - 1
        /\ r # Never /\ n.at <= r => n.res = r
    BY <1>0, <2>1, <2>2, <2>3, <2>4, ResolutionTime
  <2>6. QED
    BY <2>1, <2>2, <2>5 DEF n, r
<1>3. ASSUME NEW n \in Range(comments)
      PROVE  /\ n.at \in Nat /\ n.at <= now
             /\ n.res \in Nat \union {Never} /\ n.res <= now
             /\ n.res # Never => n.at < n.res \/ n.res = n.at - 1
  <2>1. PICK i \in DOMAIN comments : n = comments[i]
    BY DEF Range
  <2> DEFINE r == resolvedAt[n.disc]
  <2>2. /\ n.at \in Nat /\ n.at <= now
        /\ n.res \in Nat \union {Never} /\ n.res <= now
        /\ n.res = Never <=> r = Never
        /\ r # Never /\ r < n.at => n.res = n.at - 1
        /\ r # Never /\ n.at <= r => n.res = r
        /\ r \in Nat \union {Never}
        /\ r # Never => Apart(n.at, r)
    BY <1>2, <2>1
  <2> HIDE DEF r
  <2>3. QED
    BY <2>2 DEF Apart, Never
<1>4. ASSUME NEW n \in Range(comments), NEW m \in Range(comments)
      PROVE  n.at # m.res /\ (n.at = m.at => n = m)
  <2>1. PICK j \in DOMAIN comments : n = comments[j]
    BY DEF Range
  <2>2. PICK i \in DOMAIN comments : m = comments[i]
    BY DEF Range
  <2> DEFINE r == resolvedAt[m.disc]
  <2>3. /\ m.at \in Nat /\ n.at \in Nat
        /\ m.res = Never <=> r = Never
        /\ r # Never /\ r < m.at => m.res = m.at - 1
        /\ r # Never /\ m.at <= r => m.res = r
        /\ r \in Nat \union {Never}
        /\ r # Never => Apart(n.at, r)
    BY <1>2, <2>1, <2>2
  <2>4. n.at + 1 # m.at /\ (n.at = m.at => n = m)
    BY <1>0, <2>1, <2>2, NotesTyped
  <2> HIDE DEF r
  <2>5. n.at # m.res
    BY <2>3, <2>4 DEF Apart, Never
  <2>6. QED
    BY <2>4, <2>5
<1>5. QED
  BY <1>0, <1>1, <1>3, <1>4 DEF NotesFit

(* The clock of fixes starts with a note, and not after fixes began, but   *)
(* for replies to resolved discussions.                                    *)
LEMMA FixesInTime ==
  ASSUME ClockInv, Stale = {}
  PROVE  FixesNotLate
<1> DEFINE N == Range(comments)
           f == PeriodStart(N)
           L == {n.at : n \in LateReplies}
<1> SUFFICES ASSUME State = "on_fixes"
             PROVE  f \in Start .. Newest({since} \union L)
  BY DEF FixesNotLate, GetStateTransitionTime
<1>1. NotesOK /\ ResolvedOK /\ NotesInv /\ SinceOK
  BY DEF ClockInv, NotesInv
<1>2. NotesFit(N, now)
  BY <1>1, NotesFitted
<1>3. PICK d \in Awaiting(comments, Unresolved) : TRUE
  BY DEF State, StateOf
<1>4. d \in Discs /\ Notes(comments, d) # {} /\ d \in Unresolved
  BY <1>3 DEF Awaiting
<1>5. \E n \in N : n.res = Never
  BY <1>4 DEF Unresolved
<1>6. GoodStart(f, N)
  BY <1>2, <1>5, PeriodCovers
<1>7. StateThere = "on_fixes"
  <2>1. \A e \in Discs : Notes(comments, e) # {}
          => (e \in Unresolved <=> e \in OpenIn(resolvedAt))
    BY <1>1, OpenAgree DEF OpenIn
  <2>2. Awaiting(comments, OpenIn(resolvedAt))
          = Awaiting(comments, Unresolved)
    BY <2>1 DEF Awaiting
  <2>3. QED
    BY <2>2 DEF State, StateThere, StateIn, StateOf
<1> HIDE DEF f
<1>8. PICK k \in DOMAIN comments :
        /\ f = comments[k].at
        /\ \/ Late(comments[k])
           \/ \A m \in N : m.at < f => m.res # Never /\ m.res <= f
  <2>1. PICK n \in N : /\ f = n.at
                       /\ \/ Late(n)
                          \/ \A m \in N : m.at < f => m.res # Never /\ m.res <= f
    BY <1>6 DEF GoodStart
  <2>2. QED
    BY <2>1 DEF Range
<1>9. /\ f \in Nat /\ Start <= f /\ f <= now
      /\ now \in Nat /\ Start \in Nat /\ since \in Start .. now
  BY <1>1, <1>8, NotesTyped, TimelineAssumption DEF NotesOK, SinceOK
<1>10. \A x \in {since} \union L : x \in Nat /\ x <= now
  <2>1. \A x \in L : x \in Nat /\ x <= now
    BY <1>2 DEF LateReplies, NotesFit
  <2>2. since \in Nat /\ since <= now
    BY <1>9
  <2>3. QED
    BY <2>1, <2>2
<1>11. f \in {since} \union L \/ f <= since
  <2>1. CASE Late(comments[k])
    <3>1. comments[k] \in N
      BY DEF Range
    <3>2. comments[k] \in LateReplies
      BY <2>1, <3>1 DEF LateReplies, Late
    <3>3. QED
      BY <1>8, <3>2
  <2>2. ASSUME \A m \in N : m.at < f => m.res # Never /\ m.res <= f,
               ~ (f <= since)
        PROVE  FALSE
    <3>1. f - 1 \in since .. now /\ f - 1 \in Nat
      BY <1>9, <2>2
    <3>2. PICK i \in DOMAIN comments : Open(i, f - 1)
      BY <1>1, <1>7, <3>1 DEF SinceOK
    <3> DEFINE m == comments[i]
               r == resolvedAt[m.disc]
    <3>3. /\ m \in N /\ m.at \in Nat /\ m.disc \in Discs
          /\ m.at <= f - 1 /\ (r = Never \/ f - 1 < r)
      BY <1>1, <3>2, NotesTyped DEF Open, Range
    <3>4. /\ r \in Nat \union {Never} /\ r <= now
          /\ r # Never => Apart(f, r)
      BY <1>1, <1>8, <3>3 DEF ResolvedOK
    <3>5. m \in NotesUntil(now) /\ m.res = Resolution(m, resolvedAt)
      BY <1>1 DEF NotesOK, Stale
    <3> HIDE DEF m, r
    <3>6. r = resolvedAt[m.disc]
      BY DEF r
    <3>7. /\ m.res = Never <=> r = Never
          /\ r # Never /\ m.at <= r => m.res = r
      BY <1>9, <3>4, <3>5, <3>6, ResolutionTime
    <3>8. m.res # Never /\ m.res <= f
      BY <1>9, <2>2, <3>3
    <3>9. r \in Nat /\ f - 1 < r /\ m.at <= r
      BY <1>9, <3>3, <3>4, <3>7, <3>8
    <3>10. m.res = r /\ r <= f
      BY <3>7, <3>8, <3>9 DEF Never
    <3>11. Apart(f, r)
      BY <3>4, <3>9 DEF Never
    <3>12. QED
      BY <1>9, <3>9, <3>10, <3>11 DEF Apart
  <2>3. QED
    BY <1>8, <2>1, <2>2
<1> DEFINE S == {since} \union L
           b == Newest(S)
<1>12. b \in Nat /\ \A x \in S : x <= b
  <2>1. S \subseteq Nat /\ S # {} /\ \A x \in S : x <= now
    BY <1>10
  <2> HIDE DEF S
  <2>2. b \in S /\ \A x \in S : x <= b
    BY <1>9, <2>1, LastOne
  <2>3. QED
    BY <2>1, <2>2
<1>13. since <= b /\ (f \in S => f <= b)
  <2>1. since \in S
    OBVIOUS
  <2> HIDE DEF S, b
  <2>2. QED
    BY <1>12, <2>1
<1>14. f \in S \/ f <= since
  BY <1>11
<1> HIDE DEF S, b
<1>15. f <= b
  <2>1. since \in Nat
    BY <1>9
  <2>2. QED
    BY <1>9, <1>12, <1>13, <1>14, <2>1
<1>16. f \in Start .. b
  BY <1>9, <1>12, <1>15
<1>17. QED
  BY <1>16 DEF b, S

(* The clocks of the SLA start when what they measure has begun: as soon   *)
(* as all notes are stored as GitLab has them, the author's with the first *)
(* note of an answer that is still waited for, and each reviewer's with    *)
(* their own, as getAuthorOnFixesTime and the like find them; the clock of *)
(* fixes with a note and not after the fixes, unless a reply to a resolved *)
(* discussion starts it anew; whichever calls of the database fail.        *)
THEOREM ClocksRight == Spec => []ClocksTrue
<1>1. Init => ClockInv
  BY ClockInit
<1>2. ClockInv /\ [Next]_vars => ClockInv'
  BY ClockStep
<1>3. ClockInv => ClocksTrue
  BY FixesInTime, PeopleInTime DEF ClocksTrue, ClockInv
<1>4. QED
  BY <1>1, <1>2, <1>3, PTL DEF Spec
==============================================================================

------------------------------ MODULE WorkingTime ------------------------------
(***************************************************************************)
(* Working time (utils/sla.go): the time between two instants, without     *)
(* weekends and the holidays of the repository.  Instants are numbers, a   *)
(* day is DayLength of them, day 0 is a Monday; everything is in UTC.      *)
(***************************************************************************)
EXTENDS Integers, FiniteSets

CONSTANT DayLength

ASSUME DayLengthAssumption == DayLength \in Nat \ {0}

DayOf(t) == t \div DayLength

Midnight(day) == day * DayLength

Weekend(day) == day % 7 \in {5, 6}

isWorkingDaySimple(day, holidaySet) ==
  ~ Weekend(day) /\ day \notin holidaySet

(* The days from first on and before last: two of each full week, and the  *)
(* days that are left are looked at one by one.                            *)
countWeekendsInRange(first, last) ==
  LET totalDays == last - first
      fullWeeks == totalDays \div 7
      remaining == first + 7 * fullWeeks .. last - 1
  IN  IF first >= last
        THEN 0
        ELSE 2 * fullWeeks + Cardinality({d \in remaining : Weekend(d)})

holidaysOnWeekdays(first, last, holidaySet) ==
  Cardinality({d \in holidaySet : first <= d /\ d < last /\ ~ Weekend(d)})

MiddleTime(first, last, holidaySet) ==
  LET workingDays == (last - first) - countWeekendsInRange(first, last)
                       - holidaysOnWeekdays(first, last, holidaySet)
  IN  IF first < last /\ workingDays > 0 THEN Midnight(workingDays) ELSE 0

CalculateWorkingTime(start, end, holidaySet) ==
  LET startDay == DayOf(start)
      endDay == DayOf(end)
      OnWorkingDay(day, time) ==
        IF isWorkingDaySimple(day, holidaySet) THEN time ELSE 0
  IN  IF end <= start THEN 0
      ELSE IF startDay = endDay THEN OnWorkingDay(startDay, end - start)
      ELSE OnWorkingDay(startDay, Midnight(startDay + 1) - start)
             + MiddleTime(startDay + 1, endDay, holidaySet)
             + OnWorkingDay(endDay, end - Midnight(endDay))

-----------------------------------------------------------------------------
(* What working time is: the instants of a set that are on working days.   *)
Worked(instants, holidaySet) ==
  Cardinality({t \in instants : isWorkingDaySimple(DayOf(t), holidaySet)})
==============================================================================

------------------------------ MODULE Calendar ------------------------------
(***************************************************************************)
(* The time stamp of a frame and what the on-board unit makes of it: the   *)
(* road-side unit counts minutes of the year from its local time, the      *)
(* on-board unit turns them into the date and time it prints and draws.    *)
(* The wall clock runs through a year, leap or not, Step minutes at a time *)
(* (less than a day, so that no date is left out).                         *)
(***************************************************************************)
EXTENDS Naturals

CONSTANT Step   \* minutes

VARIABLES
  tm,     \* struct tm: day of the year from 0, hour, minute
  leap    \* the year has 366 days

ASSUME StepAssumption == Step \in 1 .. 1440

Init ==
  /\ tm = [yday |-> 0, hour |-> 0, min |-> 0]
  /\ leap \in BOOLEAN

-----------------------------------------------------------------------------
(* The code.                                                               *)

getCurrTime == tm.yday * 24 * 60 + tm.hour * 60 + tm.min

daysMonth == <<31, 28, 31, 30, 31, 30, 31, 31, 30, 31, 30, 31>>

\* Days before month m, added up by the loop: dayOfYear in its m-th round.
DaysBefore[m \in 1 .. 13] ==
  IF m = 1 THEN 0 ELSE DaysBefore[m - 1] + daysMonth[m - 1]

Unset == 99   \* *days when the loop ends without break

\* The rounds in which the loop breaks.
RoundsBefore(totalDays) == {m \in 1 .. 12 : DaysBefore[m + 1] > totalDays} \* fault
Rounds(totalDays)       == {m \in 1 .. 12 : DaysBefore[m + 1] >= totalDays}

convertMinutesToCalendar(minutesOfYear) ==
  LET totalDays == minutesOfYear \div (60 * 24)
      breaks == Rounds(totalDays)
      month  == IF breaks = {} THEN 13
                ELSE CHOOSE m \in breaks : \A n \in breaks : m <= n
  IN  [month  |-> month,
       day    |-> IF breaks = {} THEN Unset ELSE totalDays - DaysBefore[month],
       hour   |-> (minutesOfYear % (60 * 24)) \div 60,
       minute |-> minutesOfYear % 60]

Shown == convertMinutesToCalendar(getCurrTime)

-----------------------------------------------------------------------------
(* The wall clock.                                                         *)

Pass ==
  LET now == getCurrTime + Step
  IN  /\ now < (IF leap THEN 366 ELSE 365) * 1440
      /\ tm' = [yday |-> now \div 1440, hour |-> (now % 1440) \div 60,
                min |-> now % 60]
      /\ UNCHANGED leap

Spec == Init /\ [][Pass]_<<tm, leap>>

-----------------------------------------------------------------------------
\* A new day is shown as the day after the one shown before, over the ends of
\* months too, where the loop breaks one round later (message.c:396-403).
DateAdvances ==
  [][ tm'.yday # tm.yday =>
        IF Shown.day < daysMonth[Shown.month]
        THEN Shown'.month = Shown.month /\ Shown'.day = Shown.day + 1
        ELSE Shown'.month = Shown.month + 1 /\ Shown'.day = 1 ]_<<tm, leap>>

\* The loop always breaks, on the 366th day of a leap year too, which
\* daysMonth does not have; and the time shown is the time of day.
DateAssigned ==
  /\ Shown.month \in 1 .. 12 /\ Shown.day \in 0 .. daysMonth[Shown.month]
  /\ Shown.hour = tm.hour /\ Shown.minute = tm.min

\* What the report says printHeader() prints: the current date.
DateIsToday ==
  LET feb == IF leap THEN 29 ELSE 28
      lengths == [daysMonth EXCEPT ![2] = feb]
      before[m \in 1 .. 12] ==
        IF m = 1 THEN 0 ELSE before[m - 1] + lengths[m - 1]
  IN  \A m \in 1 .. 12 : \A d \in 1 .. lengths[m] :
        tm.yday = before[m] + d - 1 => Shown.month = m /\ Shown.day = d
=============================================================================

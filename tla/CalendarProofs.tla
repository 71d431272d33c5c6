--------------------------- MODULE CalendarProofs ---------------------------
(***************************************************************************)
(* For every step of the wall clock of at most a day, the date the         *)
(* on-board unit makes of a time stamp is one its table of months has, and *)
(* the time is the time of day.  The loop of convertMinutesToCalendar()    *)
(* breaks because 365, the sum of the table, is the last day of the year   *)
(* counted from 0, of a leap year too.  And the picture with that date     *)
(* has each of its lines whole, on a row of its own.                       *)
(***************************************************************************)
EXTENDS Picture, TLAPS

\* What localtime() returns: a time of the year the clock runs through.
ClockOK ==
  /\ tm \in [yday : 0 .. 365, hour : 0 .. 23, min : 0 .. 59]
  /\ leap \in BOOLEAN

\* The sums of the table, which the loop adds up month by month.
Sums == <<0, 31, 59, 90, 120, 151, 181, 212, 243, 273, 304, 334, 365>>

\* The minute of the year of a day, hour and minute.
MinuteOf(d, h, n) == d * 1440 + (h * 60 + n)

\* Month m is the one whose round breaks for day d of the year, from 0.
InMonth(m, d) ==
  /\ m \in 1 .. 12 /\ d <= Sums[m + 1]
  /\ m = 1 \/ Sums[m] < d

-----------------------------------------------------------------------------
\* The recursion of DaysBefore has a solution, the table of sums, so that
\* DaysBefore solves it too (dayOfYear of message.c:396-403).
LEMMA DaysBeforeEquation ==
  DaysBefore = [m \in 1 .. 13 |->
                  IF m = 1 THEN 0 ELSE DaysBefore[m - 1] + daysMonth[m - 1]]
<1> DEFINE Step1(f) == [m \in 1 .. 13 |->
                          IF m = 1 THEN 0 ELSE f[m - 1] + daysMonth[m - 1]]
           F == [m \in 1 .. 13 |-> Sums[m]]
<1>1. ASSUME NEW m \in 1 .. 13
      PROVE  Sums[m] = IF m = 1 THEN 0 ELSE F[m - 1] + daysMonth[m - 1]
  <2>1. CASE m = 1
    BY <2>1 DEF Sums
  <2>2. CASE m # 1
    <3>1. m - 1 \in 1 .. 12 /\ F[m - 1] = Sums[m - 1]
      BY <2>2
    <3>2. Sums[m] = Sums[m - 1] + daysMonth[m - 1]
      <4>1. m \in {2, 3, 4, 5, 6, 7, 8, 9, 10, 11, 12, 13}
        BY <2>2
      <4> QED
        BY <4>1 DEF Sums, daysMonth
    <3> QED
      BY <2>2, <3>1, <3>2
  <2> QED
    BY <2>1, <2>2
<1>2. F = Step1(F)
  BY <1>1
<1>3. DaysBefore = CHOOSE f : f = Step1(f)
  BY DEF DaysBefore
<1> HIDE DEF Step1, F
<1>4. DaysBefore = Step1(DaysBefore)
  BY <1>2, <1>3
<1> QED
  BY <1>4 DEF Step1

\* The sums the loop reaches.
LEMMA DaysBeforeSums ==
  \A m \in 1 .. 13 : DaysBefore[m] = Sums[m]
<1>1. DaysBefore[1] = 0
  BY DaysBeforeEquation
<1>2. \A m \in 2 .. 13 : DaysBefore[m] = DaysBefore[m - 1] + daysMonth[m - 1]
  BY DaysBeforeEquation
<1>3. DaysBefore[2] = 31 /\ DaysBefore[3] = 59 /\ DaysBefore[4] = 90
  BY <1>1, <1>2 DEF daysMonth
<1>4. DaysBefore[5] = 120 /\ DaysBefore[6] = 151 /\ DaysBefore[7] = 181
  BY <1>2, <1>3 DEF daysMonth
<1>5. DaysBefore[8] = 212 /\ DaysBefore[9] = 243 /\ DaysBefore[10] = 273
  BY <1>2, <1>4 DEF daysMonth
<1>6. DaysBefore[11] = 304 /\ DaysBefore[12] = 334 /\ DaysBefore[13] = 365
  BY <1>2, <1>5 DEF daysMonth
<1>7. ASSUME NEW m \in 1 .. 13 PROVE m \in {1, 2, 3, 4, 5, 6, 7, 8, 9, 10, 11, 12, 13}
  OBVIOUS
<1> QED
  BY <1>1, <1>3, <1>4, <1>5, <1>6, <1>7 DEF Sums

-----------------------------------------------------------------------------
\* Pass is a carry from minutes to hours to days, and never skips a day.
LEMMA ClockStep ==
  ASSUME ClockOK, Pass
  PROVE  ClockOK' /\ tm'.yday \in {tm.yday, tm.yday + 1}
<1> DEFINE now == getCurrTime + Step
<1>1. PICK d \in 0 .. 365, h \in 0 .. 23, n \in 0 .. 59 :
        tm = [yday |-> d, hour |-> h, min |-> n]
  BY DEF ClockOK
<1>2. now = d * 1440 + (h * 60 + n) + Step /\ Step \in 1 .. 1440
  BY <1>1, StepAssumption DEF getCurrTime
<1>3. now \in Nat /\ now < 366 * 1440
  BY <1>2 DEF Pass, ClockOK
<1>4. tm' = [yday |-> now \div 1440, hour |-> (now % 1440) \div 60, min |-> now % 60]
      /\ leap' = leap
  BY DEF Pass
<1>5. h * 60 + n \in 0 .. 1439
  OBVIOUS
<1> HIDE DEF now
<1>6. /\ now \div 1440 \in 0 .. 365 /\ now \div 1440 \in {d, d + 1}
      /\ now % 1440 \in 0 .. 1439 /\ now % 60 \in 0 .. 59
  BY <1>2, <1>3, <1>5
<1>7. \A k \in 0 .. 1439 : k \div 60 \in 0 .. 23
  OBVIOUS
<1> QED
  BY <1>1, <1>4, <1>6, <1>7 DEF ClockOK

\* The clock stays one.
LEMMA ClockInvariant == Spec => []ClockOK
<1>1. Init => ClockOK
  BY DEF Init, ClockOK
<1>2. ClockOK /\ [Pass]_<<tm, leap>> => ClockOK'
  <2> SUFFICES ASSUME ClockOK, [Pass]_<<tm, leap>> PROVE ClockOK'
    OBVIOUS
  <2>1. CASE Pass
    BY <2>1, ClockStep
  <2>2. CASE UNCHANGED <<tm, leap>>
    BY <2>2 DEF ClockOK
  <2> QED
    BY <2>1, <2>2
<1> QED
  BY <1>1, <1>2, PTL DEF Spec

-----------------------------------------------------------------------------
\* The table of sums grows by the length of each month, and never shrinks.
LEMMA SumsGrow ==
  /\ \A m \in 1 .. 12 : Sums[m + 1] = Sums[m] + daysMonth[m] /\ daysMonth[m] \in Nat
  /\ \A m \in 1 .. 13 : Sums[m] \in Nat
  /\ \A m, n \in 1 .. 13 : m <= n => Sums[m] <= Sums[n]
<1> DEFINE Months == {1, 2, 3, 4, 5, 6, 7, 8, 9, 10, 11, 12}
<1>1. \A m \in 1 .. 12 : m \in Months
  OBVIOUS
<1>2. \A m \in 1 .. 13 : m \in Months \union {13}
  OBVIOUS
<1>3. \A m \in Months : Sums[m + 1] = Sums[m] + daysMonth[m] /\ daysMonth[m] \in Nat
  BY DEF Sums, daysMonth
<1>4. \A m \in Months \union {13} : Sums[m] \in Nat
  BY DEF Sums
<1>5. \A m, n \in Months \union {13} : m <= n => Sums[m] <= Sums[n]
  BY DEF Sums
<1> QED
  BY <1>1, <1>2, <1>3, <1>4, <1>5

\* Every day of a year, leap or not, is in a month of the table.
LEMMA EveryDayInMonth ==
  ASSUME NEW d \in 0 .. 365
  PROVE  \E m \in 1 .. 12 : InMonth(m, d)
BY DEF Sums, InMonth

\* The round of that month is the first in which the loop breaks, so that it
\* is the month it answers (message.c:396-403).
LEMMA RoundOfMonth ==
  ASSUME NEW d \in 0 .. 365, NEW m, InMonth(m, d)
  PROVE  /\ Rounds(d) # {}
         /\ m = CHOOSE k \in Rounds(d) : \A n \in Rounds(d) : k <= n
         /\ DaysBefore[m] = Sums[m]
<1>1. Rounds(d) = {n \in 1 .. 12 : Sums[n + 1] >= d}
  BY DaysBeforeSums DEF Rounds
<1>2. m \in Rounds(d)
  BY <1>1, SumsGrow DEF InMonth
<1>3. ASSUME NEW n \in Rounds(d) PROVE m <= n
  <2>1. n \in 1 .. 12 /\ Sums[n + 1] >= d
    BY <1>1
  <2>2. SUFFICES ASSUME n < m PROVE FALSE
    BY <2>1 DEF InMonth
  <2>3. n + 1 <= m /\ Sums[m] < d /\ n + 1 \in 1 .. 13 /\ m \in 1 .. 12
    BY <2>1, <2>2 DEF InMonth
  <2>4. Sums[n + 1] <= Sums[m] /\ Sums[n + 1] \in Nat /\ Sums[m] \in Nat
    BY <2>3, SumsGrow
  <2> QED
    BY <2>1, <2>3, <2>4
<1> DEFINE first == CHOOSE k \in Rounds(d) : \A n \in Rounds(d) : k <= n
<1>4. first \in Rounds(d) /\ \A n \in Rounds(d) : first <= n
  BY <1>2, <1>3
<1> HIDE DEF first
<1>5. first \in 1 .. 12 /\ m \in 1 .. 12 /\ first <= m /\ m <= first
  BY <1>2, <1>3, <1>4 DEF Rounds
<1>6. m = first
  BY <1>5
<1>7. Rounds(d) # {} /\ DaysBefore[m] = Sums[m]
  BY <1>2, <1>5, DaysBeforeSums
<1> QED
  BY <1>6, <1>7 DEF first

\* What a time is converted to: the month of the day, how far the day is in
\* it, and the time of day.
LEMMA Converted ==
  ASSUME NEW d \in 0 .. 365, NEW h \in 0 .. 23, NEW n \in 0 .. 59,
         NEW m, InMonth(m, d)
  PROVE  convertMinutesToCalendar(MinuteOf(d, h, n)) =
           [month |-> m, day |-> d - Sums[m], hour |-> h, minute |-> n]
<1> DEFINE t == d * 1440 + (h * 60 + n)
<1>1. t \in Nat /\ t \div 1440 = d /\ (t % 1440) \div 60 = h /\ t % 60 = n
  <2>1. h * 60 + n \in 0 .. 1439
    OBVIOUS
  <2>2. t \div 1440 = d /\ t % 1440 = h * 60 + n
    BY <2>1
  <2>3. (h * 60 + n) \div 60 = h
    OBVIOUS
  <2>4. t % 60 = n
    OBVIOUS
  <2> QED
    BY <2>2, <2>3, <2>4
<1> HIDE DEF t
<1>2. 60 * 24 = 1440
  OBVIOUS
<1>3. t \div (60 * 24) = d /\ (t % (60 * 24)) \div 60 = h
  BY <1>1, <1>2
<1>4. /\ Rounds(d) # {} /\ DaysBefore[m] = Sums[m]
      /\ m = CHOOSE k \in Rounds(d) : \A i \in Rounds(d) : k <= i
  BY RoundOfMonth
<1> DEFINE total == t \div (60 * 24)
           first == CHOOSE k \in Rounds(total) : \A i \in Rounds(total) : k <= i
<1>5. Rounds(total) # {} /\ first = m
  BY <1>3, <1>4
<1>6. convertMinutesToCalendar(t) =
        [month |-> IF Rounds(total) = {} THEN 13 ELSE first,
         day |-> IF Rounds(total) = {} THEN Unset
                 ELSE total - DaysBefore[IF Rounds(total) = {} THEN 13 ELSE first],
         hour |-> (t % (60 * 24)) \div 60, minute |-> t % 60]
  BY DEF convertMinutesToCalendar
<1> HIDE DEF first
<1>7. convertMinutesToCalendar(t) =
        [month |-> m, day |-> d - Sums[m], hour |-> h, minute |-> n]
  <2>1. total = d /\ (t % (60 * 24)) \div 60 = h /\ t % 60 = n
    BY <1>1, <1>3
  <2> HIDE DEF total
  <2> QED
    BY <1>4, <1>5, <1>6, <2>1
<1> QED
  BY <1>7 DEF t, MinuteOf

\* The day shown is one of the month shown.
LEMMA DayOfMonth ==
  ASSUME NEW d \in 0 .. 365, NEW m, InMonth(m, d)
  PROVE  m \in 1 .. 12 /\ d - Sums[m] \in 0 .. daysMonth[m]
<1>1. /\ m \in 1 .. 12 /\ Sums[m] \in Nat /\ daysMonth[m] \in Nat
      /\ Sums[m + 1] = Sums[m] + daysMonth[m]
  BY SumsGrow DEF InMonth
<1>2. Sums[m] <= d
  BY <1>1 DEF InMonth, Sums
<1> QED
  BY <1>1, <1>2 DEF InMonth

-----------------------------------------------------------------------------
\* The on-board unit never draws a date it did not assign: the loop of
\* convertMinutesToCalendar() breaks for every minute of every year, also on
\* the 366th day, and the time shown is the time of day (message.c:385-411).
THEOREM DateIsAssigned == Spec => []DateAssigned
<1>1. ClockOK => DateAssigned
  <2> SUFFICES ASSUME ClockOK PROVE DateAssigned
    OBVIOUS
  <2>1. PICK d \in 0 .. 365, h \in 0 .. 23, n \in 0 .. 59 :
          tm = [yday |-> d, hour |-> h, min |-> n]
    BY DEF ClockOK
  <2>2. PICK m \in 1 .. 12 : InMonth(m, d)
    BY EveryDayInMonth
  <2>3. getCurrTime = MinuteOf(d, h, n)
    BY <2>1 DEF getCurrTime, MinuteOf
  <2>4. Shown = [month |-> m, day |-> d - Sums[m], hour |-> h, minute |-> n]
    BY <2>2, <2>3, Converted DEF Shown
  <2>5. d - Sums[m] \in 0 .. daysMonth[m]
    BY <2>2, DayOfMonth
  <2> QED
    BY <2>1, <2>4, <2>5 DEF DateAssigned
<1> QED
  BY <1>1, ClockInvariant, PTL

\* However often frames come, as long as a day has one: the day after the day
\* shown is shown next, and after the last day of a month, as the table has
\* it, the first of the next month (message.c:396-403).
THEOREM DateFollowsDate == Spec => DateAdvances
<1> DEFINE NextDay == tm'.yday # tm.yday =>
             IF Shown.day < daysMonth[Shown.month]
             THEN Shown'.month = Shown.month /\ Shown'.day = Shown.day + 1
             ELSE Shown'.month = Shown.month + 1 /\ Shown'.day = 1
<1>1. ClockOK /\ ClockOK' /\ [Pass]_<<tm, leap>> => [NextDay]_<<tm, leap>>
  <2> SUFFICES ASSUME ClockOK, ClockOK', Pass, tm'.yday # tm.yday
               PROVE  IF Shown.day < daysMonth[Shown.month]
                      THEN Shown'.month = Shown.month /\ Shown'.day = Shown.day + 1
                      ELSE Shown'.month = Shown.month + 1 /\ Shown'.day = 1
    OBVIOUS
  <2>1. PICK d \in 0 .. 365, h \in 0 .. 23, n \in 0 .. 59 :
          tm = [yday |-> d, hour |-> h, min |-> n]
    BY DEF ClockOK
  <2>2. PICK e \in 0 .. 365, i \in 0 .. 23, j \in 0 .. 59 :
          tm' = [yday |-> e, hour |-> i, min |-> j]
    BY DEF ClockOK
  <2>3. e = d + 1
    BY <2>1, <2>2, ClockStep
  <2>4. PICK m \in 1 .. 12 : InMonth(m, d)
    BY EveryDayInMonth
  <2>5. Shown.month = m /\ Shown.day = d - Sums[m]
    <3>1. getCurrTime = MinuteOf(d, h, n)
      BY <2>1 DEF getCurrTime, MinuteOf
    <3>2. Shown = [month |-> m, day |-> d - Sums[m], hour |-> h, minute |-> n]
      BY <2>4, <3>1, Converted DEF Shown
    <3> QED
      BY <3>2
  <2>6. ASSUME NEW k, InMonth(k, e)
        PROVE  Shown'.month = k /\ Shown'.day = e - Sums[k]
    <3>1. getCurrTime' = MinuteOf(e, i, j)
      BY <2>2 DEF getCurrTime, MinuteOf
    <3>2. Shown' = convertMinutesToCalendar(MinuteOf(e, i, j))
      BY <3>1 DEF Shown, convertMinutesToCalendar
    <3>3. Shown' = [month |-> k, day |-> e - Sums[k], hour |-> i, minute |-> j]
      BY <2>6, <3>2, Converted
    <3> QED
      BY <3>3
  <2>7. /\ Sums[m] \in Nat /\ daysMonth[m] \in Nat
        /\ Sums[m + 1] = Sums[m] + daysMonth[m]
    BY SumsGrow
  <2>8. d - Sums[m] \in 0 .. daysMonth[m] /\ (m = 1 \/ Sums[m] < d)
    BY <2>4, DayOfMonth DEF InMonth
  <2>9. CASE d - Sums[m] < daysMonth[m]
    <3>1. e <= Sums[m + 1] /\ (m = 1 \/ Sums[m] < e)
      BY <2>3, <2>7, <2>8, <2>9
    <3>2. InMonth(m, e)
      BY <3>1 DEF InMonth
    <3>3. Shown'.month = m /\ Shown'.day = (d - Sums[m]) + 1
      BY <2>3, <2>6, <2>7, <3>2
    <3> QED
      BY <2>5, <2>9, <3>3
  <2>10. CASE ~(d - Sums[m] < daysMonth[m])
    <3>1. d = Sums[m + 1]
      BY <2>7, <2>8, <2>10
    <3>2. m \in 1 .. 11
      BY <2>3, <3>1 DEF Sums
    <3>3. Sums[m + 1] \in Nat /\ Sums[m + 2] \in Nat /\ Sums[m + 2] > Sums[m + 1]
      BY <3>2 DEF Sums
    <3>4. InMonth(m + 1, e)
      <4>1. (m + 1) + 1 = m + 2 /\ m + 1 \in 1 .. 12
        BY <3>2
      <4>2. e <= Sums[m + 2] /\ Sums[m + 1] < e
        BY <2>3, <3>1, <3>3
      <4> QED
        BY <4>1, <4>2 DEF InMonth
    <3>5. Shown'.month = m + 1 /\ Shown'.day = 1
      BY <2>3, <2>6, <3>1, <3>3, <3>4
    <3> QED
      BY <2>5, <2>10, <3>5
  <2> QED
    BY <2>9, <2>10
<1> QED
  BY <1>1, ClockInvariant, PTL DEF Spec, DateAdvances

\* Drawing does not stop the clock: what is drawn on the panel, frame by
\* frame, has dates that are assigned and follow each other, for all names
\* and revisions (etsi-car main.c:35-46).
THEOREM PictureIsDated == PictureSpec => []DateAssigned /\ DateAdvances
<1>1. PictureInit => Init
  BY DEF PictureInit
<1>2. [drawString \/ NextFrame]_pictureVars => [Pass]_<<tm, leap>>
  BY DEF pictureVars, drawString, NextFrame
<1>3. PictureSpec => Spec
  BY <1>1, <1>2, PTL DEF PictureSpec, Spec
<1> QED
  BY <1>3, DateIsAssigned, DateFollowsDate, PTL
-----------------------------------------------------------------------------
\* The lines up to line k, each on its row.
Above(k) == UNION { Row(i, Lines[i]) : i \in 1 .. k }

\* What is on the panel while it is drawn: the lines before this one, and of
\* this one the characters before the next, which goes behind them.
PictureDrawn ==
  /\ ClockOK /\ revision \in Revisions
  /\ line \in 1 .. 9 /\ column \in 1 .. 21
  /\ IF line = 9 THEN column = 1 ELSE column <= Lines[line] + 1
  /\ panel = [x |-> 6 * (column - 1), y |-> 8 * (line - 1),
              drawn |-> Above(line - 1) \union Row(line, column - 1)]

\* The name of the intersection leaves room for its newline: the program
\* calls its intersections "Inter 1" to "Inter 4" (message.h:16-19).
NameFits == nameSize <= 15

\* How many digits a number takes.
LEMMA DigitsOf ==
  ASSUME NEW n \in Nat, n < 100000
  PROVE  /\ Digits(n) \in 1 .. 5
         /\ n < 100 => Digits(n) \in 1 .. 2
<1> DEFINE IsDigits(d) == n < Tens[d + 1] /\ (d = 1 \/ n >= Tens[d])
<1>1. /\ Tens[1 + 1] = 10 /\ Tens[2 + 1] = 100 /\ Tens[3 + 1] = 1000
      /\ Tens[4 + 1] = 10000 /\ Tens[5 + 1] = 100000
  BY DEF Tens
<1>2. /\ Tens[2] = 10 /\ Tens[3] = 100 /\ Tens[4] = 1000 /\ Tens[5] = 10000
  BY DEF Tens
<1>3. \/ IsDigits(1) \/ IsDigits(2) \/ IsDigits(3) \/ IsDigits(4) \/ IsDigits(5)
  BY <1>1, <1>2
<1>4. Digits(n) = CHOOSE d \in 1 .. 5 : IsDigits(d)
  BY DEF Digits
<1> HIDE DEF IsDigits
<1>5. Digits(n) \in 1 .. 5 /\ IsDigits(Digits(n))
  BY <1>3, <1>4
<1>6. ASSUME n < 100, NEW k \in 1 .. 5, IsDigits(k) PROVE k \in 1 .. 2
  BY <1>2, <1>6 DEF IsDigits
<1> QED
  BY <1>5, <1>6

\* No line fills its row (display.c:783-793).
LEMMA LinesFit ==
  ASSUME ClockOK, NameFits, revision \in Revisions
  PROVE  DOMAIN Lines = 1 .. 8 /\ \A i \in 1 .. 8 : Lines[i] \in 1 .. 20
<1>1. PICK d \in 0 .. 365, h \in 0 .. 23, n \in 0 .. 59 :
        tm = [yday |-> d, hour |-> h, min |-> n]
  BY DEF ClockOK
<1>2. PICK m \in 1 .. 12 : InMonth(m, d)
  BY EveryDayInMonth
<1>3. getCurrTime = MinuteOf(d, h, n)
  BY <1>1 DEF getCurrTime, MinuteOf
<1>4. Shown = [month |-> m, day |-> d - Sums[m], hour |-> h, minute |-> n]
  BY <1>2, <1>3, Converted DEF Shown
<1>5. d - Sums[m] \in 0 .. 31
  <2>1. daysMonth[m] \in 0 .. 31
    BY DEF daysMonth
  <2>2. d - Sums[m] \in 0 .. daysMonth[m]
    BY <1>2, DayOfMonth
  <2> QED
    BY <2>1, <2>2
<1>6. /\ Digits(Shown.day) \in 1 .. 2 /\ Digits(Shown.month) \in 1 .. 2
      /\ Digits(Shown.hour) \in 1 .. 2 /\ Digits(Shown.minute) \in 1 .. 2
  <2>1. /\ Shown.day \in 0 .. 31 /\ Shown.month \in 0 .. 12
        /\ Shown.hour \in 0 .. 23 /\ Shown.minute \in 0 .. 59
    BY <1>4, <1>5
  <2>2. ASSUME NEW k \in 0 .. 59 PROVE k \in Nat /\ k < 100000 /\ k < 100
    OBVIOUS
  <2>3. ASSUME NEW k \in 0 .. 59 PROVE Digits(k) \in 1 .. 2
    BY <2>2, DigitsOf
  <2> QED
    BY <2>1, <2>3
<1>7. Digits(id) \in 1 .. 5 /\ Digits(revision) \in 1 .. 5 /\ nameSize \in 0 .. 15
  <2>1. /\ id \in Nat /\ id < 100000
        /\ revision \in Nat /\ revision < 100000 /\ nameSize \in 0 .. 15
    BY PictureAssumption DEF NameFits
  <2> QED
    BY <2>1, DigitsOf
<1> QED
  BY <1>6, <1>7 DEF Lines

\* A character lies behind the others of its row.
LEMMA RowGrows ==
  ASSUME NEW i \in Nat, NEW n \in Nat
  PROVE  Row(i, n + 1) = Row(i, n) \union {<<6 * n, 8 * (i - 1), <<i, n + 1>>>>}
<1>1. 1 .. n + 1 = (1 .. n) \union {n + 1} /\ (n + 1) - 1 = n
  OBVIOUS
<1> QED
  BY <1>1 DEF Row

\* Writing a character puts it behind the others, a newline begins a row.
LEMMA WriteKeepsDrawn ==
  ASSUME NameFits, PictureDrawn, drawString
  PROVE  PictureDrawn'
<1> DEFINE D == Above(line - 1) \union Row(line, column - 1)
<1>1. DOMAIN Lines = 1 .. 8 /\ \A i \in 1 .. 8 : Lines[i] \in 1 .. 20
  BY LinesFit DEF PictureDrawn
<1>2. Lines' = Lines
  BY DEF drawString, Lines, Shown, getCurrTime, convertMinutesToCalendar
<1>3. ClockOK' /\ revision' \in Revisions
  BY DEF drawString, PictureDrawn, ClockOK
<1>4. line \in 1 .. 8
  BY <1>1 DEF drawString
<1>5. /\ column \in 1 .. 21 /\ column <= Lines[line] + 1 /\ Lines[line] \in 1 .. 20
      /\ panel = [x |-> 6 * (column - 1), y |-> 8 * (line - 1), drawn |-> D]
  BY <1>1, <1>4 DEF PictureDrawn
<1> HIDE DEF D
<1>6. \A k : Above(k)' = Above(k)
  BY <1>2 DEF Above, Row
<1>7. CASE column = Lines[line] + 1
  <2>1. line' = line + 1 /\ column' = 1 /\ panel' = NewLine(panel)
    BY <1>7 DEF drawString, Newline, write
  <2>2. panel' = [x |-> 0, y |-> 8 * (line - 1) + 8, drawn |-> D]
    <3>1. panel.y = 8 * (line - 1) /\ 1 * 8 = 8
      BY <1>5
    <3>2. panel' = [panel EXCEPT !.x = 0, !.y = 8 * (line - 1) + 8]
      BY <2>1, <3>1 DEF NewLine, textsize
    <3> QED
      BY <1>5, <3>2
  <2>3. Above(line) = D
    <3>1. 1 .. line = (1 .. line - 1) \union {line} /\ column - 1 = Lines[line]
      BY <1>4, <1>5, <1>7
    <3> QED
      BY <3>1 DEF Above, D
  <2>4. Row(line + 1, 0) = {}
    BY DEF Row
  <2>5. /\ line' - 1 = line /\ column' - 1 = 0
        /\ 6 * 0 = 0 /\ 8 * (line - 1) + 8 = 8 * line
    BY <1>4, <2>1
  <2>6. panel' = [x |-> 6 * (column' - 1), y |-> 8 * (line' - 1),
                  drawn |-> Above(line' - 1) \union Row(line', column' - 1)]
    BY <2>1, <2>2, <2>3, <2>4, <2>5
  <2>7. /\ line' \in 1 .. 9 /\ column' \in 1 .. 21
        /\ IF line' = 9 THEN column' = 1 ELSE column' <= Lines[line'] + 1
    BY <1>1, <1>4, <2>1
  <2> QED
    BY <1>2, <1>3, <1>6, <2>6, <2>7 DEF PictureDrawn
<1>8. CASE column # Lines[line] + 1
  <2> DEFINE c == <<6 * (column - 1), 8 * (line - 1), <<line, column>>>>
             q == drawChar(panel, <<line, column>>)
  <2>1. column \in 1 .. 20 /\ column <= Lines[line]
    BY <1>5, <1>8
  <2>2. line' = line /\ column' = column + 1 /\ panel' = write(panel, line, column)
    BY <1>8 DEF drawString, Newline
  <2>3. panel.x < WIDTH /\ panel.y < HEIGHT
    BY <1>4, <1>5, <2>1 DEF WIDTH, HEIGHT
  <2>4. panel.x = 6 * (column - 1) /\ panel.y = 8 * (line - 1) /\ panel.drawn = D
    BY <1>5
  <2> HIDE DEF c
  <2>5. q = [panel EXCEPT !.drawn = @ \union {c}]
    BY <2>3, <2>4 DEF drawChar, c
  <2>6. q = [x |-> 6 * (column - 1), y |-> 8 * (line - 1), drawn |-> D \union {c}]
    BY <1>5, <2>5
  <2>7. D \union {c} = Above(line - 1) \union Row(line, column)
    <3>1. line \in Nat /\ column - 1 \in Nat /\ (column - 1) + 1 = column
      BY <1>4, <2>1
    <3>2. Row(line, column) = Row(line, column - 1) \union {c}
      BY <3>1, RowGrows DEF c
    <3> QED
      BY <3>2 DEF D
  <2> HIDE DEF q
  <2>8. [q EXCEPT !.x = @ + 6] =
          [x |-> 6 * column, y |-> 8 * (line - 1),
           drawn |-> Above(line - 1) \union Row(line, column)]
    <3>1. 6 * (column - 1) + 6 = 6 * column
      BY <2>1
    <3>2. [q EXCEPT !.x = @ + 6] =
            [x |-> 6 * (column - 1) + 6, y |-> 8 * (line - 1), drawn |-> D \union {c}]
      BY <2>6
    <3> QED
      BY <2>7, <3>1, <3>2
  <2>9. panel' = [q EXCEPT !.x = @ + 6]
    <3>1. 1 * 6 = 6 /\ ~Wraps([q EXCEPT !.x = @ + 6].x)
      BY <2>1, <2>8 DEF Wraps, WIDTH, textsize
    <3> QED
      BY <1>8, <2>2, <3>1 DEF write, Newline, q, textsize
  <2>10. /\ line' \in 1 .. 9 /\ column' \in 1 .. 21
         /\ IF line' = 9 THEN column' = 1 ELSE column' <= Lines[line'] + 1
         /\ column' - 1 = column
    BY <1>1, <1>4, <2>1, <2>2
  <2> QED
    BY <1>2, <1>3, <1>6, <2>2, <2>8, <2>9, <2>10 DEF PictureDrawn
<1> QED
  BY <1>7, <1>8

\* A frame begins with an empty panel.
LEMMA EmptyPanel ==
  ASSUME ClockOK, NameFits, revision \in Revisions,
         line = 1, column = 1, panel = clearDisplay
  PROVE  PictureDrawn
<1>1. Lines[1] \in 1 .. 20
  BY LinesFit
<1>2. Above(0) = {} /\ Row(1, 0) = {}
  BY DEF Above, Row
<1>3. line - 1 = 0 /\ column - 1 = 0 /\ 6 * 0 = 0 /\ 8 * 0 = 0
  OBVIOUS
<1>4. panel = [x |-> 6 * (column - 1), y |-> 8 * (line - 1),
               drawn |-> Above(line - 1) \union Row(line, column - 1)]
  BY <1>2, <1>3 DEF clearDisplay
<1> QED
  BY <1>1, <1>4 DEF PictureDrawn

\* Whatever the date and the revision, each of the eight lines is on a row of
\* its own and none of their characters is off the panel, as long as the name
\* has no more than 15 characters (display.c:711-727, 768-801).
THEOREM PictureIsWhole ==
  ASSUME NameFits
  PROVE  PictureSpec => []PictureWhole
<1>1. PictureInit => PictureDrawn
  BY EmptyPanel DEF PictureInit, Init, ClockOK
<1>2. PictureDrawn /\ [drawString \/ NextFrame]_pictureVars => PictureDrawn'
  <2> SUFFICES ASSUME PictureDrawn, [drawString \/ NextFrame]_pictureVars
               PROVE  PictureDrawn'
    OBVIOUS
  <2>1. CASE drawString
    BY <2>1, WriteKeepsDrawn
  <2>2. CASE NextFrame
    <3>1. ClockOK'
      BY <2>2, ClockStep DEF NextFrame, PictureDrawn
    <3>2. (ClockOK /\ revision \in Revisions /\ line = 1 /\ column = 1 /\ panel = clearDisplay
            => PictureDrawn)'
      BY EmptyPanel, PTL
    <3> QED
      BY <2>2, <3>1, <3>2 DEF NextFrame
  <2>3. CASE UNCHANGED pictureVars
    <3>1. UNCHANGED <<tm, leap, revision, line, column, panel>>
      BY <2>3 DEF pictureVars
    <3>2. Lines' = Lines
      BY <3>1 DEF Lines, Shown, getCurrTime, convertMinutesToCalendar
    <3>3. ClockOK' /\ \A k : Above(k)' = Above(k)
      BY <3>1, <3>2 DEF PictureDrawn, ClockOK, Above
    <3> QED
      BY <3>1, <3>2, <3>3 DEF PictureDrawn
  <2> QED
    BY <2>1, <2>2, <2>3
<1>3. PictureDrawn => PictureWhole
  <2> SUFFICES ASSUME PictureDrawn, Complete
               PROVE  panel.drawn = UNION { Row(i, Lines[i]) : i \in DOMAIN Lines }
    BY DEF PictureWhole
  <2>1. DOMAIN Lines = 1 .. 8
    BY LinesFit DEF PictureDrawn
  <2>2. line = 9 /\ column = 1
    BY <2>1 DEF PictureDrawn, Complete
  <2>3. Row(9, 0) = {}
    BY DEF Row
  <2>4. line - 1 = 8 /\ column - 1 = 0
    BY <2>2
  <2> QED
    BY <2>1, <2>2, <2>3, <2>4 DEF PictureDrawn, Above
<1> QED
  BY <1>1, <1>2, <1>3, PTL DEF PictureSpec
=============================================================================

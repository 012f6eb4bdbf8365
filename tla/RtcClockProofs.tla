--------------------------- MODULE RtcClockProofs ---------------------------
(***************************************************************************)
(* Machine-checked theorems about RtcClock, for every length of a day,     *)
(* every width of time_t and every last year: RTC_Time counts the seconds  *)
(* modulo that width, except in March of a leap year.  The month table is  *)
(* unfolded once (MonthTable); the leap days of the earlier years grow by  *)
(* one with each leap year (NextLeaps).  What is left is a comparison of   *)
(* day numbers within a month (SameMonth) and where one or the year ends   *)
(* (MonthEnds, YearEnds).  The cast to time_t comes last (SmallTimes).     *)
(***************************************************************************)
EXTENDS RtcClock, FiniteSetTheorems, TLAPS

\* MonthDays, month by month.
LEMMA MonthTable ==
  /\ MonthDays[0] = 0    /\ MonthDays[1] = 31   /\ MonthDays[2] = 59
  /\ MonthDays[3] = 90   /\ MonthDays[4] = 120  /\ MonthDays[5] = 151
  /\ MonthDays[6] = 181  /\ MonthDays[7] = 212  /\ MonthDays[8] = 243
  /\ MonthDays[9] = 273  /\ MonthDays[10] = 304 /\ MonthDays[11] = 334
  /\ MonthDays[12] = 365
<1> DEFINE Table == <<31, 59, 90, 120, 151, 181, 212, 243, 273, 304, 334, 365>>
           Sums  == [m \in 0 .. 12 |-> IF m = 0 THEN 0 ELSE Table[m]]
           IsIt(f) == f = [m \in 0 .. 12 |-> IF m = 0 THEN 0 ELSE f[m - 1] + DaysInMonth[m]]
<1>1. IsIt(Sums)
  <2>1. ASSUME NEW m \in 1 .. 12
        PROVE  Sums[m] = Sums[m - 1] + DaysInMonth[m]
    <3>1. m \in {1, 2, 3, 4, 5, 6, 7, 8, 9, 10, 11, 12}
      OBVIOUS
    <3> QED BY <3>1 DEF DaysInMonth
  <2> QED BY <2>1
<1>2. MonthDays = CHOOSE f : IsIt(f)
  BY DEF MonthDays
<1>3. IsIt(MonthDays)
  <2> HIDE DEF IsIt
  <2> QED BY <1>1, <1>2
<1>4. \A m \in 1 .. 12 : MonthDays[m] = MonthDays[m - 1] + DaysInMonth[m]
  BY <1>3
<1>5. MonthDays[0] = 0
  BY <1>3
<1>6. /\ MonthDays[1] = MonthDays[0] + 31 /\ MonthDays[2] = MonthDays[1] + 28
      /\ MonthDays[3] = MonthDays[2] + 31 /\ MonthDays[4] = MonthDays[3] + 30
      /\ MonthDays[5] = MonthDays[4] + 31 /\ MonthDays[6] = MonthDays[5] + 30
      /\ MonthDays[7] = MonthDays[6] + 31 /\ MonthDays[8] = MonthDays[7] + 31
      /\ MonthDays[9] = MonthDays[8] + 30 /\ MonthDays[10] = MonthDays[9] + 31
      /\ MonthDays[11] = MonthDays[10] + 30 /\ MonthDays[12] = MonthDays[11] + 31
  BY <1>4 DEF DaysInMonth
<1> QED BY <1>5, <1>6

\* The years before 1970 hold no leap day.
LEMMA FirstLeaps == LeapsBefore(1970) = 0
<1>1. {z \in 1970 .. 1970 - 1 : LeapYear(z)} = {}
  OBVIOUS
<1> QED BY <1>1, FS_EmptySet DEF LeapsBefore

\* With each year that is a leap year there is one more.
LEMMA NextLeaps ==
  ASSUME NEW y \in Nat, y >= 1970
  PROVE  /\ LeapsBefore(y) \in Nat
         /\ LeapsBefore(y + 1) = LeapsBefore(y) + (IF LeapYear(y) THEN 1 ELSE 0)
<1> DEFINE Leaps(n) == {z \in 1970 .. n : LeapYear(z)}
<1>1. Leaps(y - 1) \subseteq 1970 .. y - 1
  OBVIOUS
<1>2. IsFiniteSet(Leaps(y - 1)) /\ y \notin Leaps(y - 1)
  <2>1. IsFiniteSet(1970 .. y - 1) /\ y \notin 1970 .. y - 1
    BY FS_Interval, 1970 \in Int, y - 1 \in Int
  <2> HIDE DEF Leaps
  <2> QED BY <1>1, <2>1, FS_Subset
<1>3. LeapsBefore(y) = Cardinality(Leaps(y - 1)) /\ LeapsBefore(y + 1) = Cardinality(Leaps(y))
  BY DEF LeapsBefore
<1>4. Leaps(y) = IF LeapYear(y) THEN Leaps(y - 1) \cup {y} ELSE Leaps(y - 1)
  <2>1. \A z : z \in 1970 .. y <=> z \in 1970 .. y - 1 \/ z = y
    OBVIOUS
  <2> QED BY <2>1
<1> HIDE DEF Leaps
<1>5. Cardinality(Leaps(y - 1)) \in Nat
  BY <1>2, FS_CardinalityType
<1>6. CASE LeapYear(y)
  BY <1>2, <1>3, <1>4, <1>5, <1>6, FS_AddElement
<1>7. CASE ~LeapYear(y)
  BY <1>3, <1>4, <1>5, <1>7
<1> QED BY <1>6, <1>7
-----------------------------------------------------------------------------
(***************************************************************************)
(* The day RTC_Time computes, and what becomes of it overnight.            *)
(***************************************************************************)
DayOf(y, m, d) ==
  (y - 1970) * 365 + LeapsBefore(y) + (IF LeapYear(y) /\ m > 2 THEN 1 ELSE 0)
  + MonthDays[m] + d

\* The years the clock passes through.
Years == {y \in Nat : y >= 1970}

\* The month in which it is wrong.
March(y, m) == LeapYear(y) /\ m = 2

\* By how much it is too small.
Behind(y, m) == IF March(y, m) THEN 1 ELSE 0

\* It is a number, and grows with the days of the month.
LEMMA SameMonth ==
  ASSUME NEW y \in Years, NEW m \in 0 .. 11, NEW d \in Int
  PROVE  DayOf(y, m, d) \in Int /\ DayOf(y, m, d + 1) = DayOf(y, m, d) + 1
<1> y \in Nat /\ y >= 1970
  BY DEF Years
<1>1. LeapsBefore(y) \in Int
  BY NextLeaps
<1>2. MonthDays[m] \in Int
  <2>1. m \in {0, 1, 2, 3, 4, 5, 6, 7, 8, 9, 10, 11}
    OBVIOUS
  <2> QED BY <2>1, MonthTable
<1> QED BY <1>1, <1>2 DEF DayOf

\* No day before 1970 is ever counted.
LEMMA DaysCounted ==
  ASSUME NEW y \in Years, NEW m \in 0 .. 11, NEW d \in Nat
  PROVE  DayOf(y, m, d) \in Nat
<1>1. y \in Nat /\ y >= 1970
  BY DEF Years
<1>2. LeapsBefore(y) \in Nat
  BY <1>1, NextLeaps
<1>3. MonthDays[m] \in Nat
  <2>1. m \in {0, 1, 2, 3, 4, 5, 6, 7, 8, 9, 10, 11}
    OBVIOUS
  <2> QED BY <2>1, MonthTable
<1> QED BY <1>1, <1>2, <1>3 DEF DayOf

\* From the last day of a month to the first of the next, the error made up for.
LEMMA MonthEnds ==
  ASSUME NEW y \in Nat, y >= 1970, NEW m \in 0 .. 10
  PROVE  DayOf(y, m + 1, 0) + Behind(y, m + 1)
           = DayOf(y, m, LengthOfMonth(m, y) - 1) + Behind(y, m) + 1
<1>1. LeapsBefore(y) \in Int
  BY NextLeaps
<1>2. m \in {0, 1, 2, 3, 4, 5, 6, 7, 8, 9, 10}
  OBVIOUS
<1>3. m # 1 => LengthOfMonth(m, y) = MonthDays[m + 1] - MonthDays[m]
  BY <1>2, MonthTable DEF LengthOfMonth, DaysInMonth
<1>4. m = 1 => LengthOfMonth(m, y) = (IF LeapYear(y) THEN 29 ELSE 28)
  BY DEF LengthOfMonth, DaysInMonth
<1>5. MonthDays[m] \in Int /\ MonthDays[m + 1] \in Int
  BY <1>2, MonthTable
<1>6. CASE m = 1
  BY <1>1, <1>4, <1>6, MonthTable DEF DayOf, Behind, March
<1>7. CASE m = 2
  BY <1>1, <1>3, <1>5, <1>7 DEF DayOf, Behind, March
<1>8. CASE m \notin {1, 2}
  BY <1>1, <1>3, <1>5, <1>8 DEF DayOf, Behind, March
<1> QED BY <1>6, <1>7, <1>8

\* From the last day of a year to the first of the next.
LEMMA YearEnds ==
  ASSUME NEW y \in Nat, y >= 1970
  PROVE  DayOf(y + 1, 0, 0) = DayOf(y, 11, 30) + 1
<1>1. /\ LeapsBefore(y) \in Int
      /\ LeapsBefore(y + 1) = LeapsBefore(y) + (IF LeapYear(y) THEN 1 ELSE 0)
  BY NextLeaps
<1> QED BY <1>1, MonthTable DEF DayOf

\* A day more is Day seconds more.
LEMMA DayMore ==
  ASSUME NEW a \in Int
  PROVE  /\ a * Day \in Int
         /\ (a + 1) * Day = a * Day + Day /\ (a - 1) * Day = a * Day - Day
BY ClockAssumption

(***************************************************************************)
(* The inductive invariant.                                                *)
(***************************************************************************)
Clocks == [sec : 0 .. Day - 1, days : Nat, month : 0 .. 11, year : Nat]

ClockFits ==
  /\ clock \in Clocks
  /\ clock.year >= 1970
  /\ elapsed \in Int

DayOfClock == DayOf(clock.year, clock.month, clock.days)

\* The seconds since 1970 are those of the day, once its number is set right.
Counted ==
  elapsed = (DayOfClock + Behind(clock.year, clock.month)) * Day + clock.sec

\* Records of registers.
LEMMA Registers ==
  ASSUME NEW s \in 0 .. Day - 1, NEW d \in Nat, NEW m \in 0 .. 11, NEW y \in Nat
  PROVE  [sec |-> s, days |-> d, month |-> m, year |-> y] \in Clocks
BY DEF Clocks

\* What RTC_Time computes, but for the cut to 32 bits.
LEMMA SecondsOf == ClockFits => Seconds(clock) = DayOfClock * Day + clock.sec
BY DEF Seconds, DayOfClock, DayOf

\* One second later.
LEMMA Passes ==
  ASSUME ClockFits, Counted, Tick
  PROVE  ClockFits' /\ Counted'
<1> DEFINE y == clock.year  m == clock.month  d == clock.days
           b == DayOf(y, m, d) + Behind(y, m)
<1>1. /\ elapsed' = elapsed + 1 /\ Day \in Nat /\ Day >= 1
      /\ y \in Nat /\ y >= 1970 /\ m \in 0 .. 11 /\ d \in Nat /\ clock.sec \in 0 .. Day - 1
      /\ elapsed = b * Day + clock.sec
  BY ClockAssumption DEF ClockFits, Clocks, Counted, DayOfClock, Tick
<1>2. /\ DayOf(y, m, d) \in Int /\ DayOf(y, m, d + 1) = DayOf(y, m, d) + 1
      /\ Behind(y, m) \in {0, 1} /\ b \in Int
  <2>0. y \in Years /\ m \in 0 .. 11 /\ d \in Int
    BY <1>1 DEF Years
  <2>1. DayOf(y, m, d) \in Int /\ DayOf(y, m, d + 1) = DayOf(y, m, d) + 1
    <3> HIDE DEF y, m, d
    <3> QED BY <2>0, SameMonth
  <2>2. Behind(y, m) \in {0, 1}
    BY DEF Behind
  <2> QED BY <2>1, <2>2
<1>3. b * Day \in Int /\ (b + 1) * Day = b * Day + Day
  BY <1>2, DayMore
<1>4. CASE Second
  <2>1. /\ clock' = [clock EXCEPT !.sec = @ + 1] /\ clock.sec < Day - 1
    BY <1>4 DEF Second
  <2>2. /\ clock'.year = y /\ clock'.month = m /\ clock'.days = d
        /\ clock'.sec = clock.sec + 1 /\ ClockFits'
    BY <1>1, <2>1 DEF ClockFits, Clocks
  <2>3. Counted'
    BY <1>1, <1>3, <2>2 DEF Counted, DayOfClock
  <2> QED BY <2>2, <2>3
<1>5. CASE Midnight
  <2>1. /\ clock' = [clock EXCEPT !.sec = 0, !.days = @ + 1] /\ clock.sec = Day - 1
    BY <1>5 DEF Midnight
  <2>2. /\ clock'.year = y /\ clock'.month = m /\ clock'.days = d + 1
        /\ clock'.sec = 0 /\ ClockFits'
    <3>1. clock \in Clocks
      BY DEF ClockFits, Clocks
    <3>2. clock'.year = y /\ clock'.month = m /\ clock'.days = d + 1
      BY <2>1, <3>1 DEF Clocks
    <3>3. clock'.sec = 0
      BY <2>1, <3>1 DEF Clocks
    <3>4. clock' = [sec |-> clock'.sec, days |-> clock'.days,
                   month |-> clock'.month, year |-> clock'.year]
      BY <2>1, <3>1 DEF Clocks
    <3>5. clock' \in Clocks
      BY <1>1, <2>1, <3>2, <3>3, <3>4, Registers
    <3> QED BY <1>1, <3>2, <3>3, <3>5 DEF ClockFits
  <2>3. DayOf(y, m, d + 1) + Behind(y, m) = b + 1
    BY <1>2
  <2>4. Counted'
    BY <1>1, <1>3, <2>1, <2>2, <2>3 DEF Counted, DayOfClock
  <2> QED BY <2>2, <2>4
<1>6. CASE NextMonth
  <2>1. /\ clock' = [clock EXCEPT !.sec = 0, !.days = 0, !.month = @ + 1]
        /\ clock.sec = Day - 1 /\ m < 11 /\ d = LengthOfMonth(m, y) - 1
    BY <1>6 DEF NextMonth
  <2>2. /\ clock'.year = y /\ clock'.month = m + 1 /\ clock'.days = 0
        /\ clock'.sec = 0 /\ ClockFits'
    <3>1. clock \in Clocks
      BY DEF ClockFits, Clocks
    <3>2. clock'.year = y /\ clock'.month = m + 1 /\ clock'.days = 0
      BY <2>1, <3>1 DEF Clocks
    <3>3. clock'.sec = 0
      BY <2>1, <3>1 DEF Clocks
    <3>4. clock' = [sec |-> clock'.sec, days |-> clock'.days,
                   month |-> clock'.month, year |-> clock'.year]
      BY <2>1, <3>1 DEF Clocks
    <3>5. clock' \in Clocks
      BY <1>1, <2>1, <3>2, <3>3, <3>4, Registers
    <3> QED BY <1>1, <3>2, <3>3, <3>5 DEF ClockFits
  <2>3. DayOf(y, m + 1, 0) + Behind(y, m + 1) = b + 1
    BY <1>1, <2>1, MonthEnds
  <2>4. Counted'
    BY <1>1, <1>3, <2>1, <2>2, <2>3 DEF Counted, DayOfClock
  <2> QED BY <2>2, <2>4
<1>7. CASE NewYear
  <2>1. /\ clock' = [sec |-> 0, days |-> 0, month |-> 0, year |-> y + 1]
        /\ clock.sec = Day - 1 /\ m = 11 /\ d = 30
    BY <1>7 DEF NewYear
  <2>2. /\ clock'.year = y + 1 /\ clock'.month = 0 /\ clock'.days = 0
        /\ clock'.sec = 0 /\ ClockFits'
    BY <1>1, <2>1 DEF ClockFits, Clocks
  <2>3. Behind(y + 1, 0) = 0 /\ Behind(y, 11) = 0
    BY DEF Behind, March
  <2>4. DayOf(y + 1, 0, 0) = DayOf(y, 11, 30) + 1
    BY <1>1, YearEnds
  <2>5. DayOf(y + 1, 0, 0) + Behind(y + 1, 0) = b + 1
    BY <1>2, <2>1, <2>3, <2>4
  <2>6. Counted'
    BY <1>1, <1>3, <2>1, <2>2, <2>5 DEF Counted, DayOfClock
  <2> QED BY <2>2, <2>6
<1> QED BY <1>4, <1>5, <1>6, <1>7 DEF Tick

\* The invariant holds.
LEMMA InvariantHolds == Spec => [](ClockFits /\ Counted)
<1>1. Init => ClockFits /\ Counted
  <2> SUFFICES ASSUME Init PROVE ClockFits /\ Counted
    OBVIOUS
  <2>1. clock = [sec |-> 0, days |-> 0, month |-> 0, year |-> 1970] /\ elapsed = 0
    BY DEF Init
  <2>2. ClockFits
    BY <2>1, ClockAssumption DEF ClockFits, Clocks
  <2>3. DayOf(1970, 0, 0) = 0 /\ Behind(1970, 0) = 0
    BY MonthTable, FirstLeaps DEF DayOf, Behind, March
  <2>4. Counted
    BY <2>1, <2>3, ClockAssumption DEF Counted, DayOfClock
  <2> QED BY <2>2, <2>4
<1>2. ClockFits /\ Counted /\ [Tick]_vars => ClockFits' /\ Counted'
  <2> SUFFICES ASSUME ClockFits, Counted, [Tick]_vars PROVE ClockFits' /\ Counted'
    OBVIOUS
  <2>1. CASE UNCHANGED vars
    BY <2>1 DEF vars, ClockFits, Counted, DayOfClock
  <2> QED BY <2>1, Passes
<1> QED BY <1>1, <1>2, PTL DEF Spec

\* The seconds that have passed, or a day less.
Right == IF LeapMarch THEN elapsed - Day ELSE elapsed

\* What the invariant says of the seconds RTC_Time counts.
LEMMA SecondsRight ==
  ASSUME ClockFits, Counted
  PROVE  Seconds(clock) = Right /\ Right \in Nat
<1>1. /\ clock.year \in Nat /\ clock.year >= 1970 /\ clock.month \in 0 .. 11
      /\ clock.days \in Nat /\ clock.sec \in Nat /\ Day \in Nat
  BY ClockAssumption DEF ClockFits, Clocks
<1>2. DayOfClock \in Nat
  <2> DEFINE y == clock.year  m == clock.month  d == clock.days
  <2>1. y \in Years /\ m \in 0 .. 11 /\ d \in Nat
    BY <1>1 DEF Years
  <2>2. DayOf(y, m, d) \in Nat
    <3> HIDE DEF y, m, d
    <3> QED BY <2>1, DaysCounted
  <2> QED BY <2>2 DEF DayOfClock
<1>3. DayOfClock * Day \in Nat /\ (DayOfClock + 1) * Day = DayOfClock * Day + Day
  BY <1>1, <1>2, DayMore
<1>4. Seconds(clock) = DayOfClock * Day + clock.sec
  BY SecondsOf
<1>5. CASE LeapMarch
  BY <1>1, <1>2, <1>3, <1>4, <1>5 DEF Counted, Behind, March, Right, LeapMarch
<1>6. CASE ~LeapMarch
  BY <1>1, <1>2, <1>3, <1>4, <1>6 DEF Counted, Behind, March, Right, LeapMarch
<1> QED BY <1>5, <1>6

\* So RTC_Time is right as far as 32 bits go.
LEMMA Shown == ClockFits /\ Counted => RightExceptLeapMarch
BY SecondsRight DEF RightExceptLeapMarch, Right, Time

\* Numbers below the limit of time_t survive the cast, the limit itself becomes the
\* most negative one.
LEMMA SmallTimes ==
  /\ Limit \in Nat /\ Limit > 0
  /\ \A n \in 0 .. Limit - 1 : Signed(n % TimeRange) = n
  /\ Signed(Limit % TimeRange) = Limit - TimeRange
<1>1. TimeRange \in Nat /\ TimeRange > 1
  BY ClockAssumption
<1>2. Limit \in Nat /\ Limit > 0 /\ Limit < TimeRange
  BY <1>1 DEF Limit
<1>3. \A n \in 0 .. Limit : n % TimeRange = n
  BY <1>1, <1>2
<1> QED BY <1>1, <1>2, <1>3 DEF Signed

\* RightExceptLeapMarch: RTC_Time is the number of seconds since 1970, or a day
\* less in March of a leap year, cut to a signed number of 32 bits.
THEOREM ClockCorrect == Spec => []RightExceptLeapMarch
BY InvariantHolds, Shown, PTL

\* StepsOfOne: up to the limit of time_t get_time advances by one second at a time,
\* goes back a day at the end of February of a leap year and skips a day at the end
\* of March; at the limit it falls to the most negative number.
THEOREM StepsCorrect == Spec => StepsOfOne
<1> DEFINE Step == LET step == Time(clock') - Time(clock)
                   IN  /\ elapsed' < Limit =>
                            \/ LeapMarch = LeapMarch' /\ step = 1
                            \/ ~LeapMarch /\ LeapMarch' /\ step + Day = 1
                            \/ LeapMarch /\ ~LeapMarch' /\ step = Day + 1
                       /\ elapsed' = Limit /\ ~LeapMarch /\ ~LeapMarch' => step + TimeRange = 1
<1>1. ASSUME ClockFits, Counted, [Tick]_vars PROVE [Step]_vars
  <2> SUFFICES ASSUME Tick PROVE Step
    BY <1>1
  <2>1. ClockFits' /\ Counted'
    BY <1>1, Passes
  <2>2. Time(clock) = Signed(Right % TimeRange) /\ Right \in Nat
    BY <1>1, SecondsRight DEF Time
  <2>3. (Time(clock) = Signed(Right % TimeRange))' /\ Right' \in Nat
    <3>1. (Seconds(clock) = Right /\ Right \in Nat)'
      BY <2>1, SecondsRight, PTL
    <3> QED BY <3>1 DEF Time
  <2>4. /\ elapsed \in Int /\ elapsed' = elapsed + 1
        /\ Day \in Nat /\ TimeRange \in Nat /\ Limit \in Nat
    BY <1>1, ClockAssumption, SmallTimes DEF ClockFits, Clocks, Tick
  <2>5. LeapMarch \in BOOLEAN /\ LeapMarch' \in BOOLEAN
    BY DEF LeapMarch
  <2>6. /\ LeapMarch => Right = elapsed - Day
        /\ ~LeapMarch => Right = elapsed
        /\ LeapMarch' => Right' = elapsed' - Day
        /\ ~LeapMarch' => Right' = elapsed'
    BY DEF Right
  <2>7. ASSUME elapsed' < Limit
        PROVE  Time(clock) = Right /\ Time(clock)' = Right'
    <3>1. Right \in 0 .. Limit - 1 /\ Right' \in 0 .. Limit - 1
      BY <2>2, <2>3, <2>4, <2>5, <2>6, <2>7
    <3> QED BY <2>2, <2>3, <3>1, SmallTimes DEF Signed, Limit
  <2>8. ASSUME elapsed' = Limit, ~LeapMarch, ~LeapMarch'
        PROVE  Time(clock) = Limit - 1 /\ Time(clock)' = Limit - TimeRange
    <3>1. Right = Limit - 1 /\ Right \in 0 .. Limit - 1 /\ Right' = Limit
      BY <2>2, <2>4, <2>6, <2>8
    <3> QED BY <2>2, <2>3, <3>1, SmallTimes DEF Signed, Limit
  <2>9. Time(clock') = Time(clock)'
    OBVIOUS
  <2> QED BY <2>4, <2>5, <2>6, <2>7, <2>8, <2>9
<1> QED BY <1>1, InvariantHolds, PTL DEF Spec, StepsOfOne
=============================================================================

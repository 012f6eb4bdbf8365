------------------------------ MODULE RtcClock -------------------------------
(***************************************************************************)
(* get_time, by which the main loop decides when the next reading is due:  *)
(* RTC_Time turns the calendar registers of the real-time clock into       *)
(* seconds since 1970: as a uint32_t, which becomes a time_t, a signed     *)
(* 32-bit number in this build (main.c compares it as one).  The registers *)
(* count days and months from zero.                                        *)
(*                                                                         *)
(* How the hardware advances them is taken from the calendar, and one read *)
(* is taken to see both registers at the same instant.                     *)
(***************************************************************************)
EXTENDS Integers, FiniteSets

CONSTANTS
  Day,       \* RTC_SECONDS_IN_A_DAY (86400)
  TimeRange, \* values of a uint32_t and of a time_t (2^32)
  LastYear   \* bound: the clock stops at the end of this year

ASSUME ClockAssumption ==
  /\ Day \in Nat \ {0}
  /\ TimeRange \in Nat /\ TimeRange > 1
  /\ LastYear \in Nat /\ LastYear >= 1970

VARIABLES
  clock,    \* the registers TIM0 and TIM1
  elapsed   \* history: seconds since 1 January 1970

vars == <<clock, elapsed>>

\* Months are numbered from 1, the entry for 0 is never added.
DaysInMonth == <<31, 28, 31, 30, 31, 30, 31, 31, 30, 31, 30, 31>>

LeapYear(y) == y % 400 = 0 \/ (y % 100 # 0 /\ y % 4 = 0)

\* Days of the first m months of a common year.
MonthDays[m \in 0 .. 12] == IF m = 0 THEN 0 ELSE MonthDays[m - 1] + DaysInMonth[m]

\* Leap years before y, counted backwards from the previous year to 1970.
LeapsBefore(y) == Cardinality({z \in 1970 .. y - 1 : LeapYear(z)})

\* Mutant: the leap day is forgotten from March to December.
SecondsMutant(c) ==
  LET days == (c.year - 1970) * 365 + LeapsBefore(c.year) + MonthDays[c.month] + c.days
  IN  days * Day + c.sec

\* What RTC_Time counts up in elapsedseconds, were that not cut to 32 bits.
Seconds(c) ==
  LET leapDay == IF LeapYear(c.year) /\ c.month > 2 THEN 1 ELSE 0
      days    == (c.year - 1970) * 365 + LeapsBefore(c.year) + leapDay
                 + MonthDays[c.month] + c.days
  IN  days * Day + c.sec

\* The time_t runs up to here, which is 19 January 2038, and on from its negation.
Limit == TimeRange \div 2
Signed(n) == IF n < Limit THEN n ELSE n - TimeRange

\* Mutant: the time is returned as the unsigned number it was computed as.
TimeMutant(c) == Seconds(c) % TimeRange

\* RTC_Time.
Time(c) == Signed(Seconds(c) % TimeRange)

\* RTC_0 starts the clock at the epoch.
Init ==
  /\ clock = [sec |-> 0, days |-> 0, month |-> 0, year |-> 1970]
  /\ elapsed = 0
-----------------------------------------------------------------------------
\* The hardware calendar.
LengthOfMonth(m, y) == IF m = 1 /\ LeapYear(y) THEN 29 ELSE DaysInMonth[m + 1]

Second ==
  /\ clock.sec < Day - 1
  /\ clock' = [clock EXCEPT !.sec = @ + 1]

Midnight ==
  /\ clock.sec = Day - 1
  /\ clock.days < LengthOfMonth(clock.month, clock.year) - 1
  /\ clock' = [clock EXCEPT !.sec = 0, !.days = @ + 1]

NextMonth ==
  /\ clock.sec = Day - 1
  /\ clock.days = LengthOfMonth(clock.month, clock.year) - 1
  /\ clock.month < 11
  /\ clock' = [clock EXCEPT !.sec = 0, !.days = 0, !.month = @ + 1]

NewYear ==
  /\ clock.sec = Day - 1 /\ clock.days = 30 /\ clock.month = 11
  /\ clock.year < LastYear
  /\ clock' = [sec |-> 0, days |-> 0, month |-> 0, year |-> clock.year + 1]

Tick == elapsed' = elapsed + 1 /\ (Second \/ Midnight \/ NextMonth \/ NewYear)

Spec == Init /\ [][Tick]_vars
-----------------------------------------------------------------------------
LeapMarch == LeapYear(clock.year) /\ clock.month = 2

\* RTC_Time is right for every second of every year as far as 32 bits go, except
\* that it is one day behind in March of a leap year.
RightExceptLeapMarch ==
  Time(clock) = Signed((IF LeapMarch THEN elapsed - Day ELSE elapsed) % TimeRange)

\* From one second to the next the main loop sees the time advance by one, except
\* where a leap year's February and March end: there it goes back to the day
\* before, for a day, and later skips a day.  So it is up to the limit of time_t,
\* where it falls by all but one of the 2^32 values.
StepsOfOne ==
  [][LET step == Time(clock') - Time(clock)
     IN  /\ elapsed' < Limit =>
              \/ LeapMarch = LeapMarch' /\ step = 1
              \/ ~LeapMarch /\ LeapMarch' /\ step + Day = 1
              \/ LeapMarch /\ ~LeapMarch' /\ step = Day + 1
         /\ elapsed' = Limit /\ ~LeapMarch /\ ~LeapMarch' => step + TimeRange = 1]_vars

\* "This function is to get the time in seconds calculated from Epoch time
\* (01/01/1970)" (RTC_Time).
SecondsSinceEpoch == Time(clock) = elapsed
=============================================================================

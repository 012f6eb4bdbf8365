----------------------------- MODULE SystemTime -----------------------------
(***************************************************************************)
(* The time as the program sees it: what RtcClock shows get_time to be.    *)
(* It advances with the seconds, but at times runs one day late.           *)
(* That is so while the seconds fit into a time_t, for 68 years from the   *)
(* start of the clock; behaviours end before.                              *)
(***************************************************************************)
EXTENDS Integers

CONSTANT Day   \* RTC_SECONDS_IN_A_DAY (86400)

ASSUME DayAssumption == Day \in Nat \ {0}

VARIABLES
  elapsed,   \* seconds since the clock was started
  late       \* does get_time run a day late?

\* get_time.
Now == IF late THEN elapsed - Day ELSE elapsed

TimeInit == elapsed = 0 /\ late = FALSE

Second == elapsed' = elapsed + 1 /\ late' \in BOOLEAN
=============================================================================

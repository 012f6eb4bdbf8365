----------------------------- MODULE MCRtcClock ------------------------------
(***************************************************************************)
(* RtcClock with days of two seconds and a time_t that is shorter in       *)
(* proportion (2^32 seconds are 49710 days and a bit): so the run reaches  *)
(* past the years 2000, which is a leap year, and 2100, which is not, past *)
(* the limit of time_t in January 2038 and that of uint32_t in 2106.       *)
(***************************************************************************)
EXTENDS RtcClock
=============================================================================

------------------------------ MODULE MainLoop ------------------------------
(***************************************************************************)
(* main.c: after the sensor's initialization an endless loop of one round  *)
(* of usb_host_communication, one reading of the sensor and one call of    *)
(* provide_values, the last two at most once a second and only while the   *)
(* host state copied at the beginning of the round is Configured.          *)
(*                                                                         *)
(* provide_values is SsmExchange, the enumeration UsbHost: here the first  *)
(* may take any time, also for ever, and so may the second.  The code      *)
(* between waits takes far less than a second, so that at most one tick    *)
(* of the clock falls into a round apart from its waits.                   *)
(***************************************************************************)
EXTENDS Dps310

CONSTANT MaxTime   \* bound: seconds of a behaviour

ASSUME BoundAssumption == MaxTime \in Nat

CycleTime == 1     \* cycle_time_s

VARIABLES
  configured,    \* USB_HostState = HOST_STATE_Configured
  seen,          \* the same of USBHostState
  request,       \* request_provide_values
  lastPublish,   \* last_publish
  lastCommand,   \* last_command_sent
  turn,          \* send_temperature
  last,          \* last_temp_reading and last_pres_reading
  ticked,        \* has a tick fallen into this round?
  fell,          \* history: get_time has gone back a day
  polled,        \* history: when USBHostState was copied
  round,         \* history: does the round read the sensor; if not, has a tick
                 \* fallen between its two tests?
  fresh,         \* history: kinds read since they were last published
  acted,         \* history: when the request was last reset
  linked         \* history: configured and seen to be since then

loop    == <<configured, seen, request, lastPublish, lastCommand, turn, last>>
history == <<fell, polled, round, fresh, acted, linked>>
time    == <<elapsed, late>>
vars    == <<time, sensor, loop, ticked, history>>

Other(k) == IF k = "temp" THEN "pres" ELSE "temp"

Init ==
  /\ TimeInit /\ SensorInit
  /\ configured = FALSE /\ seen = FALSE
  /\ request = TRUE /\ turn = "temp"
  /\ lastPublish = 0 /\ lastCommand = 0
  /\ last = [k \in Kinds |-> "zero"]
  /\ ticked = FALSE
  /\ fell = FALSE /\ polled = 0 /\ round = "quick"
  /\ fresh = {} /\ acted = 0 /\ linked = FALSE
-----------------------------------------------------------------------------
\* The sensor's part of the program; fresh follows what it reads.
Sensor ==
  /\ SensorStep
  /\ fresh' = IF at \in Kinds /\ at' = at THEN fresh \cup {at} ELSE fresh
  /\ UNCHANGED <<time, loop, ticked, fell, polled, round, acted, linked>>

\* The rest of the initialization.
EnterLoop ==
  /\ at = "ready"
  /\ lastPublish' = Now /\ lastCommand' = Now
  /\ acted' = elapsed
  /\ Leave("poll")
  /\ UNCHANGED <<time, chip, state, driver, reading, configured, seen, request, turn,
                 last, ticked, fell, polled, round, fresh, linked>>

\* usb_host_communication copies the host state; if it is Configured there is
\* nothing else to do, if not the enumeration takes its time.
Poll ==
  /\ at = "poll"
  /\ seen' = configured
  /\ linked' = (linked /\ configured)
  /\ polled' = (IF configured THEN elapsed ELSE 0)
  /\ ticked' = FALSE
  /\ Leave(IF configured THEN "sense" ELSE "enumerate")
  /\ UNCHANGED <<time, chip, state, driver, reading, configured, request, lastPublish,
                 lastCommand, turn, last, fell, round, fresh, acted>>

Enumerate ==
  /\ at = "enumerate"
  /\ configured' \in BOOLEAN
  /\ Leave("sense")
  /\ UNCHANGED <<time, chip, state, driver, reading, seen, request, lastPublish,
                 lastCommand, turn, last, ticked, history>>

\* Mutant: the sensor is read a second later than values are published.
SenseMutant ==
  /\ at = "sense"
  /\ round' = IF seen /\ lastCommand + 1 < Now THEN "read" ELSE "quick"
  /\ IF seen /\ lastCommand + 1 < Now /\ Measuring THEN Begin("fifo", 2) ELSE Leave("due")
  /\ UNCHANGED <<time, chip, state, driver, reading, loop, ticked, fell, polled, fresh,
                 acted, linked>>

\* Is it time to read the sensor?
Sense ==
  /\ at = "sense"
  /\ round' = IF seen /\ lastCommand < Now THEN "read" ELSE "quick"
  /\ IF seen /\ lastCommand < Now /\ Measuring THEN Begin("fifo", 2) ELSE Leave("due")
  /\ UNCHANGED <<time, chip, state, driver, reading, loop, ticked, fell, polled, fresh,
                 acted, linked>>

\* Mutant: exactly one cycle after the last time.
DueMutant ==
  /\ at = "due"
  /\ request' = (request \/ Now = lastPublish + CycleTime)
  /\ Leave("publish")
  /\ UNCHANGED <<time, chip, state, driver, reading, configured, seen, lastPublish,
                 lastCommand, turn, last, ticked, history>>

\* Is it time to publish?
Due ==
  /\ at = "due"
  /\ request' = (request \/ Now >= lastPublish + CycleTime)
  /\ Leave("publish")
  /\ UNCHANGED <<time, chip, state, driver, reading, configured, seen, lastPublish,
                 lastCommand, turn, last, ticked, history>>

ToPublish == at = "publish" /\ request /\ seen /\ lastCommand < Now

\* Lines 205 to 207, which end the round.
Reset ==
  /\ request' = FALSE
  /\ lastPublish' = Now /\ lastCommand' = Now
  /\ acted' = elapsed /\ linked' = configured
  /\ Leave("poll")

NothingToDo ==
  /\ at = "publish" /\ ~ToPublish
  /\ Leave("poll")
  /\ UNCHANGED <<time, chip, state, driver, reading, loop, ticked, history>>

\* The reading equals what is remembered of the last one.
Unchanged ==
  /\ ToPublish /\ last[turn] = reading[turn]
  /\ Reset
  /\ UNCHANGED <<time, chip, state, driver, reading, configured, seen, turn, last, ticked,
                 fell, polled, round, fresh>>

\* provide_values is called ...
Publish ==
  /\ ToPublish /\ last[turn] # reading[turn]
  /\ fresh' = fresh \ {turn}
  /\ Leave("exchange")
  /\ UNCHANGED <<time, chip, state, driver, reading, loop, ticked, fell, polled, round,
                 acted, linked>>

\* ... and returns.  What is remembered is the measure rate.
Published ==
  /\ at = "exchange"
  /\ last' = [last EXCEPT ![turn] = "rate"]
  /\ turn' = Other(turn)
  /\ Reset
  /\ UNCHANGED <<time, chip, state, driver, reading, configured, seen, ticked, fell,
                 polled, round, fresh>>

\* The port interrupt.
Unplug ==
  /\ configured /\ configured' = FALSE
  /\ linked' = FALSE
  /\ UNCHANGED <<time, sensor, seen, request, lastPublish, lastCommand, turn, last, ticked,
                 fell, polled, round, fresh, acted>>

\* A second passes: in a wait, in the enumeration, in provide_values, or between
\* two instructions.  The clock falls back at most once (bound).
Tick ==
  /\ elapsed < MaxTime
  /\ \/ at \in Timed /\ ~WaitOver
     \/ at \in {"enumerate", "exchange"}
     \/ at \notin Timed \cup {"boot", "start", "ready", "hung"} /\ ~ticked
  /\ Second /\ (fell /\ late' => late)
  /\ fell' = (fell \/ late')
  /\ ticked' = TRUE
  /\ Measure
  /\ round' = IF round = "quick" /\ at \in {"due", "publish"} THEN "ticked" ELSE round
  /\ UNCHANGED <<at, wait, state, driver, reading, loop, polled, fresh, acted, linked>>

Next ==
  \/ Sensor \/ EnterLoop \/ Poll \/ Enumerate \/ Sense \/ Due
  \/ NothingToDo \/ Unchanged \/ Publish \/ Published
  \/ Unplug \/ Tick

Spec == Init /\ [][Next]_vars
-----------------------------------------------------------------------------
TypeOK ==
  /\ elapsed \in 0 .. MaxTime /\ late \in BOOLEAN
  /\ at \in Timed \cup {"boot", "start", "ready", "poll", "enumerate", "sense", "due",
                         "publish", "exchange", "hung"}
  /\ waits \in 0 .. 3 /\ before \in -Day .. MaxTime
  /\ regs \in [6 .. 9 -> 0 .. 255]
  /\ ready \subseteq Kinds /\ state \subseteq Kinds
  /\ driver \in [init_flag : BOOLEAN, mode_flag : {IDLE, CMD_TEMP, CONT_BOTH},
                 last_temp_scal : {"zero", "measured"}]
  /\ reading \in [Kinds -> Values \cup {"zero"}] /\ last \in [Kinds -> {"zero", "rate"}]
  /\ turn \in Kinds /\ request \in BOOLEAN /\ ticked \in BOOLEAN
  /\ configured \in BOOLEAN /\ seen \in BOOLEAN
  /\ lastPublish \in -Day .. MaxTime /\ lastCommand \in -Day .. MaxTime
  /\ fresh \subseteq Kinds /\ fell \in BOOLEAN /\ linked \in BOOLEAN
  /\ polled \in 0 .. MaxTime /\ acted \in 0 .. MaxTime
  /\ round \in {"quick", "read", "ticked"}

\* What is published was read since it was published last; an older reading is
\* published only if a second began between the two tests of the round.
FreshUnlessTick ==
  [][at' = "exchange" /\ at # "exchange" =>
       turn \in fresh \/ round = "ticked"]_vars

\* While the sensor is read the USB host is not served and the host state grows
\* old: by at most 11 seconds, 12 with the one of the round, and a day more when
\* get_time goes back meanwhile.
Blind ==
  seen /\ at \notin {"poll", "exchange", "hung"} =>
    elapsed - polled <= 12 + (IF fell THEN Day ELSE 0)

\* As long as the SSM stays connected something is published, or found to be
\* unchanged, every 13 seconds; when get_time goes back it takes a day longer.
KeepsPublishing ==
  linked /\ at \notin {"exchange", "hung"} =>
    elapsed - acted <= 13 + (IF fell THEN Day ELSE 0)

\* The sensor works as the driver believes: its settings survive the writes to
\* the registers they share with others.
MeasuresAsConfigured ==
  driver.mode_flag = CONT_BOTH =>
    /\ Field(regs, MSR_CTRL) = CONT_BOTH
    /\ Field(regs, TEMP_SENSOR) = Recommended
    /\ Field(regs, TEMP_MR) = TempMr /\ Field(regs, TEMP_OSR) = TempOsr
    /\ Field(regs, PRS_MR) = PrsMr /\ Field(regs, PRS_OSR) = PrsOsr
    /\ (Field(regs, TEMP_SHIFT) = 1) = (TempOsr > 3)
    /\ (Field(regs, PRS_SHIFT) = 1) = (PrsOsr > 3)

\* Pressure is never computed with the initial temperature of zero.
Compensated == driver.mode_flag = CONT_BOTH => driver.last_temp_scal = "measured"
=============================================================================

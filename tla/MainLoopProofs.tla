--------------------------- MODULE MainLoopProofs ---------------------------
(***************************************************************************)
(* Machine-checked theorems about MainLoop, for every length of the day,   *)
(* every bound on the time, every setting of the sensor and every set of   *)
(* values.                                                                 *)
(***************************************************************************)
EXTENDS MainLoop, Dps310Proofs

\* What the assumptions on the constants give, and the range of get_time.
LEMMA TimeFacts ==
  /\ Day \in Nat /\ Day >= 1 /\ MaxTime \in Nat
  /\ elapsed \in 0 .. MaxTime /\ late \in BOOLEAN => Now \in -Day .. MaxTime
  BY DayAssumption, BoundAssumption DEF Now

\* TypeOK is inductive.
LEMMA TypeStep ==
  ASSUME TypeOK, Next
  PROVE  TypeOK'
<1> USE TimeFacts DEF TypeOK, Kinds, Timed, Begin, Leave, IDLE, CMD_TEMP, CONT_BOTH,
           time, sensor, chip, wait, loop, history
<1>1. CASE Boot /\ Sensor
  <2>1. regs' \in Regs
    BY <1>1, BootRegisters DEF Boot, Regs, MSR_CTRL, CMD_TEMP
  <2>2. driver' \in [init_flag : BOOLEAN, mode_flag : {IDLE, CMD_TEMP, CONT_BOTH},
                    last_temp_scal : {"zero", "measured"}]
    BY <1>1 DEF Boot
  <2> QED BY <1>1, <2>1, <2>2 DEF Boot, Sensor, Regs
<1>2. CASE NextWait /\ Sensor
  <2>1. reading' \in [Kinds -> Values \cup {"zero"}]
    BY <1>2 DEF NextWait
  <2>2. ready' \subseteq Kinds /\ state' \subseteq Kinds
    BY <1>2 DEF NextWait
  <2>3. waits' \in 0 .. 3 /\ at' = at /\ before' \in -Day .. MaxTime
    BY <1>2 DEF NextWait
  <2> QED BY <1>2, <2>1, <2>2, <2>3 DEF NextWait, Sensor
<1>3. CASE FirstReady /\ Sensor
  <2>1. regs' \in Regs
    BY <1>3, IdleRegisters DEF FirstReady, Regs
  <2> QED BY <1>3, <2>1 DEF FirstReady, Sensor, Last, Regs
<1>4. CASE FirstTemperature /\ Sensor
  BY <1>4 DEF FirstTemperature, Sensor, Last
<1>5. CASE StartBoth /\ Sensor
  <2>1. regs' \in Regs
    BY <1>5, Configured DEF StartBoth, Regs
  <2>2. driver' \in [init_flag : BOOLEAN, mode_flag : {IDLE, CMD_TEMP, CONT_BOTH},
                    last_temp_scal : {"zero", "measured"}]
    <3>1. \/ driver' = [driver EXCEPT !.init_flag = FALSE]
          \/ driver' = [driver EXCEPT !.mode_flag = CONT_BOTH]
      BY <1>5, Zenon DEF StartBoth
    <3>2. CASE driver' = [driver EXCEPT !.init_flag = FALSE]
      BY <3>2, Zenon
    <3>3. CASE driver' = [driver EXCEPT !.mode_flag = CONT_BOTH]
      BY <3>3
    <3> QED BY <3>1, <3>2, <3>3
  <2> QED BY <1>5, <2>1, <2>2 DEF StartBoth, Sensor, Regs
<1>6. CASE FifoRead /\ Sensor
  BY <1>6 DEF FifoRead, Sensor, Last
<1>7. CASE Flushed /\ Sensor
  BY <1>7 DEF Flushed, Sensor, Last
<1>8. CASE StateRead /\ Sensor
  BY <1>8 DEF StateRead, Sensor, Last
<1>9. CASE TempRead /\ Sensor
  BY <1>9 DEF TempRead, Sensor, Last
<1>10. CASE PressureRead /\ Sensor
  BY <1>10 DEF PressureRead, Sensor, Last
<1>11. CASE NoAnswer /\ Sensor
  BY <1>11 DEF NoAnswer, Sensor, Last
<1>12. CASE EnterLoop
  BY <1>12 DEF EnterLoop
<1>13. CASE Poll
  <2>1. linked' \in BOOLEAN
    BY <1>13, Zenon DEF Poll
  <2>2. seen' \in BOOLEAN /\ polled' \in 0 .. MaxTime
    BY <1>13 DEF Poll
  <2>3. at' \in {"sense", "enumerate"} /\ waits' = 0 /\ before' = 0
    BY <1>13 DEF Poll
  <2>4. configured' \in BOOLEAN /\ request' \in BOOLEAN /\ ticked' \in BOOLEAN
    BY <1>13 DEF Poll
  <2> QED BY <1>13, <2>1, <2>2, <2>3, <2>4 DEF Poll
<1>14. CASE Enumerate
  BY <1>14 DEF Enumerate
<1>15. CASE Sense
  BY <1>15 DEF Sense
<1>16. CASE Due
  BY <1>16 DEF Due
<1>17. CASE NothingToDo
  BY <1>17 DEF NothingToDo
<1>18. CASE Unchanged
  <2>1. linked' \in BOOLEAN
    BY <1>18, Zenon DEF Unchanged, Reset
  <2>2. configured' \in BOOLEAN /\ seen' \in BOOLEAN /\ request' \in BOOLEAN
    BY <1>18 DEF Unchanged, Reset
  <2> QED BY <1>18, <2>1, <2>2 DEF Unchanged, Reset
<1>19. CASE Publish
  BY <1>19 DEF Publish
<1>20. CASE Published
  <2>1. linked' \in BOOLEAN
    BY <1>20, Zenon DEF Published, Reset, Other
  <2>2. configured' \in BOOLEAN /\ seen' \in BOOLEAN /\ request' \in BOOLEAN
    BY <1>20 DEF Published, Reset, Other
  <2> QED BY <1>20, <2>1, <2>2 DEF Published, Reset, Other
<1>21. CASE Unplug
  <2>1. linked' \in BOOLEAN
    BY <1>21, Zenon DEF Unplug
  <2>2. configured' \in BOOLEAN /\ seen' \in BOOLEAN /\ request' \in BOOLEAN
    BY <1>21 DEF Unplug
  <2> QED BY <1>21, <2>1, <2>2 DEF Unplug
<1>22. CASE Tick
  <2>1. regs' \in Regs /\ ready' \subseteq Kinds
    BY <1>22, IdleRegisters DEF Tick, Measure, Regs
  <2>2. elapsed' \in 0 .. MaxTime /\ late' \in BOOLEAN
    BY <1>22 DEF Tick, Second
  <2> QED BY <1>22, <2>1, <2>2 DEF Tick, Regs
<1> QED
  BY <1>1, <1>2, <1>3, <1>4, <1>5, <1>6, <1>7, <1>8, <1>9, <1>10, <1>11, <1>12, <1>13, <1>14,
     <1>15, <1>16, <1>17, <1>18, <1>19, <1>20, <1>21, <1>22 DEF Next, Sensor, SensorStep
-----------------------------------------------------------------------------
\* What the sensor is doing at each stage of dps310_init, and what the driver
\* knows of it.
SensorFits ==
  /\ at = "boot" => driver.mode_flag = IDLE /\ ready = {}
  /\ at = "rdy" =>
       /\ driver.mode_flag = CMD_TEMP
       /\ \/ Field(regs, MSR_CTRL) = CMD_TEMP /\ ready = {} /\ waits = 2 /\ ~WaitOver
          \/ Field(regs, MSR_CTRL) = IDLE /\ ready = {"temp"} /\ (waits = 1 => state = {"temp"})
  /\ at \in {"rdy", "raw", "start"} =>
       driver.init_flag /\ Field(regs, TEMP_SENSOR) = Recommended
  /\ at \in {"raw", "start"} => driver.mode_flag = IDLE
  /\ at = "start" => driver.last_temp_scal = "measured"
  /\ driver.mode_flag = CONT_BOTH =>
       /\ at \notin {"boot", "rdy", "raw", "start"}
       /\ driver.init_flag
  /\ MeasuresAsConfigured /\ Compensated

\* SensorFits is kept: the writes to the registers set what they mean to.
LEMMA SensorStepKeeps ==
  ASSUME TypeOK, SensorFits, Next
  PROVE  SensorFits'
<1> USE DEF TypeOK, SensorFits, MeasuresAsConfigured, Compensated, Kinds, Timed, Begin, Leave,
           IDLE, CMD_TEMP, CONT_BOTH, WaitOver, time, sensor, chip, wait, loop, history
<1>1. CASE Boot /\ Sensor
  <2>1. Field(regs', TEMP_SENSOR) = Recommended /\ Field(regs', MSR_CTRL) = CMD_TEMP
    BY <1>1, BootRegisters DEF Boot, Regs
  <2>2. driver' = [driver EXCEPT !.init_flag = TRUE, !.mode_flag = CMD_TEMP]
    BY <1>1 DEF Boot
  <2>3. at' = "rdy" /\ waits' = 2 /\ ready' = {} /\ ~WaitOver'
    BY <1>1, TimeFacts DEF Boot, Now, Sensor
  <2> QED BY <2>1, <2>2, <2>3
<1>2. CASE NextWait /\ Sensor
  BY <1>2 DEF NextWait, Sensor, Last
<1>3. CASE FirstReady /\ Sensor
  BY <1>3 DEF FirstReady, Sensor, Last
<1>4. CASE FirstTemperature /\ Sensor
  BY <1>4 DEF FirstTemperature, Sensor, Last
<1>5. CASE StartBoth /\ Sensor
  <2>1. CASE driver.mode_flag # IDLE \/ TooBusy
    BY <1>5, <2>1 DEF StartBoth
  <2>2. CASE ~(driver.mode_flag # IDLE \/ TooBusy)
    BY <1>5, <2>2, Configured DEF StartBoth, Regs, Shift
  <2> QED BY <2>1, <2>2
<1>6. CASE FifoRead /\ Sensor
  BY <1>6 DEF FifoRead, Sensor, Last
<1>7. CASE Flushed /\ Sensor
  BY <1>7 DEF Flushed, Sensor, Last
<1>8. CASE StateRead /\ Sensor
  BY <1>8 DEF StateRead, Sensor, Last
<1>9. CASE TempRead /\ Sensor
  BY <1>9 DEF TempRead, Sensor, Last
<1>10. CASE PressureRead /\ Sensor
  BY <1>10 DEF PressureRead, Sensor, Last
<1>11. CASE NoAnswer /\ Sensor
  BY <1>11 DEF NoAnswer, Sensor
<1>12. CASE EnterLoop
  BY <1>12 DEF EnterLoop
<1>13. CASE Poll
  BY <1>13 DEF Poll
<1>14. CASE Enumerate
  BY <1>14 DEF Enumerate
<1>15. CASE Sense
  BY <1>15 DEF Sense
<1>16. CASE Due
  BY <1>16 DEF Due
<1>17. CASE NothingToDo
  BY <1>17 DEF NothingToDo
<1>18. CASE Unchanged
  BY <1>18 DEF Unchanged, Reset
<1>19. CASE Publish
  BY <1>19 DEF Publish
<1>20. CASE Published
  BY <1>20 DEF Published, Reset
<1>21. CASE Unplug
  <2>1. /\ at' = at /\ waits' = waits /\ before' = before /\ regs' = regs /\ ready' = ready
        /\ state' = state /\ driver' = driver /\ elapsed' = elapsed /\ late' = late
    BY <1>21 DEF Unplug
  <2>2. WaitOver' = WaitOver
    BY <2>1 DEF Now
  <2> QED BY <2>1, <2>2
<1>22. CASE Tick
  <2>1. at' = at /\ driver' = driver /\ state' = state /\ waits' = waits
    BY <1>22 DEF Tick
  <2>2. CASE Field(regs, MSR_CTRL) = CMD_TEMP
    <3>1. ready' = ready \cup {"temp"} /\ regs' = With(regs, MSR_CTRL, IDLE)
      BY <1>22, <2>2 DEF Tick, Measure
    <3>2. Field(regs', MSR_CTRL) = IDLE /\ Field(regs', TEMP_SENSOR) = Field(regs, TEMP_SENSOR)
      BY <3>1, IdleRegisters DEF Regs
    <3>3. at = "rdy" => ready' = {"temp"} /\ waits = 2
      <4>1. at = "rdy" => ready = {} /\ waits = 2
        BY <2>2
      <4> QED BY <3>1, <4>1
    <3>4. driver.mode_flag # CONT_BOTH /\ at # "boot"
      BY <1>22, <2>2 DEF Tick
    <3> QED BY <2>1, <3>2, <3>3, <3>4
  <2>3. CASE Field(regs, MSR_CTRL) # CMD_TEMP
    <3>1. regs' = regs /\ (at = "rdy" => ready' = ready)
      BY <1>22, <2>3 DEF Tick, Measure
    <3> QED BY <1>22, <2>1, <2>3, <3>1 DEF Tick
  <2> QED BY <2>2, <2>3
<1> QED
  BY <1>1, <1>2, <1>3, <1>4, <1>5, <1>6, <1>7, <1>8, <1>9, <1>10, <1>11, <1>12, <1>13, <1>14,
     <1>15, <1>16, <1>17, <1>18, <1>19, <1>20, <1>21, <1>22 DEF Next, Sensor, SensorStep
-----------------------------------------------------------------------------
Reads == {"fifo", "flush", "state", "temp", "pres"}

\* How far the reading of the sensor has come, and what is fresh.
ReadingFits ==
  /\ driver.mode_flag # CONT_BOTH =>
       /\ at \notin Reads \cup {"exchange"}
       /\ \A k \in Kinds : reading[k] = "zero" /\ last[k] = "zero"
  /\ at \in Reads => round = "read"
  /\ at = "fifo" => ready = Kinds \/ (waits = 2 /\ ~WaitOver)
  /\ at \in {"flush", "state"} => ready = Kinds
  /\ at = "state" /\ waits = 1 => state = Kinds
  /\ at \in Kinds => state = Kinds
  /\ at = "temp" /\ waits = 1 => "temp" \in fresh
  /\ at = "pres" => "temp" \in fresh
  /\ at = "pres" /\ waits = 1 => "pres" \in fresh
  /\ at \in {"due", "publish"} =>
       /\ round = "read" /\ driver.mode_flag = CONT_BOTH => fresh = Kinds
       /\ round = "quick" => ~(seen /\ lastCommand < Now)

\* ReadingFits is kept: a round reads both values or publishes without reading.
LEMMA ReadingStepKeeps ==
  ASSUME TypeOK, SensorFits, ReadingFits, Next
  PROVE  ReadingFits'
<1> USE DEF TypeOK, ReadingFits, Kinds, Timed, Reads, Begin, Leave,
           IDLE, CMD_TEMP, CONT_BOTH, WaitOver, time, sensor, chip, wait, loop, history
<1>1. CASE Boot /\ Sensor
  BY <1>1 DEF Boot, Sensor, SensorFits
<1>2. CASE NextWait /\ Sensor
  <2>1. /\ at' = at /\ driver' = driver /\ round' = round /\ waits' = waits - 1 /\ waits > 1
        /\ last' = last /\ seen' = seen
    BY <1>2 DEF NextWait, Sensor
  <2>2. at \in Kinds => fresh' = fresh \cup {at}
    BY <2>1, <1>2 DEF Sensor
  <2>3. /\ at = "state" => state' = ready
        /\ at \in {"fifo", "flush", "state"} => ready' = ready
        /\ at \notin {"rdy", "state"} => state' = state
        /\ at \notin Kinds => reading' = reading /\ fresh' = fresh
    BY <1>2 DEF NextWait, Sensor
  <2>4. at = "fifo" => ready = Kinds
    BY <1>2 DEF NextWait
  <2> QED BY <1>2, <2>1, <2>2, <2>3, <2>4 DEF NextWait
<1>3. CASE FirstReady /\ Sensor
  <2>1. at = "rdy" /\ at' \in {"raw", "start"} /\ reading' = reading /\ last' = last
    BY <1>3 DEF FirstReady, Sensor, Last
  <2>2. driver.mode_flag # CONT_BOTH
    BY <2>1 DEF SensorFits
  <2> QED BY <2>1, <2>2
<1>4. CASE FirstTemperature /\ Sensor
  BY <1>4 DEF FirstTemperature, Sensor, Last
<1>5. CASE StartBoth /\ Sensor
  <2>1. at = "start" /\ at' = "ready" /\ reading' = reading /\ last' = last
    BY <1>5 DEF StartBoth, Sensor
  <2>2. driver.mode_flag # CONT_BOTH
    BY <2>1 DEF SensorFits
  <2> QED BY <2>1, <2>2
<1>6. CASE FifoRead /\ Sensor
  BY <1>6 DEF FifoRead, Sensor, Last
<1>7. CASE Flushed /\ Sensor
  BY <1>7 DEF Flushed, Sensor, Last
<1>8. CASE StateRead /\ Sensor
  BY <1>8 DEF StateRead, Sensor, Last
<1>9. CASE TempRead /\ Sensor
  BY <1>9 DEF TempRead, Sensor, Last
<1>10. CASE PressureRead /\ Sensor
  <2>1. /\ at = "pres" /\ waits = 1 /\ at' = "due"
        /\ fresh' = fresh /\ round' = round /\ driver' = driver
    BY <1>10 DEF PressureRead, Sensor, Last
  <2>2. fresh = Kinds
    BY <2>1
  <2> QED BY <2>1, <2>2
<1>11. CASE NoAnswer /\ Sensor
  BY <1>11 DEF NoAnswer, Sensor
<1>12. CASE EnterLoop
  BY <1>12 DEF EnterLoop
<1>13. CASE Poll
  BY <1>13 DEF Poll
<1>14. CASE Enumerate
  BY <1>14 DEF Enumerate
<1>15. CASE Sense
  <2>1. Now' = Now /\ driver' = driver /\ seen' = seen /\ lastCommand' = lastCommand
    BY <1>15 DEF Sense, Now
  <2>2. driver.mode_flag = CONT_BOTH => Measuring
    BY DEF SensorFits, Measuring
  <2>3. /\ round' = (IF seen /\ lastCommand < Now THEN "read" ELSE "quick")
        /\ IF seen /\ lastCommand < Now /\ Measuring
           THEN at' = "fifo" /\ waits' = 2 /\ before' = Now ELSE at' = "due"
        /\ reading' = reading /\ last' = last
    BY <1>15 DEF Sense
  <2>4. at' = "fifo" => ~WaitOver' /\ Measuring
    BY <2>1, <2>3, TimeFacts
  <2>5. Measuring => driver.mode_flag = CONT_BOTH
    BY DEF Measuring
  <2> QED BY <2>1, <2>2, <2>3, <2>4, <2>5
<1>16. CASE Due
  <2>1. Now' = Now /\ driver' = driver /\ seen' = seen /\ lastCommand' = lastCommand
    BY <1>16 DEF Due, Now
  <2>2. /\ at = "due" /\ at' = "publish" /\ fresh' = fresh /\ round' = round
        /\ reading' = reading /\ last' = last
    BY <1>16 DEF Due
  <2> QED BY <2>1, <2>2
<1>17. CASE NothingToDo
  BY <1>17 DEF NothingToDo
<1>18. CASE Unchanged
  BY <1>18 DEF Unchanged, Reset
<1>19. CASE Publish
  BY <1>19 DEF Publish, ToPublish
<1>20. CASE Published
  BY <1>20 DEF Published, Reset, Other
<1>21. CASE Unplug
  <2>1. /\ at' = at /\ waits' = waits /\ before' = before /\ ready' = ready
        /\ state' = state /\ driver' = driver /\ elapsed' = elapsed /\ late' = late
        /\ reading' = reading /\ last' = last /\ fresh' = fresh /\ round' = round
        /\ seen' = seen /\ lastCommand' = lastCommand
    BY <1>21 DEF Unplug
  <2>2. WaitOver' = WaitOver /\ Now' = Now
    BY <2>1 DEF Now
  <2> QED BY <2>1, <2>2
<1>22. CASE Tick
  <2>1. /\ at' = at /\ driver' = driver /\ state' = state /\ waits' = waits /\ before' = before
        /\ reading' = reading /\ last' = last /\ fresh' = fresh
        /\ seen' = seen /\ lastCommand' = lastCommand
    BY <1>22 DEF Tick
  <2>2. driver.mode_flag = CONT_BOTH => ready' = Kinds
    BY <1>22 DEF Tick, Measure, SensorFits, MeasuresAsConfigured
  <2>3. round' = IF round = "quick" /\ at \in {"due", "publish"} THEN "ticked" ELSE round
    BY <1>22 DEF Tick
  <2> QED BY <2>1, <2>2, <2>3
<1> QED
  BY <1>1, <1>2, <1>3, <1>4, <1>5, <1>6, <1>7, <1>8, <1>9, <1>10, <1>11, <1>12, <1>13, <1>14,
     <1>15, <1>16, <1>17, <1>18, <1>19, <1>20, <1>21, <1>22 DEF Next, Sensor, SensorStep
-----------------------------------------------------------------------------
\* What a clock that is late lacks, and what it may have cost since the start.
Lag(l)  == IF l THEN Day ELSE 0
Cost(f) == IF f THEN Day ELSE 0

\* Seconds from usb_host_communication to the beginning of a wait, at most.
Waited(a, w) == CASE a = "fifo"  -> 3 - w
                  [] a = "flush" -> 6 - w
                  [] a = "state" -> 8 - w
                  [] a = "temp"  -> 10 - w
                  [] a = "pres"  -> 12 - w
                  [] OTHER       -> 0

\* The age of time stamp t in a wait of the sensor's reading.
WaitFits(t) ==
  /\ waits >= 1
  /\ before <= t + Waited(at, waits) + Cost(fell) - Lag(late)
  /\ elapsed <= t + Waited(at, waits) + 1 + Cost(fell)
  /\ ~WaitOver => elapsed <= t + Waited(at, waits) + Cost(fell)

\* A wait ends a second after it began, or a day later when get_time goes back,
\* which it does once.
LEMMA WaitTick ==
  ASSUME TypeOK, late => fell, Tick, NEW t \in Int, at \in Reads, WaitFits(t)
  PROVE  WaitFits(t)'
<1>1. /\ at' = at /\ waits' = waits /\ before' = before /\ elapsed' = elapsed + 1
      /\ (fell /\ late' => late) /\ fell' = (fell \/ late') /\ late' \in BOOLEAN
      /\ ~WaitOver
  BY DEF Tick, Second, wait, Timed, Reads
<1>2. /\ Waited(at', waits') = Waited(at, waits)
      /\ Waited(at, waits) \in Int /\ Waited(at', waits') \in Int
  BY <1>1 DEF Waited, TypeOK
<1>3. /\ Lag(late') \in Int /\ Lag(late) \in Int /\ Cost(fell) \in Int /\ Cost(fell') \in Int
      /\ Cost(fell) <= Cost(fell')
      /\ Cost(fell) - Lag(late) <= Cost(fell') - Lag(late')
  BY <1>1, TimeFacts DEF Lag, Cost, TypeOK
<1>4. Now' = elapsed' - Lag(late') /\ Now' \in Int
  BY <1>1, TimeFacts DEF Now, Lag, TypeOK
<1>5. before \in Int /\ elapsed \in Int /\ before' \in Int /\ elapsed' \in Int
  BY <1>1, TimeFacts DEF TypeOK
<1>6. /\ waits >= 1 /\ before <= t + Waited(at, waits) + Cost(fell) - Lag(late)
      /\ elapsed <= t + Waited(at, waits) + Cost(fell)
  BY <1>1 DEF WaitFits
<1> HIDE DEF Waited, Lag, Cost
<1>7. before' <= t + Waited(at', waits') + Cost(fell') - Lag(late')
  BY <1>1, <1>2, <1>3, <1>5, <1>6
<1>8. elapsed' <= t + Waited(at', waits') + 1 + Cost(fell')
  BY <1>1, <1>2, <1>3, <1>5, <1>6
<1>9. ~(Now' - before' >= 1) => elapsed' <= t + Waited(at', waits') + Cost(fell')
  BY <1>1, <1>2, <1>3, <1>4, <1>5, <1>7
<1> QED BY <1>1, <1>6, <1>7, <1>8, <1>9 DEF WaitFits, WaitOver

\* From one wait to the next.
LEMMA WaitNext ==
  ASSUME TypeOK, NEW t \in Int, at \in Reads, WaitFits(t), SensorStep,
         UNCHANGED <<elapsed, late, fell>>, at' \in Reads
  PROVE  WaitFits(t)'
<1>1. /\ waits' \in Int /\ waits' >= 1 /\ before' = Now /\ elapsed' = elapsed
      /\ Waited(at, waits) \in Int /\ Waited(at', waits') \in Int
      /\ Waited(at', waits') >= Waited(at, waits) + 1
  <2> USE DEF TypeOK, WaitFits, Waited, Reads, Timed, Kinds, Begin, Leave
  <2>1. CASE NextWait
    BY <2>1 DEF NextWait
  <2>2. CASE FifoRead
    BY <2>2 DEF FifoRead, Last
  <2>3. CASE Flushed
    BY <2>3 DEF Flushed, Last
  <2>4. CASE StateRead
    BY <2>4 DEF StateRead, Last
  <2>5. CASE TempRead
    BY <2>5 DEF TempRead, Last
  <2>6. CASE Boot \/ FirstReady \/ FirstTemperature \/ StartBoth \/ PressureRead \/ NoAnswer
    BY <2>6 DEF Boot, FirstReady, FirstTemperature, StartBoth, PressureRead, NoAnswer, Last
  <2> QED BY <2>1, <2>2, <2>3, <2>4, <2>5, <2>6 DEF SensorStep
<1>2. /\ Lag(late') = Lag(late) /\ Cost(fell') = Cost(fell) /\ Now' = Now
      /\ Lag(late) \in Int /\ Cost(fell) \in Int /\ Lag(late') \in Int /\ Cost(fell') \in Int
  BY TimeFacts DEF Lag, Cost, Now
<1>3. Now = elapsed - Lag(late) /\ Now \in Int
  BY TimeFacts DEF Now, Lag, TypeOK
<1>4. elapsed <= t + Waited(at, waits) + 1 + Cost(fell)
  BY DEF WaitFits
<1>5. elapsed \in Int /\ elapsed' \in Int /\ before' \in Int
  BY <1>1, <1>3, TimeFacts DEF TypeOK
<1> HIDE DEF Waited, Lag, Cost
<1>6. before' <= t + Waited(at', waits') + Cost(fell') - Lag(late')
  BY <1>1, <1>2, <1>3, <1>4, <1>5
<1>7. elapsed' <= t + Waited(at', waits') + Cost(fell')
  BY <1>1, <1>2, <1>4, <1>5
<1>8. elapsed' <= t + Waited(at', waits') + 1 + Cost(fell')
  BY <1>1, <1>2, <1>5, <1>7
<1> QED BY <1>1, <1>6, <1>7, <1>8 DEF WaitFits

\* The end of the last wait.
LEMMA WaitEnds ==
  ASSUME TypeOK, NEW t \in Int, at \in Reads, WaitFits(t)
  PROVE  elapsed <= t + 12 + Cost(fell)
<1>1. Waited(at, waits) \in Int /\ Waited(at, waits) <= 11
  BY DEF Waited, WaitFits, TypeOK, Reads
<1>2. Cost(fell) \in Int
  BY TimeFacts DEF Cost
<1>3. elapsed <= t + Waited(at, waits) + 1 + Cost(fell)
  BY DEF WaitFits
<1> HIDE DEF Waited, Cost
<1> QED BY <1>1, <1>2, <1>3, TimeFacts DEF TypeOK

\* The age of the copy of the host state.
Start == {"boot", "rdy", "raw", "start", "ready"}

BlindFits ==
  /\ late => fell
  /\ at \in Reads /\ ~ticked => at = "fifo" /\ waits = 2 /\ ~WaitOver
  /\ at \in Reads => WaitFits(polled) /\ seen
  /\ at = "exchange" => seen
  /\ seen => at \notin Start \cup {"enumerate"}
  /\ seen /\ at \in {"sense", "due", "publish"} /\ ~ticked => elapsed <= polled
  /\ seen /\ at = "sense" => elapsed <= polled + 1
  /\ seen /\ at \in {"due", "publish"} => elapsed <= polled + 12 + Cost(fell)

\* BlindFits is kept: every wait adds a second to the age of USBHostState.
LEMMA BlindStep ==
  ASSUME TypeOK, BlindFits, Next
  PROVE  BlindFits'
<1> USE DEF TypeOK, BlindFits, Start, Kinds, Timed, Reads, Begin, Leave,
           time, sensor, chip, wait, loop, history
<1>1. CASE Boot /\ Sensor
  BY <1>1 DEF Boot, Sensor, Last
<1>2. CASE NextWait /\ Sensor
  <2>1. /\ polled' = polled /\ seen' = seen /\ fell' = fell /\ late' = late
        /\ ticked' = ticked /\ elapsed' = elapsed
    BY <1>2 DEF Sensor
  <2>2. at' = at /\ WaitOver /\ at \in Timed
    BY <1>2 DEF NextWait
  <2>3. CASE at \notin Reads
    BY <1>2, <2>1, <2>2, <2>3
  <2>4. CASE at \in Reads
    <3>1. ticked /\ WaitFits(polled)'
      BY <2>1, <2>2, <2>4, <1>2, WaitNext DEF SensorStep, WaitFits
    <3> QED BY <2>1, <2>2, <2>4, <3>1
  <2> QED BY <2>3, <2>4
<1>3. CASE FirstReady /\ Sensor
  BY <1>3 DEF FirstReady, Sensor, Last
<1>4. CASE FirstTemperature /\ Sensor
  BY <1>4 DEF FirstTemperature, Sensor, Last
<1>5. CASE StartBoth /\ Sensor
  BY <1>5 DEF StartBoth, Sensor, Last
<1>6. CASE FifoRead /\ Sensor
  <2>1. /\ polled' = polled /\ seen' = seen /\ fell' = fell /\ late' = late
        /\ ticked' = ticked /\ elapsed' = elapsed
    BY <1>6 DEF Sensor
  <2>2. at \in Reads /\ at' \in Reads /\ waits = 1
    BY <1>6 DEF FifoRead, Last
  <2>3. ticked
    BY <2>2
  <2>4. WaitFits(polled)'
    BY <2>1, <2>2, <1>6, WaitNext DEF SensorStep, WaitFits
  <2> QED BY <2>1, <2>2, <2>3, <2>4
<1>7. CASE Flushed /\ Sensor
  <2>1. /\ polled' = polled /\ seen' = seen /\ fell' = fell /\ late' = late
        /\ ticked' = ticked /\ elapsed' = elapsed
    BY <1>7 DEF Sensor
  <2>2. at \in Reads /\ at' \in Reads /\ waits = 1
    BY <1>7 DEF Flushed, Last
  <2>3. ticked
    BY <2>2
  <2>4. WaitFits(polled)'
    BY <2>1, <2>2, <1>7, WaitNext DEF SensorStep, WaitFits
  <2> QED BY <2>1, <2>2, <2>3, <2>4
<1>8. CASE StateRead /\ Sensor
  <2>1. /\ polled' = polled /\ seen' = seen /\ fell' = fell /\ late' = late
        /\ ticked' = ticked /\ elapsed' = elapsed
    BY <1>8 DEF Sensor
  <2>2. at \in Reads /\ at' \in Reads \cup {"due"} /\ waits = 1
    BY <1>8 DEF StateRead, Last
  <2>3. ticked
    BY <2>2
  <2>4. CASE at' = "due"
    BY <2>1, <2>2, <2>3, <2>4, WaitEnds
  <2>5. CASE at' \in Reads
    <3>1. WaitFits(polled)'
      BY <2>1, <2>2, <2>5, <1>8, WaitNext DEF SensorStep, WaitFits
    <3> QED BY <2>1, <2>2, <2>3, <2>5, <3>1
  <2> QED BY <2>2, <2>4, <2>5
<1>9. CASE TempRead /\ Sensor
  <2>1. /\ polled' = polled /\ seen' = seen /\ fell' = fell /\ late' = late
        /\ ticked' = ticked /\ elapsed' = elapsed
    BY <1>9 DEF Sensor
  <2>2. at \in Reads /\ at' \in Reads \cup {"due"} /\ waits = 1
    BY <1>9 DEF TempRead, Last
  <2>3. ticked
    BY <2>2
  <2>4. CASE at' = "due"
    BY <2>1, <2>2, <2>3, <2>4, WaitEnds
  <2>5. CASE at' \in Reads
    <3>1. WaitFits(polled)'
      BY <2>1, <2>2, <2>5, <1>9, WaitNext DEF SensorStep, WaitFits
    <3> QED BY <2>1, <2>2, <2>3, <2>5, <3>1
  <2> QED BY <2>2, <2>4, <2>5
<1>10. CASE PressureRead /\ Sensor
  <2>1. /\ polled' = polled /\ seen' = seen /\ fell' = fell /\ late' = late
        /\ ticked' = ticked /\ elapsed' = elapsed
    BY <1>10 DEF Sensor
  <2>2. at = "pres" /\ at' = "due" /\ ticked
    BY <1>10 DEF PressureRead, Last
  <2> QED BY <2>1, <2>2, WaitEnds
<1>11. CASE NoAnswer /\ Sensor
  BY <1>11 DEF NoAnswer, Sensor, Last
<1>12. CASE EnterLoop
  BY <1>12 DEF EnterLoop
<1>13. CASE Poll
  BY <1>13 DEF Poll
<1>14. CASE Enumerate
  BY <1>14 DEF Enumerate
<1>15. CASE Sense
  <2>1. /\ polled' = polled /\ seen' = seen /\ fell' = fell /\ late' = late
        /\ ticked' = ticked /\ elapsed' = elapsed /\ at = "sense"
    BY <1>15 DEF Sense
  <2>2. CASE at' = "due"
    BY <2>1, <2>2, TimeFacts DEF Cost
  <2>3. CASE at' = "fifo"
    <3>1. waits' = 2 /\ before' = Now /\ seen
      BY <1>15, <2>3 DEF Sense
    <3>2. Now' = Now /\ Now = elapsed - Lag(late) /\ Now \in Int
      BY <2>1, TimeFacts DEF Now, Lag
    <3>3. Waited(at', waits') = 1
      BY <2>3, <3>1 DEF Waited
    <3>4. Cost(fell) \in Nat /\ Lag(late) \in Int
      BY TimeFacts DEF Cost, Lag
    <3>5. ~WaitOver' /\ WaitFits(polled)'
      BY <2>1, <3>1, <3>2, <3>3, <3>4 DEF WaitFits, WaitOver
    <3> QED BY <2>1, <2>3, <3>1, <3>5
  <2>4. at' \in {"due", "fifo"}
    BY <1>15 DEF Sense
  <2> QED BY <2>2, <2>3, <2>4
<1>16. CASE Due
  BY <1>16 DEF Due
<1>17. CASE NothingToDo
  BY <1>17 DEF NothingToDo
<1>18. CASE Unchanged
  BY <1>18 DEF Unchanged, Reset
<1>19. CASE Publish
  BY <1>19 DEF Publish, ToPublish
<1>20. CASE Published
  BY <1>20 DEF Published, Reset
<1>21. CASE Unplug
  <2>1. /\ at' = at /\ waits' = waits /\ before' = before /\ elapsed' = elapsed /\ late' = late
        /\ seen' = seen /\ fell' = fell /\ ticked' = ticked /\ polled' = polled
    BY <1>21 DEF Unplug
  <2>2. WaitOver' = WaitOver
    BY <2>1 DEF WaitOver, Now
  <2>3. WaitFits(polled)' <=> WaitFits(polled)
    BY <2>1, <2>2 DEF WaitFits
  <2> QED BY <2>1, <2>2, <2>3
<1>22. CASE Tick
  <2>1. /\ polled' = polled /\ seen' = seen /\ at' = at /\ ticked' = TRUE
        /\ elapsed' = elapsed + 1 /\ fell' = (fell \/ late')
    BY <1>22 DEF Tick, Second
  <2>2. CASE at \in Reads
    <3>1. WaitFits(polled)'
      BY <2>1, <2>2, <1>22, WaitTick DEF WaitFits
    <3> QED BY <2>1, <2>2, <3>1
  <2>3. CASE at \notin Reads
    <3>1. at \in {"sense", "due", "publish"} => ~ticked
      BY <1>22 DEF Tick
    <3>2. Cost(fell') \in Nat
      BY TimeFacts DEF Cost
    <3>3. seen /\ at \in {"sense", "due", "publish"} => elapsed' <= polled' + 1
      BY <2>1, <3>1, TimeFacts
    <3>4. seen /\ at \in {"due", "publish"} => elapsed' <= polled' + 12 + Cost(fell')
      BY <2>1, <3>2, <3>3, TimeFacts
    <3>5. at' \notin Reads
      BY <2>1, <2>3
    <3> QED BY <2>1, <3>3, <3>4, <3>5
  <2> QED BY <2>2, <2>3
<1> QED
  BY <1>1, <1>2, <1>3, <1>4, <1>5, <1>6, <1>7, <1>8, <1>9, <1>10, <1>11, <1>12, <1>13, <1>14,
     <1>15, <1>16, <1>17, <1>18, <1>19, <1>20, <1>21, <1>22 DEF Next, Sensor, SensorStep
-----------------------------------------------------------------------------
\* The time since the last publishing while the SSM stays connected.
PublishFits ==
  /\ lastPublish = lastCommand
  /\ lastCommand <= acted + Cost(fell) - Lag(late)
  /\ linked => configured /\ seen
  /\ linked =>
       /\ at \in Reads => WaitFits(acted + 1)
       /\ at = "poll" => elapsed <= acted + Cost(fell) + (IF ticked THEN 1 ELSE 0)
       /\ at = "sense" => elapsed <= acted + 1 + Cost(fell) + (IF ticked THEN 1 ELSE 0)
       /\ at \in {"due", "publish"} =>
            elapsed <= acted + Cost(fell) + (IF ticked THEN 13 ELSE 1)
       /\ at = "publish" /\ ~request =>
            elapsed <= acted + Cost(fell) + (IF ticked THEN 1 ELSE 0)

\* PublishFits is kept: a round that does not publish follows one that just did.
LEMMA PublishStep ==
  ASSUME TypeOK, BlindFits, PublishFits, Next
  PROVE  PublishFits'
<1> USE DEF TypeOK, BlindFits, PublishFits, Start, Kinds, Timed, Reads, Begin, Leave,
           time, sensor, chip, wait, loop, history
<1>1. CASE Boot /\ Sensor
  BY <1>1 DEF Boot, Sensor, Last
<1>2. CASE NextWait /\ Sensor
  <2>1. /\ acted' = acted /\ seen' = seen /\ fell' = fell /\ late' = late /\ linked' = linked
        /\ lastCommand' = lastCommand /\ lastPublish' = lastPublish /\ configured' = configured
        /\ ticked' = ticked /\ elapsed' = elapsed
    BY <1>2 DEF Sensor
  <2>2. at' = at /\ WaitOver /\ at \in Timed
    BY <1>2 DEF NextWait
  <2>3. CASE ~(at \in Reads /\ linked)
    BY <2>1, <2>2, <2>3
  <2>4. CASE at \in Reads /\ linked
    <3>1. WaitFits(acted + 1)'
      BY <2>1, <2>2, <2>4, <1>2, TimeFacts, WaitNext DEF SensorStep, WaitFits
    <3> QED BY <2>1, <2>2, <2>4, <3>1
  <2> QED BY <2>3, <2>4
<1>3. CASE FirstReady /\ Sensor
  BY <1>3 DEF FirstReady, Sensor, Last
<1>4. CASE FirstTemperature /\ Sensor
  BY <1>4 DEF FirstTemperature, Sensor, Last
<1>5. CASE StartBoth /\ Sensor
  BY <1>5 DEF StartBoth, Sensor, Last
<1>6. CASE FifoRead /\ Sensor
  <2>1. /\ acted' = acted /\ seen' = seen /\ fell' = fell /\ late' = late /\ linked' = linked
        /\ lastCommand' = lastCommand /\ lastPublish' = lastPublish /\ configured' = configured
        /\ ticked' = ticked /\ elapsed' = elapsed
    BY <1>6 DEF Sensor
  <2>2. at \in Reads /\ at' \in Reads /\ ticked
    BY <1>6 DEF FifoRead, Last
  <2>3. CASE ~linked
    BY <2>1, <2>3
  <2>4. CASE at' \in Reads /\ linked
    <3>1. WaitFits(acted + 1)'
      BY <2>1, <2>2, <2>4, <1>6, TimeFacts, WaitNext DEF SensorStep, WaitFits
    <3> QED BY <2>1, <2>2, <2>4, <3>1
  <2> QED BY <2>2, <2>3, <2>4
<1>7. CASE Flushed /\ Sensor
  <2>1. /\ acted' = acted /\ seen' = seen /\ fell' = fell /\ late' = late /\ linked' = linked
        /\ lastCommand' = lastCommand /\ lastPublish' = lastPublish /\ configured' = configured
        /\ ticked' = ticked /\ elapsed' = elapsed
    BY <1>7 DEF Sensor
  <2>2. at \in Reads /\ at' \in Reads /\ ticked
    BY <1>7 DEF Flushed, Last
  <2>3. CASE ~linked
    BY <2>1, <2>3
  <2>4. CASE at' \in Reads /\ linked
    <3>1. WaitFits(acted + 1)'
      BY <2>1, <2>2, <2>4, <1>7, TimeFacts, WaitNext DEF SensorStep, WaitFits
    <3> QED BY <2>1, <2>2, <2>4, <3>1
  <2> QED BY <2>2, <2>3, <2>4
<1>8. CASE StateRead /\ Sensor
  <2>1. /\ acted' = acted /\ seen' = seen /\ fell' = fell /\ late' = late /\ linked' = linked
        /\ lastCommand' = lastCommand /\ lastPublish' = lastPublish /\ configured' = configured
        /\ ticked' = ticked /\ elapsed' = elapsed
    BY <1>8 DEF Sensor
  <2>2. at \in Reads /\ at' \in Reads \cup {"due"} /\ ticked
    BY <1>8 DEF StateRead, Last
  <2>3. CASE ~linked
    BY <2>1, <2>3
  <2>4. CASE at' = "due" /\ linked
    BY <2>1, <2>2, <2>4, TimeFacts, WaitEnds DEF Cost
  <2>5. CASE at' \in Reads /\ linked
    <3>1. WaitFits(acted + 1)'
      BY <2>1, <2>2, <2>5, <1>8, TimeFacts, WaitNext DEF SensorStep, WaitFits
    <3> QED BY <2>1, <2>2, <2>5, <3>1
  <2> QED BY <2>2, <2>3, <2>4, <2>5
<1>9. CASE TempRead /\ Sensor
  <2>1. /\ acted' = acted /\ seen' = seen /\ fell' = fell /\ late' = late /\ linked' = linked
        /\ lastCommand' = lastCommand /\ lastPublish' = lastPublish /\ configured' = configured
        /\ ticked' = ticked /\ elapsed' = elapsed
    BY <1>9 DEF Sensor
  <2>2. at \in Reads /\ at' \in Reads \cup {"due"} /\ ticked
    BY <1>9 DEF TempRead, Last
  <2>3. CASE ~linked
    BY <2>1, <2>3
  <2>4. CASE at' = "due" /\ linked
    BY <2>1, <2>2, <2>4, TimeFacts, WaitEnds DEF Cost
  <2>5. CASE at' \in Reads /\ linked
    <3>1. WaitFits(acted + 1)'
      BY <2>1, <2>2, <2>5, <1>9, TimeFacts, WaitNext DEF SensorStep, WaitFits
    <3> QED BY <2>1, <2>2, <2>5, <3>1
  <2> QED BY <2>2, <2>3, <2>4, <2>5
<1>10. CASE PressureRead /\ Sensor
  <2>1. /\ acted' = acted /\ seen' = seen /\ fell' = fell /\ late' = late /\ linked' = linked
        /\ lastCommand' = lastCommand /\ lastPublish' = lastPublish /\ configured' = configured
        /\ ticked' = ticked /\ elapsed' = elapsed
    BY <1>10 DEF Sensor
  <2>2. at = "pres" /\ at' = "due" /\ ticked
    BY <1>10 DEF PressureRead, Last
  <2>3. CASE ~linked
    BY <2>1, <2>3, <2>2
  <2>4. CASE linked
    BY <2>1, <2>2, <2>4, TimeFacts, WaitEnds DEF Cost
  <2> QED BY <2>3, <2>4
<1>11. CASE NoAnswer /\ Sensor
  BY <1>11 DEF NoAnswer, Sensor, Last
<1>12. CASE EnterLoop
  <2>1. /\ acted' = elapsed /\ lastCommand' = Now /\ lastPublish' = Now /\ at' = "poll"
        /\ elapsed' = elapsed /\ late' = late /\ fell' = fell /\ linked' = linked
        /\ configured' = configured /\ seen' = seen /\ at = "ready"
    BY <1>12 DEF EnterLoop
  <2>2. Cost(fell) \in Nat /\ Now = elapsed - Lag(late) /\ Lag(late) \in Nat /\ Now \in Int
    BY TimeFacts DEF Cost, Lag, Now
  <2>3. Now <= elapsed + Cost(fell) - Lag(late)
    BY <2>2, TimeFacts
  <2> QED BY <2>1, <2>3
<1>13. CASE Poll
  <2>1. /\ acted' = acted /\ fell' = fell /\ late' = late
        /\ lastCommand' = lastCommand /\ lastPublish' = lastPublish /\ elapsed' = elapsed
    BY <1>13 DEF Poll
  <2>2. Cost(fell) \in Nat /\ Lag(late) \in Nat
    BY TimeFacts DEF Cost, Lag
  <2>3. /\ linked' => linked /\ configured
        /\ seen' = configured /\ configured' = configured /\ at = "poll"
        /\ at' = (IF configured THEN "sense" ELSE "enumerate") /\ ticked' = FALSE
    BY <1>13 DEF Poll
  <2>4. linked /\ at = "poll" => elapsed <= acted + 1 + Cost(fell) + 0
    BY <2>2, TimeFacts
  <2> QED BY <2>1, <2>3, <2>4
<1>14. CASE Enumerate
  <2>1. /\ acted' = acted /\ fell' = fell /\ late' = late
        /\ lastCommand' = lastCommand /\ lastPublish' = lastPublish /\ elapsed' = elapsed
    BY <1>14 DEF Enumerate
  <2>2. Cost(fell) \in Nat /\ Lag(late) \in Nat
    BY TimeFacts DEF Cost, Lag
  <2>3. ~linked /\ linked' = linked
    BY <1>14 DEF Enumerate
  <2> QED BY <2>1, <2>3
<1>15. CASE Sense
  <2>1. /\ acted' = acted /\ fell' = fell /\ late' = late
        /\ lastCommand' = lastCommand /\ lastPublish' = lastPublish /\ elapsed' = elapsed
    BY <1>15 DEF Sense
  <2>2. Cost(fell) \in Nat /\ Lag(late) \in Nat
    BY TimeFacts DEF Cost, Lag
  <2>3. /\ linked' = linked /\ configured' = configured /\ seen' = seen /\ ticked' = ticked
        /\ at = "sense" /\ at' \in {"due", "fifo"}
    BY <1>15 DEF Sense
  <2>4. CASE ~linked
    BY <2>1, <2>3, <2>4
  <2>5. CASE linked /\ at' = "due"
    BY <2>1, <2>2, <2>3, <2>5, TimeFacts
  <2>6. CASE linked /\ at' = "fifo"
    <3>1. waits' = 2 /\ before' = Now
      BY <1>15, <2>6 DEF Sense
    <3>2. Now' = Now /\ Now = elapsed - Lag(late) /\ Now \in Int
      BY <2>1, TimeFacts DEF Now, Lag
    <3>3. Waited(at', waits') = 1
      BY <2>6, <3>1 DEF Waited
    <3>4. elapsed <= acted + 2 + Cost(fell)
      BY <2>2, <2>3, <2>6, TimeFacts
    <3>5. WaitFits(acted + 1)'
      BY <2>1, <2>2, <3>1, <3>2, <3>3, <3>4, TimeFacts DEF WaitFits
    <3> QED BY <2>1, <2>3, <2>6, <3>5
  <2> QED BY <2>3, <2>4, <2>5, <2>6
<1>16. CASE Due
  <2>1. /\ acted' = acted /\ fell' = fell /\ late' = late
        /\ lastCommand' = lastCommand /\ lastPublish' = lastPublish /\ elapsed' = elapsed
    BY <1>16 DEF Due
  <2>2. Cost(fell) \in Nat /\ Lag(late) \in Nat
    BY TimeFacts DEF Cost, Lag
  <2>3. /\ linked' = linked /\ configured' = configured /\ seen' = seen /\ ticked' = ticked
        /\ at = "due" /\ at' = "publish"
        /\ ~request' => ~(Now >= lastPublish + 1)
    BY <1>16 DEF Due, CycleTime
  <2>4. Now = elapsed - Lag(late) /\ Now \in Int
    BY TimeFacts DEF Now, Lag
  <2>5. ~request' => elapsed <= acted + Cost(fell)
    BY <2>2, <2>3, <2>4, TimeFacts
  <2>6. ~request' => elapsed <= acted + Cost(fell) + (IF ticked THEN 1 ELSE 0)
    BY <2>2, <2>5, TimeFacts
  <2> QED BY <2>1, <2>3, <2>6
<1>17. CASE NothingToDo
  <2>1. /\ acted' = acted /\ fell' = fell /\ late' = late
        /\ lastCommand' = lastCommand /\ lastPublish' = lastPublish /\ elapsed' = elapsed
    BY <1>17 DEF NothingToDo
  <2>2. Cost(fell) \in Nat /\ Lag(late) \in Nat
    BY TimeFacts DEF Cost, Lag
  <2>3. /\ linked' = linked /\ configured' = configured /\ seen' = seen /\ ticked' = ticked
        /\ request' = request
        /\ at = "publish" /\ at' = "poll" /\ ~(request /\ seen /\ lastCommand < Now)
    BY <1>17 DEF NothingToDo, ToPublish
  <2>4. Now = elapsed - Lag(late) /\ Now \in Int
    BY TimeFacts DEF Now, Lag
  <2>5. linked /\ request => elapsed <= acted + Cost(fell)
    BY <2>2, <2>3, <2>4, TimeFacts
  <2>6. linked => elapsed <= acted + Cost(fell) + (IF ticked THEN 1 ELSE 0)
    BY <2>2, <2>3, <2>5, TimeFacts
  <2> QED BY <2>1, <2>3, <2>6
<1>18. CASE Unchanged
  <2>1. /\ acted' = elapsed /\ lastCommand' = Now /\ lastPublish' = Now /\ at' = "poll"
        /\ linked' = configured /\ configured' = configured /\ seen' = seen /\ seen
        /\ elapsed' = elapsed /\ late' = late /\ fell' = fell
    BY <1>18 DEF Unchanged, ToPublish, Reset
  <2>2. Cost(fell) \in Nat /\ Now = elapsed - Lag(late) /\ Lag(late) \in Nat /\ Now \in Int
    BY TimeFacts DEF Cost, Lag, Now
  <2>3. Now <= elapsed + Cost(fell) - Lag(late)
    BY <2>2, TimeFacts
  <2>4. elapsed <= elapsed + Cost(fell) + (IF ticked' THEN 1 ELSE 0)
    BY <2>2, TimeFacts
  <2> QED BY <2>1, <2>3, <2>4
<1>19. CASE Publish
  <2>1. /\ acted' = acted /\ fell' = fell /\ late' = late /\ linked' = linked
        /\ lastCommand' = lastCommand /\ lastPublish' = lastPublish
        /\ configured' = configured /\ seen' = seen /\ at' = "exchange"
    BY <1>19 DEF Publish
  <2> QED BY <2>1
<1>20. CASE Published
  <2>1. /\ acted' = elapsed /\ lastCommand' = Now /\ lastPublish' = Now /\ at' = "poll"
        /\ linked' = configured /\ configured' = configured /\ seen' = seen /\ seen
        /\ elapsed' = elapsed /\ late' = late /\ fell' = fell
    BY <1>20 DEF Published, Reset
  <2>2. Cost(fell) \in Nat /\ Now = elapsed - Lag(late) /\ Lag(late) \in Nat /\ Now \in Int
    BY TimeFacts DEF Cost, Lag, Now
  <2>3. Now <= elapsed + Cost(fell) - Lag(late)
    BY <2>2, TimeFacts
  <2>4. elapsed <= elapsed + Cost(fell) + (IF ticked' THEN 1 ELSE 0)
    BY <2>2, TimeFacts
  <2> QED BY <2>1, <2>3, <2>4
<1>21. CASE Unplug
  <2>1. /\ acted' = acted /\ fell' = fell /\ late' = late /\ ~linked'
        /\ lastCommand' = lastCommand /\ lastPublish' = lastPublish
    BY <1>21 DEF Unplug
  <2> QED BY <2>1
<1>22. CASE Tick
  <2>1. /\ acted' = acted /\ seen' = seen /\ at' = at /\ ticked' = TRUE /\ request' = request
        /\ lastCommand' = lastCommand /\ lastPublish' = lastPublish /\ configured' = configured
        /\ elapsed' = elapsed + 1 /\ fell' = (fell \/ late') /\ linked' = linked
        /\ (fell /\ late' => late) /\ late' \in BOOLEAN
    BY <1>22 DEF Tick, Second
  <2>2. /\ Cost(fell) \in Nat /\ Cost(fell') \in Nat /\ Cost(fell) <= Cost(fell')
        /\ Lag(late) \in Nat /\ Lag(late') \in Nat
        /\ Cost(fell) - Lag(late) <= Cost(fell') - Lag(late')
    BY <2>1, TimeFacts DEF Cost, Lag
  <2>3. lastCommand' <= acted' + Cost(fell') - Lag(late')
    BY <2>1, <2>2, TimeFacts
  <2>4. CASE ~linked
    BY <2>1, <2>3, <2>4
  <2>5. CASE linked /\ at \in Reads
    <3>1. WaitFits(acted + 1)'
      BY <2>1, <2>5, <1>22, TimeFacts, WaitTick DEF WaitFits
    <3> QED BY <2>1, <2>3, <2>5, <3>1
  <2>6. CASE linked /\ at \in {"poll", "sense", "due", "publish"}
    <3>1. ~ticked
      BY <1>22, <2>6 DEF Tick
    <3>2. at = "poll" => elapsed' <= acted + Cost(fell') + 1
      BY <2>1, <2>2, <2>6, <3>1, TimeFacts
    <3>3. at = "sense" => elapsed' <= acted + 1 + Cost(fell') + 1
      BY <2>1, <2>2, <2>6, <3>1, TimeFacts
    <3>4. at \in {"due", "publish"} => elapsed' <= acted + Cost(fell') + 13
      BY <2>1, <2>2, <2>6, <3>1, TimeFacts
    <3>5. at = "publish" /\ ~request => elapsed' <= acted + Cost(fell') + 1
      BY <2>1, <2>2, <2>6, <3>1, TimeFacts
    <3> QED BY <2>1, <2>3, <2>6, <3>2, <3>3, <3>4, <3>5
  <2>7. CASE at \notin Reads \cup {"poll", "sense", "due", "publish"}
    BY <2>1, <2>3, <2>7
  <2> QED BY <2>4, <2>5, <2>6, <2>7
<1> QED
  BY <1>1, <1>2, <1>3, <1>4, <1>5, <1>6, <1>7, <1>8, <1>9, <1>10, <1>11, <1>12, <1>13, <1>14,
     <1>15, <1>16, <1>17, <1>18, <1>19, <1>20, <1>21, <1>22 DEF Next, Sensor, SensorStep
-----------------------------------------------------------------------------
IInv == TypeOK /\ SensorFits /\ ReadingFits /\ BlindFits /\ PublishFits

\* The invariant of the main loop holds at first, ...
LEMMA InitHolds == Init => IInv
<1> SUFFICES ASSUME Init PROVE IInv
  OBVIOUS
<1> USE TimeFacts DEF Init, TimeInit, SensorInit
<1>1. TypeOK
  <2> USE DEF Timed, Kinds, IDLE, CMD_TEMP, CONT_BOTH
  <2>1. /\ regs \in [6 .. 9 -> 0 .. 255]
        /\ reading \in [Kinds -> Values \cup {"zero"}] /\ last \in [Kinds -> {"zero", "rate"}]
    OBVIOUS
  <2>2. driver \in [init_flag : BOOLEAN, mode_flag : {IDLE, CMD_TEMP, CONT_BOTH},
                   last_temp_scal : {"zero", "measured"}]
    OBVIOUS
  <2>3. /\ elapsed \in 0 .. MaxTime /\ polled \in 0 .. MaxTime /\ acted \in 0 .. MaxTime
        /\ before \in -Day .. MaxTime /\ lastPublish \in -Day .. MaxTime
        /\ lastCommand \in -Day .. MaxTime
    OBVIOUS
  <2>4. /\ ready \subseteq Kinds /\ state \subseteq Kinds /\ fresh \subseteq Kinds /\ turn \in Kinds
        /\ waits \in 0 .. 3 /\ round \in {"quick", "read", "ticked"}
        /\ at \in Timed \cup {"boot"}
    OBVIOUS
  <2>5. /\ late \in BOOLEAN /\ fell \in BOOLEAN /\ linked \in BOOLEAN /\ ticked \in BOOLEAN
        /\ request \in BOOLEAN /\ configured \in BOOLEAN /\ seen \in BOOLEAN
    OBVIOUS
  <2> QED BY <2>1, <2>2, <2>3, <2>4, <2>5 DEF TypeOK
<1>2. SensorFits
  BY DEF SensorFits, MeasuresAsConfigured, Compensated, IDLE, CMD_TEMP, CONT_BOTH
<1>3. ReadingFits
  BY DEF ReadingFits, Reads, Kinds, IDLE, CMD_TEMP, CONT_BOTH
<1>4. BlindFits
  BY DEF BlindFits, Reads, Start
<1>5. PublishFits
  BY DEF PublishFits, Lag, Cost
<1> QED BY <1>1, <1>2, <1>3, <1>4, <1>5 DEF IInv

\* ... every step keeps it, ...
LEMMA StepHolds == IInv /\ [Next]_vars => IInv'
<1> SUFFICES ASSUME IInv, [Next]_vars PROVE IInv'
  OBVIOUS
<1>1. CASE Next
  BY <1>1, TypeStep, SensorStepKeeps, ReadingStepKeeps, BlindStep, PublishStep DEF IInv
<1>2. CASE UNCHANGED vars
  <2> USE <1>2 DEF IInv, vars, time, sensor, wait, chip, loop, history
  <2>1. TypeOK'
    BY DEF TypeOK
  <2>2. SensorFits'
    BY DEF SensorFits, MeasuresAsConfigured, Compensated, WaitOver, Now
  <2>3. ReadingFits'
    BY DEF ReadingFits, WaitOver, Now
  <2>4. WaitOver' = WaitOver
    BY DEF WaitOver, Now
  <2>5. BlindFits'
    BY <2>4 DEF BlindFits, WaitFits
  <2>6. PublishFits'
    BY <2>4 DEF PublishFits, WaitFits
  <2> QED BY <2>1, <2>2, <2>3, <2>5, <2>6
<1> QED BY <1>1, <1>2

\* ... and so it always holds.
LEMMA Invariant == Spec => []IInv
  BY InitHolds, StepHolds, PTL DEF Spec

\* TypeOK of MainLoop: whatever the sensor and the SSM do, the registers stay
\* bytes and the time stamps within the run.
THEOREM TypeCorrect == Spec => []TypeOK
<1>1. IInv => TypeOK
  BY DEF IInv
<1> QED BY <1>1, Invariant, PTL

\* MeasuresAsConfigured: for every setting, dps310_start_measure_both_cont leaves
\* the sensor as the driver believes it to be, and nothing changes it later.
THEOREM MeasuresCorrect == Spec => []MeasuresAsConfigured
<1>1. IInv => MeasuresAsConfigured
  BY DEF IInv, SensorFits
<1> QED BY <1>1, Invariant, PTL

\* Compensated: no pressure is computed before a temperature.
THEOREM CompensatedCorrect == Spec => []Compensated
<1>1. IInv => Compensated
  BY DEF IInv, SensorFits
<1> QED BY <1>1, Invariant, PTL

\* Blind: reading the sensor keeps the host from being served for at most
\* twelve seconds, and a day more when get_time goes back.
THEOREM BlindCorrect == Spec => []Blind
<1>1. ASSUME IInv PROVE Blind
  <2> SUFFICES ASSUME seen, at \notin {"poll", "exchange", "hung"}
               PROVE  elapsed - polled <= 12 + Cost(fell)
    BY DEF Blind, Cost
  <2>1. Cost(fell) \in Nat
    BY TimeFacts DEF Cost
  <2>2. at \in Reads \cup {"sense", "due", "publish"}
    BY <1>1 DEF IInv, TypeOK, BlindFits, Start, Reads, Timed
  <2>3. CASE at \in Reads
    BY <1>1, <2>1, <2>3, WaitEnds, TimeFacts DEF IInv, TypeOK, BlindFits
  <2>4. CASE at \in {"sense", "due", "publish"}
    BY <1>1, <2>1, <2>4, TimeFacts DEF IInv, TypeOK, BlindFits
  <2> QED BY <2>2, <2>3, <2>4
<1> QED BY <1>1, Invariant, PTL

\* KeepsPublishing: while the SSM stays connected the request to publish is
\* served every thirteen seconds, or a day later when get_time goes back.
THEOREM PublishCorrect == Spec => []KeepsPublishing
<1>1. ASSUME IInv PROVE KeepsPublishing
  <2> SUFFICES ASSUME linked, at \notin {"exchange", "hung"}
               PROVE  elapsed - acted <= 13 + Cost(fell)
    BY DEF KeepsPublishing, Cost
  <2>1. Cost(fell) \in Nat
    BY TimeFacts DEF Cost
  <2>2. at \in Reads \cup {"poll", "sense", "due", "publish"}
    BY <1>1 DEF IInv, TypeOK, BlindFits, PublishFits, Start, Reads, Timed
  <2>3. CASE at \in Reads
    <3>1. acted + 1 \in Int /\ WaitFits(acted + 1)
      BY <1>1, <2>3, TimeFacts DEF IInv, TypeOK, PublishFits
    <3>2. elapsed <= (acted + 1) + 12 + Cost(fell)
      BY <1>1, <2>3, <3>1, WaitEnds DEF IInv
    <3> QED BY <1>1, <2>1, <3>2, TimeFacts DEF IInv, TypeOK
  <2>4. CASE at \in {"poll", "sense", "due", "publish"}
    BY <1>1, <2>1, <2>4, TimeFacts DEF IInv, TypeOK, PublishFits
  <2> QED BY <2>2, <2>3, <2>4
<1> QED BY <1>1, Invariant, PTL

\* FreshUnlessTick: an old reading is published only when a second begins
\* between the two tests of a round.
THEOREM FreshCorrect == Spec => FreshUnlessTick
<1> DEFINE Step == at' = "exchange" /\ at # "exchange" => turn \in fresh \/ round = "ticked"
<1>1. ASSUME IInv, Next PROVE Step
  <2> SUFFICES ASSUME at' = "exchange", at # "exchange"
               PROVE  turn \in fresh \/ round = "ticked"
    OBVIOUS
  <2>1. CASE Publish
    <3>1. at = "publish" /\ request /\ seen /\ lastCommand < Now /\ last[turn] # reading[turn]
      BY <2>1 DEF Publish, ToPublish
    <3>2. driver.mode_flag = CONT_BOTH
      BY <1>1, <3>1 DEF IInv, ReadingFits, TypeOK
    <3>3. round \in {"read", "ticked"}
      BY <1>1, <3>1 DEF IInv, ReadingFits, TypeOK
    <3> QED BY <1>1, <3>1, <3>2, <3>3 DEF IInv, ReadingFits, TypeOK
  <2>2. CASE ~Publish
    BY <1>1, <2>2 DEF IInv, TypeOK, Next, Sensor, SensorStep, Boot, NextWait, FirstReady,
      FirstTemperature, StartBoth, FifoRead, Flushed, StateRead, TempRead, PressureRead,
      NoAnswer, EnterLoop, Poll, Enumerate, Sense, Due, NothingToDo, Unchanged, Published,
      Reset, Unplug, Tick, Begin, Leave, sensor
  <2> QED BY <2>1, <2>2
<1>2. IInv /\ [Next]_vars => [Step]_vars
  BY <1>1
<1> QED BY <1>2, Invariant, PTL DEF Spec, FreshUnlessTick
=============================================================================

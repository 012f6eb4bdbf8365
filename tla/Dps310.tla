------------------------------- MODULE Dps310 -------------------------------
(***************************************************************************)
(* The pressure sensor's driver as the program uses it: dps310_init, which *)
(* leaves the sensor measuring both values in the background, and          *)
(* dps310_get_cont_results.  Nothing else touches the sensor, so what lies *)
(* between two timed transfers is one step.  In a timed transfer           *)
(* (comparison timer on) every wait for the I2C master lasts, in addition, *)
(* until get_time has advanced by a second.                                *)
(*                                                                         *)
(* A transfer succeeds or never returns (I2cMaster), so the branches for   *)
(* negative results are never taken.  External: the sensor's registers.    *)
(* They are read and written through bit fields; of MSR_CTRL's register    *)
(* the read-only flags are kept apart, in ready.                           *)
(***************************************************************************)
EXTENDS SystemTime

CONSTANTS
  TempMr, TempOsr, PrsMr, PrsOsr,   \* the settings in dps310_status
  Recommended,                      \* the sensor the coefficients were taken with
  Values                            \* what a conversion may result in

ASSUME SettingsAssumption ==
  {TempMr, TempOsr, PrsMr, PrsOsr} \subseteq 0 .. 7 /\ Recommended \in 0 .. 1

VARIABLES
  at,       \* place of the program
  waits,    \* waits left in the timed transfer
  before,   \* time_recorder_before_sending of the current one
  regs,     \* the sensor's registers
  ready,    \* the ready flags of register 0x08
  state,    \* meas_state or rdy: the flags as read
  driver,   \* dps310_status and dps310_coeff
  reading   \* temp_meas and pres_meas

chip   == <<regs, ready>>
wait   == <<waits, before>>
sensor == <<at, wait, chip, state, driver, reading>>

Kinds == {"temp", "pres"}
Timed == {"rdy", "raw", "fifo", "flush", "state", "temp", "pres"}

\* config_registers and registers: address, lowest bit and width of a field.
TEMP_MR     == <<7, 4, 3>>
TEMP_OSR    == <<7, 0, 3>>
PRS_MR      == <<6, 4, 3>>
PRS_OSR     == <<6, 0, 3>>
MSR_CTRL    == <<8, 0, 3>>
TEMP_SENSOR == <<7, 7, 1>>
TEMP_SHIFT  == <<9, 3, 1>>
PRS_SHIFT   == <<9, 2, 1>>

IDLE      == 0
CMD_TEMP  == 2
CONT_BOTH == 7

\* dps310_read_byte_bitfield, dps310_write_byte_bitfield.
Field(r, f) == (r[f[1]] \div 2^f[2]) % 2^f[3]

\* Mutant: the other fields of the register are not preserved.
WithMutant(r, f, data) == [r EXCEPT ![f[1]] = (data % 2^f[3]) * 2^f[2]]

With(r, f, data) == [r EXCEPT ![f[1]] = @ + ((data % 2^f[3]) - Field(r, f)) * 2^f[2]]

\* calc_busy_time: computed in 32 bits, returned in 16.
BusyTime(mr, osr) == (20 * 2^mr + 16 * 2^(osr + mr)) % 65536

TooBusy == BusyTime(TempMr, TempOsr) + BusyTime(PrsMr, PrsOsr) >= 9900

\* dps310_configure_temp_meas, dps310_configure_pressure_meas and the result
\* shift that an oversampling above 8 needs.
ConfigureTemp(r) ==
  With(With(With(r, TEMP_MR, TempMr), TEMP_OSR, TempOsr), TEMP_SHIFT, IF TempOsr > 3 THEN 1 ELSE 0)
ConfigurePressure(r) ==
  With(With(With(r, PRS_MR, PrsMr), PRS_OSR, PrsOsr), PRS_SHIFT, IF PrsOsr > 3 THEN 1 ELSE 0)
-----------------------------------------------------------------------------
SensorInit ==
  /\ at = "boot" /\ waits = 0 /\ before = 0
  /\ regs = [a \in 6 .. 9 |-> 0] /\ ready = {} /\ state = {}
  /\ driver = [init_flag |-> FALSE, mode_flag |-> IDLE, last_temp_scal |-> "zero"]
  /\ reading = [k \in Kinds |-> "zero"]

\* The next place, and a transfer with n waits there.
Begin(place, n) == at' = place /\ waits' = n /\ before' = Now

Leave(place) == at' = place /\ waits' = 0 /\ before' = 0

\* Mutant: the first ready flag is read without waiting.
BootMutant ==
  /\ at = "boot"
  /\ regs' = With(With(regs, TEMP_SENSOR, Recommended), MSR_CTRL, CMD_TEMP)
  /\ driver' = [driver EXCEPT !.init_flag = TRUE, !.mode_flag = CMD_TEMP]
  /\ ready' = {}
  /\ Begin("rdy", 1)
  /\ UNCHANGED <<state, reading>>

\* dps310_init after the soft reset up to the first measurement: the calibrated
\* temperature sensor, the coefficients, standby, dps310_correct_temperature,
\* and dps310_start_meas_temp_once.
Boot ==
  /\ at = "boot"
  /\ regs' = With(With(regs, TEMP_SENSOR, Recommended), MSR_CTRL, CMD_TEMP)
  /\ driver' = [driver EXCEPT !.init_flag = TRUE, !.mode_flag = CMD_TEMP]
  /\ ready' = {}
  /\ Begin("rdy", 2)
  /\ UNCHANGED <<state, reading>>

WaitOver == Now - before >= 1

\* A wait of a timed transfer ends and another begins.  What the transfer reads
\* is on the bus now; it is used when the last wait is over.
NextWait ==
  /\ at \in Timed /\ waits > 1 /\ WaitOver
  /\ Begin(at, waits - 1)
  /\ IF at \in {"rdy", "state"} THEN state' = ready ELSE UNCHANGED state
  /\ IF at \in Kinds
     THEN /\ ready' = ready \ {at}
          /\ \E v \in Values : reading' = [reading EXCEPT ![at] = v]
     ELSE /\ ready' = IF at = "raw" THEN ready \ {"temp"} ELSE ready
          /\ UNCHANGED reading
  /\ UNCHANGED <<regs, driver>>

Last(place) == at = place /\ waits = 1 /\ WaitOver

\* dps310_get_single_result; an unfinished measurement is given up.
FirstReady ==
  /\ Last("rdy")
  /\ IF "temp" \in state
     THEN /\ driver' = [driver EXCEPT !.mode_flag = IDLE]
          /\ Begin("raw", 2) /\ UNCHANGED regs
     ELSE /\ driver' = [driver EXCEPT !.mode_flag = IDLE]
          /\ regs' = With(regs, MSR_CTRL, IDLE)
          /\ Leave("start")
  /\ UNCHANGED <<ready, state, reading>>

FirstTemperature ==
  /\ Last("raw")
  /\ driver' = [driver EXCEPT !.last_temp_scal = "measured"]
  /\ Leave("start")
  /\ UNCHANGED <<chip, state, reading>>

\* dps310_start_measure_both_cont.
StartBoth ==
  /\ at = "start"
  /\ IF driver.mode_flag # IDLE \/ TooBusy
     THEN driver' = [driver EXCEPT !.init_flag = FALSE] /\ UNCHANGED regs
     ELSE /\ regs' = With(ConfigurePressure(ConfigureTemp(regs)), MSR_CTRL, CONT_BOTH)
          /\ driver' = [driver EXCEPT !.mode_flag = CONT_BOTH]
  /\ Leave("ready")
  /\ UNCHANGED <<ready, state, reading>>
-----------------------------------------------------------------------------
(* dps310_get_cont_results. *)

Measuring == driver.init_flag /\ driver.mode_flag >= 4

\* Mutant: the flush is checked by reading the register back.
FifoReadMutant ==
  /\ Last("fifo")
  /\ Begin("flush", 5) \/ Begin("state", 2)
  /\ UNCHANGED <<chip, state, driver, reading>>

\* The FIFO is flushed when it is full.
FifoRead ==
  /\ Last("fifo")
  /\ Begin("flush", 3) \/ Begin("state", 2)
  /\ UNCHANGED <<chip, state, driver, reading>>

Flushed ==
  /\ Last("flush")
  /\ Begin("state", 2)
  /\ UNCHANGED <<chip, state, driver, reading>>

StateRead ==
  /\ Last("state")
  /\ IF state = {} THEN Leave("due")
                   ELSE Begin(IF "temp" \in state THEN "temp" ELSE "pres", 2)
  /\ UNCHANGED <<chip, state, driver, reading>>

TempRead ==
  /\ Last("temp")
  /\ driver' = [driver EXCEPT !.last_temp_scal = "measured"]
  /\ IF "pres" \in state THEN Begin("pres", 2) ELSE Leave("due")
  /\ UNCHANGED <<chip, state, reading>>

PressureRead ==
  /\ Last("pres")
  /\ Leave("due")
  /\ UNCHANGED <<chip, state, driver, reading>>

\* The sensor does not acknowledge and the program waits for ever.
NoAnswer ==
  /\ at \in Timed \cup {"boot", "start"}
  /\ Leave("hung")
  /\ UNCHANGED <<chip, state, driver, reading>>

SensorStep ==
  \/ Boot \/ NextWait \/ FirstReady \/ FirstTemperature \/ StartBoth
  \/ FifoRead \/ Flushed \/ StateRead \/ TempRead \/ PressureRead \/ NoAnswer

\* The sensor: within a second it finishes the single measurement or, measuring
\* in the background at the rates set, a value of each kind.
Measure ==
  CASE Field(regs, MSR_CTRL) = CMD_TEMP ->
         ready' = ready \cup {"temp"} /\ regs' = With(regs, MSR_CTRL, IDLE)
    [] Field(regs, MSR_CTRL) = CONT_BOTH ->
         ready' = Kinds /\ UNCHANGED regs
    [] OTHER -> UNCHANGED <<ready, regs>>
=============================================================================

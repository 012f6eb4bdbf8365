# A TLA+ model of the Tributech SSM sensor board

The repository is the firmware of an XMC4700 RelaxKit. It reads a DPS310 pressure sensor over I2C
and sends the readings, one JSON command each, over USB to a Tributech SSM (the device; the board is
the USB host, and the SSM a virtual COM port). There is no operating system: one main loop, a 1 ms SysTick counter, the USB interrupt and the two
interrupts of the I2C master, which share plain global variables with the main loop.

Paths below are relative to `src/src/Tributech_SSM_Integration/`; `SSM/` stands for
`Libraries/Tributech_SSM_USB_Host_Library/`.

## 1. Inventory

| Component | State it keeps | Operations | What makes it correct | Status |
|---|---|---|---|---|
| Receive ring (`Libraries/USBH_VCOM/USBVCH.c`, `CDCClassHost.c`) | `USBH_VCOM_RX_Buffer`, `cur_index`, `prev_index` | interrupt appends packets, main loop takes bytes, disconnect resets | bytes come out once and in order; no slot is reused while it is being read; a reset empties it | modelled: `VcomRing`, `ByteFifo` |
| Command exchange (`SSM/Tributech_SSM_API.c`, `SSM/USB_Host.c`) | transaction number, `send_buffer`, `RxBuffer`, pipe toggles | `provide_values`, `USBVCH_SendData`, `receive_response` | a reading gets its own answer; nothing is left behind; the call returns | partly: `SsmExchange`, `Dialogue` (not `get_id`, which repeats the loop and is never called) |
| USB host enumeration (`Libraries/USB/GLUE/USB_Glue.c`, `USBVCH_Process`, `HostStandardReq.c`) | `USB_HostState`, `USBHost_Pipe_State`, channels of the core, LED | host state machine, control requests, port interrupt | Configured means ready; no channel leaks; an attached device gets configured; nothing blocks for ever | partly: `UsbHost` |
| Clock (`Libraries/RTC/rtc.c`, `get_time`) | calendar registers | `RTC_Time` | seconds since 1970, never going back (within a 32-bit `time_t`) | modelled: `RtcClock`, `SystemTime` |
| Main loop (`main.c`) | request flag, `last_publish`, `last_command_sent`, alternation flag, last readings | one round | values are published every few seconds and were read for it; USB is not left unserved for long | modelled: `MainLoop` |
| Sensor driver (`Libraries/DPS310PressureSensor`) | `dps310_status`, `dps310_coeff`, the sensor's registers | init, configure, start, read results | the sensor measures as the driver believes; pressure is compensated with a measured temperature | partly: `Dps310` |
| I2C master (`Libraries/I2CMaster`) | `I2C_MASTER_RUNTIME_t`, both FIFOs, enabled interrupts | transmit, read byte, read block, two interrupt handlers | what reaches the bus is the call, in order; a call returns when it is carried out; no call is refused | partly: `I2cMaster`, `I2cBus` |
| Helpers (`SSM/Tributech_Lib.c`, `SSM/Base64.c`) | transaction number and its string | decimal, hexadecimal, base64 | - | formatting, not modelled; the number is `tx` of `SsmExchange` |
| JSON tokenizer (`SSM/jsmn.c`) | - | - | third-party | a choice in `SsmExchange` |
| Channel driver (`Libraries/XMCLib/src/xmc_usbh.c`) | - | - | vendor library | the parts relied on are in `UsbHost` |
| Descriptor parsing, mass storage class, UART, watchdog, start-up, system calls | - | - | pure I/O, never called, or third-party | not modelled (section 6) |

How they interact. The main loop calls `usb_host_communication`, which copies `USB_HostState` into
`USBHostState`, lights the LED and runs one step of the enumeration. When the copy says Configured
and a second has passed, the loop reads the sensor, in five or more I2C transfers of two seconds or
more each, and calls `provide_values`. That call writes the command to the bulk-OUT pipe in packets
of 64 bytes, each time waiting for the transfer, and then reads lines from the receive ring until one
differs from the command. The USB interrupt fills the ring, sets the transfer events, and on a plug
event writes `USB_HostState`; on a disconnect it also deletes the channels and zeroes the ring indices.
The clock decides three things: when a reading is due, when a value is due, and how long each wait of
a timed I2C transfer lasts.

What is hard here:

* the USB interrupt falls between any two accesses of the main loop to a variable both write: the
  ring indices and `USB_HostState`; the handlers of the I2C master fall between the program's own
  enabling of the interrupt and its start condition, and between two calls;
* the bytes of the ring and the pairing of command and answer depend on nothing but their order;
* failures in the middle: a packet that times out, an enumeration request that fails, an unplugging
  during a wait, a sensor that does not acknowledge;
* waits without an end: `receive_response`, the port reset, the parse loop, the I2C peripheral;
* old knowledge: `USBHostState` while the sensor is read, the time between the two tests of a round;
* arithmetic at its edges: the `uint8_t` length, ring wrap, the leap day, registers shared by bit
  fields, a signed coefficient divided as an unsigned number.

`PROJECT.json` lists each hazard at its line with the properties that cover it.

## 2. Modules

| Module | Content |
|---|---|
| `ByteFifo` | abstract specification of the receive path: a queue of bytes, forgotten when the connection is lost |
| `VcomRing` | the ring, its interrupt and its reader, one action per memory access that matters |
| `Dialogue` | abstract specification of the exchange: command, echo, answer, and what an unplugging does to them |
| `SsmExchange` | one command after the other with a device that echoes and answers; packets, toggles, timeouts, plug |
| `UsbHost` | enumeration with port interrupt, waits and channels |
| `RtcClock` | `RTC_Time` against the calendar |
| `SystemTime` | abstract clock: seconds pass, and the time may be a day behind |
| `I2cBus` | abstract specification of the I2C calls: one at a time, carried out when they return |
| `I2cMaster` | program, interrupt handlers, FIFOs, channel and device, instruction by instruction where they meet |
| `Dps310` | the driver's initialization and its reading of results, with the sensor's registers and the timed waits |
| `MainLoop` | the endless loop, which extends `Dps310` by the schedule and the host state |
| `...Proofs` | theorems about `VcomRing`, `SsmExchange`, `UsbHost`, `RtcClock`, `I2cMaster` and `MainLoop`; `Dps310Proofs` holds the lemmas on registers that the last one needs, `I2cFifoProofs` a second part about `I2cMaster`: FIFOs, order on the bus, `I2cBus` |
| `MC...` | instances for TLC |

The modules are split where the code has an interface that can be stated. `VcomRing` shows, by
refinement, that the ring is a lossless queue as long as fewer than `RXBUF_SIZE` bytes are unread;
`SsmExchange` uses it as a queue of lines with that capacity (`RingCapacity`). While transfers complete and the ring's reset is not torn, `SsmExchange` implements
`Dialogue`, in which a call of `provide_values` is four steps. `I2cMaster` implements
`I2cBus`: a call that returns has been carried out (but for a write whose last byte is refused), and
none is refused because the master is busy (`NeverRefused`). `Dps310` therefore treats a transfer as
one that succeeds or never returns. `RtcClock` shows that the time either counts the seconds or is
exactly one day behind; `SystemTime` is that, and `Dps310` and `MainLoop` run on it. In `MainLoop`
the exchange and the enumeration are places where any time may pass, as `SsmExchange` and `UsbHost`
leave it open; `UsbHost` treats the enumeration that is one step, `Configure` and `Enumerate`, in the
other models.

### 2.1 VcomRing

`curIndex`, `prevIndex` and `rxBuffer` are the variables of `USBVCH.c:120-126`. The interrupt's
handlers (`RxDataHandler`, `Disconnect`, `Connect`) are atomic: the reader runs at a lower level and
cannot interrupt them. The reader is `CDC_Host_ReceiveByte`, step by step: check of the
host state, `IsINReceived`, `BytesInPipe`, load of `prev_index`, its store, and the read of the slot.
The indices are not `volatile`, so `AdvancePrevIndex` may use the value loaded before or load it
again. A disconnect between the last check and the store (history variable `torn`) gives the only
anomaly of the reader; the properties about contents exclude it and the run `ring_reset` exhibits it.
`USBVCH_ReceiveByte` returns every byte through an `int8_t` whose value -1 also means "nothing"; since
JSON is ASCII no byte has that value, and the model does not distinguish it.

A packet arrives only while `armed`. `Configure` allows every outcome that the enumeration leaves
behind, including a failed line set-up with the pipe armed. `Window` is the number of bytes the device may leave unread: an assumption about the
SSM, not a guard of the code. Properties about overrun set it above the ring size.

### 2.2 SsmExchange

A line is its kind, the transaction it stems from and its length. The SSM is not in the repository.
What is assumed of it is what the code relies on: `receive_response` compares each line with the
command and skips it when equal, so the SSM echoes the command line and then answers with one line.
`DeviceTakes`, `EndsLine` and `DeviceSends` model that and are marked external.

`AfterSend` is the rest of a round of the chunk loop of `provide_values`. `USBVCH_SendData` reports
the number of bytes through `send_offset` only on success and the loop does not look at the result,
so the three outcomes are: sent (`ChunkSent`), timed out with the packet delivered or not
(`ChunkTimesOut`: the toggle advances in any case and `send_offset` keeps its value) and refused
(`ChunkRefused`). A packet whose toggle the device does not expect is acknowledged and dropped, as
USB prescribes. Bytes past the end of the command are zeros up to the end of `send_buffer`, and
anything after it.

`dirty` is how much of `RxBuffer` may hold old text: it is cleared only after an echo, so an echo
that is shorter than an earlier line does not compare equal. `Parse` may end in `looping`:
`parse_response` returns a negative error as a `uint16_t`, which the `uint8_t` counter of the loop
never reaches.

`Disconnect` is the disconnect interrupt at any point but one: it empties the ring. Between the check in
`CDC_Host_ReceiveByte` that found a byte and the store of `prev_index` it does not, as `VcomRing` shows
(`ring_reset`); that is `TornDisconnect`. Its old bytes, up to a whole ring of them, are not kept as a
sequence: they come in any order of slots, and one slot more or less decides where a line begins. `torn` says that they
may be there, and `ReadStale` allows everything that `receive_response` can make of them: a text up to the size of `RxBuffer`
(`Stale`) as the response, and any number of the lines behind them lost, merged or overrun. The response
may also end with the byte in hand, in which case the main loop goes on, enumerates the next device
and sends to it with the old bytes still unread. The next disconnect outside that moment clears the ring, but
not a text already taken from it (`pc = "parse"`).

`Dialogue` is what the main loop may believe of a call while transfers complete and no reset is torn (`PlugSpec`): the SSM hears the
command once and as a whole, its echo is skipped, the answer that ends the call is the one to this
command, and when the call is over nothing is left to be said. The mapping (`CallStep`, `Speech`,
`Reply`) shows of the backlog only the first line, and of that only kind and number; `Poll`, all packets
but the last, `DeviceSends` and `Connect` are stutters. An unplugging during the call is in it: the SSM falls
silent, and the call ends without an answer (`GiveUp`) or waits for ever.

### 2.3 UsbHost

`host` is `USB_HostState`, `at` and `job` are the place of the main program. Each state of
`USB_Host_ProcessNextHostState` that ends by storing the next one is two steps, `Dispatch` and
`Store`, because a wait lies between them and the interrupt may have written `host` meanwhile;
`NextState` is the table of what is stored. A control request is one step at the end of its wait:
answered (`RequestDone`), abandoned because the host state became WaitForDevice (`RequestGone`), or
timed out (`RequestHangs` where no answer is possible, `RequestTimesOut` where the device could have
answered). The three bulk and interrupt pipes are the lowest free channels, and `handle` holds the
four slots of `USBHost_Pipe_State` that the disconnect interrupt deletes.

Facts of the hardware and the vendor driver that the model takes over: plug events during a port
reset are ignored (`xmc_usbh.c:1180, 1199`); the port enable bit is set only by a reset with a device
present; a device is at the address and configuration it was given since its last reset, and answers
only there. A remote wakeup is not modelled because nothing suspends the bus. A device that is not a
CDC device is outside the model.

The plug moves at any moment and answers may be lost (`Spec`; in `CarelessSpec` none is lost). The
history variable `spoiled` remembers whether the plug has ever been pulled or put in at a moment that
`MayPull` and `MayPlug` exclude, or an answer lost. `ConfiguredIsReady`, `NoPipeLeaks`, `LedTells` and
`CarefulGetsConfigured` are about behaviours up to that point; `TypeOK`, `DeviceNotAhead` and
`OnlyResetHangs` about all.

### 2.4 RtcClock and SystemTime

`Time` is `RTC_Time` on the registers, which count days and months from zero; `Second`, `Midnight`,
`NextMonth` and `NewYear` are the calendar of the hardware. `elapsed` is what the program wants to
know. The conversion of hours and minutes is folded into the second of the day.

`RTC_Time` adds up the seconds in a `uint32_t` and stores them as a `time_t`, which in this build is a
signed number of 32 bits: `main.c` compares it with `bge` (`Release/main.o.lst:86-95`). `Seconds` is what
is added up, `Time` cuts it to `TimeRange` values (2^32) and gives it a sign. In January 2038 the time
falls to -2^31; after that `last_command_sent < get_time()` is false for good and nothing is published.

`SystemTime` starts its count when the clock is started and is about the 68 years until then: `RTC_0` sets the calendar
to 1970, so the limit is one of running time. `late` may change with every second, so that
it covers every place of the leap March in the run of the program.

### 2.5 I2cMaster

`at` and `call` are the program in `i2c_transmit_data`, `i2c_read_byte` or `i2c_read_block`; `isr` is
the place of the interrupt handler that runs. A handler runs to its end before the program goes on,
but the channel goes on meanwhile, so its loops and waits are steps of their own. The two handlers
have one priority and do not preempt each other. `runtime` holds the fields of `I2C_MASTER_RUNTIME_t`
that the configured mode uses; `events` are the enabled sources of the two interrupts, `pending` the
bits of the NVIC: `tx_busy` is cleared while interrupts of the same transfer are still pending, and
they are taken later, at any point of the next call.

External, after the reference manual of the channel: an entry of the transmit FIFO moves into a free
transmit buffer before the processor can read the buffer's status; the FIFO event comes when the last
entry leaves; an acknowledged start condition or byte is an event; a request to receive fills the
receive FIFO. The device may refuse to acknowledge any start condition or byte (`Refuse`); the status
flags are never cleared, so that from then on no handler sends anything.

`raced` remembers that the acknowledge of the register's address was handled between the enabling of
the interrupt and the repeated start. Requests to receive then stand in the FIFO before the start
condition; `BusInOrder` excludes that case and says so.

### 2.6 Dps310 and MainLoop

A timed transfer (`comparisontimer` on) is a sequence of waits, each ending when `get_time` has
advanced by a second since its begin: `waits` are those left, `before` is `time_recorder_before_sending`.
When the clock goes back meanwhile, a wait lasts a day longer. What a transfer reads is taken
when a wait ends and another follows, and used when the last is over. Untimed transfers take far less than a second and are part of
the step they belong to.

`regs` are the registers 6 to 9, which hold eight fields. `Field` and `With` are the shifts and masks of
`dps310_read_byte_bitfield` and `dps310_write_byte_bitfield`. `Measure` is the sensor: within a second it finishes a single
measurement, or has a value of each kind at the rates the program sets. The conversion of raw values to physical ones is a choice over
`Values`, of which one, "rate", equals the measure rate: that is what the loop remembers of the last
reading (`main.c:188, 200`), so it decides whether a value is published.

The wait after the soft reset is 200 ms before each poll, five times what the sensor needs for both
ready bits, so the model starts behind it.

`MainLoop` has one action per statement of the loop that reads or writes something shared with the
clock or the interrupt. Code between waits takes far less than a second: at most one tick falls into
a round outside its waits (`ticked`). That is where `FreshUnlessTick` gets its exception from: the
sensor is read when the first test sees a new second, a value is published when the second test does.

## 3. Runs

| Run | Specification | Question |
|---|---|---|
| `ring_overrun` | every interleaving, device up to 7 bytes ahead of a ring of 3 | indices in range; what an overrun loses |
| `ring_fifo` | ring of 4, at most 3 bytes unread, no disconnect inside the reader's load and store | the ring is a `ByteFifo`; the slot read after it was freed; the inductive invariant |
| `ring_reset` | every interleaving | *violated*: the indices are reset for good |
| `ssm_plug` | working transfers, answers not longer than commands, plug pulled at any moment but inside the reader's load and store of `prev_index` | own answers, nothing left over, the call returns; `Dialogue` |
| `ssm_faults` | timeouts, lost packets, answers of 176 and 1,030 characters, plug pulled at any moment, old bytes after a torn reset | send arithmetic; bytes counted as sent were taken; a backlog is never worked off |
| `ssm_replug` | plug pulled and put back | *violated*: readings resume |
| `usb_races` | any user, lost answers | Configured means ready, no leaks, LED, progress for a careful user; channel numbers, no second enumeration, two places to hang for any user |
| `usb_stuck` | careless user, a device that answers | *violated*: an attached device gets configured |
| `rtc_year` | 1970 to 2107, days of two seconds, a `time_t` of as many days as in the program | `RTC_Time` is right, cut to a `time_t`, but for March of leap years, and its steps are of one second but at that month's ends and at the limit of `time_t` |
| `rtc_march` | the same | *violated*: `RTC_Time` counts seconds since 1970 |
| `i2c` | program, handlers, channel, a device that may refuse any byte | order on the bus, FIFO levels, no call refused, `I2cBus` |
| `board` | sensor and main loop, a clock that may fall back once, unplugging at any time | how long USB is not served, how often values are published, which values, and the sensor's settings |

Deadlock checking is off where the system really stops: in `ssm_faults`, where the parse loop (and
the bound on the backlog) ends the behaviour; in the RTC runs, where the clock stops at the end of `LastYear`;
in `i2c`, where a transfer that is not acknowledged is waited for without limit; in `board`, where
the program hangs in such a transfer, and time ends at `MaxTime`.

Bounds. `RXBUF_SIZE` 3 or 4 with packets of one or two bytes over two byte values: enough for every
position of both indices, wrapped and unwrapped packets, and (window 7) two whole laps; the theorems
cover every size. `TxLimit` 3, 4 and 7: transaction numbers only need to tell a command from the ones whose
lines can still be unread, for which 7 is just enough with the other bounds of `ssm_faults` (`LateFits`, section 5); the wrap of the counter is included. Line lengths are those of the
program (commands of 175 and 176 characters as the number gains a digit: three packets; answers
shorter and as long as commands in `ssm_plug`, in `ssm_faults` one as long as the longer command and one
longer than `RxBuffer`). `MaxBacklog` and
`MaxTimeouts` 2: a timeout in the first packet, in a later one and in two of them, which is when the
toggles agree again. `MaxPipes` 6 and 9 instead of 14: four channels are in use at a time, so
two to five leaks exhaust them and every number of leaks below is passed through. Days of two seconds keep
the distinction between midnight and other seconds; `TimeRange` is 99,420, two for each of the 49,710
days that 2^32 seconds are, so that the limit falls into January 2038 and the wrap into February 2106 as in the program; the years pass 2000, a leap
year, 2100, which is not, and both limits. `FifoSize` 4 and `MaxLen` 3 instead of 32 and 18: a call still needs fewer entries than
the FIFO has, and more than one; one, two and three bytes are the first and last, and one in the
middle. In `board`, a `Day` of three seconds is longer than one wait and shorter than a reading, and
`MaxTime` 34 holds the initialization, the longest reading with a fall of the clock in any wait, and the
interval to the second publishing after it (about 4.9 million states, one to two minutes). The settings are those
of `dps310_config.c`.

Fairness. `SsmExchange` assumes weak fairness of each step of the main program (it is a loop without
scheduler), of the device's answers and of plugging it in; `Returns` and `KeepsProviding` use it. `UsbHost`
assumes weak fairness of the main program only: waits time out after 5000 polls, delays end because
SysTick counts. `I2cMaster` assumes that the program runs, that pending interrupts are taken, and that
the channel works off its FIFO. `MainLoop` states none; its properties about time are bounds in
seconds, which hold because every wait either ends or hangs. No fairness is assumed of users,
interrupts or failures.

## 4. What the runs show

* The ring is sound where it is easily doubted: freeing the slot before reading it is harmless while
  the device leaves fewer bytes unread than the ring has slots (`InHandSafe`), and overrun loses exact multiples of
  the ring size and nothing else (`RingHoldsNewest`).
* The reset of the ring on a disconnect can be undone by a reader caught between load and store: the
  next connection then starts with up to `RXBUF_SIZE - 1` stale bytes (`ring_reset`; against
  `SSM/USB_Host.c:165`). If the byte in hand ends the response, the main loop goes on, and the old bytes
  are the answer to the next command: in step, own answers and a loop that ends are not to be had then.
* With working transfers and answers no longer than the command, the exchange is in step through
  every unplugging outside that moment (`PlugSpec`). One line too many is enough to lose that for good: `receive_response` never
  empties the ring, each later reading is attributed an older answer (`LateStaysLate`) and the
  backlog grows (`LagGrows`).
* The loop over the packets of a command does not look at the result of `USBVCH_SendData`. As long as
  nothing times out, what it counts as sent was taken (`SentIsTaken`); a packet that times out after
  the first counts as sent with the offset of the one before, although `SSM/Tributech_SSM_API.c:116` says
  that "send_offset returns the sum of bytes which where send".
* Unplugging while an answer is awaited ends all readings, as only the main loop enumerates and the
  main loop waits (`ssm_replug`; against `src/README.md:30-31`).
* The enumeration is sound for a device that is unplugged between its steps. In the middle
  of a delay or request, `USB_HostState` is overwritten by what the main program stores at the end; from then on
  Configured may be wrong and channels leak, and a device can stay attached and
  unconfigured for ever (`usb_stuck`; against `Libraries/USBH_VCOM/USBVCH.h:173-174`). The loop itself
  goes on, except in a port reset without a device and after the last channel has leaked
  (`OnlyResetHangs`).
* `RTC_Time` is a day behind in March of leap years (`rtc_march`; against `Libraries/RTC/rtc.c:467`):
  the time goes back by a day at the end of February and skips one at the end of March. Apart from that it
  is right as far as a `time_t` of 32 bits goes, that is until January 2038 (`RightExceptLeapMarch`, `StepsOfOne`).
* The I2C master carries out every call as it was made, in whatever order its interrupts come, and is
  free between two calls although interrupts of the first may still be pending. One race remains:
  if the acknowledge of the register's address is handled between the enabling of the interrupt and the
  repeated start, the requests to receive come first (`raced`).
* With a sensor that answers, USB is not served for at most 12 seconds (`Blind`), and while the SSM
  stays connected a value is published, or found to be unchanged, every 13 seconds (`KeepsPublishing`); where the
  clock goes back, a day later. Both are far from the one second of `cycle_time_s`: every wait of a
  timed transfer costs a second. A device that is unplugged meanwhile is noticed only afterwards.
* A published value has been read since the one before, unless a second begins between the
  two tests of a round (`FreshUnlessTick`).
* The sensor's settings survive the writes of bit fields that share registers
  (`MeasuresAsConfigured`), and pressure is never compensated with the initial temperature of zero
  (`Compensated`).

## 5. Theorems

| Theorem | Statement | Assumption |
|---|---|---|
| `VcomRingProofs!TypeCorrect` | `Spec => []TypeOK` | - |
| `RingCorrect`, `InHandCorrect`, `NewestCorrect` | `Spec => []RingInv`, `[]InHandSafe`, `[]RingHoldsNewest` | `WindowFits` |
| `RingImplementsFifo` | `QuietSpec => FifoSpec` | `WindowFits` |
| `SsmExchangeProofs!TypeCorrect` | `Spec => []TypeOK` | - |
| `InStepCorrect`, `AnswersCorrect`, `LeftOverCorrect` | `PlugSpec => []InStep`, `[]AnswersOwnCommand`, `[]NothingLeftOver` | `ResponsesFit` |
| `TalkImplemented` | `PlugSpec => Talk!Init /\ [][Talk!Next]_(Talk!vars)`: `TalkSpec` without its fairness | `ResponsesFit` |
| `SentCorrect` | `Spec => []SentIsTaken` | `CommandsFit` |
| `LateCorrect`, `LagCorrect` | `Spec => []LateStaysLate`, `[]LagGrows` | `CommandsFit`, `LateFits` |
| `UsbHostProofs!TypeCorrect`, `DeviceCorrect` | `Spec => []TypeOK`, `[]DeviceNotAhead` | - |
| `ReadyCorrect`, `NoLeakCorrect`, `LedCorrect` | `Spec => []ConfiguredIsReady`, `[]NoPipeLeaks`, `[]LedTells` | - |
| `RtcClockProofs!ClockCorrect`, `StepsCorrect` | `Spec => []RightExceptLeapMarch`, `Spec => StepsOfOne` | - |
| `I2cMasterProofs!NeverRefusedCorrect` | `Spec => []NeverRefused` | - |
| `I2cFifoProofs!TypeCorrect`, `FifosFitCorrect`, `BusInOrderCorrect` | `Spec => []TypeOK`, `[]FifosFit`, `[]BusInOrder` | - |
| `BusImplemented` | `Spec => Bus!Init /\ [][Bus!Next]_(Bus!vars)`: `BusSpec` without its fairness | - |
| `MainLoopProofs!TypeCorrect`, `MeasuresCorrect`, `CompensatedCorrect` | `Spec => []TypeOK`, `[]MeasuresAsConfigured`, `[]Compensated` | - |
| `BlindCorrect`, `PublishCorrect`, `FreshCorrect` | `Spec => []Blind`, `[]KeepsPublishing`, `Spec => FreshUnlessTick` | - |

All hold for every value of the constants that satisfies the assumptions of the module (ring sizes;
line lengths; at least four channels; length of a day, width of `time_t` and last year; FIFOs that hold a call; settings of
three bits) and the one named. `WindowFits` says that the device leaves fewer than `RXBUF_SIZE` bytes unread;
`PlugSpec` says that every transfer completes and that the plug is pulled at any moment but inside the
reader's load and store of `prev_index`, as `QuietSpec` does for the ring; what the exchange does otherwise
is in `Spec`, with `LateStaysLate` and `LagGrows` about behaviours without old bytes in the ring (`~torn`). `CommandsFit` is what the program's numbers satisfy: a command fits into `send_buffer`, the
eight bits of `length` and `RxBuffer`. `ResponsesFit` adds what must hold of the SSM: an answer is not longer than any
command. `LateFits` says that no answer fills `RxBuffer` more than twice over (2,050 characters; the ring
holds 2,047, so that a longer one never arrives as a line) and that the transaction numbers do not come
round while a line can still be unread: `2 * MaxBacklog + MaxTimeouts < TxLimit`. `MaxBacklog` and
`MaxTimeouts` are bounds of the model and not of the code. With the program's 1,000,000 numbers this leaves room
for backlogs and timeouts in the hundred thousands, of which the ring could not hold the lines.

The ring. `RingHoldsNewest` and `InHandSafe` are not inductive: they do not say where in the buffer
the unread bytes are. `RingInv` does: the indices are `Len(pending)` apart modulo the size, slot
`prevIndex + i - 1` holds byte `i`, and the reader's `loc_index` is the slot it is about to free or
has just freed. The heart of the proof is that a packet that fits into the window does not touch the
slots of the unread bytes nor the one in hand (`PacketStep`), and that advancing shifts the window
by one (`AdvanceStep`). After a disconnect inside the reader (`torn`) the invariant is vacuous until
the next clean disconnect re-establishes it. For the refinement, the abstract queue is the unread
bytes preceded by the byte in hand.

The exchange. `InStep` says, for every place of the main program, what is unread and how much of the
command the device has. It needs `hostToggle = devToggle` (or a packet would be dropped) and a bound on `dirty`
(or an echo would not be recognised). `ChunkStep` is the arithmetic of a packet: bytes sent and
`length` always add up to the command. `Received` follows echo and answer through the ring.
The refinement of `Dialogue` (`TalkImplemented`) needs no more than `InStep`: it says which line comes next at each
place, so the last packet is the step in which the SSM hears the command (`ChunkTalks`), and what
`receive_response` does is skipping its echo or taking its answer (`ReceiveTalks`).

The exchange with failures. Nothing is in step here, so the invariants only speak of the beginning of the backlog.
`Counted` is `InStep` as far as it survives until the first timeout, whatever is left unread: enough for `SentIsTaken`, and, with a count of the lines behind the
late ones, for `LagGrows` (`Growing`, while `~torn`). `LateStaysLate` compares transaction numbers, and
numbers come round; its invariant `Late` therefore bounds how long ago a line's command was sent (`AgesFit`): the
line at position `i` is at most `Room - 2 * i` transactions old. A new transaction makes each line older by
one; the exchange it begins then takes a line from the front, loses the connection and with it the backlog, or
times out, which `Room` counts. A line longer than `RxBuffer` is taken in two parts, but not in three (`LinesFit`).

The enumeration. `JobFits` ties the request in progress to the place of the main program. `DeviceFits`
says how far the device can be for each host state and request, which gives `DeviceNotAhead` for every
user. For the careful one, `StageFits` says for each host state which device is there and which channels exist:
none before the first pipe is opened (`NoneOpen`), exactly those of the slots after it, so that the
disconnect interrupt finds them all. `FirstChannels` shows that three pipes after the control pipe get three
different channels whatever `MaxPipes` is.

The clock. The invariant `Counted` says that the seconds since 1970 are those of the day number
`RTC_Time` computes, plus one in March of a leap year. It is about unbounded numbers; the cut to 32 bits and the sign
come after it (`SecondsRight`, `SmallTimes`). The month table is unfolded once (`MonthTable`).
The number of earlier leap years grows by one with each leap year (`NextLeaps`, from the
cardinality of a set with one more element). What is left is a comparison of day numbers from one day
to the next (`SameMonth`), from one month to the next (`MonthEnds`, where the error appears and
disappears) and from one year to the next (`YearEnds`).

The I2C master. `NeverRefused` needs to know that the flags follow the place of program and handlers
(`InCall`), that a repeated start is on its way only in the call that sent it and while nothing has
been received (`RestartFits`), and that bytes arrive only after it, as many as were asked for (`ReceptionFits`);
otherwise the receive handler could end a reception that the program has not begun. The proof goes through
every handler, including the ones left pending by the call before, and through the race.

Its FIFOs. `FifosFit` rests on `Levels`: when the handlers are `Through` with a call, the transmit FIFO is
empty and all entries of the call have been put into it, so that a start condition finds at most the
bytes of its own call, and a stop finds nothing. For a read this needs that the last byte comes only
for the request that is not acknowledged, and that this one is put into the FIFO last (`NackFits`).
The proof includes a refused call, of which the entries run off unheard.

Their order. Each call has a stream of entries (`Item`: start, byte, repeated start, requests, stop). The device has
taken it up to the position `Taken`, the handlers have put it into the FIFO up to `PutSoFar`, and as long as
nothing has been refused what is on the way is exactly what lies between (`InStream`). This is inductive only with the flags and
places it rests on (`Flow`), and because the race puts an entry in before its start condition, with
the two broken streams it leads to (`EarlyByte`, `EarlyRequest`), whose early entry the device refuses when it comes to it:
`BusInOrder` is about `~raced`, the invariant about both. The refinement of `I2cBus` then follows: the
device takes the last item of a call before the handlers clear the busy flag (`Flow`), and what is on the way when no call is in progress
is at most the stop of the one before, so nothing is carried out or refused without a call (`Calling`, `HeadTells`).

The main loop. `SensorFits` relates registers, driver and place: what the driver believes and what the
registers hold change in the same steps. The registers are bytes taken apart into their fields
(`PartsOf`), and each of the eight writes is shown to change its field and no other. `ReadingFits` says that
every kind whose turn comes has been read in this round or `round` tells why not. `BlindFits` and `PublishFits`
are sums of time: at each place, the seconds since the last poll (or publishing) are at most those of
the waits behind it and the ones left, and a day if the clock has fallen. A wait lasts one second
unless the clock falls in it (`WaitTick`, `WaitNext`, `WaitEnds`).

Not provable here and left to TLC: liveness (`Returns`, `KeepsProviding`, `GetsConfigured`,
`CarefulGetsConfigured`, `OnlyResetHangs`) and the fairness of `BusSpec` and `TalkSpec`, of which the
initial states and the steps are proved. Every invariant and every action property of the passing runs is a theorem.

## 6. Not modelled

Nearly all of the repository's lines of C are headers and drivers of the chip's vendor (register maps, XMCLib, CMSIS)
of which the program uses a few functions, and the parts of the USB library for devices and for mass
storage, which it does not use. What they do for the program is in the models at the place where it
is called and marked external.

* `get_id`, the alarm and setters of the clock, the watchdog (all calls are commented out), the single
  pressure measurement, standby and de-initialization of the sensor, polling and DMA modes and the abort function of the
  I2C master, the mass storage class, `b64_decode`, the value and device identifiers: never called, or
  compiled out.
* Formatting (transaction number, hexadecimal time stamp, base64, error texts) and the debug UART: no property depends on them;
  the models keep the length of a command.
* The tokenizer and the walk over the configuration descriptor: pure functions of what the device sends; the first is a choice in
  `SsmExchange`, the second always finds the CDC interfaces in `UsbHost`.
* Remote wakeup: nothing suspends the bus.
* The coefficients and the conversion of raw values with them: a choice in `Dps310`. Read, not checked: `dps310_ctrl.c:326`
  divides the `int32_t` `c0_half` by `2U`, so that a negative `c0` becomes a number near 2^31, which
  `calc_temp` (`:176`) adds to the temperature; the comment above it (`:325`) says that `c0` "is only used as c0*0.5".
* System calls and start-up code.

Six hazards in the list have no property. Two were named above: the halving of a negative `c0`, and the packet that
times out in the middle of a command, where `SentIsTaken` ends. The others follow. What the loop remembers of the last reading is the measure
rate and not the reading; the model has it so, but nothing says what the program should do with a
value that equals the rate. The LED may be lit from an outdated copy of the host state until the next round:
`LedTells` excludes that moment. A value may be published that was not read in this
round: `FreshUnlessTick` says in which case and no other. A sensor that does not acknowledge stops the
program: the models have the endless wait, and nothing says that a call returns.

Left to do: an abstract specification of the enumeration that `UsbHost` implements for a careful user.

## 7. How to run

    tlc -config ring_fifo.cfg MCVcomRing
    tlapm VcomRingProofs.tla

The runs ending in a violation are `ring_reset`, `ssm_replug`, `usb_stuck` and
`rtc_march`. The definitions whose names end in `Mutant` (and `DarkMutant`, `RetryMutant`, ...) are
variants of the code with a plausible error; replacing the original by one of them makes the property
named with it in `PROJECT.json` fail. They play no part in the specifications.

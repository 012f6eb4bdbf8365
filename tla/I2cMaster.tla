----------------------------- MODULE I2cMaster ------------------------------
(***************************************************************************)
(* The I2C master as the sensor driver uses it: the program starts a       *)
(* transfer and polls tx_busy or rx_busy until the two interrupt handlers  *)
(* of I2C_MASTER have finished it, while the serial channel works off its  *)
(* transmit FIFO.  Modelled are the interrupt transfer mode, both FIFOs    *)
(* enabled, no callbacks, as i2c_master_conf.c configures them.  All calls *)
(* begin with a start condition; i2c_read_byte and i2c_read_block write    *)
(* the register address without a stop and then receive with a repeated    *)
(* start, a stop and a NACK on the last byte.                              *)
(*                                                                         *)
(* External, after the channel's reference: an entry of the FIFO moves to  *)
(* a free transmit buffer before the processor reads the buffer's status;  *)
(* the FIFO event comes when its last entry leaves.                        *)
(***************************************************************************)
EXTENDS Naturals, Sequences

CONSTANTS
  FifoSize,   \* entries of each FIFO (32)
  MaxLen      \* most data bytes of a call (the driver: 18)

ASSUME SizeAssumption ==
  /\ FifoSize \in Nat /\ MaxLen \in Nat
  /\ 1 <= MaxLen /\ MaxLen < FifoSize

VARIABLES
  at,        \* where the program is in i2c_master_ctrl.c
  call,      \* the call it is in
  runtime,   \* I2C_MASTER_RUNTIME_t
  isr,       \* where the running interrupt handler is, or "none"
  events,    \* enabled sources of interrupts
  pending,   \* interrupts pending in the NVIC
  fifo,      \* transmit FIFO
  line,      \* what left it: the shift register, then the transmit buffer
  received,  \* bytes in the receive FIFO
  limit,     \* level at which the receive FIFO interrupts
  error,     \* the status flags checked by TransmitHandler, never cleared
  bus,       \* the transfer as the device sees it
  done,      \* history: the device has carried out the call
  raced      \* history: the handler ran between the enabling of its interrupt
             \* and the start condition

program  == <<at, call>>
driver   == <<runtime, isr, events>>
channel  == <<pending, fifo, line, received, limit, error>>
device   == <<bus, done>>
vars     == <<program, driver, channel, device, raced>>

\* deaf: the device had failed to acknowledge before the call began.
Calls  == [op : {"write", "read"}, n : 1 .. MaxLen, deaf : BOOLEAN]
NoCall == [op |-> "none", n |-> 0, deaf |-> FALSE]

\* What goes through the transmit FIFO: conditions on the bus, data bytes (the
\* n-th of the call), requests to receive a byte and acknowledge it or not.
Sorts  == {"start", "restart", "stop", "byte", "ack", "nack"}
Entry  == [sort : Sorts, n : 0 .. MaxLen]
Mark(sort) == [sort |-> sort, n |-> 0]
Byte(i)    == [sort |-> "byte", n |-> i]

Lesser(a, b) == IF a < b THEN a ELSE b
Full         == Len(fifo) >= FifoSize
BufferFree   == fifo = <<>> /\ Len(line) < 2
SentAll      == runtime.tx_data_index = runtime.tx_data_count

Init ==
  /\ at = "idle" /\ call = NoCall
  /\ runtime = [direction |-> "transmit", tx_busy |-> FALSE, rx_busy |-> FALSE,
                bus_acquired |-> FALSE, send_stop |-> FALSE,
                tx_data_index |-> 0, tx_data_count |-> 0,
                rx_data_index |-> 0, rx_data_count |-> 0]
  /\ isr = "none" /\ events = {"rxFifo"} /\ pending = {}
  /\ fifo = <<>> /\ line = <<>> /\ received = 0 /\ limit = FifoSize
  /\ error = FALSE
  /\ bus = [phase |-> "free", count |-> 0] /\ done = FALSE
  /\ raced = FALSE
-----------------------------------------------------------------------------
(* The program.  It runs only while no handler does. *)

\* I2C_MASTER_StartTransmitIRQ up to enabling the acknowledge interrupt, for
\* i2c_transmit_data, i2c_read_byte and i2c_read_block, which return -1 if the
\* master is busy.  In a read the data is the register's address and the bus is
\* kept.
Transmit(op, n) ==
  /\ at = "idle" /\ isr = "none"
  /\ IF runtime.tx_busy
     THEN /\ runtime' = [runtime EXCEPT !.direction = "transmit"]
          /\ UNCHANGED <<program, events>>
     ELSE /\ runtime' = [runtime EXCEPT !.direction = "transmit", !.tx_busy = TRUE,
                           !.tx_data_count = IF op = "write" THEN n ELSE 1,
                           !.tx_data_index = 0, !.send_stop = (op = "write")]
          /\ events' = events \cup {"ack"}
          /\ at' = "startTx"
          /\ call' = [op |-> op, n |-> n, deaf |-> error]
  /\ UNCHANGED <<isr, channel, device, raced>>

\* I2C_MASTER_lSendStart_Or_RepeatedStart, the end of both Start functions.
SendStart ==
  /\ at \in {"startTx", "startRx"} /\ isr = "none"
  /\ fifo' = Append(fifo, Mark(IF runtime.bus_acquired THEN "restart" ELSE "start"))
  /\ runtime' = [runtime EXCEPT !.bus_acquired = TRUE]
  /\ at' = IF at = "startTx" THEN "tx" ELSE "rx"
  /\ UNCHANGED <<call, isr, events, pending, line, received, limit, error, device, raced>>

\* The register's address is sent: I2C_MASTER_StartReceiveIRQ with
\* lReceive_FIFOData, up to enabling the acknowledge interrupt.
Receive ==
  /\ at = "tx" /\ call.op = "read" /\ isr = "none" /\ ~runtime.tx_busy
  /\ IF runtime.rx_busy
     THEN /\ at' = "idle" /\ call' = NoCall
          /\ UNCHANGED <<runtime, events, received, limit>>
     ELSE /\ runtime' = [runtime EXCEPT !.direction = "receive",
                           !.tx_busy = TRUE, !.rx_busy = TRUE, !.send_stop = TRUE,
                           !.tx_data_count = call.n, !.rx_data_count = call.n,
                           !.tx_data_index = 0, !.rx_data_index = 0]
          /\ events' = events \cup {"ack", "rxFifo"}
          /\ received' = 0
          /\ limit' = Lesser(call.n, FifoSize)
          /\ at' = "startRx" /\ UNCHANGED call
  /\ UNCHANGED <<isr, pending, fifo, line, error, device, raced>>

\* The polling loop ends and the call returns.
Return ==
  /\ isr = "none"
  /\ \/ at = "tx" /\ call.op = "write" /\ ~runtime.tx_busy
     \/ at = "rx" /\ ~runtime.rx_busy
  /\ at' = "idle" /\ call' = NoCall /\ done' = FALSE
  /\ UNCHANGED <<driver, channel, bus, raced>>
-----------------------------------------------------------------------------
(* I2C_MASTER_TransmitHandler, on an acknowledge or an empty FIFO.  Clearing *)
(* its own pending interrupt, when all is sent, comes with entering it.      *)

TransmitHandler ==
  /\ isr = "none" /\ "tx" \in pending
  /\ pending' = pending \ {"tx"}
  /\ \/ error /\ events' = events \ {"txFifo"} /\ UNCHANGED isr
     \/ /\ ~error /\ runtime.direction = "transmit" /\ ~SentAll
        /\ events' = (events \ {"ack"}) \cup {"txFifo"}
        /\ isr' = "fill"
     \/ /\ ~error /\ runtime.direction = "transmit" /\ SentAll
        /\ events' = events \ {"txFifo"}
        /\ isr' = "drain"
     \/ /\ ~error /\ runtime.direction = "receive"
        /\ events' = events \ {"txFifo"}
        /\ isr' = "ask"
  /\ raced' = (raced \/ at \in {"startTx", "startRx"})
  /\ UNCHANGED <<program, runtime, fifo, line, received, limit, error, device>>

\* Mutant: the comparison with the count is off by one.
FillMutant ==
  /\ isr = "fill"
  /\ IF Full \/ runtime.tx_data_index > runtime.tx_data_count
     THEN isr' = "none" /\ UNCHANGED <<fifo, runtime>>
     ELSE /\ fifo' = Append(fifo, Byte(runtime.tx_data_index + 1))
          /\ runtime' = [runtime EXCEPT !.tx_data_index = @ + 1]
          /\ UNCHANGED isr
  /\ UNCHANGED <<program, events, pending, line, received, limit, error, device, raced>>

\* The loop that loads the FIFO byte by byte.
Fill ==
  /\ isr = "fill"
  /\ IF Full \/ SentAll
     THEN isr' = "none" /\ UNCHANGED <<fifo, runtime>>
     ELSE /\ fifo' = Append(fifo, Byte(runtime.tx_data_index + 1))
          /\ runtime' = [runtime EXCEPT !.tx_data_index = @ + 1]
          /\ UNCHANGED isr
  /\ UNCHANGED <<program, events, pending, line, received, limit, error, device, raced>>

\* The FIFO is empty: I2C_MASTER_lSendStop_JumpTo_TxCallback up to its wait.
Drained ==
  /\ isr = "drain" /\ fifo = <<>>
  /\ IF runtime.bus_acquired
     THEN /\ isr' = "finishTx"
          /\ events' = events \ {"ack"}
          /\ IF runtime.send_stop
             THEN /\ runtime' = [runtime EXCEPT !.bus_acquired = FALSE]
                  /\ fifo' = Append(fifo, Mark("stop"))
             ELSE UNCHANGED <<runtime, fifo>>
     ELSE isr' = "none" /\ UNCHANGED <<events, runtime, fifo>>
  /\ UNCHANGED <<program, pending, line, received, limit, error, device, raced>>

\* Mutant: no wait for the transmit buffer.
FinishTxMutant ==
  /\ isr = "finishTx"
  /\ runtime' = [runtime EXCEPT !.tx_busy = FALSE]
  /\ isr' = "none"
  /\ UNCHANGED <<program, events, channel, device, raced>>

\* Its wait for the transmit buffer, and its end.
FinishTx ==
  /\ isr = "finishTx" /\ BufferFree
  /\ runtime' = [runtime EXCEPT !.tx_busy = FALSE]
  /\ isr' = "none"
  /\ UNCHANGED <<program, events, channel, device, raced>>

\* Mutant: the NACK comes one byte late.
RequestMutant(i) == Mark(IF i = runtime.tx_data_count THEN "nack" ELSE "ack")

\* The next request to receive a byte, the last one not to be acknowledged.
Request(i) == Mark(IF i + 1 = runtime.tx_data_count THEN "nack" ELSE "ack")

\* Mutant: the comparison with the count is off by one.
AskMutant ==
  LET stop == Full \/ runtime.tx_data_index > runtime.tx_data_count
      next == IF stop THEN runtime.tx_data_index ELSE runtime.tx_data_index + 1
      last == stop \/ next >= FifoSize
  IN  /\ isr = "ask"
      /\ runtime' = [runtime EXCEPT !.tx_data_index = next]
      /\ fifo' = IF stop THEN fifo ELSE Append(fifo, Request(runtime.tx_data_index))
      /\ isr' = IF last THEN "none" ELSE "ask"
      /\ events' = IF last /\ next >= runtime.tx_data_count THEN events \ {"ack"} ELSE events
      /\ UNCHANGED <<program, pending, line, received, limit, error, device, raced>>

\* The loop that asks for the bytes; it stops at the size of a FIFO.
Ask ==
  LET stop == Full \/ SentAll
      next == IF stop THEN runtime.tx_data_index ELSE runtime.tx_data_index + 1
      last == stop \/ next >= FifoSize
  IN  /\ isr = "ask"
      /\ runtime' = [runtime EXCEPT !.tx_data_index = next]
      /\ fifo' = IF stop THEN fifo ELSE Append(fifo, Request(runtime.tx_data_index))
      /\ isr' = IF last THEN "none" ELSE "ask"
      /\ events' = IF last /\ next = runtime.tx_data_count THEN events \ {"ack"} ELSE events
      /\ UNCHANGED <<program, pending, line, received, limit, error, device, raced>>
-----------------------------------------------------------------------------
(* I2C_MASTER_ReceiveHandler, at the limit of the receive FIFO. *)

\* Bytes remain: a new limit, and requests for as many as the FIFO takes.
AskAgain(index) ==
  LET count == runtime.rx_data_count
      asked == runtime.tx_data_index
      more  == Lesser(count - asked, FifoSize - Len(fifo))
  IN  /\ limit' = Lesser(count - index, FifoSize)
      /\ fifo' = fifo \o [i \in 1 .. more |-> Request(asked + i - 1)]
      /\ runtime' = [runtime EXCEPT !.rx_data_index = index, !.tx_data_index = asked + more]
      /\ UNCHANGED <<isr, events>>

\* The last byte: lSendStop_JumpTo_RxCallback follows.
AllRead ==
  /\ runtime' = [runtime EXCEPT !.rx_data_index = runtime.rx_data_count, !.rx_busy = FALSE]
  /\ events' = events \ {"rxFifo"}
  /\ isr' = IF runtime.bus_acquired THEN "stopRx" ELSE "none"
  /\ UNCHANGED <<fifo, limit>>

ReceiveHandler ==
  LET taken == Lesser(received, runtime.rx_data_count - runtime.rx_data_index)
      index == runtime.rx_data_index + taken
  IN  /\ isr = "none" /\ "rx" \in pending
      /\ pending' = pending \ {"rx"}
      /\ IF runtime.rx_busy
         THEN /\ received' = received - taken
              /\ IF index < runtime.rx_data_count THEN AskAgain(index) ELSE AllRead
         ELSE UNCHANGED <<runtime, isr, events, fifo, received, limit>>
      /\ UNCHANGED <<program, line, error, device, raced>>

\* I2C_MASTER_lSendStop_JumpTo_RxCallback up to its second wait.
StopRx ==
  /\ isr = "stopRx" /\ (runtime.send_stop => BufferFree)
  /\ IF runtime.send_stop
     THEN /\ runtime' = [runtime EXCEPT !.bus_acquired = FALSE]
          /\ fifo' = Append(fifo, Mark("stop"))
     ELSE UNCHANGED <<runtime, fifo>>
  /\ isr' = "finishRx"
  /\ UNCHANGED <<program, events, pending, line, received, limit, error, device, raced>>

\* Mutant: tx_busy is left set.
FinishRxMutant ==
  /\ isr = "finishRx" /\ BufferFree
  /\ runtime' = [runtime EXCEPT !.rx_busy = FALSE]
  /\ isr' = "none"
  /\ UNCHANGED <<program, events, channel, device, raced>>

\* Its second wait, and its end.
FinishRx ==
  /\ isr = "finishRx" /\ BufferFree
  /\ runtime' = [runtime EXCEPT !.rx_busy = FALSE, !.tx_busy = FALSE]
  /\ isr' = "none"
  /\ UNCHANGED <<program, events, channel, device, raced>>

Handlers == \/ TransmitHandler \/ Fill \/ Drained \/ FinishTx \/ Ask
            \/ ReceiveHandler \/ StopRx \/ FinishRx
-----------------------------------------------------------------------------
(* The serial channel and the device. *)

\* An entry leaves the FIFO; the last one interrupts.
Load ==
  /\ fifo # <<>> /\ Len(line) < 2
  /\ fifo' = Tail(fifo) /\ line' = Append(line, Head(fifo))
  /\ pending' = IF Len(fifo) = 1 /\ "txFifo" \in events
                THEN pending \cup {"tx"} ELSE pending
  /\ UNCHANGED <<program, driver, received, limit, error, device, raced>>

\* Is e what the device can take next in the call?
Fits(e) ==
  CASE e.sort = "start"   -> bus.phase = "free" /\ call # NoCall
    [] e.sort = "restart" -> bus.phase = "write" /\ call.op = "read" /\ bus.count = 1
    [] e.sort = "byte"    -> /\ bus.phase = "write" /\ e.n = bus.count + 1
                             /\ e.n <= (IF call.op = "read" THEN 1 ELSE call.n)
    [] e.sort = "ack"     -> bus.phase = "read" /\ bus.count + 1 < call.n
    [] e.sort = "nack"    -> bus.phase = "read" /\ bus.count + 1 = call.n
    [] e.sort = "stop"    -> bus.phase = "over"

After(e) ==
  CASE e.sort = "start"   -> [phase |-> "write", count |-> 0]
    [] e.sort = "restart" -> [phase |-> "read", count |-> 0]
    [] e.sort = "stop"    -> [phase |-> "free", count |-> 0]
    [] OTHER              ->
         [phase |-> IF bus.count + 1 = call.n /\ bus.phase = call.op THEN "over" ELSE bus.phase,
          count |-> bus.count + 1]

\* Start conditions and bytes are acknowledged by the device, which interrupts;
\* a request puts a byte into the receive FIFO, which interrupts at its limit.
Shift ==
  LET e == Head(line)
  IN  /\ line # <<>> /\ ~error /\ Fits(e)
      /\ line' = Tail(line)
      /\ bus' = After(e)
      /\ done' = (done \/ (bus'.phase = "over"))
      /\ received' = IF e.sort \in {"ack", "nack"} THEN received + 1 ELSE received
      /\ pending' = pending
           \cup {i \in {"tx"} : e.sort \in {"start", "restart", "byte"} /\ "ack" \in events}
           \cup {i \in {"rx"} : e.sort \in {"ack", "nack"} /\ "rxFifo" \in events
                                /\ received' = limit}
      /\ UNCHANGED <<program, driver, fifo, limit, error, raced>>

\* The device does not acknowledge, or the entry cannot be carried out.
Refuse ==
  /\ line # <<>> /\ ~error
  /\ Fits(Head(line)) => Head(line).sort \in {"start", "restart", "byte"}
  /\ error' = TRUE
  /\ line' = Tail(line)
  /\ UNCHANGED <<program, driver, pending, fifo, received, limit, device, raced>>

\* After that entries still leave; the device may acknowledge a start condition.
ShiftAfterError ==
  /\ line # <<>> /\ error
  /\ line' = Tail(line)
  /\ \/ UNCHANGED pending
     \/ /\ Head(line).sort \in {"start", "restart"} /\ "ack" \in events
        /\ pending' = pending \cup {"tx"}
  /\ UNCHANGED <<program, driver, fifo, received, limit, error, device, raced>>

Channel == Load \/ Shift \/ Refuse \/ ShiftAfterError
-----------------------------------------------------------------------------
Next ==
  \/ \E n \in 1 .. MaxLen : Transmit("write", n) \/ Transmit("read", n)
  \/ SendStart \/ Receive \/ Return
  \/ Handlers \/ Channel

\* The processor runs, interrupts are taken, the channel works off its FIFO.
Fairness ==
  /\ WF_vars(SendStart \/ Receive \/ Return)
  /\ WF_vars(Handlers)
  /\ WF_vars(Load) /\ WF_vars(Shift \/ Refuse \/ ShiftAfterError)

Spec == Init /\ [][Next]_vars /\ Fairness
-----------------------------------------------------------------------------
TypeOK ==
  /\ at \in {"idle", "startTx", "tx", "startRx", "rx"}
  /\ call \in Calls \cup {NoCall}
  /\ runtime \in [direction : {"transmit", "receive"}, tx_busy : BOOLEAN,
                  rx_busy : BOOLEAN, bus_acquired : BOOLEAN, send_stop : BOOLEAN,
                  tx_data_index : 0 .. MaxLen, tx_data_count : 0 .. MaxLen,
                  rx_data_index : 0 .. MaxLen, rx_data_count : 0 .. MaxLen]
  /\ isr \in {"none", "fill", "drain", "finishTx", "ask", "stopRx", "finishRx"}
  /\ events \subseteq {"ack", "txFifo", "rxFifo"}
  /\ pending \subseteq {"tx", "rx"}
  /\ fifo \in Seq(Entry) /\ line \in Seq(Entry) /\ Len(line) <= 2
  /\ received \in 0 .. MaxLen /\ limit \in 1 .. FifoSize
  /\ error \in BOOLEAN /\ done \in BOOLEAN /\ raced \in BOOLEAN
  /\ bus \in [phase : {"free", "write", "read", "over"}, count : 0 .. MaxLen]

\* Between two calls the master is free, so that none is refused: the calls
\* return success or do not return.
NeverRefused ==
  /\ at = "idle" => ~runtime.tx_busy /\ ~runtime.rx_busy /\ ~runtime.bus_acquired
  /\ at = "tx" /\ ~runtime.tx_busy => ~runtime.rx_busy

\* Whatever the handlers and the program put into the FIFO comes in an order the
\* device can follow, each byte once, unless the acknowledge of the register's
\* address arrives in the few instructions of the program before the repeated
\* start.
BusInOrder == line # <<>> /\ ~error /\ ~raced => Fits(Head(line))

\* Conditions are put into the FIFO without a look at its level.
FifosFit == Len(fifo) <= FifoSize /\ received <= FifoSize

\* A call returns when the device has carried it out; if it refuses one, the
\* program waits for ever.
Bus == INSTANCE I2cBus WITH refused <- error
BusSpec == Bus!Spec
=============================================================================

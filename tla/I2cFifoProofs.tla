--------------------------- MODULE I2cFifoProofs ----------------------------
(***************************************************************************)
(* Machine-checked theorems about I2cMaster, for every size of the FIFOs   *)
(* and every length of a call: its types, that neither FIFO overflows,     *)
(* although conditions are put into the transmit FIFO without a look at    *)
(* its level, that what reaches the bus is in order, and that each call is *)
(* carried out as I2cBus says.                                             *)
(*                                                                         *)
(* Each condition finds a FIFO that holds less than a call's bytes, or     *)
(* nothing.  A call must not begin with requests of the one before, so the *)
(* handlers must have asked for all bytes when the last one has come: the  *)
(* last comes for the request that is not acknowledged (NACK), and that is *)
(* put into the FIFO when all others are (NackFits).                       *)
(***************************************************************************)
EXTENDS I2cMasterProofs

(***************************************************************************)
(* The inductive invariant, beside IInv.                                   *)
(***************************************************************************)
Ranges ==
  /\ 0 <= runtime.tx_data_index /\ runtime.tx_data_index <= runtime.tx_data_count
  /\ runtime.tx_data_count <= MaxLen
  /\ 0 <= runtime.rx_data_index /\ runtime.rx_data_index <= runtime.rx_data_count
  /\ runtime.rx_data_count <= MaxLen
  /\ 0 <= received /\ received <= MaxLen
  /\ at \in {"startRx", "rx"} =>
       /\ runtime.tx_data_count = runtime.rx_data_count
       /\ runtime.rx_data_index + received <= runtime.rx_data_count

\* The last byte has come.
AllCame ==
  \/ runtime.rx_data_index + received = runtime.rx_data_count
  \/ at = "rx" /\ ~runtime.rx_busy

NackFits ==
  /\ One("nack", OnTheWay)
  /\ ~No("nack", OnTheWay) => at \in {"startRx", "rx"} /\ SentAll /\ ~AllCame
  /\ at \in {"startRx", "rx"} /\ AllCame => SentAll

\* The handlers are through with the call.
Through == at = "idle" \/ (at \in {"tx", "rx"} /\ ~runtime.tx_busy)

FifoFits ==
  /\ Len(fifo) <= FifoSize
  /\ isr \in {"drain", "finishTx"} => SentAll
  /\ isr \in {"stopRx", "finishRx"} => runtime.tx_busy
  /\ Through => fifo = <<>> /\ SentAll
  /\ at \in {"startTx", "startRx"} => Len(fifo) <= runtime.tx_data_index

Levels == Ranges /\ NackFits /\ FifoFits
-----------------------------------------------------------------------------
\* What has a type.
LEMMA Numbers ==
  ASSUME Typed
  PROVE  /\ runtime.tx_data_index \in Int /\ runtime.tx_data_count \in Int
         /\ runtime.rx_data_index \in Int /\ runtime.rx_data_count \in Int
         /\ received \in Int /\ call.n \in Int
         /\ fifo \in Seq(AnyEntry) /\ line \in Seq(AnyEntry) /\ OnTheWay \in Seq(AnyEntry)
         /\ Len(fifo) \in Nat /\ (Len(fifo) = 0 <=> fifo = <<>>)
         /\ FifoSize \in Nat /\ MaxLen \in Nat /\ 1 <= MaxLen /\ MaxLen < FifoSize
<1>1. fifo \in Seq(AnyEntry) /\ line \in Seq(AnyEntry) /\ OnTheWay \in Seq(AnyEntry)
  BY Moves DEF Typed, OnTheWay
<1>2. Len(fifo) \in Nat /\ (Len(fifo) = 0 <=> fifo = <<>>)
  BY <1>1, LenProperties, EmptySeq
<1> QED BY <1>1, <1>2, SizeAssumption DEF Typed, Runtimes

LEMMA Amounts ==
  ASSUME IInv
  PROVE  /\ runtime.tx_data_index \in Int /\ runtime.tx_data_count \in Int
         /\ runtime.rx_data_index \in Int /\ runtime.rx_data_count \in Int
         /\ received \in Int /\ Len(fifo) \in Nat
         /\ FifoSize \in Nat /\ MaxLen \in Nat /\ 1 <= MaxLen /\ MaxLen < FifoSize
BY Numbers DEF IInv

\* Nothing is under way at the start.
LEMMA LevelsInit == Init => Levels
<1> SUFFICES ASSUME Init PROVE Levels
  OBVIOUS
<1>1. OnTheWay = <<>> /\ Len(OnTheWay) = 0 /\ Len(fifo) = 0
  BY DEF Init, OnTheWay
<1>2. Ranges
  BY SizeAssumption DEF Init, Ranges
<1>3. NackFits
  BY <1>1 DEF Init, NackFits, No, One
<1>4. FifoFits
  BY <1>1, SizeAssumption DEF Init, FifoFits, Through, SentAll
<1> QED BY <1>2, <1>3, <1>4 DEF Levels

\* Steps that move nothing: the FIFO keeps its contents, the counts their values.
LEMMA Quiet ==
  ASSUME IInv, Levels, UNCHANGED <<fifo, line, received>>,
         runtime'.tx_data_index = runtime.tx_data_index,
         runtime'.tx_data_count = runtime.tx_data_count,
         runtime'.rx_data_index = runtime.rx_data_index,
         runtime'.rx_data_count = runtime.rx_data_count,
         runtime'.rx_busy = runtime.rx_busy,
         at' = at,
         isr' \in {"drain", "finishTx"} => SentAll,
         isr' \in {"stopRx", "finishRx"} => runtime'.tx_busy,
         Through' => fifo = <<>> /\ SentAll
  PROVE  Levels'
BY DEF Levels, Ranges, NackFits, FifoFits, AllCame, OnTheWay, SentAll

LEMMA TransmitHandlerLevels == ASSUME IInv, Levels, TransmitHandler PROVE Levels'
<1>1. /\ UNCHANGED <<fifo, line, received, runtime, at>>
      /\ isr' \in {"drain", "finishTx"} => SentAll
      /\ isr' \notin {"stopRx", "finishRx"}
  BY DEF TransmitHandler, program
<1> QED BY <1>1, Quiet DEF Levels, FifoFits, Through

\* The transmit buffer is free when a handler has waited for it.
LEMMA FinishTxLevels == ASSUME IInv, Levels, FinishTx PROVE Levels'
<1>1. /\ UNCHANGED <<fifo, line, received, at>> /\ isr' = "none" /\ fifo = <<>>
      /\ runtime' = [runtime EXCEPT !.tx_busy = FALSE] /\ runtime \in Runtimes
  BY DEF IInv, Typed, FinishTx, BufferFree, program, channel
<1>2. /\ runtime'.tx_data_index = runtime.tx_data_index
      /\ runtime'.tx_data_count = runtime.tx_data_count
      /\ runtime'.rx_data_index = runtime.rx_data_index
      /\ runtime'.rx_data_count = runtime.rx_data_count
      /\ runtime'.rx_busy = runtime.rx_busy
  BY <1>1 DEF Runtimes
<1>3. SentAll
  BY DEF Levels, FifoFits, FinishTx
<1> QED BY <1>1, <1>2, <1>3, Quiet

LEMMA FinishRxLevels == ASSUME IInv, Levels, FinishRx PROVE Levels'
<1>1. /\ UNCHANGED <<fifo, line, received, at>> /\ isr' = "none" /\ fifo = <<>>
      /\ runtime' = [runtime EXCEPT !.rx_busy = FALSE, !.tx_busy = FALSE]
      /\ runtime \in Runtimes /\ isr = "finishRx"
  BY DEF IInv, Typed, FinishRx, BufferFree, program, channel
<1>2. at = "rx" /\ ~runtime.rx_busy
  BY <1>1 DEF IInv, Typed, InCall, Idle, StartingTx, Sending, Asking, Received
<1>3. /\ runtime'.tx_data_index = runtime.tx_data_index
      /\ runtime'.tx_data_count = runtime.tx_data_count
      /\ runtime'.rx_data_index = runtime.rx_data_index
      /\ runtime'.rx_data_count = runtime.rx_data_count
      /\ runtime'.rx_busy = runtime.rx_busy
  BY <1>1, <1>2, Zenon DEF Runtimes
<1>4. SentAll
  BY <1>2 DEF Levels, NackFits, AllCame
<1> QED BY <1>1, <1>3, <1>4, Quiet

\* A call begins: the handlers are through with the one before.
LEMMA TransmitLevels ==
  ASSUME IInv, Levels, NEW op \in {"write", "read"}, NEW n \in 1 .. MaxLen, Transmit(op, n)
  PROVE  Levels'
<1>1. /\ at = "idle" /\ at' = "startTx" /\ isr' = "none" /\ UNCHANGED <<fifo, line, received>>
      /\ runtime' = [runtime EXCEPT !.direction = "transmit", !.tx_busy = TRUE,
                       !.tx_data_count = IF op = "write" THEN n ELSE 1,
                       !.tx_data_index = 0, !.send_stop = (op = "write")]
  BY DEF IInv, InCall, Idle, Transmit, channel
<1>2. /\ runtime'.tx_data_index = 0
      /\ runtime'.tx_data_count = (IF op = "write" THEN n ELSE 1)
      /\ runtime'.rx_data_index = runtime.rx_data_index
      /\ runtime'.rx_data_count = runtime.rx_data_count
  <2>1. runtime \in Runtimes
    BY DEF IInv, Typed
  <2> QED BY <1>1, <2>1 DEF Runtimes
<1>3. fifo = <<>> /\ Len(fifo) = 0 /\ No("nack", OnTheWay)
  BY <1>1 DEF Levels, FifoFits, NackFits, Through
<1>4. Ranges'
  BY <1>1, <1>2, Amounts DEF Levels, Ranges
<1>5. NackFits'
  BY <1>1, <1>3 DEF Levels, NackFits, OnTheWay
<1>6. FifoFits'
  BY <1>1, <1>2, <1>3, SizeAssumption DEF FifoFits, Through
<1> QED BY <1>4, <1>5, <1>6 DEF Levels

\* The handlers are through with the register's address.
LEMMA ReceiveLevels == ASSUME IInv, Levels, Receive PROVE Levels'
<1>1. /\ at = "tx" /\ ~runtime.tx_busy /\ at' = "startRx" /\ isr' = "none"
      /\ UNCHANGED <<fifo, line>> /\ received' = 0
      /\ runtime' = [runtime EXCEPT !.direction = "receive",
                       !.tx_busy = TRUE, !.rx_busy = TRUE, !.send_stop = TRUE,
                       !.tx_data_count = call.n, !.rx_data_count = call.n,
                       !.tx_data_index = 0, !.rx_data_index = 0]
  BY DEF IInv, InCall, Sending, Receive
<1>2. /\ runtime'.tx_data_index = 0 /\ runtime'.tx_data_count = call.n
      /\ runtime'.rx_data_index = 0 /\ runtime'.rx_data_count = call.n
  <2>1. runtime \in Runtimes
    BY DEF IInv, Typed
  <2> QED BY <1>1, <2>1 DEF Runtimes
<1>3. call.n \in 1 .. MaxLen
  BY <1>1 DEF IInv, Typed, Calls
<1>4. fifo = <<>> /\ Len(fifo) = 0 /\ No("nack", OnTheWay)
  BY <1>1 DEF Levels, FifoFits, NackFits, Through
<1>5. Ranges'
  BY <1>1, <1>2, <1>3, SizeAssumption DEF Ranges
<1>6. NackFits'
  BY <1>1, <1>2, <1>3, <1>4 DEF Levels, NackFits, AllCame, OnTheWay
<1>7. FifoFits'
  BY <1>1, <1>2, <1>4, SizeAssumption DEF FifoFits, Through
<1> QED BY <1>5, <1>6, <1>7 DEF Levels

LEMMA ReturnLevels == ASSUME IInv, Levels, Return PROVE Levels'
<1>1. at' = "idle" /\ isr' = "none" /\ UNCHANGED <<runtime, fifo, line, received>>
  BY DEF Return, driver, channel
<1>2. (at = "tx" /\ ~runtime.tx_busy) \/ (at = "rx" /\ ~runtime.rx_busy)
  BY Zenon DEF Return
<1>3. Through
  BY <1>2 DEF IInv, InCall, Asking, Received, Return, Through
<1>4. No("nack", OnTheWay)
  BY <1>2 DEF Levels, NackFits, AllCame
<1>5. Ranges'
  BY <1>1 DEF Levels, Ranges
<1>6. NackFits'
  BY <1>1, <1>4 DEF Levels, NackFits, OnTheWay
<1>7. FifoFits'
  BY <1>1, <1>3 DEF Levels, FifoFits, Through, SentAll
<1> QED BY <1>5, <1>6, <1>7 DEF Levels

\* An entry is put into the FIFO.
LEMMA Longer ==
  ASSUME Typed, NEW s, NEW e \in AnyEntry, line' = line, fifo' = Append(fifo, e)
  PROVE  /\ Len(fifo') = Len(fifo) + 1
         /\ e.sort # s /\ No(s, OnTheWay) => No(s, OnTheWay')
         /\ e.sort # s /\ One(s, OnTheWay) => One(s, OnTheWay')
         /\ No(s, OnTheWay) => One(s, OnTheWay')
<1>1. OnTheWay \in Seq(AnyEntry) /\ OnTheWay' = Append(OnTheWay, e)
  BY Moves DEF Typed, OnTheWay
<1>2. Len(fifo') = Len(fifo) + 1
  BY AppendProperties DEF Typed
<1> QED BY <1>1, <1>2, Put

\* A start condition finds at most the bytes of its call.
LEMMA SendStartLevels == ASSUME IInv, Levels, SendStart PROVE Levels'
<1> DEFINE e == Mark(IF runtime.bus_acquired THEN "restart" ELSE "start")
<1>1. /\ at \in {"startTx", "startRx"} /\ isr' = "none" /\ fifo' = Append(fifo, e)
      /\ at' = (IF at = "startTx" THEN "tx" ELSE "rx")
      /\ UNCHANGED <<line, received>>
      /\ runtime' = [runtime EXCEPT !.bus_acquired = TRUE]
  BY DEF SendStart
<1>2. e \in AnyEntry /\ e.sort # "nack"
  BY Entries DEF IInv, Typed, Runtimes, Sorts
<1>3. /\ runtime'.tx_data_index = runtime.tx_data_index
      /\ runtime'.tx_data_count = runtime.tx_data_count
      /\ runtime'.rx_data_index = runtime.rx_data_index
      /\ runtime'.rx_data_count = runtime.rx_data_count
      /\ runtime'.tx_busy = runtime.tx_busy /\ runtime'.rx_busy = runtime.rx_busy
  BY <1>1 DEF IInv, Typed, Runtimes
<1>4. runtime.tx_busy /\ (at = "startRx" => runtime.rx_busy)
  BY <1>1 DEF IInv, InCall, StartingTx, Asking
<1> HIDE DEF e
<1>5. /\ Len(fifo') = Len(fifo) + 1
      /\ No("nack", OnTheWay) => No("nack", OnTheWay')
      /\ One("nack", OnTheWay) => One("nack", OnTheWay')
  BY <1>1, <1>2, Longer DEF IInv
<1>6. Ranges'
  BY <1>1, <1>3 DEF Levels, Ranges
<1>7. NackFits'
  BY <1>1, <1>3, <1>4, <1>5 DEF Levels, NackFits, AllCame, SentAll
<1>8. FifoFits'
  BY <1>1, <1>3, <1>4, <1>5, Amounts DEF Levels, Ranges, FifoFits, Through
<1> QED BY <1>6, <1>7, <1>8 DEF Levels

\* Bytes are loaded up to the size of the FIFO.
LEMMA FillLevels == ASSUME IInv, Levels, Fill PROVE Levels'
<1> DEFINE e == Byte(runtime.tx_data_index + 1)
<1>1. isr = "fill" /\ isr' \in {"fill", "none"} /\ UNCHANGED <<at, line, received>>
  BY DEF Fill, program
<1>2. CASE Full \/ SentAll
  <2>1. UNCHANGED <<fifo, runtime>>
    BY <1>2 DEF Fill
  <2> QED BY <1>1, <2>1, Quiet DEF Levels, FifoFits, Through
<1>3. CASE ~(Full \/ SentAll)
  <2>1. /\ fifo' = Append(fifo, e)
        /\ runtime' = [runtime EXCEPT !.tx_data_index = @ + 1]
    BY <1>3 DEF Fill
  <2>2. e \in AnyEntry /\ e.sort = "byte"
    BY Amounts, Entries
  <2>3. /\ runtime'.tx_data_index = runtime.tx_data_index + 1
        /\ runtime'.tx_data_count = runtime.tx_data_count
        /\ runtime'.rx_data_index = runtime.rx_data_index
        /\ runtime'.rx_data_count = runtime.rx_data_count
        /\ runtime'.tx_busy = runtime.tx_busy
    BY <2>1 DEF IInv, Typed, Runtimes
  <2>4. at \in {"startTx", "tx"} /\ ~Through
    BY <1>1, <1>3
       DEF IInv, Typed, InCall, Asking, Received, Levels, FifoFits, Through
  <2> HIDE DEF e
  <2>5. /\ Len(fifo') = Len(fifo) + 1
        /\ No("nack", OnTheWay) => No("nack", OnTheWay')
        /\ One("nack", OnTheWay) => One("nack", OnTheWay')
    BY <1>1, <2>1, <2>2, Longer DEF IInv
  <2>6. Ranges'
    BY <1>1, <1>3, <2>3, <2>4, Amounts DEF Levels, Ranges, SentAll
  <2>7. NackFits'
    BY <1>1, <2>4, <2>5 DEF Levels, NackFits
  <2>8. FifoFits'
    BY <1>1, <1>3, <2>3, <2>4, <2>5, Amounts
       DEF Levels, FifoFits, Full, Through
  <2> QED BY <2>6, <2>7, <2>8 DEF Levels
<1> QED BY <1>2, <1>3

\* The stop of a write finds an empty FIFO.
LEMMA DrainedLevels == ASSUME IInv, Levels, Drained PROVE Levels'
<1>1. /\ isr = "drain" /\ isr' \in {"finishTx", "none"} /\ fifo = <<>> /\ Len(fifo) = 0
      /\ UNCHANGED <<at, line, received>> /\ SentAll
  BY DEF Drained, program, Levels, FifoFits
<1>2. CASE ~(runtime.bus_acquired /\ runtime.send_stop)
  <2>1. UNCHANGED <<fifo, runtime>>
    BY <1>2 DEF Drained
  <2> QED BY <1>1, <2>1, Quiet
<1>3. CASE runtime.bus_acquired /\ runtime.send_stop
  <2>1. /\ fifo' = Append(fifo, Mark("stop"))
        /\ runtime' = [runtime EXCEPT !.bus_acquired = FALSE]
    BY <1>3 DEF Drained
  <2>2. /\ runtime'.tx_data_index = runtime.tx_data_index
        /\ runtime'.tx_data_count = runtime.tx_data_count
        /\ runtime'.rx_data_index = runtime.rx_data_index
        /\ runtime'.rx_data_count = runtime.rx_data_count
        /\ runtime'.tx_busy = runtime.tx_busy
    BY <2>1 DEF IInv, Typed, Runtimes
  <2>3. at = "tx" /\ runtime.tx_busy
    BY <1>1, <1>3
       DEF IInv, Typed, Calls, InCall, Idle, StartingTx, Sending, Asking, Received
  <2>4. Mark("stop") \in AnyEntry /\ Mark("stop").sort = "stop"
    BY Entries DEF Sorts
  <2>5. /\ Len(fifo') = Len(fifo) + 1
        /\ No("nack", OnTheWay) => No("nack", OnTheWay')
        /\ One("nack", OnTheWay) => One("nack", OnTheWay')
    BY <1>1, <2>1, <2>4, Longer DEF IInv
  <2>6. Ranges'
    BY <1>1, <2>2 DEF Levels, Ranges
  <2>7. NackFits'
    BY <1>1, <2>3, <2>5 DEF Levels, NackFits
  <2>8. FifoFits'
    BY <1>1, <2>2, <2>3, <2>5, SizeAssumption DEF FifoFits, Through, SentAll
  <2> QED BY <2>6, <2>7, <2>8 DEF Levels
<1> QED BY <1>2, <1>3

\* The stop of a read waits for an empty FIFO.
LEMMA StopRxLevels == ASSUME IInv, Levels, StopRx PROVE Levels'
<1>1. isr = "stopRx" /\ isr' = "finishRx" /\ UNCHANGED <<at, line, received>>
  BY DEF StopRx, program
<1>2. at = "rx" /\ runtime.send_stop /\ ~runtime.rx_busy /\ runtime.tx_busy
  BY <1>1
     DEF IInv, Typed, InCall, Idle, StartingTx, Sending, Asking, Receiving, Received,
         Levels, FifoFits
<1>3. /\ fifo = <<>> /\ Len(fifo) = 0 /\ fifo' = Append(fifo, Mark("stop"))
      /\ runtime' = [runtime EXCEPT !.bus_acquired = FALSE]
  BY <1>2 DEF StopRx, BufferFree
<1>4. /\ runtime'.tx_data_index = runtime.tx_data_index
      /\ runtime'.tx_data_count = runtime.tx_data_count
      /\ runtime'.rx_data_index = runtime.rx_data_index
      /\ runtime'.rx_data_count = runtime.rx_data_count
      /\ runtime'.tx_busy = runtime.tx_busy /\ runtime'.rx_busy = runtime.rx_busy
  BY <1>3 DEF IInv, Typed, Runtimes
<1>5. Mark("stop") \in AnyEntry /\ Mark("stop").sort = "stop"
  BY Entries DEF Sorts
<1>6. /\ Len(fifo') = Len(fifo) + 1
      /\ No("nack", OnTheWay) => No("nack", OnTheWay')
      /\ One("nack", OnTheWay) => One("nack", OnTheWay')
  BY <1>1, <1>3, <1>5, Longer DEF IInv
<1>7. Ranges'
  BY <1>1, <1>4 DEF Levels, Ranges
<1>8. NackFits'
  BY <1>1, <1>2, <1>4, <1>6 DEF Levels, NackFits, AllCame, SentAll
<1>9. FifoFits'
  BY <1>1, <1>2, <1>3, <1>4, <1>6, SizeAssumption DEF FifoFits, Through
<1> QED BY <1>7, <1>8, <1>9 DEF Levels

\* One request more is put into the FIFO; the one not to be acknowledged is the
\* last of the call.
LEMMA AskLevels == ASSUME IInv, Levels, Ask PROVE Levels'
<1> DEFINE e == Request(runtime.tx_data_index)
<1>1. isr = "ask" /\ isr' \in {"ask", "none"} /\ UNCHANGED <<at, line, received>>
  BY DEF Ask, program
<1>2. CASE Full \/ SentAll
  <2>1. fifo' = fifo /\ runtime' = [runtime EXCEPT !.tx_data_index = runtime.tx_data_index]
    BY <1>2 DEF Ask
  <2>2. runtime' = runtime
    BY <2>1 DEF IInv, Typed, Runtimes
  <2> QED BY <1>1, <2>1, <2>2, Quiet DEF Levels, FifoFits, Through
<1>3. CASE ~(Full \/ SentAll)
  <2>1. /\ fifo' = Append(fifo, e)
        /\ runtime' = [runtime EXCEPT !.tx_data_index = runtime.tx_data_index + 1]
    BY <1>3 DEF Ask
  <2>2. /\ e \in AnyEntry
        /\ e.sort = "nack" <=> runtime.tx_data_index + 1 = runtime.tx_data_count
    BY Amounts, Entries DEF Request, Mark
  <2>3. /\ runtime'.tx_data_index = runtime.tx_data_index + 1
        /\ runtime'.tx_data_count = runtime.tx_data_count
        /\ runtime'.rx_data_index = runtime.rx_data_index
        /\ runtime'.rx_data_count = runtime.rx_data_count
        /\ runtime'.tx_busy = runtime.tx_busy /\ runtime'.rx_busy = runtime.rx_busy
    BY <2>1 DEF IInv, Typed, Runtimes
  <2>4. at \in {"startRx", "rx"} /\ ~Through
    BY <1>1, <1>3
       DEF IInv, Typed, InCall, StartingTx, Sending, Asking, Received, Levels, FifoFits,
           Through
  <2>5. No("nack", OnTheWay) /\ ~AllCame
    BY <1>3, <2>4 DEF Levels, NackFits
  <2> HIDE DEF e
  <2>6. /\ Len(fifo') = Len(fifo) + 1
        /\ e.sort # "nack" => No("nack", OnTheWay')
        /\ One("nack", OnTheWay')
    BY <1>1, <2>1, <2>2, <2>5, Longer DEF IInv
  <2>7. Ranges'
    BY <1>1, <1>3, <2>3, Amounts DEF Levels, Ranges, SentAll
  <2>8. NackFits'
    BY <1>1, <2>2, <2>3, <2>4, <2>5, <2>6 DEF NackFits, AllCame, SentAll
  <2>9. FifoFits'
    BY <1>1, <1>3, <2>3, <2>4, <2>6, Amounts
       DEF Levels, FifoFits, Full, Through
  <2> QED BY <2>7, <2>8, <2>9 DEF Levels
<1> QED BY <1>2, <1>3

\* An entry leaves the FIFO for the transmit buffer.
LEMMA LoadLevels == ASSUME IInv, Levels, Load PROVE Levels'
<1>1. /\ fifo # <<>> /\ fifo' = Tail(fifo) /\ line' = Append(line, Head(fifo))
      /\ UNCHANGED <<at, runtime, isr, received>>
  BY DEF Load, program, driver
<1>2. OnTheWay' = OnTheWay
  BY <1>1, Moves DEF IInv, Typed, OnTheWay
<1>3. Len(fifo') = Len(fifo) - 1
  BY <1>1, HeadTailProperties DEF IInv, Typed
<1>4. Ranges' /\ NackFits'
  BY <1>1, <1>2 DEF Levels, Ranges, NackFits, AllCame, SentAll
<1>5. FifoFits'
  BY <1>1, <1>3, Amounts DEF Levels, Ranges, FifoFits, Through, SentAll
<1> QED BY <1>4, <1>5 DEF Levels

\* The device takes an entry: the last byte comes for the request that is not
\* acknowledged.
LEMMA ShiftLevels == ASSUME IInv, Levels, Shift PROVE Levels'
<1> DEFINE e == Head(line)
<1>1. /\ line # <<>> /\ Fits(e) /\ line' = Tail(line)
      /\ received' = (IF e.sort \in {"ack", "nack"} THEN received + 1 ELSE received)
      /\ UNCHANGED <<at, runtime, isr, fifo>>
  BY DEF Shift, program, driver
<1>2. /\ e.sort \in Sorts
      /\ No("nack", OnTheWay) => No("nack", OnTheWay') /\ e.sort # "nack"
      /\ One("nack", OnTheWay) => One("nack", OnTheWay')
      /\ One("nack", OnTheWay) /\ e.sort = "nack" => No("nack", OnTheWay')
  BY <1>1, Leaves DEF IInv, AnyEntry
<1>3. FifoFits'
  BY <1>1 DEF Levels, FifoFits, Through, SentAll
<1> HIDE DEF e
<1>4. CASE e.sort \in {"ack", "nack"}
  <2>1. /\ bus.phase = "read" /\ received' = received + 1
        /\ IF e.sort = "nack" THEN bus.count + 1 = call.n ELSE bus.count + 1 < call.n
    BY <1>1, <1>4 DEF Fits
  <2>2. /\ at = "rx" /\ runtime.rx_busy /\ runtime.rx_data_count = call.n
        /\ bus.count = runtime.rx_data_index + received
    BY <2>1 DEF IInv, InCall, Receiving, ReceptionFits
  <2>3. Ranges'
    BY <1>1, <2>1, <2>2, Amounts DEF Levels, Ranges
  <2>4. CASE e.sort = "nack"
    <3>1. SentAll /\ No("nack", OnTheWay')
      BY <1>2, <2>4 DEF Levels, NackFits
    <3> QED BY <1>1, <1>2, <1>3, <2>3, <3>1 DEF Levels, NackFits, SentAll
  <2>5. CASE e.sort = "ack"
    <3>1. ~AllCame' /\ ~AllCame
      BY <1>1, <2>1, <2>2, <2>5, Amounts DEF AllCame
    <3>2. NackFits'
      BY <1>1, <1>2, <3>1 DEF Levels, NackFits, SentAll
    <3> QED BY <1>3, <2>3, <3>2 DEF Levels
  <2> QED BY <1>4, <2>4, <2>5
<1>5. CASE e.sort \notin {"ack", "nack"}
  <2>1. received' = received
    BY <1>1, <1>5
  <2>2. Ranges' /\ NackFits'
    BY <1>1, <1>2, <2>1 DEF Levels, Ranges, NackFits, AllCame, SentAll
  <2> QED BY <1>3, <2>2 DEF Levels
<1> QED BY <1>4, <1>5

\* Entries leave that the device does not take.
LEMMA RefusedLevels == ASSUME IInv, Levels, Refuse \/ ShiftAfterError PROVE Levels'
<1>1. /\ line # <<>> /\ line' = Tail(line)
      /\ UNCHANGED <<at, runtime, isr, fifo, received>>
  BY DEF Refuse, ShiftAfterError, program, driver
<1>2. /\ No("nack", OnTheWay) => No("nack", OnTheWay')
      /\ One("nack", OnTheWay) => One("nack", OnTheWay')
  BY <1>1, Leaves DEF IInv
<1> QED BY <1>1, <1>2
        DEF Levels, Ranges, NackFits, FifoFits, AllCame, SentAll, Through

LEMMA StutterLevels == ASSUME IInv, Levels, UNCHANGED vars PROVE Levels'
BY DEF vars, program, driver, channel, device, Levels, Ranges, NackFits, FifoFits, AllCame,
       SentAll, Through, OnTheWay

\* The requests of the receive handler: the one not to be acknowledged is the last
\* of the call.
LEMMA Requests ==
  ASSUME Typed, NEW more \in Nat, NEW some,
         some = [i \in 1 .. more |-> Request(runtime.tx_data_index + i - 1)],
         runtime.tx_data_index + more <= runtime.tx_data_count
  PROVE  /\ some \in Seq(AnyEntry) /\ Len(some) = more /\ One("nack", some)
         /\ No("nack", some)
            \/ (more >= 1 /\ runtime.tx_data_index + more = runtime.tx_data_count)
<1>1. runtime.tx_data_index \in Int /\ runtime.tx_data_count \in Int
  BY Numbers
<1>2. \A i \in 1 .. more : Request(runtime.tx_data_index + i - 1) \in AnyEntry
  BY <1>1, Entries
<1>3. \A i \in 1 .. more : Request(runtime.tx_data_index + i - 1).sort = "nack" =>
                             runtime.tx_data_index + i = runtime.tx_data_count
  BY <1>1 DEF Request, Mark
<1>4. some \in [1 .. more -> AnyEntry]
  BY <1>2
<1>5. some \in Seq(AnyEntry)
  BY <1>4, SeqDef
<1>6. Len(some) = more
  BY <1>4, <1>5, LenProperties
<1>7. \A i \in 1 .. more : some[i].sort = "nack" =>
                             runtime.tx_data_index + i = runtime.tx_data_count
  BY <1>3
<1>8. \A i \in 1 .. more : runtime.tx_data_index + i = runtime.tx_data_count =>
                             i = more /\ runtime.tx_data_index + more = runtime.tx_data_count
  BY <1>1
<1>9. \A i \in 1 .. more : some[i].sort = "nack" =>
                             i = more /\ runtime.tx_data_index + more = runtime.tx_data_count
  BY <1>7, <1>8, Zenon
<1> QED BY <1>5, <1>6, <1>9 DEF No, One

\* What follows no entry of a sort may hold one.
LEMMA PutOne ==
  ASSUME NEW s, NEW q \in Seq(AnyEntry), NEW f \in Seq(AnyEntry), No(s, q), One(s, f)
  PROVE  One(s, q \o f)
<1>1. /\ Len(q \o f) = Len(q) + Len(f)
      /\ \A i \in 1 .. Len(q) + Len(f) :
           (q \o f)[i] = IF i <= Len(q) THEN q[i] ELSE f[i - Len(q)]
  BY ConcatProperties
<1>2. Len(q) \in Nat /\ Len(f) \in Nat
  BY LenProperties
<1>3. \A i \in 1 .. Len(q) + Len(f) : (q \o f)[i].sort = s =>
        i - Len(q) \in 1 .. Len(f) /\ f[i - Len(q)].sort = s
  BY <1>1, <1>2 DEF No
<1>4. \A i, j \in 1 .. Len(q) + Len(f) :
        (q \o f)[i].sort = s /\ (q \o f)[j].sort = s => i - Len(q) = j - Len(q)
  BY <1>3 DEF One
<1> QED BY <1>1, <1>2, <1>4 DEF One

\* Bytes remain: requests up to the size of the FIFO.
LEMMA AskAgainLevels ==
  ASSUME IInv, Levels, at \in {"startRx", "rx"}, UNCHANGED <<at, line>>,
         runtime.tx_busy, runtime.rx_busy, isr = "none",
         NEW taken \in Int, 0 <= taken, taken <= received, received' = received - taken,
         runtime.rx_data_index + taken < runtime.rx_data_count,
         AskAgain(runtime.rx_data_index + taken)
  PROVE  Levels'
<1> DEFINE asked == runtime.tx_data_index
           more  == Lesser(runtime.rx_data_count - asked, FifoSize - Len(fifo))
           some  == [i \in 1 .. more |-> Request(asked + i - 1)]
<1>1. /\ isr' = "none" /\ fifo' = fifo \o some
      /\ runtime' = [runtime EXCEPT !.rx_data_index = runtime.rx_data_index + taken,
                                    !.tx_data_index = asked + more]
  BY DEF AskAgain
<1>2. runtime.tx_data_count = runtime.rx_data_count
  BY DEF Levels, Ranges
<1>3. /\ more \in Nat /\ asked + more <= runtime.tx_data_count
      /\ more <= FifoSize - Len(fifo)
      /\ SentAll => more = 0
  <2>1. /\ runtime.rx_data_count - asked \in Nat /\ FifoSize - Len(fifo) \in Nat
        /\ SentAll => runtime.rx_data_count - asked = 0
    <3>1. /\ asked \in Int /\ runtime.rx_data_count \in Int
          /\ Len(fifo) \in Nat /\ FifoSize \in Nat
      BY Amounts
    <3>2. asked <= runtime.rx_data_count /\ Len(fifo) <= FifoSize
      BY <1>2 DEF Levels, Ranges, FifoFits
    <3>3. SentAll => asked = runtime.rx_data_count
      BY <1>2 DEF SentAll
    <3> HIDE DEF asked
    <3> QED BY <3>1, <3>2, <3>3
  <2>2. \A a, b \in Nat : /\ Lesser(a, b) \in Nat /\ Lesser(a, b) <= a
                          /\ Lesser(a, b) <= b
    BY DEF Lesser
  <2>3. /\ more \in Nat /\ more <= runtime.rx_data_count - asked
        /\ more <= FifoSize - Len(fifo)
    BY <2>1, <2>2
  <2> HIDE DEF more
  <2>4. asked \in Int /\ runtime.tx_data_count \in Int
    BY Amounts
  <2> QED BY <1>2, <2>1, <2>3, <2>4
<1> HIDE DEF more
<1>4. /\ runtime'.rx_data_index = runtime.rx_data_index + taken
      /\ runtime'.tx_data_index = asked + more
      /\ runtime'.tx_data_count = runtime.tx_data_count
      /\ runtime'.rx_data_count = runtime.rx_data_count
      /\ runtime'.tx_busy = runtime.tx_busy /\ runtime'.rx_busy = runtime.rx_busy
  BY <1>1 DEF IInv, Typed, Runtimes
<1>5. /\ some \in Seq(AnyEntry) /\ Len(some) = more /\ One("nack", some)
      /\ No("nack", some) \/ (more >= 1 /\ asked + more = runtime.tx_data_count)
  BY <1>3, Requests DEF IInv
<1> HIDE DEF some
<1>6. OnTheWay' = OnTheWay \o some /\ Len(fifo') = Len(fifo) + more
  <2>1. fifo \in Seq(AnyEntry) /\ line \in Seq(AnyEntry)
    BY DEF IInv, Typed
  <2>2. OnTheWay' = line \o (fifo \o some)
    BY <1>1 DEF OnTheWay
  <2>3. Len(fifo') = Len(fifo) + more
    BY <1>1, <1>5, <2>1, ConcatProperties
  <2>4. line \o (fifo \o some) = OnTheWay \o some
    BY <1>5, <2>1, Moves DEF OnTheWay
  <2> QED BY <2>2, <2>3, <2>4
<1>7. Ranges'
  <2>1. /\ runtime.rx_data_index \in Int /\ runtime.rx_data_count \in Int
        /\ received \in Int /\ runtime.tx_data_index \in Int
        /\ runtime.tx_data_count \in Int
    BY Amounts
  <2>2. received' \in Int /\ 0 <= received' /\ received' <= received
    BY <2>1
  <2>3. /\ runtime'.rx_data_index + received' = runtime.rx_data_index + received
        /\ runtime'.rx_data_index <= runtime'.rx_data_count
        /\ 0 <= runtime'.rx_data_index
    BY <1>4, <2>1 DEF Levels, Ranges
  <2>4. /\ 0 <= runtime'.tx_data_index
        /\ runtime'.tx_data_index <= runtime'.tx_data_count
    BY <1>3, <1>4, <2>1 DEF Levels, Ranges
  <2>5. received' <= MaxLen
    BY <2>1, <2>2, SizeAssumption DEF Levels, Ranges
  <2> QED BY <1>4, <2>2, <2>3, <2>4, <2>5 DEF Levels, Ranges
<1>8. AllCame' => AllCame
  BY <1>4, Amounts DEF AllCame
<1>9. NackFits'
  <2>1. CASE No("nack", some)
    <3>1. /\ No("nack", OnTheWay) => No("nack", OnTheWay')
          /\ One("nack", OnTheWay')
      BY <1>5, <1>6, <2>1, PutAll, Numbers DEF IInv, Levels, NackFits
    <3>2. SentAll => SentAll'
      BY <1>3, <1>4, Amounts DEF SentAll
    <3> QED BY <1>8, <3>1, <3>2 DEF Levels, NackFits
  <2>2. CASE more >= 1 /\ asked + more = runtime.tx_data_count
    <3>1. ~SentAll /\ SentAll'
      BY <1>3, <1>4, <2>2 DEF SentAll
    <3>2. No("nack", OnTheWay) /\ ~AllCame
      BY <3>1 DEF Levels, NackFits
    <3>3. One("nack", OnTheWay')
      BY <1>5, <1>6, <3>2, PutOne, Numbers DEF IInv
    <3> QED BY <1>8, <3>1, <3>2, <3>3 DEF NackFits
  <2> QED BY <1>5, <2>1, <2>2
<1>10. FifoFits'
  <2>1. Len(fifo') <= FifoSize
    BY <1>3, <1>6, Amounts
  <2>2. at = "startRx" => Len(fifo') <= runtime'.tx_data_index
    <3>1. at = "startRx" => Len(fifo) <= asked
      BY DEF Levels, FifoFits
    <3>2. Len(fifo') = Len(fifo) + more /\ runtime'.tx_data_index = asked + more
      BY <1>4, <1>6
    <3>3. asked \in Int /\ Len(fifo) \in Nat /\ more \in Nat
      BY <1>3, Amounts
    <3> HIDE DEF asked
    <3> QED BY <3>1, <3>2, <3>3
  <2> QED BY <1>1, <1>4, <2>1, <2>2 DEF FifoFits, Through
<1> QED BY <1>7, <1>9, <1>10 DEF Levels

\* The last byte is read: everything has been asked for.
LEMMA AllReadLevels ==
  ASSUME IInv, Levels, at \in {"startRx", "rx"}, UNCHANGED <<at, line>>,
         runtime.tx_busy, runtime.rx_busy, isr = "none",
         received' = 0, runtime.rx_data_index + received = runtime.rx_data_count,
         AllRead
  PROVE  Levels'
<1>1. /\ isr' \in {"stopRx", "none"} /\ UNCHANGED fifo
      /\ runtime' = [runtime EXCEPT !.rx_data_index = runtime.rx_data_count,
                                    !.rx_busy = FALSE]
  BY DEF AllRead
<1>2. /\ runtime'.rx_data_index = runtime.rx_data_count
      /\ runtime'.tx_data_index = runtime.tx_data_index
      /\ runtime'.tx_data_count = runtime.tx_data_count
      /\ runtime'.rx_data_count = runtime.rx_data_count
      /\ runtime'.tx_busy = runtime.tx_busy
  BY <1>1 DEF IInv, Typed, Runtimes
<1>3. SentAll /\ No("nack", OnTheWay)
  BY DEF Levels, NackFits, AllCame
<1>4. Ranges'
  BY <1>2, Amounts DEF Levels, Ranges
<1>5. NackFits'
  BY <1>1, <1>2, <1>3 DEF Levels, NackFits, OnTheWay, SentAll
<1>6. FifoFits'
  BY <1>1, <1>2 DEF Levels, FifoFits, Through
<1> QED BY <1>4, <1>5, <1>6 DEF Levels

LEMMA ReceiveHandlerLevels == ASSUME IInv, Levels, ReceiveHandler PROVE Levels'
<1> DEFINE taken == Lesser(received, runtime.rx_data_count - runtime.rx_data_index)
<1>1. isr = "none" /\ UNCHANGED <<at, line>>
  BY DEF ReceiveHandler, program
<1>2. CASE ~runtime.rx_busy
  <2>1. UNCHANGED <<runtime, isr, fifo, received>>
    BY <1>2 DEF ReceiveHandler
  <2> QED BY <1>1, <2>1, Quiet DEF Levels, FifoFits, Through
<1>3. CASE runtime.rx_busy
  <2>1. at \in {"startRx", "rx"} /\ runtime.tx_busy
    BY <1>3 DEF IInv, Typed, InCall, Idle, StartingTx, Sending, Asking, Received
  <2>2. /\ taken = received /\ received \in Int /\ 0 <= received
        /\ runtime.rx_data_index + received <= runtime.rx_data_count
    BY <2>1, Amounts DEF Levels, Ranges, Lesser
  <2>3. received' = received - taken
    BY <1>3 DEF ReceiveHandler
  <2>4. /\ runtime.rx_data_index + taken < runtime.rx_data_count =>
             AskAgain(runtime.rx_data_index + taken)
        /\ ~(runtime.rx_data_index + taken < runtime.rx_data_count) => AllRead
    BY <1>3 DEF ReceiveHandler
  <2> HIDE DEF taken
  <2>5. CASE runtime.rx_data_index + taken < runtime.rx_data_count
    BY <1>1, <1>3, <2>1, <2>2, <2>3, <2>4, <2>5, AskAgainLevels
  <2>6. CASE ~(runtime.rx_data_index + taken < runtime.rx_data_count)
    <3>1. runtime.rx_data_index + received = runtime.rx_data_count /\ received' = 0
      <4>1. runtime.rx_data_index \in Int /\ runtime.rx_data_count \in Int
        BY Amounts
      <4>2. received' = received - received
        BY <2>2, <2>3, Zenon
      <4>3. ~(runtime.rx_data_index + received < runtime.rx_data_count)
        BY <2>2, <2>6, Zenon
      <4>4. \A a, b, c \in Int : a + b <= c /\ ~(a + b < c) => a + b = c
        OBVIOUS
      <4>5. \A a \in Int : a - a = 0
        OBVIOUS
      <4> QED BY <2>2, <4>1, <4>2, <4>3, <4>4, <4>5, Zenon
    <3> QED BY <1>1, <1>3, <2>1, <2>4, <2>6, <3>1, AllReadLevels
  <2> QED BY <2>5, <2>6
<1> QED BY <1>2, <1>3
-----------------------------------------------------------------------------
\* IInv and Levels are an invariant.
LEMMA LevelsHold == Spec => []Levels
<1>1. ASSUME IInv, Levels, [Next]_vars PROVE Levels'
  <2>1. CASE Next
    BY <1>1, <2>1, TransmitLevels, SendStartLevels, ReceiveLevels, ReturnLevels,
       TransmitHandlerLevels, FillLevels, DrainedLevels, FinishTxLevels, AskLevels,
       ReceiveHandlerLevels, StopRxLevels, FinishRxLevels, LoadLevels, ShiftLevels,
       RefusedLevels
       DEF Next, Handlers, Channel
  <2>2. CASE UNCHANGED vars
    BY <1>1, <2>2, StutterLevels
  <2> QED BY <1>1, <2>1, <2>2
<1> QED BY LevelsInit, InvariantHolds, <1>1, PTL DEF Spec

\* Neither FIFO overflows, whatever their size and the order of the interrupts:
\* the conditions, put into the transmit FIFO without a look at its level, find
\* room, and no more bytes come than the receive FIFO holds.
THEOREM FifosFitCorrect == Spec => []FifosFit
<1>1. IInv /\ Levels => FifosFit
  BY Amounts DEF Levels, Ranges, FifoFits, FifosFit
<1> QED BY <1>1, InvariantHolds, LevelsHold, PTL
-----------------------------------------------------------------------------
(***************************************************************************)
(* The types: what IInv and Levels do not say already.                     *)
(***************************************************************************)
Flags ==
  /\ events \subseteq {"ack", "txFifo", "rxFifo"} /\ pending \subseteq {"tx", "rx"}
  /\ done \in BOOLEAN /\ raced \in BOOLEAN

Queues == fifo \in Seq(Entry) /\ line \in Seq(Entry) /\ Len(line) <= 2

Counters == limit \in 1 .. FifoSize /\ bus.count \in 0 .. MaxLen

LEMMA FlagsKept == ASSUME Flags, [Next]_vars PROVE Flags'
<1> USE DEF program, driver, channel, device, Flags
<1>1. ASSUME NEW op, NEW n, Transmit(op, n) PROVE Flags'
  BY <1>1 DEF Transmit
<1>2. CASE SendStart \/ Receive \/ Return
  BY <1>2 DEF SendStart, Receive, Return
<1>3. CASE TransmitHandler \/ Fill \/ Drained \/ FinishTx \/ Ask
  <2>1. CASE TransmitHandler
    BY <2>1 DEF TransmitHandler
  <2>2. CASE Fill \/ Drained \/ FinishTx
    BY <2>2 DEF Fill, Drained, FinishTx
  <2>3. CASE Ask
    BY <2>3, Zenon DEF Ask
  <2> QED BY <1>3, <2>1, <2>2, <2>3
<1>4. CASE ReceiveHandler
  BY <1>4 DEF ReceiveHandler, AskAgain, AllRead
<1>5. CASE StopRx \/ FinishRx
  BY <1>5 DEF StopRx, FinishRx
<1>6. CASE Load
  BY <1>6 DEF Load
<1>7. CASE Shift
  <2>1. pending' \subseteq {"tx", "rx"} /\ UNCHANGED <<events, raced>>
    BY <1>7 DEF Shift
  <2>2. done' \in BOOLEAN
    BY <1>7 DEF Shift
  <2> QED BY <2>1, <2>2
<1>8. CASE Refuse \/ ShiftAfterError
  BY <1>8 DEF Refuse, ShiftAfterError
<1>9. CASE UNCHANGED vars
  BY <1>9 DEF vars
<1> QED BY <1>1, <1>2, <1>3, <1>4, <1>5, <1>6, <1>7, <1>8, <1>9
        DEF Next, Handlers, Channel

\* Every mark has a type, and so have the bytes of a call.
LEMMA Marks ==
  /\ \A sort \in Sorts : Mark(sort) \in Entry
  /\ \A i : Request(i) \in Entry
  /\ \A i \in 1 .. MaxLen : Byte(i) \in Entry
BY SizeAssumption DEF Mark, Request, Byte, Entry, Sorts

LEMMA QueuesKept == ASSUME IInv, Levels, Queues, [Next]_vars PROVE Queues'
<1> USE DEF program, driver, channel, device
<1>1. ASSUME line' = line, NEW e \in Entry, fifo' = Append(fifo, e) PROVE Queues'
  BY <1>1, AppendProperties DEF Queues
<1>2. ASSUME UNCHANGED <<line, fifo>> PROVE Queues'
  BY <1>2 DEF Queues
<1>3. ASSUME line # <<>>, line' = Tail(line), fifo' = fifo PROVE Queues'
  BY <1>3, HeadTailProperties, LenProperties DEF Queues
<1>4. CASE SendStart
  BY <1>1, <1>4, Marks DEF SendStart, IInv, Typed, Runtimes, Sorts
<1>5. CASE Fill
  <2>1. CASE Full \/ SentAll
    BY <1>2, <1>5, <2>1 DEF Fill
  <2>2. CASE ~(Full \/ SentAll)
    <3>1. line' = line /\ fifo' = Append(fifo, Byte(runtime.tx_data_index + 1))
      BY <1>5, <2>2 DEF Fill
    <3>2. runtime.tx_data_index + 1 \in 1 .. MaxLen
      BY <2>2, Amounts DEF Levels, Ranges, SentAll
    <3> QED BY <1>1, <3>1, <3>2, Marks
  <2> QED BY <2>1, <2>2
<1>6. CASE Drained \/ StopRx
  <2>1. line' = line /\ (fifo' = fifo \/ fifo' = Append(fifo, Mark("stop")))
    BY <1>6 DEF Drained, StopRx
  <2> QED BY <1>1, <1>2, <2>1, Marks DEF Sorts
<1>7. CASE Ask
  <2>1. line' = line /\ (fifo' = fifo \/ fifo' = Append(fifo, Request(runtime.tx_data_index)))
    BY <1>7 DEF Ask
  <2> QED BY <1>1, <1>2, <2>1, Marks
<1>8. CASE ReceiveHandler
  <2>1. CASE fifo' = fifo
    BY <1>2, <1>8, <2>1 DEF ReceiveHandler
  <2>2. CASE fifo' # fifo
    <3> DEFINE more == Lesser(runtime.rx_data_count - runtime.tx_data_index,
                              FifoSize - Len(fifo))
               some == [i \in 1 .. more |-> Request(runtime.tx_data_index + i - 1)]
    <3>1. line' = line /\ fifo' = fifo \o some
      BY <1>8, <2>2 DEF ReceiveHandler, AskAgain, AllRead
    <3>2. more \in Int
      <4>1. \A a, b \in Int : Lesser(a, b) \in Int
        BY DEF Lesser
      <4>2. /\ runtime.rx_data_count - runtime.tx_data_index \in Int
            /\ FifoSize - Len(fifo) \in Int
        BY Amounts
      <4> QED BY <4>1, <4>2
    <3> HIDE DEF more
    <3>3. some \in Seq(Entry)
      <4> DEFINE n == IF more < 0 THEN 0 ELSE more
      <4>1. n \in Nat /\ 1 .. more = 1 .. n
        BY <3>2
      <4> HIDE DEF n
      <4>2. some \in [1 .. n -> Entry]
        BY <4>1, Marks
      <4> HIDE DEF some
      <4> QED BY <4>1, <4>2, SeqDef
    <3> HIDE DEF some
    <3> QED BY <3>1, <3>3, ConcatProperties DEF Queues
  <2> QED BY <2>1, <2>2
<1>9. CASE Load
  <2>1. /\ fifo # <<>> /\ Len(line) < 2 /\ fifo' = Tail(fifo)
        /\ line' = Append(line, Head(fifo))
    BY <1>9 DEF Load
  <2>2. fifo \in Seq(Entry) /\ line \in Seq(Entry)
    BY DEF Queues
  <2>3. fifo' \in Seq(Entry) /\ Head(fifo) \in Entry
    BY <2>1, <2>2, HeadTailProperties
  <2>4. line' \in Seq(Entry) /\ Len(line') = Len(line) + 1 /\ Len(line) \in Nat
    BY <2>1, <2>2, <2>3, AppendProperties, LenProperties
  <2> QED BY <2>1, <2>3, <2>4 DEF Queues
<1>10. CASE Shift \/ Refuse \/ ShiftAfterError
  BY <1>3, <1>10 DEF Shift, Refuse, ShiftAfterError
<1>11. ASSUME NEW op, NEW n, Transmit(op, n) PROVE Queues'
  BY <1>2, <1>11 DEF Transmit
<1>12. CASE Receive \/ Return \/ TransmitHandler \/ FinishTx \/ FinishRx
  BY <1>2, <1>12 DEF Receive, Return, TransmitHandler, FinishTx, FinishRx
<1>13. CASE UNCHANGED vars
  BY <1>2, <1>13 DEF vars
<1> QED BY <1>4, <1>5, <1>6, <1>7, <1>8, <1>9, <1>10, <1>11, <1>12, <1>13
        DEF Next, Handlers, Channel

\* The limit is at least one; the device never counts past the length of the call.
LEMMA CountersKept == ASSUME IInv, Levels, Queues, Counters, [Next]_vars PROVE Counters'
<1> USE DEF program, driver, channel, device
<1>1. ASSUME UNCHANGED <<limit, bus>> PROVE Counters'
  BY <1>1 DEF Counters
<1>2. \A a \in Int : 1 <= a => Lesser(a, FifoSize) \in 1 .. FifoSize
  BY SizeAssumption DEF Lesser
<1>3. CASE Receive
  <2>1. at = "tx" /\ bus' = bus /\ (limit' = limit \/ limit' = Lesser(call.n, FifoSize))
    BY <1>3 DEF Receive
  <2>2. call.n \in Int /\ 1 <= call.n
    BY <2>1, SizeAssumption DEF IInv, Typed, Calls
  <2> QED BY <1>2, <2>1, <2>2 DEF Counters
<1>4. CASE ReceiveHandler
  <2> DEFINE index == runtime.rx_data_index
                        + Lesser(received, runtime.rx_data_count - runtime.rx_data_index)
  <2>1. \/ index < runtime.rx_data_count /\ limit' = Lesser(runtime.rx_data_count - index, FifoSize)
        \/ limit' = limit
    BY <1>4 DEF ReceiveHandler, AskAgain, AllRead
  <2>2. index \in Int /\ runtime.rx_data_count \in Int
    BY Amounts DEF Lesser
  <2>3. bus' = bus
    BY <1>4 DEF ReceiveHandler
  <2> HIDE DEF index
  <2>4. index < runtime.rx_data_count => limit' \in 1 .. FifoSize \/ limit' = limit
    BY <1>2, <2>1, <2>2
  <2> QED BY <2>1, <2>3, <2>4 DEF Counters
<1>5. CASE Shift
  <2> DEFINE e == Head(line)
  <2>1. line # <<>> /\ Fits(e) /\ bus' = After(e) /\ limit' = limit
    BY <1>5 DEF Shift
  <2>2. e \in Entry
    BY <2>1, HeadTailProperties DEF Queues
  <2> HIDE DEF e
  <2>3. CASE e.sort \in {"start", "restart", "stop"}
    BY <2>1, <2>3, SizeAssumption DEF After, Counters
  <2>4. CASE e.sort = "byte"
    <3>1. bus'.count = e.n /\ e.n \in 0 .. MaxLen
      BY <2>1, <2>2, <2>4 DEF Fits, After, Entry
    <3> QED BY <2>1, <3>1 DEF Counters
  <2>5. CASE e.sort \in {"ack", "nack"}
    <3>1. bus.phase = "read" /\ bus.count + 1 <= call.n /\ bus'.count = bus.count + 1
      <4>1. call.n \in Int /\ bus.count \in Int
        BY DEF IInv, Typed
      <4>2. CASE e.sort = "ack"
        BY <2>1, <4>1, <4>2 DEF Fits, After
      <4>3. CASE e.sort = "nack"
        BY <2>1, <4>1, <4>3 DEF Fits, After
      <4> QED BY <2>5, <4>2, <4>3
    <3>2. call.n \in 1 .. MaxLen
      BY <3>1 DEF IInv, ReceptionFits, Typed, Calls
    <3> QED BY <2>1, <3>1, <3>2, SizeAssumption DEF Counters
  <2> QED BY <2>2, <2>3, <2>4, <2>5 DEF Entry, Sorts
<1>6. ASSUME NEW op, NEW n, Transmit(op, n) PROVE Counters'
  BY <1>1, <1>6 DEF Transmit
<1>7. CASE SendStart \/ Return \/ TransmitHandler \/ Fill \/ Drained \/ FinishTx
           \/ StopRx \/ FinishRx \/ Load
  BY <1>1, <1>7
     DEF SendStart, Return, TransmitHandler, Fill, Drained, FinishTx, StopRx, FinishRx, Load
<1>8. CASE Ask \/ Refuse \/ ShiftAfterError \/ UNCHANGED vars
  BY <1>1, <1>8 DEF Ask, Refuse, ShiftAfterError, vars
<1> QED BY <1>3, <1>4, <1>5, <1>6, <1>7, <1>8 DEF Next, Handlers, Channel

\* TypeOK, for every size of the FIFOs and every length of a call.
THEOREM TypeCorrect == Spec => []TypeOK
<1>1. Init => Flags /\ Queues /\ Counters
  <2>1. Init => Flags
    BY DEF Init, Flags
  <2>2. Init => Queues
    <3>1. <<>> \in Seq(Entry) /\ Len(<<>>) = 0
      BY EmptySeq
    <3> QED BY <3>1 DEF Init, Queues
  <2>3. Init => Counters
    <3>1. FifoSize \in 1 .. FifoSize /\ 0 \in 0 .. MaxLen
      BY SizeAssumption
    <3>2. Init => bus.count = 0 /\ limit = FifoSize
      BY DEF Init
    <3> QED BY <3>1, <3>2, Zenon DEF Counters
  <2> QED BY <2>1, <2>2, <2>3
<1>2. IInv /\ Levels /\ Flags /\ Queues /\ Counters => TypeOK
  <2> SUFFICES ASSUME IInv, Levels, Flags, Queues, Counters PROVE TypeOK
    OBVIOUS
  <2>1. runtime \in [direction : {"transmit", "receive"}, tx_busy : BOOLEAN,
                     rx_busy : BOOLEAN, bus_acquired : BOOLEAN, send_stop : BOOLEAN,
                     tx_data_index : 0 .. MaxLen, tx_data_count : 0 .. MaxLen,
                     rx_data_index : 0 .. MaxLen, rx_data_count : 0 .. MaxLen]
    BY Amounts DEF IInv, Typed, Runtimes, Levels, Ranges
  <2>2. received \in 0 .. MaxLen
    BY Amounts DEF Levels, Ranges
  <2>3. bus \in [phase : {"free", "write", "read", "over"}, count : 0 .. MaxLen]
    BY DEF IInv, Typed, Counters
  <2> QED BY <2>1, <2>2, <2>3 DEF IInv, Typed, Flags, Queues, Counters, TypeOK
<1> QED BY <1>1, <1>2, FlagsKept, QueuesKept, CountersKept, InvariantHolds, LevelsHold, PTL
        DEF Spec
-----------------------------------------------------------------------------
(***************************************************************************)
(* The order of what goes through the FIFO.  Every call has a stream of    *)
(* entries; the device has taken it up to a position, the handlers have    *)
(* put it into the FIFO up to another, and what is on the way is what lies *)
(* between (InStream).  A race before a start condition puts one entry too *)
(* early, which the device refuses when it comes to it (EarlyByte,         *)
(* EarlyRequest).                                                          *)
(***************************************************************************)

\* Position p of the stream of call c; -1 is the stop of the call before.
Item(c, p) ==
  IF p = -1 THEN Mark("stop")
  ELSE IF p = 0 THEN Mark("start")
  ELSE IF c.op = "write" THEN (IF p <= c.n THEN Byte(p) ELSE Mark("stop"))
  ELSE IF p = 1 THEN Byte(1)
  ELSE IF p = 2 THEN Mark("restart")
  ELSE IF p < c.n + 2 THEN Mark("ack")
  ELSE IF p = c.n + 2 THEN Mark("nack")
  ELSE Mark("stop")

\* The position of the stop of the call.
LastItem == IF call.op = "write" THEN call.n + 1 ELSE call.n + 3

\* The position the device takes next.
Taken ==
  IF bus.phase = "over" THEN (IF done THEN LastItem ELSE -1)
  ELSE IF bus.phase = "free" THEN (IF done THEN LastItem + 1 ELSE 0)
  ELSE IF bus.phase = "write" THEN 1 + bus.count
  ELSE 3 + bus.count

StopPut == IF runtime.bus_acquired THEN 0 ELSE 1

\* The position to be put into the FIFO next.
PutSoFar ==
  IF at \in {"idle", "startTx"} THEN 0
  ELSE IF at = "tx" THEN 1 + runtime.tx_data_index + (IF call.op = "write" THEN StopPut ELSE 0)
  ELSE IF at = "startRx" THEN 2
  ELSE 3 + runtime.tx_data_index + StopPut

InStream ==
  /\ at \in {"startTx", "startRx"} => runtime.tx_data_index = 0
  /\ Len(OnTheWay) = PutSoFar - Taken
  /\ \A i \in 1 .. Len(OnTheWay) : OnTheWay[i] = Item(call, Taken + i - 1)

\* The stream breaks at position b, which the device has not passed.
Broken(b) ==
  /\ ~done /\ runtime.tx_busy /\ Taken <= b /\ Len(OnTheWay) > b - Taken
  /\ \A i \in 1 .. b - Taken : OnTheWay[i] = Item(call, Taken + i - 1)

\* A byte before the start condition, which is on the way as well at "tx".
EarlyByte ==
  /\ at \in {"startTx", "tx"} /\ Broken(0) /\ OnTheWay[1 - Taken].sort = "byte"
  /\ at = "tx" => Len(OnTheWay) > 1 - Taken

\* A request before the repeated start.
EarlyRequest ==
  /\ at \in {"startRx", "rx"} /\ runtime.rx_busy
  /\ Broken(2) /\ OnTheWay[3 - Taken].sort \in {"ack", "nack"}

\* The device counts within the call.
Phases ==
  /\ at = "idle" => bus.phase \in {"free", "over"}
  /\ done => bus.phase \in {"free", "over"}
  /\ bus.phase = "write" =>
       /\ 0 <= bus.count
       /\ IF call.op = "write" THEN bus.count < call.n ELSE bus.count <= 1
  /\ bus.phase = "read" => 0 <= bus.count

Stream ==
  ~error => /\ Phases
            /\ InStream \/ EarlyByte \/ EarlyRequest
            /\ ~raced => InStream

\* How the place of the program, the flags and the device's progress go together.
Flow ==
  /\ at = "idle" => call = NoCall /\ ~done
  /\ at \in {"startTx", "tx"} =>
       runtime.tx_data_count = (IF call.op = "write" THEN call.n ELSE 1)
  /\ at = "tx" /\ runtime.tx_busy /\ isr # "finishTx" => runtime.bus_acquired
  /\ at \in {"startTx", "startRx"} /\ ~raced => isr = "none"
  /\ at \in {"startRx", "rx"} /\ runtime.rx_busy =>
       runtime.rx_data_index = 0 /\ limit = call.n
  /\ "rx" \in pending => at = "rx" /\ runtime.rx_busy /\ received = limit /\ done
  /\ at = "rx" /\ ~runtime.rx_busy => done
  /\ isr = "stopRx" => runtime.bus_acquired
  /\ call.deaf => /\ error /\ at \in {"startTx", "tx"}
                  /\ isr = "none" /\ runtime.tx_busy
  /\ at = "tx" /\ call.op = "write" /\ ~runtime.tx_busy => done \/ (error /\ ~call.deaf)

Order == Flow /\ Stream
-----------------------------------------------------------------------------
\* Positions are numbers; which kind of call is in progress.
LEMMA Positions ==
  ASSUME IInv
  PROVE  /\ Taken \in Int /\ PutSoFar \in Int /\ LastItem \in Int
         /\ Len(OnTheWay) \in Nat /\ OnTheWay \in Seq(AnyEntry)
         /\ call.n \in Int /\ bus.count \in Int
         /\ at # "idle" => call.op \in {"write", "read"} /\ call.n >= 1 /\ call # NoCall
         /\ at \in {"startRx", "rx"} => call.op = "read"
<1>1. call.n \in Int /\ bus.count \in Int /\ runtime.tx_data_index \in Int
      /\ OnTheWay \in Seq(AnyEntry)
  BY Numbers DEF IInv, Typed
<1>2. Len(OnTheWay) \in Nat
  BY <1>1, LenProperties
<1>3. LastItem \in Int
  BY <1>1 DEF LastItem
<1>4. Taken \in Int
  BY <1>1, <1>3 DEF Taken
<1>5. PutSoFar \in Int
  BY <1>1 DEF PutSoFar, StopPut
<1>6. at # "idle" => call.op \in {"write", "read"} /\ call.n >= 1 /\ call # NoCall
  BY SizeAssumption DEF IInv, Typed, Calls, NoCall
<1>7. at \in {"startRx", "rx"} => call.op = "read"
  BY DEF IInv, InCall, Receiving
<1> QED BY <1>1, <1>2, <1>3, <1>4, <1>5, <1>6, <1>7

\* The stream at the positions where something is put.
LEMMA Items ==
  ASSUME NEW c, c.n \in Int, c.n >= 1
  PROVE  /\ Item(c, -1) = Mark("stop") /\ Item(c, 0) = Mark("start")
         /\ c.op = "write" => /\ \A p \in 1 .. c.n : Item(c, p) = Byte(p)
                              /\ Item(c, c.n + 1) = Mark("stop")
         /\ c.op = "read" =>
              /\ Item(c, 1) = Byte(1) /\ Item(c, 2) = Mark("restart")
              /\ \A i \in Int : 0 <= i /\ i < c.n =>
                   Item(c, 3 + i) = Mark(IF i + 1 = c.n THEN "nack" ELSE "ack")
              /\ Item(c, c.n + 3) = Mark("stop")
<1>1. Item(c, -1) = Mark("stop") /\ Item(c, 0) = Mark("start")
  BY DEF Item
<1>2. ASSUME c.op = "write" PROVE /\ \A p \in 1 .. c.n : Item(c, p) = Byte(p)
                                  /\ Item(c, c.n + 1) = Mark("stop")
  <2>1. ASSUME NEW p \in 1 .. c.n PROVE Item(c, p) = Byte(p)
    BY <1>2 DEF Item
  <2>2. Item(c, c.n + 1) = Mark("stop")
    BY <1>2 DEF Item
  <2> QED BY <2>1, <2>2
<1>3. ASSUME c.op = "read"
      PROVE  /\ Item(c, 1) = Byte(1) /\ Item(c, 2) = Mark("restart")
             /\ \A i \in Int : 0 <= i /\ i < c.n =>
                  Item(c, 3 + i) = Mark(IF i + 1 = c.n THEN "nack" ELSE "ack")
             /\ Item(c, c.n + 3) = Mark("stop")
  <2>1. Item(c, 1) = Byte(1) /\ Item(c, 2) = Mark("restart")
    BY <1>3 DEF Item
  <2>2. ASSUME NEW i \in Int, 0 <= i, i < c.n
        PROVE  Item(c, 3 + i) = Mark(IF i + 1 = c.n THEN "nack" ELSE "ack")
    <3>1. 3 + i # -1 /\ 3 + i # 0 /\ 3 + i # 1 /\ 3 + i # 2
      BY <2>2
    <3>2. CASE i + 1 = c.n
      <4>1. ~(3 + i < c.n + 2) /\ 3 + i = c.n + 2
        BY <3>2
      <4> QED BY <1>3, <3>1, <3>2, <4>1 DEF Item
    <3>3. CASE i + 1 # c.n
      <4>1. 3 + i < c.n + 2
        BY <2>2, <3>3
      <4> QED BY <1>3, <3>1, <3>3, <4>1 DEF Item
    <3> QED BY <3>2, <3>3
  <2>3. Item(c, c.n + 3) = Mark("stop")
    BY <1>3 DEF Item
  <2> QED BY <2>1, <2>2, <2>3
<1> QED BY <1>1, <1>2, <1>3

\* An entry is put behind what is on the way.
LEMMA PutLast ==
  ASSUME Typed, NEW e \in AnyEntry, line' = line, fifo' = Append(fifo, e)
  PROVE  /\ Len(OnTheWay') = Len(OnTheWay) + 1
         /\ OnTheWay'[Len(OnTheWay) + 1] = e
         /\ \A i \in 1 .. Len(OnTheWay) : OnTheWay'[i] = OnTheWay[i]
<1>1. OnTheWay \in Seq(AnyEntry) /\ OnTheWay' = Append(OnTheWay, e)
  BY Moves DEF Typed, OnTheWay
<1> QED BY <1>1, AppendProperties

\* The first entry on the way is gone.
LEMMA FirstGone ==
  ASSUME Typed, line # <<>>, line' = Tail(line), fifo' = fifo
  PROVE  /\ Len(OnTheWay) >= 1 /\ Len(OnTheWay') = Len(OnTheWay) - 1
         /\ Head(line) = OnTheWay[1]
         /\ \A i \in 1 .. Len(OnTheWay') : OnTheWay'[i] = OnTheWay[i + 1]
<1>1. /\ OnTheWay \in Seq(AnyEntry) /\ OnTheWay # <<>>
      /\ OnTheWay' = Tail(OnTheWay) /\ Head(line) = Head(OnTheWay)
  BY Moves DEF Typed, OnTheWay
<1>2. Len(OnTheWay) \in Nat /\ Len(OnTheWay) >= 1
  BY <1>1, LenProperties, EmptySeq
<1> QED BY <1>1, <1>2, HeadTailProperties

LEMMA OrderInit == Init => Order
<1> SUFFICES ASSUME Init PROVE Order
  OBVIOUS
<1>1. Flow
  BY DEF Init, Flow, NoCall
<1>2. OnTheWay = <<>> /\ Len(OnTheWay) = 0
  BY DEF Init, OnTheWay
<1>3. Taken = 0 /\ PutSoFar = 0
  BY DEF Init, Taken, PutSoFar
<1>4. InStream
  BY <1>2, <1>3 DEF Init, InStream
<1>5. Phases
  BY DEF Init, Phases
<1> QED BY <1>1, <1>4, <1>5 DEF Order, Stream

\* Where the device is depends on the bus, the call and done only.
LEMMA TakenStays ==
  ASSUME UNCHANGED <<call, bus, done>>
  PROVE  Taken' = Taken /\ LastItem' = LastItem
BY DEF Taken, LastItem

\* Nothing is put and nothing is taken.
LEMMA StreamStays ==
  ASSUME IInv, Stream, OnTheWay' = OnTheWay, UNCHANGED <<at, call, bus, done, error>>,
         raced => raced', PutSoFar' = PutSoFar,
         runtime'.tx_data_index = runtime.tx_data_index,
         ~error /\ EarlyByte => runtime'.tx_busy,
         ~error /\ EarlyRequest => runtime'.tx_busy /\ runtime'.rx_busy
  PROVE  Stream'
<1> SUFFICES ASSUME ~error PROVE Stream'
  BY DEF Stream
<1>1. Taken' = Taken
  BY TakenStays
<1>2. Phases'
  BY DEF Stream, Phases
<1>3. InStream => InStream'
  BY <1>1 DEF InStream
<1>4. EarlyByte => EarlyByte'
  BY <1>1 DEF EarlyByte, Broken
<1>5. EarlyRequest => EarlyRequest'
  BY <1>1 DEF EarlyRequest, Broken
<1> QED BY <1>2, <1>3, <1>4, <1>5 DEF Stream

\* A broken stream stays broken when an entry is put behind it.
LEMMA BrokenPut ==
  ASSUME IInv, NEW b \in Int, Broken(b), NEW e \in AnyEntry, line' = line,
         fifo' = Append(fifo, e), UNCHANGED <<call, bus, done>>,
         runtime'.tx_busy = runtime.tx_busy
  PROVE  /\ Broken(b)' /\ OnTheWay'[b - Taken + 1] = OnTheWay[b - Taken + 1]
         /\ Len(OnTheWay') > b - Taken + 1 /\ Taken' = Taken
<1>1. /\ Len(OnTheWay') = Len(OnTheWay) + 1
      /\ \A i \in 1 .. Len(OnTheWay) : OnTheWay'[i] = OnTheWay[i]
  BY PutLast DEF IInv
<1>2. Taken' = Taken /\ Taken \in Int /\ Len(OnTheWay) \in Nat
  BY TakenStays, Positions
<1>3. /\ Taken <= b /\ Len(OnTheWay) > b - Taken
      /\ \A i \in 1 .. b - Taken : OnTheWay[i] = Item(call, Taken + i - 1)
  BY DEF Broken
<1>4. \A i \in 1 .. b - Taken + 1 : i \in 1 .. Len(OnTheWay)
  BY <1>2, <1>3
<1>5. \A i \in 1 .. b - Taken : OnTheWay'[i] = Item(call, Taken + i - 1)
  BY <1>1, <1>2, <1>3, <1>4
<1>6. b - Taken + 1 \in 1 .. b - Taken + 1
  BY <1>2, <1>3
<1>7. Len(OnTheWay') > b - Taken + 1
  BY <1>1, <1>2, <1>3
<1>8. Len(OnTheWay') > b - Taken
  BY <1>1, <1>2, <1>3
<1> QED BY <1>1, <1>2, <1>3, <1>4, <1>5, <1>6, <1>7, <1>8 DEF Broken

\* The next entry of the stream is put into the FIFO, or any entry behind one
\* that came too early.
LEMMA StreamPut ==
  ASSUME IInv, Stream, NEW e \in AnyEntry, line' = line, fifo' = Append(fifo, e),
         UNCHANGED <<call, bus, done, error, raced>>,
         at' = at \/ (at = "startTx" /\ at' = "tx") \/ (at = "startRx" /\ at' = "rx"),
         runtime'.tx_busy = runtime.tx_busy, runtime'.rx_busy = runtime.rx_busy,
         InStream => /\ e = Item(call, PutSoFar) /\ PutSoFar' = PutSoFar + 1
                     /\ at' \in {"startTx", "startRx"} => runtime'.tx_data_index = 0
  PROVE  Stream'
<1> SUFFICES ASSUME ~error PROVE Stream'
  BY DEF Stream
<1>1. Taken' = Taken /\ Taken \in Int /\ PutSoFar \in Int /\ Len(OnTheWay) \in Nat
  BY TakenStays, Positions
<1>2. /\ Len(OnTheWay') = Len(OnTheWay) + 1
      /\ OnTheWay'[Len(OnTheWay) + 1] = e
      /\ \A i \in 1 .. Len(OnTheWay) : OnTheWay'[i] = OnTheWay[i]
  BY PutLast DEF IInv
<1>3. Phases'
  BY DEF Stream, Phases
<1>4. ASSUME InStream PROVE InStream'
  <2>1. /\ Len(OnTheWay) = PutSoFar - Taken
        /\ \A i \in 1 .. Len(OnTheWay) : OnTheWay[i] = Item(call, Taken + i - 1)
    BY <1>4 DEF InStream
  <2>2. Len(OnTheWay') = PutSoFar' - Taken'
    BY <1>1, <1>2, <1>4, <2>1
  <2>3. Taken + (Len(OnTheWay) + 1) - 1 = PutSoFar
    BY <1>1, <2>1
  <2>4. ASSUME NEW i \in 1 .. Len(OnTheWay) + 1
        PROVE  OnTheWay'[i] = Item(call, Taken + i - 1)
    <3>1. CASE i \in 1 .. Len(OnTheWay)
      BY <1>2, <2>1, <3>1
    <3>2. CASE i = Len(OnTheWay) + 1
      BY <1>2, <1>4, <2>3, <3>2
    <3> QED BY <1>1, <3>1, <3>2
  <2> QED BY <1>1, <1>2, <1>4, <2>2, <2>4 DEF InStream
<1>5. ASSUME EarlyByte PROVE EarlyByte'
  <2>1. Broken(0)
    BY <1>5 DEF EarlyByte
  <2>2. /\ Broken(0)' /\ OnTheWay'[0 - Taken + 1] = OnTheWay[0 - Taken + 1]
        /\ Len(OnTheWay') > 0 - Taken + 1
    BY <2>1, BrokenPut
  <2>3. 0 - Taken + 1 = 1 - Taken
    BY <1>1
  <2> QED BY <1>1, <1>5, <2>2, <2>3 DEF EarlyByte
<1>6. ASSUME EarlyRequest PROVE EarlyRequest'
  <2>1. Broken(2)
    BY <1>6 DEF EarlyRequest
  <2>2. Broken(2)' /\ OnTheWay'[2 - Taken + 1] = OnTheWay[2 - Taken + 1]
    BY <2>1, BrokenPut
  <2>3. 2 - Taken + 1 = 3 - Taken
    BY <1>1
  <2> QED BY <1>1, <1>6, <2>2, <2>3 DEF EarlyRequest
<1> QED BY <1>3, <1>4, <1>5, <1>6 DEF Stream

\* An entry put at a position it does not belong to breaks the stream there.
LEMMA Breaks ==
  ASSUME IInv, InStream, ~done, runtime.tx_busy, NEW b \in Int, PutSoFar = b,
         NEW e \in AnyEntry, line' = line, fifo' = Append(fifo, e),
         UNCHANGED <<call, bus, done>>, runtime'.tx_busy = runtime.tx_busy
  PROVE  Broken(b)' /\ OnTheWay'[b - Taken + 1] = e /\ Taken' = Taken
<1>1. Taken' = Taken /\ Taken \in Int /\ Len(OnTheWay) \in Nat
  BY TakenStays, Positions
<1>2. /\ Len(OnTheWay') = Len(OnTheWay) + 1
      /\ OnTheWay'[Len(OnTheWay) + 1] = e
      /\ \A i \in 1 .. Len(OnTheWay) : OnTheWay'[i] = OnTheWay[i]
  BY PutLast DEF IInv
<1>3. /\ Len(OnTheWay) = b - Taken
      /\ \A i \in 1 .. Len(OnTheWay) : OnTheWay[i] = Item(call, Taken + i - 1)
  BY DEF InStream
<1>4. Len(OnTheWay') > b - Taken /\ Taken <= b
  BY <1>1, <1>2, <1>3
<1>5. \A i \in 1 .. b - Taken : OnTheWay'[i] = Item(call, Taken + i - 1)
  BY <1>2, <1>3
<1>6. OnTheWay'[b - Taken + 1] = e
  BY <1>2, <1>3
<1> QED BY <1>1, <1>4, <1>5, <1>6 DEF Broken

\* A byte or a request that is put before the start condition.
LEMMA EarlyPut ==
  ASSUME IInv, ~error, Phases, InStream, ~done, runtime.tx_busy,
         NEW e \in AnyEntry, line' = line, fifo' = Append(fifo, e),
         UNCHANGED <<at, call, bus, done, error>>, raced',
         runtime'.tx_busy = runtime.tx_busy, runtime'.rx_busy = runtime.rx_busy,
         \/ at = "startTx" /\ e.sort = "byte"
         \/ at = "startRx" /\ runtime.rx_busy /\ e.sort \in {"ack", "nack"}
  PROVE  Stream'
<1>1. Taken \in Int
  BY Positions
<1>2. Phases'
  BY DEF Phases
<1>3. CASE at = "startTx" /\ e.sort = "byte"
  <2>1. PutSoFar = 0
    BY <1>3 DEF PutSoFar
  <2>2. Broken(0)' /\ OnTheWay'[0 - Taken + 1] = e /\ Taken' = Taken
    BY <2>1, Breaks
  <2>3. 0 - Taken + 1 = 1 - Taken
    BY <1>1
  <2>4. EarlyByte'
    BY <1>3, <2>2, <2>3 DEF EarlyByte
  <2> QED BY <1>2, <2>4 DEF Stream
<1>4. CASE at = "startRx" /\ runtime.rx_busy /\ e.sort \in {"ack", "nack"}
  <2>1. PutSoFar = 2
    BY <1>4 DEF PutSoFar
  <2>2. Broken(2)' /\ OnTheWay'[2 - Taken + 1] = e /\ Taken' = Taken
    BY <2>1, Breaks
  <2>3. 2 - Taken + 1 = 3 - Taken
    BY <1>1
  <2>4. EarlyRequest'
    BY <1>4, <2>2, <2>3 DEF EarlyRequest
  <2> QED BY <1>2, <2>4 DEF Stream
<1> QED BY <1>3, <1>4
-----------------------------------------------------------------------------
\* Steps that put nothing into the FIFO and take nothing out of it.
LEMMA TransmitHandlerOrder == ASSUME IInv, Order, TransmitHandler PROVE Order'
<1>1. /\ UNCHANGED <<at, call, runtime, fifo, line, received, limit, error, bus, done>>
      /\ pending' = pending \ {"tx"} /\ raced' = (raced \/ at \in {"startTx", "startRx"})
      /\ isr = "none" /\ isr' \notin {"finishTx", "stopRx"} /\ (error => isr' = isr)
  BY DEF TransmitHandler, program, device
<1>2. Flow'
  BY <1>1 DEF Order, Flow
<1>3. OnTheWay' = OnTheWay /\ PutSoFar' = PutSoFar
  BY <1>1 DEF OnTheWay, PutSoFar, StopPut
<1>4. Stream'
  BY <1>1, <1>3, StreamStays DEF Order, EarlyByte, EarlyRequest, Broken
<1> QED BY <1>2, <1>4 DEF Order

LEMMA LoadOrder == ASSUME IInv, Order, Load PROVE Order'
<1>1. /\ UNCHANGED <<at, call, runtime, isr, received, limit, error, bus, done, raced>>
      /\ "rx" \in pending' => "rx" \in pending
      /\ fifo # <<>> /\ fifo' = Tail(fifo) /\ line' = Append(line, Head(fifo))
  BY DEF Load, program, driver, device
<1>2. Flow'
  BY <1>1 DEF Order, Flow
<1>3. PutSoFar' = PutSoFar
  BY <1>1 DEF PutSoFar, StopPut
<1>4. OnTheWay' = OnTheWay
  BY <1>1, Moves DEF IInv, Typed, OnTheWay
<1>5. Stream'
  BY <1>1, <1>3, <1>4, StreamStays DEF Order, EarlyByte, EarlyRequest, Broken
<1> QED BY <1>2, <1>5 DEF Order

LEMMA FinishRxOrder == ASSUME IInv, Order, FinishRx PROVE Order'
<1>1. /\ UNCHANGED <<at, call, pending, fifo, line, received, limit, error, bus, done, raced>>
      /\ isr = "finishRx" /\ isr' = "none"
      /\ runtime' = [runtime EXCEPT !.rx_busy = FALSE, !.tx_busy = FALSE]
      /\ runtime \in Runtimes
  BY DEF FinishRx, program, channel, device, IInv, Typed
<1>2. at = "rx" /\ ~runtime.rx_busy
  BY <1>1 DEF IInv, Typed, InCall, Idle, StartingTx, Sending, Asking, Received
<1>3. done
  BY <1>2 DEF Order, Flow
<1>4. /\ runtime'.tx_data_index = runtime.tx_data_index
      /\ runtime'.bus_acquired = runtime.bus_acquired
      /\ runtime'.rx_data_index = runtime.rx_data_index
      /\ ~runtime'.rx_busy
  BY <1>1, Zenon DEF Runtimes
<1>5. Flow'
  BY <1>1, <1>2, <1>3, <1>4 DEF Order, Flow
<1>6. OnTheWay' = OnTheWay /\ PutSoFar' = PutSoFar
  BY <1>1, <1>4 DEF OnTheWay, PutSoFar, StopPut
<1>7. Stream'
  BY <1>1, <1>3, <1>4, <1>6, StreamStays DEF Order, EarlyByte, EarlyRequest, Broken
<1> QED BY <1>5, <1>7 DEF Order

\* Where the device is while it has not carried out the call.
LEMMA Before ==
  ASSUME IInv, Phases, ~done
  PROVE  /\ bus.phase = "over" => Taken = -1
         /\ bus.phase = "free" => Taken = 0
         /\ bus.phase = "write" => /\ Taken = 1 + bus.count /\ Taken >= 1
                                   /\ Taken <= (IF call.op = "write" THEN call.n ELSE 2)
         /\ bus.phase = "read" => /\ Taken = 3 + bus.count /\ Taken >= 3
                                  /\ Taken < 3 + call.n /\ at = "rx"
<1>1. bus.count \in Int /\ call.n \in Int
  BY Positions
<1>2. bus.phase = "over" => Taken = -1
  BY DEF Taken
<1>3. bus.phase = "free" => Taken = 0
  BY DEF Taken
<1>4. ASSUME bus.phase = "write"
      PROVE  /\ Taken = 1 + bus.count /\ Taken >= 1
             /\ Taken <= (IF call.op = "write" THEN call.n ELSE 2)
  <2>1. Taken = 1 + bus.count
    BY <1>4 DEF Taken
  <2> QED BY <1>1, <1>4, <2>1 DEF Phases
<1>5. ASSUME bus.phase = "read"
      PROVE  Taken = 3 + bus.count /\ Taken >= 3 /\ Taken < 3 + call.n /\ at = "rx"
  <2>1. Taken = 3 + bus.count
    BY <1>5 DEF Taken
  <2>2. bus.count < call.n /\ at = "rx"
    BY <1>5 DEF IInv, ReceptionFits
  <2> QED BY <1>1, <1>5, <2>1, <2>2 DEF Phases
<1> QED BY <1>2, <1>3, <1>4, <1>5

\* The device has taken the call's last byte when the handler has waited for the
\* transmit buffer behind the stop.
LEMMA FinishTxOrder == ASSUME IInv, Levels, Order, FinishTx PROVE Order'
<1>1. /\ UNCHANGED <<at, call, pending, fifo, line, received, limit, error, bus, done, raced>>
      /\ isr = "finishTx" /\ isr' = "none" /\ BufferFree
      /\ runtime' = [runtime EXCEPT !.tx_busy = FALSE] /\ runtime \in Runtimes
  BY DEF FinishTx, program, channel, device, IInv, Typed
<1>2. at = "tx" /\ SentAll /\ (call.op = "write" => ~runtime.bus_acquired)
  BY <1>1 DEF IInv, Typed, InCall, Idle, StartingTx, Sending, Asking, Received,
              Levels, FifoFits
<1>3. /\ runtime'.tx_data_index = runtime.tx_data_index
      /\ runtime'.tx_data_count = runtime.tx_data_count
      /\ runtime'.bus_acquired = runtime.bus_acquired
      /\ runtime'.rx_data_index = runtime.rx_data_index
      /\ runtime'.rx_busy = runtime.rx_busy /\ ~runtime'.tx_busy
  BY <1>1 DEF Runtimes
<1>4. Len(OnTheWay) <= 1
  <2>1. fifo = <<>> /\ Len(line) < 2 /\ Len(line) \in Nat
    BY <1>1, LenProperties DEF BufferFree, IInv, Typed
  <2>2. OnTheWay = line
    BY <2>1 DEF OnTheWay, IInv, Typed
  <2> QED BY <2>1, <2>2
<1>5. ~error => ~EarlyByte /\ ~EarlyRequest
  <2>1. ASSUME EarlyByte PROVE FALSE
    BY <1>2, <1>4, <2>1, Positions DEF EarlyByte, Broken
  <2> QED BY <1>2, <2>1 DEF EarlyRequest
<1>6. call.op = "write" => done \/ error
  <2> SUFFICES ASSUME call.op = "write", ~done, ~error PROVE FALSE
    OBVIOUS
  <2>1. Phases /\ InStream
    BY <1>5 DEF Order, Stream
  <2>2. PutSoFar = 2 + runtime.tx_data_index /\ runtime.tx_data_index = call.n
    BY <1>2, Amounts DEF PutSoFar, StopPut, Order, Flow, SentAll
  <2>3. Taken >= call.n + 1
    BY <1>4, <2>1, <2>2, Positions DEF InStream
  <2>4. Taken <= call.n
    BY <1>2, <2>1, Before, Positions DEF IInv, Typed
  <2> QED BY <2>3, <2>4, Positions
<1>7. ~call.deaf
  BY <1>1 DEF Order, Flow
<1>8. Flow'
  BY <1>1, <1>2, <1>3, <1>6, <1>7 DEF Order, Flow
<1>9. OnTheWay' = OnTheWay /\ PutSoFar' = PutSoFar
  BY <1>1, <1>3 DEF OnTheWay, PutSoFar, StopPut
<1>10. Stream'
  BY <1>1, <1>3, <1>5, <1>9, StreamStays DEF Order
<1> QED BY <1>8, <1>10 DEF Order

\* A call begins with at most the stop of the one before on the way.
LEMMA TransmitOrder ==
  ASSUME IInv, Order, NEW op \in {"write", "read"}, NEW n \in 1 .. MaxLen, Transmit(op, n)
  PROVE  Order'
<1>1. /\ at = "idle" /\ at' = "startTx" /\ isr = "none" /\ isr' = "none"
      /\ UNCHANGED <<pending, fifo, line, received, limit, error, bus, done, raced>>
      /\ call' = [op |-> op, n |-> n, deaf |-> error]
      /\ runtime' = [runtime EXCEPT !.direction = "transmit", !.tx_busy = TRUE,
                       !.tx_data_count = IF op = "write" THEN n ELSE 1,
                       !.tx_data_index = 0, !.send_stop = (op = "write")]
      /\ runtime \in Runtimes
  BY DEF IInv, Typed, InCall, Idle, Transmit, channel, device
<1>2. /\ runtime'.tx_data_index = 0
      /\ runtime'.tx_data_count = (IF op = "write" THEN n ELSE 1)
      /\ runtime'.tx_busy
  BY <1>1 DEF Runtimes
<1>3. call = NoCall /\ ~done /\ "rx" \notin pending
  BY <1>1 DEF Order, Flow
<1>4. Flow'
  BY <1>1, <1>2, <1>3 DEF Flow
<1>5. ASSUME ~error PROVE Stream'
  <2>1. Phases /\ InStream
    BY <1>1, <1>5 DEF Order, Stream, EarlyByte, EarlyRequest
  <2>2. Taken \in {-1, 0} /\ Len(OnTheWay) = 0 - Taken
    BY <1>1, <1>3, <2>1, Before DEF Phases, InStream, PutSoFar
  <2>3. Taken' = Taken
    BY <1>1, <1>3, <2>1 DEF Phases, Taken
  <2>4. Phases'
    BY <1>1, <1>3, <2>1 DEF Phases
  <2>5. PutSoFar' = 0 /\ OnTheWay' = OnTheWay
    BY <1>1 DEF PutSoFar, OnTheWay
  <2>6. ASSUME NEW i \in 1 .. Len(OnTheWay) PROVE OnTheWay[i] = Item(call', Taken + i - 1)
    <3>1. Taken + i - 1 = -1
      BY <2>2
    <3>2. OnTheWay[i] = Item(call, Taken + i - 1)
      BY <2>1 DEF InStream
    <3> QED BY <3>1, <3>2 DEF Item
  <2>7. InStream'
    BY <1>2, <2>2, <2>3, <2>5, <2>6 DEF InStream
  <2> QED BY <2>4, <2>7 DEF Stream
<1>6. Stream'
  BY <1>1, <1>5 DEF Stream
<1> QED BY <1>4, <1>6 DEF Order

\* A start condition is put when nothing of the call is, or has come too late.
LEMMA SendStartOrder == ASSUME IInv, Order, SendStart PROVE Order'
<1> DEFINE e == Mark(IF runtime.bus_acquired THEN "restart" ELSE "start")
<1>1. /\ at \in {"startTx", "startRx"} /\ isr = "none" /\ isr' = "none"
      /\ fifo' = Append(fifo, e)
      /\ at' = (IF at = "startTx" THEN "tx" ELSE "rx")
      /\ UNCHANGED <<call, pending, line, received, limit, error, bus, done, raced>>
      /\ runtime' = [runtime EXCEPT !.bus_acquired = TRUE] /\ runtime \in Runtimes
  BY DEF SendStart, device, IInv, Typed
<1>2. e \in AnyEntry
  BY Entries DEF IInv, Typed, Runtimes, Sorts
<1>3. /\ runtime'.tx_data_index = runtime.tx_data_index
      /\ runtime'.tx_data_count = runtime.tx_data_count
      /\ runtime'.rx_data_index = runtime.rx_data_index
      /\ runtime'.tx_busy = runtime.tx_busy /\ runtime'.rx_busy = runtime.rx_busy
      /\ runtime'.bus_acquired
  BY <1>1 DEF Runtimes
<1>4. /\ runtime.tx_busy
      /\ at = "startTx" => ~runtime.bus_acquired
      /\ at = "startRx" => runtime.rx_busy /\ runtime.bus_acquired
  BY <1>1 DEF IInv, InCall, StartingTx, Asking
<1>5. Flow'
  BY <1>1, <1>3, <1>4 DEF Order, Flow
<1>6. ASSUME InStream PROVE e = Item(call, PutSoFar) /\ PutSoFar' = PutSoFar + 1
  <2>1. runtime.tx_data_index = 0
    BY <1>1, <1>6 DEF InStream
  <2>2. CASE at = "startTx"
    <3>1. PutSoFar = 0 /\ PutSoFar' = 1
      BY <1>1, <1>3, <2>1, <2>2 DEF PutSoFar, StopPut
    <3> QED BY <1>4, <2>2, <3>1, Items, Positions
  <2>3. CASE at = "startRx"
    <3>1. PutSoFar = 2 /\ PutSoFar' = 3
      BY <1>1, <1>3, <2>1, <2>3 DEF PutSoFar, StopPut
    <3> QED BY <1>4, <2>3, <3>1, Items, Positions
  <2> QED BY <1>1, <2>2, <2>3
<1> HIDE DEF e
<1>7. Stream'
  BY <1>1, <1>2, <1>3, <1>6, StreamPut DEF Order
<1> QED BY <1>5, <1>7 DEF Order

\* The register's address is sent; the repeated start comes next.
LEMMA ReceiveOrder == ASSUME IInv, Levels, Order, Receive PROVE Order'
<1>1. /\ at = "tx" /\ ~runtime.tx_busy /\ ~runtime.rx_busy /\ call.op = "read"
      /\ isr = "none" /\ isr' = "none"
  BY DEF IInv, InCall, Sending, Receive
<1>2. /\ at' = "startRx"
      /\ UNCHANGED <<call, pending, fifo, line, error, bus, done, raced>>
      /\ limit' = Lesser(call.n, FifoSize)
      /\ runtime' = [runtime EXCEPT !.direction = "receive",
                       !.tx_busy = TRUE, !.rx_busy = TRUE, !.send_stop = TRUE,
                       !.tx_data_count = call.n, !.rx_data_count = call.n,
                       !.tx_data_index = 0, !.rx_data_index = 0]
  BY <1>1 DEF Receive, device
<1>3. runtime'.tx_data_index = 0 /\ runtime'.rx_data_index = 0
  <2>1. runtime \in Runtimes
    BY DEF IInv, Typed
  <2> QED BY <1>2, <2>1 DEF Runtimes
<1>4. limit' = call.n
  <2>1. call.n \in 1 .. MaxLen
    BY <1>1 DEF IInv, Typed, Calls
  <2> QED BY <1>2, <2>1, SizeAssumption DEF Lesser
<1>5. Flow'
  BY <1>1, <1>2, <1>3, <1>4 DEF Order, Flow
<1>6. PutSoFar = 2
  <2>1. runtime.tx_data_index = 1
    BY <1>1 DEF Order, Flow, Levels, FifoFits, Through, SentAll
  <2> QED BY <1>1, <2>1 DEF PutSoFar
<1>7. ASSUME ~error PROVE Stream'
  <2>1. Phases /\ InStream
    BY <1>1, <1>7 DEF Order, Stream, EarlyByte, EarlyRequest, Broken
  <2>2. Taken' = Taken /\ OnTheWay' = OnTheWay /\ PutSoFar' = 2
    BY <1>2, TakenStays DEF OnTheWay, PutSoFar
  <2>3. InStream'
    BY <1>2, <1>3, <1>6, <2>1, <2>2 DEF InStream
  <2>4. Phases'
    BY <1>2, <2>1 DEF Phases
  <2> QED BY <2>3, <2>4 DEF Stream
<1>8. Stream'
  BY <1>2, <1>7 DEF Stream
<1> QED BY <1>5, <1>8 DEF Order

\* The device has not carried out the call before its start condition, nor before
\* its repeated start.
LEMMA NotYet ==
  ASSUME IInv, Phases, InStream, at \in {"startTx", "startRx"}
  PROVE  ~done
<1>1. Taken <= (IF at = "startTx" THEN 0 ELSE 2)
  BY Positions DEF InStream, PutSoFar
<1>2. call.n \in Int /\ call.n >= 1 /\ (at = "startRx" => call.op = "read")
  BY Positions
<1>3. ASSUME done PROVE FALSE
  <2>1. Taken \in {LastItem, LastItem + 1}
    BY <1>3 DEF Phases, Taken
  <2>2. LastItem >= (IF at = "startTx" THEN 2 ELSE 4)
    BY <1>2 DEF LastItem
  <2> QED BY <1>1, <2>1, <2>2, Positions
<1> QED BY <1>3

\* Bytes are loaded behind the start condition, or, after the race, before it.
LEMMA FillOrder == ASSUME IInv, Levels, Order, Fill PROVE Order'
<1> DEFINE e == Byte(runtime.tx_data_index + 1)
<1>1. /\ UNCHANGED <<at, call, pending, line, received, limit, error, bus, done, raced>>
      /\ isr = "fill" /\ isr' \in {"fill", "none"}
  BY DEF Fill, program, device
<1>2. CASE Full \/ SentAll
  <2>1. UNCHANGED <<fifo, runtime>>
    BY <1>2 DEF Fill
  <2>2. OnTheWay' = OnTheWay /\ PutSoFar' = PutSoFar
    BY <1>1, <2>1 DEF OnTheWay, PutSoFar, StopPut
  <2>3. Flow'
    BY <1>1, <2>1 DEF Order, Flow
  <2>4. Stream'
    BY <1>1, <2>1, <2>2, StreamStays DEF Order, EarlyByte, EarlyRequest, Broken
  <2> QED BY <2>3, <2>4 DEF Order
<1>3. CASE ~(Full \/ SentAll)
  <2>1. /\ fifo' = Append(fifo, e)
        /\ runtime' = [runtime EXCEPT !.tx_data_index = @ + 1] /\ runtime \in Runtimes
    BY <1>3 DEF Fill, IInv, Typed
  <2>2. e \in AnyEntry /\ e.sort = "byte"
    BY Amounts, Entries
  <2>3. /\ runtime'.tx_data_index = runtime.tx_data_index + 1
        /\ runtime'.tx_data_count = runtime.tx_data_count
        /\ runtime'.rx_data_index = runtime.rx_data_index
        /\ runtime'.bus_acquired = runtime.bus_acquired
        /\ runtime'.tx_busy = runtime.tx_busy /\ runtime'.rx_busy = runtime.rx_busy
    BY <2>1 DEF Runtimes
  <2>4. at \in {"startTx", "tx"} /\ runtime.tx_busy
    BY <1>1, <1>3
       DEF IInv, Typed, InCall, StartingTx, Asking, Received, Levels, FifoFits, Through
  <2>5. Flow'
    BY <1>1, <2>3 DEF Order, Flow
  <2>6. CASE at = "startTx" /\ InStream
    <3>1. raced
      BY <1>1, <2>6 DEF Order, Flow
    <3>2. ASSUME ~error PROVE Stream'
      <4>1. Phases /\ ~done
        BY <2>6, <3>2, NotYet DEF Order, Stream
      <4> HIDE DEF e
      <4> QED BY <1>1, <2>1, <2>2, <2>3, <2>4, <2>6, <3>1, <3>2, <4>1, EarlyPut
    <3>3. Stream'
      BY <1>1, <3>2 DEF Stream
    <3> QED BY <2>5, <3>3 DEF Order
  <2>7. CASE at = "startTx" /\ ~InStream
    <3> HIDE DEF e
    <3>1. Stream'
      BY <1>1, <2>1, <2>2, <2>3, <2>7, StreamPut DEF Order
    <3> QED BY <2>5, <3>1 DEF Order
  <2>8. CASE at = "tx"
    <3>1. runtime.bus_acquired
      BY <1>1, <2>4, <2>8 DEF Order, Flow
    <3>2. PutSoFar = 1 + runtime.tx_data_index /\ PutSoFar' = PutSoFar + 1
      BY <1>1, <2>3, <2>8, <3>1, Amounts DEF PutSoFar, StopPut
    <3>3. /\ runtime.tx_data_index >= 0
          /\ runtime.tx_data_index < (IF call.op = "write" THEN call.n ELSE 1)
      BY <1>3, <2>8, Amounts DEF Order, Flow, Levels, Ranges, SentAll
    <3>4. e = Item(call, PutSoFar)
      <4>1. /\ call.n \in Int /\ call.n >= 1 /\ call.op \in {"write", "read"}
            /\ runtime.tx_data_index \in Int
        BY <2>8, Positions, Amounts
      <4>2. CASE call.op = "write"
        <5>1. 1 + runtime.tx_data_index \in 1 .. call.n
          BY <3>3, <4>1, <4>2
        <5>2. Item(call, 1 + runtime.tx_data_index) = Byte(1 + runtime.tx_data_index)
          BY <4>1, <4>2, <5>1, Items
        <5>3. runtime.tx_data_index + 1 = 1 + runtime.tx_data_index
          BY <4>1
        <5> QED BY <3>2, <5>2, <5>3
      <4>3. CASE call.op = "read"
        <5>1. runtime.tx_data_index = 0
          BY <3>3, <4>1, <4>3
        <5> QED BY <3>2, <4>1, <4>3, <5>1, Items
      <4> QED BY <4>1, <4>2, <4>3
    <3> HIDE DEF e
    <3>5. Stream'
      BY <1>1, <2>1, <2>2, <2>3, <2>8, <3>2, <3>4, StreamPut DEF Order
    <3> QED BY <2>5, <3>5 DEF Order
  <2> QED BY <2>4, <2>6, <2>7, <2>8
<1> QED BY <1>2, <1>3

\* The stop of a write follows its last byte.
LEMMA DrainedOrder == ASSUME IInv, Levels, Order, Drained PROVE Order'
<1>1. /\ UNCHANGED <<at, call, pending, line, received, limit, error, bus, done, raced>>
      /\ isr = "drain" /\ fifo = <<>>
      /\ isr' = (IF runtime.bus_acquired THEN "finishTx" ELSE "none")
  BY DEF Drained, program, device
<1>2. CASE ~(runtime.bus_acquired /\ runtime.send_stop)
  <2>1. UNCHANGED <<fifo, runtime>>
    BY <1>2 DEF Drained
  <2>2. OnTheWay' = OnTheWay /\ PutSoFar' = PutSoFar
    BY <1>1, <2>1 DEF OnTheWay, PutSoFar, StopPut
  <2>3. Flow'
    BY <1>1, <2>1 DEF Order, Flow
  <2>4. Stream'
    BY <1>1, <2>1, <2>2, StreamStays DEF Order, EarlyByte, EarlyRequest, Broken
  <2> QED BY <2>3, <2>4 DEF Order
<1>3. CASE runtime.bus_acquired /\ runtime.send_stop
  <2>1. /\ fifo' = Append(fifo, Mark("stop")) /\ isr' = "finishTx"
        /\ runtime' = [runtime EXCEPT !.bus_acquired = FALSE] /\ runtime \in Runtimes
    BY <1>1, <1>3 DEF Drained, IInv, Typed
  <2>2. /\ runtime'.tx_data_index = runtime.tx_data_index
        /\ runtime'.tx_data_count = runtime.tx_data_count
        /\ runtime'.rx_data_index = runtime.rx_data_index
        /\ runtime'.tx_busy = runtime.tx_busy /\ runtime'.rx_busy = runtime.rx_busy
        /\ ~runtime'.bus_acquired
    BY <2>1 DEF Runtimes
  <2>3. at = "tx" /\ call.op = "write" /\ runtime.tx_busy
    BY <1>1, <1>3
       DEF IInv, Typed, Calls, InCall, Idle, StartingTx, Sending, Asking, Received
  <2>4. runtime.tx_data_index = call.n
    BY <1>1, <2>3 DEF Order, Flow, Levels, FifoFits, SentAll
  <2>5. Mark("stop") \in AnyEntry
    BY Entries DEF Sorts
  <2>6. Flow'
    BY <1>1, <2>1, <2>2, <2>3 DEF Order, Flow
  <2>7. PutSoFar = call.n + 1 /\ PutSoFar' = PutSoFar + 1
    BY <1>1, <1>3, <2>2, <2>3, <2>4, Positions DEF PutSoFar, StopPut
  <2>8. Mark("stop") = Item(call, PutSoFar)
    BY <2>3, <2>7, Items, Positions
  <2>9. Stream'
    BY <1>1, <2>1, <2>2, <2>3, <2>5, <2>7, <2>8, StreamPut DEF Order
  <2> QED BY <2>6, <2>9 DEF Order
<1> QED BY <1>2, <1>3

\* Bytes are asked for behind the repeated start, or, after the race, before it.
LEMMA AskOrder == ASSUME IInv, Levels, Order, Ask PROVE Order'
<1> DEFINE stop == Full \/ SentAll
           next == IF stop THEN runtime.tx_data_index ELSE runtime.tx_data_index + 1
           e == Request(runtime.tx_data_index)
<1>1. /\ UNCHANGED <<at, call, pending, line, received, limit, error, bus, done, raced>>
      /\ isr = "ask" /\ isr' \in {"ask", "none"}
      /\ fifo' = (IF stop THEN fifo ELSE Append(fifo, e))
      /\ runtime' = [runtime EXCEPT !.tx_data_index = next] /\ runtime \in Runtimes
  BY DEF Ask, program, device, IInv, Typed
<1>2. next \in Int
  BY Amounts
<1>3. /\ runtime'.tx_data_index = next
      /\ runtime'.tx_data_count = runtime.tx_data_count
      /\ runtime'.rx_data_index = runtime.rx_data_index
      /\ runtime'.bus_acquired = runtime.bus_acquired
      /\ runtime'.tx_busy = runtime.tx_busy /\ runtime'.rx_busy = runtime.rx_busy
  <2> HIDE DEF next
  <2> QED BY <1>1, <1>2 DEF Runtimes
<1>4. Flow'
  <2> HIDE DEF next, stop, e
  <2> QED BY <1>1, <1>3 DEF Order, Flow
<1>5. CASE stop
  <2>1. fifo' = fifo /\ runtime'.tx_data_index = runtime.tx_data_index
    BY <1>1, <1>3, <1>5
  <2>2. OnTheWay' = OnTheWay /\ PutSoFar' = PutSoFar
    BY <1>1, <1>3, <2>1 DEF OnTheWay, PutSoFar, StopPut
  <2>3. Stream'
    BY <1>1, <1>3, <2>1, <2>2, StreamStays DEF Order, EarlyByte, EarlyRequest, Broken
  <2> QED BY <1>4, <2>3 DEF Order
<1>6. CASE ~stop
  <2>1. fifo' = Append(fifo, e) /\ runtime'.tx_data_index = runtime.tx_data_index + 1
    BY <1>1, <1>3, <1>6
  <2>2. e \in AnyEntry /\ e.sort \in {"ack", "nack"}
    BY Entries DEF Request, Mark, Sorts
  <2>3. ~SentAll
    BY <1>6
  <2> HIDE DEF stop, next, e
  <2>4. at \in {"startRx", "rx"} /\ ~AllCame
    BY <1>1, <2>3
       DEF IInv, Typed, InCall, StartingTx, Sending, Levels, NackFits, FifoFits, Through
  <2>5. Receiving /\ Asking
    BY <2>4 DEF IInv, InCall, Received, AllCame
  <2>6. CASE at = "startRx" /\ InStream
    <3>1. raced
      BY <1>1, <2>6 DEF Order, Flow
    <3>2. ASSUME ~error PROVE Stream'
      <4>1. Phases /\ ~done
        BY <2>6, <3>2, NotYet DEF Order, Stream
      <4> QED BY <1>1, <1>3, <2>1, <2>2, <2>5, <2>6, <3>1, <3>2, <4>1, EarlyPut
              DEF Asking
    <3>3. Stream'
      BY <1>1, <3>2 DEF Stream
    <3> QED BY <1>4, <3>3 DEF Order
  <2>7. CASE at = "startRx" /\ ~InStream
    <3>1. Stream'
      BY <1>1, <1>3, <2>1, <2>2, <2>7, StreamPut DEF Order
    <3> QED BY <1>4, <3>1 DEF Order
  <2>8. CASE at = "rx"
    <3>1. PutSoFar = 3 + runtime.tx_data_index /\ PutSoFar' = PutSoFar + 1
      BY <1>1, <1>3, <2>1, <2>5, <2>8, Amounts DEF PutSoFar, StopPut, Asking
    <3>2. runtime.tx_data_count = call.n
      BY <2>5, <2>8 DEF Levels, Ranges, Receiving
    <3>3. /\ 0 <= runtime.tx_data_index /\ runtime.tx_data_index < call.n
          /\ runtime.tx_data_index \in Int
      BY <2>3, <3>2, Amounts DEF Levels, Ranges, SentAll
    <3>4. e = Item(call, 3 + runtime.tx_data_index)
      BY <2>8, <3>2, <3>3, Items, Positions DEF e, Request
    <3>5. Stream'
      BY <1>1, <1>3, <2>1, <2>2, <2>8, <3>1, <3>4, StreamPut DEF Order
    <3> QED BY <1>4, <3>5 DEF Order
  <2> QED BY <2>4, <2>6, <2>7, <2>8
<1> QED BY <1>5, <1>6

\* The receive FIFO interrupts when all bytes have come, and not before.
LEMMA ReceiveHandlerOrder == ASSUME IInv, Levels, Order, ReceiveHandler PROVE Order'
<1>1. /\ UNCHANGED <<at, call, line, error, bus, done, raced>>
      /\ isr = "none" /\ "rx" \in pending /\ "rx" \notin pending'
  BY DEF ReceiveHandler, program, device
<1>2. /\ at = "rx" /\ runtime.rx_busy /\ received = call.n /\ done
      /\ runtime.rx_data_index = 0
  BY <1>1 DEF Order, Flow
<1>3. runtime.rx_data_count = call.n
  BY <1>2 DEF IInv, InCall, Receiving
<1>4. AllRead
  <2>1. call.n \in Int
    BY Positions
  <2>2. 0 + Lesser(call.n, call.n - 0) = call.n
    BY <2>1 DEF Lesser
  <2>3. ~(call.n < call.n)
    BY <2>1
  <2> QED BY <1>2, <1>3, <2>2, <2>3, Zenon DEF ReceiveHandler
<1>5. /\ runtime' = [runtime EXCEPT !.rx_data_index = runtime.rx_data_count,
                                    !.rx_busy = FALSE]
      /\ runtime \in Runtimes
      /\ isr' = (IF runtime.bus_acquired THEN "stopRx" ELSE "none")
      /\ fifo' = fifo
  BY <1>4 DEF AllRead, IInv, Typed
<1>6. /\ runtime'.tx_data_index = runtime.tx_data_index
      /\ runtime'.bus_acquired = runtime.bus_acquired
      /\ runtime'.tx_busy = runtime.tx_busy /\ ~runtime'.rx_busy
  BY <1>5 DEF Runtimes
<1>7. Flow'
  BY <1>1, <1>2, <1>5, <1>6 DEF Order, Flow
<1>8. OnTheWay' = OnTheWay /\ PutSoFar' = PutSoFar
  BY <1>1, <1>5, <1>6 DEF OnTheWay, PutSoFar, StopPut
<1>9. Stream'
  BY <1>1, <1>2, <1>6, <1>8, StreamStays DEF Order, EarlyByte, EarlyRequest, Broken
<1> QED BY <1>7, <1>9 DEF Order

\* The stop of a read follows the request for its last byte.
LEMMA StopRxOrder == ASSUME IInv, Levels, Order, StopRx PROVE Order'
<1>1. /\ UNCHANGED <<at, call, pending, line, received, limit, error, bus, done, raced>>
      /\ isr = "stopRx" /\ isr' = "finishRx"
  BY DEF StopRx, program, device
<1>2. at = "rx" /\ ~runtime.rx_busy /\ runtime.send_stop
  BY <1>1 DEF IInv, Typed, InCall, Idle, StartingTx, Sending, Asking, Received, Receiving
<1>3. done /\ runtime.bus_acquired
  BY <1>1, <1>2 DEF Order, Flow
<1>4. /\ fifo' = Append(fifo, Mark("stop"))
      /\ runtime' = [runtime EXCEPT !.bus_acquired = FALSE] /\ runtime \in Runtimes
  BY <1>2 DEF StopRx, IInv, Typed
<1>5. /\ runtime'.tx_data_index = runtime.tx_data_index
      /\ runtime'.rx_data_index = runtime.rx_data_index
      /\ runtime'.tx_busy = runtime.tx_busy /\ runtime'.rx_busy = runtime.rx_busy
      /\ ~runtime'.bus_acquired
  BY <1>4 DEF Runtimes
<1>6. runtime.tx_data_index = call.n
  BY <1>2 DEF IInv, InCall, Receiving, Levels, Ranges, NackFits, AllCame, SentAll
<1>7. Mark("stop") \in AnyEntry
  BY Entries DEF Sorts
<1>8. Flow'
  BY <1>1, <1>2, <1>3, <1>5 DEF Order, Flow
<1>9. PutSoFar = call.n + 3 /\ PutSoFar' = PutSoFar + 1
  BY <1>1, <1>2, <1>3, <1>5, <1>6, Positions DEF PutSoFar, StopPut
<1>10. Mark("stop") = Item(call, PutSoFar)
  BY <1>2, <1>9, Items, Positions
<1>11. Stream'
  BY <1>1, <1>2, <1>4, <1>5, <1>7, <1>9, <1>10, StreamPut DEF Order
<1> QED BY <1>8, <1>11 DEF Order

\* A call that returns leaves at most its stop on the way.
LEMMA ReturnOrder == ASSUME IInv, Levels, Order, Return PROVE Order'
<1>1. /\ at' = "idle" /\ call' = NoCall /\ done' = FALSE /\ isr = "none" /\ isr' = "none"
      /\ UNCHANGED <<runtime, pending, fifo, line, received, limit, error, bus, raced>>
  BY DEF Return, driver, channel
<1>2. \/ at = "tx" /\ call.op = "write" /\ ~runtime.tx_busy
      \/ at = "rx" /\ ~runtime.rx_busy
  BY Zenon DEF Return
<1>3. error \/ done
  BY <1>2 DEF Order, Flow
<1>4. "rx" \notin pending
  BY <1>2 DEF Order, Flow
<1>5. Flow'
  BY <1>1, <1>4 DEF Flow, NoCall
<1>6. ASSUME ~error PROVE Stream'
  <2>1. Phases /\ InStream /\ done
    BY <1>3, <1>6 DEF Order, Stream, EarlyByte, EarlyRequest, Broken
  <2>2. PutSoFar = LastItem + 1 /\ Item(call, LastItem) = Mark("stop")
    <3>1. CASE at = "tx" /\ call.op = "write" /\ ~runtime.tx_busy
      <4>1. runtime.tx_data_index = call.n /\ ~runtime.bus_acquired
        BY <3>1 DEF IInv, InCall, Sending, Order, Flow, Levels, FifoFits, Through, SentAll
      <4> QED BY <3>1, <4>1, Items, Positions DEF PutSoFar, StopPut, LastItem
    <3>2. CASE at = "rx" /\ ~runtime.rx_busy
      <4>1. Receiving /\ ~runtime.bus_acquired
        BY <1>1, <3>2 DEF IInv, InCall, Asking, Received
      <4>2. runtime.tx_data_index = call.n
        BY <3>2, <4>1 DEF Receiving, Levels, Ranges, NackFits, AllCame, SentAll
      <4> QED BY <3>2, <4>1, <4>2, Items, Positions DEF PutSoFar, StopPut, LastItem, Receiving
    <3> QED BY <1>2, <3>1, <3>2
  <2>3. bus.phase \in {"free", "over"}
    BY <2>1 DEF Phases
  <2>4. /\ Taken = (IF bus.phase = "over" THEN LastItem ELSE LastItem + 1)
        /\ Taken' = (IF bus.phase = "over" THEN -1 ELSE 0)
    BY <1>1, <2>1, <2>3 DEF Taken
  <2>5. Len(OnTheWay) = 0 - Taken'
    BY <2>1, <2>2, <2>3, <2>4, Positions DEF InStream
  <2>6. PutSoFar' = 0 /\ OnTheWay' = OnTheWay
    BY <1>1 DEF PutSoFar, OnTheWay
  <2>7. ASSUME NEW i \in 1 .. Len(OnTheWay) PROVE OnTheWay[i] = Item(call', Taken' + i - 1)
    <3>1. i = 1 /\ Taken' = -1 /\ Taken = LastItem
      <4>1. CASE bus.phase = "over"
        BY <2>4, <2>5, <4>1
      <4>2. CASE bus.phase = "free"
        <5>1. Len(OnTheWay) = 0
          BY <2>4, <2>5, <4>2
        <5> QED BY <5>1
      <4> QED BY <2>3, <4>1, <4>2
    <3>2. OnTheWay[i] = Item(call, Taken + i - 1)
      BY <2>1 DEF InStream
    <3>3. Taken + 1 - 1 = LastItem /\ Taken' + 1 - 1 = -1
      BY <3>1, Positions
    <3>4. Item(call', -1) = Mark("stop")
      BY DEF Item
    <3> QED BY <2>2, <3>1, <3>2, <3>3, <3>4
  <2>8. InStream'
    BY <1>1, <2>5, <2>6, <2>7 DEF InStream
  <2>9. Phases'
    BY <1>1, <2>1, <2>3 DEF Phases
  <2> QED BY <2>8, <2>9 DEF Stream
<1>7. Stream'
  BY <1>1, <1>6 DEF Stream
<1> QED BY <1>5, <1>7 DEF Order
-----------------------------------------------------------------------------
\* An entry that fits takes the device one position further.
LEMMA Advance ==
  ASSUME IInv, Flow, Phases, NEW e, e.sort \in Sorts, Fits(e),
         ~(bus.phase = "free" /\ done),
         UNCHANGED <<at, call>>, bus' = After(e), done' = (done \/ bus'.phase = "over")
  PROVE  Taken' = Taken + 1 /\ Phases'
<1>1. /\ bus.count \in Int /\ call.n \in Int
      /\ at # "idle" => call.op \in {"write", "read"} /\ call.n >= 1
      /\ bus.phase \in {"free", "write", "read", "over"}
      /\ LastItem' = LastItem /\ LastItem \in Int
  BY Positions DEF IInv, Typed, LastItem
<1>2. CASE bus.phase = "over"
  <2>1. e.sort = "stop"
    BY <1>2 DEF Fits, Sorts
  <2>2. bus' = [phase |-> "free", count |-> 0] /\ (done' <=> done)
    BY <2>1 DEF After
  <2>3. Taken' = Taken + 1
    <3>1. CASE done
      BY <1>1, <1>2, <2>2, <3>1 DEF Taken
    <3>2. CASE ~done
      BY <1>2, <2>2, <3>2 DEF Taken
    <3> QED BY <3>1, <3>2
  <2>4. Phases'
    BY <2>2 DEF Phases
  <2> QED BY <2>3, <2>4
<1>3. CASE bus.phase = "free"
  <2>1. e.sort = "start" /\ call # NoCall
    BY <1>3 DEF Fits, Sorts
  <2>2. bus' = [phase |-> "write", count |-> 0] /\ ~done' /\ ~done
    BY <1>3, <2>1 DEF After
  <2>3. at # "idle"
    BY <2>1 DEF Flow
  <2>4. Taken' = Taken + 1
    BY <1>3, <2>2 DEF Taken
  <2>5. Phases'
    BY <1>1, <2>2, <2>3 DEF Phases
  <2> QED BY <2>4, <2>5
<1>4. CASE bus.phase = "write"
  <2>1. ~done /\ at # "idle" /\ 0 <= bus.count
        /\ (IF call.op = "write" THEN bus.count < call.n ELSE bus.count <= 1)
    BY <1>4 DEF Phases
  <2>2. e.sort \in {"restart", "byte"}
    BY <1>4 DEF Fits, Sorts
  <2>3. CASE e.sort = "restart"
    <3>1. bus.count = 1 /\ bus' = [phase |-> "read", count |-> 0] /\ ~done'
      BY <2>1, <2>3 DEF Fits, After
    <3>2. Taken = 2 /\ Taken' = 3
      BY <1>4, <3>1 DEF Taken
    <3>3. Phases'
      BY <2>1, <3>1 DEF Phases
    <3> QED BY <3>2, <3>3
  <2>4. CASE e.sort = "byte"
    <3>1. /\ bus' = [phase |-> IF bus.count + 1 = call.n /\ bus.phase = call.op
                               THEN "over" ELSE bus.phase,
                     count |-> bus.count + 1]
          /\ bus.count + 1 <= (IF call.op = "read" THEN 1 ELSE call.n)
      BY <2>4 DEF Fits, After
    <3>2. CASE bus.count + 1 = call.n /\ call.op = "write"
      <4>1. bus'.phase = "over" /\ done'
        <5>1. bus'.phase = "over"
          BY <1>1, <1>4, <3>1, <3>2
        <5> QED BY <5>1, Zenon
      <4>2. Taken' = call.n + 1 /\ Taken = call.n
        BY <1>1, <1>4, <3>2, <4>1 DEF Taken, LastItem
      <4>3. Phases'
        BY <2>1, <4>1 DEF Phases
      <4> QED BY <1>1, <4>2, <4>3
    <3>3. CASE ~(bus.count + 1 = call.n /\ call.op = "write")
      <4>1. bus' = [phase |-> "write", count |-> bus.count + 1] /\ ~done'
        <5>1. bus' = [phase |-> "write", count |-> bus.count + 1]
          BY <1>1, <1>4, <3>1, <3>3
        <5>2. bus'.phase # "over"
          BY <5>1
        <5> QED BY <2>1, <5>1, <5>2, Zenon
      <4>2. Taken' = Taken + 1
        BY <1>1, <1>4, <4>1 DEF Taken
      <4>3. Phases'
        BY <1>1, <2>1, <3>1, <3>3, <4>1 DEF Phases
      <4> QED BY <4>2, <4>3
    <3> QED BY <3>2, <3>3
  <2> QED BY <2>2, <2>3, <2>4
<1>5. CASE bus.phase = "read"
  <2>1. ~done /\ at = "rx" /\ call.op = "read" /\ 0 <= bus.count
    BY <1>5 DEF Phases, IInv, ReceptionFits, InCall, Receiving
  <2>2. e.sort \in {"ack", "nack"}
    BY <1>5 DEF Fits, Sorts
  <2>3. bus' = [phase |-> IF bus.count + 1 = call.n THEN "over" ELSE "read",
                count |-> bus.count + 1]
    BY <1>5, <2>1, <2>2 DEF After
  <2>4. CASE bus.count + 1 = call.n
    <3>1. bus'.phase = "over" /\ done'
      <4>1. bus'.phase = "over"
        BY <1>1, <2>3, <2>4
      <4> QED BY <4>1, Zenon
    <3>2. Taken' = call.n + 3 /\ Taken = 3 + bus.count
      BY <1>1, <1>5, <2>1, <3>1 DEF Taken, LastItem
    <3>3. Phases'
      BY <2>1, <3>1 DEF Phases
    <3> QED BY <1>1, <2>4, <3>2, <3>3
  <2>5. CASE bus.count + 1 # call.n
    <3>1. bus' = [phase |-> "read", count |-> bus.count + 1] /\ ~done'
      <4>1. bus' = [phase |-> "read", count |-> bus.count + 1]
        BY <1>1, <2>3, <2>5
      <4>2. bus'.phase # "over"
        BY <4>1
      <4> QED BY <2>1, <4>1, <4>2, Zenon
    <3>2. Taken' = Taken + 1
      BY <1>1, <1>5, <3>1 DEF Taken
    <3>3. Phases'
      BY <1>1, <2>1, <3>1 DEF Phases
    <3> QED BY <3>2, <3>3
  <2> QED BY <2>4, <2>5
<1> QED BY <1>1, <1>2, <1>3, <1>4, <1>5

\* Behind the stop of a call nothing but a stop comes.
LEMMA AfterLast ==
  ASSUME IInv, NEW p \in Int, p >= LastItem, at # "idle"
  PROVE  Item(call, p).sort = "stop"
<1>1. call.op \in {"write", "read"} /\ call.n >= 1 /\ call.n \in Int
  BY Positions
<1>2. CASE call.op = "write"
  <2>1. p # -1 /\ p # 0 /\ ~(p <= call.n)
    BY <1>1, <1>2 DEF LastItem
  <2> QED BY <1>2, <2>1 DEF Item, Mark
<1>3. CASE call.op = "read"
  <2>1. p # -1 /\ p # 0 /\ p # 1 /\ p # 2 /\ ~(p < call.n + 2) /\ p # call.n + 2
    BY <1>1, <1>3 DEF LastItem
  <2> QED BY <1>3, <2>1 DEF Item, Mark
<1> QED BY <1>1, <1>2, <1>3

\* The device takes the next entry of the stream.
LEMMA StreamTaken ==
  ASSUME IInv, Flow, Phases, InStream, Shift
  PROVE  Taken' = Taken + 1 /\ Phases' /\ InStream'
<1> DEFINE e == Head(line)
<1>1. /\ UNCHANGED <<at, call, runtime, fifo>>
      /\ line # <<>> /\ Fits(e) /\ line' = Tail(line)
      /\ bus' = After(e) /\ done' = (done \/ bus'.phase = "over")
  BY DEF Shift, program, driver
<1>2. /\ Len(OnTheWay) >= 1 /\ Len(OnTheWay') = Len(OnTheWay) - 1
      /\ e = OnTheWay[1]
      /\ \A i \in 1 .. Len(OnTheWay') : OnTheWay'[i] = OnTheWay[i + 1]
  BY <1>1, FirstGone DEF IInv
<1>3. /\ Taken \in Int /\ PutSoFar \in Int /\ LastItem \in Int /\ Len(OnTheWay) \in Nat
      /\ OnTheWay \in Seq(AnyEntry)
  BY Positions
<1>4. e \in AnyEntry
  BY <1>2, <1>3
<1> HIDE DEF e
<1>5. e = Item(call, Taken)
  <2>1. 1 \in 1 .. Len(OnTheWay) /\ Taken + 1 - 1 = Taken
    BY <1>2, <1>3
  <2> QED BY <1>2, <2>1 DEF InStream
<1>6. ASSUME bus.phase = "free", done PROVE FALSE
  <2>1. Taken = LastItem + 1 /\ at # "idle"
    BY <1>6 DEF Taken, Flow
  <2>2. e.sort = "stop"
    BY <1>3, <1>5, <2>1, AfterLast
  <2> QED BY <1>1, <1>6, <2>2 DEF Fits
<1>7. Taken' = Taken + 1 /\ Phases'
  BY <1>1, <1>4, <1>6, Advance DEF AnyEntry
<1>8. PutSoFar' = PutSoFar
  BY <1>1 DEF PutSoFar, StopPut
<1>9. Len(OnTheWay') = PutSoFar' - Taken'
  BY <1>2, <1>3, <1>7, <1>8 DEF InStream
<1>10. ASSUME NEW i \in 1 .. Len(OnTheWay') PROVE OnTheWay'[i] = Item(call', Taken' + i - 1)
  <2>1. i + 1 \in 1 .. Len(OnTheWay)
    BY <1>2, <1>3
  <2>2. OnTheWay'[i] = Item(call, Taken + (i + 1) - 1)
    BY <1>2, <2>1 DEF InStream
  <2>3. Taken + (i + 1) - 1 = Taken' + i - 1
    BY <1>3, <1>7
  <2> QED BY <1>1, <2>2, <2>3
<1>11. InStream'
  BY <1>1, <1>9, <1>10 DEF InStream
<1> QED BY <1>7, <1>11

\* The device does not get past a break, nor carry out the call before it.
LEMMA BrokenTaken ==
  ASSUME IInv, Flow, Phases, NEW b \in {0, 2}, Broken(b), Shift,
         b = 0 => OnTheWay[1 - Taken].sort = "byte",
         b = 2 => call.op = "read" /\ OnTheWay[3 - Taken].sort \in {"ack", "nack"}
  PROVE  /\ Taken' = Taken + 1 /\ Phases' /\ Broken(b)'
         /\ OnTheWay'[b - Taken' + 1] = OnTheWay[b - Taken + 1]
         /\ Len(OnTheWay') = Len(OnTheWay) - 1
<1> DEFINE e == Head(line)
<1>1. /\ UNCHANGED <<at, call, runtime, fifo>>
      /\ line # <<>> /\ Fits(e) /\ line' = Tail(line)
      /\ bus' = After(e) /\ done' = (done \/ bus'.phase = "over")
  BY DEF Shift, program, driver
<1>2. /\ Len(OnTheWay) >= 1 /\ Len(OnTheWay') = Len(OnTheWay) - 1
      /\ e = OnTheWay[1]
      /\ \A i \in 1 .. Len(OnTheWay') : OnTheWay'[i] = OnTheWay[i + 1]
  BY <1>1, FirstGone DEF IInv
<1>3. /\ Taken \in Int /\ Len(OnTheWay) \in Nat /\ OnTheWay \in Seq(AnyEntry)
  BY Positions
<1>4. e \in AnyEntry /\ bus.phase \in {"free", "write", "read", "over"}
  BY <1>2, <1>3 DEF IInv, Typed
<1>5. /\ ~done /\ runtime.tx_busy /\ Taken <= b /\ Len(OnTheWay) > b - Taken
      /\ \A i \in 1 .. b - Taken : OnTheWay[i] = Item(call, Taken + i - 1)
  BY DEF Broken
<1> HIDE DEF e
<1>6. /\ bus.phase = "over" => Taken = -1
      /\ bus.phase = "free" => Taken = 0
      /\ bus.phase = "write" => Taken >= 1
      /\ bus.phase = "read" => Taken >= 3
  BY <1>5, Before
<1>7. Taken < b
  <2>1. CASE b = 0
    <3>1. ASSUME Taken = 0 PROVE FALSE
      <4>1. bus.phase = "free"
        BY <1>4, <1>6, <3>1
      <4>2. e.sort = "byte"
        BY <1>2, <2>1, <3>1
      <4> QED BY <1>1, <4>1, <4>2 DEF Fits
    <3> QED BY <1>3, <1>5, <2>1, <3>1
  <2>2. CASE b = 2
    <3>1. ASSUME Taken = 2 PROVE FALSE
      <4>1. bus.phase = "write"
        BY <1>4, <1>6, <3>1
      <4>2. e.sort \in {"ack", "nack"}
        BY <1>2, <2>2, <3>1
      <4> QED BY <1>1, <4>1, <4>2 DEF Fits
    <3> QED BY <1>3, <1>5, <2>2, <3>1
  <2> QED BY <2>1, <2>2
<1>8. Taken' = Taken + 1 /\ Phases'
  BY <1>1, <1>4, <1>5, Advance DEF AnyEntry
<1>9. ~done'
  <2>1. bus.phase \in {"over", "free", "write"}
    BY <1>3, <1>4, <1>6, <1>7
  <2>2. CASE bus.phase = "over"
    <3>1. e.sort = "stop"
      BY <1>1, <1>4, <2>2 DEF Fits, AnyEntry, Sorts
    <3> QED BY <1>1, <1>5, <3>1 DEF After
  <2>3. CASE bus.phase = "free"
    <3>1. e.sort = "start"
      BY <1>1, <1>4, <2>3 DEF Fits, AnyEntry, Sorts
    <3> QED BY <1>1, <1>5, <3>1 DEF After
  <2>4. CASE bus.phase = "write"
    <3>1. call.op = "read"
      BY <1>3, <1>6, <1>7, <2>4
    <3>2. e.sort \in {"restart", "byte"}
      BY <1>1, <1>4, <2>4 DEF Fits, AnyEntry, Sorts
    <3> QED BY <1>1, <1>5, <2>4, <3>1, <3>2 DEF After
  <2> QED BY <2>1, <2>2, <2>3, <2>4
<1>10. ASSUME NEW i \in 1 .. b - Taken' PROVE OnTheWay'[i] = Item(call', Taken' + i - 1)
  <2>1. i + 1 \in 1 .. b - Taken /\ i \in 1 .. Len(OnTheWay')
    BY <1>2, <1>3, <1>5, <1>8
  <2>2. OnTheWay'[i] = Item(call, Taken + (i + 1) - 1)
    BY <1>2, <1>5, <2>1
  <2>3. Taken + (i + 1) - 1 = Taken' + i - 1
    BY <1>3, <1>8
  <2> QED BY <1>1, <2>2, <2>3
<1>11. Taken' <= b /\ Len(OnTheWay') > b - Taken'
  BY <1>2, <1>3, <1>5, <1>7, <1>8
<1>12. Broken(b)'
  BY <1>1, <1>5, <1>9, <1>10, <1>11 DEF Broken
<1>13. OnTheWay'[b - Taken' + 1] = OnTheWay[b - Taken + 1]
  <2>1. b - Taken' + 1 \in 1 .. Len(OnTheWay') /\ (b - Taken' + 1) + 1 = b - Taken + 1
    BY <1>2, <1>3, <1>7, <1>8, <1>11
  <2> QED BY <1>2, <2>1
<1> QED BY <1>2, <1>8, <1>12, <1>13

LEMMA ShiftOrder == ASSUME IInv, Levels, Order, Shift PROVE Order'
<1> DEFINE e == Head(line)
<1>1. /\ UNCHANGED <<at, call, runtime, isr, fifo, limit, error, raced>>
      /\ line # <<>> /\ ~error /\ Fits(e) /\ line' = Tail(line)
      /\ bus' = After(e) /\ done' = (done \/ bus'.phase = "over")
      /\ received' = IF e.sort \in {"ack", "nack"} THEN received + 1 ELSE received
      /\ "rx" \in pending' => \/ "rx" \in pending
                              \/ e.sort \in {"ack", "nack"} /\ received' = limit
  BY DEF Shift, program, driver
<1> HIDE DEF e
<1>2. Flow /\ Phases /\ (InStream \/ EarlyByte \/ EarlyRequest) /\ (~raced => InStream)
  BY <1>1 DEF Order, Stream
<1>3. ASSUME at = "idle" PROVE ~done'
  <2>1. bus.phase \in {"free", "over"} /\ ~done /\ call = NoCall
    BY <1>2, <1>3 DEF Phases, Flow
  <2>2. e.sort = "stop"
    <3>1. e.sort \in Sorts
      <4>1. /\ OnTheWay \in Seq(AnyEntry) /\ Len(OnTheWay) \in Nat
            /\ e = OnTheWay[1] /\ Len(OnTheWay) >= 1
        BY <1>1, FirstGone, Positions DEF IInv, e
      <4>2. e \in AnyEntry
        BY <4>1
      <4> QED BY <4>2 DEF AnyEntry
    <3> QED BY <1>1, <2>1, <3>1 DEF Fits, Sorts
  <2>3. bus'.phase = "free"
    BY <1>1, <2>2 DEF After
  <2> QED BY <1>1, <2>1, <2>3
<1>4. ASSUME "rx" \in pending'
      PROVE  at = "rx" /\ runtime.rx_busy /\ received' = limit /\ done'
  <2>1. CASE "rx" \in pending
    <3>1. at = "rx" /\ runtime.rx_busy /\ received = limit /\ done
      BY <1>2, <2>1 DEF Flow
    <3>2. bus.phase # "read"
      BY <1>2, <3>1 DEF Phases
    <3>3. e.sort \notin {"ack", "nack"}
      BY <1>1, <3>2 DEF Fits
    <3> QED BY <1>1, <3>1, <3>3
  <2>2. CASE e.sort \in {"ack", "nack"} /\ received' = limit
    <3>1. bus.phase = "read"
      BY <1>1, <2>2 DEF Fits
    <3>2. /\ at = "rx" /\ runtime.rx_busy /\ bus.count = runtime.rx_data_index + received
          /\ call.op = "read"
      BY <3>1 DEF IInv, ReceptionFits, InCall, Receiving
    <3>3. runtime.rx_data_index = 0 /\ limit = call.n
      BY <1>2, <3>2 DEF Flow
    <3>4. bus.count + 1 = call.n
      BY <1>1, <2>2, <3>2, <3>3, Amounts
    <3>5. bus'.phase = "over"
      BY <1>1, <2>2, <3>1, <3>2, <3>4 DEF After
    <3> QED BY <1>1, <2>2, <3>2, <3>5
  <2> QED BY <1>1, <1>4, <2>1, <2>2
<1>5. done => done'
  BY <1>1
<1>6. Flow'
  BY <1>1, <1>2, <1>3, <1>4, <1>5 DEF Flow
<1>7. ASSUME InStream PROVE Stream'
  BY <1>2, <1>7, StreamTaken DEF Stream
<1>8. ASSUME EarlyByte, ~InStream PROVE Stream'
  <2>1. Broken(0) /\ OnTheWay[1 - Taken].sort = "byte"
    BY <1>8 DEF EarlyByte
  <2>2. /\ Taken' = Taken + 1 /\ Phases' /\ Broken(0)'
        /\ OnTheWay'[0 - Taken' + 1] = OnTheWay[0 - Taken + 1]
        /\ Len(OnTheWay') = Len(OnTheWay) - 1
    BY <1>2, <2>1, BrokenTaken
  <2>3. /\ 0 - Taken' + 1 = 1 - Taken' /\ 0 - Taken + 1 = 1 - Taken
        /\ Len(OnTheWay) > 1 - Taken => Len(OnTheWay') > 1 - Taken'
    BY <2>2, Positions
  <2>4. EarlyByte'
    BY <1>1, <1>8, <2>1, <2>2, <2>3 DEF EarlyByte
  <2> QED BY <1>1, <1>2, <1>8, <2>2, <2>4 DEF Stream
<1>9. ASSUME EarlyRequest, ~InStream PROVE Stream'
  <2>1. /\ Broken(2) /\ OnTheWay[3 - Taken].sort \in {"ack", "nack"}
        /\ at \in {"startRx", "rx"}
    BY <1>9 DEF EarlyRequest
  <2>2. call.op = "read"
    BY <2>1, Positions
  <2>3. /\ Taken' = Taken + 1 /\ Phases' /\ Broken(2)'
        /\ OnTheWay'[2 - Taken' + 1] = OnTheWay[2 - Taken + 1]
    BY <1>2, <2>1, <2>2, BrokenTaken
  <2>4. 2 - Taken' + 1 = 3 - Taken' /\ 2 - Taken + 1 = 3 - Taken
    BY <2>3, Positions
  <2>5. EarlyRequest'
    BY <1>1, <1>9, <2>1, <2>3, <2>4 DEF EarlyRequest
  <2> QED BY <1>1, <1>2, <1>9, <2>3, <2>5 DEF Stream
<1>10. Stream'
  BY <1>2, <1>7, <1>8, <1>9
<1> QED BY <1>6, <1>10 DEF Order

\* Nothing is promised after an error.
LEMMA RefusedOrder == ASSUME IInv, Order, Refuse \/ ShiftAfterError PROVE Order'
<1>1. /\ UNCHANGED <<at, call, runtime, isr, received, limit, bus, done, raced>>
      /\ error' /\ ("rx" \in pending' => "rx" \in pending)
  BY DEF Refuse, ShiftAfterError, program, driver, device
<1>2. Flow'
  BY <1>1 DEF Order, Flow
<1>3. Stream'
  BY <1>1 DEF Stream
<1> QED BY <1>2, <1>3 DEF Order

LEMMA StutterOrder == ASSUME IInv, Order, UNCHANGED vars PROVE Order'
<1>1. UNCHANGED <<at, call, runtime, isr, pending, fifo, line, received, limit, error,
                  bus, done, raced>>
  BY DEF vars, program, driver, channel, device
<1>2. Flow'
  BY <1>1 DEF Order, Flow
<1>3. OnTheWay' = OnTheWay /\ PutSoFar' = PutSoFar
  BY <1>1 DEF OnTheWay, PutSoFar, StopPut
<1>4. Stream'
  BY <1>1, <1>3, StreamStays DEF Order, EarlyByte, EarlyRequest, Broken
<1> QED BY <1>2, <1>4 DEF Order

\* IInv, Levels and Order are an invariant.
LEMMA OrderHolds == Spec => []Order
<1>1. ASSUME IInv, Levels, Order, [Next]_vars PROVE Order'
  <2>1. CASE Next
    <3>1. ASSUME NEW n \in 1 .. MaxLen, Transmit("write", n) \/ Transmit("read", n)
          PROVE  Order'
      BY <1>1, <3>1, TransmitOrder
    <3>2. CASE SendStart \/ Receive \/ Return
      BY <1>1, <3>2, SendStartOrder, ReceiveOrder, ReturnOrder
    <3>3. CASE Handlers
      BY <1>1, <3>3, TransmitHandlerOrder, FillOrder, DrainedOrder, FinishTxOrder,
         AskOrder, ReceiveHandlerOrder, StopRxOrder, FinishRxOrder DEF Handlers
    <3>4. CASE Channel
      BY <1>1, <3>4, LoadOrder, ShiftOrder, RefusedOrder DEF Channel
    <3> QED BY <2>1, <3>1, <3>2, <3>3, <3>4 DEF Next
  <2>2. CASE UNCHANGED vars
    BY <1>1, <2>2, StutterOrder
  <2> QED BY <1>1, <2>1, <2>2
<1> QED BY OrderInit, InvariantHolds, LevelsHold, <1>1, PTL DEF Spec
-----------------------------------------------------------------------------
\* No more is put than the stream of the call.
LEMMA NoMore ==
  ASSUME IInv, Levels, Flow, at # "idle"
  PROVE  PutSoFar <= LastItem + 1
<1>1. /\ call.n \in Int /\ call.n >= 1 /\ call.op \in {"write", "read"}
      /\ runtime.tx_data_index \in Int /\ runtime.tx_data_count \in Int
      /\ at \in {"startRx", "rx"} => call.op = "read"
      /\ StopPut \in {0, 1} /\ at \in {"startTx", "tx", "startRx", "rx"}
  BY Positions, Amounts DEF StopPut, IInv, Typed
<1>2. CASE at \in {"startTx", "startRx"}
  BY <1>1, <1>2 DEF PutSoFar, LastItem
<1>3. CASE at = "tx"
  <2>1. runtime.tx_data_index <= (IF call.op = "write" THEN call.n ELSE 1)
    BY <1>3 DEF Flow, Levels, Ranges
  <2> QED BY <1>1, <1>3, <2>1 DEF PutSoFar, LastItem
<1>4. CASE at = "rx"
  <2>1. runtime.tx_data_index <= call.n
    BY <1>4 DEF IInv, InCall, Receiving, Levels, Ranges
  <2> QED BY <1>1, <1>4, <2>1 DEF PutSoFar, LastItem
<1> QED BY <1>1, <1>2, <1>3, <1>4

\* The next entry of the stream fits; once a call is carried out only its stop is left.
LEMMA NextFits ==
  ASSUME IInv, Levels, Flow, Phases, InStream, line # <<>>
  PROVE  Fits(Head(line)) /\ (done => bus.phase = "over")
<1> DEFINE e == Head(line)
<1>1. e = OnTheWay[1] /\ Len(OnTheWay) >= 1
  <2>1. OnTheWay # <<>> /\ Head(line) = Head(OnTheWay) /\ OnTheWay \in Seq(AnyEntry)
    BY Moves DEF IInv, Typed, OnTheWay
  <2> QED BY <2>1, HeadTailProperties, LenProperties, EmptySeq
<1>2. /\ Taken \in Int /\ PutSoFar \in Int /\ LastItem \in Int /\ Len(OnTheWay) \in Nat
      /\ bus.count \in Int /\ call.n \in Int
      /\ bus.phase \in {"free", "write", "read", "over"}
      /\ at # "idle" => call.op \in {"write", "read"} /\ call.n >= 1 /\ call # NoCall
  BY Positions DEF IInv, Typed
<1>3. e = Item(call, Taken) /\ Taken < PutSoFar
  <2>1. 1 \in 1 .. Len(OnTheWay) /\ Taken + 1 - 1 = Taken
    BY <1>1, <1>2
  <2> QED BY <1>1, <1>2, <2>1 DEF InStream
<1> HIDE DEF e
<1>4. CASE bus.phase = "over"
  <2>1. e.sort = "stop"
    <3>1. CASE done
      <4>1. Taken = LastItem /\ at # "idle"
        BY <1>4, <3>1 DEF Taken, Flow
      <4> QED BY <1>2, <1>3, <4>1, AfterLast
    <3>2. CASE ~done
      <4>1. Taken = -1
        BY <1>4, <3>2 DEF Taken
      <4> QED BY <1>3, <4>1 DEF Item, Mark
    <3> QED BY <3>1, <3>2
  <2> QED BY <1>4, <2>1 DEF Fits, e
<1>5. CASE bus.phase = "free"
  <2>1. at # "idle"
    <3>1. ASSUME at = "idle" PROVE FALSE
      <4>1. Taken = 0 /\ PutSoFar = 0
        BY <1>5, <3>1 DEF Taken, PutSoFar, Flow
      <4> QED BY <1>3, <4>1
    <3> QED BY <3>1
  <2>2. ~done
    <3>1. ASSUME done PROVE FALSE
      <4>1. Taken = LastItem + 1
        BY <1>5, <3>1 DEF Taken
      <4> QED BY <1>2, <1>3, <2>1, <4>1, NoMore
    <3> QED BY <3>1
  <2>3. e.sort = "start"
    <3>1. Taken = 0
      BY <1>5, <2>2 DEF Taken
    <3> QED BY <1>3, <3>1 DEF Item, Mark
  <2> QED BY <1>2, <1>5, <2>1, <2>2, <2>3 DEF Fits, e
<1>6. CASE bus.phase = "write"
  <2>1. /\ ~done /\ at # "idle" /\ Taken = 1 + bus.count /\ 0 <= bus.count
        /\ (IF call.op = "write" THEN bus.count < call.n ELSE bus.count <= 1)
    BY <1>6 DEF Phases, Taken
  <2>2. CASE call.op = "write"
    <3>1. 1 + bus.count \in 1 .. call.n
      BY <1>2, <2>1, <2>2
    <3>2. e = Byte(1 + bus.count)
      BY <1>2, <1>3, <2>1, <2>2, <3>1, Items
    <3>3. e.sort = "byte" /\ e.n = bus.count + 1 /\ e.n <= call.n
      BY <1>2, <2>1, <2>2, <3>2 DEF Byte
    <3> QED BY <1>6, <2>1, <2>2, <3>3 DEF Fits, e
  <2>3. CASE call.op = "read" /\ bus.count = 0
    <3>1. e = Byte(1)
      BY <1>2, <1>3, <2>1, <2>3, Items
    <3>2. e.sort = "byte" /\ e.n = bus.count + 1 /\ e.n <= 1
      BY <2>3, <3>1 DEF Byte
    <3> QED BY <1>6, <2>1, <2>3, <3>2 DEF Fits, e
  <2>4. CASE call.op = "read" /\ bus.count = 1
    <3>1. e = Mark("restart")
      BY <1>2, <1>3, <2>1, <2>4, Items
    <3>2. e.sort = "restart"
      BY <3>1 DEF Mark
    <3> QED BY <1>6, <2>1, <2>4, <3>2 DEF Fits, e
  <2> QED BY <1>2, <2>1, <2>2, <2>3, <2>4
<1>7. CASE bus.phase = "read"
  <2>1. /\ ~done /\ at = "rx" /\ call.op = "read" /\ Taken = 3 + bus.count
        /\ 0 <= bus.count /\ bus.count < call.n
    BY <1>7 DEF Phases, Taken, IInv, ReceptionFits, InCall, Receiving
  <2>2. e = Mark(IF bus.count + 1 = call.n THEN "nack" ELSE "ack")
    BY <1>2, <1>3, <2>1, Items
  <2>3. e.sort = (IF bus.count + 1 = call.n THEN "nack" ELSE "ack")
    BY <2>2 DEF Mark
  <2>4. bus.count + 1 # call.n => bus.count + 1 < call.n
    BY <1>2, <2>1
  <2> QED BY <1>7, <2>1, <2>3, <2>4 DEF Fits, e
<1> QED BY <1>2, <1>4, <1>5, <1>6, <1>7

\* What the handlers and the program put into the FIFO comes in an order the
\* device can follow, whatever the interleaving, unless the handler ran in the few
\* instructions between the enabling of its interrupt and the start condition.
THEOREM BusInOrderCorrect == Spec => []BusInOrder
<1>1. IInv /\ Levels /\ Order => BusInOrder
  BY NextFits DEF Order, Stream, BusInOrder
<1> QED BY <1>1, InvariantHolds, LevelsHold, OrderHolds, PTL
-----------------------------------------------------------------------------
(***************************************************************************)
(* I2cMaster implements I2cBus: a call that returns has been carried out.  *)
(***************************************************************************)

\* No call is in progress outside of one.
LEMMA Calling ==
  ASSUME IInv, Flow
  PROVE  call = NoCall <=> at = "idle"
BY DEF IInv, Typed, Calls, NoCall, Flow

\* What the entry at the head of the line tells of the call.
LEMMA HeadTells ==
  ASSUME IInv, Levels, Order, line # <<>>, ~error,
         Fits(Head(line)) => Head(line).sort \in {"start", "restart", "byte"}
  PROVE  call # NoCall /\ ~done
<1>1. Flow /\ Phases /\ (InStream \/ EarlyByte \/ EarlyRequest)
  BY DEF Order, Stream
<1>2. CASE InStream
  <2>1. Fits(Head(line)) /\ (done => bus.phase = "over")
    BY <1>1, <1>2, NextFits
  <2>2. bus.phase # "over"
    BY <2>1 DEF Fits
  <2>3. bus.phase = "free" => call # NoCall
    BY <2>1 DEF Fits
  <2>4. bus.phase \notin {"free", "over"} => call # NoCall
    BY <1>1, Calling DEF Phases
  <2> QED BY <2>1, <2>2, <2>3, <2>4
<1>3. CASE EarlyByte \/ EarlyRequest
  BY <1>1, <1>3, Calling DEF EarlyByte, EarlyRequest, Broken
<1> QED BY <1>1, <1>2, <1>3

LEMMA BusStep ==
  ASSUME IInv, Levels, Order, Flags, [Next]_vars
  PROVE  [Bus!Next]_(Bus!vars)
<1>1. ASSUME NEW op \in {"write", "read"}, NEW n \in 1 .. MaxLen, Transmit(op, n)
      PROVE  Bus!Call
  <2>1. at = "idle" /\ ~runtime.tx_busy
    BY <1>1 DEF Transmit, IInv, InCall, Idle
  <2>2. call' = [op |-> op, n |-> n, deaf |-> error] /\ UNCHANGED <<done, error>>
    BY <1>1, <2>1 DEF Transmit, channel, device
  <2>3. call = NoCall
    BY <2>1, Calling DEF Order
  <2>4. call' \in Bus!Calls /\ call'.deaf = error
    BY <2>2 DEF IInv, Typed, Bus!Calls
  <2> QED BY <2>2, <2>3, <2>4 DEF NoCall, Bus!NoCall, Bus!Call
<1>2. CASE Shift
  <2> DEFINE e == Head(line)
  <2>1. /\ UNCHANGED <<at, call, error>> /\ ~error /\ Fits(e) /\ bus' = After(e)
        /\ done' = (done \/ bus'.phase = "over")
    BY <1>2 DEF Shift, program, driver
  <2> HIDE DEF e
  <2>2. CASE done \/ bus'.phase # "over"
    <3>1. done' = done
      BY <2>1, <2>2 DEF Flags
    <3> QED BY <2>1, <3>1 DEF Bus!vars
  <2>3. CASE ~done /\ bus'.phase = "over"
    <3>1. bus.phase \notin {"free", "over"}
      <4>1. e.sort \notin {"start", "restart", "stop"}
        BY <2>1, <2>3 DEF After
      <4>2. e.sort \in {"byte", "ack", "nack"} => bus.phase \in {"write", "read"}
        BY <2>1 DEF Fits
      <4>3. e.sort \in Sorts
        <5>1. line \in Seq(AnyEntry) /\ line # <<>>
          BY <1>2 DEF Shift, IInv, Typed
        <5>2. e \in AnyEntry
          BY <5>1, HeadTailProperties DEF e
        <5> QED BY <5>2 DEF AnyEntry
      <4> QED BY <4>1, <4>2, <4>3 DEF Sorts
    <3>2. call # NoCall
      BY <2>1, <3>1, Calling DEF Order, Stream, Phases
    <3>3. Bus!CarryOut
      BY <2>1, <2>3, <3>2 DEF Bus!CarryOut, Bus!NoCall, NoCall
    <3> QED BY <3>3 DEF Bus!Next
  <2> QED BY <2>2, <2>3
<1>3. CASE Refuse
  <2>1. /\ line # <<>> /\ ~error /\ UNCHANGED <<call, done>> /\ error' = TRUE
        /\ Fits(Head(line)) => Head(line).sort \in {"start", "restart", "byte"}
    BY <1>3 DEF Refuse, program, device
  <2>2. call # NoCall /\ ~done
    BY <2>1, HeadTells
  <2>3. Bus!Refuse
    BY <2>1, <2>2 DEF Bus!Refuse, Bus!NoCall, NoCall
  <2> QED BY <2>3 DEF Bus!Next
<1>4. CASE Return
  <2>1. call' = NoCall /\ done' = FALSE /\ UNCHANGED error
    BY <1>4 DEF Return, channel
  <2>2. \/ at = "tx" /\ call.op = "write" /\ ~runtime.tx_busy
        \/ at = "rx" /\ ~runtime.rx_busy
    BY <1>4, Zenon DEF Return
  <2>3. done \/ (call.op = "write" /\ error /\ ~call.deaf)
    BY <2>2 DEF Order, Flow
  <2>4. Bus!Return
    BY <2>1, <2>3 DEF Bus!Return, Bus!NoCall, NoCall
  <2> QED BY <2>4 DEF Bus!Next
<1>5. CASE Receive
  <2>1. ~runtime.rx_busy
    BY <1>5 DEF Receive, IInv, InCall, Sending
  <2> QED BY <1>5, <2>1 DEF Receive, device, Bus!vars
<1>6. CASE SendStart \/ ShiftAfterError \/ Load
  BY <1>6 DEF SendStart, ShiftAfterError, Load, program, device, Bus!vars
<1>7. CASE Handlers
  <2>1. UNCHANGED <<call, done, error>>
    <3>1. CASE TransmitHandler \/ Fill \/ Drained \/ FinishTx
      BY <3>1 DEF TransmitHandler, Fill, Drained, FinishTx, program, channel, device
    <3>2. CASE Ask
      BY <3>2, Zenon DEF Ask, program, device
    <3>3. CASE ReceiveHandler
      BY <3>3, Zenon DEF ReceiveHandler, program, device
    <3>4. CASE StopRx \/ FinishRx
      BY <3>4 DEF StopRx, FinishRx, program, channel, device
    <3> QED BY <1>7, <3>1, <3>2, <3>3, <3>4 DEF Handlers
  <2> QED BY <2>1 DEF Bus!vars
<1>8. CASE UNCHANGED vars
  BY <1>8 DEF vars, program, channel, device, Bus!vars
<1>9. CASE \E n \in 1 .. MaxLen : Transmit("write", n) \/ Transmit("read", n)
  BY <1>1, <1>9 DEF Bus!Next
<1> QED BY <1>2, <1>3, <1>4, <1>5, <1>6, <1>7, <1>8, <1>9 DEF Next, Channel

\* The refinement BusSpec states, without its liveness: a call returns only when
\* the device has carried it out, or, for a write, has failed to acknowledge it.
THEOREM BusImplemented == Spec => Bus!Init /\ [][Bus!Next]_(Bus!vars)
<1>1. Init => Bus!Init
  BY DEF Init, Bus!Init, NoCall, Bus!NoCall
<1>2. Init => Flags
  BY DEF Init, Flags
<1>3. Spec => []Flags
  BY <1>2, FlagsKept, PTL DEF Spec
<1> QED BY <1>1, <1>3, InvariantHolds, LevelsHold, OrderHolds, BusStep, PTL DEF Spec
=============================================================================

-------------------------- MODULE I2cMasterProofs ---------------------------
(***************************************************************************)
(* Machine-checked theorem about I2cMaster, for every size of the FIFOs    *)
(* and every length of a call: no call finds the master busy.              *)
(*                                                                         *)
(* The flags follow the place of the program and of the handlers (InCall). *)
(* The difficult step is the end of a reception: were it possible between  *)
(* I2C_MASTER_StartReceiveIRQ and its repeated start, the repeated start   *)
(* would leave bus_acquired set for ever.  It is not, because bytes arrive *)
(* only after a repeated start, and none is left over from an earlier call *)
(* (OnTheWay, ReceptionFits).                                              *)
(***************************************************************************)
EXTENDS I2cMaster, SequenceTheorems, TLAPS

(***************************************************************************)
(* Entries on their way to the bus.                                        *)
(***************************************************************************)
AnyEntry == [sort : Sorts, n : Int]

OnTheWay == line \o fifo

\* No entry of a sort, and at most one.
No(s, q)  == \A i \in 1 .. Len(q) : q[i].sort # s
One(s, q) == \A i, j \in 1 .. Len(q) : q[i].sort = s /\ q[j].sort = s => i = j

\* An entry is put into the FIFO.
LEMMA Put ==
  ASSUME NEW s, NEW q \in Seq(AnyEntry), NEW e \in AnyEntry
  PROVE  /\ Append(q, e) \in Seq(AnyEntry)
         /\ e.sort # s /\ No(s, q) => No(s, Append(q, e))
         /\ e.sort # s /\ One(s, q) => One(s, Append(q, e))
         /\ No(s, q) => One(s, Append(q, e))
<1>1. /\ Append(q, e) \in Seq(AnyEntry) /\ Len(Append(q, e)) = Len(q) + 1
      /\ \A i \in 1 .. Len(q) : Append(q, e)[i] = q[i]
      /\ Append(q, e)[Len(q) + 1] = e
  BY AppendProperties
<1>2. Len(q) \in Nat
  BY LenProperties
<1> QED BY <1>1, <1>2 DEF No, One

\* The first entry reaches the bus.
LEMMA Take ==
  ASSUME NEW s, NEW q \in Seq(AnyEntry), q # <<>>
  PROVE  /\ Tail(q) \in Seq(AnyEntry) /\ Head(q) \in AnyEntry
         /\ No(s, q) => No(s, Tail(q)) /\ Head(q).sort # s
         /\ One(s, q) => One(s, Tail(q))
         /\ One(s, q) /\ Head(q).sort = s => No(s, Tail(q))
<1>1. /\ Tail(q) \in Seq(AnyEntry) /\ Head(q) \in AnyEntry /\ Head(q) = q[1]
      /\ Len(Tail(q)) = Len(q) - 1
      /\ \A i \in 1 .. Len(Tail(q)) : Tail(q)[i] = q[i + 1]
  BY HeadTailProperties
<1>2. Len(q) \in Nat /\ Len(q) >= 1
  BY LenProperties, EmptySeq
<1> QED BY <1>1, <1>2 DEF No, One

\* Entries are put into the FIFO.
LEMMA PutAll ==
  ASSUME NEW s, NEW q \in Seq(AnyEntry), NEW f \in Seq(AnyEntry), No(s, f)
  PROVE  /\ q \o f \in Seq(AnyEntry)
         /\ No(s, q) => No(s, q \o f)
         /\ One(s, q) => One(s, q \o f)
<1>1. /\ q \o f \in Seq(AnyEntry) /\ Len(q \o f) = Len(q) + Len(f)
      /\ \A i \in 1 .. Len(q) + Len(f) :
           (q \o f)[i] = IF i <= Len(q) THEN q[i] ELSE f[i - Len(q)]
  BY ConcatProperties
<1>2. Len(q) \in Nat /\ Len(f) \in Nat
  BY LenProperties
<1>3. \A i \in 1 .. Len(q) + Len(f) : (q \o f)[i].sort = s =>
        i \in 1 .. Len(q) /\ (q \o f)[i] = q[i]
  BY <1>1, <1>2 DEF No
<1> QED BY <1>1, <1>2, <1>3 DEF No, One

\* What is on the way, after each change of the FIFO and of what left it.
LEMMA Moves ==
  ASSUME NEW l \in Seq(AnyEntry), NEW f \in Seq(AnyEntry)
  PROVE  /\ l \o f \in Seq(AnyEntry)
         /\ \A e \in AnyEntry : l \o Append(f, e) = Append(l \o f, e)
         /\ \A g \in Seq(AnyEntry) : l \o (f \o g) = (l \o f) \o g
         /\ f # <<>> => Append(l, Head(f)) \o Tail(f) = l \o f
         /\ l # <<>> => /\ Tail(l) \o f = Tail(l \o f) /\ Head(l) = Head(l \o f)
                        /\ l \o f # <<>>
<1>1. l \o f \in Seq(AnyEntry)
  BY ConcatProperties
<1>2. \A e \in AnyEntry : l \o Append(f, e) = Append(l \o f, e)
  OBVIOUS
<1>3. \A g \in Seq(AnyEntry) : l \o (f \o g) = (l \o f) \o g
  BY ConcatAssociative
<1>4. f # <<>> => Append(l, Head(f)) \o Tail(f) = l \o f
  OBVIOUS
<1>5. l # <<>> => /\ Tail(l) \o f = Tail(l \o f) /\ Head(l) = Head(l \o f)
                  /\ l \o f # <<>>
  OBVIOUS
<1> QED BY <1>1, <1>2, <1>3, <1>4, <1>5
(***************************************************************************)
(* The inductive invariant.                                                *)
(***************************************************************************)
Runtimes == [direction : {"transmit", "receive"}, tx_busy : BOOLEAN,
             rx_busy : BOOLEAN, bus_acquired : BOOLEAN, send_stop : BOOLEAN,
             tx_data_index : Int, tx_data_count : Int,
             rx_data_index : Int, rx_data_count : Int]

\* As much of the types as the argument needs.
Typed ==
  /\ at \in {"idle", "startTx", "tx", "startRx", "rx"}
  /\ call \in Calls \cup {NoCall} /\ call.n \in Int
  /\ at # "idle" => call \in Calls
  /\ runtime \in Runtimes
  /\ isr \in {"none", "fill", "drain", "finishTx", "ask", "stopRx", "finishRx"}
  /\ fifo \in Seq(AnyEntry) /\ line \in Seq(AnyEntry)
  /\ received \in Int /\ error \in BOOLEAN
  /\ bus \in [phase : {"free", "write", "read", "over"}, count : Int]

Idle ==
  /\ ~runtime.tx_busy /\ ~runtime.rx_busy /\ ~runtime.bus_acquired
  /\ isr \in {"none", "fill", "drain", "ask"}

StartingTx ==
  /\ runtime.tx_busy /\ ~runtime.rx_busy /\ ~runtime.bus_acquired
  /\ runtime.direction = "transmit" /\ (runtime.send_stop <=> call.op = "write")
  /\ isr \in {"none", "fill", "drain"}

Sending ==
  /\ ~runtime.rx_busy
  /\ runtime.direction = "transmit" /\ (runtime.send_stop <=> call.op = "write")
  /\ isr \in {"none", "fill", "drain", "finishTx"}
  /\ call.op = "read" => runtime.bus_acquired
  /\ call.op = "write" /\ (isr = "finishTx" \/ ~runtime.tx_busy) => ~runtime.bus_acquired

Asking == runtime.tx_busy /\ runtime.rx_busy /\ runtime.bus_acquired /\ isr \in {"none", "ask"}

Receiving ==
  /\ runtime.direction = "receive" /\ runtime.send_stop
  /\ call.op = "read" /\ runtime.rx_data_count = call.n

\* The end of a reception: the stop, the wait, and back in the program.
Received ==
  /\ ~runtime.rx_busy
  /\ \/ isr = "stopRx"
     \/ isr = "finishRx" /\ ~runtime.bus_acquired
     \/ isr \in {"none", "ask"} /\ ~runtime.tx_busy /\ ~runtime.bus_acquired

\* The flags and the handler fit the place of the program.
InCall ==
  /\ at = "idle"    => Idle
  /\ at = "startTx" => StartingTx
  /\ at = "tx"      => Sending
  /\ at = "startRx" => Receiving /\ Asking
  /\ at = "rx"      => Receiving /\ (Asking \/ Received)

\* Nothing has been received.
NothingYet == runtime.rx_data_index = 0 /\ received = 0

\* A repeated start is on its way only in the call that sent it, and only while
\* nothing has been received.
RestartFits ==
  ~error =>
    /\ One("restart", OnTheWay)
    /\ ~No("restart", OnTheWay) =>
         at = "rx" /\ runtime.rx_busy /\ NothingYet /\ bus.phase # "read"

\* Bytes arrive only after the repeated start of the call, at most as many as it
\* asks for.
ReceptionFits ==
  /\ at = "startRx" => NothingYet
  /\ bus.phase = "read" =>
       /\ at = "rx" /\ runtime.rx_busy /\ bus.count < call.n
       /\ bus.count = runtime.rx_data_index + received

IInv == Typed /\ InCall /\ RestartFits /\ ReceptionFits
-----------------------------------------------------------------------------
(***************************************************************************)
(* One lemma for every action.                                             *)
(***************************************************************************)

\* A count of the runtime is set.
LEMMA Counts ==
  ASSUME NEW r \in Runtimes, NEW i \in Int
  PROVE  /\ [r EXCEPT !.tx_data_index = i] \in Runtimes
         /\ [r EXCEPT !.tx_data_count = i] \in Runtimes
         /\ [r EXCEPT !.rx_data_index = i] \in Runtimes
         /\ [r EXCEPT !.rx_data_count = i] \in Runtimes
<1>1. [r EXCEPT !.tx_data_index = i] \in Runtimes
  BY DEF Runtimes
<1>2. [r EXCEPT !.tx_data_count = i] \in Runtimes
  BY DEF Runtimes
<1>3. [r EXCEPT !.rx_data_index = i] \in Runtimes
  BY DEF Runtimes
<1>4. [r EXCEPT !.rx_data_count = i] \in Runtimes
  BY DEF Runtimes
<1> QED BY <1>1, <1>2, <1>3, <1>4

\* Nothing is under way at the start.
LEMMA InitHolds == Init => IInv
<1> SUFFICES ASSUME Init PROVE IInv
  OBVIOUS
<1>1. Typed
  <2>1. runtime \in Runtimes
    BY DEF Init, Runtimes
  <2>2. call \in {NoCall} /\ call.n \in Int
    BY DEF Init, NoCall
  <2>3. bus \in [phase : {"free", "write", "read", "over"}, count : Int]
    BY DEF Init
  <2>4. fifo \in Seq(AnyEntry) /\ line \in Seq(AnyEntry)
    BY DEF Init
  <2> QED BY <2>1, <2>2, <2>3, <2>4 DEF Init, Typed
<1>2. InCall /\ ReceptionFits
  BY DEF Init, InCall, Idle, ReceptionFits
<1>3. OnTheWay = <<>> /\ Len(OnTheWay) = 0
  BY DEF Init, OnTheWay
<1>4. RestartFits
  BY <1>3 DEF RestartFits, No, One
<1> QED BY <1>1, <1>2, <1>4 DEF IInv

\* A call begins.
LEMMA TransmitKeeps ==
  ASSUME IInv, NEW op \in {"write", "read"}, NEW n \in 1 .. MaxLen, Transmit(op, n)
  PROVE  IInv'
<1> USE SizeAssumption DEF program, driver, channel, device
<1>1. at = "idle" /\ ~runtime.tx_busy /\ at' = "startTx" /\ isr' = isr /\ isr = "none"
  BY DEF IInv, InCall, Idle, Transmit
<1>2. call' = [op |-> op, n |-> n, deaf |-> error] /\ call' \in Calls
  BY <1>1 DEF IInv, Typed, Transmit, Calls
<1>3. call'.op = op /\ call'.n \in Int
  BY <1>2
<1>4. runtime \in Runtimes /\ n \in Int
  BY DEF IInv, Typed
<1>5. runtime' = [runtime EXCEPT !.direction = "transmit", !.tx_busy = TRUE,
                   !.tx_data_count = IF op = "write" THEN n ELSE 1,
                   !.tx_data_index = 0, !.send_stop = (op = "write")]
  BY <1>1 DEF Transmit
<1>6. /\ runtime' \in Runtimes /\ runtime'.direction = "transmit" /\ runtime'.tx_busy
      /\ runtime'.rx_busy = runtime.rx_busy /\ runtime'.bus_acquired = runtime.bus_acquired
      /\ runtime'.send_stop = (op = "write")
  <2>1. (op = "write") \in BOOLEAN /\ (IF op = "write" THEN n ELSE 1) \in Int
    BY <1>4
  <2>2. runtime' \in Runtimes
    <3> DEFINE r1 == [runtime EXCEPT !.direction = "transmit"]
               r2 == [r1 EXCEPT !.tx_busy = TRUE]
               r3 == [r2 EXCEPT !.tx_data_count = IF op = "write" THEN n ELSE 1]
               r4 == [r3 EXCEPT !.tx_data_index = 0]
               r5 == [r4 EXCEPT !.send_stop = (op = "write")]
    <3>1. runtime' = r5
      BY <1>4, <1>5 DEF Runtimes
    <3> HIDE DEF r1, r2, r3, r4, r5
    <3>2. r1 \in Runtimes
      BY <1>4 DEF r1, Runtimes
    <3>3. r2 \in Runtimes
      BY <3>2 DEF r2, Runtimes
    <3>4. r3 \in Runtimes
      BY <3>3, <2>1, Counts DEF r3
    <3>5. r4 \in Runtimes
      BY <3>4, 0 \in Int, Counts DEF r4
    <3>6. r5 \in Runtimes
      BY <3>5, <2>1 DEF r5, Runtimes
    <3> QED BY <3>1, <3>6
  <2>3. /\ runtime'.direction = "transmit" /\ runtime'.tx_busy
        /\ runtime'.rx_busy = runtime.rx_busy /\ runtime'.bus_acquired = runtime.bus_acquired
    BY <1>4, <1>5 DEF Runtimes
  <2>4. runtime'.send_stop = (op = "write")
    BY <1>4, <1>5, Zenon DEF Runtimes
  <2> QED BY <2>2, <2>3, <2>4
<1>7. Typed'
  BY <1>1, <1>2, <1>3, <1>6 DEF IInv, Typed, Transmit
<1>8. InCall'
  BY <1>1, <1>3, <1>6 DEF IInv, InCall, Idle, StartingTx
<1>9. RestartFits'
  BY DEF IInv, RestartFits, OnTheWay, NothingYet, Transmit
<1>10. ReceptionFits'
  BY DEF IInv, ReceptionFits, NothingYet, Transmit
<1> QED BY <1>7, <1>8, <1>9, <1>10 DEF IInv

\* The register's address is sent.
LEMMA ReceiveKeeps == ASSUME IInv, Receive PROVE IInv'
<1> USE SizeAssumption DEF program, driver, channel, device
<1>1. /\ at = "tx" /\ ~runtime.rx_busy /\ isr = "none" /\ call.op = "read"
      /\ runtime.bus_acquired
  BY DEF IInv, InCall, Sending, Receive
<1>2. /\ at' = "startRx" /\ call' = call /\ isr' = isr /\ received' = 0
      /\ runtime' = [runtime EXCEPT !.direction = "receive",
                       !.tx_busy = TRUE, !.rx_busy = TRUE, !.send_stop = TRUE,
                       !.tx_data_count = call.n, !.rx_data_count = call.n,
                       !.tx_data_index = 0, !.rx_data_index = 0]
  BY <1>1 DEF Receive
<1>3. runtime \in Runtimes /\ call.n \in Int
  BY DEF IInv, Typed
<1>4. /\ runtime' \in Runtimes /\ runtime'.direction = "receive" /\ runtime'.tx_busy
      /\ runtime'.rx_busy /\ runtime'.bus_acquired = runtime.bus_acquired
      /\ runtime'.send_stop /\ runtime'.rx_data_count = call.n
      /\ runtime'.rx_data_index = 0
  <2>1. runtime' \in Runtimes
    <3> DEFINE r1 == [runtime EXCEPT !.direction = "receive", !.tx_busy = TRUE,
                                     !.rx_busy = TRUE, !.send_stop = TRUE]
               r2 == [r1 EXCEPT !.tx_data_count = call.n]
               r3 == [r2 EXCEPT !.rx_data_count = call.n]
               r4 == [r3 EXCEPT !.tx_data_index = 0]
               r5 == [r4 EXCEPT !.rx_data_index = 0]
    <3>1. runtime' = r5
      BY <1>2, <1>3 DEF Runtimes
    <3>2. r1 \in Runtimes
      BY <1>3 DEF Runtimes
    <3> HIDE DEF r1, r2, r3, r4, r5
    <3>3. r2 \in Runtimes
      BY <3>2, <1>3, Counts DEF r2
    <3>4. r3 \in Runtimes
      BY <3>3, <1>3, Counts DEF r3
    <3>5. r4 \in Runtimes
      BY <3>4, 0 \in Int, Counts DEF r4
    <3>6. r5 \in Runtimes
      BY <3>5, 0 \in Int, Counts DEF r5
    <3> QED BY <3>1, <3>6
  <2>2. /\ runtime'.direction = "receive" /\ runtime'.tx_busy /\ runtime'.rx_busy
        /\ runtime'.send_stop /\ runtime'.rx_data_count = call.n
        /\ runtime'.rx_data_index = 0
    BY <1>2, <1>3 DEF Runtimes
  <2>3. runtime'.bus_acquired = runtime.bus_acquired
    BY <1>2, <1>3 DEF Runtimes
  <2> QED BY <2>1, <2>2, <2>3
<1>5. Typed'
  BY <1>1, <1>2, <1>4 DEF IInv, Typed, Receive
<1>6. InCall'
  BY <1>1, <1>2, <1>4 DEF InCall, Receiving, Asking
<1>7. RestartFits'
  BY DEF IInv, RestartFits, OnTheWay, NothingYet, Receive
<1>8. ReceptionFits'
  BY <1>1, <1>2, <1>4 DEF IInv, ReceptionFits, NothingYet, Receive, device
<1> QED BY <1>5, <1>6, <1>7, <1>8 DEF IInv

\* A call returns.
LEMMA ReturnKeeps == ASSUME IInv, Return PROVE IInv'
<1> USE SizeAssumption DEF program, driver, channel, device
<1>1. Typed'
  BY DEF IInv, Typed, Runtimes, Return, Calls, NoCall
<1>2. InCall'
  BY DEF IInv, Typed, Runtimes, InCall, Idle, StartingTx, Sending, Asking, Receiving,
         Received, Return, Calls, NoCall
<1>3. RestartFits'
  BY DEF IInv, InCall, Sending, Receiving, Received, RestartFits, OnTheWay, NothingYet,
         Return
<1>4. ReceptionFits'
  BY DEF IInv, InCall, Sending, Receiving, Received, ReceptionFits, NothingYet, Return
<1> QED BY <1>1, <1>2, <1>3, <1>4 DEF IInv

\* The transmit handler is entered.
LEMMA TransmitHandlerKeeps == ASSUME IInv, TransmitHandler PROVE IInv'
<1> USE SizeAssumption DEF program, driver, channel, device
<1>1. Typed'
  BY DEF IInv, Typed, Runtimes, TransmitHandler, SentAll
<1>2. InCall'
  BY DEF IInv, Typed, Runtimes, InCall, Idle, StartingTx, Sending, Asking, Receiving,
         Received, TransmitHandler, SentAll
<1>3. RestartFits'
  BY DEF IInv, RestartFits, OnTheWay, NothingYet, TransmitHandler
<1>4. ReceptionFits'
  BY DEF IInv, ReceptionFits, NothingYet, TransmitHandler
<1> QED BY <1>1, <1>2, <1>3, <1>4 DEF IInv

\* The transmit handler has waited.
LEMMA FinishTxKeeps == ASSUME IInv, FinishTx PROVE IInv'
<1> USE SizeAssumption DEF program, driver, channel, device
<1>1. Typed'
  BY DEF IInv, Typed, Runtimes, FinishTx
<1>2. InCall'
  BY DEF IInv, Typed, Runtimes, InCall, Idle, StartingTx, Sending, Asking, Receiving,
         Received, FinishTx
<1>3. RestartFits'
  BY DEF IInv, Typed, InCall, Idle, StartingTx, Sending, Asking, Receiving, Received,
         RestartFits, OnTheWay, NothingYet, FinishTx
<1>4. ReceptionFits'
  BY DEF IInv, InCall, Idle, StartingTx, Sending, Asking, Receiving, Received,
         ReceptionFits, NothingYet, FinishTx
<1> QED BY <1>1, <1>2, <1>3, <1>4 DEF IInv

\* The receive handler has waited.
LEMMA FinishRxKeeps == ASSUME IInv, FinishRx PROVE IInv'
<1> USE SizeAssumption DEF program, driver, channel, device
<1>1. Typed'
  BY DEF IInv, Typed, Runtimes, FinishRx
<1>2. InCall'
  BY DEF IInv, Typed, Runtimes, InCall, Idle, StartingTx, Sending, Asking, Receiving,
         Received, FinishRx
<1>3. RestartFits'
  BY DEF IInv, Typed, InCall, Idle, StartingTx, Sending, Asking, Receiving, Received,
         RestartFits, OnTheWay, NothingYet, FinishRx
<1>4. ReceptionFits'
  BY DEF IInv, InCall, Idle, StartingTx, Sending, Asking, Receiving, Received,
         ReceptionFits, NothingYet, FinishRx
<1> QED BY <1>1, <1>2, <1>3, <1>4 DEF IInv

\* The handlers put no repeated start into the FIFO.
LEMMA HandlerPuts ==
  ASSUME IInv, NEW e \in AnyEntry, e.sort # "restart",
         line' = line, fifo' = Append(fifo, e), error' = error, at' = at, bus' = bus,
         received' = received, runtime'.rx_busy = runtime.rx_busy,
         runtime'.rx_data_index = runtime.rx_data_index
  PROVE  fifo' \in Seq(AnyEntry) /\ RestartFits'
<1>1. OnTheWay \in Seq(AnyEntry) /\ OnTheWay' = Append(OnTheWay, e)
  BY Moves DEF IInv, Typed, OnTheWay
<1>2. /\ No("restart", OnTheWay) => No("restart", OnTheWay')
      /\ One("restart", OnTheWay) => One("restart", OnTheWay')
  BY <1>1, Put
<1>3. fifo' \in Seq(AnyEntry)
  BY AppendProperties DEF IInv, Typed
<1> QED BY <1>2, <1>3 DEF IInv, RestartFits, NothingYet

\* What they put into it.
LEMMA Entries ==
  /\ \A sort \in Sorts : Mark(sort) \in AnyEntry /\ Mark(sort).sort = sort
  /\ \A i \in Int : Byte(i) \in AnyEntry /\ Byte(i).sort = "byte"
  /\ \A i \in Int : Request(i) \in AnyEntry /\ Request(i).sort # "restart"
BY DEF Mark, Byte, Request, AnyEntry, Sorts

\* The program puts a condition into the FIFO: the repeated start of a read, or
\* the start of a call.
LEMMA SendStartKeeps == ASSUME IInv, SendStart PROVE IInv'
<1> USE SizeAssumption DEF program, driver, channel, device
<1> DEFINE e == Mark(IF runtime.bus_acquired THEN "restart" ELSE "start")
<1>1. /\ at \in {"startTx", "startRx"} /\ isr = "none" /\ fifo' = Append(fifo, e)
      /\ at' = (IF at = "startTx" THEN "tx" ELSE "rx")
      /\ UNCHANGED <<call, isr, line, received, error, bus>>
  BY DEF SendStart
<1>2. e \in AnyEntry /\ e.sort = (IF runtime.bus_acquired THEN "restart" ELSE "start")
  BY Entries DEF IInv, Typed, Runtimes, Sorts
<1>3. runtime' = [runtime EXCEPT !.bus_acquired = TRUE] /\ runtime \in Runtimes
  BY DEF IInv, Typed, SendStart
<1>4. /\ runtime' \in Runtimes /\ runtime'.bus_acquired
      /\ runtime'.rx_busy = runtime.rx_busy /\ runtime'.tx_busy = runtime.tx_busy
      /\ runtime'.direction = runtime.direction /\ runtime'.send_stop = runtime.send_stop
      /\ runtime'.rx_data_count = runtime.rx_data_count
      /\ runtime'.rx_data_index = runtime.rx_data_index
  BY <1>3 DEF Runtimes
<1>5. /\ OnTheWay \in Seq(AnyEntry) /\ OnTheWay' = Append(OnTheWay, e)
      /\ fifo' \in Seq(AnyEntry)
  <2> HIDE DEF e
  <2> QED BY <1>1, <1>2, Moves, AppendProperties DEF IInv, Typed, OnTheWay
<1>6. /\ e.sort # "restart" /\ No("restart", OnTheWay) => No("restart", OnTheWay')
      /\ No("restart", OnTheWay) => One("restart", OnTheWay')
  <2> HIDE DEF e
  <2> QED BY <1>2, <1>5, Put
<1> HIDE DEF e
<1>7. Typed'
  BY <1>1, <1>4, <1>5 DEF IInv, Typed
<1>8. InCall'
  BY <1>1, <1>4
     DEF IInv, Typed, Calls, InCall, StartingTx, Sending, Asking, Receiving, Received
<1>9. RestartFits'
  <2>1. ~error => No("restart", OnTheWay)
    BY <1>1 DEF IInv, RestartFits
  <2>2. CASE at = "startTx"
    BY <1>1, <1>2, <1>6, <2>1, <2>2 DEF IInv, InCall, StartingTx, RestartFits
  <2>3. CASE at = "startRx"
    BY <1>1, <1>4, <1>6, <2>1, <2>3
       DEF IInv, InCall, Asking, RestartFits, ReceptionFits, NothingYet
  <2> QED BY <1>1, <2>2, <2>3
<1>10. ReceptionFits'
  BY <1>1, <1>4 DEF IInv, ReceptionFits, NothingYet
<1> QED BY <1>7, <1>8, <1>9, <1>10 DEF IInv

\* The loop that loads bytes.
LEMMA FillKeeps == ASSUME IInv, Fill PROVE IInv'
<1> USE DEF program, driver, channel, device
<1> DEFINE e == Byte(runtime.tx_data_index + 1)
<1>1. /\ isr = "fill" /\ isr' \in {"fill", "none"} /\ runtime \in Runtimes
      /\ UNCHANGED <<at, call, line, received, error, bus>>
  BY DEF IInv, Typed, Fill
<1>2. \/ fifo' = Append(fifo, e) /\ runtime' = [runtime EXCEPT !.tx_data_index = @ + 1]
      \/ UNCHANGED <<fifo, runtime>>
  BY DEF Fill
<1>3. /\ runtime' \in Runtimes /\ runtime'.bus_acquired = runtime.bus_acquired
      /\ runtime'.rx_busy = runtime.rx_busy /\ runtime'.tx_busy = runtime.tx_busy
      /\ runtime'.direction = runtime.direction /\ runtime'.send_stop = runtime.send_stop
      /\ runtime'.rx_data_count = runtime.rx_data_count
      /\ runtime'.rx_data_index = runtime.rx_data_index
  BY <1>1, <1>2 DEF Runtimes
<1>4. e \in AnyEntry /\ e.sort = "byte"
  BY <1>1, Entries DEF Runtimes
<1>5. fifo' \in Seq(AnyEntry) /\ RestartFits'
  <2> HIDE DEF e
  <2>1. CASE fifo' = Append(fifo, e)
    BY <1>1, <1>3, <1>4, <2>1, HandlerPuts
  <2>2. CASE UNCHANGED <<fifo, runtime>>
    BY <1>1, <2>2 DEF IInv, Typed, RestartFits, OnTheWay, NothingYet
  <2> QED BY <1>2, <2>1, <2>2
<1>6. Typed'
  BY <1>1, <1>3, <1>5 DEF IInv, Typed
<1>7. InCall'
  BY <1>1, <1>3 DEF IInv, InCall, Idle, StartingTx, Sending, Asking, Receiving, Received
<1>8. ReceptionFits'
  BY <1>1, <1>3 DEF IInv, ReceptionFits, NothingYet
<1> QED BY <1>5, <1>6, <1>7, <1>8 DEF IInv

\* All is sent: a stop at the end of a write.
LEMMA DrainedKeeps == ASSUME IInv, Drained PROVE IInv'
<1> USE DEF program, driver, channel, device
<1>1. /\ isr = "drain" /\ isr' = (IF runtime.bus_acquired THEN "finishTx" ELSE "none")
      /\ runtime \in Runtimes
      /\ UNCHANGED <<at, call, line, received, error, bus>>
  BY DEF IInv, Typed, Drained
<1>2. \/ /\ runtime.bus_acquired /\ runtime.send_stop
         /\ fifo' = Append(fifo, Mark("stop"))
         /\ runtime' = [runtime EXCEPT !.bus_acquired = FALSE]
      \/ ~(runtime.bus_acquired /\ runtime.send_stop) /\ UNCHANGED <<fifo, runtime>>
  BY DEF Drained
<1>3. /\ runtime' \in Runtimes
      /\ runtime'.bus_acquired = (runtime.bus_acquired /\ ~runtime.send_stop)
  BY <1>1, <1>2 DEF Runtimes
<1>4. /\ runtime'.rx_busy = runtime.rx_busy /\ runtime'.tx_busy = runtime.tx_busy
      /\ runtime'.direction = runtime.direction /\ runtime'.send_stop = runtime.send_stop
      /\ runtime'.rx_data_count = runtime.rx_data_count
      /\ runtime'.rx_data_index = runtime.rx_data_index
  BY <1>1, <1>2 DEF Runtimes
<1>5. Mark("stop") \in AnyEntry /\ Mark("stop").sort = "stop"
  BY Entries DEF Sorts
<1>6. fifo' \in Seq(AnyEntry) /\ RestartFits'
  <2>1. CASE fifo' = Append(fifo, Mark("stop"))
    BY <1>1, <1>4, <1>5, <2>1, HandlerPuts
  <2>2. CASE UNCHANGED <<fifo, runtime>>
    BY <1>1, <2>2 DEF IInv, Typed, RestartFits, OnTheWay, NothingYet
  <2> QED BY <1>2, <2>1, <2>2
<1>7. Typed'
  BY <1>1, <1>3, <1>6 DEF IInv, Typed
<1>8. InCall'
  BY <1>1, <1>3, <1>4
     DEF IInv, Typed, Calls, InCall, Idle, StartingTx, Sending, Asking, Receiving, Received
<1>9. ReceptionFits'
  BY <1>1, <1>4 DEF IInv, ReceptionFits, NothingYet
<1> QED BY <1>6, <1>7, <1>8, <1>9 DEF IInv

\* The loop that asks for bytes.
LEMMA AskKeeps == ASSUME IInv, Ask PROVE IInv'
<1> USE DEF program, driver, channel, device
<1> DEFINE e == Request(runtime.tx_data_index)
<1>1. /\ isr = "ask" /\ isr' \in {"ask", "none"} /\ runtime \in Runtimes
      /\ UNCHANGED <<at, call, line, received, error, bus>>
  BY DEF IInv, Typed, Ask
<1>2. fifo' = Append(fifo, e) \/ fifo' = fifo
  BY DEF Ask
<1>3. PICK next \in Int : runtime' = [runtime EXCEPT !.tx_data_index = next]
  <2> DEFINE next == IF Full \/ SentAll
                     THEN runtime.tx_data_index ELSE runtime.tx_data_index + 1
  <2>1. next \in Int
    BY <1>1 DEF Runtimes
  <2>2. runtime' = [runtime EXCEPT !.tx_data_index = next]
    BY DEF Ask
  <2> HIDE DEF next
  <2> QED BY <2>1, <2>2
<1>4. /\ runtime' \in Runtimes /\ runtime'.bus_acquired = runtime.bus_acquired
      /\ runtime'.rx_busy = runtime.rx_busy /\ runtime'.tx_busy = runtime.tx_busy
      /\ runtime'.direction = runtime.direction /\ runtime'.send_stop = runtime.send_stop
      /\ runtime'.rx_data_count = runtime.rx_data_count
      /\ runtime'.rx_data_index = runtime.rx_data_index
  BY <1>1, <1>3 DEF Runtimes
<1>5. e \in AnyEntry /\ e.sort # "restart"
  BY <1>1, Entries DEF Runtimes
<1>6. fifo' \in Seq(AnyEntry) /\ RestartFits'
  <2> HIDE DEF e
  <2>1. CASE fifo' = Append(fifo, e)
    BY <1>1, <1>4, <1>5, <2>1, HandlerPuts
  <2>2. CASE fifo' = fifo
    BY <1>1, <1>4, <2>2 DEF IInv, Typed, RestartFits, OnTheWay, NothingYet
  <2> QED BY <1>2, <2>1, <2>2
<1>7. Typed'
  BY <1>1, <1>4, <1>6 DEF IInv, Typed
<1>8. InCall'
  BY <1>1, <1>4 DEF IInv, InCall, Idle, StartingTx, Sending, Asking, Receiving, Received
<1>9. ReceptionFits'
  BY <1>1, <1>4 DEF IInv, ReceptionFits, NothingYet
<1> QED BY <1>6, <1>7, <1>8, <1>9 DEF IInv

\* The stop at the end of a read.
LEMMA StopRxKeeps == ASSUME IInv, StopRx PROVE IInv'
<1> USE DEF program, driver, channel, device
<1>1. /\ isr = "stopRx" /\ isr' = "finishRx" /\ runtime \in Runtimes
      /\ UNCHANGED <<at, call, line, received, error, bus>>
  BY DEF IInv, Typed, StopRx
<1>2. at = "rx" /\ Receiving /\ ~runtime.rx_busy
  BY <1>1 DEF IInv, Typed, InCall, Idle, StartingTx, Sending, Asking, Received
<1>3. /\ runtime' = [runtime EXCEPT !.bus_acquired = FALSE]
      /\ fifo' = Append(fifo, Mark("stop"))
  BY <1>2 DEF StopRx, Receiving
<1>4. /\ runtime' \in Runtimes /\ ~runtime'.bus_acquired
      /\ runtime'.rx_busy = runtime.rx_busy /\ runtime'.tx_busy = runtime.tx_busy
      /\ runtime'.direction = runtime.direction /\ runtime'.send_stop = runtime.send_stop
      /\ runtime'.rx_data_count = runtime.rx_data_count
      /\ runtime'.rx_data_index = runtime.rx_data_index
  BY <1>1, <1>3 DEF Runtimes
<1>5. Mark("stop") \in AnyEntry /\ Mark("stop").sort = "stop"
  BY Entries DEF Sorts
<1>6. fifo' \in Seq(AnyEntry) /\ RestartFits'
  BY <1>1, <1>3, <1>4, <1>5, HandlerPuts
<1>7. Typed'
  BY <1>1, <1>4, <1>6 DEF IInv, Typed
<1>8. InCall'
  BY <1>1, <1>2, <1>4 DEF InCall, Receiving, Received
<1>9. ReceptionFits'
  BY <1>1, <1>4 DEF IInv, ReceptionFits, NothingYet
<1> QED BY <1>6, <1>7, <1>8, <1>9 DEF IInv
\* The receive handler finds nothing to do, asks again, or has read everything.
LEMMA ReceiveHandlerKeeps == ASSUME IInv, ReceiveHandler PROVE IInv'
<1> USE DEF program, driver, channel, device
<1> DEFINE taken == Lesser(received, runtime.rx_data_count - runtime.rx_data_index)
           index == runtime.rx_data_index + taken
<1>1. isr = "none" /\ runtime \in Runtimes /\ UNCHANGED <<at, call, line, error, bus>>
  BY DEF IInv, Typed, ReceiveHandler
<1>2. CASE ~runtime.rx_busy
  <2>1. UNCHANGED <<runtime, isr, fifo, received>>
    BY <1>2 DEF ReceiveHandler
  <2>2. Typed' /\ InCall'
    BY <1>1, <2>1
       DEF IInv, Typed, InCall, Idle, StartingTx, Sending, Asking, Receiving, Received
  <2>3. RestartFits' /\ ReceptionFits'
    BY <1>1, <2>1 DEF IInv, RestartFits, ReceptionFits, OnTheWay, NothingYet
  <2> QED BY <2>2, <2>3 DEF IInv
<1>3. CASE runtime.rx_busy
  <2>1. at \in {"startRx", "rx"} /\ Receiving /\ Asking
    BY <1>3 DEF IInv, Typed, InCall, Idle, StartingTx, Sending, Asking, Received
  <2>2. runtime.rx_data_count = call.n /\ call.n \in Int /\ call.n >= 1 /\ MaxLen \in Int
    BY <2>1, SizeAssumption DEF IInv, Typed, Calls, Receiving
  <2>3. /\ received \in Int /\ runtime.rx_data_index \in Int /\ runtime.tx_data_index \in Int
        /\ runtime.tx_data_count \in Int /\ bus.count \in Int
    BY <1>1 DEF IInv, Typed, Runtimes
  <2>4. /\ taken \in Int /\ index \in Int
        /\ taken = received \/ index = call.n
        /\ index < call.n => taken = received
        /\ NothingYet => taken = 0 /\ index = 0
        /\ runtime.rx_data_index + received < call.n => index < call.n
    BY <2>2, <2>3 DEF Lesser, NothingYet
  <2>5. received' = received - taken
    BY <1>3 DEF ReceiveHandler
  <2>6. /\ index < runtime.rx_data_count => AskAgain(index)
        /\ ~(index < runtime.rx_data_count) => AllRead
    BY <1>3 DEF ReceiveHandler
  <2> HIDE DEF taken, index
  <2>7. CASE index < call.n
    <3> DEFINE more  == Lesser(runtime.rx_data_count - runtime.tx_data_index,
                               FifoSize - Len(fifo))
               some  == [i \in 1 .. more |-> Request(runtime.tx_data_index + i - 1)]
    <3>1. /\ UNCHANGED isr /\ fifo' = fifo \o some
          /\ runtime' = [runtime EXCEPT !.rx_data_index = index,
                                        !.tx_data_index = runtime.tx_data_index + more]
      BY <2>2, <2>6, <2>7 DEF AskAgain
    <3>2. fifo \in Seq(AnyEntry) /\ line \in Seq(AnyEntry) /\ OnTheWay \in Seq(AnyEntry)
      BY Moves DEF IInv, Typed, OnTheWay
    <3>3. more \in Int
      BY <2>2, <2>3, <3>2, LenProperties, SizeAssumption DEF Lesser
    <3> HIDE DEF more
    <3>4. some \in Seq(AnyEntry) /\ No("restart", some)
      <4> DEFINE n == IF more < 0 THEN 0 ELSE more
      <4>1. n \in Nat /\ 1 .. more = 1 .. n
        BY <3>3
      <4>2. \A i \in 1 .. n : /\ Request(runtime.tx_data_index + i - 1) \in AnyEntry
                              /\ Request(runtime.tx_data_index + i - 1).sort # "restart"
        BY <2>3, Entries
      <4> HIDE DEF n
      <4>3. some = [i \in 1 .. n |-> Request(runtime.tx_data_index + i - 1)]
        BY <4>1
      <4>4. some \in [1 .. n -> AnyEntry]
        BY <4>2, <4>3
      <4> HIDE DEF some
      <4>5. some \in Seq(AnyEntry)
        BY <4>1, <4>4, SeqDef
      <4>6. Len(some) = n
        BY <4>1, <4>4, <4>5, LenProperties
      <4> QED BY <4>2, <4>3, <4>5, <4>6 DEF No
    <3>5. /\ runtime' \in Runtimes /\ runtime'.rx_data_index = index
          /\ runtime'.bus_acquired = runtime.bus_acquired
          /\ runtime'.rx_busy = runtime.rx_busy /\ runtime'.tx_busy = runtime.tx_busy
          /\ runtime'.direction = runtime.direction
          /\ runtime'.send_stop = runtime.send_stop
          /\ runtime'.rx_data_count = runtime.rx_data_count
      <4> DEFINE r == [runtime EXCEPT !.rx_data_index = index]
      <4>1. r \in Runtimes
        BY <1>1, <2>4, Counts
      <4>2. runtime.tx_data_index + more \in Int
        BY <2>3, <3>3
      <4>3. runtime' = [r EXCEPT !.tx_data_index = runtime.tx_data_index + more]
        BY <1>1, <3>1 DEF Runtimes
      <4>4. runtime' \in Runtimes
        <5> HIDE DEF r
        <5> QED BY <4>1, <4>2, <4>3, Counts
      <4> QED BY <1>1, <3>1, <4>4 DEF Runtimes
    <3> HIDE DEF some
    <3>6. /\ fifo' \in Seq(AnyEntry) /\ OnTheWay' = OnTheWay \o some
      BY <1>1, <3>1, <3>2, <3>4, Moves, ConcatProperties DEF OnTheWay
    <3>7. /\ No("restart", OnTheWay) => No("restart", OnTheWay')
          /\ One("restart", OnTheWay) => One("restart", OnTheWay')
      BY <3>2, <3>4, <3>6, PutAll
    <3>8. Typed'
      BY <1>1, <2>3, <2>4, <2>5, <3>1, <3>5, <3>6 DEF IInv, Typed
    <3>9. InCall'
      BY <1>1, <2>1, <3>1, <3>5 DEF InCall, Asking, Receiving
    <3>10. RestartFits'
      BY <1>1, <2>3, <2>4, <2>5, <3>5, <3>7 DEF IInv, RestartFits, NothingYet
    <3>11. ReceptionFits'
      <4>1. ASSUME NothingYet PROVE NothingYet'
        <5>1. received = 0 /\ taken = 0 /\ index = 0
          BY <2>4, <4>1 DEF NothingYet
        <5>2. received' = 0
          BY <2>5, <5>1
        <5> QED BY <3>5, <5>1, <5>2 DEF NothingYet
      <4>2. runtime'.rx_data_index + received' = runtime.rx_data_index + received
        BY <2>3, <2>4, <2>5, <2>7, <3>5 DEF index
      <4> QED BY <1>1, <3>5, <4>1, <4>2 DEF IInv, ReceptionFits
    <3> QED BY <3>8, <3>9, <3>10, <3>11 DEF IInv
  <2>8. CASE ~(index < call.n)
    <3>1. /\ runtime' = [runtime EXCEPT !.rx_data_index = runtime.rx_data_count,
                                        !.rx_busy = FALSE]
          /\ isr' = "stopRx" /\ UNCHANGED fifo
      BY <2>1, <2>2, <2>6, <2>8 DEF AllRead, Asking
    <3>2. ~NothingYet /\ at = "rx"
      BY <2>1, <2>2, <2>4, <2>8 DEF IInv, ReceptionFits
    <3>3. bus.phase # "read"
      BY <2>2, <2>3, <2>4, <2>8 DEF IInv, ReceptionFits
    <3>4. /\ runtime' \in Runtimes /\ ~runtime'.rx_busy
          /\ runtime'.direction = runtime.direction
          /\ runtime'.send_stop = runtime.send_stop
          /\ runtime'.rx_data_count = runtime.rx_data_count
      BY <1>1, <3>1 DEF Runtimes
    <3>5. Typed'
      BY <1>1, <2>3, <2>4, <2>5, <3>1, <3>4 DEF IInv, Typed
    <3>6. InCall'
      BY <1>1, <2>1, <3>1, <3>2, <3>4 DEF InCall, Receiving, Received
    <3>7. RestartFits'
      BY <1>1, <3>1, <3>2 DEF IInv, RestartFits, OnTheWay
    <3>8. ReceptionFits'
      BY <1>1, <3>2, <3>3 DEF ReceptionFits
    <3> QED BY <3>5, <3>6, <3>7, <3>8 DEF IInv
  <2> QED BY <2>7, <2>8
<1> QED BY <1>2, <1>3

\* An entry leaves the FIFO for the transmit buffer.
LEMMA LoadKeeps == ASSUME IInv, Load PROVE IInv'
<1> USE DEF program, driver, channel, device
<1>1. /\ fifo # <<>> /\ fifo' = Tail(fifo) /\ line' = Append(line, Head(fifo))
      /\ UNCHANGED <<at, call, runtime, isr, received, error, bus>>
  BY DEF Load
<1>2. fifo \in Seq(AnyEntry) /\ line \in Seq(AnyEntry)
  BY DEF IInv, Typed
<1>3. OnTheWay' = OnTheWay
  BY <1>1, <1>2, Moves DEF OnTheWay
<1>4. fifo' \in Seq(AnyEntry) /\ line' \in Seq(AnyEntry)
  BY <1>1, <1>2, HeadTailProperties, AppendProperties
<1>5. Typed' /\ InCall'
  BY <1>1, <1>4
     DEF IInv, Typed, InCall, Idle, StartingTx, Sending, Asking, Receiving, Received
<1>6. RestartFits' /\ ReceptionFits'
  BY <1>1, <1>3 DEF IInv, RestartFits, ReceptionFits, NothingYet
<1> QED BY <1>5, <1>6 DEF IInv

\* The first entry leaves for the bus.
LEMMA Leaves ==
  ASSUME NEW s, Typed, line # <<>>, line' = Tail(line), fifo' = fifo
  PROVE  /\ line' \in Seq(AnyEntry) /\ Head(line) \in AnyEntry
         /\ No(s, OnTheWay) => No(s, OnTheWay') /\ Head(line).sort # s
         /\ One(s, OnTheWay) => One(s, OnTheWay')
         /\ One(s, OnTheWay) /\ Head(line).sort = s => No(s, OnTheWay')
<1>1. /\ OnTheWay \in Seq(AnyEntry) /\ OnTheWay # <<>>
      /\ OnTheWay' = Tail(OnTheWay) /\ Head(line) = Head(OnTheWay)
  BY Moves DEF Typed, OnTheWay
<1>2. line' \in Seq(AnyEntry) /\ Head(line) \in AnyEntry
  BY Take DEF Typed
<1> QED BY <1>1, <1>2, Take

\* The device takes an entry.
LEMMA ShiftKeeps == ASSUME IInv, Shift PROVE IInv'
<1> USE DEF program, driver, channel, device
<1> DEFINE e == Head(line)
<1>1. /\ line # <<>> /\ ~error /\ Fits(e) /\ line' = Tail(line) /\ bus' = After(e)
      /\ received' = (IF e.sort \in {"ack", "nack"} THEN received + 1 ELSE received)
      /\ UNCHANGED <<at, call, runtime, isr, fifo, error>>
  BY DEF Shift
<1>2. /\ line' \in Seq(AnyEntry) /\ e \in AnyEntry
      /\ No("restart", OnTheWay) => No("restart", OnTheWay') /\ e.sort # "restart"
      /\ One("restart", OnTheWay) => One("restart", OnTheWay')
      /\ One("restart", OnTheWay) /\ e.sort = "restart" => No("restart", OnTheWay')
  BY <1>1, Leaves DEF IInv
<1> HIDE DEF e
<1>3. /\ bus \in [phase : {"free", "write", "read", "over"}, count : Int]
      /\ call.n \in Int /\ received \in Int /\ runtime.rx_data_index \in Int
      /\ at # "idle" => call.n >= 1
  BY SizeAssumption DEF IInv, Typed, Runtimes, Calls
<1>4. e.sort \in Sorts
  BY <1>2 DEF AnyEntry
<1>5. bus' \in [phase : {"free", "write", "read", "over"}, count : Int]
  BY <1>1, <1>3, <1>4 DEF After, Sorts
<1>6. Typed'
  BY <1>1, <1>2, <1>3, <1>5 DEF IInv, Typed
<1>7. InCall'
  BY <1>1 DEF IInv, InCall, Idle, StartingTx, Sending, Asking, Receiving, Received
<1>8. CASE e.sort = "restart"
  <2>1. bus'.phase = "read" /\ bus'.count = 0 /\ received' = received
    BY <1>1, <1>8 DEF After
  <2>2. /\ at = "rx" /\ runtime.rx_busy /\ NothingYet /\ No("restart", OnTheWay')
        /\ One("restart", OnTheWay')
    BY <1>1, <1>2, <1>8 DEF IInv, RestartFits
  <2>3. RestartFits' /\ ReceptionFits'
    BY <1>1, <1>3, <2>1, <2>2 DEF RestartFits, ReceptionFits, NothingYet
  <2> QED BY <1>6, <1>7, <2>3 DEF IInv
<1>9. CASE e.sort \in {"ack", "nack"}
  <2>1. /\ bus.phase = "read" /\ bus.count + 1 <= call.n /\ received' = received + 1
        /\ bus.count + 1 = call.n <=> e.sort = "nack"
    <3>1. CASE e.sort = "ack"
      BY <1>1, <1>3, <3>1 DEF Fits
    <3>2. CASE e.sort = "nack"
      BY <1>1, <1>3, <3>2 DEF Fits
    <3> QED BY <1>9, <3>1, <3>2
  <2>2. at = "rx" /\ runtime.rx_busy /\ call.op = "read"
    BY <2>1 DEF IInv, ReceptionFits, InCall, Receiving
  <2>3. /\ bus'.phase = (IF e.sort = "nack" THEN "over" ELSE "read")
        /\ bus'.count = bus.count + 1
    BY <1>1, <1>9, <2>1, <2>2 DEF After
  <2>4. No("restart", OnTheWay)
    BY <1>1, <2>1 DEF IInv, RestartFits
  <2>5. RestartFits'
    <3>1. No("restart", OnTheWay') /\ One("restart", OnTheWay')
      BY <1>1, <1>2, <1>9, <2>4 DEF IInv, RestartFits
    <3> QED BY <3>1 DEF RestartFits
  <2>6. ReceptionFits'
    <3>1. bus.count = runtime.rx_data_index + received /\ bus.count \in Int
      BY <1>3, <2>1 DEF IInv, ReceptionFits
    <3> QED BY <1>1, <1>3, <2>1, <2>2, <2>3, <3>1 DEF ReceptionFits
  <2> QED BY <1>6, <1>7, <2>5, <2>6 DEF IInv
<1>10. CASE e.sort \in {"start", "byte", "stop"}
  <2>1. bus'.phase # "read" /\ received' = received
    BY <1>1, <1>3, <1>10 DEF Fits, After
  <2>2. RestartFits' /\ ReceptionFits'
    BY <1>1, <1>2, <2>1 DEF IInv, RestartFits, ReceptionFits, NothingYet
  <2> QED BY <1>6, <1>7, <2>2 DEF IInv
<1> QED BY <1>4, <1>8, <1>9, <1>10 DEF Sorts

\* The device refuses an entry, or entries leave after that.
LEMMA RefusedKeeps == ASSUME IInv, Refuse \/ ShiftAfterError PROVE IInv'
<1> USE DEF program, driver, channel, device
<1>1. /\ line # <<>> /\ line' = Tail(line) /\ error'
      /\ UNCHANGED <<at, call, runtime, isr, fifo, received, bus>>
  BY DEF Refuse, ShiftAfterError
<1>2. line' \in Seq(AnyEntry)
  BY <1>1, Leaves DEF IInv
<1>3. Typed' /\ InCall'
  BY <1>1, <1>2, Zenon
     DEF IInv, Typed, InCall, Idle, StartingTx, Sending, Asking, Receiving, Received
<1>4. RestartFits' /\ ReceptionFits'
  BY <1>1 DEF IInv, RestartFits, ReceptionFits, NothingYet
<1> QED BY <1>3, <1>4 DEF IInv
-----------------------------------------------------------------------------
\* IInv is an invariant.
LEMMA InvariantHolds == Spec => []IInv
<1>1. ASSUME IInv, [Next]_vars PROVE IInv'
  <2>1. CASE Next
    BY <1>1, <2>1, TransmitKeeps, SendStartKeeps, ReceiveKeeps, ReturnKeeps,
       TransmitHandlerKeeps, FillKeeps, DrainedKeeps, FinishTxKeeps, AskKeeps,
       ReceiveHandlerKeeps, StopRxKeeps, FinishRxKeeps, LoadKeeps, ShiftKeeps, RefusedKeeps
       DEF Next, Handlers, Channel
  <2>2. CASE UNCHANGED vars
    BY <1>1, <2>2
       DEF vars, program, driver, channel, device, IInv, Typed, InCall, Idle, StartingTx,
           Sending, Asking, Receiving, Received, RestartFits, ReceptionFits, NothingYet,
           OnTheWay
  <2> QED BY <1>1, <2>1, <2>2
<1> QED BY InitHolds, <1>1, PTL DEF Spec

\* Between two calls the master is free, and the register's address of a read
\* is sent before its reception begins: i2c_transmit_data, i2c_read_byte and
\* i2c_read_block never return the -1 of a busy master.
THEOREM NeverRefusedCorrect == Spec => []NeverRefused
<1>1. IInv => NeverRefused
  BY DEF IInv, InCall, Idle, Sending, NeverRefused
<1> QED BY <1>1, InvariantHolds, PTL
=============================================================================

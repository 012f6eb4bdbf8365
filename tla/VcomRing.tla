------------------------------ MODULE VcomRing ------------------------------
(***************************************************************************)
(* The receive ring of the USB virtual COM port.  The USB interrupt copies *)
(* every bulk-IN packet into USBH_VCOM_RX_Buffer and advances cur_index;   *)
(* the main program takes single bytes through CDC_Host_ReceiveByte, which *)
(* advances prev_index.  Nothing masks the interrupt, so it can fall       *)
(* between any two steps of the reader; the interrupt itself is atomic for *)
(* the reader.  The two indices are also written by the disconnect         *)
(* interrupt.                                                              *)
(*                                                                         *)
(* pending, taken and torn are history variables: no guard reads torn or   *)
(* taken, and pending is read only to keep the device within Window.       *)
(***************************************************************************)
EXTENDS Naturals, Sequences

CONSTANTS
  RXBUF_SIZE,     \* USBH_VCOM_RXBUF_SIZE, 2048 in the program
  MaxPacketSize,  \* the bulk-IN endpoint's packet size, 64 in the program
  Window,         \* most bytes the device leaves unread at the host
  Byte,           \* the values a byte can have
  Zero,           \* the value of a byte never written
  NoByte          \* ReceiveByte has not returned a byte yet

ASSUME RingAssumption ==
  /\ RXBUF_SIZE \in Nat \ {0}
  /\ MaxPacketSize \in Nat \ {0}
  /\ MaxPacketSize < RXBUF_SIZE
  /\ Window \in Nat
  /\ Zero \in Byte
  /\ NoByte \notin Byte

VARIABLES
  rxBuffer,    \* USBH_VCOM_RX_Buffer
  curIndex,    \* USBH_VCOM_RX_cur_index: where the next packet goes
  prevIndex,   \* USBH_VCOM_RX_prev_index: the next byte to read
  armed,       \* a bulk-IN transfer is outstanding: packets can arrive
  configured,  \* USB_HostState = HOST_STATE_Configured
  pc,          \* where the reader is in CDC_Host_ReceiveByte
  locIndex,    \* the local loc_index of USBVCH_Pipe_Read_8
  received,    \* the byte CDC_Host_ReceiveByte returned last
  pending,     \* history: bytes of this connection not yet taken
  taken,       \* history: the byte loc_index was read for
  torn         \* history: the last disconnect hit the reader past its checks

ring   == <<rxBuffer, curIndex, prevIndex>>
reader == <<pc, locIndex, received>>
host   == <<armed, configured>>
vars   == <<rxBuffer, curIndex, prevIndex, armed, configured, pc, locIndex,
            received, pending, taken, torn>>

Slots == 0 .. RXBUF_SIZE - 1
Packets == UNION {[1 .. n -> Byte] : n \in 1 .. MaxPacketSize}
-----------------------------------------------------------------------------
\* Mutant: the wrapped count forgets slot RXBUF_SIZE - 1.
BytesInPipeMutant ==
  IF curIndex >= prevIndex THEN curIndex - prevIndex
  ELSE ((RXBUF_SIZE - 1) - prevIndex) + curIndex

\* USBVCH_Pipe_BytesInPipe
BytesInPipe ==
  IF curIndex >= prevIndex THEN curIndex - prevIndex
  ELSE (RXBUF_SIZE - prevIndex) + curIndex

\* The bytes from prev_index up to cur_index, oldest first.
Unread == [i \in 1 .. BytesInPipe |-> rxBuffer[(prevIndex + i - 1) % RXBUF_SIZE]]

\* How far slot s lies behind cur_index, going upwards from cur_index.
Ahead(s) == IF s >= curIndex THEN s - curIndex ELSE (RXBUF_SIZE - curIndex) + s

Init ==
  /\ rxBuffer = [s \in Slots |-> Zero]
  /\ curIndex = 0
  /\ prevIndex = 0
  /\ armed = FALSE
  /\ configured = FALSE
  /\ pc = "idle"
  /\ locIndex = 0
  /\ received = NoByte
  /\ pending = <<>>
  /\ taken = NoByte
  /\ torn = FALSE
-----------------------------------------------------------------------------
(***************************************************************************)
(* Interrupt side.                                                         *)
(***************************************************************************)

\* Mutant: cur_index is advanced without the modulo.
RxDataHandlerMutant(packet) ==
  /\ armed
  /\ Len(pending) + Len(packet) <= Window
  /\ rxBuffer' = [s \in Slots |->
                    IF Ahead(s) < Len(packet) THEN packet[Ahead(s) + 1]
                    ELSE rxBuffer[s]]
  /\ curIndex' = curIndex + Len(packet)
  /\ pending' = pending \o packet
  /\ UNCHANGED <<prevIndex, host, reader, taken, torn>>

\* USBH_VCOM_Rx_Data_Handler on TRANSFER_COMPLETE of the bulk-IN pipe: copy
\* the packet at cur_index modulo the size, advance cur_index, re-arm.  It
\* never looks at prev_index.
RxDataHandler(packet) ==
  /\ armed
  /\ Len(pending) + Len(packet) <= Window
  /\ rxBuffer' = [s \in Slots |->
                    IF Ahead(s) < Len(packet) THEN packet[Ahead(s) + 1]
                    ELSE rxBuffer[s]]
  /\ curIndex' = (curIndex + Len(packet)) % RXBUF_SIZE
  /\ pending' = pending \o packet
  /\ UNCHANGED <<prevIndex, host, reader, taken, torn>>

\* Mutant: prev_index is not reset.
DisconnectMutant ==
  /\ armed
  /\ armed' = FALSE
  /\ configured' = FALSE
  /\ curIndex' = 0
  /\ pending' = <<>>
  /\ torn' = (pc \in {"ready", "loaded"} \/ (torn /\ pc = "advanced"))
  /\ UNCHANGED <<rxBuffer, prevIndex, reader, taken>>

\* USBH_SignalPortEventHandler and CDC_USB_PortCb on a disconnect: the host
\* state leaves Configured and both indices go back to zero, whatever the
\* interrupted reader was doing.
Disconnect ==
  /\ armed
  /\ armed' = FALSE
  /\ configured' = FALSE
  /\ curIndex' = 0
  /\ prevIndex' = 0
  /\ pending' = <<>>
  /\ torn' = (pc \in {"ready", "loaded"} \/ (torn /\ pc = "advanced"))
  /\ UNCHANGED <<rxBuffer, reader, taken>>

\* USBH_SignalPortEventHandler on a connect: the state becomes Powered.
Connect ==
  /\ ~armed
  /\ configured
  /\ configured' = FALSE
  /\ UNCHANGED <<armed, ring, reader, pending, taken, torn>>

(***************************************************************************)
(* Main program.                                                           *)
(***************************************************************************)

\* USBVCH_Process enumerates an attached device, in the main loop and so never
\* inside CDC_Host_ReceiveByte.  It arms the bulk-IN pipe and leaves the host
\* Configured; or the line set-up fails and the state is put back to
\* WaitForDevice with the pipe still armed; or the device went away meanwhile
\* and SetDeviceConfiguration overwrote the state the interrupt had set.
Configure ==
  /\ pc = "idle"
  /\ ~armed
  /\ armed' \in BOOLEAN
  /\ configured' \in IF armed' THEN BOOLEAN ELSE {TRUE}
  /\ UNCHANGED <<ring, reader, pending, taken, torn>>

\* USBVCH_ReceiveByte and CDC_Host_ReceiveByte return at once unless the
\* host state is Configured.
CheckConfigured ==
  /\ pc = "idle"
  /\ configured
  /\ pc' = "checked"
  /\ UNCHANGED <<ring, host, locIndex, received, pending, taken, torn>>

\* Pipe_IsINReceived
IsINReceived ==
  /\ pc = "checked"
  /\ pc' = IF curIndex # prevIndex THEN "available" ELSE "idle"
  /\ UNCHANGED <<ring, host, locIndex, received, pending, taken, torn>>

\* if (Pipe_BytesInPipe())
CheckBytesInPipe ==
  /\ pc = "available"
  /\ pc' = IF BytesInPipe # 0 THEN "ready" ELSE "idle"
  /\ UNCHANGED <<ring, host, locIndex, received, pending, taken, torn>>

\* Mutant: the index is incremented before it is used.
LoadIndexMutant ==
  /\ pc = "ready"
  /\ locIndex' = (prevIndex + 1) % RXBUF_SIZE
  /\ pc' = "loaded"
  /\ UNCHANGED <<ring, host, received, pending, taken, torn>>

\* loc_index = prev_index
LoadIndex ==
  /\ pc = "ready"
  /\ locIndex' = prevIndex
  /\ pc' = "loaded"
  /\ UNCHANGED <<ring, host, received, pending, taken, torn>>

\* prev_index = (prev_index + 1) % size.  The variable is not volatile: the
\* compiled code may use the value it loaded before or load it again.
AdvancePrevIndex ==
  /\ pc = "loaded"
  /\ \E p \in {prevIndex, locIndex} : prevIndex' = (p + 1) % RXBUF_SIZE
  /\ IF pending = <<>> THEN UNCHANGED <<pending, taken>>
     ELSE pending' = Tail(pending) /\ taken' = Head(pending)
  /\ pc' = "advanced"
  /\ UNCHANGED <<rxBuffer, curIndex, host, locIndex, received, torn>>

\* return USBH_VCOM_RX_Buffer[loc_index]: the slot is read after prev_index
\* has already declared it free.
ReturnByte ==
  /\ pc = "advanced"
  /\ received' = rxBuffer[locIndex]
  /\ pc' = "idle"
  /\ UNCHANGED <<ring, host, locIndex, pending, taken, torn>>

Reader ==
  \/ CheckConfigured \/ IsINReceived \/ CheckBytesInPipe
  \/ LoadIndex \/ AdvancePrevIndex \/ ReturnByte

Next ==
  \/ \E packet \in Packets : RxDataHandler(packet)
  \/ Disconnect
  \/ Connect
  \/ Configure
  \/ Reader

Spec == Init /\ [][Next]_vars

\* Executions in which no disconnect falls into the two-access window of the
\* reader (between its last check and the store of prev_index).
QuietSpec == Init /\ [][Next /\ ~torn']_vars
-----------------------------------------------------------------------------
(***************************************************************************)
(* Properties.                                                             *)
(***************************************************************************)

\* Every variable keeps its type: in particular both indices stay inside
\* USBH_VCOM_RX_Buffer whatever the interleaving of interrupt and reader.
TypeOK ==
  /\ rxBuffer \in [Slots -> Byte]
  /\ curIndex \in Slots
  /\ prevIndex \in Slots
  /\ armed \in BOOLEAN
  /\ configured \in BOOLEAN
  /\ pc \in {"idle", "checked", "available", "ready", "loaded", "advanced"}
  /\ locIndex \in Slots
  /\ received \in Byte \cup {NoByte}
  /\ pending \in Seq(Byte)
  /\ taken \in Byte \cup {NoByte}
  /\ torn \in BOOLEAN

\* The ring (indices and contents of USBVCH.c) always holds the newest bytes
\* of the connection, in order.  As long as fewer than RXBUF_SIZE bytes are
\* unread that is all of them; when the device gets further ahead, whole laps
\* of RXBUF_SIZE bytes vanish without a trace, and nothing else goes wrong.
RingHoldsNewest ==
  ~torn => LET kept == Len(pending) % RXBUF_SIZE IN
           Unread = SubSeq(pending, Len(pending) - kept + 1, Len(pending))

\* USBVCH_Pipe_Read_8 frees the slot before it reads it: no packet that
\* arrives in between may reuse the slot while the ring is not overrun.
InHandSafe ==
  pc = "advanced" /\ ~torn /\ Len(pending) < RXBUF_SIZE =>
    rxBuffer[locIndex] = taken

\* The inductive form of the two properties above for a device that stays
\* within a window smaller than the ring: the indices are Len(pending) apart,
\* the slots between them hold pending, and the reader's loc_index is the
\* slot it is about to free or has just freed.
RingInv ==
  ~torn =>
    /\ Len(pending) < RXBUF_SIZE
    /\ curIndex = (prevIndex + Len(pending)) % RXBUF_SIZE
    /\ \A i \in 1 .. Len(pending) :
         rxBuffer[(prevIndex + i - 1) % RXBUF_SIZE] = pending[i]
    /\ pc \in {"ready", "loaded"} => pending # <<>>
    /\ pc = "loaded" => locIndex = prevIndex
    /\ pc = "advanced" /\ armed => (locIndex + 1) % RXBUF_SIZE = prevIndex
    /\ pc = "advanced" => rxBuffer[locIndex] = taken

\* The ring as ByteFifo sees it: a byte whose slot is already freed is still
\* the head of the queue until it is returned.
Fifo == INSTANCE ByteFifo WITH
  queue <- (IF pc = "advanced" THEN <<rxBuffer[locIndex]>> ELSE <<>>) \o Unread,
  out <- received

\* Interrupt and reader together implement a lossless queue of bytes that is
\* emptied by a disconnect.
FifoSpec == Fifo!Spec

\* "Reset the data handling indices" (CDC_USB_PortCb): with no connection and
\* no read under way the ring is empty, so a new connection starts clean.
ResetOnDisconnect == ~armed /\ pc = "idle" => Unread = <<>>
=============================================================================

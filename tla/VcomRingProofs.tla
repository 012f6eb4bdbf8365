--------------------------- MODULE VcomRingProofs ---------------------------
(***************************************************************************)
(* Machine-checked theorems about VcomRing, for every buffer size, packet  *)
(* size, window and byte alphabet.                                         *)
(***************************************************************************)
EXTENDS VcomRing, SequenceTheorems, TLAPS

\* Reducing any natural number modulo the buffer size gives a slot.
LEMMA ModInSlots == \A x \in Nat : x % RXBUF_SIZE \in Slots
  BY RingAssumption DEF Slots

\* Slots are natural numbers, and so are their successors.
LEMMA SlotsNat == Slots \subseteq Nat /\ 0 \in Slots
  BY RingAssumption DEF Slots

\* A packet is a non-empty sequence of at most MaxPacketSize bytes.
LEMMA PacketFacts ==
  ASSUME NEW packet \in Packets
  PROVE  /\ packet \in Seq(Byte)
         /\ Len(packet) \in 1 .. MaxPacketSize
         /\ DOMAIN packet = 1 .. Len(packet)
  BY RingAssumption DEF Packets

\* TypeOK of VcomRing: whatever the interleaving of interrupt and reader, both
\* indices and loc_index stay inside USBH_VCOM_RX_Buffer.
THEOREM TypeCorrect == Spec => []TypeOK
<1>1. Init => TypeOK
  BY SlotsNat, RingAssumption DEF Init, TypeOK
<1>2. TypeOK /\ [Next]_vars => TypeOK'
  <2> SUFFICES ASSUME TypeOK, [Next]_vars PROVE TypeOK'
    OBVIOUS
  <2>1. ASSUME NEW packet \in Packets, RxDataHandler(packet) PROVE TypeOK'
    <3>1. rxBuffer' \in [Slots -> Byte]
      <4>1. \A s \in Slots : Ahead(s) \in Nat
        BY RingAssumption DEF Ahead, Slots, TypeOK
      <4>2. \A s \in Slots : Ahead(s) < Len(packet) => packet[Ahead(s) + 1] \in Byte
        BY <4>1, PacketFacts
      <4>3. QED BY <2>1, <4>2 DEF RxDataHandler, TypeOK, host
    <3>2. curIndex' \in Slots
      BY <2>1, ModInSlots, SlotsNat, PacketFacts DEF RxDataHandler, TypeOK, host
    <3>3. pending' \in Seq(Byte)
      BY <2>1, PacketFacts DEF RxDataHandler, TypeOK, host
    <3>4. QED BY <2>1, <3>1, <3>2, <3>3 DEF RxDataHandler, TypeOK, host, reader
  <2>2. CASE Disconnect
    BY <2>2, SlotsNat DEF Disconnect, TypeOK, host, reader
  <2>12. CASE Connect
    BY <2>12 DEF Connect, TypeOK, ring, reader
  <2>3. CASE Configure
    BY <2>3 DEF Configure, TypeOK, host, ring, reader
  <2>4. CASE CheckConfigured
    BY <2>4 DEF CheckConfigured, TypeOK, host, ring
  <2>5. CASE IsINReceived
    BY <2>5 DEF IsINReceived, TypeOK, host, ring
  <2>6. CASE CheckBytesInPipe
    BY <2>6 DEF CheckBytesInPipe, TypeOK, host, ring
  <2>7. CASE LoadIndex
    BY <2>7 DEF LoadIndex, TypeOK, host, ring
  <2>8. CASE AdvancePrevIndex
    <3>1. prevIndex' \in Slots
      BY <2>8, ModInSlots, SlotsNat DEF AdvancePrevIndex, TypeOK, host
    <3>2. pending' \in Seq(Byte) /\ taken' \in Byte \cup {NoByte}
      BY <2>8, SMTT(30) DEF AdvancePrevIndex, TypeOK, host
    <3>3. QED BY <2>8, <3>1, <3>2 DEF AdvancePrevIndex, TypeOK, host
  <2>9. CASE ReturnByte
    BY <2>9 DEF ReturnByte, TypeOK, host, ring
  <2>10. CASE UNCHANGED vars
    BY <2>10 DEF vars, TypeOK
  <2>11. QED
    BY <2>1, <2>2, <2>3, <2>4, <2>5, <2>6, <2>7, <2>8, <2>9, <2>10, <2>12
    DEF Next, Reader
<1>3. QED BY <1>1, <1>2, PTL DEF Spec
-----------------------------------------------------------------------------
(***************************************************************************)
(* No byte is lost, duplicated or reordered by the ring while the device   *)
(* stays within a window smaller than the ring.                            *)
(***************************************************************************)

\* The device never has RXBUF_SIZE or more bytes waiting at the host.
WindowFits == Window < RXBUF_SIZE

\* Stepping at most one lap ahead of a slot wraps at most once.
Wrap(p, n) == IF p + n < RXBUF_SIZE THEN p + n ELSE p + n - RXBUF_SIZE

LEMMA WrapMod ==
  ASSUME NEW p \in Slots, NEW n \in 0 .. RXBUF_SIZE
  PROVE  (p + n) % RXBUF_SIZE = Wrap(p, n) /\ Wrap(p, n) \in Slots
<1>1. CASE p + n < RXBUF_SIZE
  BY <1>1, RingAssumption DEF Slots, Wrap
<1>2. CASE p + n >= RXBUF_SIZE
  BY <1>2, RingAssumption DEF Slots, Wrap
<1>3. QED BY <1>1, <1>2, RingAssumption DEF Slots

\* The number of bytes the indices delimit is the number of bytes pending.
LEMMA CountIsPending ==
  ASSUME TypeOK, RingInv, ~torn
  PROVE  BytesInPipe = Len(pending)
<1> DEFINE L == Len(pending)
<1>1. L \in 0 .. RXBUF_SIZE /\ L < RXBUF_SIZE /\ prevIndex \in Slots
  BY RingAssumption DEF RingInv, TypeOK
<1>2. curIndex = (prevIndex + L) % RXBUF_SIZE
  BY DEF RingInv
<1> HIDE DEF L
<1>3. curIndex = Wrap(prevIndex, L)
  BY <1>1, <1>2, WrapMod
<1>4. BytesInPipe = L
  BY <1>1, <1>3, RingAssumption DEF BytesInPipe, Slots, Wrap
<1>5. QED BY <1>4 DEF L

\* A packet that fits leaves the bytes already in the ring alone, appends its
\* own behind them, and spares the slot just freed by the reader.
LEMMA PacketStep ==
  ASSUME TypeOK, RingInv, WindowFits, ~torn,
         NEW packet \in Packets, RxDataHandler(packet)
  PROVE  RingInv'
<1> DEFINE L == Len(pending)
           K == Len(packet)
           At(i) == (prevIndex + i - 1) % RXBUF_SIZE
<1>1. /\ L \in Nat /\ K \in Nat \ {0} /\ L + K < RXBUF_SIZE
      /\ prevIndex \in Slots /\ curIndex \in Slots /\ locIndex \in Slots
  BY PacketFacts, RingAssumption DEF TypeOK, RxDataHandler, WindowFits
<1>2. /\ Len(pending') = L + K
      /\ \A i \in 1 .. L + K : pending'[i] = IF i <= L THEN pending[i] ELSE packet[i - L]
  BY PacketFacts, ConcatProperties DEF TypeOK, RxDataHandler
<1>3. /\ curIndex = (prevIndex + L) % RXBUF_SIZE
      /\ curIndex' = (curIndex + K) % RXBUF_SIZE
      /\ pc = "advanced" => (locIndex + 1) % RXBUF_SIZE = prevIndex
      /\ \A i \in 1 .. L : rxBuffer[At(i)] = pending[i]
      /\ \A s \in Slots : rxBuffer'[s] = IF Ahead(s) < K THEN packet[Ahead(s) + 1]
                                        ELSE rxBuffer[s]
  BY DEF RingInv, RxDataHandler
<1>4. /\ UNCHANGED <<prevIndex, armed, pc, locIndex, taken, torn>>
      /\ pc = "advanced" => rxBuffer[locIndex] = taken
  BY DEF RxDataHandler, reader, host, RingInv
<1> HIDE DEF L, K
<1>5. curIndex = Wrap(prevIndex, L)
  BY <1>1, <1>3, WrapMod, RingAssumption
<1>6. curIndex' = (prevIndex + (L + K)) % RXBUF_SIZE
  <2>1. K \in 0 .. RXBUF_SIZE /\ L + K \in 0 .. RXBUF_SIZE
    BY <1>1, RingAssumption
  <2>2. curIndex' = Wrap(curIndex, K)
    BY <1>1, <1>3, <2>1, WrapMod
  <2>3. (prevIndex + (L + K)) % RXBUF_SIZE = Wrap(prevIndex, L + K)
    BY <1>1, <2>1, WrapMod
  <2>4. Wrap(curIndex, K) = Wrap(prevIndex, L + K)
    BY <1>1, <1>5, RingAssumption DEF Slots, Wrap
  <2>5. QED BY <2>2, <2>3, <2>4
<1>7. ASSUME NEW i \in 1 .. L + K
      PROVE  /\ At(i) \in Slots
             /\ Ahead(At(i)) = IF i <= L THEN RXBUF_SIZE - L + i - 1 ELSE i - L - 1
  <2>1. i - 1 \in 0 .. RXBUF_SIZE /\ prevIndex + i - 1 = prevIndex + (i - 1)
    BY <1>1, RingAssumption DEF Slots
  <2>2. At(i) = Wrap(prevIndex, i - 1) /\ At(i) \in Slots
    <3>1. At(i) = (prevIndex + (i - 1)) % RXBUF_SIZE
      BY <2>1
    <3> HIDE DEF At
    <3>2. QED BY <1>1, <2>1, <3>1, WrapMod
  <2>3. Ahead(Wrap(prevIndex, i - 1)) =
          IF i <= L THEN RXBUF_SIZE - L + i - 1 ELSE i - L - 1
    BY <1>1, <1>5, RingAssumption DEF Ahead, Slots, Wrap
  <2>4. QED BY <2>2, <2>3
<1>8. ASSUME NEW i \in 1 .. L + K
      PROVE  rxBuffer'[At(i)] = pending'[i]
  <2> HIDE DEF At
  <2>1. rxBuffer'[At(i)] = IF Ahead(At(i)) < K THEN packet[Ahead(At(i)) + 1] ELSE rxBuffer[At(i)]
    BY <1>3, <1>7
  <2>2. CASE i <= L
    <3>1. ~(Ahead(At(i)) < K) /\ i \in 1 .. L
      BY <1>1, <1>7, <2>2, RingAssumption
    <3>2. QED BY <1>2, <1>3, <2>1, <2>2, <3>1
  <2>3. CASE i > L
    <3>1. Ahead(At(i)) < K /\ Ahead(At(i)) + 1 = i - L /\ ~(i <= L)
      BY <1>1, <1>7, <2>3
    <3>2. QED BY <1>2, <2>1, <3>1
  <2>4. QED BY <1>1, <2>2, <2>3
<1>9. pc = "advanced" => rxBuffer'[locIndex] = rxBuffer[locIndex]
  <2> SUFFICES ASSUME pc = "advanced" PROVE rxBuffer'[locIndex] = rxBuffer[locIndex]
    OBVIOUS
  <2>1. prevIndex = Wrap(locIndex, 1)
    <3>1. (locIndex + 1) % RXBUF_SIZE = prevIndex
      BY <1>3
    <3>2. 1 \in 0 .. RXBUF_SIZE
      BY RingAssumption
    <3>3. QED BY <1>1, <3>1, <3>2, WrapMod
  <2>2. Ahead(locIndex) = RXBUF_SIZE - L - 1
    BY <1>1, <1>5, <2>1, RingAssumption DEF Ahead, Slots, Wrap
  <2>3. ~(Ahead(locIndex) < K)
    BY <1>1, <2>2, RingAssumption
  <2>4. QED BY <1>1, <1>3, <2>3
<1>10. pending' # <<>> /\ Len(pending') < RXBUF_SIZE
  BY <1>1, <1>2
<1>11. \A i \in 1 .. Len(pending') :
         rxBuffer'[(prevIndex + i - 1) % RXBUF_SIZE] = pending'[i]
  BY <1>2, <1>8
<1>12. curIndex' = (prevIndex + Len(pending')) % RXBUF_SIZE
  BY <1>2, <1>6
<1>13. /\ pc = "loaded" => locIndex = prevIndex
       /\ pc = "advanced" => (locIndex + 1) % RXBUF_SIZE = prevIndex
  BY <1>3 DEF RingInv
<1>14. QED BY <1>4, <1>9, <1>10, <1>11, <1>12, <1>13 DEF RingInv

\* A byte is taken from the front of the ring.
LEMMA AdvanceStep ==
  ASSUME TypeOK, RingInv, ~torn, AdvancePrevIndex
  PROVE  RingInv'
<1> DEFINE L == Len(pending)
<1>1. /\ pc = "loaded" /\ locIndex = prevIndex /\ pending # <<>>
      /\ prevIndex' = (prevIndex + 1) % RXBUF_SIZE
      /\ locIndex' = prevIndex /\ pc' = "advanced"
      /\ rxBuffer' = rxBuffer /\ curIndex' = curIndex
      /\ pending' = Tail(pending) /\ taken' = Head(pending)
      /\ L < RXBUF_SIZE
      /\ curIndex = (prevIndex + L) % RXBUF_SIZE
      /\ \A i \in 1 .. L : rxBuffer[(prevIndex + i - 1) % RXBUF_SIZE] = pending[i]
  BY DEF AdvancePrevIndex, RingInv
<1>2. /\ L \in Nat \ {0} /\ Len(Tail(pending)) = L - 1
      /\ \A i \in 1 .. L - 1 : Tail(pending)[i] = pending[i + 1]
      /\ Head(pending) = pending[1]
      /\ prevIndex \in Slots
  BY <1>1, HeadTailProperties, EmptySeq DEF TypeOK
<1> HIDE DEF L
<1>3. prevIndex' = Wrap(prevIndex, 1) /\ prevIndex' \in Slots
  BY <1>1, <1>2, WrapMod, RingAssumption
<1>4. curIndex' = (prevIndex' + (L - 1)) % RXBUF_SIZE
  <2>1. L \in 0 .. RXBUF_SIZE /\ L - 1 \in 0 .. RXBUF_SIZE
    BY <1>1, <1>2, RingAssumption
  <2>2. (prevIndex' + (L - 1)) % RXBUF_SIZE = Wrap(prevIndex', L - 1)
    BY <1>3, <2>1, WrapMod
  <2>3. curIndex = Wrap(prevIndex, L)
    BY <1>1, <1>2, <2>1, WrapMod
  <2>4. Wrap(prevIndex, L) = Wrap(Wrap(prevIndex, 1), L - 1)
    BY <1>1, <1>2, RingAssumption DEF Slots, Wrap
  <2>5. QED BY <1>1, <1>3, <2>2, <2>3, <2>4
<1>5. ASSUME NEW i \in 1 .. L - 1
      PROVE  rxBuffer[(prevIndex' + i - 1) % RXBUF_SIZE] = Tail(pending)[i]
  <2>1. i - 1 \in 0 .. RXBUF_SIZE /\ i \in 0 .. RXBUF_SIZE /\ i + 1 \in 1 .. L
    BY <1>1, <1>2, RingAssumption
  <2>2. (prevIndex' + (i - 1)) % RXBUF_SIZE = Wrap(prevIndex', i - 1)
    BY <1>3, <2>1, WrapMod
  <2>3. (prevIndex + i) % RXBUF_SIZE = Wrap(prevIndex, i)
    BY <1>2, <2>1, WrapMod
  <2>4. Wrap(prevIndex, i) = Wrap(Wrap(prevIndex, 1), i - 1)
    BY <1>1, <1>2, <2>1, RingAssumption DEF Slots, Wrap
  <2>5. rxBuffer[(prevIndex + (i + 1) - 1) % RXBUF_SIZE] = pending[i + 1]
    BY <1>1, <2>1
  <2>6. prevIndex + (i + 1) - 1 = prevIndex + i /\ prevIndex' + i - 1 = prevIndex' + (i - 1)
    BY <1>2, <1>3, <2>1 DEF Slots
  <2>7. QED BY <1>2, <1>3, <2>2, <2>3, <2>4, <2>5, <2>6
<1>6. rxBuffer[prevIndex] = Head(pending)
  <2>1. rxBuffer[(prevIndex + 1 - 1) % RXBUF_SIZE] = pending[1]
    BY <1>1, <1>2
  <2>2. (prevIndex + 1 - 1) % RXBUF_SIZE = prevIndex
    BY <1>2, RingAssumption DEF Slots
  <2>3. QED BY <1>2, <2>1, <2>2
<1>7. QED
  <2>1. Len(pending') = L - 1 /\ L - 1 < RXBUF_SIZE
    BY <1>1, <1>2, RingAssumption
  <2>2. \A i \in 1 .. Len(pending') :
          rxBuffer'[(prevIndex' + i - 1) % RXBUF_SIZE] = pending'[i]
    BY <1>1, <1>5, <2>1
  <2>3. curIndex' = (prevIndex' + Len(pending')) % RXBUF_SIZE
    BY <1>4, <2>1
  <2>4. (locIndex' + 1) % RXBUF_SIZE = prevIndex' /\ rxBuffer'[locIndex'] = taken'
    BY <1>1, <1>6
  <2>5. QED BY <1>1, <2>1, <2>2, <2>3, <2>4 DEF RingInv

\* The disconnect interrupt empties the ring: unless it tears a read apart, it
\* leaves the indices equal and the byte in hand untouched.
LEMMA DisconnectStep ==
  ASSUME TypeOK, RingInv, Disconnect
  PROVE  RingInv'
<1> SUFFICES ASSUME ~torn' PROVE RingInv'
  BY DEF RingInv
<1>1. /\ pc' = pc /\ pc \notin {"ready", "loaded"} /\ armed' = FALSE
      /\ pending' = <<>> /\ curIndex' = 0 /\ prevIndex' = 0
      /\ rxBuffer' = rxBuffer /\ locIndex' = locIndex /\ taken' = taken
      /\ pc = "advanced" => ~torn
  BY DEF Disconnect, reader
<1>2. Len(pending') = 0 /\ (0 + 0) % RXBUF_SIZE = 0
  BY <1>1, RingAssumption
<1>3. pc = "advanced" => rxBuffer[locIndex] = taken
  BY <1>1 DEF RingInv
<1>4. QED BY <1>1, <1>2, <1>3, RingAssumption DEF RingInv

\* RingInv of VcomRing is inductive for a device that stays within the ring.
THEOREM RingCorrect == WindowFits => (Spec => []RingInv)
<1> SUFFICES ASSUME WindowFits PROVE Spec => []RingInv
  OBVIOUS
<1>1. Init => RingInv
  BY RingAssumption DEF Init, RingInv
<1>2. TypeOK /\ RingInv /\ [Next]_vars => RingInv'
  <2> SUFFICES ASSUME TypeOK, RingInv, [Next]_vars PROVE RingInv'
    OBVIOUS
  <2>1. ASSUME NEW packet \in Packets, RxDataHandler(packet) PROVE RingInv'
    <3>1. CASE torn
      BY <2>1, <3>1 DEF RxDataHandler, RingInv
    <3>2. CASE ~torn
      BY <2>1, <3>2, PacketStep
    <3>3. QED BY <3>1, <3>2
  <2>2. CASE Disconnect
    BY <2>2, DisconnectStep
  <2>12. CASE Connect
    BY <2>12 DEF Connect, RingInv, ring, reader
  <2>3. CASE Configure
    BY <2>3 DEF Configure, RingInv, host, ring, reader
  <2>4. CASE CheckConfigured
    BY <2>4 DEF CheckConfigured, RingInv, host, ring
  <2>5. CASE IsINReceived
    BY <2>5 DEF IsINReceived, RingInv, host, ring
  <2>6. CASE CheckBytesInPipe
    <3>1. ASSUME ~torn, pending = <<>> PROVE BytesInPipe = 0
      BY <3>1, CountIsPending
    <3>2. QED BY <2>6, <3>1 DEF CheckBytesInPipe, RingInv, host, ring
  <2>7. CASE LoadIndex
    BY <2>7 DEF LoadIndex, RingInv, host, ring
  <2>8. CASE AdvancePrevIndex
    <3>1. CASE torn
      BY <2>8, <3>1 DEF AdvancePrevIndex, RingInv
    <3>2. CASE ~torn
      BY <2>8, <3>2, AdvanceStep
    <3>3. QED BY <3>1, <3>2
  <2>9. CASE ReturnByte
    BY <2>9 DEF ReturnByte, RingInv, host, ring
  <2>10. CASE UNCHANGED vars
    BY <2>10 DEF vars, RingInv
  <2>11. QED
    BY <2>1, <2>2, <2>3, <2>4, <2>5, <2>6, <2>7, <2>8, <2>9, <2>10, <2>12
    DEF Next, Reader
<1>3. QED BY <1>1, <1>2, TypeCorrect, PTL DEF Spec

\* InHandSafe of VcomRing: the slot USBVCH_Pipe_Read_8 frees before reading it
\* is not reused by the interrupt before it has been read.
THEOREM InHandCorrect == WindowFits => (Spec => []InHandSafe)
<1>1. RingInv => InHandSafe
  BY DEF RingInv, InHandSafe
<1>2. QED BY <1>1, RingCorrect, PTL

\* RingHoldsNewest of VcomRing: the ring holds every unread byte, in order.
THEOREM NewestCorrect == WindowFits => (Spec => []RingHoldsNewest)
<1>1. ASSUME TypeOK, RingInv PROVE RingHoldsNewest
  <2> SUFFICES ASSUME ~torn
               PROVE  LET kept == Len(pending) % RXBUF_SIZE IN
                      Unread = SubSeq(pending, Len(pending) - kept + 1, Len(pending))
    BY DEF RingHoldsNewest
  <2> DEFINE L == Len(pending)
  <2>1. BytesInPipe = L /\ L \in Nat /\ L < RXBUF_SIZE /\ pending \in Seq(Byte)
    BY <1>1, CountIsPending DEF RingInv, TypeOK
  <2>2. L % RXBUF_SIZE = L /\ L - L + 1 = 1
    BY <2>1, RingAssumption
  <2>3. Unread = [i \in 1 .. L |-> pending[i]]
    BY <1>1, <2>1 DEF Unread, RingInv
  <2>4. SubSeq(pending, 1, L) = [i \in 1 .. L |-> pending[i]]
    BY <2>1
  <2>5. QED BY <2>2, <2>3, <2>4
<1>2. QED BY <1>1, RingCorrect, TypeCorrect, PTL
-----------------------------------------------------------------------------
(***************************************************************************)
(* The ring implements ByteFifo.                                           *)
(***************************************************************************)

\* The abstract queue of the refinement mapping.
Queue == (IF pc = "advanced" THEN <<rxBuffer[locIndex]>> ELSE <<>>) \o Unread

\* What the queue holds, in terms of the bytes that arrived.
InHand == IF pc = "advanced" THEN <<taken>> ELSE <<>>

\* Everything QuietSpec keeps true.
QuietInv == TypeOK /\ RingInv /\ ~torn

LEMMA UnreadIsPending ==
  ASSUME QuietInv
  PROVE  Unread = pending /\ Queue = InHand \o pending
<1>1. BytesInPipe = Len(pending) /\ Len(pending) \in Nat /\ pending \in Seq(Byte)
  BY CountIsPending DEF QuietInv, TypeOK
<1>2. Unread = [i \in 1 .. Len(pending) |-> pending[i]]
  BY <1>1 DEF Unread, RingInv, QuietInv
<1>3. pending = [i \in 1 .. Len(pending) |-> pending[i]]
  BY <1>1
<1>4. pc = "advanced" => rxBuffer[locIndex] = taken
  BY DEF QuietInv, RingInv
<1>5. QED BY <1>2, <1>3, <1>4 DEF Queue, InHand

LEMMA InHandType ==
  ASSUME QuietInv
  PROVE  InHand \in Seq(Byte) /\ pending \in Seq(Byte)
<1>1. pc = "advanced" => taken \in Byte
  BY DEF QuietInv, TypeOK, RingInv
<1>2. QED BY <1>1 DEF InHand, QuietInv, TypeOK

\* FifoSpec of VcomRing: for a device that stays within the ring, and as long
\* as no disconnect falls into the reader's window, interrupt and reader are a
\* lossless first-in first-out queue that a disconnect empties.
THEOREM RingImplementsFifo == WindowFits => (QuietSpec => FifoSpec)
<1> SUFFICES ASSUME WindowFits PROVE QuietSpec => FifoSpec
  OBVIOUS
<1>1. QuietSpec => [](TypeOK /\ RingInv)
  <2>1. QuietSpec => Spec
    BY PTL DEF QuietSpec, Spec
  <2>2. QED BY <2>1, TypeCorrect, RingCorrect, PTL
<1>2. QuietSpec => []~torn
  <2>1. Init => ~torn
    BY DEF Init
  <2>2. ~torn /\ [Next /\ ~torn']_vars => ~torn'
    BY DEF vars
  <2>3. QED BY <2>1, <2>2, PTL DEF QuietSpec
<1>3. QuietSpec => []QuietInv
  BY <1>1, <1>2, PTL DEF QuietInv
<1>4. Init => Fifo!Init
  <2> SUFFICES ASSUME Init PROVE Queue = <<>> /\ received = NoByte
    BY DEF Fifo!Init, Queue
  <2>1. BytesInPipe = 0
    BY DEF Init, BytesInPipe
  <2>2. Unread = <<>>
    BY <2>1 DEF Unread
  <2>3. QED BY <2>2 DEF Init, Queue
<1>5. QuietInv /\ QuietInv' /\ [Next /\ ~torn']_vars => [Fifo!Next]_(Fifo!vars)
  <2> SUFFICES ASSUME QuietInv, QuietInv', [Next /\ ~torn']_vars
               PROVE  [Fifo!Next]_(Fifo!vars)
    OBVIOUS
  <2>1. /\ Queue = InHand \o pending /\ InHand \in Seq(Byte) /\ pending \in Seq(Byte)
        /\ Queue' = InHand' \o pending'
    <3>1. Queue = InHand \o pending
      BY UnreadIsPending
    <3>2. (Queue = InHand \o pending)'
      BY UnreadIsPending, PTL
    <3>3. QED BY <3>1, <3>2, InHandType
  <2> DEFINE q == Queue
  <2>2. ASSUME NEW packet \in Packets, RxDataHandler(packet) PROVE Fifo!Next
    <3>1. packet \in Seq(Byte) /\ pending' = pending \o packet /\ InHand' = InHand
          /\ received' = received
      BY <2>2, PacketFacts DEF RxDataHandler, reader, InHand
    <3>2. Queue' = Queue \o packet
      BY <2>1, <3>1, ConcatAssociative, SMTT(30)
    <3>3. Fifo!Put(packet)
      BY <3>1, <3>2 DEF Fifo!Put, Queue
    <3>4. QED BY <3>3 DEF Fifo!Next, Fifo!Packets, Packets
  <2>3. CASE Disconnect
    <3>1. pending' = <<>> /\ InHand' = InHand /\ received' = received
      BY <2>3 DEF Disconnect, reader, InHand
    <3>2. Queue' = InHand
      BY <2>1, <3>1
    <3>3. CASE Queue = <<>>
      <4>1. Len(Queue) = Len(InHand) + Len(pending)
        BY <2>1, ConcatProperties
      <4>2. Len(InHand) = 0
        BY <2>1, <3>3, <4>1
      <4>3. Queue' = Queue
        BY <2>1, <3>2, <3>3, <4>2, EmptySeq
      <4>4. QED BY <3>1, <4>3 DEF Fifo!vars, Queue
    <3>4. CASE Queue # <<>>
      <4>1. InHand \in {<<>>, <<Head(Queue)>>}
        <5>1. CASE pc = "advanced"
          <6>1. InHand = <<taken>> /\ Queue = <<taken>> \o pending
            BY <2>1, <5>1 DEF InHand
          <6>2. taken \in Byte
            BY <5>1 DEF QuietInv, TypeOK, RingInv
          <6>3. Head(Queue) = taken
            BY <2>1, <6>1, <6>2, ConcatProperties
          <6>4. QED BY <6>1, <6>3
        <5>2. CASE pc # "advanced"
          BY <5>2 DEF InHand
        <5>3. QED BY <5>1, <5>2
      <4>2. Fifo!Reset
        BY <3>1, <3>2, <3>4, <4>1 DEF Fifo!Reset, Queue
      <4>3. QED BY <4>2 DEF Fifo!Next
    <3>5. QED BY <3>3, <3>4
  <2>4. CASE AdvancePrevIndex
    <3>1. pending # <<>> /\ pending' = Tail(pending) /\ taken' = Head(pending)
          /\ pc = "loaded" /\ pc' = "advanced" /\ received' = received
      BY <2>4 DEF AdvancePrevIndex, QuietInv, RingInv
    <3>2. Queue = pending /\ Queue' = <<Head(pending)>> \o Tail(pending)
      BY <2>1, <3>1 DEF InHand
    <3>3. <<Head(pending)>> \o Tail(pending) = pending
      <4>1. Head(pending) \in Byte /\ Tail(pending) \in Seq(Byte)
            /\ <<Head(pending)>> \in Seq(Byte)
        BY <2>1, <3>1, HeadTailProperties
      <4>2. Len(<<Head(pending)>> \o Tail(pending)) = Len(pending)
        BY <2>1, <3>1, <4>1, HeadTailProperties, ConcatProperties, EmptySeq
      <4>3. \A i \in 1 .. Len(pending) :
              (<<Head(pending)>> \o Tail(pending))[i] = pending[i]
        BY <2>1, <3>1, <4>1, HeadTailProperties, ConcatProperties, EmptySeq
      <4>4. QED BY <2>1, <4>1, <4>2, <4>3, SeqEqual, ConcatProperties
    <3>4. Queue' = Queue
      BY <3>2, <3>3
    <3>5. QED BY <3>1, <3>4 DEF Fifo!vars, Queue
  <2>5. CASE ReturnByte
    <3>1. pc = "advanced" /\ pc' = "idle" /\ pending' = pending
          /\ received' = rxBuffer[locIndex] /\ rxBuffer[locIndex] = taken
      BY <2>5 DEF ReturnByte, QuietInv, RingInv
    <3>2. taken \in Byte
      BY <3>1 DEF QuietInv, TypeOK, RingInv
    <3>3. Queue = <<taken>> \o pending /\ Queue' = pending
      BY <2>1, <3>1 DEF InHand
    <3>4. Queue # <<>> /\ Head(Queue) = taken /\ Tail(Queue) = pending
      BY <2>1, <3>2, <3>3, ConcatProperties
    <3>5. Fifo!Get
      BY <3>1, <3>3, <3>4 DEF Fifo!Get, Queue
    <3>6. QED BY <3>5 DEF Fifo!Next
  <2>6. CASE /\ pc # "advanced" /\ pc' # "advanced"
             /\ pending' = pending /\ received' = received
    BY <2>1, <2>6 DEF InHand, Fifo!vars, Queue
  <2>7. CASE UNCHANGED vars
    BY <2>7, <2>1 DEF vars, InHand, Fifo!vars, Queue
  <2>8. CASE Connect
    BY <2>8, <2>1 DEF Connect, reader, InHand, Fifo!vars, Queue
  <2>9. QED
    BY <2>2, <2>3, <2>4, <2>5, <2>6, <2>7, <2>8
    DEF Next, Reader, Configure, CheckConfigured, IsINReceived,
        CheckBytesInPipe, LoadIndex, reader
<1>6. QED BY <1>3, <1>4, <1>5, PTL DEF QuietSpec, FifoSpec, Fifo!Spec
=============================================================================

----------------------------- MODULE SsmExchange -----------------------------
(***************************************************************************)
(* One reading goes to the SSM: provide_values writes the JSON command to  *)
(* the bulk-OUT pipe in packets, then receive_response reads lines from    *)
(* the receive ring until one of them differs from the command.  The SSM,  *)
(* which is not part of this repository, echoes every command line and     *)
(* then answers it; the code knows about the echo only through the strcmp  *)
(* in receive_response.                                                    *)
(*                                                                         *)
(* A line is its kind, the transaction it stems from and its length; its   *)
(* text matters only for the comparison with the command.  VcomRing shows  *)
(* that the ring hands the lines over complete and in order as long as     *)
(* they fit into it, which is what RingCapacity stands for here, and as    *)
(* long as no disconnect falls between the reader's load and store of      *)
(* prev_index.  One that does (TornDisconnect) leaves up to a whole ring   *)
(* of old bytes unread; torn says that they may be there, and ReadStale    *)
(* stands for everything receive_response can make of them.                *)
(***************************************************************************)
EXTENDS Naturals, Sequences

CONSTANTS
  TxLimit,       \* transaction numbers are 0 .. TxLimit - 1 (1000000)
  CmdLen,        \* CmdLen[t]: strlen(send_buffer) of transaction t
  ResponseLens,  \* the lengths a response line can have
  PacketSize,    \* the bulk-OUT endpoint's packet size (64)
  LengthRange,   \* values of the uint8_t length (256)
  BufferSize,    \* size of send_buffer (500)
  RxLimit,       \* USB_RX_BUFFER_SIZE (1024)
  RingCapacity,  \* unread bytes the receive ring can hold (2047)
  MaxBacklog,    \* bound: no new command with more lines than this unread
  MaxTimeouts    \* bound: transfers that time out in one connection

ASSUME ExchangeAssumption ==
  /\ TxLimit \in Nat /\ TxLimit > 1
  /\ CmdLen \in [0 .. TxLimit - 1 -> Nat \ {0}]
  /\ ResponseLens \subseteq Nat \ {0}
  /\ PacketSize \in Nat \ {0}
  /\ LengthRange \in Nat /\ PacketSize < LengthRange
  /\ {BufferSize, RxLimit, RingCapacity, MaxBacklog, MaxTimeouts} \subseteq Nat

VARIABLES
  pc,          \* what the main program is doing
  tx,          \* transaction_nr_dec
  length,      \* the local length of provide_values
  sendOffset,  \* the local send_offset of provide_values
  sendPos,     \* send_buffer_ptr - send_buffer
  dirty,       \* leading bytes of RxBuffer that may be non-zero
  accepted,    \* the line receive_response copied to recv_command
  attached,    \* a device is plugged in
  configured,  \* USB_HostState = HOST_STATE_Configured
  hostToggle,  \* data toggle the host uses for its next bulk-OUT packet
  devToggle,   \* data toggle the device expects
  devLine,     \* the part of a command line the device has so far
  owed,        \* lines the device has yet to send
  inbox,       \* lines in the receive ring
  torn,        \* old bytes may be unread: prev_index was stored after its reset
  lag,         \* history: lines that were unread when the command began
  timeouts     \* history: transfers that timed out in this connection

program == <<pc, tx, length, sendOffset, sendPos, dirty, accepted>>
link    == <<attached, configured, hostToggle, devToggle>>
device  == <<devLine, owed>>
history == <<torn, lag, timeouts>>
vars    == <<pc, tx, length, sendOffset, sendPos, dirty, accepted, attached,
             configured, hostToggle, devToggle, devLine, owed, inbox, torn, lag, timeouts>>

Tx == 0 .. TxLimit - 1
NoLine == [kind |-> "none", tx |-> 0, len |-> 0]
Line == [kind : {"echo", "garbled", "response", "rest"}, tx : Tx, len : Nat]

\* Texts left in the ring by an earlier connection, as long as lines can be.
Stale == [kind : {"garbled"}, tx : {0},
          len : {IF n < RxLimit THEN n ELSE RxLimit : n \in ResponseLens}]

\* devLine: nothing yet, the first n bytes of command t, or anything else.
Nothing == [kind |-> "nothing", tx |-> 0, len |-> 0]
Garbled == [kind |-> "garbled", tx |-> 0, len |-> 0]
Prefix(t, n) == [kind |-> "prefix", tx |-> t, len |-> n]

Echo(t) == [kind |-> "echo", tx |-> t, len |-> CmdLen[t]]
Response(t, n) == [kind |-> "response", tx |-> t, len |-> n]

Backlog == inbox \o owed
TotalLen(lines) ==
  LET sum[n \in 0 .. Len(lines)] ==
        IF n = 0 THEN 0 ELSE sum[n - 1] + lines[n].len
  IN  sum[Len(lines)]
Larger(m, n) == IF m > n THEN m ELSE n
Smaller(m, n) == IF m < n THEN m ELSE n

Init ==
  /\ pc = "idle" /\ tx = 0
  /\ length = 0 /\ sendOffset = 0 /\ sendPos = 0
  /\ dirty = 0 /\ accepted = NoLine
  /\ attached = FALSE /\ configured = FALSE
  /\ hostToggle = 1 /\ devToggle = 1
  /\ devLine = Nothing /\ owed = <<>> /\ inbox = <<>>
  /\ torn = FALSE /\ lag = 0 /\ timeouts = 0
-----------------------------------------------------------------------------
(***************************************************************************)
(* Sending.                                                                *)
(***************************************************************************)

\* The main loop reads the host state into USBHostState and finds Configured.
Poll ==
  /\ pc = "idle"
  /\ configured
  /\ Len(Backlog) <= MaxBacklog
  /\ pc' = "due"
  /\ UNCHANGED <<tx, length, sendOffset, sendPos, dirty, accepted, link,
                 device, inbox, history>>

\* Mutant: increase_transaction_nr is not called.
BeginMutant ==
  /\ pc = "due"
  /\ pc' = "chunk"
  /\ tx' = tx
  /\ length' = CmdLen[tx'] % LengthRange
  /\ sendOffset' = 0
  /\ sendPos' = 0
  /\ accepted' = NoLine
  /\ lag' = Len(Backlog)
  /\ UNCHANGED <<dirty, link, device, inbox, torn, timeouts>>

\* provide_values up to the chunk loop: next transaction number, command
\* built in send_buffer, its length cut to eight bits.
Begin ==
  /\ pc = "due"
  /\ pc' = "chunk"
  /\ tx' = (tx + 1) % TxLimit
  /\ length' = CmdLen[tx'] % LengthRange
  /\ sendOffset' = 0
  /\ sendPos' = 0
  /\ accepted' = NoLine
  /\ lag' = Len(Backlog)
  /\ UNCHANGED <<dirty, link, device, inbox, torn, timeouts>>

\* Mutant: length is a signed int.
AfterSendMutant(offset) ==
  /\ sendOffset' = offset
  /\ length' = length - offset
  /\ sendPos' = Smaller(sendPos + offset, BufferSize)
  /\ pc' = IF offset = 0 THEN "idle"
           ELSE IF length' = 0 THEN "receive" ELSE "chunk"
  /\ UNCHANGED <<tx, dirty, accepted, attached, configured, inbox, torn, lag>>

\* The rest of one round of the chunk loop, with the send_offset that
\* USBVCH_SendData left behind.  It gives up only if that is still zero.
AfterSend(offset) ==
  /\ sendOffset' = offset
  /\ length' = (length + LengthRange - offset) % LengthRange
  /\ sendPos' = Smaller(sendPos + offset, BufferSize)
  /\ pc' = IF offset = 0 THEN "idle"
           ELSE IF length' = 0 THEN "receive" ELSE "chunk"
  /\ UNCHANGED <<tx, dirty, accepted, attached, configured, inbox, torn, lag>>

ChunkLen == Smaller(length, PacketSize)

\* Can a packet of n bytes from sendPos on hold the end of a line?  Past the
\* command there are zeros up to the end of the buffer, then anything.
EndsLine(n) ==
  IF sendPos + n > BufferSize THEN BOOLEAN
  ELSE {sendPos < CmdLen[tx] /\ CmdLen[tx] <= sendPos + n}

\* The device takes the n bytes from sendPos on; once it has a line it owes
\* the echo of that line and an answer to it.
DeviceTakes(n) ==
  LET before == IF sendPos = 0 /\ devLine = Nothing THEN Prefix(tx, 0) ELSE devLine
      inStep == before = Prefix(tx, sendPos)
      whole  == inStep /\ sendPos + n = CmdLen[tx]
      echo   == IF whole THEN Echo(tx) ELSE [Echo(tx) EXCEPT !.kind = "garbled"]
  IN  \E ends \in EndsLine(n), r \in ResponseLens :
        IF ends
        THEN /\ owed' = owed \o <<echo, Response(tx, r)>>
             /\ devLine' = IF sendPos + n = CmdLen[tx] THEN Nothing ELSE Garbled
        ELSE /\ devLine' = IF inStep THEN Prefix(tx, sendPos + n) ELSE Garbled
             /\ UNCHANGED owed

\* A packet reaches the device.  One with the wrong data toggle counts as a
\* repetition: it is acknowledged and thrown away.
Deliver(n) ==
  IF hostToggle = devToggle
  THEN DeviceTakes(n) /\ devToggle' = 1 - devToggle
  ELSE UNCHANGED <<devToggle, device>>

\* Mutant: the toggle stays the same after a full packet.
ChunkSentMutant ==
  /\ pc = "chunk" /\ configured /\ length > 0
  /\ Deliver(ChunkLen)
  /\ hostToggle' = IF ChunkLen = PacketSize THEN hostToggle ELSE 1 - hostToggle
  /\ AfterSend(ChunkLen)
  /\ UNCHANGED timeouts

\* USBVCH_SendData, transfer completed in time.
ChunkSent ==
  /\ pc = "chunk" /\ configured /\ length > 0
  /\ Deliver(ChunkLen)
  /\ hostToggle' = 1 - hostToggle
  /\ AfterSend(ChunkLen)
  /\ UNCHANGED timeouts

\* USBVCH_SendData, no completion seen within XMC_USB_TRANSFER_WAIT_DELAY:
\* an error whether or not the packet arrived.  CDC_Host_SendData advances
\* the toggle all the same, and send_offset keeps its old value.
ChunkTimesOut ==
  /\ pc = "chunk" /\ configured /\ length > 0
  /\ timeouts < MaxTimeouts /\ timeouts' = timeouts + 1
  /\ Deliver(ChunkLen) \/ UNCHANGED <<devToggle, device>>
  /\ hostToggle' = 1 - hostToggle
  /\ AfterSend(sendOffset)

\* USBVCH_SendData fails without touching the pipe, or gives the transfer up
\* because the device is gone; the toggle no longer matters.
ChunkRefused ==
  /\ pc = "chunk"
  /\ ~configured \/ length = 0
  /\ AfterSend(sendOffset)
  /\ UNCHANGED <<hostToggle, devToggle, device, timeouts>>
-----------------------------------------------------------------------------
(***************************************************************************)
(* Receiving.                                                              *)
(***************************************************************************)

\* Mutant: an older line of exactly the command's length counts as a tail.
RecognizedMutant(l) == l.kind = "echo" /\ l.tx = tx /\ dirty < l.len

\* strcmp(send_buffer, RxBuffer) = 0 once line l is in RxBuffer: l is the
\* echo of this command and no older text shows behind it.
Recognized(l) == l.kind = "echo" /\ l.tx = tx /\ dirty <= l.len

\* Mutant: RxBuffer is not cleared before the response is read.
SkipEchoMutant ==
  /\ pc = "receive" /\ configured /\ inbox # <<>>
  /\ Head(inbox).len < RxLimit
  /\ Recognized(Head(inbox))
  /\ inbox' = Tail(inbox)
  /\ dirty' = Larger(dirty, Head(inbox).len)
  /\ UNCHANGED <<pc, tx, length, sendOffset, sendPos, accepted, link, device, history>>

\* receive_response drops the echo of the command and clears RxBuffer.
SkipEcho ==
  /\ pc = "receive" /\ configured /\ inbox # <<>>
  /\ Head(inbox).len < RxLimit
  /\ Recognized(Head(inbox))
  /\ inbox' = Tail(inbox)
  /\ dirty' = 0
  /\ UNCHANGED <<pc, tx, length, sendOffset, sendPos, accepted, link, device, history>>

\* receive_response ends with text l.
Respond(l) ==
  /\ accepted' = l
  /\ dirty' = Larger(dirty, l.len)
  /\ pc' = "parse"

\* Mutant: whatever else is in the ring is flushed with the response.
TakeLineMutant ==
  /\ pc = "receive" /\ configured /\ inbox # <<>>
  /\ Head(inbox).len < RxLimit
  /\ ~Recognized(Head(inbox))
  /\ inbox' = <<>>
  /\ Respond(Head(inbox))
  /\ UNCHANGED <<tx, length, sendOffset, sendPos, link, device, history>>

\* receive_response takes any other line as the response.
TakeLine ==
  /\ pc = "receive" /\ configured /\ inbox # <<>>
  /\ Head(inbox).len < RxLimit
  /\ ~Recognized(Head(inbox))
  /\ inbox' = Tail(inbox)
  /\ Respond(Head(inbox))
  /\ UNCHANGED <<tx, length, sendOffset, sendPos, link, device, history>>

\* RxBuffer is full before the line ends: what was read counts as the
\* response and the rest stays in the ring (a mere CR LF would be skipped).
TakeFullBuffer ==
  /\ pc = "receive" /\ configured /\ inbox # <<>>
  /\ LET l == Head(inbox) IN
       /\ l.len >= RxLimit
       /\ accepted' = [l EXCEPT !.len = RxLimit]
       /\ inbox' = IF l.len > RxLimit + 2
                   THEN <<[l EXCEPT !.kind = "rest", !.len = l.len - RxLimit]>>
                        \o Tail(inbox)
                   ELSE Tail(inbox)
  /\ dirty' = RxLimit
  /\ pc' = "parse"
  /\ UNCHANGED <<tx, length, sendOffset, sendPos, link, device, history>>

\* While old bytes stand before the lines of this connection, are merged with
\* them or have been overrun by them, receive_response can end with any text up
\* to RxLimit bytes, and lines can be lost.
ReadStale ==
  /\ torn /\ pc = "receive" /\ configured
  /\ \E lost \in 0 .. Len(inbox) : inbox' = SubSeq(inbox, lost + 1, Len(inbox))
  /\ \/ \E text \in Stale : Respond(text)
     \/ UNCHANGED <<pc, dirty, accepted>>
  /\ UNCHANGED <<tx, length, sendOffset, sendPos, link, device, history>>

\* provide_values parses recv_command and returns.  parse_response hands a
\* negative jsmn error on as a huge uint16_t, which the uint8_t loop counter
\* never reaches: on text that is not JSON the program stays in the loop.
Parse ==
  /\ pc = "parse"
  /\ pc' \in IF accepted.kind \in {"echo", "response"} /\ accepted.len < RxLimit
             THEN {"idle"} ELSE {"idle", "looping"}
  /\ UNCHANGED <<tx, length, sendOffset, sendPos, dirty, accepted, link,
                 device, inbox, history>>
-----------------------------------------------------------------------------
(***************************************************************************)
(* The device and the port.                                                *)
(***************************************************************************)

\* The next line of the device arrives in the ring.
DeviceSends ==
  /\ configured
  /\ owed # <<>>
  /\ TotalLen(inbox) + Head(owed).len <= RingCapacity
  /\ inbox' = Append(inbox, Head(owed))
  /\ owed' = Tail(owed)
  /\ UNCHANGED <<program, link, devLine, history>>

Connect ==
  /\ ~attached
  /\ attached' = TRUE
  /\ UNCHANGED <<program, configured, hostToggle, devToggle, device, inbox, history>>

\* Mutant: the ring indices are not reset.
DisconnectMutant ==
  /\ attached
  /\ attached' = FALSE
  /\ configured' = FALSE
  /\ owed' = <<>> /\ devLine' = Nothing
  /\ torn' = (torn /\ pc = "parse")
  /\ UNCHANGED <<program, hostToggle, devToggle, inbox, lag, timeouts>>

\* The disconnect interrupt, at any point of the main program but inside the
\* reader's load and store of prev_index: the host state and the ring indices
\* are reset, and the device forgets everything.  The ring is clean from then
\* on; a text already taken out of it is not.
Disconnect ==
  /\ attached
  /\ attached' = FALSE
  /\ configured' = FALSE
  /\ inbox' = <<>> /\ owed' = <<>> /\ devLine' = Nothing
  /\ torn' = (torn /\ pc = "parse")
  /\ UNCHANGED <<program, hostToggle, devToggle, lag, timeouts>>

\* The disconnect interrupt between the check in CDC_Host_ReceiveByte that found
\* a byte and the store of prev_index: the reset of that index is undone.  The
\* byte in hand, which the device sent or which happens to be in slot 0, may end
\* the response; if it does not, the program waits for ever, as after Disconnect.
TornDisconnect ==
  /\ pc = "receive" /\ configured /\ attached
  /\ inbox # <<>> \/ torn
  /\ attached' = FALSE
  /\ configured' = FALSE
  /\ inbox' = <<>> /\ owed' = <<>> /\ devLine' = Nothing
  /\ torn' = TRUE
  /\ \/ \E text \in Stale : Respond(text)
     \/ /\ inbox # <<>> /\ Head(inbox).len < RxLimit
        /\ ~Recognized(Head(inbox))
        /\ Respond(Head(inbox))
     \/ UNCHANGED <<pc, dirty, accepted>>
  /\ UNCHANGED <<tx, length, sendOffset, sendPos, hostToggle, devToggle, lag, timeouts>>

\* USBVCH_Process and USB_USBTask enumerate the device; only the main loop
\* calls them.  Both ends start with DATA0.
Enumerate ==
  /\ pc = "idle"
  /\ attached /\ ~configured
  /\ configured' = TRUE
  /\ hostToggle' = 0 /\ devToggle' = 0
  /\ timeouts' = 0
  /\ UNCHANGED <<program, attached, device, inbox, torn, lag>>
-----------------------------------------------------------------------------
Receive == SkipEcho \/ TakeLine \/ TakeFullBuffer

\* The steps of a connection that works.
Undisturbed ==
  \/ Enumerate \/ Poll \/ Begin \/ ChunkSent \/ ChunkRefused
  \/ Receive \/ Parse \/ DeviceSends \/ Connect

\* The same, with the plug pulled and put back at any moment but inside the
\* reader's load and store of prev_index.
Replugged == Undisturbed \/ Disconnect

Next == Replugged \/ ChunkTimesOut \/ TornDisconnect \/ ReadStale

Spec == Init /\ [][Next]_vars

\* The main program always makes its next step, the device always answers
\* and is plugged in again.
Fairness ==
  /\ WF_vars(Enumerate) /\ WF_vars(Poll) /\ WF_vars(Begin)
  /\ WF_vars(ChunkSent) /\ WF_vars(ChunkRefused)
  /\ WF_vars(Receive) /\ WF_vars(Parse) /\ WF_vars(DeviceSends)
  /\ WF_vars(Connect)

\* Executions in which every transfer completes in time and no disconnect falls
\* between the reader's load and store of prev_index (as in VcomRing!QuietSpec).
PlugSpec == Init /\ [][Replugged]_vars /\ Fairness
-----------------------------------------------------------------------------
(***************************************************************************)
(* Properties.                                                             *)
(***************************************************************************)

\* Every variable keeps its type: length stays a uint8_t, send_offset never
\* exceeds a packet, send_buffer_ptr is only followed inside send_buffer.
TypeOK ==
  /\ pc \in {"idle", "due", "chunk", "receive", "parse", "looping"}
  /\ tx \in Tx
  /\ length \in 0 .. LengthRange - 1
  /\ sendOffset \in 0 .. PacketSize
  /\ sendPos \in 0 .. BufferSize
  /\ dirty \in Nat
  /\ accepted \in Line \cup {NoLine}
  /\ attached \in BOOLEAN /\ configured \in BOOLEAN
  /\ hostToggle \in {0, 1} /\ devToggle \in {0, 1}
  /\ devLine \in [kind : {"nothing", "garbled", "prefix"}, tx : Tx, len : Nat]
  /\ owed \in Seq(Line) /\ inbox \in Seq(Line)
  /\ torn \in BOOLEAN /\ lag \in Nat /\ timeouts \in 0 .. MaxTimeouts

\* What receive_response hands to the parser is the SSM's answer to the very
\* command provide_values sent, neither its echo nor an older answer, as long as
\* PlugSpec holds: transfers complete and no disconnect tears the ring's reset.
AnswersOwnCommand ==
  pc = "parse" => accepted.kind = "response" /\ accepted.tx = tx

\* When provide_values is over nothing of the exchange is left behind, in the
\* ring or in the device; so at most one echo and one answer are ever unread.
NothingLeftOver ==
  /\ pc \in {"idle", "due"} => Backlog = <<>> /\ devLine = Nothing
  /\ Len(Backlog) <= 2

\* Why AnswersOwnCommand holds under PlugSpec while no answer is longer than a
\* command: what is unread or half sent is at every point exactly what
\* the place in provide_values says, and RxBuffer never holds a longer text
\* than the echo about to come.
InStep ==
  /\ \A t \in Tx : dirty <= CmdLen[t]
  /\ pc # "looping"
  /\ hostToggle = devToggle
  /\ ~configured => Backlog = <<>> /\ devLine = Nothing
  /\ pc \in {"idle", "due", "parse"} => Backlog = <<>> /\ devLine = Nothing
  /\ pc = "chunk" /\ configured =>
       /\ Backlog = <<>>
       /\ length > 0 /\ sendPos + length = CmdLen[tx]
       /\ devLine = IF sendPos = 0 THEN Nothing ELSE Prefix(tx, sendPos)
  /\ pc = "receive" /\ configured =>
       /\ devLine = Nothing
       /\ \E r \in ResponseLens : Backlog \in {<<Echo(tx), Response(tx, r)>>,
                                             <<Response(tx, r)>>}
  /\ pc = "parse" => \E r \in ResponseLens : accepted = Response(tx, r)

\* "send_offset returns the sum of bytes which where send" (chunk loop of
\* provide_values): the bytes counted as sent are the bytes the SSM took.
CountedIsSent == pc = "chunk" /\ configured /\ sendPos > 0 => devLine = Prefix(tx, sendPos)

\* CountedIsSent as long as no transfer times out, whatever was left unread before.
\* After a timeout the offset of the packet before is counted once more.
SentIsTaken == timeouts = 0 => CountedIsSent

\* A command that starts while lines are unread in the ring never gets its own
\* answer: receive_response does not flush the ring, so from the first line
\* too many on every answer is attributed to a later reading.  (Old bytes in the
\* ring could push the late lines out of it.)
LateStaysLate ==
  pc = "parse" /\ lag > 0 /\ ~torn => accepted.tx # tx

\* As long as no transfer fails the delay only grows, by at least one line per
\* reading: of the echo and the answer only one is consumed, as an echo that
\* comes late no longer matches.
LagGrows ==
  pc = "parse" /\ lag > 0 /\ timeouts = 0 /\ ~torn /\ configured => Len(Backlog) > lag

\* Under PlugSpec provide_values returns unless the device is unplugged.
Returns == pc = "chunk" ~> (pc = "idle" \/ ~configured)

\* Readings go on being sent ("Then the RelaxKit will provide values", the
\* README on connecting the SSM) once the SSM stays plugged in.
KeepsProviding == <>[]attached => []<>(pc = "chunk")

\* What a line says, whatever its length.
Said(line) == [kind |-> line.kind, tx |-> line.tx]
CallStep ==
  CASE pc = "chunk" -> "sending" [] pc = "receive" -> "waiting"
    [] pc = "parse" -> "answered" [] OTHER -> "free"
Speech == IF Backlog = <<>> THEN Said(NoLine) ELSE Said(Backlog[1])
Reply  == IF pc = "parse" THEN Said(accepted) ELSE Said(NoLine)

\* Packets, toggles, eight-bit lengths, the ring and RxBuffer do not show: under
\* PlugSpec, however often the plug is pulled outside the torn moment, the exchange
\* is the dialogue the main loop expects, and each call gets on as the dialogue does.
Talk == INSTANCE Dialogue WITH
  step <- CallStep, number <- tx, linked <- configured, speech <- Speech, reply <- Reply
TalkSpec == Talk!Spec
=============================================================================

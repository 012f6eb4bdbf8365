-------------------------- MODULE SsmExchangeProofs --------------------------
(***************************************************************************)
(* Machine-checked theorems about SsmExchange, for every length of command *)
(* and answer, every packet and buffer size and every number of            *)
(* transactions.                                                           *)
(***************************************************************************)
EXTENDS SsmExchange, SequenceTheorems, TLAPS

\* A transaction number is a natural number, and the next one is valid too.
LEMMA TxFacts ==
  /\ 0 \in Tx
  /\ \A t \in Tx : (t + 1) % TxLimit \in Tx /\ CmdLen[t] \in Nat \ {0}
  BY ExchangeAssumption DEF Tx

\* The lines the device produces are lines.
LEMMA LineFacts ==
  ASSUME NEW t \in Tx, NEW r \in ResponseLens
  PROVE  /\ Echo(t) \in Line
         /\ [Echo(t) EXCEPT !.kind = "garbled"] \in Line
         /\ Response(t, r) \in Line
  BY TxFacts, ExchangeAssumption DEF Echo, Response, Line

\* The uint8_t length keeps its width, send_offset and the pointer their range.
LEMMA AfterSendType ==
  ASSUME TypeOK, NEW offset \in 0 .. PacketSize, AfterSend(offset)
  PROVE  /\ pc' \in {"idle", "chunk", "receive"}
         /\ length' \in 0 .. LengthRange - 1
         /\ sendOffset' \in 0 .. PacketSize
         /\ sendPos' \in 0 .. BufferSize
         /\ UNCHANGED <<tx, dirty, accepted, attached, configured, inbox, torn, lag>>
<1>1. length + LengthRange - offset \in Nat
  BY ExchangeAssumption DEF TypeOK
<1>2. length' \in 0 .. LengthRange - 1
  BY <1>1, ExchangeAssumption DEF AfterSend
<1>3. sendPos' \in 0 .. BufferSize
  <2>1. /\ sendPos \in 0 .. BufferSize /\ BufferSize \in Nat /\ offset \in Nat
        /\ sendPos' = Smaller(sendPos + offset, BufferSize)
    BY ExchangeAssumption DEF AfterSend, TypeOK
  <2>2. QED BY <2>1 DEF Smaller
<1>4. QED BY <1>2, <1>3 DEF AfterSend

\* Whatever part of a packet the device takes, its state keeps its type.
LEMMA DeliverType ==
  ASSUME TypeOK, NEW n \in Nat, Deliver(n)
  PROVE  /\ devToggle' \in {0, 1}
         /\ devLine' \in [kind : {"nothing", "garbled", "prefix"}, tx : Tx, len : Nat]
         /\ owed' \in Seq(Line)
<1>1. CASE hostToggle = devToggle
  <2> DEFINE inStep == (IF sendPos = 0 /\ devLine = Nothing THEN Prefix(tx, 0)
                        ELSE devLine) = Prefix(tx, sendPos)
             whole == inStep /\ sendPos + n = CmdLen[tx]
             echo  == IF whole THEN Echo(tx) ELSE [Echo(tx) EXCEPT !.kind = "garbled"]
  <2>1. DeviceTakes(n) /\ devToggle' = 1 - devToggle
    BY <1>1 DEF Deliver
  <2>2. PICK ends \in EndsLine(n), r \in ResponseLens :
          IF ends
          THEN /\ owed' = owed \o <<echo, Response(tx, r)>>
               /\ devLine' = IF sendPos + n = CmdLen[tx] THEN Nothing ELSE Garbled
          ELSE /\ devLine' = IF inStep THEN Prefix(tx, sendPos + n) ELSE Garbled
               /\ UNCHANGED owed
    BY <2>1, Zenon DEF DeviceTakes
  <2>3. tx \in Tx /\ sendPos + n \in Nat /\ owed \in Seq(Line)
    BY ExchangeAssumption DEF TypeOK
  <2>4. echo \in Line /\ Response(tx, r) \in Line
    BY <2>3, LineFacts
  <2> HIDE DEF echo, inStep
  <2>5. owed \o <<echo, Response(tx, r)>> \in Seq(Line)
    BY <2>3, <2>4
  <2>6. {Nothing, Garbled, Prefix(tx, sendPos + n)}
          \subseteq [kind : {"nothing", "garbled", "prefix"}, tx : Tx, len : Nat]
    BY <2>3, TxFacts DEF Nothing, Garbled, Prefix
  <2>7. owed' \in Seq(Line)
    <3>1. owed' \in {owed \o <<echo, Response(tx, r)>>, owed}
      BY <2>2, Zenon
    <3>2. QED BY <3>1, <2>3, <2>5
  <2>8. devLine' \in {Nothing, Garbled, Prefix(tx, sendPos + n)}
    BY <2>2, Zenon
  <2>9. devToggle' \in {0, 1}
    BY <2>1 DEF TypeOK
  <2>10. QED BY <2>6, <2>7, <2>8, <2>9
<1>2. CASE hostToggle # devToggle
  BY <1>2 DEF Deliver, TypeOK, device
<1>3. QED BY <1>1, <1>2

\* Old text taken for a response is a line, no longer than RxBuffer.
LEMMA StaleResponds ==
  ASSUME TypeOK, NEW text \in Stale, Respond(text)
  PROVE  accepted' \in Line /\ dirty' \in Nat /\ pc' = "parse"
<1>1. text \in Line
  BY TxFacts, ExchangeAssumption DEF Stale, Line
<1>2. text.len \in Nat
  BY <1>1 DEF Line
<1>3. QED BY <1>1, <1>2 DEF Respond, Larger, TypeOK

\* The lines that are not lost are lines.
LEMMA InboxLoses ==
  ASSUME TypeOK, ReadStale
  PROVE  inbox' \in Seq(Line)
<1>1. PICK lost \in 0 .. Len(inbox) : inbox' = SubSeq(inbox, lost + 1, Len(inbox))
  BY DEF ReadStale
<1>2. inbox \in Seq(Line) /\ Len(inbox) \in Nat
  BY LenProperties DEF TypeOK
<1>3. \A i \in lost + 1 .. Len(inbox) : i \in 1 .. Len(inbox) /\ inbox[i] \in Line
  BY <1>2, ElementOfSeq
<1>4. QED BY <1>1, <1>2, <1>3, SubSeqProperties

\* TypeOK of SsmExchange, in every execution, with time-outs, replugging and torn resets.
THEOREM TypeCorrect == Spec => []TypeOK
<1>1. Init => TypeOK
  <2> SUFFICES ASSUME Init PROVE TypeOK
    OBVIOUS
  <2>1. <<>> \in Seq(Line)
    BY EmptySeq
  <2>2. /\ 0 \in 0 .. LengthRange - 1 /\ 0 \in 0 .. PacketSize
        /\ 0 \in 0 .. BufferSize /\ 0 \in 0 .. MaxTimeouts
    BY ExchangeAssumption
  <2>3. Nothing \in [kind : {"nothing", "garbled", "prefix"}, tx : Tx, len : Nat]
    BY TxFacts DEF Nothing
  <2>4. QED BY <2>1, <2>2, <2>3, TxFacts DEF Init, TypeOK
<1>2. TypeOK /\ [Next]_vars => TypeOK'
  <2> SUFFICES ASSUME TypeOK, [Next]_vars PROVE TypeOK'
    OBVIOUS
  <2>1. CASE Poll
    BY <2>1 DEF Poll, TypeOK, link, device, history
  <2>2. CASE Begin
    <3>1. tx' \in Tx /\ CmdLen[tx'] \in Nat
      BY <2>2, TxFacts DEF Begin, TypeOK
    <3>2. length' \in 0 .. LengthRange - 1
      BY <2>2, <3>1, ExchangeAssumption, SMTT(30) DEF Begin
    <3>3. lag' \in Nat
      BY <2>2, ConcatProperties, LenProperties DEF Begin, Backlog, TypeOK
    <3>4. 0 \in 0 .. PacketSize /\ 0 \in 0 .. BufferSize
      BY ExchangeAssumption
    <3>5. QED BY <2>2, <3>1, <3>2, <3>3, <3>4 DEF Begin, TypeOK, link, device
  <2>3. ChunkLen \in 0 .. PacketSize /\ ChunkLen \in Nat /\ sendOffset \in 0 .. PacketSize
    BY ExchangeAssumption DEF ChunkLen, Smaller, TypeOK
  <2>4. CASE ChunkSent
    <3>1. /\ devToggle' \in {0, 1}
          /\ devLine' \in [kind : {"nothing", "garbled", "prefix"}, tx : Tx, len : Nat]
          /\ owed' \in Seq(Line)
      BY <2>4, <2>3, DeliverType DEF ChunkSent
    <3>2. timeouts' = timeouts /\ hostToggle' \in {0, 1}
      BY <2>4 DEF ChunkSent, TypeOK
    <3>3. AfterSend(ChunkLen)
      BY <2>4 DEF ChunkSent
    <3>4. QED BY <2>3, <3>1, <3>2, <3>3, AfterSendType DEF TypeOK
  <2>5. CASE ChunkTimesOut
    <3>1. /\ devToggle' \in {0, 1}
          /\ devLine' \in [kind : {"nothing", "garbled", "prefix"}, tx : Tx, len : Nat]
          /\ owed' \in Seq(Line)
      BY <2>5, <2>3, DeliverType DEF ChunkTimesOut, TypeOK, device
    <3>2. timeouts' \in 0 .. MaxTimeouts /\ hostToggle' \in {0, 1}
      BY <2>5, ExchangeAssumption, SMTT(30) DEF ChunkTimesOut, TypeOK
    <3>3. AfterSend(sendOffset)
      BY <2>5 DEF ChunkTimesOut
    <3>4. QED BY <2>3, <3>1, <3>2, <3>3, AfterSendType DEF TypeOK
  <2>6. CASE ChunkRefused
    BY <2>6, <2>3, AfterSendType DEF ChunkRefused, TypeOK, device
  <2>7. CASE SkipEcho
    BY <2>7, HeadTailProperties DEF SkipEcho, TypeOK, link, device, history
  <2>8. CASE TakeLine
    <3>1. Head(inbox) \in Line /\ Tail(inbox) \in Seq(Line)
      BY <2>8, HeadTailProperties DEF TakeLine, Respond, TypeOK
    <3>2. Larger(dirty, Head(inbox).len) \in Nat
      BY <3>1 DEF Larger, TypeOK, Line
    <3>3. QED BY <2>8, <3>1, <3>2 DEF TakeLine, Respond, TypeOK, link, device, history
  <2>9. CASE TakeFullBuffer
    <3> DEFINE l == Head(inbox)
               rest == [l EXCEPT !.kind = "rest", !.len = l.len - RxLimit]
    <3>1. l \in Line /\ Tail(inbox) \in Seq(Line)
      BY <2>9, HeadTailProperties DEF TakeFullBuffer, TypeOK
    <3>2. RxLimit \in Nat /\ l.len >= RxLimit /\ l.len \in Nat
      BY <2>9, <3>1, ExchangeAssumption DEF TakeFullBuffer, Line
    <3>3. [l EXCEPT !.len = RxLimit] \in Line /\ rest \in Line
      <4>1. l.len - RxLimit \in Nat
        BY <3>2
      <4>2. [l EXCEPT !.len = RxLimit] \in Line
        BY <3>1, <3>2 DEF Line
      <4>3. \A m \in Line, k \in Nat :
              [m EXCEPT !.kind = "rest", !.len = k] \in Line
        BY DEF Line
      <4>4. QED BY <3>1, <4>1, <4>2, <4>3
    <3>4. /\ accepted' = [l EXCEPT !.len = RxLimit]
          /\ inbox' = IF l.len > RxLimit + 2 THEN <<rest>> \o Tail(inbox) ELSE Tail(inbox)
          /\ dirty' = RxLimit /\ pc' = "parse"
      BY <2>9 DEF TakeFullBuffer
    <3> HIDE DEF rest
    <3>5. <<rest>> \o Tail(inbox) \in Seq(Line)
      BY <3>1, <3>3
    <3>6. QED BY <2>9, <3>1, <3>2, <3>3, <3>4, <3>5
              DEF TakeFullBuffer, TypeOK, link, device, history
  <2>10. CASE Parse
    BY <2>10 DEF Parse, TypeOK, link, device, history
  <2>11. CASE DeviceSends
    <3>1. Head(owed) \in Line /\ Tail(owed) \in Seq(Line)
      BY <2>11, HeadTailProperties DEF DeviceSends, TypeOK
    <3>2. Append(inbox, Head(owed)) \in Seq(Line)
      BY <3>1, AppendProperties DEF TypeOK
    <3>3. QED BY <2>11, <3>1, <3>2 DEF DeviceSends, TypeOK, program, link, history
  <2>12. CASE Connect
    BY <2>12 DEF Connect, TypeOK, program, device, history
  <2>13. CASE Disconnect
    BY <2>13, TxFacts, EmptySeq DEF Disconnect, TypeOK, program, history, Nothing
  <2>14. CASE Enumerate
    BY <2>14, ExchangeAssumption DEF Enumerate, TypeOK, program, device
  <2>15. CASE TornDisconnect
    <3>1. \/ /\ accepted' \in Line /\ dirty' \in Nat /\ pc' = "parse"
          \/ UNCHANGED <<pc, dirty, accepted>>
      <4>1. CASE \E text \in Stale : Respond(text)
        BY <4>1, StaleResponds
      <4>2. CASE inbox # <<>> /\ Respond(Head(inbox))
        <5>1. Head(inbox) \in Line
          BY <4>2, HeadTailProperties DEF TypeOK
        <5>2. QED BY <4>2, <5>1 DEF Respond, Larger, TypeOK, Line
      <4>3. QED BY <2>15, <4>1, <4>2 DEF TornDisconnect
    <3>2. QED BY <2>15, <3>1, TxFacts, EmptySeq DEF TornDisconnect, TypeOK, Nothing
  <2>16. CASE ReadStale
    <3>1. \/ /\ accepted' \in Line /\ dirty' \in Nat /\ pc' = "parse"
          \/ UNCHANGED <<pc, dirty, accepted>>
      BY <2>16, StaleResponds DEF ReadStale
    <3>2. inbox' \in Seq(Line)
      BY <2>16, InboxLoses
    <3>3. QED BY <2>16, <3>1, <3>2 DEF ReadStale, TypeOK, link, device, history
  <2>17. CASE UNCHANGED vars
    BY <2>17 DEF vars, TypeOK
  <2>18. QED
    BY <2>1, <2>2, <2>4, <2>5, <2>6, <2>7, <2>8, <2>9, <2>10, <2>11, <2>12,
       <2>13, <2>14, <2>15, <2>16, <2>17
    DEF Next, Replugged, Undisturbed, Receive
<1>3. QED BY <1>1, <1>2, PTL DEF Spec
-----------------------------------------------------------------------------
(***************************************************************************)
(* The answer belongs to the command, as long as transfers complete.       *)
(***************************************************************************)

\* A command fits into send_buffer and RxBuffer and its length into a uint8_t.
CommandsFit ==
  \A t \in Tx : CmdLen[t] < LengthRange /\ CmdLen[t] <= BufferSize /\ CmdLen[t] < RxLimit

\* Moreover no answer is longer than any command.
ResponsesFit == CommandsFit /\ \A t \in Tx : \A r \in ResponseLens : r <= CmdLen[t]

\* Moving the oldest owed line into the ring does not change what is unread.
LEMMA MoveLine ==
  ASSUME NEW S, NEW a \in Seq(S), NEW b \in Seq(S), b # <<>>
  PROVE  Append(a, Head(b)) \o Tail(b) = a \o b
<1>1. Head(b) \in S /\ Tail(b) \in Seq(S) /\ <<Head(b)>> \in Seq(S)
  BY HeadTailProperties
<1>2. <<Head(b)>> \o Tail(b) = b
  <2>1. Len(b) \in Nat \ {0} /\ Len(Tail(b)) = Len(b) - 1
    BY EmptySeq, HeadTailProperties
  <2>2. <<Head(b)>> \o Tail(b) \in Seq(S) /\ Len(<<Head(b)>> \o Tail(b)) = Len(b)
    BY <1>1, <2>1, ConcatProperties
  <2>3. \A i \in 1 .. Len(b) : (<<Head(b)>> \o Tail(b))[i] = b[i]
    BY <1>1, <2>1, ConcatProperties, HeadTailProperties
  <2>4. QED BY <2>2, <2>3, SeqEqual
<1>3. Append(a, Head(b)) = a \o <<Head(b)>>
  BY <1>1, AppendIsConcat
<1>4. QED BY <1>1, <1>2, <1>3, ConcatAssociative

\* The first unread line is the first line of the ring, unless that is empty.
LEMMA TakeFirst ==
  ASSUME NEW S, NEW a \in Seq(S), NEW b \in Seq(S), a # <<>>
  PROVE  /\ a \o b # <<>>
         /\ Head(a \o b) = Head(a)
         /\ Tail(a \o b) = Tail(a) \o b
<1>1. Head(a) \in S /\ Tail(a) \in Seq(S) /\ Len(Tail(a)) = Len(a) - 1
      /\ Len(a) \in Nat \ {0} /\ Len(b) \in Nat
  BY HeadTailProperties, EmptySeq, LenProperties
<1>2. a \o b \in Seq(S) /\ Len(a \o b) = Len(a) + Len(b)
      /\ \A i \in 1 .. Len(a) + Len(b) :
           (a \o b)[i] = IF i <= Len(a) THEN a[i] ELSE b[i - Len(a)]
  BY ConcatProperties
<1>3. a \o b # <<>>
  BY <1>1, <1>2
<1>4. Head(a \o b) = Head(a)
  BY <1>1, <1>2, <1>3
<1>5. Tail(a \o b) \in Seq(S) /\ Len(Tail(a \o b)) = Len(a) + Len(b) - 1
      /\ \A i \in 1 .. Len(Tail(a \o b)) : Tail(a \o b)[i] = (a \o b)[i + 1]
  BY <1>2, <1>3, HeadTailProperties
<1>6. Tail(a) \o b \in Seq(S) /\ Len(Tail(a) \o b) = Len(a) + Len(b) - 1
      /\ \A i \in 1 .. Len(a) + Len(b) - 1 :
           (Tail(a) \o b)[i] = IF i <= Len(a) - 1 THEN Tail(a)[i] ELSE b[i - (Len(a) - 1)]
  BY <1>1, ConcatProperties
<1>7. \A i \in 1 .. Len(a) + Len(b) - 1 : Tail(a \o b)[i] = (Tail(a) \o b)[i]
  BY <1>1, <1>2, <1>5, <1>6, HeadTailProperties
<1>8. Tail(a \o b) = Tail(a) \o b
  BY <1>5, <1>6, <1>7, SeqEqual
<1>9. QED BY <1>3, <1>4, <1>8

\* Subtracting what was sent from the uint8_t length does not wrap.
LEMMA LengthSubtract ==
  ASSUME NEW k \in 0 .. LengthRange - 1, NEW n \in 0 .. k
  PROVE  (k + LengthRange - n) % LengthRange = k - n
<1>1. k - n \in 0 .. LengthRange - 1 /\ LengthRange \in Nat \ {0}
  BY ExchangeAssumption
<1>2. k + LengthRange - n = (k - n) + LengthRange
  BY ExchangeAssumption
<1>3. \A j \in 0 .. LengthRange - 1 : (j + LengthRange) % LengthRange = j
  BY <1>1
<1>4. QED BY <1>1, <1>2, <1>3

\* While host and device agree on the data toggle and on the bytes sent so far,
\* a transfer that completes keeps them in agreement; the last one of a command
\* makes the device owe the echo and an answer.
LEMMA ChunkTaken ==
  ASSUME CommandsFit, TypeOK, ChunkSent, hostToggle = devToggle,
         sendPos + length = CmdLen[tx],
         devLine = IF sendPos = 0 THEN Nothing ELSE Prefix(tx, sendPos)
  PROVE  /\ UNCHANGED <<tx, dirty, accepted, configured, inbox, lag, timeouts>>
         /\ hostToggle' = devToggle'
         /\ \/ /\ pc' = "receive" /\ devLine' = Nothing
               /\ \E r \in ResponseLens :
                    owed' = owed \o <<Echo(tx), Response(tx, r)>>
            \/ /\ pc' = "chunk" /\ length' > 0 /\ sendPos' > 0
               /\ sendPos' + length' = CmdLen[tx]
               /\ devLine' = Prefix(tx, sendPos') /\ owed' = owed
<1> DEFINE n == ChunkLen
<1>1. length > 0
  BY DEF ChunkSent
<1>2. /\ tx \in Tx /\ length \in 0 .. LengthRange - 1 /\ sendPos \in Nat
      /\ CmdLen[tx] \in Nat /\ CmdLen[tx] <= BufferSize /\ BufferSize \in Nat
  <2>1. tx \in Tx /\ length \in 0 .. LengthRange - 1 /\ sendPos \in 0 .. BufferSize
    BY DEF TypeOK
  <2>2. BufferSize \in Nat
    BY ExchangeAssumption
  <2>3. CmdLen[tx] \in Nat /\ CmdLen[tx] <= BufferSize
    BY <2>1, TxFacts DEF CommandsFit
  <2> QED BY <2>1, <2>2, <2>3
<1>3. n \in 1 .. length /\ n \in Nat /\ sendPos + n <= CmdLen[tx]
      /\ (sendPos + n = CmdLen[tx] <=> n = length)
  <2>1. n \in 1 .. length
    BY <1>1, <1>2, ExchangeAssumption DEF ChunkLen, Smaller
  <2> HIDE DEF n
  <2>2. QED BY <1>1, <1>2, <2>1
<1> HIDE DEF n
<1>4. /\ UNCHANGED <<tx, dirty, accepted, configured, inbox, lag, timeouts>>
      /\ length' = length - n
      /\ sendPos' = sendPos + n
      /\ pc' = IF length' = 0 THEN "receive" ELSE "chunk"
      /\ hostToggle' = 1 - hostToggle
  <2>1. AfterSend(n) /\ hostToggle' = 1 - hostToggle /\ timeouts' = timeouts
    BY DEF ChunkSent, n
  <2>2. (length + LengthRange - n) % LengthRange = length - n
    BY <1>2, <1>3, LengthSubtract
  <2>3. Smaller(sendPos + n, BufferSize) = sendPos + n
    BY <1>2, <1>3 DEF Smaller
  <2>4. n # 0
    BY <1>3
  <2>5. QED BY <2>1, <2>2, <2>3, <2>4 DEF AfterSend
<1>5. DeviceTakes(n) /\ devToggle' = 1 - devToggle
  BY DEF ChunkSent, Deliver, n
<1>6. (IF sendPos = 0 /\ devLine = Nothing THEN Prefix(tx, 0) ELSE devLine)
        = Prefix(tx, sendPos)
  OBVIOUS
<1>7. EndsLine(n) = {n = length}
  <2>1. ~(sendPos + n > BufferSize)
    BY <1>2, <1>3
  <2>2. (sendPos < CmdLen[tx] /\ CmdLen[tx] <= sendPos + n) <=> n = length
    BY <1>1, <1>2, <1>3
  <2>3. QED BY <2>1, <2>2 DEF EndsLine
<1>8. PICK r \in ResponseLens :
        IF n = length
        THEN owed' = owed \o <<Echo(tx), Response(tx, r)>> /\ devLine' = Nothing
        ELSE owed' = owed /\ devLine' = Prefix(tx, sendPos + n)
  BY <1>3, <1>5, <1>6, <1>7, Zenon DEF DeviceTakes
<1>9. hostToggle' = devToggle'
  BY <1>4, <1>5
<1>10. CASE n = length
  <2>1. pc' = "receive"
    BY <1>2, <1>4, <1>10
  <2>2. QED BY <1>4, <1>8, <1>9, <1>10, <2>1
<1>11. CASE n # length
  <2>1. /\ pc' = "chunk" /\ length' > 0 /\ sendPos' > 0
        /\ sendPos' + length' = CmdLen[tx]
    BY <1>2, <1>3, <1>4, <1>11
  <2>2. QED BY <1>4, <1>8, <1>9, <1>11, <2>1
<1>12. QED BY <1>10, <1>11

\* A transfer that completes keeps the device and the loop in step; the last
\* one leaves exactly the echo and the answer to come.
LEMMA ChunkStep ==
  ASSUME ResponsesFit, TypeOK, InStep, ChunkSent
  PROVE  InStep'
<1>1. /\ configured /\ Backlog = <<>>
      /\ hostToggle = devToggle /\ sendPos + length = CmdLen[tx]
      /\ devLine = IF sendPos = 0 THEN Nothing ELSE Prefix(tx, sendPos)
  BY DEF ChunkSent, InStep
<1>2. tx \in Tx /\ inbox = <<>> /\ owed = <<>>
  BY <1>1, ConcatEqualIffEmpty DEF Backlog, TypeOK
<1>3. /\ UNCHANGED <<tx, dirty, accepted, configured, inbox>>
      /\ hostToggle' = devToggle'
  BY <1>1, ChunkTaken DEF ResponsesFit
<1>4. CASE /\ pc' = "receive" /\ devLine' = Nothing
           /\ \E r \in ResponseLens : owed' = owed \o <<Echo(tx), Response(tx, r)>>
  <2>1. PICK r \in ResponseLens : owed' = owed \o <<Echo(tx), Response(tx, r)>>
    BY <1>4
  <2>2. Echo(tx) \in Line /\ Response(tx, r) \in Line
    BY <1>2, LineFacts
  <2>3. Backlog' = <<Echo(tx), Response(tx, r)>>
    BY <1>2, <1>3, <2>1, <2>2, ConcatEmptySeq DEF Backlog
  <2>4. Backlog' \in {<<Echo(tx'), Response(tx', r)>>, <<Response(tx', r)>>}
    BY <1>3, <2>3 DEF Echo, Response
  <2>5. QED BY <1>1, <1>3, <1>4, <2>4 DEF InStep
<1>5. CASE /\ pc' = "chunk" /\ length' > 0 /\ sendPos' > 0
           /\ sendPos' + length' = CmdLen[tx]
           /\ devLine' = Prefix(tx, sendPos') /\ owed' = owed
  <2>1. Backlog' = <<>> /\ devLine' = Prefix(tx', sendPos')
    BY <1>1, <1>3, <1>5 DEF Backlog, Prefix
  <2>2. sendPos' # 0
    BY <1>5
  <2>3. QED BY <1>1, <1>3, <1>5, <2>1, <2>2 DEF InStep
<1>6. QED BY <1>1, <1>4, <1>5, ChunkTaken DEF ResponsesFit

\* While host and device are in step, what receive_response finds first is the
\* echo, which it recognizes, and then the answer.
LEMMA Received ==
  ASSUME ResponsesFit, TypeOK, InStep, Receive
  PROVE  /\ pc = "receive" /\ configured
         /\ UNCHANGED <<tx, configured, hostToggle, devToggle, devLine>>
         /\ \E r \in ResponseLens :
              \/ /\ Backlog = <<Echo(tx), Response(tx, r)>>
                 /\ Backlog' = <<Response(tx, r)>>
                 /\ pc' = pc /\ dirty' = 0
              \/ /\ Backlog = <<Response(tx, r)>> /\ Backlog' = <<>>
                 /\ pc' = "parse" /\ accepted' = Response(tx, r)
                 /\ dirty' = Larger(dirty, r)
<1>1. /\ pc = "receive" /\ configured /\ inbox # <<>>
      /\ UNCHANGED <<tx, configured, hostToggle, devToggle, devLine, owed>>
  BY DEF Receive, SkipEcho, TakeLine, Respond, TakeFullBuffer, link, device
<1>2. PICK r \in ResponseLens :
        Backlog \in {<<Echo(tx), Response(tx, r)>>, <<Response(tx, r)>>}
  BY <1>1 DEF InStep
<1>3. /\ tx \in Tx /\ inbox \in Seq(Line) /\ owed \in Seq(Line)
      /\ dirty \in Nat /\ r \in Nat
      /\ Echo(tx) \in Line /\ Response(tx, r) \in Line
  BY LineFacts, ExchangeAssumption DEF TypeOK
<1>4. Head(inbox) = Head(Backlog) /\ Tail(inbox) \o owed = Tail(Backlog)
  BY <1>1, <1>3, TakeFirst, Zenon DEF Backlog
<1>5. \A t \in Tx : dirty <= CmdLen[t]
  BY DEF InStep
<1>6. CmdLen[tx] < RxLimit /\ RxLimit \in Nat /\ CmdLen[tx] \in Nat
      /\ \A t \in Tx : r <= CmdLen[t] /\ CmdLen[t] \in Nat
  BY <1>3, TxFacts, ExchangeAssumption DEF ResponsesFit, CommandsFit
<1>7. CASE Backlog = <<Echo(tx), Response(tx, r)>>
  <2>1. Head(inbox) = Echo(tx) /\ Tail(inbox) \o owed = <<Response(tx, r)>>
    BY <1>4, <1>7
  <2>2. Head(inbox).len < RxLimit /\ Recognized(Head(inbox))
    BY <1>3, <1>5, <1>6, <2>1 DEF Recognized, Echo
  <2>3. inbox' = Tail(inbox) /\ dirty' = 0 /\ pc' = pc
    BY <1>6, <2>1, <2>2 DEF Receive, SkipEcho, TakeLine, Respond, TakeFullBuffer, Echo
  <2>4. Backlog' = <<Response(tx, r)>>
    BY <1>1, <2>1, <2>3 DEF Backlog
  <2>5. QED BY <1>1, <1>7, <2>3, <2>4
<1>8. CASE Backlog = <<Response(tx, r)>>
  <2>1. Head(inbox) = Response(tx, r) /\ Tail(inbox) \o owed = <<>>
    BY <1>4, <1>8
  <2>2. Head(inbox).len < RxLimit /\ ~Recognized(Head(inbox))
    BY <1>3, <1>6, <2>1 DEF Recognized, Response
  <2>3. /\ inbox' = Tail(inbox) /\ pc' = "parse" /\ accepted' = Response(tx, r)
        /\ dirty' = Larger(dirty, r)
    BY <1>3, <1>6, <2>1, <2>2
    DEF Receive, SkipEcho, TakeLine, Respond, TakeFullBuffer, Response
  <2>4. Backlog' = <<>>
    BY <1>1, <2>1, <2>3 DEF Backlog
  <2>5. QED BY <1>1, <1>8, <2>3, <2>4
<1>9. QED BY <1>2, <1>7, <1>8

\* So receiving keeps them in step.
LEMMA ReceiveStep ==
  ASSUME ResponsesFit, TypeOK, InStep, Receive
  PROVE  InStep'
<1>1. /\ pc = "receive" /\ configured /\ UNCHANGED <<tx, configured>>
      /\ hostToggle' = devToggle' /\ devLine' = Nothing
      /\ \A t \in Tx : dirty <= CmdLen[t]
  BY Received DEF InStep
<1>2. PICK r \in ResponseLens :
        \/ /\ Backlog = <<Echo(tx), Response(tx, r)>>
           /\ Backlog' = <<Response(tx, r)>>
           /\ pc' = pc /\ dirty' = 0
        \/ /\ Backlog = <<Response(tx, r)>> /\ Backlog' = <<>>
           /\ pc' = "parse" /\ accepted' = Response(tx, r)
           /\ dirty' = Larger(dirty, r)
  BY Received
<1>3. /\ dirty \in Nat /\ r \in Nat
      /\ \A t \in Tx : r <= CmdLen[t] /\ CmdLen[t] \in Nat
  BY TxFacts, ExchangeAssumption DEF ResponsesFit, TypeOK
<1>4. \A t \in Tx : dirty' <= CmdLen[t]
  BY <1>1, <1>2, <1>3 DEF Larger
<1>5. CASE pc' = pc
  <2>1. Backlog' = <<Response(tx', r)>>
    BY <1>1, <1>2, <1>5 DEF Response
  <2>2. QED BY <1>1, <1>4, <1>5, <2>1 DEF InStep
<1>6. CASE pc' = "parse"
  <2>1. Backlog' = <<>> /\ accepted' = Response(tx', r)
    BY <1>1, <1>2, <1>6 DEF Response
  <2>2. QED BY <1>1, <1>4, <1>6, <2>1 DEF InStep
<1>7. QED BY <1>2, <1>5, <1>6

\* InStep of SsmExchange holds in every execution of PlugSpec: transfers complete,
\* and the plug is pulled as often as one likes, at any moment but between the
\* reader's load and store of prev_index.
THEOREM InStepCorrect == ResponsesFit => (PlugSpec => []InStep)
<1> SUFFICES ASSUME ResponsesFit PROVE PlugSpec => []InStep
  OBVIOUS
<1>1. PlugSpec => []TypeOK
  <2>1. PlugSpec => Spec
    BY PTL DEF PlugSpec, Spec, Next
  <2>2. QED BY <2>1, TypeCorrect, PTL
<1>2. Init => InStep
  BY TxFacts, ExchangeAssumption, ConcatEmptySeq, EmptySeq DEF Init, InStep, Backlog
<1>3. TypeOK /\ InStep /\ [Replugged]_vars => InStep'
  <2> SUFFICES ASSUME TypeOK, InStep, [Replugged]_vars PROVE InStep'
    OBVIOUS
  <2>1. CASE Poll
    BY <2>1 DEF Poll, InStep, Backlog, link, device
  <2>2. CASE Begin
    <3>1. tx' \in Tx /\ CmdLen[tx'] \in 1 .. LengthRange - 1
      <4>1. tx' = (tx + 1) % TxLimit /\ tx \in Tx
        BY <2>2 DEF Begin, TypeOK
      <4>2. tx' \in Tx
        BY <4>1, TxFacts
      <4>3. CmdLen[tx'] \in Nat \ {0} /\ CmdLen[tx'] < LengthRange
        BY <4>2, TxFacts DEF ResponsesFit, CommandsFit
      <4>4. QED BY <4>2, <4>3, ExchangeAssumption
    <3>2. length' = CmdLen[tx'] /\ sendPos' = 0
      <4>1. \A k \in 1 .. LengthRange - 1 : k % LengthRange = k
        BY ExchangeAssumption, SMTT(30)
      <4>2. QED BY <2>2, <3>1, <4>1 DEF Begin
    <3>3. /\ pc = "due" /\ pc' = "chunk"
          /\ UNCHANGED <<dirty, configured, hostToggle, devToggle, devLine, Backlog>>
      BY <2>2 DEF Begin, link, device, Backlog
    <3>4. QED BY <3>1, <3>2, <3>3 DEF InStep
  <2>3. CASE ChunkSent
    BY <2>3, ChunkStep
  <2>4. CASE ChunkRefused
    <3>1. /\ pc = "chunk" /\ ~configured /\ ~configured'
          /\ pc' \in {"idle", "chunk", "receive"}
          /\ UNCHANGED <<tx, dirty, hostToggle, devToggle, devLine, Backlog>>
      BY <2>4 DEF ChunkRefused, AfterSend, device, Backlog, InStep, TypeOK
    <3>2. QED BY <3>1 DEF InStep
  <2>5. CASE Receive
    BY <2>5, ReceiveStep
  <2>6. CASE Parse
    <3>1. /\ pc = "parse"
          /\ UNCHANGED <<tx, dirty, accepted, configured, hostToggle, devToggle,
                         devLine, Backlog>>
      BY <2>6 DEF Parse, link, device, Backlog
    <3>2. PICK r \in ResponseLens : accepted = Response(tx, r)
      BY <3>1 DEF InStep
    <3>3. r < RxLimit
      <4>1. tx \in Tx
        BY DEF TypeOK
      <4>2. r \in Nat /\ CmdLen[tx] \in Nat /\ RxLimit \in Nat
        BY <4>1, TxFacts, ExchangeAssumption
      <4>3. r <= CmdLen[tx] /\ CmdLen[tx] < RxLimit
        BY <4>1 DEF ResponsesFit, CommandsFit
      <4>4. QED BY <4>2, <4>3
    <3>4. pc' = "idle"
      BY <2>6, <3>2, <3>3 DEF Parse, Response
    <3>5. QED BY <3>1, <3>4 DEF InStep
  <2>7. CASE DeviceSends
    <3>1. Backlog' = Backlog
      BY <2>7, MoveLine DEF DeviceSends, Backlog, TypeOK
    <3>2. UNCHANGED <<pc, tx, length, sendPos, dirty, accepted, configured,
                      hostToggle, devToggle, devLine>>
      BY <2>7 DEF DeviceSends, program, link
    <3>3. QED BY <3>1, <3>2 DEF InStep, Echo, Response
  <2>8. CASE Connect
    BY <2>8 DEF Connect, InStep, Backlog, program, device
  <2>9. CASE Disconnect
    <3>1. Backlog' = <<>> /\ devLine' = Nothing /\ ~configured'
      BY <2>9, ConcatEmptySeq, EmptySeq DEF Disconnect, Backlog
    <3>2. UNCHANGED <<pc, tx, dirty, accepted, hostToggle, devToggle>>
      BY <2>9 DEF Disconnect, program
    <3>3. QED BY <3>1, <3>2 DEF InStep, Response
  <2>10. CASE Enumerate
    <3>1. /\ pc = "idle" /\ pc' = "idle" /\ Backlog' = Backlog
          /\ hostToggle' = devToggle'
          /\ UNCHANGED <<dirty, devLine>>
      BY <2>10 DEF Enumerate, program, device, Backlog
    <3>2. QED BY <3>1 DEF InStep
  <2>11. CASE UNCHANGED vars
    BY <2>11 DEF vars, InStep, Backlog
  <2>12. QED
    BY <2>1, <2>2, <2>3, <2>4, <2>5, <2>6, <2>7, <2>8, <2>9, <2>10, <2>11
    DEF Replugged, Undisturbed
<1>4. QED BY <1>1, <1>2, <1>3, PTL DEF PlugSpec

\* AnswersOwnCommand of SsmExchange, under PlugSpec: what provide_values parses is
\* the SSM's answer to the command it has just sent.
THEOREM AnswersCorrect == ResponsesFit => (PlugSpec => []AnswersOwnCommand)
<1>1. InStep => AnswersOwnCommand
  BY DEF InStep, AnswersOwnCommand, Response
<1>2. QED BY <1>1, InStepCorrect, PTL

\* NothingLeftOver of SsmExchange, under PlugSpec: nothing of an exchange survives it.
THEOREM LeftOverCorrect == ResponsesFit => (PlugSpec => []NothingLeftOver)
<1>1. TypeOK /\ InStep => NothingLeftOver
  <2> SUFFICES ASSUME TypeOK, InStep PROVE NothingLeftOver
    OBVIOUS
  <2>1. Len(Backlog) <= 2
    <3>1. CASE pc = "receive" /\ configured
      <4>1. PICK r \in ResponseLens : Backlog \in {<<Echo(tx), Response(tx, r)>>,
                                                  <<Response(tx, r)>>}
        BY <3>1 DEF InStep
      <4>2. \A a, b : Len(<<a, b>>) = 2 /\ Len(<<a>>) = 1
        OBVIOUS
      <4>3. CASE Backlog = <<Echo(tx), Response(tx, r)>>
        <5>1. Len(Backlog) = 2
          BY <4>2, <4>3, Zenon
        <5>2. QED BY <5>1
      <4>4. CASE Backlog = <<Response(tx, r)>>
        <5>1. Len(Backlog) = 1
          BY <4>2, <4>4, Zenon
        <5>2. QED BY <5>1
      <4>5. QED BY <4>1, <4>3, <4>4
    <3>2. CASE ~(pc = "receive" /\ configured)
      <4>1. Backlog = <<>>
        BY <3>2 DEF InStep, TypeOK
      <4>2. QED BY <4>1
    <3>3. QED BY <3>1, <3>2
  <2>2. QED BY <2>1 DEF InStep, NothingLeftOver
<1>2. PlugSpec => []TypeOK
  <2>1. PlugSpec => Spec
    BY PTL DEF PlugSpec, Spec, Next
  <2>2. QED BY <2>1, TypeCorrect, PTL
<1>3. QED BY <1>1, <1>2, InStepCorrect, PTL
-----------------------------------------------------------------------------
(***************************************************************************)
(* The exchange is a dialogue.                                             *)
(***************************************************************************)

\* Echo and answer say the same in both specifications.
LEMMA SaidFacts ==
  ASSUME NEW t, NEW r
  PROVE  /\ Said(Echo(t)) = Talk!Echo(t)
         /\ Said(Response(t, r)) = Talk!Answer(t)
         /\ Said(NoLine) = Talk!Silence
         /\ Talk!Echo(t) # Talk!Answer(t)
BY DEF Said, Echo, Response, NoLine, Talk!Echo, Talk!Answer, Talk!Silence

\* What is first of the unread lines is what the SSM says.
LEMMA SpeechFacts ==
  /\ Backlog = <<>> => Speech = Talk!Silence
  /\ \A a : Backlog = <<a>> => Speech = Said(a)
  /\ \A a, b : Backlog = <<a, b>> => Speech = Said(a)
BY SaidFacts DEF Speech

LEMMA NextSpeechFacts ==
  /\ Backlog' = <<>> => Speech' = Talk!Silence
  /\ \A a : Backlog' = <<a>> => Speech' = Said(a)
  /\ \A a, b : Backlog' = <<a, b>> => Speech' = Said(a)
BY SaidFacts DEF Speech

\* A step that changes neither the place of the call, the command, the
\* connection nor what is unread does not show in the dialogue.
LEMMA DoesNotShow ==
  ASSUME UNCHANGED <<tx, configured, Backlog>>, CallStep' = CallStep,
         pc # "parse", pc' # "parse"
  PROVE  UNCHANGED Talk!vars
BY DEF Talk!vars, Speech, Reply

\* Receiving is the SSM's echo skipped or its answer taken.
LEMMA ReceiveTalks ==
  ASSUME ResponsesFit, TypeOK, InStep, Receive
  PROVE  Talk!Next
<1>1. pc = "receive" /\ UNCHANGED <<tx, configured>>
  BY Received
<1>2. PICK r \in ResponseLens :
        \/ /\ Backlog = <<Echo(tx), Response(tx, r)>>
           /\ Backlog' = <<Response(tx, r)>>
           /\ pc' = pc
        \/ /\ Backlog = <<Response(tx, r)>> /\ Backlog' = <<>>
           /\ pc' = "parse" /\ accepted' = Response(tx, r)
  BY Received
<1>3. CallStep = "waiting" /\ Reply = Talk!Silence
  BY <1>1, SaidFacts DEF CallStep, Reply
<1>4. CASE Backlog = <<Echo(tx), Response(tx, r)>> /\ Backlog' = <<Response(tx, r)>> /\ pc' = pc
  <2>1. Speech = Talk!Echo(tx)
    BY <1>4, SpeechFacts, SaidFacts
  <2>2. Speech' = Talk!Answer(tx)
    BY <1>4, NextSpeechFacts, SaidFacts
  <2>3. CallStep' = CallStep /\ Reply' = Reply
    BY <1>1, <1>4 DEF CallStep, Reply
  <2>4. Talk!SkipEcho
    BY <1>1, <1>3, <2>1, <2>2, <2>3 DEF Talk!SkipEcho
  <2>5. QED BY <2>4 DEF Talk!Next
<1>5. CASE /\ Backlog = <<Response(tx, r)>> /\ Backlog' = <<>>
           /\ pc' = "parse" /\ accepted' = Response(tx, r)
  <2>1. Speech = Talk!Answer(tx) /\ Speech' = Talk!Silence
    BY <1>5, SpeechFacts, NextSpeechFacts, SaidFacts
  <2>2. CallStep' = "answered"
    BY <1>5 DEF CallStep
  <2>3. Reply' = Speech
    BY <1>5, <2>1, SaidFacts DEF Reply
  <2>4. Talk!TakeAnswer
    BY <1>1, <1>3, <2>1, <2>2, <2>3 DEF Talk!TakeAnswer
  <2>5. QED BY <2>4 DEF Talk!Next
<1>6. QED BY <1>2, <1>4, <1>5

\* A packet that is not the last one does not show; with the last one the SSM
\* has heard the command.
LEMMA ChunkTalks ==
  ASSUME ResponsesFit, TypeOK, InStep, ChunkSent
  PROVE  [Talk!Next]_(Talk!vars)
<1>1. /\ pc = "chunk" /\ configured /\ Backlog = <<>>
      /\ hostToggle = devToggle /\ sendPos + length = CmdLen[tx]
      /\ devLine = IF sendPos = 0 THEN Nothing ELSE Prefix(tx, sendPos)
  BY DEF ChunkSent, InStep
<1>2. tx \in Tx /\ inbox = <<>> /\ owed = <<>>
  BY <1>1, ConcatEqualIffEmpty DEF Backlog, TypeOK
<1>3. /\ UNCHANGED <<tx, configured, inbox>>
      /\ \/ /\ pc' = "receive"
            /\ \E r \in ResponseLens : owed' = owed \o <<Echo(tx), Response(tx, r)>>
         \/ pc' = "chunk" /\ owed' = owed
  BY <1>1, ChunkTaken DEF ResponsesFit
<1>4. CallStep = "sending" /\ Reply = Talk!Silence /\ Speech = Talk!Silence
  BY <1>1, SaidFacts, SpeechFacts DEF CallStep, Reply
<1>5. CASE /\ pc' = "receive"
           /\ \E r \in ResponseLens : owed' = owed \o <<Echo(tx), Response(tx, r)>>
  <2>1. PICK r \in ResponseLens : owed' = owed \o <<Echo(tx), Response(tx, r)>>
    BY <1>5
  <2>2. Echo(tx) \in Line /\ Response(tx, r) \in Line
    BY <1>2, LineFacts
  <2>3. Backlog' = <<Echo(tx), Response(tx, r)>>
    BY <1>2, <1>3, <2>1, <2>2, ConcatEmptySeq DEF Backlog
  <2>4. Speech' = Talk!Echo(tx)
    BY <2>3, NextSpeechFacts, SaidFacts
  <2>5. CallStep' = "waiting" /\ Reply' = Reply
    BY <1>1, <1>5 DEF CallStep, Reply
  <2>6. Talk!Hear
    BY <1>1, <1>3, <1>4, <2>4, <2>5 DEF Talk!Hear
  <2>7. QED BY <2>6 DEF Talk!Next
<1>6. CASE pc' = "chunk" /\ owed' = owed
  <2>1. UNCHANGED Backlog
    BY <1>3, <1>6 DEF Backlog
  <2>2. CallStep' = CallStep
    BY <1>1, <1>6 DEF CallStep
  <2>3. QED BY <1>1, <1>3, <1>6, <2>1, <2>2, DoesNotShow
<1>7. QED BY <1>3, <1>5, <1>6

\* The refinement TalkSpec states, without its liveness: under PlugSpec (transfers
\* complete and no disconnect tears the reset of the ring) the SSM hears every
\* command as a whole and once, and a call that is answered is answered for its own
\* command, however often the plug is pulled.
THEOREM TalkImplemented ==
  ResponsesFit => (PlugSpec => Talk!Init /\ [][Talk!Next]_(Talk!vars))
<1> SUFFICES ASSUME ResponsesFit
             PROVE  PlugSpec => Talk!Init /\ [][Talk!Next]_(Talk!vars)
  OBVIOUS
<1>1. PlugSpec => []TypeOK
  <2>1. PlugSpec => Spec
    BY PTL DEF PlugSpec, Spec, Next
  <2>2. QED BY <2>1, TypeCorrect, PTL
<1>2. PlugSpec => []InStep
  BY InStepCorrect
<1>3. Init => Talk!Init
  <2> SUFFICES ASSUME Init PROVE Talk!Init
    OBVIOUS
  <2>1. pc = "idle" /\ tx = 0 /\ ~configured /\ Backlog = <<>>
    BY ConcatEmptySeq, EmptySeq DEF Init, Backlog
  <2>2. CallStep = "free" /\ Speech = Talk!Silence /\ Reply = Talk!Silence
    BY <2>1, SpeechFacts, SaidFacts DEF CallStep, Reply
  <2>3. QED BY <2>1, <2>2 DEF Talk!Init
<1>4. TypeOK /\ InStep /\ [Replugged]_vars => [Talk!Next]_(Talk!vars)
  <2> SUFFICES ASSUME TypeOK, InStep, [Replugged]_vars PROVE [Talk!Next]_(Talk!vars)
    OBVIOUS
  <2>1. CASE Poll
    <3>1. /\ UNCHANGED <<tx, configured, Backlog>> /\ pc = "idle" /\ pc' = "due"
      BY <2>1 DEF Poll, link, device, Backlog
    <3>2. CallStep' = CallStep
      BY <3>1 DEF CallStep
    <3>3. QED BY <3>1, <3>2, DoesNotShow
  <2>2. CASE Begin
    <3>1. /\ UNCHANGED <<configured, Backlog>> /\ pc = "due" /\ pc' = "chunk"
          /\ tx' = (tx + 1) % TxLimit
      BY <2>2 DEF Begin, link, device, Backlog
    <3>2. /\ CallStep = "free" /\ CallStep' = "sending"
          /\ UNCHANGED <<Speech, Reply>>
      BY <3>1 DEF CallStep, Speech, Reply
    <3>3. Talk!Ask
      BY <3>1, <3>2 DEF Talk!Ask
    <3>4. QED BY <3>3 DEF Talk!Next
  <2>3. CASE ChunkSent
    BY <2>3, ChunkTalks
  <2>4. CASE ChunkRefused
    <3>1. /\ pc = "chunk" /\ ~configured
          /\ pc' \in {"idle", "chunk", "receive"}
          /\ UNCHANGED <<tx, configured, Backlog>>
      BY <2>4 DEF ChunkRefused, AfterSend, device, Backlog, InStep, TypeOK
    <3>2. CASE pc' = "chunk"
      <4>1. CallStep' = CallStep
        BY <3>1, <3>2 DEF CallStep
      <4>2. QED BY <3>1, <3>2, <4>1, DoesNotShow
    <3>3. CASE pc' \in {"idle", "receive"}
      <4>1. CallStep = "sending" /\ CallStep' \in {"free", "waiting"}
        BY <3>1, <3>3 DEF CallStep
      <4>2. UNCHANGED <<Speech, Reply>>
        BY <3>1, <3>3 DEF Speech, Reply
      <4>3. Talk!GiveUp
        BY <3>1, <4>1, <4>2 DEF Talk!GiveUp
      <4>4. QED BY <4>3 DEF Talk!Next
    <3>4. QED BY <3>1, <3>2, <3>3
  <2>5. CASE Receive
    BY <2>5, ReceiveTalks
  <2>6. CASE Parse
    <3>1. pc = "parse" /\ UNCHANGED <<tx, configured, Backlog>>
      BY <2>6 DEF Parse, link, device, Backlog
    <3>2. pc' \in {"idle", "looping"}
      BY <2>6 DEF Parse
    <3>3. CallStep = "answered" /\ CallStep' = "free"
      BY <3>1, <3>2 DEF CallStep
    <3>4. UNCHANGED Speech /\ Reply' = Talk!Silence
      BY <3>1, <3>2, SaidFacts DEF Speech, Reply
    <3>5. Talk!Return
      BY <3>1, <3>3, <3>4 DEF Talk!Return
    <3>6. QED BY <3>5 DEF Talk!Next
  <2>7. CASE DeviceSends
    <3>1. Backlog' = Backlog
      BY <2>7, MoveLine DEF DeviceSends, Backlog, TypeOK
    <3>2. UNCHANGED <<pc, tx, accepted, configured>>
      BY <2>7 DEF DeviceSends, program, link
    <3>3. QED BY <3>1, <3>2 DEF Talk!vars, CallStep, Speech, Reply
  <2>8. CASE Connect
    <3>1. UNCHANGED <<pc, tx, accepted, configured, Backlog>>
      BY <2>8 DEF Connect, program, device, Backlog
    <3>2. QED BY <3>1 DEF Talk!vars, CallStep, Speech, Reply
  <2>9. CASE Disconnect
    <3>1. Backlog' = <<>> /\ ~configured'
      BY <2>9, ConcatEmptySeq, EmptySeq DEF Disconnect, Backlog
    <3>2. UNCHANGED <<pc, tx, accepted>>
      BY <2>9 DEF Disconnect, program
    <3>3. UNCHANGED <<CallStep, Reply>> /\ Speech' = Talk!Silence
      BY <3>1, <3>2, NextSpeechFacts DEF CallStep, Reply
    <3>4. CASE configured
      <4>1. configured' = FALSE
        BY <2>9 DEF Disconnect
      <4>2. Talk!Unlink
        BY <3>2, <3>3, <3>4, <4>1 DEF Talk!Unlink
      <4>3. QED BY <4>2 DEF Talk!Next
    <3>5. CASE ~configured
      <4>1. Backlog = <<>> /\ configured' = configured
        BY <2>9, <3>5 DEF InStep, Disconnect, TypeOK
      <4>2. Speech = Talk!Silence
        BY <4>1, SpeechFacts
      <4>3. QED BY <3>2, <3>3, <4>1, <4>2 DEF Talk!vars
    <3>6. QED BY <3>4, <3>5
  <2>10. CASE Enumerate
    <3>1. /\ pc = "idle" /\ ~configured /\ configured' = TRUE
          /\ UNCHANGED <<pc, tx, accepted, Backlog>>
      BY <2>10 DEF Enumerate, program, device, Backlog
    <3>2. CallStep = "free" /\ UNCHANGED <<CallStep, Speech, Reply>>
      BY <3>1 DEF CallStep, Speech, Reply
    <3>3. Talk!Link
      BY <3>1, <3>2 DEF Talk!Link
    <3>4. QED BY <3>3 DEF Talk!Next
  <2>11. CASE UNCHANGED vars
    BY <2>11 DEF vars, Talk!vars, CallStep, Speech, Reply, Backlog
  <2>12. QED
    BY <2>1, <2>2, <2>3, <2>4, <2>5, <2>6, <2>7, <2>8, <2>9, <2>10, <2>11
    DEF Replugged, Undisturbed
<1>5. QED BY <1>1, <1>2, <1>3, <1>4, PTL DEF PlugSpec

-----------------------------------------------------------------------------
(***************************************************************************)
(* With time-outs: what is counted as sent, and what late lines do.        *)
(***************************************************************************)

\* One packet: what the device takes of it only adds the echo of the command
\* and an answer behind the lines that are unread already.
LEMMA DeliverAdds ==
  ASSUME TypeOK, NEW n \in Nat, Deliver(n) \/ UNCHANGED device, inbox' = inbox
  PROVE  \/ Backlog' = Backlog
         \/ \E e \in Line, a \in Line :
              /\ Backlog' = Backlog \o <<e, a>>
              /\ e.tx = tx /\ e.kind # "rest" /\ e.len = CmdLen[tx]
              /\ a.tx = tx /\ a.kind # "rest" /\ a.len \in ResponseLens
<1>1. CASE owed' = owed
  BY <1>1 DEF Backlog
<1>2. CASE owed' # owed
  <2> DEFINE inStep == (IF sendPos = 0 /\ devLine = Nothing THEN Prefix(tx, 0)
                        ELSE devLine) = Prefix(tx, sendPos)
             whole == inStep /\ sendPos + n = CmdLen[tx]
             echo  == IF whole THEN Echo(tx) ELSE [Echo(tx) EXCEPT !.kind = "garbled"]
  <2>1. DeviceTakes(n)
    BY <1>2 DEF Deliver, device
  <2>2. PICK r \in ResponseLens : owed' = owed \o <<echo, Response(tx, r)>>
    BY <1>2, <2>1, Zenon DEF DeviceTakes
  <2>3. tx \in Tx /\ owed \in Seq(Line) /\ inbox \in Seq(Line)
    BY DEF TypeOK
  <2>4. echo \in Line /\ Response(tx, r) \in Line
    BY <2>3, LineFacts
  <2>5. echo.tx = tx /\ echo.kind # "rest" /\ echo.len = CmdLen[tx]
    BY DEF Echo
  <2>6. /\ Response(tx, r).tx = tx /\ Response(tx, r).kind # "rest"
        /\ Response(tx, r).len = r
    BY DEF Response
  <2> HIDE DEF echo
  <2>7. Backlog' = Backlog \o <<echo, Response(tx, r)>>
    <3>1. <<echo, Response(tx, r)>> \in Seq(Line)
      BY <2>4
    <3>2. QED BY <2>2, <2>3, <3>1, ConcatAssociative DEF Backlog
  <2>8. QED BY <2>4, <2>5, <2>6, <2>7
<1>3. QED BY <1>1, <1>2

\* One call of receive_response looks at the oldest unread line only: it drops
\* it as the echo, takes it, or takes its beginning and leaves the rest.
LEMMA ReceiveTakes ==
  ASSUME TypeOK, Receive
  PROVE  /\ pc = "receive" /\ configured
         /\ UNCHANGED <<tx, configured, hostToggle, devToggle, devLine, lag, timeouts>>
         /\ Backlog # <<>>
         /\ \/ /\ pc' = "receive" /\ Backlog[1].tx = tx
               /\ Backlog' = Tail(Backlog)
            \/ /\ pc' = "parse" /\ accepted'.tx = Backlog[1].tx
               /\ \/ Backlog' = Tail(Backlog)
                  \/ /\ Backlog[1].len > RxLimit + 2
                     /\ \E l \in Line :
                          /\ l.kind = "rest" /\ l.tx = Backlog[1].tx
                          /\ l.len = Backlog[1].len - RxLimit
                          /\ Backlog' = <<l>> \o Tail(Backlog)
<1>1. /\ pc = "receive" /\ configured /\ inbox # <<>>
      /\ UNCHANGED <<tx, configured, hostToggle, devToggle, devLine, lag, timeouts, owed>>
  BY DEF Receive, SkipEcho, TakeLine, Respond, TakeFullBuffer, link, device, history
<1>2. inbox \in Seq(Line) /\ owed \in Seq(Line)
  BY DEF TypeOK
<1>3. Head(inbox) \in Line /\ Tail(inbox) \in Seq(Line)
  BY <1>1, <1>2, HeadTailProperties
<1>4. Backlog # <<>> /\ Head(inbox) = Backlog[1] /\ Tail(inbox) \o owed = Tail(Backlog)
  <2>1. Backlog # <<>> /\ Head(inbox) = Head(Backlog) /\ Tail(inbox) \o owed = Tail(Backlog)
    BY <1>1, <1>2, TakeFirst, Zenon DEF Backlog
  <2>2. Head(Backlog) = Backlog[1]
    BY <2>1
  <2>3. QED BY <2>1, <2>2
<1>5. CASE SkipEcho
  BY <1>1, <1>4, <1>5 DEF SkipEcho, Recognized, Backlog
<1>6. CASE TakeLine
  BY <1>1, <1>4, <1>6 DEF TakeLine, Respond, Backlog
<1>7. CASE TakeFullBuffer
  <2> DEFINE l == Head(inbox)
             rest == [l EXCEPT !.kind = "rest", !.len = l.len - RxLimit]
  <2>1. /\ accepted' = [l EXCEPT !.len = RxLimit] /\ pc' = "parse"
        /\ l.len >= RxLimit
        /\ inbox' = IF l.len > RxLimit + 2 THEN <<rest>> \o Tail(inbox) ELSE Tail(inbox)
    BY <1>7 DEF TakeFullBuffer
  <2>2. l.len \in Nat /\ RxLimit \in Nat /\ l.len - RxLimit \in Nat
    <3>1. l.len \in Nat
      BY <1>3 DEF Line
    <3>2. RxLimit \in Nat
      BY ExchangeAssumption
    <3> HIDE DEF l
    <3> QED BY <2>1, <3>1, <3>2
  <2>3. accepted'.tx = Backlog[1].tx
    BY <1>3, <1>4, <2>1 DEF Line
  <2>4. CASE l.len > RxLimit + 2
    <3>1. rest.kind = "rest" /\ rest.tx = l.tx /\ rest.len = l.len - RxLimit /\ rest \in Line
      <4>1. \A m \in Line, k \in Nat :
              [m EXCEPT !.kind = "rest", !.len = k] \in [kind : {"rest"}, tx : {m.tx}, len : {k}]
        BY DEF Line
      <4>2. rest \in [kind : {"rest"}, tx : {l.tx}, len : {l.len - RxLimit}]
        BY <1>3, <2>2, <4>1
      <4>3. l.tx \in Tx
        BY <1>3 DEF Line
      <4>4. QED BY <4>2, <4>3, <2>2 DEF Line
    <3> HIDE DEF rest
    <3>2. Backlog' = <<rest>> \o Tail(Backlog)
      <4>1. <<rest>> \in Seq(Line)
        BY <3>1
      <4>2. QED BY <1>1, <1>2, <1>3, <1>4, <2>1, <2>4, <4>1, ConcatAssociative DEF Backlog
    <3>3. QED BY <1>1, <1>4, <2>1, <2>3, <2>4, <3>1, <3>2
  <2>5. CASE ~(l.len > RxLimit + 2)
    BY <1>1, <1>4, <2>1, <2>3, <2>5 DEF Backlog
  <2>6. QED BY <2>4, <2>5
<1>8. QED BY <1>5, <1>6, <1>7 DEF Receive

\* Why SentIsTaken holds: without a time-out host and device agree on the data
\* toggle, and the device holds exactly the bytes provide_values counts.
Counted ==
  /\ pc = "chunk" => length > 0
  /\ ~configured => Backlog = <<>> /\ devLine = Nothing
  /\ timeouts = 0 /\ configured =>
       /\ hostToggle = devToggle
       /\ pc = "chunk" =>
            /\ sendPos + length = CmdLen[tx]
            /\ devLine = IF sendPos = 0 THEN Nothing ELSE Prefix(tx, sendPos)
       /\ pc # "chunk" => devLine = Nothing

\* Lengths of commands do not wrap when they are cut to eight bits.
LEMMA BeginLength ==
  ASSUME CommandsFit, TypeOK, Begin
  PROVE  length' = CmdLen[tx'] /\ length' > 0
<1>1. tx' = (tx + 1) % TxLimit /\ tx \in Tx
  BY DEF Begin, TypeOK
<1>2. tx' \in Tx
  BY <1>1, TxFacts
<1>3. CmdLen[tx'] \in 1 .. LengthRange - 1
  <2>1. CmdLen[tx'] \in Nat \ {0} /\ CmdLen[tx'] < LengthRange
    BY <1>2, TxFacts DEF CommandsFit
  <2>2. QED BY <2>1, ExchangeAssumption
<1>4. \A k \in 1 .. LengthRange - 1 : k % LengthRange = k
  BY ExchangeAssumption, SMTT(30)
<1>5. length' = CmdLen[tx'] % LengthRange
  BY DEF Begin
<1>6. QED BY <1>3, <1>4, <1>5

\* Counted is inductive.
LEMMA CountedHolds == CommandsFit => (Spec => []Counted)
<1> SUFFICES ASSUME CommandsFit PROVE Spec => []Counted
  OBVIOUS
<1>1. Init => Counted
  BY ConcatEmptySeq, EmptySeq DEF Init, Counted, Backlog
<1>2. TypeOK /\ TypeOK' /\ Counted /\ [Next]_vars => Counted'
  <2> SUFFICES ASSUME TypeOK, TypeOK', Counted, [Next]_vars PROVE Counted'
    OBVIOUS
  <2>1. CASE Poll
    BY <2>1 DEF Poll, Counted, Backlog, link, device, history
  <2>2. CASE Begin
    <3>1. length' = CmdLen[tx'] /\ length' > 0 /\ CmdLen[tx'] \in Nat /\ sendPos' = 0
      BY <2>2, BeginLength, TxFacts DEF Begin, TypeOK
    <3>2. /\ pc = "due" /\ pc' = "chunk"
          /\ UNCHANGED <<configured, hostToggle, devToggle, devLine, Backlog, timeouts>>
      BY <2>2 DEF Begin, link, device, Backlog
    <3>3. QED BY <3>1, <3>2 DEF Counted
  <2>3. CASE ChunkSent
    <3>1. /\ pc = "chunk" /\ configured /\ configured' /\ timeouts' = timeouts
          /\ pc' = IF ChunkLen = 0 THEN "idle" ELSE IF length' = 0 THEN "receive" ELSE "chunk"
      BY <2>3 DEF ChunkSent, AfterSend
    <3>2. length' > 0 \/ pc' # "chunk"
      BY <3>1, ExchangeAssumption DEF TypeOK
    <3>3. CASE timeouts = 0
      <4>1. /\ hostToggle' = devToggle' /\ tx' = tx
            /\ \/ pc' = "receive" /\ devLine' = Nothing
               \/ /\ pc' = "chunk" /\ sendPos' > 0
                  /\ sendPos' + length' = CmdLen[tx]
                  /\ devLine' = Prefix(tx, sendPos')
        BY <2>3, <3>1, <3>3, ChunkTaken DEF Counted
      <4>2. devLine' = Prefix(tx, sendPos') => devLine' = Prefix(tx', sendPos')
        BY <4>1
      <4>3. sendPos' > 0 => sendPos' # 0
        OBVIOUS
      <4>4. QED BY <3>1, <3>2, <4>1, <4>2, <4>3 DEF Counted
    <3>4. CASE timeouts # 0
      BY <3>1, <3>2, <3>4 DEF Counted
    <3>5. QED BY <3>3, <3>4
  <2>4. CASE ChunkTimesOut
    <3>1. /\ configured' /\ timeouts' # 0
          /\ pc' = "chunk" => length' # 0
      BY <2>4 DEF ChunkTimesOut, AfterSend, TypeOK
    <3>2. length' \in Nat
      BY ExchangeAssumption DEF TypeOK
    <3>3. QED BY <3>1, <3>2 DEF Counted
  <2>5. CASE ChunkRefused
    <3>1. /\ ~configured /\ ~configured'
          /\ Backlog' = Backlog /\ devLine' = devLine
          /\ pc' = "chunk" => length' # 0
      BY <2>5 DEF ChunkRefused, AfterSend, Counted, device, Backlog
    <3>2. length' \in Nat
      BY ExchangeAssumption DEF TypeOK
    <3>3. QED BY <3>1, <3>2 DEF Counted
  <2>6. CASE Receive
    BY <2>6, ReceiveTakes DEF Counted
  <2>7. CASE Parse
    BY <2>7 DEF Parse, Counted, Backlog, link, device, history
  <2>8. CASE DeviceSends
    <3>1. Backlog' = Backlog /\ configured
      BY <2>8, MoveLine DEF DeviceSends, Backlog, TypeOK
    <3>2. UNCHANGED <<pc, tx, length, sendPos, configured, hostToggle, devToggle,
                      devLine, timeouts>>
      BY <2>8 DEF DeviceSends, program, link, history
    <3>3. QED BY <3>1, <3>2 DEF Counted
  <2>9. CASE Connect
    BY <2>9 DEF Connect, Counted, Backlog, program, device, history
  <2>10. CASE Disconnect
    <3>1. Backlog' = <<>> /\ devLine' = Nothing /\ ~configured'
      BY <2>10, ConcatEmptySeq, EmptySeq DEF Disconnect, Backlog
    <3>2. pc' = pc /\ length' = length
      BY <2>10 DEF Disconnect, program
    <3>3. QED BY <3>1, <3>2 DEF Counted
  <2>11. CASE Enumerate
    BY <2>11 DEF Enumerate, Counted, Backlog, program, device
  <2>12. CASE TornDisconnect
    <3>1. Backlog' = <<>> /\ devLine' = Nothing /\ ~configured' /\ pc' # "chunk"
      BY <2>12, ConcatEmptySeq, EmptySeq DEF TornDisconnect, Respond, Backlog
    <3>2. QED BY <3>1 DEF Counted
  <2>13. CASE ReadStale
    <3>1. /\ pc = "receive" /\ pc' \in {"receive", "parse"} /\ configured
          /\ UNCHANGED <<configured, hostToggle, devToggle, devLine, timeouts>>
      BY <2>13 DEF ReadStale, Respond, link, device, history
    <3>2. QED BY <3>1 DEF Counted
  <2>14. CASE UNCHANGED vars
    BY <2>14 DEF vars, Counted, Backlog
  <2>15. QED
    BY <2>1, <2>2, <2>3, <2>4, <2>5, <2>6, <2>7, <2>8, <2>9, <2>10, <2>11, <2>12,
       <2>13, <2>14
    DEF Next, Replugged, Undisturbed
<1>3. QED BY <1>1, <1>2, TypeCorrect, PTL DEF Spec

\* SentIsTaken of SsmExchange, with time-outs and the plug pulled at any time:
\* until the first time-out the bytes counted as sent are those the SSM took.
THEOREM SentCorrect == CommandsFit => (Spec => []SentIsTaken)
<1>1. TypeOK /\ Counted => SentIsTaken
  BY DEF Counted, SentIsTaken, CountedIsSent, TypeOK
<1>2. QED BY <1>1, CountedHolds, TypeCorrect, PTL

\* What makes a late line recognizable: no line is so long that it is split
\* more than once (RingCapacity keeps longer ones out of the ring), and the
\* transaction numbers do not come round while a line can still be unread.
LateFits ==
  /\ \A r \in ResponseLens : r <= 2 * RxLimit + 2
  /\ 2 * MaxBacklog + MaxTimeouts < TxLimit

\* How many transactions ago the command of line l was sent when t is current.
Age(l, t) == IF l.tx <= t THEN t - l.tx ELSE t + TxLimit - l.tx

\* An exchange in progress, or a line that is half read, delays a line by one.
Open == IF pc \in {"chunk", "receive"} THEN 1 ELSE 0
Begun == IF Backlog # <<>> /\ Backlog[1].kind = "rest" THEN 1 ELSE 0
Room == 2 * MaxBacklog + timeouts + Open + Begun

\* A line gets old only while it waits behind others: every exchange takes one
\* line or half of one, or times out.
AgesFit ==
  \A i \in 1 .. Len(Backlog) :
    Age(Backlog[i], tx) > 0 => Age(Backlog[i], tx) + 2 * i <= Room

\* A line is split only once.
LinesFit ==
  \A i \in 1 .. Len(Backlog) :
    /\ Backlog[i].len <= 2 * RxLimit + 2
    /\ Backlog[i].kind = "rest" => Backlog[i].len <= RxLimit + 2

\* The lines that were unread when the command began are still the first ones,
\* and none of them is an answer to it.
LateFirst ==
  /\ pc = "due" => Len(Backlog) <= MaxBacklog
  /\ pc \in {"chunk", "receive"} /\ configured =>
       /\ lag <= Len(Backlog)
       /\ \A i \in 1 .. lag : Backlog[i].tx # tx
  /\ pc = "parse" /\ lag > 0 => accepted.tx # tx

\* Why LateStaysLate holds: the strengthening of LateFirst that is inductive.
Late == AgesFit /\ LinesFit /\ LateFirst

\* Ages are bounded by the number of transactions, are 0 for the current one
\* and grow by one with each.
LEMMA Ages ==
  ASSUME NEW l \in Line, NEW t \in Tx
  PROVE  /\ Age(l, t) \in 0 .. TxLimit - 1
         /\ Age(l, t) = 0 <=> l.tx = t
         /\ Age(l, t) + 1 < TxLimit => Age(l, (t + 1) % TxLimit) = Age(l, t) + 1
<1>1. l.tx \in 0 .. TxLimit - 1 /\ t \in 0 .. TxLimit - 1 /\ TxLimit \in Nat /\ TxLimit > 1
  BY ExchangeAssumption DEF Line, Tx
<1>2. Age(l, t) \in 0 .. TxLimit - 1 /\ (Age(l, t) = 0 <=> l.tx = t)
  BY <1>1 DEF Age
<1>3. ASSUME Age(l, t) + 1 < TxLimit
      PROVE  Age(l, (t + 1) % TxLimit) = Age(l, t) + 1
  <2>1. CASE t + 1 < TxLimit
    <3>1. (t + 1) % TxLimit = t + 1
      BY <1>1, <2>1
    <3>2. QED BY <1>1, <1>3, <3>1 DEF Age
  <2>2. CASE t + 1 = TxLimit
    <3>1. (t + 1) % TxLimit = 0
      BY <1>1, <2>2
    <3>2. l.tx # 0
      BY <1>1, <1>3, <2>2 DEF Age
    <3>3. QED BY <1>1, <2>2, <3>1, <3>2 DEF Age
  <2>3. QED BY <1>1, <2>1, <2>2
<1>4. QED BY <1>2, <1>3

\* The unread lines form a sequence of lines.
LEMMA BacklogType ==
  ASSUME TypeOK
  PROVE  /\ Backlog \in Seq(Line) /\ Len(Backlog) \in Nat
         /\ \A i \in 1 .. Len(Backlog) :
              Backlog[i] \in Line /\ Age(Backlog[i], tx) \in Nat
         /\ Backlog # <<>> => Len(Backlog) > 0
         /\ tx \in Tx /\ timeouts \in 0 .. MaxTimeouts /\ MaxTimeouts \in Nat
         /\ MaxBacklog \in Nat /\ RxLimit \in Nat /\ TxLimit \in Nat /\ lag \in Nat
<1>1. Backlog \in Seq(Line) /\ tx \in Tx
  BY ConcatProperties DEF Backlog, TypeOK
<1>2. \A i \in 1 .. Len(Backlog) : Backlog[i] \in Line
  BY <1>1, ElementOfSeq
<1>3. Len(Backlog) \in Nat /\ (Backlog # <<>> => Len(Backlog) > 0)
  BY <1>1, LenProperties, EmptySeq
<1>4. \A i \in 1 .. Len(Backlog) : Age(Backlog[i], tx) \in Nat
  <2>1. TxLimit \in Nat /\ 0 .. TxLimit - 1 \subseteq Nat
    BY ExchangeAssumption
  <2>2. QED BY <1>1, <1>2, <2>1, Ages
<1>5. {MaxTimeouts, MaxBacklog, RxLimit, TxLimit} \subseteq Nat
  BY ExchangeAssumption
<1>6. QED BY <1>1, <1>2, <1>3, <1>4, <1>5 DEF TypeOK

\* Arithmetic of a line that moves up.
LEMMA MovesUp ==
  \A g, i, r, q \in Nat : g + 2 * (i + 1) <= r /\ r <= q + 2 => g + 2 * i <= q
  OBVIOUS

\* Room is a number; only the time-outs, the place in the exchange and the line
\* at the head change it.
LEMMA Rooms ==
  ASSUME TypeOK, TypeOK'
  PROVE  /\ Room \in Nat /\ Room' \in Nat
         /\ timeouts \in Nat /\ timeouts' \in Nat
         /\ {Open, Open', Begun, Begun'} \subseteq {0, 1}
         /\ Room' + (timeouts + Open + Begun) = Room + (timeouts' + Open' + Begun')
<1>1. timeouts \in Nat /\ timeouts' \in Nat /\ MaxBacklog \in Nat
  BY ExchangeAssumption DEF TypeOK
<1>2. {Open, Open', Begun, Begun'} \subseteq {0, 1}
  BY DEF Open, Begun
<1>3. \A m, t, o, b \in Nat : 2 * m + t + o + b \in Nat
  OBVIOUS
<1> DEFINE most == 2 * MaxBacklog
<1>4. Room = most + timeouts + Open + Begun
  BY DEF Room
<1>5. Room' = most + timeouts' + Open' + Begun'
  BY DEF Room
<1>6. {Open, Open', Begun, Begun'} \subseteq Nat
  BY <1>2
<1>7. Room \in Nat /\ Room' \in Nat
  BY <1>1, <1>3, <1>4, <1>5, <1>6, Zenon
<1>8. Room' + (timeouts + Open + Begun) = Room + (timeouts' + Open' + Begun')
  <2>1. /\ Open \in Nat /\ Open' \in Nat /\ Begun \in Nat /\ Begun' \in Nat
        /\ most \in Nat
    BY <1>1, <1>6
  <2> HIDE DEF most
  <2>2. QED BY <1>1, <1>4, <1>5, <2>1
<1>9. QED BY <1>1, <1>2, <1>7, <1>8

\* The same lines, with at least as much room, still fit.
LEMMA LinesKept ==
  ASSUME TypeOK, TypeOK', AgesFit, LinesFit, tx' = tx, Backlog' = Backlog,
         timeouts + Open <= timeouts' + Open'
  PROVE  AgesFit' /\ LinesFit'
<1>1. Begun' = Begun
  BY DEF Begun
<1>2. Room <= Room'
  BY <1>1, Rooms
<1>3. Room \in Nat /\ Room' \in Nat
  BY Rooms
<1>4. AgesFit'
  <2> SUFFICES ASSUME NEW i \in 1 .. Len(Backlog), Age(Backlog[i], tx) > 0
               PROVE  Age(Backlog[i], tx) + 2 * i <= Room'
    BY DEF AgesFit
  <2>1. Age(Backlog[i], tx) + 2 * i <= Room
    BY DEF AgesFit
  <2>2. Age(Backlog[i], tx) \in Nat /\ i \in Nat
    BY BacklogType
  <2>3. QED BY <1>2, <1>3, <2>1, <2>2
<1>5. LinesFit'
  BY DEF LinesFit
<1>6. QED BY <1>4, <1>5

\* With no fewer beginnings of lines and no fewer timeouts there is no less room.
LEMMA MoreRoom ==
  ASSUME TypeOK, TypeOK', timeouts + Open <= timeouts' + Open', Begun <= Begun'
  PROVE  Room <= Room'
<1> DEFINE before == timeouts + Open
           after  == timeouts' + Open'
<1>1. /\ Room \in Nat /\ Room' \in Nat /\ Begun \in Int /\ Begun' \in Int
      /\ before \in Int /\ after \in Int
  BY Rooms
<1>2. Room' + (before + Begun) = Room + (after + Begun')
  BY Rooms
<1> HIDE DEF before, after
<1>3. before <= after
  BY DEF before, after
<1> QED BY <1>1, <1>2, <1>3

\* The echo of the current command and an answer to it are not old, and as
\* short as commands and answers are.
LEMMA LinesAdded ==
  ASSUME CommandsFit, LateFits, TypeOK, TypeOK', AgesFit, LinesFit, tx' = tx,
         timeouts + Open <= timeouts' + Open',
         NEW e \in Line, NEW a \in Line, Backlog' = Backlog \o <<e, a>>,
         e.tx = tx, e.kind # "rest", e.len = CmdLen[tx],
         a.tx = tx, a.kind # "rest", a.len \in ResponseLens
  PROVE  AgesFit' /\ LinesFit'
<1>1. /\ Len(Backlog') = Len(Backlog) + 2
      /\ \A i \in 1 .. Len(Backlog) : Backlog'[i] = Backlog[i]
      /\ Backlog'[Len(Backlog) + 1] = e /\ Backlog'[Len(Backlog) + 2] = a
      /\ Len(Backlog) \in Nat
  <2>1. <<e, a>> \in Seq(Line) /\ Backlog \in Seq(Line) /\ Len(<<e, a>>) = 2
    BY BacklogType
  <2>2. QED BY <2>1, ConcatProperties
<1>2. Begun <= Begun' /\ Begun' \in {0, 1} /\ Begun \in {0, 1}
  <2>1. ASSUME Begun = 1 PROVE Begun' = 1
    <3>1. Backlog # <<>> /\ Backlog[1].kind = "rest" /\ 1 \in 1 .. Len(Backlog)
      BY <2>1, BacklogType DEF Begun
    <3>2. Backlog'[1].kind = "rest" /\ Backlog' # <<>>
      BY <1>1, <3>1
    <3>3. QED BY <3>2 DEF Begun
  <2>2. QED BY <2>1 DEF Begun
<1>3. Room <= Room' /\ Room \in Nat /\ Room' \in Nat
  BY <1>2, Rooms, MoreRoom
<1>4. \A i \in 1 .. Len(Backlog') :
        \/ i \in 1 .. Len(Backlog) /\ Backlog'[i] = Backlog[i]
        \/ Backlog'[i] \in {e, a}
  <2>1. SUFFICES ASSUME NEW i \in 1 .. Len(Backlog) + 2
                 PROVE \/ i \in 1 .. Len(Backlog) /\ Backlog'[i] = Backlog[i]
                       \/ Backlog'[i] \in {e, a}
    BY <1>1
  <2>2. i \in 1 .. Len(Backlog) \/ i = Len(Backlog) + 1 \/ i = Len(Backlog) + 2
    BY <1>1
  <2>3. QED BY <1>1, <2>2
<1>5. AgesFit'
  <2> SUFFICES ASSUME NEW i \in 1 .. Len(Backlog'), Age(Backlog'[i], tx) > 0
               PROVE  Age(Backlog'[i], tx) + 2 * i <= Room'
    BY DEF AgesFit
  <2>1. Backlog'[i] \notin {e, a}
    <3>1. Age(e, tx) = 0 /\ Age(a, tx) = 0
      BY Ages, BacklogType
    <3>2. QED BY <3>1
  <2>2. i \in 1 .. Len(Backlog) /\ Backlog'[i] = Backlog[i]
    BY <1>4, <2>1
  <2>3. Age(Backlog[i], tx) + 2 * i <= Room
    BY <2>2 DEF AgesFit
  <2>4. Age(Backlog[i], tx) \in Nat /\ i \in Nat
    BY <2>2, BacklogType
  <2>5. QED BY <1>3, <2>2, <2>3, <2>4
<1>6. LinesFit'
  <2>1. e.len <= 2 * RxLimit + 2 /\ a.len <= 2 * RxLimit + 2
    <3>1. CmdLen[tx] \in Nat /\ CmdLen[tx] < RxLimit /\ RxLimit \in Nat
      BY TxFacts, BacklogType DEF CommandsFit
    <3>2. QED BY <3>1 DEF LateFits
  <2> SUFFICES ASSUME NEW i \in 1 .. Len(Backlog')
               PROVE  /\ Backlog'[i].len <= 2 * RxLimit + 2
                      /\ Backlog'[i].kind = "rest" => Backlog'[i].len <= RxLimit + 2
    BY DEF LinesFit
  <2>2. CASE i \in 1 .. Len(Backlog) /\ Backlog'[i] = Backlog[i]
    BY <2>2 DEF LinesFit
  <2>3. CASE Backlog'[i] \in {e, a}
    BY <2>1, <2>3
  <2>4. QED BY <1>4, <2>2, <2>3
<1>7. QED BY <1>5, <1>6

\* With the first line gone every other line moves up by one place, which
\* makes up for the end of the exchange and of a half read line.
LEMMA LinesTaken ==
  ASSUME TypeOK, TypeOK', AgesFit, LinesFit, tx' = tx, timeouts' = timeouts,
         Backlog # <<>>, Backlog' = Tail(Backlog)
  PROVE  AgesFit' /\ LinesFit'
<1>1. /\ Len(Backlog') = Len(Backlog) - 1 /\ Len(Backlog) \in Nat
      /\ \A i \in 1 .. Len(Backlog') :
           i + 1 \in 1 .. Len(Backlog) /\ Backlog'[i] = Backlog[i + 1]
  <2>1. /\ Len(Backlog') = Len(Backlog) - 1 /\ Len(Backlog) \in Nat
        /\ \A i \in 1 .. Len(Backlog') : Backlog'[i] = Backlog[i + 1]
    BY BacklogType, HeadTailProperties
  <2>2. QED BY <2>1
<1>2. Room <= Room' + 2 /\ Room \in Nat /\ Room' \in Nat
  BY Rooms
<1>3. AgesFit'
  <2> SUFFICES ASSUME NEW i \in 1 .. Len(Backlog'), Age(Backlog'[i], tx) > 0
               PROVE  Age(Backlog'[i], tx) + 2 * i <= Room'
    BY DEF AgesFit
  <2>1. i + 1 \in 1 .. Len(Backlog) /\ Backlog'[i] = Backlog[i + 1]
    BY <1>1
  <2>2. Age(Backlog[i + 1], tx) + 2 * (i + 1) <= Room
    BY <2>1 DEF AgesFit
  <2>3. Age(Backlog[i + 1], tx) \in Nat /\ i \in Nat
    BY <1>1, <2>1, BacklogType
  <2>4. QED BY <1>2, <2>1, <2>2, <2>3, MovesUp, Zenon
<1>4. LinesFit'
  BY <1>1 DEF LinesFit
<1>5. QED BY <1>3, <1>4

\* Half a line taken: the rest keeps its place, and will not be split again.
LEMMA LinesSplit ==
  ASSUME TypeOK, TypeOK', AgesFit, LinesFit, tx' = tx, timeouts' = timeouts,
         Backlog # <<>>, Backlog[1].len > RxLimit + 2,
         NEW l \in Line, Backlog' = <<l>> \o Tail(Backlog),
         l.kind = "rest", l.tx = Backlog[1].tx, l.len = Backlog[1].len - RxLimit
  PROVE  AgesFit' /\ LinesFit'
<1>1. /\ Len(Backlog') = Len(Backlog) /\ Backlog'[1] = l
      /\ \A i \in 2 .. Len(Backlog) : Backlog'[i] = Backlog[i]
      /\ Len(Backlog) \in Nat /\ Len(Backlog) > 0
  <2>1. /\ Backlog \in Seq(Line) /\ Tail(Backlog) \in Seq(Line) /\ <<l>> \in Seq(Line)
        /\ Len(Tail(Backlog)) = Len(Backlog) - 1 /\ Len(<<l>>) = 1 /\ <<l>>[1] = l
        /\ Len(Backlog) \in Nat /\ Len(Backlog) > 0
        /\ \A i \in 1 .. Len(Tail(Backlog)) : Tail(Backlog)[i] = Backlog[i + 1]
    BY BacklogType, HeadTailProperties
  <2>2. /\ Len(Backlog') = Len(<<l>>) + Len(Tail(Backlog))
        /\ \A i \in 1 .. Len(<<l>>) + Len(Tail(Backlog)) :
             Backlog'[i] = IF i <= Len(<<l>>) THEN <<l>>[i] ELSE Tail(Backlog)[i - Len(<<l>>)]
    BY <2>1, ConcatProperties
  <2>3. Len(Backlog') = Len(Backlog) /\ Backlog'[1] = l
    BY <2>1, <2>2
  <2>4. ASSUME NEW i \in 2 .. Len(Backlog) PROVE Backlog'[i] = Backlog[i]
    <3>1. i - 1 \in 1 .. Len(Tail(Backlog)) /\ ~(i <= 1) /\ (i - 1) + 1 = i
          /\ i \in 1 .. Len(<<l>>) + Len(Tail(Backlog))
      BY <2>1
    <3>2. QED BY <2>1, <2>2, <3>1
  <2>5. QED BY <2>1, <2>3, <2>4
<1>2. Backlog[1].kind # "rest" /\ Backlog[1].len <= 2 * RxLimit + 2
  <2>1. 1 \in 1 .. Len(Backlog) /\ Backlog[1] \in Line /\ RxLimit \in Nat
    BY <1>1, BacklogType
  <2>2. Backlog[1].len \in Nat
    BY <2>1 DEF Line
  <2>3. QED BY <2>1, <2>2 DEF LinesFit
<1>3. Room <= Room' /\ Room \in Nat /\ Room' \in Nat
  <2>1. Begun = 0 /\ Begun' = 1
    BY <1>1, <1>2 DEF Begun
  <2>2. QED BY <2>1, Rooms
<1>4. AgesFit'
  <2> SUFFICES ASSUME NEW i \in 1 .. Len(Backlog), Age(Backlog'[i], tx) > 0
               PROVE  Age(Backlog'[i], tx) + 2 * i <= Room'
    BY <1>1 DEF AgesFit
  <2>1. Age(Backlog'[i], tx) = Age(Backlog[i], tx)
    <3>1. i = 1 \/ i \in 2 .. Len(Backlog)
      BY <1>1
    <3>2. QED BY <1>1, <3>1 DEF Age
  <2>2. Age(Backlog[i], tx) + 2 * i <= Room
    BY <2>1 DEF AgesFit
  <2>3. Age(Backlog[i], tx) \in Nat /\ i \in Nat
    BY BacklogType
  <2>4. QED BY <1>3, <2>1, <2>2, <2>3
<1>5. LinesFit'
  <2> SUFFICES ASSUME NEW i \in 1 .. Len(Backlog)
               PROVE  /\ Backlog'[i].len <= 2 * RxLimit + 2
                      /\ Backlog'[i].kind = "rest" => Backlog'[i].len <= RxLimit + 2
    BY <1>1 DEF LinesFit
  <2>1. CASE i = 1
    <3>1. Backlog[1].len \in Nat /\ RxLimit \in Nat
      BY <2>1, BacklogType DEF Line
    <3>2. l.len <= RxLimit + 2
      BY <1>2, <3>1
    <3>3. QED BY <1>1, <2>1, <3>1, <3>2
  <2>2. CASE i \in 2 .. Len(Backlog)
    BY <1>1, <2>2 DEF LinesFit
  <2>3. QED BY <1>1, <2>1, <2>2
<1>6. QED BY <1>4, <1>5

\* The next command: every unread line gets one transaction older, and there is
\* room for that, because few lines are unread and an exchange is open now.
LEMMA BeginStep ==
  ASSUME LateFits, TypeOK, TypeOK', Late, Begin
  PROVE  Late'
<1>1. /\ pc = "due" /\ pc' = "chunk" /\ Backlog' = Backlog /\ timeouts' = timeouts
      /\ tx' = (tx + 1) % TxLimit /\ lag' = Len(Backlog) /\ Len(Backlog) <= MaxBacklog
  BY DEF Begin, Backlog, device, link, Late, LateFirst
<1>2. Room' = Room + 1 /\ Room \in Nat /\ Room' \in Nat
  <2>1. Begun' = Begun /\ Open = 0 /\ Open' = 1
    BY <1>1 DEF Begun, Open
  <2>2. QED BY <1>1, <2>1, Rooms
<1>3. Room <= 2 * MaxBacklog + MaxTimeouts + 1
  <2>1. Open = 0 /\ Begun \in {0, 1}
    BY <1>1 DEF Open, Begun
  <2>2. timeouts \in 0 .. MaxTimeouts /\ MaxTimeouts \in Nat /\ MaxBacklog \in Nat
    BY BacklogType
  <2>3. QED BY <2>1, <2>2 DEF Room
<1>4. ASSUME NEW i \in 1 .. Len(Backlog)
      PROVE  /\ Age(Backlog[i], tx') = Age(Backlog[i], tx) + 1
             /\ Age(Backlog[i], tx') + 2 * i <= Room'
             /\ Backlog[i].tx # tx'
  <2> DEFINE age == Age(Backlog[i], tx)
  <2>1. /\ Backlog[i] \in Line /\ tx \in Tx /\ tx' \in Tx /\ age \in Nat
        /\ MaxBacklog \in Nat /\ MaxTimeouts \in Nat /\ TxLimit \in Nat
    BY BacklogType DEF TypeOK
  <2>2. age > 0 => age + 2 * i <= Room
    BY DEF Late, AgesFit
  <2>3. age = Age(Backlog[i], tx)
    OBVIOUS
  <2> HIDE DEF age
  <2>4. age + 2 * i <= Room
    <3>1. age = 0 => age + 2 * i <= Room
      <4>1. i <= MaxBacklog /\ i \in Nat
        BY <1>1, <2>1, BacklogType
      <4>2. Room >= 2 * MaxBacklog
        <5>1. Open \in Nat /\ Begun \in Nat /\ timeouts \in Nat
          BY <2>1, Rooms
        <5>2. QED BY <2>1, <5>1 DEF Room
      <4>3. QED BY <1>2, <2>1, <4>1, <4>2
    <3>2. QED BY <2>1, <2>2, <3>1
  <2>5. age + 1 < TxLimit
    <3>1. 2 * i >= 2
      OBVIOUS
    <3>2. 2 * MaxBacklog + MaxTimeouts < TxLimit
      BY DEF LateFits
    <3>3. QED BY <1>2, <1>3, <2>1, <2>4, <3>1, <3>2
  <2>6. Age(Backlog[i], tx') = age + 1
    BY <1>1, <2>1, <2>3, <2>5, Ages
  <2>7. Age(Backlog[i], tx') + 2 * i <= Room'
    BY <1>2, <2>1, <2>4, <2>6
  <2>8. Backlog[i].tx # tx'
    BY <2>1, <2>6, Ages
  <2>9. QED BY <2>3, <2>6, <2>7, <2>8
<1>5. AgesFit'
  BY <1>1, <1>4 DEF AgesFit
<1>6. LinesFit'
  BY <1>1 DEF Late, LinesFit
<1>7. LateFirst'
  BY <1>1, <1>4, BacklogType DEF LateFirst
<1>8. QED BY <1>5, <1>6, <1>7 DEF Late

\* A packet, sent, timed out or refused: the lines stay where they are, and
\* an exchange is given up only after a time-out or a disconnect.
LEMMA PacketStep ==
  ASSUME CommandsFit, LateFits, TypeOK, TypeOK', Counted, Late,
         ChunkSent \/ ChunkTimesOut \/ ChunkRefused
  PROVE  Late'
<1>1. /\ pc = "chunk" /\ pc' \in {"idle", "chunk", "receive"}
      /\ UNCHANGED <<tx, configured, inbox, lag, accepted>>
  BY DEF ChunkSent, ChunkTimesOut, ChunkRefused, AfterSend
<1>2. CASE ~configured
  <2>1. Backlog = <<>> /\ owed' = owed
    BY <1>2 DEF ChunkSent, ChunkTimesOut, ChunkRefused, Counted, device
  <2>2. Backlog' = <<>>
    BY <1>1, <2>1 DEF Backlog
  <2>3. QED BY <1>1, <1>2, <2>2 DEF Late, AgesFit, LinesFit, LateFirst
<1>3. CASE configured
  <2>1. ChunkSent \/ ChunkTimesOut
    BY <1>1, <1>3 DEF ChunkRefused, Counted
  <2>2. ChunkLen \in Nat /\ ChunkLen # 0
    BY <2>1, ExchangeAssumption DEF ChunkLen, Smaller, TypeOK, ChunkSent, ChunkTimesOut
  <2>3. timeouts + Open <= timeouts' + Open'
    <3>1. /\ timeouts \in Nat /\ timeouts' \in Nat /\ Open = 1
          /\ Open' \in {0, 1} /\ (pc' # "idle" => Open' = 1)
      BY <1>1, Rooms DEF Open
    <3>2. CASE ChunkSent
      <4>1. timeouts' = timeouts /\ pc' # "idle"
        BY <2>2, <3>2 DEF ChunkSent, AfterSend
      <4>2. Open' = Open
        BY <3>1, <4>1
      <4>3. timeouts' + Open' = timeouts + Open
        BY <4>1, <4>2
      <4>4. timeouts + Open \in Nat
        BY <3>1
      <4>5. QED BY <4>3, <4>4
    <3>3. CASE ChunkTimesOut
      <4>1. timeouts' = timeouts + 1
        BY <3>3 DEF ChunkTimesOut
      <4>2. \A t \in Nat, o \in {0, 1} : t + 1 <= (t + 1) + o
        OBVIOUS
      <4>3. QED BY <3>1, <4>1, <4>2, Zenon
    <3>4. QED BY <2>1, <3>2, <3>3
  <2>4. Deliver(ChunkLen) \/ UNCHANGED device
    BY <2>1 DEF ChunkSent, ChunkTimesOut, device
  <2>5. \/ Backlog' = Backlog
        \/ \E e \in Line, a \in Line :
             /\ Backlog' = Backlog \o <<e, a>>
             /\ e.tx = tx /\ e.kind # "rest" /\ e.len = CmdLen[tx]
             /\ a.tx = tx /\ a.kind # "rest" /\ a.len \in ResponseLens
    BY <1>1, <2>2, <2>4, DeliverAdds
  <2>6. AgesFit /\ LinesFit
    BY DEF Late
  <2>7. AgesFit' /\ LinesFit'
    <3>1. CASE Backlog' = Backlog
      BY <1>1, <2>3, <2>6, <3>1, LinesKept
    <3>2. CASE Backlog' # Backlog
      BY <1>1, <2>3, <2>5, <2>6, <3>2, LinesAdded
    <3>3. QED BY <3>1, <3>2
  <2>8. Len(Backlog) <= Len(Backlog') /\ \A i \in 1 .. Len(Backlog) : Backlog'[i] = Backlog[i]
    <3>1. Backlog \in Seq(Line) /\ Len(Backlog) \in Nat
      BY BacklogType
    <3>2. \A e, a \in Line : /\ Len(Backlog \o <<e, a>>) = Len(Backlog) + 2
                             /\ \A i \in 1 .. Len(Backlog) : (Backlog \o <<e, a>>)[i] = Backlog[i]
      <4>1. SUFFICES ASSUME NEW e \in Line, NEW a \in Line
                     PROVE  /\ Len(Backlog \o <<e, a>>) = Len(Backlog) + 2
                            /\ \A i \in 1 .. Len(Backlog) : (Backlog \o <<e, a>>)[i] = Backlog[i]
        OBVIOUS
      <4>2. <<e, a>> \in Seq(Line) /\ Len(<<e, a>>) = 2
        OBVIOUS
      <4>3. QED BY <3>1, <4>2, ConcatProperties
    <3>3. CASE Backlog' = Backlog
      BY <3>1, <3>3
    <3>4. CASE Backlog' # Backlog
      <4>1. PICK e \in Line, a \in Line : Backlog' = Backlog \o <<e, a>>
        BY <2>5, <3>4
      <4>2. /\ Len(Backlog') = Len(Backlog) + 2
            /\ \A i \in 1 .. Len(Backlog) : Backlog'[i] = Backlog[i]
        BY <3>2, <4>1
      <4>3. QED BY <3>1, <4>2
    <3>5. QED BY <3>3, <3>4
  <2>9. LateFirst'
    <3>1. lag <= Len(Backlog) /\ \A i \in 1 .. lag : Backlog[i].tx # tx
      BY <1>1, <1>3 DEF Late, LateFirst
    <3>2. lag \in Nat /\ Len(Backlog) \in Nat /\ Len(Backlog') \in Nat
      <4>1. Len(Backlog') \in Nat
        BY ConcatProperties, LenProperties DEF TypeOK, Backlog
      <4>2. QED BY <4>1, BacklogType
    <3>3. lag <= Len(Backlog') /\ \A i \in 1 .. lag : Backlog'[i].tx # tx
      BY <2>8, <3>1, <3>2
    <3>4. QED BY <1>1, <3>3 DEF LateFirst
  <2>10. QED BY <2>7, <2>9 DEF Late
<1>4. QED BY <1>2, <1>3

\* receive_response takes a late line as the response, since a line of another
\* command is never recognized as the echo.
LEMMA TakeStep ==
  ASSUME TypeOK, TypeOK', Late, Receive
  PROVE  Late' /\ (lag > 0 => pc' = "parse")
<1>1. /\ pc = "receive" /\ configured /\ Backlog # <<>>
      /\ UNCHANGED <<tx, configured, lag, timeouts>>
      /\ \/ pc' = "receive" /\ Backlog[1].tx = tx /\ Backlog' = Tail(Backlog)
         \/ /\ pc' = "parse" /\ accepted'.tx = Backlog[1].tx
            /\ \/ Backlog' = Tail(Backlog)
               \/ /\ Backlog[1].len > RxLimit + 2
                  /\ \E l \in Line :
                       /\ l.kind = "rest" /\ l.tx = Backlog[1].tx
                       /\ l.len = Backlog[1].len - RxLimit
                       /\ Backlog' = <<l>> \o Tail(Backlog)
  BY ReceiveTakes
<1>2. AgesFit' /\ LinesFit'
  <2>1. AgesFit /\ LinesFit
    BY DEF Late
  <2>2. CASE Backlog' = Tail(Backlog)
    BY <1>1, <2>1, <2>2, LinesTaken
  <2>3. CASE Backlog' # Tail(Backlog)
    BY <1>1, <2>1, <2>3, LinesSplit
  <2>4. QED BY <2>2, <2>3
<1>3. lag > 0 => Backlog[1].tx # tx
  <2>1. \A i \in 1 .. lag : Backlog[i].tx # tx
    BY <1>1 DEF Late, LateFirst
  <2>2. lag \in Nat
    BY BacklogType
  <2>3. lag > 0 => 1 \in 1 .. lag
    BY <2>2
  <2>4. QED BY <2>1, <2>3
<1>4. LateFirst'
  <2>1. CASE lag > 0
    BY <1>1, <1>3, <2>1 DEF LateFirst
  <2>2. CASE ~(lag > 0)
    <3>1. lag = 0 /\ Len(Backlog') \in Nat
      <4>1. Backlog' \in Seq(Line)
        BY ConcatProperties DEF TypeOK, Backlog
      <4>2. QED BY <2>2, <4>1, BacklogType, LenProperties
    <3>2. QED BY <1>1, <3>1 DEF LateFirst
  <2>3. QED BY <2>1, <2>2
<1>5. QED BY <1>1, <1>2, <1>3, <1>4 DEF Late

\* A step that leaves the main program and the unread lines alone keeps Late.
LEMMA StaysLate ==
  ASSUME TypeOK, TypeOK', Late, Backlog' = Backlog,
         UNCHANGED <<pc, tx, accepted, configured, lag, timeouts>>
  PROVE  Late'
<1>1. AgesFit' /\ LinesFit'
  <2>1. timeouts + Open <= timeouts' + Open'
    BY Rooms DEF Open
  <2>2. QED BY <2>1, LinesKept DEF Late
<1>2. LateFirst'
  BY DEF Late, LateFirst
<1>3. QED BY <1>1, <1>2 DEF Late

\* Every step but those of a disconnect and of what a torn one left behind.
Orderly == Undisturbed \/ ChunkTimesOut \/ UNCHANGED vars

\* They do not tear the ring's reset.
LEMMA OrderlyFacts == Orderly => torn' = torn
BY DEF Orderly, Undisturbed, Receive, Poll, Begin, ChunkSent, ChunkTimesOut, ChunkRefused,
       AfterSend, SkipEcho, TakeLine, TakeFullBuffer, Parse, DeviceSends, Connect,
       Enumerate, history, vars

\* Orderly steps keep Late.
LEMMA LateStep ==
  ASSUME CommandsFit, LateFits, TypeOK, TypeOK', Counted, Late, Orderly
  PROVE  Late'
<1>1. CASE Poll
  <2>1. /\ UNCHANGED <<tx, timeouts, Backlog>> /\ Len(Backlog) <= MaxBacklog
        /\ pc = "idle" /\ pc' = "due"
    BY <1>1 DEF Poll, Backlog, device, link, history
  <2>2. AgesFit' /\ LinesFit'
    <3>1. timeouts + Open <= timeouts' + Open'
      BY <2>1, Rooms DEF Open
    <3>2. QED BY <2>1, <3>1, LinesKept DEF Late
  <2>3. LateFirst'
    BY <2>1 DEF LateFirst
  <2>4. QED BY <2>2, <2>3 DEF Late
<1>2. CASE Begin
  BY <1>2, BeginStep
<1>3. CASE ChunkSent \/ ChunkTimesOut \/ ChunkRefused
  BY <1>3, PacketStep
<1>4. CASE Receive
  BY <1>4, TakeStep
<1>5. CASE Parse
  <2>1. /\ UNCHANGED <<tx, timeouts, Backlog>>
        /\ pc = "parse" /\ pc' \in {"idle", "looping"}
    BY <1>5 DEF Parse, Backlog, device, link, history
  <2>2. AgesFit' /\ LinesFit'
    <3>1. timeouts + Open <= timeouts' + Open'
      BY <2>1, Rooms DEF Open
    <3>2. QED BY <2>1, <3>1, LinesKept DEF Late
  <2>3. LateFirst'
    BY <2>1 DEF LateFirst
  <2>4. QED BY <2>2, <2>3 DEF Late
<1>6. CASE DeviceSends
  <2>1. Backlog' = Backlog
    BY <1>6, MoveLine DEF DeviceSends, Backlog, TypeOK
  <2>2. UNCHANGED <<pc, tx, accepted, configured, lag, timeouts>>
    BY <1>6 DEF DeviceSends, program, link, history
  <2>3. QED BY <2>1, <2>2, StaysLate
<1>7. CASE Connect
  BY <1>7, StaysLate DEF Connect, program, device, history, Backlog
<1>8. CASE Enumerate
  <2>1. /\ Backlog = <<>> /\ Backlog' = <<>> /\ Len(<<>>) = 0
        /\ pc' = "idle"
    BY <1>8, EmptySeq DEF Enumerate, Backlog, program, device, Counted
  <2>2. QED BY <2>1 DEF Late, AgesFit, LinesFit, LateFirst
<1>9. CASE UNCHANGED vars
  BY <1>9, StaysLate DEF vars, Backlog
<1>10. QED
  BY <1>1, <1>2, <1>3, <1>4, <1>5, <1>6, <1>7, <1>8, <1>9
  DEF Orderly, Undisturbed

\* While no torn reset has left old bytes in the ring, Late holds; a disconnect
\* that is not torn makes the ring clean again.
LEMMA LateHolds == CommandsFit /\ LateFits => (Spec => [](~torn => Late))
<1> SUFFICES ASSUME CommandsFit, LateFits PROVE Spec => [](~torn => Late)
  OBVIOUS
<1>1. Init => Late
  <2> SUFFICES ASSUME Init PROVE Late
    OBVIOUS
  <2>1. Backlog = <<>> /\ Len(Backlog) = 0
    BY ConcatEmptySeq, EmptySeq DEF Init, Backlog
  <2>2. QED BY <2>1 DEF Init, Late, AgesFit, LinesFit, LateFirst
<1>2. TypeOK /\ TypeOK' /\ Counted /\ (~torn => Late) /\ [Next]_vars => (~torn' => Late')
  <2> SUFFICES ASSUME TypeOK, TypeOK', Counted, ~torn => Late, [Next]_vars, ~torn'
               PROVE  Late'
    OBVIOUS
  <2>1. CASE Orderly
    BY <2>1, OrderlyFacts, LateStep
  <2>2. CASE Disconnect
    <3>1. /\ Backlog' = <<>> /\ ~configured' /\ Len(<<>>) = 0
          /\ UNCHANGED <<pc, tx, accepted, lag>> /\ (torn => pc # "parse")
      BY <2>2, ConcatEmptySeq, EmptySeq DEF Disconnect, Backlog, program
    <3>2. MaxBacklog \in Nat
      BY BacklogType
    <3>3. AgesFit' /\ LinesFit'
      BY <3>1 DEF AgesFit, LinesFit
    <3>4. pc = "parse" /\ lag > 0 => accepted.tx # tx
      BY <3>1 DEF Late, LateFirst
    <3>5. LateFirst'
      BY <3>1, <3>2, <3>4 DEF LateFirst
    <3>6. QED BY <3>3, <3>5 DEF Late
  <2>3. CASE TornDisconnect
    BY <2>3 DEF TornDisconnect
  <2>4. CASE ReadStale
    BY <2>4 DEF ReadStale, history
  <2>5. QED
    BY <2>1, <2>2, <2>3, <2>4 DEF Next, Replugged, Orderly
<1>3. QED BY <1>1, <1>2, TypeCorrect, CountedHolds, PTL DEF Spec

\* LateStaysLate of SsmExchange: a command that begins while lines are unread
\* never gets its own answer, whatever times out and is replugged; only the
\* old bytes a torn reset leaves in the ring could change that.
THEOREM LateCorrect == CommandsFit /\ LateFits => (Spec => []LateStaysLate)
<1>1. (~torn => Late) => LateStaysLate
  BY DEF Late, LateFirst, LateStaysLate
<1>2. QED BY <1>1, LateHolds, PTL

\* Why LagGrows holds: the echo and the answer of the current command are
\* behind the late lines, and only one line of the three is consumed.
Growing ==
  timeouts = 0 /\ ~torn /\ configured /\ lag > 0 =>
    /\ pc = "receive" => Len(Backlog) >= lag + 2
    /\ pc = "parse" => Len(Backlog) >= lag + 1

\* Orderly steps keep Growing.
LEMMA GrowingStep ==
  ASSUME CommandsFit, LateFits, TypeOK, TypeOK', Counted, Late, Growing, Orderly, ~torn
  PROVE  Growing'
<1>1. CASE Poll \/ Begin \/ Parse \/ Enumerate
  <2>1. pc' \notin {"receive", "parse"}
    BY <1>1 DEF Poll, Begin, Parse, Enumerate, program
  <2>2. QED BY <2>1 DEF Growing
<1>2. CASE ChunkSent
  <2>1. /\ pc = "chunk" /\ configured /\ pc' \in {"idle", "chunk", "receive"}
        /\ UNCHANGED <<configured, timeouts, inbox, lag>>
    BY <1>2 DEF ChunkSent, AfterSend
  <2>2. ASSUME timeouts = 0, pc' = "receive" PROVE Len(Backlog') >= lag' + 2
    <3>1. \E r \in ResponseLens : owed' = owed \o <<Echo(tx), Response(tx, r)>>
      BY <1>2, <2>1, <2>2, ChunkTaken DEF Counted
    <3>2. PICK r \in ResponseLens : owed' = owed \o <<Echo(tx), Response(tx, r)>>
      BY <3>1
    <3>3. Echo(tx) \in Line /\ Response(tx, r) \in Line
      BY LineFacts DEF TypeOK
    <3>4. Backlog' = Backlog \o <<Echo(tx), Response(tx, r)>>
      <4>1. <<Echo(tx), Response(tx, r)>> \in Seq(Line)
        BY <3>3
      <4>2. inbox \in Seq(Line) /\ owed \in Seq(Line)
        BY DEF TypeOK
      <4>3. inbox \o (owed \o <<Echo(tx), Response(tx, r)>>)
              = (inbox \o owed) \o <<Echo(tx), Response(tx, r)>>
        BY <4>1, <4>2, ConcatAssociative
      <4>4. QED BY <2>1, <3>2, <4>3, Zenon DEF Backlog
    <3>5. Len(Backlog') = Len(Backlog) + 2
      BY <3>3, <3>4, BacklogType, ConcatProperties
    <3>6. lag <= Len(Backlog) /\ lag \in Nat /\ Len(Backlog) \in Nat
      BY <2>1, BacklogType DEF Late, LateFirst
    <3>7. QED BY <2>1, <3>5, <3>6
  <2>3. QED BY <2>1, <2>2 DEF Growing
<1>3. CASE ChunkTimesOut
  <2>1. timeouts' # 0
    BY <1>3 DEF ChunkTimesOut, TypeOK
  <2>2. QED BY <2>1 DEF Growing
<1>4. CASE ChunkRefused
  <2>1. ~configured'
    BY <1>4 DEF ChunkRefused, AfterSend, Counted
  <2>2. QED BY <2>1 DEF Growing
<1>5. CASE Receive
  <2>1. lag > 0 => pc' = "parse"
    BY <1>5, TakeStep
  <2>2. /\ pc = "receive" /\ Backlog # <<>> /\ UNCHANGED <<configured, lag, timeouts>>
        /\ \/ Backlog' = Tail(Backlog)
           \/ \E l \in Line : Backlog' = <<l>> \o Tail(Backlog)
    BY <1>5, ReceiveTakes
  <2>3. Len(Backlog') >= Len(Backlog) - 1 /\ Len(Backlog') \in Nat /\ Len(Backlog) \in Nat
    <3>1. /\ Backlog \in Seq(Line) /\ Tail(Backlog) \in Seq(Line) /\ Len(Backlog) \in Nat
          /\ Len(Tail(Backlog)) = Len(Backlog) - 1 /\ Len(Backlog) > 0
      BY <2>2, BacklogType, HeadTailProperties
    <3>2. \A l \in Line : Len(<<l>> \o Tail(Backlog)) = Len(Backlog)
      <4>1. \A l \in Line : <<l>> \in Seq(Line) /\ Len(<<l>>) = 1
        OBVIOUS
      <4>2. QED BY <3>1, <4>1, ConcatProperties
    <3>3. CASE Backlog' = Tail(Backlog)
      BY <3>1, <3>3
    <3>4. CASE Backlog' # Tail(Backlog)
      <4>1. PICK l \in Line : Backlog' = <<l>> \o Tail(Backlog)
        BY <2>2, <3>4
      <4>2. Len(Backlog') = Len(Backlog)
        BY <3>2, <4>1
      <4>3. QED BY <3>1, <4>2
    <3>5. QED BY <3>3, <3>4
  <2>4. lag \in Nat
    BY BacklogType
  <2>5. QED BY <2>1, <2>2, <2>3, <2>4 DEF Growing
<1>6. CASE DeviceSends
  <2>1. Backlog' = Backlog
    BY <1>6, MoveLine DEF DeviceSends, Backlog, TypeOK
  <2>2. QED BY <1>6, <2>1 DEF DeviceSends, program, link, history, Growing
<1>7. CASE Connect
  BY <1>7 DEF Connect, program, device, history, Backlog, Growing
<1>8. CASE UNCHANGED vars
  BY <1>8 DEF vars, Backlog, Growing
<1>9. QED
  BY <1>1, <1>2, <1>3, <1>4, <1>5, <1>6, <1>7, <1>8
  DEF Orderly, Undisturbed

\* Growing is inductive.
LEMMA GrowingHolds == CommandsFit /\ LateFits => (Spec => []Growing)
<1> SUFFICES ASSUME CommandsFit, LateFits PROVE Spec => []Growing
  OBVIOUS
<1>1. Init => Growing
  BY DEF Init, Growing
<1>2. TypeOK /\ TypeOK' /\ Counted /\ (~torn => Late) /\ Growing /\ [Next]_vars => Growing'
  <2> SUFFICES ASSUME TypeOK, TypeOK', Counted, ~torn => Late, Growing, [Next]_vars
               PROVE  Growing'
    OBVIOUS
  <2>1. CASE Orderly
    <3>1. CASE torn
      BY <2>1, <3>1, OrderlyFacts DEF Growing
    <3>2. CASE ~torn
      BY <2>1, <3>2, GrowingStep
    <3>3. QED BY <3>1, <3>2
  <2>2. CASE Disconnect
    BY <2>2 DEF Disconnect, Growing
  <2>3. CASE TornDisconnect
    BY <2>3 DEF TornDisconnect, Growing
  <2>4. CASE ReadStale
    BY <2>4 DEF ReadStale, history, Growing
  <2>5. QED
    BY <2>1, <2>2, <2>3, <2>4 DEF Next, Replugged, Orderly
<1>3. QED BY <1>1, <1>2, TypeCorrect, CountedHolds, LateHolds, PTL DEF Spec

\* LagGrows of SsmExchange: without a time-out in this connection or old bytes in
\* the ring every reading that begins with lines unread leaves more lines than that.
THEOREM LagCorrect == CommandsFit /\ LateFits => (Spec => []LagGrows)
<1>1. TypeOK /\ Growing => LagGrows
  <2> SUFFICES ASSUME TypeOK, Growing, pc = "parse", lag > 0, timeouts = 0, ~torn, configured
               PROVE  Len(Backlog) > lag
    BY DEF LagGrows
  <2>1. Len(Backlog) >= lag + 1 /\ Len(Backlog) \in Nat /\ lag \in Nat
    BY BacklogType DEF Growing
  <2>2. QED BY <2>1
<1>2. QED BY <1>1, GrowingHolds, TypeCorrect, PTL
=============================================================================

------------------------------ MODULE ByteFifo ------------------------------
(***************************************************************************)
(* What the receive path of the virtual COM port promises to its caller:   *)
(* the bytes the device sent come out once each and in the order they came *)
(* in, and losing the connection forgets every byte not yet taken.         *)
(***************************************************************************)
EXTENDS Naturals, Sequences

CONSTANTS Byte,   \* the values a received byte can have
          NoByte, \* "no byte returned yet"
          MaxPacketSize

VARIABLES queue,  \* bytes that arrived and were not handed out yet
          out     \* the byte most recently handed to the caller

vars == <<queue, out>>

Packets == UNION {[1 .. n -> Byte] : n \in 1 .. MaxPacketSize}

Init == queue = <<>> /\ out = NoByte

\* The bytes of one packet arrive.
Put(packet) ==
  /\ queue' = queue \o packet
  /\ UNCHANGED out

\* The oldest byte is handed out.
Get ==
  /\ queue # <<>>
  /\ out' = Head(queue)
  /\ queue' = Tail(queue)

\* The connection is lost.  A byte whose hand-over had begun may still be
\* handed out, every other byte is forgotten.
Reset ==
  /\ queue # <<>>
  /\ queue' \in {<<>>, <<Head(queue)>>}
  /\ UNCHANGED out

Next == (\E packet \in Packets : Put(packet)) \/ Get \/ Reset

Spec == Init /\ [][Next]_vars
=============================================================================

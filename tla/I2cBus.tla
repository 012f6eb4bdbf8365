------------------------------- MODULE I2cBus -------------------------------
(***************************************************************************)
(* What the sensor driver expects of the I2C bus: calls are made one at a  *)
(* time; when one returns, the device has carried it out.  Nothing is      *)
(* promised once the device has refused to acknowledge: the write whose    *)
(* last byte it refused may still return, no later call does.              *)
(***************************************************************************)
EXTENDS Naturals

CONSTANT MaxLen   \* most data bytes of a call

VARIABLES
  call,     \* the call in progress, or NoCall
  done,     \* has the device carried it out?
  refused   \* has the device ever failed to acknowledge?

vars == <<call, done, refused>>

\* deaf: the device had failed to acknowledge before the call began.
Calls  == [op : {"write", "read"}, n : 1 .. MaxLen, deaf : BOOLEAN]
NoCall == [op |-> "none", n |-> 0, deaf |-> FALSE]

Init == call = NoCall /\ done = FALSE /\ refused = FALSE

Call ==
  /\ call = NoCall
  /\ call' \in {c \in Calls : c.deaf = refused}
  /\ UNCHANGED <<done, refused>>

CarryOut ==
  /\ call # NoCall /\ ~done /\ ~refused
  /\ done' = TRUE
  /\ UNCHANGED <<call, refused>>

Refuse ==
  /\ call # NoCall /\ ~done
  /\ refused' = TRUE
  /\ UNCHANGED <<call, done>>

Return ==
  /\ done \/ (call.op = "write" /\ refused /\ ~call.deaf)
  /\ call' = NoCall /\ done' = FALSE
  /\ UNCHANGED refused

Next == Call \/ CarryOut \/ Refuse \/ Return

Fairness == WF_vars(CarryOut) /\ WF_vars(done /\ Return)

Spec == Init /\ [][Next]_vars /\ Fairness
=============================================================================

------------------------------ MODULE Dialogue ------------------------------
(***************************************************************************)
(* What the main loop expects of provide_values while every transfer       *)
(* completes: commands are numbered in turn; the SSM hears a command once  *)
(* and as a whole, repeats it and answers it; the answer that ends the     *)
(* call is the one to its own command, and nothing is left to be said.     *)
(* Packets, lengths, buffers and the ring do not show.                     *)
(*                                                                         *)
(* When the connection breaks the SSM falls silent and the call ends       *)
(* without an answer or not at all; there is a new connection only between *)
(* two calls.                                                              *)
(***************************************************************************)
EXTENDS Naturals

CONSTANT TxLimit   \* commands are numbered 0 .. TxLimit - 1

VARIABLES
  step,     \* of the call: "free", "sending", "waiting" or "answered"
  number,   \* of the last command
  linked,   \* is there a connection?
  speech,   \* the next line the SSM says, or has said and is not read, or Silence
  reply     \* the answer the call ends with, or Silence

vars == <<step, number, linked, speech, reply>>

Silence   == [kind |-> "none", tx |-> 0]
Echo(t)   == [kind |-> "echo", tx |-> t]
Answer(t) == [kind |-> "response", tx |-> t]

Init == step = "free" /\ number = 0 /\ ~linked /\ speech = Silence /\ reply = Silence

Link ==
  /\ step = "free" /\ ~linked
  /\ linked' = TRUE
  /\ UNCHANGED <<step, number, speech, reply>>

Ask ==
  /\ step = "free"
  /\ step' = "sending" /\ number' = (number + 1) % TxLimit
  /\ UNCHANGED <<linked, speech, reply>>

\* The SSM has the whole command and repeats it before it answers.
Hear ==
  /\ step = "sending" /\ linked
  /\ step' = "waiting" /\ speech' = Echo(number)
  /\ UNCHANGED <<number, linked, reply>>

SkipEcho ==
  /\ step = "waiting" /\ speech = Echo(number)
  /\ speech' = Answer(number)
  /\ UNCHANGED <<step, number, linked, reply>>

TakeAnswer ==
  /\ step = "waiting" /\ speech = Answer(number)
  /\ step' = "answered" /\ speech' = Silence /\ reply' = speech
  /\ UNCHANGED <<number, linked>>

Return ==
  /\ step = "answered"
  /\ step' = "free" /\ reply' = Silence
  /\ UNCHANGED <<number, linked, speech>>

Unlink ==
  /\ linked
  /\ linked' = FALSE /\ speech' = Silence
  /\ UNCHANGED <<step, number, reply>>

\* Without a connection the call ends, or waits for ever.
GiveUp ==
  /\ step = "sending" /\ ~linked
  /\ step' \in {"free", "waiting"}
  /\ UNCHANGED <<number, linked, speech, reply>>

Next == Link \/ Ask \/ Hear \/ SkipEcho \/ TakeAnswer \/ Return \/ Unlink \/ GiveUp

Fairness == WF_vars(Hear) /\ WF_vars(SkipEcho) /\ WF_vars(TakeAnswer) /\ WF_vars(Return)

Spec == Init /\ [][Next]_vars /\ Fairness
=============================================================================

--------------------------- MODULE MCSsmExchange ---------------------------
(***************************************************************************)
(* Small instances of SsmExchange for TLC.  Lengths are those of the       *)
(* program; only the transaction counter is cut short.                     *)
(***************************************************************************)
EXTENDS SsmExchange

\* Commands grow by one character with every further digit of the number.
MCCmdLen == [t \in Tx |-> IF t < 2 THEN 175 ELSE 176]
=============================================================================

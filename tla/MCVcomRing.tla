----------------------------- MODULE MCVcomRing -----------------------------
(***************************************************************************)
(* Small instances of VcomRing for TLC.                                    *)
(***************************************************************************)
EXTENDS VcomRing, TLC

CONSTANTS a, b, none

MCByte == {a, b}
=============================================================================

---------------------------- MODULE MCI2cMaster -----------------------------
(***************************************************************************)
(* I2cMaster with small FIFOs.                                             *)
(***************************************************************************)
EXTENDS I2cMaster
=============================================================================

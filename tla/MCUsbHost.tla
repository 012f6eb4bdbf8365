------------------------------ MODULE MCUsbHost ------------------------------
(***************************************************************************)
(* UsbHost with few channels, so that leaks exhaust them.                  *)
(***************************************************************************)
EXTENDS UsbHost
=============================================================================

----------------------------- MODULE MCMainLoop -----------------------------
(***************************************************************************)
(* MainLoop with the settings of the program and short days.               *)
(***************************************************************************)
EXTENDS MainLoop
=============================================================================

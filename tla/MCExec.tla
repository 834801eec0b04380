------------------------------- MODULE MCExec -------------------------------
(***************************************************************************)
(* Small instances of a grouped call for TLC.                              *)
(***************************************************************************)
EXTENDS GroupedExec, TLC
=============================================================================

------------------------------ MODULE MCStream ------------------------------
(***************************************************************************)
(* Small instances of the event stream for TLC.                            *)
(***************************************************************************)
EXTENDS EventStream, TLC
=============================================================================

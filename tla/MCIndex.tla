------------------------------ MODULE MCIndex ------------------------------
(***************************************************************************)
(* Small instances of the symbol index for TLC.                            *)
(***************************************************************************)
EXTENDS IndexSync, TLC
=============================================================================

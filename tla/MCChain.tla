------------------------------ MODULE MCChain ------------------------------
(***************************************************************************)
(* Small instances of the chain for TLC.                                   *)
(***************************************************************************)
EXTENDS Chain, TLC

Symmetry == Permutations(Keys) \cup Permutations(Procs)
=============================================================================

------------------------------ MODULE MCVerify ------------------------------
(***************************************************************************)
(* Small instances of verification runs for TLC.                           *)
(***************************************************************************)
EXTENDS VerifyRun, TLC

\* Every transaction covers every path.
MCCovers == [t \in Txs |-> Paths]

Symmetry == Permutations(Procs)
=============================================================================

------------------------------ MODULE MCHooks ------------------------------
(***************************************************************************)
(* Small instances of the hook lifecycle for TLC.                          *)
(***************************************************************************)
EXTENDS HookLifecycle, TLC

CONSTANTS t1, t2, t3, m1, m2, m3

\* Of three messages, the last one has a Ledger: line.
MCRef == [m \in {m1, m2, m3} |-> IF m = m3 THEN t1 ELSE NoTx]
MCNoRef == [m \in {m1, m2} |-> NoTx]

\* t1 and m3 are told apart by the Ledger: line, the others are alike.
Symmetry == Permutations({t2, t3}) \cup Permutations({m1, m2})
=============================================================================

------------------------------ MODULE MCLedger ------------------------------
(***************************************************************************)
(* Small instances of the ledger for TLC.                                  *)
(***************************************************************************)
EXTENDS LedgerProps, TLC

CONSTANTS t1, t2, t3, p1, p2, e1, e2

\* Rows, processes and entities are alike.
Symmetry == Permutations({t1, t2, t3}) \cup Permutations({p1, p2})
              \cup Permutations({e1, e2})
=============================================================================

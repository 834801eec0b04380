--------------------------- MODULE LedgerContract ---------------------------
(***************************************************************************)
(* What the transaction ledger promises its callers, with every operation  *)
(* reduced to one indivisible step: a change is opened on an entity that   *)
(* has no other open change, drift is noted at most once per entity, and   *)
(* resolving a set of changes flips their statuses and records exactly one *)
(* outcome for each of them in the append-only log, all together.          *)
(*                                                                         *)
(* Ledger.tla (the SQLite-backed TransactionManager) is shown to implement *)
(* this module; HookLifecycle.tla uses it in place of the detailed ledger. *)
(***************************************************************************)
EXTENDS Sequences, FiniteSets, SequencesExt

CONSTANTS
    TxIds,      \* identifiers a transaction row may get
    Names,      \* normalised entity names
    NoName      \* the entity of a row that does not exist yet

VARIABLES
    status,     \* status[t]: the status column of row t ("NONE": no row)
    entity,     \* entity[t]: the entity_normalized column of row t
    log         \* the recorded outcomes, oldest first

vars == <<status, entity, log>>

Statuses ==
    {"NONE", "PENDING", "UNAUDITED", "COMMITTED", "ROLLED_BACK", "RECONCILED"}

Kinds == {"commit", "rollback", "reconcile"}

\* The status a resolution leaves behind, and the one it starts from.
Outcome(k) == CASE k = "commit"    -> "COMMITTED"
                [] k = "rollback"  -> "ROLLED_BACK"
                [] k = "reconcile" -> "RECONCILED"

Source(k) == IF k = "reconcile" THEN "UNAUDITED" ELSE "PENDING"

Holds(e, s) == \E t \in TxIds : status[t] = s /\ entity[t] = e

-----------------------------------------------------------------------------
Init ==
    /\ status = [t \in TxIds |-> "NONE"]
    /\ entity = [t \in TxIds |-> NoName]
    /\ log = <<>>

\* A new row for e, either a change somebody announced or observed drift.
Open(t, e, s) ==
    /\ status[t] = "NONE"
    /\ s \in {"PENDING", "UNAUDITED"}
    /\ ~Holds(e, s)
    /\ status' = [status EXCEPT ![t] = s]
    /\ entity' = [entity EXCEPT ![t] = e]
    /\ UNCHANGED log

\* Drift becomes an announced change.
Adopt(S) ==
    /\ \A t \in S : status[t] = "UNAUDITED" /\ ~Holds(entity[t], "PENDING")
    /\ status' = [t \in TxIds |-> IF t \in S THEN "PENDING" ELSE status[t]]
    /\ UNCHANGED <<entity, log>>

\* Every change of S is resolved and recorded, in some order.
Resolve(S, k) ==
    /\ \A t \in S : status[t] = Source(k)
    /\ status' = [t \in TxIds |-> IF t \in S THEN Outcome(k) ELSE status[t]]
    /\ \E order \in SetToSeqs(S) :
          log' = log \o [i \in 1..Cardinality(S) |-> [tx |-> order[i], kind |-> k]]
    /\ UNCHANGED entity

Next ==
    \/ \E t \in TxIds, e \in Names, s \in {"PENDING", "UNAUDITED"} : Open(t, e, s)
    \/ \E S \in SUBSET TxIds : Adopt(S)
    \/ \E S \in SUBSET TxIds, k \in Kinds : Resolve(S, k)

Spec == Init /\ [][Next]_vars
=============================================================================

---------------------------- MODULE LedgerProps ----------------------------
(***************************************************************************)
(* The properties of the transaction ledger.                               *)
(***************************************************************************)
EXTENDS Ledger

TableOK ==
    /\ status \in [TxIds -> Statuses]
    /\ entity \in [TxIds -> Names \cup {NoName}]
    /\ drift \in [TxIds -> Nat]
    /\ \A t \in TxIds :
          /\ status[t] # "NONE" => entity[t] \in Names
          /\ status[t] # "NONE" <=> drift[t] >= 1
          /\ status[t] = "UNAUDITED" => entity[t] \in Entities
    /\ entries \in Seq(Entry)
    /\ head \in HeadRow \cup {NoHead}
    /\ txn \in Image \cup {NoTxn}

LocalOK ==
    /\ pc \in [Procs -> {"idle", "insert", "read", "persist", "append",
                         "promote", "upsert", "report"}]
    /\ op \in [Procs -> {"none", "start", "atomic", "undo", "commit", "rollback",
                         "reconcile", "adopt", "watch"}]
    /\ name \in [Procs -> Names \cup {NoName}]
    /\ sel \in [Procs -> SUBSET TxIds]
    /\ seen \in [Procs -> [TxIds -> Nat]]
    /\ adopted \in [Procs -> SUBSET TxIds]
    /\ \A p \in Procs :
          /\ pc[p] = "append" <=> txn # NoTxn /\ txn.owner = p
          /\ pc[p] = "insert" => name[p] \in Names
          /\ pc[p] = "upsert" => name[p] \in Entities
          /\ pc[p] = "promote" => sel[p] # {}

\* Every table, the uncommitted image and the local state of the processes
\* hold values of their types; an existing row has an entity and counts at
\* least one change, drift is only noted on paths, and the write transaction
\* belongs to the one process that is appending (the transactions and
\* chain_head schemas, persist_commit).
TypeOK == TableOK /\ LocalOK

-----------------------------------------------------------------------------
\* A log whose links and head describe it: every entry names the hash of the
\* entry before it, the first one names none, and the head row carries the
\* hash of the last entry, the first entry as genesis and the length.
Linked(rows, h) ==
    /\ \A i \in DOMAIN rows :
          rows[i].prev = IF i = 1 THEN NoHash ELSE HashOf(rows[i - 1])
    /\ IF rows = <<>>
       THEN h = NoHead
       ELSE /\ h # NoHead
            /\ h.latest = HashOf(rows[Len(rows)])
            /\ h.genesis = rows[1].body
            /\ h.length = Len(rows)

\* However processes interleave, fail or are killed, the committed chain is
\* one line from genesis to head: no fork, no gap, no head that points at
\* something else (append_to_chain_with_cas: "keeps the chain strictly linear").
ChainIsLinear == Linked(entries, head)

\* The entries in rows record the outcomes in st, each row once, except that
\* the rows in todo have none yet.
Recorded(rows, st, todo) ==
    /\ \A i \in DOMAIN rows :
          rows[i].body.tx \notin todo /\ st[rows[i].body.tx] = Outcome(rows[i].body.kind)
    /\ \A i, j \in DOMAIN rows : rows[i].body.tx = rows[j].body.tx => i = j
    /\ \A t \in TxIds \ todo : st[t] \in Resolved =>
          \E i \in DOMAIN rows : rows[i].body.tx = t

\* A row has an outcome in the chain exactly when it is resolved, the entry
\* tells the outcome the row has, and no row is recorded twice: the status
\* update and the signed entry never come apart (persist_commit,
\* rollback_change, reconcile_drift).
OutcomeRecordedOnce == Recorded(entries, status, {})

\* An entity has at most one announced change and at most one row of drift,
\* in spite of the check before the insert being a separate read and of
\* adopt promoting rows in bulk (start_change, adopt_drift, upsert).
OneOpenPerEntity ==
    \A t, u \in TxIds :
        /\ t # u
        /\ entity[t] = entity[u]
        /\ status[t] = status[u]
        => status[t] \notin {"PENDING", "UNAUDITED"}

\* No entry in rows quotes more changes than its row has counted.
Backed(rows) == \A i \in DOMAIN rows : rows[i].body.drift <= drift[rows[i].body.tx]

\* A signed reconciliation never claims more drift than was ever observed on
\* the row it closes, although the count was read before the transaction and
\* the watcher may have moved it since (reconcile_drift, its summary text).
ReconcileNeverOverstates == Backed(entries)

\* What the uncommitted image holds while it grows, relative to the committed
\* tables: the rows the command selected still have the status it expects and
\* are resolved in the image; the image's chain is linear, extends the
\* committed one and records every resolved row but those still to be appended.
TxnConsistent ==
    txn # NoTxn =>
        LET S == sel[txn.owner]
            k == KindOf(op[txn.owner])
        IN  /\ \A t \in S : status[t] = Source(k)
            /\ \A t \in TxIds :
                  txn.status[t] = IF t \in S THEN Outcome(k) ELSE status[t]
            /\ txn.todo \subseteq S
            /\ Linked(txn.entries, txn.head)
            /\ Recorded(txn.entries, txn.status, txn.todo)
            /\ Backed(txn.entries)
            /\ IsPrefix(entries, txn.entries)

\* A count a reconcile command read is a count the row had.
SeenIsPast == \A p \in Procs, t \in TxIds : seen[p][t] <= drift[t]

\* The inductive invariant.
IInv ==
    /\ TypeOK
    /\ ChainIsLinear
    /\ OutcomeRecordedOnce
    /\ OneOpenPerEntity
    /\ ReconcileNeverOverstates
    /\ TxnConsistent
    /\ SeenIsPast

\* No step rewrites history: a resolved row keeps its outcome and its entity,
\* and the recorded entries only grow at the end.
HistoryIsFinal ==
    [][ /\ \A t \in TxIds : status[t] \in Resolved =>
              status'[t] = status[t] /\ entity'[t] = entity[t]
        /\ IsPrefix(entries, entries') ]_vars

\* The database implements the one-step ledger: what other processes can read
\* changes only by whole operations, never by part of one.
Contract ==
    INSTANCE LedgerContract WITH
        log <- [i \in DOMAIN entries |->
                  [tx |-> entries[i].body.tx, kind |-> entries[i].body.kind]]

ImplementsContract == Contract!Spec
=============================================================================

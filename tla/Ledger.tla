------------------------------- MODULE Ledger -------------------------------
(***************************************************************************)
(* The transaction ledger: TransactionManager and the drift watcher, run   *)
(* by several processes (CLI commands, git hooks, the watcher) over one    *)
(* SQLite database in WAL mode.                                            *)
(*                                                                         *)
(* A command first READS rows outside any SQLite transaction and decides   *)
(* what to do, then PERSISTS inside one: its first statement is an UPDATE  *)
(* guarded by the status it expects, which takes SQLite's single write     *)
(* lock; every outcome is then linked to the chain and inserted; COMMIT    *)
(* publishes all of it.  Readers see the last committed state.  A failed   *)
(* or killed command loses the uncommitted image.                          *)
(***************************************************************************)
EXTENDS Integers, Sequences, FiniteSets, SequencesExt

CONSTANTS
    TxIds,      \* transaction ids (fresh UUIDs, used once)
    Procs,      \* processes that open the database
    Entities,   \* normalised paths that are announced or edited
    NoName,     \* the entity of a row that does not exist
    NoHead,     \* chain_head table is empty
    NoTxn,      \* no SQLite write transaction is open
    MaxDrift    \* bound on drift_count

ASSUME MaxDriftAssumption == MaxDrift \in Nat \ {0}
ASSUME TxIdsAssumption == IsFiniteSet(TxIds)
VARIABLES
    status, entity, drift,  \* the transactions table, by tx_id
    entries,                \* the ledger_entries table, in insertion order
    head,                   \* the singleton row of chain_head
    txn,                    \* the open write transaction and its image
    pc,                     \* where each process is
    op,                     \* what it is doing
    name,                   \* the entity it works on
    sel,                    \* the rows it selected when it read
    seen,                   \* the drift_count of those rows, as read
    adopted                 \* adopted_tx_ids of an adopt command

table == <<status, entity, drift>>
db    == <<table, entries, head>>
local == <<op, name, sel, seen, adopted>>
vars  == <<db, txn, pc, local>>

-----------------------------------------------------------------------------
(* Data. *)

Labels == {"drift_adoption"} \X (Entities \cup 1..Cardinality(TxIds))
Names  == Entities \cup Labels

Statuses == {"NONE", "PENDING", "UNAUDITED", "COMMITTED", "ROLLED_BACK", "RECONCILED"}
Resolved == {"COMMITTED", "ROLLED_BACK", "RECONCILED"}
Kinds    == {"commit", "rollback", "reconcile"}

Outcome(k) == CASE k = "commit"    -> "COMMITTED"
                [] k = "rollback"  -> "ROLLED_BACK"
                [] k = "reconcile" -> "RECONCILED"

Source(k) == IF k = "reconcile" THEN "UNAUDITED" ELSE "PENDING"

\* The kind of resolution an operation ends with.  An atomic change whose
\* commit failed is undone by a rollback.
KindOf(o) == CASE o \in {"rollback", "undo"} -> "rollback"
               [] o = "reconcile"            -> "reconcile"
               [] OTHER                      -> "commit"

\* What a ledger entry says.  drift is the change count that the summary of
\* a reconciliation quotes.
Bodies == [tx : TxIds, kind : Kinds, drift : Nat]

\* SHA-256 stands for its preimage: the entry's body and, through prev_hash,
\* the bodies of every entry before it.
Hashes == Seq(Bodies)
NoHash == <<>>
HashOf(entry) == Append(entry.prev, entry.body)

Entry == [body : Bodies, prev : Hashes]
HeadRow == [latest : Hashes, genesis : Bodies, length : Nat]

Image == [owner : Procs, status : [TxIds -> Statuses],
          entries : Seq(Entry), head : HeadRow \cup {NoHead}, todo : SUBSET TxIds]

\* The sentinels are not values of the sets they complete.
ASSUME SentinelAssumption ==
    NoName \notin Names /\ NoHead \notin HeadRow /\ NoTxn \notin Image

Rows(s) == {t \in TxIds : status[t] = s}

\* The partial unique indexes on transactions(entity_normalized).
Holds(e, s) == \E t \in Rows(s) : entity[t] = e

\* How adopt labels the transaction it commits on behalf of the rows in S.
AdoptLabel(S) ==
    IF Cardinality(S) = 1
    THEN <<"drift_adoption", entity[CHOOSE t \in S : TRUE]>>
    ELSE <<"drift_adoption", Cardinality(S)>>

Idle(p) == pc[p] = "idle"
Goto(p, l) == pc' = [pc EXCEPT ![p] = l]

Begin(p, o, l, e, S) ==
    /\ Idle(p)
    /\ op' = [op EXCEPT ![p] = o]
    /\ name' = [name EXCEPT ![p] = e]
    /\ sel' = [sel EXCEPT ![p] = S]
    /\ Goto(p, l)
    /\ UNCHANGED <<db, txn, adopted>>

\* The process is done with its command, whatever came of it.
Return(p) ==
    /\ Goto(p, "idle")
    /\ op' = [op EXCEPT ![p] = "none"]
    /\ name' = [name EXCEPT ![p] = NoName]
    /\ sel' = [sel EXCEPT ![p] = {}]
    /\ seen' = [seen EXCEPT ![p] = [t \in TxIds |-> 0]]
    /\ adopted' = [adopted EXCEPT ![p] = {}]

\* Mutant of InsertRow: no partial unique index.
InsertRowUnindexed(e, s, t) ==
    /\ status[t] = "NONE"
    /\ status' = [status EXCEPT ![t] = s]
    /\ entity' = [entity EXCEPT ![t] = e]
    /\ drift' = [drift EXCEPT ![t] = 1]

\* Mutant of InsertRow: the first change of a row is not counted.
InsertRowUncounted(e, s, t) ==
    /\ status[t] = "NONE"
    /\ ~Holds(e, s)
    /\ status' = [status EXCEPT ![t] = s]
    /\ entity' = [entity EXCEPT ![t] = e]
    /\ UNCHANGED drift

\* A row is inserted under a fresh id; the index refuses a second holder.
InsertRow(e, s, t) ==
    /\ status[t] = "NONE"
    /\ ~Holds(e, s)
    /\ status' = [status EXCEPT ![t] = s]
    /\ entity' = [entity EXCEPT ![t] = e]
    /\ drift' = [drift EXCEPT ![t] = 1]

-----------------------------------------------------------------------------
Init ==
    /\ status = [t \in TxIds |-> "NONE"]
    /\ entity = [t \in TxIds |-> NoName]
    /\ drift = [t \in TxIds |-> 0]
    /\ entries = <<>>
    /\ head = NoHead
    /\ txn = NoTxn
    /\ pc = [p \in Procs |-> "idle"]
    /\ op = [p \in Procs |-> "none"]
    /\ name = [p \in Procs |-> NoName]
    /\ sel = [p \in Procs |-> {}]
    /\ seen = [p \in Procs |-> [t \in TxIds |-> 0]]
    /\ adopted = [p \in Procs |-> {}]

(* start_change: a start ("start"), or the first half of atomic_change.    *)
StartCheck(p, e, o) ==
    /\ ~Holds(e, "PENDING")
    /\ Begin(p, o, "insert", e, {})
    /\ UNCHANGED seen

\* The INSERT is one autocommit statement.  A UNIQUE violation is reported
\* as a conflict.  atomic_change and adopt go on to commit the new row.
StartInsert(p) ==
    /\ pc[p] = "insert"
    /\ txn = NoTxn
    /\ \/ \E t \in TxIds :
            /\ InsertRow(name[p], "PENDING", t)
            /\ IF op[p] = "start"
               THEN Return(p)
               ELSE /\ sel' = [sel EXCEPT ![p] = {t}]
                    /\ Goto(p, "read")
                    /\ UNCHANGED <<op, name, seen, adopted>>
       \/ /\ Holds(name[p], "PENDING")
          /\ Return(p)
          /\ UNCHANGED table
    /\ UNCHANGED <<entries, head, txn>>

\* commit_change of a row somebody names.
CommitRead(p, t) ==
    /\ status[t] = "PENDING"
    /\ Begin(p, "commit", "persist", entity[t], {t})
    /\ UNCHANGED seen

\* rollback_change of a row somebody names, also of each stale row `ledger
\* gc` finds.
RollbackRead(p, t) ==
    /\ status[t] = "PENDING"
    /\ Begin(p, "rollback", "persist", entity[t], {t})
    /\ UNCHANGED seen

\* The same read, for the row the command itself inserted.
ReadOwn(p) ==
    /\ pc[p] = "read"
    /\ sel[p] \subseteq Rows("PENDING")
    /\ Goto(p, "persist")
    /\ UNCHANGED <<db, txn, local>>

\* Mutant of ReconcileSelect: one count, the largest, for the whole batch.
ReconcileSelectBatch(p, S) ==
    /\ S # {}
    /\ S \subseteq Rows("UNAUDITED")
    /\ Begin(p, "reconcile", "persist", NoName, S)
    /\ seen' = [seen EXCEPT ![p] = [t \in TxIds |-> IF t \in S
                                         THEN CHOOSE d \in {drift[u] : u \in S} :
                                                 \A u \in S : drift[u] <= d
                                         ELSE 0]]

\* reconcile_drift by id, by pattern or all of it.
ReconcileSelect(p, S) ==
    /\ S # {}
    /\ S \subseteq Rows("UNAUDITED")
    /\ Begin(p, "reconcile", "persist", NoName, S)
    /\ seen' = [seen EXCEPT ![p] = [t \in TxIds |-> IF t \in S THEN drift[t] ELSE 0]]

\* Mutant of BeginPersist: the UPDATE does not expect a status.
BeginPersistUnguarded(p) ==
    /\ pc[p] = "persist"
    /\ txn = NoTxn
    /\ txn' = [owner   |-> p,
               status  |-> [t \in TxIds |-> IF t \in sel[p] THEN Outcome(KindOf(op[p]))
                                                            ELSE status[t]],
               entries |-> entries,
               head    |-> head,
               todo    |-> sel[p]]
    /\ Goto(p, "append")
    /\ UNCHANGED <<db, local>>

\* The guarded UPDATE that opens the write transaction.
BeginPersist(p) ==
    /\ pc[p] = "persist"
    /\ txn = NoTxn
    /\ sel[p] \subseteq Rows(Source(KindOf(op[p])))
    /\ txn' = [owner   |-> p,
               status  |-> [t \in TxIds |-> IF t \in sel[p] THEN Outcome(KindOf(op[p]))
                                                            ELSE status[t]],
               entries |-> entries,
               head    |-> head,
               todo    |-> sel[p]]
    /\ Goto(p, "append")
    /\ UNCHANGED <<db, local>>

\* append_to_chain_with_cas and insert_ledger_entry for one row.
NextHead(h, entry) ==
    [latest  |-> HashOf(entry),
     genesis |-> IF h = NoHead THEN entry.body ELSE h.genesis,
     length  |-> IF h = NoHead THEN 1 ELSE h.length + 1]

PrevHash(h) == IF h = NoHead THEN NoHash ELSE h.latest

\* Mutant of AppendEntry: the head is read before the transaction, once.
AppendEntryStale(p, t) ==
    /\ pc[p] = "append"
    /\ t \in txn.todo
    /\ LET entry == [body |-> [tx |-> t, kind |-> KindOf(op[p]), drift |-> seen[p][t]],
                     prev |-> PrevHash(head)]
       IN  txn' = [txn EXCEPT !.entries = Append(@, entry),
                              !.head = NextHead(@, entry),
                              !.todo = @ \ {t}]
    /\ UNCHANGED <<db, pc, local>>

AppendEntry(p, t) ==
    /\ pc[p] = "append"
    /\ t \in txn.todo
    /\ LET entry == [body |-> [tx |-> t, kind |-> KindOf(op[p]), drift |-> seen[p][t]],
                     prev |-> PrevHash(txn.head)]
       IN  txn' = [txn EXCEPT !.entries = Append(@, entry),
                              !.head = NextHead(@, entry),
                              !.todo = @ \ {t}]
    /\ UNCHANGED <<db, pc, local>>

\* sqlite_tx.commit().
Publish(p) ==
    /\ pc[p] = "append"
    /\ txn.todo = {}
    /\ status' = txn.status
    /\ entries' = txn.entries
    /\ head' = txn.head
    /\ txn' = NoTxn
    /\ IF op[p] = "adopt"
       THEN Goto(p, "report") /\ UNCHANGED local
       ELSE Return(p)
    /\ UNCHANGED <<entity, drift>>

\* adopt_drift reads the drift, then promotes it with one autocommit UPDATE.
AdoptSelect(p, S) ==
    /\ S # {}
    /\ S \subseteq Rows("UNAUDITED")
    /\ Begin(p, "adopt", "promote", NoName, S)
    /\ UNCHANGED seen

\* Mutant of AdoptUpdate: the UPDATE does not expect UNAUDITED rows.
AdoptUpdateUnguarded(p) ==
    /\ pc[p] = "promote"
    /\ txn = NoTxn
    /\ \A t \in sel[p] : ~Holds(entity[t], "PENDING")
    /\ status' = [t \in TxIds |-> IF t \in sel[p] THEN "PENDING" ELSE status[t]]
    /\ adopted' = [adopted EXCEPT ![p] = sel[p]]
    /\ name' = [name EXCEPT ![p] = AdoptLabel(sel[p])]
    /\ Goto(p, "insert")
    /\ UNCHANGED <<entity, drift, entries, head, txn, op, sel, seen>>

\* The whole UPDATE fails if a row's entity already has a PENDING row.  If
\* some rows are no longer UNAUDITED the others ARE promoted, and then the
\* command reports the concurrent modification.
AdoptUpdate(p) ==
    /\ pc[p] = "promote"
    /\ txn = NoTxn
    /\ LET hit == sel[p] \cap Rows("UNAUDITED")
       IN /\ \A t \in hit : ~Holds(entity[t], "PENDING")
          /\ status' = [t \in TxIds |-> IF t \in hit THEN "PENDING" ELSE status[t]]
          /\ IF hit = sel[p]
             THEN /\ adopted' = [adopted EXCEPT ![p] = hit]
                  /\ name' = [name EXCEPT ![p] = AdoptLabel(hit)]
                  /\ Goto(p, "insert")
                  /\ UNCHANGED <<op, sel, seen>>
             ELSE Return(p)
    /\ UNCHANGED <<entity, drift, entries, head, txn>>

\* The adopt command prints "Drift adopted and committed."
AdoptReport(p) ==
    /\ pc[p] = "report"
    /\ Return(p)
    /\ UNCHANGED <<db, txn>>

(* DriftManager::process_event: an edited path with no PENDING change.     *)
WatchCheck(p, e) ==
    /\ ~Holds(e, "PENDING")
    /\ Begin(p, "watch", "upsert", e, {})
    /\ UNCHANGED seen

\* INSERT .. ON CONFLICT: one autocommit statement, which does not look at
\* PENDING rows again.
WatchUpsert(p) ==
    /\ pc[p] = "upsert"
    /\ txn = NoTxn
    /\ \/ \E t \in TxIds : InsertRow(name[p], "UNAUDITED", t)
       \/ \E t \in Rows("UNAUDITED") :
            /\ entity[t] = name[p]
            /\ drift[t] < MaxDrift
            /\ drift' = [drift EXCEPT ![t] = @ + 1]
            /\ UNCHANGED <<status, entity>>
    /\ Return(p)
    /\ UNCHANGED <<entries, head, txn>>

\* Mutant of Fails: the status UPDATE was not part of the transaction.
FailsHalfway(p) ==
    /\ pc[p] = "append"
    /\ status' = txn.status
    /\ txn' = NoTxn
    /\ Return(p)
    /\ UNCHANGED <<entity, drift, entries, head>>

\* The database is busy beyond busy_timeout, the row was resolved meanwhile,
\* the gate refuses, signing fails: the command returns an error and an open
\* transaction is rolled back.  atomic_change then tries to roll its own
\* row back, once.
Fails(p) ==
    /\ pc[p] \in {"insert", "read", "persist", "append", "promote", "upsert"}
    /\ txn' = IF pc[p] = "append" THEN NoTxn ELSE txn
    /\ IF op[p] = "atomic" /\ pc[p] # "insert"
       THEN /\ op' = [op EXCEPT ![p] = "undo"]
            /\ Goto(p, "read")
            /\ UNCHANGED <<name, sel, seen, adopted>>
       ELSE Return(p)
    /\ UNCHANGED db

\* The process is killed.
Crash(p) ==
    /\ ~Idle(p)
    /\ txn' = IF pc[p] = "append" THEN NoTxn ELSE txn
    /\ Return(p)
    /\ UNCHANGED db

-----------------------------------------------------------------------------
\* What a user, a hook or the file watcher may ask for.
Request(p) ==
    \/ \E e \in Entities, o \in {"start", "atomic"} : StartCheck(p, e, o)
    \/ \E t \in TxIds : CommitRead(p, t) \/ RollbackRead(p, t)
    \/ \E S \in SUBSET TxIds : ReconcileSelect(p, S)
    \/ \E S \in SUBSET TxIds : AdoptSelect(p, S)
    \/ \E e \in Entities : WatchCheck(p, e)

\* What a running command does next.
Step(p) ==
    \/ StartInsert(p)
    \/ ReadOwn(p)
    \/ BeginPersist(p)
    \/ \E t \in TxIds : AppendEntry(p, t)
    \/ Publish(p)
    \/ AdoptUpdate(p)
    \/ AdoptReport(p)
    \/ WatchUpsert(p)
    \/ Fails(p)

Next == \E p \in Procs : Request(p) \/ Step(p) \/ Crash(p)

Spec == Init /\ [][Next]_vars
=============================================================================

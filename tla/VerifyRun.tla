----------------------------- MODULE VerifyRun -----------------------------
(***************************************************************************)
(* A verification run, the evidence it leaves and who reads it.            *)
(*                                                                         *)
(* `verify` runs the steps of its plan one by one over the working tree,   *)
(* each a grouped call (GroupedExec.tla), and leaves three records: the    *)
(* latest report, the history file, which also binds HEAD when the tree is *)
(* clean, and rows in SQLite, bound to a transaction if one was given.     *)
(* `policy check` reads the rows, `review` the history.  Meanwhile the     *)
(* developer edits, commits and resolves the transaction, and other runs   *)
(* overlap.                                                                *)
(*                                                                         *)
(* Contents of the tree are numbers, never used twice but for going back   *)
(* to HEAD.  fs::write empties a file before it fills it.  What a run saw, *)
(* and whether it was left alone, are noted with it and stored nowhere.    *)
(* Of the results the kinds are kept and their number.                     *)
(***************************************************************************)
EXTENDS Naturals, Sequences, SequencesExt, FiniteSets, FiniteSetsExt

CONSTANTS
    Procs,          \* processes that run verify
    Txs,            \* ledger transactions
    NoTx,           \* a run without --tx-id
    Paths,          \* changed paths
    Covers,         \* Covers[t]: the paths under the entity of t
    NoHead,         \* the record binds no HEAD
    Torn,           \* a file that was emptied and not filled yet
    Planned,        \* number of steps of a plan
    HistoryCap,     \* records kept in the history: 100
    ScanLimit,      \* bound runs read by policy check: 256
    MaxRuns,        \* bound on runs
    MaxEdits        \* bound on edits

ASSUME VerifyAssumption ==
    /\ NoTx \notin Txs
    /\ Covers \in [Txs -> SUBSET Paths]
    /\ {Planned, HistoryCap, ScanLimit} \subseteq Nat \ {0}
    /\ {MaxRuns, MaxEdits} \subseteq Nat
    /\ NoHead \notin Nat

VARIABLES
    tree,       \* content of the working tree
    commits,    \* contents of the commits up to HEAD
    edits,      \* contents used so far
    txs,        \* PENDING, or COMMITTED or ROLLED_BACK: either way it has an entry
    run,        \* what each process is doing
    runs,       \* runs started
    latest,     \* latest-verify.json
    history,    \* verify-history.json
    rows,       \* verification_runs with their verification_results
    ended       \* reports of the runs that ended

world == <<tree, commits, edits>>
stores == <<latest, history, rows>>
vars == <<world, txs, run, runs, stores, ended>>

Idle == [pc |-> "idle"]
Disturbed == [p \in Procs |-> IF run[p] = Idle THEN Idle ELSE [run[p] EXCEPT !.calm = FALSE]]
Tip == Len(commits)
Clean == tree = Last(commits)

Report(r) ==
    [num |-> r.num, tx |-> r.tx, steps |-> r.steps, results |-> r.results, seen |-> r.seen,
     pass |-> "bad" \notin r.results]

Init ==
    /\ tree = 0 /\ commits = <<0>> /\ edits = 0
    /\ txs = [t \in Txs |-> "PENDING"]
    /\ run = [p \in Procs |-> Idle]
    /\ runs = 0
    /\ latest = <<>>
    /\ history = <<>>
    /\ rows = <<>>
    /\ ended = {}

-----------------------------------------------------------------------------
(* The developer.                                                          *)

Edit ==
    /\ edits < MaxEdits
    /\ edits' = edits + 1 /\ tree' = edits'
    /\ run' = Disturbed
    /\ UNCHANGED <<commits, txs, runs, stores, ended>>

GoBack ==
    /\ ~Clean
    /\ tree' = Last(commits)
    /\ run' = Disturbed
    /\ UNCHANGED <<commits, edits, txs, runs, stores, ended>>

GitCommit ==
    /\ ~Clean
    /\ commits' = Append(commits, tree)
    /\ run' = Disturbed
    /\ UNCHANGED <<tree, edits, txs, runs, stores, ended>>

\* A transaction is resolved, with an entry for its entity.
Resolve(t, status) ==
    /\ txs[t] = "PENDING"
    /\ txs' = [txs EXCEPT ![t] = status]
    /\ UNCHANGED <<world, run, runs, stores, ended>>

LedgerCommit(t) == Resolve(t, "COMMITTED")

\* rollback_change leaves an entry too, of type ROLLBACK.
LedgerRollback(t) == Resolve(t, "ROLLED_BACK")

-----------------------------------------------------------------------------
(* The run: execute_verify and VerifyEngine::execute_with_scope.           *)

\* Only a PENDING transaction is attached.
Start(p) ==
    /\ run[p] = Idle /\ runs < MaxRuns
    /\ runs' = runs + 1
    /\ \E t \in Txs \cup {NoTx} :
          /\ t # NoTx => txs[t] = "PENDING"
          /\ run' = [run EXCEPT ![p] = [pc |-> "step", num |-> runs', tx |-> t,
                                        steps |-> 0, results |-> {}, seen |-> {},
                                        calm |-> TRUE, file |-> <<>>]]
    /\ UNCHANGED <<world, txs, stores, ended>>

Update(p, r) == run' = [run EXCEPT ![p] = r]

After(r, results, n, end) ==
    [r EXCEPT !.results = @ \cup results, !.steps = @ + n, !.seen = @ \cup {tree},
              !.pc = IF end \/ r.steps + n = Planned THEN "report" ELSE @]

\* Mutant of TimedOut: a timeout is not recorded.
TimedOutUnrecorded(r) == After(r, {}, 0, TRUE)

\* A timeout is recorded as a failure and ends the run.
TimedOut(r) == After(r, {"bad"}, 1, TRUE)

\* A step that fails is recorded and the next one runs.
Step(p) ==
    /\ run[p].pc = "step"
    /\ run' \in {[run EXCEPT ![p] = r] :
                    r \in {After(run[p], {"ok"}, 1, FALSE), After(run[p], {"bad"}, 1, FALSE), TimedOut(run[p])}}
    /\ UNCHANGED <<world, txs, runs, stores, ended>>

\* write_verify_report: the latest report.
WriteLatest(p) ==
    /\ run[p].pc = "report"
    /\ latest' = <<Report(run[p])>>
    /\ ended' = ended \cup {Report(run[p])}
    /\ Update(p, [run[p] EXCEPT !.pc = "history"])
    /\ UNCHANGED <<world, txs, runs, history, rows>>

\* Mutant of Record: HEAD is bound whatever the tree is.
RecordUnclean(r) ==
    [num |-> r.num, tx |-> r.tx, pass |-> Report(r).pass, calm |-> r.calm, head |-> Tip]

\* resolve_verify_history_head binds HEAD as it is now, if the tree is clean.
Record(r) ==
    [num |-> r.num, tx |-> r.tx, pass |-> Report(r).pass, calm |-> r.calm,
     head |-> IF Clean THEN Tip ELSE NoHead]

\* Mutant of Capped: checked before the record is pushed.
CappedLate(h, r) == Append(IF Len(h) > HistoryCap THEN Tail(h) ELSE h, r)

Capped(h, r) == IF Len(h) < HistoryCap THEN Append(h, r) ELSE Append(Tail(h), r)

\* update_verify_history reads the file; one that does not parse is left.
ReadHistory(p) ==
    /\ run[p].pc = "history"
    /\ IF history = Torn
       THEN Update(p, [run[p] EXCEPT !.pc = "rows"])
       ELSE Update(p, [run[p] EXCEPT !.pc = "truncate", !.file = Capped(history, Record(run[p]))])
    /\ UNCHANGED <<world, txs, runs, stores, ended>>

TruncateHistory(p) ==
    /\ run[p].pc = "truncate"
    /\ history' = Torn
    /\ Update(p, [run[p] EXCEPT !.pc = "write"])
    /\ UNCHANGED <<world, txs, runs, latest, rows, ended>>

WriteHistory(p) ==
    /\ run[p].pc = "write"
    /\ history' = run[p].file
    /\ Update(p, [run[p] EXCEPT !.pc = "rows"])
    /\ UNCHANGED <<world, txs, runs, latest, rows, ended>>

\* persist_verify_report: one SQLite transaction.  A failure is a warning.
SaveRows(p) ==
    /\ run[p].pc = "rows"
    /\ rows' \in {Append(rows, Report(run[p])), rows}
    /\ Update(p, Idle)
    /\ UNCHANGED <<world, txs, runs, latest, history, ended>>

\* A step is refused or cannot be started, a report cannot be written, or
\* the process is killed.
Abort(p) ==
    /\ run[p] # Idle
    /\ Update(p, Idle)
    /\ UNCHANGED <<world, txs, runs, stores, ended>>

-----------------------------------------------------------------------------
(* Who reads the evidence.                                                 *)

\* list_bound_verification_runs: the newest rows that are bound.
BoundAfter(i) == {j \in DOMAIN rows : j > i /\ rows[j].tx # NoTx}
Scanned == {i \in DOMAIN rows : rows[i].tx # NoTx /\ Cardinality(BoundAfter(i)) < ScanLimit}

\* entities_for_tx takes every entry of the transaction, one of type ROLLBACK
\* as well, though its comment says "committed".
CoversPath(r, f) == txs[r.tx] # "PENDING" /\ f \in Covers[r.tx]

\* Mutant of PathVerified: any passing run that covers the path will do.
PathVerifiedByAny(f) == \E i \in Scanned : CoversPath(rows[i], f) /\ rows[i].pass

\* eval_verification_must_pass_pr: the newest run that covers the path.
PathVerified(f) ==
    \E i \in Scanned :
        /\ CoversPath(rows[i], f) /\ rows[i].pass
        /\ \A j \in Scanned : j > i => ~CoversPath(rows[j], f)

\* load_ci_evidence of `review` for commit h.
Evidence(h) == IF history = Torn THEN {} ELSE {r \in Range(history) : r.head = h}

-----------------------------------------------------------------------------
Next ==
    \/ Edit \/ GoBack \/ GitCommit
    \/ \E t \in Txs : LedgerCommit(t) \/ LedgerRollback(t)
    \/ \E p \in Procs :
          \/ Start(p) \/ Step(p)
          \/ WriteLatest(p) \/ ReadHistory(p) \/ TruncateHistory(p) \/ WriteHistory(p)
          \/ SaveRows(p) \/ Abort(p)

Spec == Init /\ [][Next]_vars

-----------------------------------------------------------------------------
(* Properties.                                                             *)

Reports == [num : 1..MaxRuns, tx : Txs \cup {NoTx}, pass : BOOLEAN,
            steps : 0..Planned, results : SUBSET {"ok", "bad"}, seen : SUBSET (0..MaxEdits)]
Records == [num : 1..MaxRuns, tx : Txs \cup {NoTx}, pass : BOOLEAN, calm : BOOLEAN,
            head : 1..(MaxEdits + 1) \cup {NoHead}]
Once(s) == \A i, j \in DOMAIN s : s[i].num = s[j].num => i = j

\* Every variable has a value of its type; a run is recorded at most once in
\* each store, and the history is never over its cap.
TypeOK ==
    /\ tree \in 0..MaxEdits /\ edits \in 0..MaxEdits
    /\ commits # <<>> /\ Range(commits) \subseteq 0..MaxEdits
    /\ txs \in [Txs -> {"PENDING", "COMMITTED", "ROLLED_BACK"}]
    /\ \A p \in Procs : run[p] = Idle \/
          run[p].pc \in {"step", "report", "history", "truncate", "write", "rows"}
    /\ runs \in 0..MaxRuns
    /\ Range(latest) \cup Range(rows) \subseteq ended
    /\ ended \subseteq Reports
    /\ \A d, e \in ended : d.num = e.num => d = e
    /\ Once(rows)
    /\ history # Torn =>
          /\ Len(history) <= HistoryCap /\ Once(history)
          /\ Range(history) \subseteq Records

\* Evidence that says pass is about a run of which every planned step was
\* started and ended with status 0, in each of the three stores
\* (VerifyEngine::execute_with_scope).
PassIsWhole ==
    LET Whole(r) == r.steps = Planned /\ r.results = {"ok"}
    IN  /\ \A r \in Range(latest) \cup Range(rows) : r.pass => Whole(r)
        /\ history # Torn =>
              \A r \in Range(history) :
                  r.pass => \E e \in ended : e.num = r.num /\ Whole(e)

\* A dirty verify cannot look like proof of a commit: a run that was left
\* alone is evidence for a commit only if it ran over its content
\* (resolve_verify_history_head, verify_history_target_bound).
DirtyIsNoProof ==
    \A h \in DOMAIN commits : \A r \in Evidence(h) :
        r.calm => \A e \in ended : e.num = r.num => e.seen \subseteq {commits[h]}

\* What a step may do to one path at the gate.
GateMoves(f) ==
    LET Saved == Len(rows') > Len(rows) /\ Last(rows').tx # NoTx
    IN  /\ ~PathVerified(f) /\ PathVerified(f)' =>
              \/ Saved /\ Last(rows').pass /\ f \in Covers[Last(rows').tx]
              \/ \E t \in Txs : /\ f \in Covers[t] /\ txs[t] # txs'[t]
                                /\ \E r \in Range(rows) : r.tx = t /\ r.pass
        /\ Saved /\ ~Last(rows').pass /\ CoversPath(Last(rows'), f) => ~PathVerified(f)'

\* A path comes to be verified only by a new run bound to a transaction that
\* covers it, and passing, or when a transaction with a run that passed is
\* resolved, by a commit or by a rollback; and "a newer failure vetoes an older
\* pass", also when the transaction was resolved while its run went on
\* (eval_verification_must_pass_pr, entities_for_tx).
PassNeedsRun == [][\A f \in Paths : GateMoves(f)]_vars
=============================================================================

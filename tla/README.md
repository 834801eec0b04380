# A verification project for Ledgerful

Ledgerful is a local-first command line tool that keeps a signed, hash-chained
ledger of the changes made to a repository. Git hooks bind commits to ledger
rows, a watcher notes edits nobody announced, and devices exchange signed
entries through a shared folder. Around the ledger it runs verification
commands and keeps their results as evidence, indexes the working tree, and
serves a live view of both. This directory holds TLA+ models of the parts that
several processes or threads touch at once, the TLC configurations that check
them on small instances, and proofs, checked by TLAPS, of what matters most.

Paths below are relative to the repository root, which is `src/` here: the
crate's own sources are under `src/src/`, the ledger crate under
`src/crates/ledgerful-ledger/`.

| Module | What it is |
|---|---|
| `LedgerContract` | what the ledger promises: every operation is one step |
| `Ledger` | the SQLite-backed ledger: reads, write transactions, watcher, failures, kills |
| `LedgerProps` | its properties, its inductive invariant, its refinement mapping |
| `LedgerProofs` | the proofs about it, and that it implements `LedgerContract` |
| `HookLifecycle` | commit-msg, post-commit, the sidecar file and the recovery commands, over `LedgerContract` |
| `HookProofs` | the proofs about it |
| `TeamSync` | bundles between devices: export, outbox, import, archive and quarantine |
| `TeamSyncProofs` | the proofs about it |
| `Chain` | the signed chain as verify, checkpoints, re-sign and recovery adoption see it |
| `ChainProofs` | the proofs about it |
| `GroupedExec` | one call of a command in a process group, with pipes, readers and a timeout |
| `VerifyRun` | verification runs, the three records they leave, and who reads them |
| `VerifyProofs` | the proofs about it and about `GroupedExec` |
| `EventStream` | the web server's change detector, event streams and shutdown |
| `StreamProofs` | the proofs about it |
| `IndexSync` | the symbol index under `watch` and the incremental index |
| `IndexProofs` | the proofs about it |
| `Federation` | sibling repositories: their exports, and scans and impact analyses that read them |
| `FederationProofs` | the proofs about it |
| `MCLedger`, `MCHooks`, `MCSync`, `MCChain`, `MCExec`, `MCVerify`, `MCStream`, `MCIndex`, `MCFederation` | instances for TLC, with the `.cfg` files of the same prefix |

## 1. Inventory

**Transaction ledger** (`src/src/ledger/transaction.rs`, `drift.rs`, the
`db/transactions.rs` of the crate). State: the tables `transactions` (one row
per change: status, entity, drift count), `ledger_entries` (append-only, signed)
and the singleton `chain_head`. Operations: start, commit, rollback, atomic
change, reconcile drift, adopt drift, and the watcher's upsert of an UNAUDITED
row. Every CLI command, hook and watcher is a process of its own over the same
WAL-mode database. Hard: a command reads and decides outside any SQLite
transaction and writes later; the writes of one command are several
transactions for `atomic_change` and `adopt`; any statement may fail, any
process be killed. Correct means: status and signed outcome never come apart,
the chain is one line, an entity has one open change, a resolved row is final,
and all of it together looks as if each command were one step.

**Git hook lifecycle** (`src/src/commands/hook_commit_msg/`,
`hook_post_commit.rs`, `hook_sidecar.rs`, `ledger/lifecycle.rs`,
`ledger/maintenance.rs`). State: the file `pending_hook_tx` (row id, hash of the
commit message, promote_failed), HEAD, and the ledger. commit-msg collects the
sidecar of an earlier commit, chooses or creates the row of this one and writes
the file; git creates the commit; post-commit commits the row and removes the
file or marks it promote_failed. `ledger recover-orphan`, `hook-repair`, `gc`,
`commit` and `rollback` touch the same file and rows from another process.
Hard: three stores change in separate steps, a hook may be killed between any
two of them, and decisions are made on copies of the file. Correct means: no
trail of an unrecorded commit is lost or overwritten, every commit accepted
under enforce is accounted for, and recovery gets the user out.

**Team sync** (`src/src/sync/`). State per device: LOCAL and PEER entries and
their `entry_hlc`, the extract and apply cursors, the outbox in the shared
folder. `sync run` extracts unexported rows into a bundle, puts it into the
outbox, stamps the rows one by one, saves its cursor; then lists the other
outboxes, applies each bundle in a transaction and moves it away. Hard: no lock
between runs, kills between put, stamps and cursor, clocks that step back,
bundles that vanish, are applied twice or out of order. Correct means: an entry
that will not be exported again has arrived or is waiting; everything arrives;
devices at rest stop exporting.

**Chain verification, checkpoints, re-signing** (crate `chain_iter.rs`,
`chain_checkpoint.rs`, `re_sign.rs`; `commands/verify/signatures.rs`,
`commands/ledger_re_sign/`). State: the rows with their signatures and
predecessor hashes, the head, exported heads. verify walks back from the head
and classifies what is left over; a checkpoint is compared with the chain as it
is now (match, extends, diverges); re-sign replaces signatures, which changes
the hashes, and links the chain anew. Hard: re-sign acts on a preview, others
append meanwhile, a backup is put back, keys are lost, ledgers of earlier
releases hold rows without links and signatures of an older version. Correct
means: a repair leaves no row off the chain, verify passes only when every row
is accounted for, a checkpoint never passes again after its rows were replaced.

**Recovery adoption** (`ledger/adoption/`, `commands/ledger_adopt/`). Accepts
extra genesis rows by an attestation signed on the chain. Hard: the plan is a
file that may be stale when it is applied. Correct means: what was attested once
stays accepted, and nothing else is.

**Verification runner** (`exec/grouped.rs`; `verify/engine.rs`,
`commands/verify/`). A grouped call owns a process group, two pipes with a
reader thread each, a timeout. A run executes the steps of a plan and leaves the
latest report, the history file bound to HEAD, and rows in SQLite bound to a
transaction. Hard: descendants that outlive the command or hold its pipes, full
pipes, a timeout that races the exit; edits and commits during a run, runs that
overlap, kills between the records.
Correct means: the call returns all of the output and leaks nothing; evidence
that says pass is about a whole run over the content it is taken as proof of.

**Policy and gate** (`policy/`, `commands/review.rs`). Reads the evidence:
`verification_must_pass` the rows, review the history. Correct means: a newer
failure vetoes an older pass.

**Event stream** (`commands/web/server/`). A detector polls the ledger's data version
and broadcasts a status; each client gets one status as its stream starts and
every later broadcast. Hard: commits between subscription and first frame, a
full broadcast queue, a ledger that is removed or cannot be read, a shutdown
while streams open. Correct means: a client catches up, idle means silent, and
shutdown ends.

**Index and watcher** (`index/`, `watch/`, `commands/watch.rs`). State: file rows
with a content hash, their symbols, the watcher's batch. The watcher indexes
batches of changed files, the incremental index compares hashes and re-reads
what differs. Hard: both write the same tables, every read of a file may see
another content, a file may vanish in between, steps are separate transactions.
Correct means: a file whose hash agrees has the symbols of its content, since
the hash is all that anybody looks at later.

**Federation** (`federated/`, `ledger/federation.rs`, `commands/federate.rs`).
State: `federated_links` (a unique name and a path each),
`federated_dependencies` (which local symbol uses which of theirs), ledger rows of
origin SIBLING, and in each repository its `schema.json`. `federate export` writes
that file; `federate scan` and every impact analysis read the files of the
siblings, upsert the links, store dependencies and entries anew and prune the
links that lead nowhere; the analysis then checks what changed in the siblings.
Hard: every statement commits by itself, runs overlap and break off, a file is
rewritten while it is read, siblings come and go, older binaries have left links
under other names. Correct means: one link and one copy of everything per
sibling, nothing filed under the wrong one, nothing lost of a sibling that is
still there, and a run that is left alone repairs what others broke.

**The rest.** Daemon (a language server whose requests read the stores);
storage and migrations; graph; impact, search, semantic and model features; the
other web handlers and MCP; bridge, SCIP and exports; command line, output,
configuration, doctor. Mostly extraction, analysis, formats and reports.

How they meet: the hooks, the CLI, the watcher and sync all write the ledger's
tables, each in its own process. The sidecar is shared by hooks and CLI. Sync
reads signed LOCAL entries and adds PEER entries, which are not on the chain.
re-sign and adopt rewrite or extend the chain that `commit` appends to. A
verification run is a sequence of grouped calls; its rows are bound to ledger
transactions, and count once these are committed or rolled back. post-commit also refreshes the
index. The event stream reads what all of them commit.

## 2. Plan

Order of work, most important behaviour first.

1. **Ledger**, its contract, the refinement, proofs of all its safety
   properties. Done.
2. **HookLifecycle** on top of the contract, proofs. Done.
3. **TeamSync** and its two-device theorem. Done.
4. **Chain**: append, walks, checkpoints, restored backups, re-sign, adoption.
   Done, with proofs of all its safety properties.
5. **GroupedExec** and **VerifyRun**, proofs. Done.
6. **EventStream** and **IndexSync**. Done; proved but for liveness.
7. **Federation**. Done, with proofs of all its safety properties.
8. Left: pairing and `init --force` in TeamSync, with trust that changes during
   a behaviour; two indexers at once and the graph delta in IndexSync; the graph
   viewer's stream; that one run of Federation, alone, refines a single step that
   replaces what is stored of the siblings.

## 3. The ledger

A command is a process that goes from `idle` through the places where it stops
holding what it knows: `insert` (start_change has checked, the INSERT is still to
come), `read`, `persist` (the row was read, the transaction is not open yet),
`append` (the write transaction is open), `promote`, `upsert`, `report`.
What it read is in `sel` and `seen`. `txn` is the one open SQLite write
transaction and its uncommitted image; everybody else keeps reading the
committed tables. `BeginPersist` is the guarded UPDATE that takes the write
lock, `AppendEntry` links one outcome to the chain, `Publish` is COMMIT. `Fails`
ends a command at any of these places with an error; `Crash` kills it.

| Code | Model |
|---|---|
| `start_change` | `StartCheck`, `StartInsert` |
| `commit_change`, `rollback_change` | `CommitRead` / `RollbackRead`, `BeginPersist`, `AppendEntry`, `Publish` |
| `atomic_change` | `StartCheck` with `o = "atomic"`, `StartInsert`, `ReadOwn`, the above; `Fails` turns it into its own rollback |
| `reconcile_drift` | `ReconcileSelect`, then the above for each row of the batch |
| `adopt_drift`, `execute_ledger_adopt` | `AdoptSelect`, `AdoptUpdate`, then an atomic change under a label, `AdoptReport` |
| `DriftManager::process_event` | `WatchCheck`, `WatchUpsert` |
| partial unique indexes | `InsertRow`, the guard of `AdoptUpdate` |

A hash stands for its preimage, so `HashOf` is the sequence of the bodies up to
an entry. Signing, validators and the verification gate appear only as failures.

**Run** `ledger`: two processes, three rows, two entities, at most two counts of
drift, symmetric. Every pair of commands interleaves, with one row taken twice,
batches of several rows, and failures anywhere; a command has at most five steps
on rows that it resolves alike, so larger instances repeat these conflicts. The
run checks all invariants, that no step rewrites history (`HistoryIsFinal`), and
that the whole implements `LedgerContract` (`Contract` maps entries to the log by
forgetting links and counts). SQLite's busy timeout turns waiting into `Fails`, so
that no command waits for another one: the steps of a command are finitely many.

**Proofs.** `LedgerProofs` shows, for any set of rows (finite), processes and
entities, `Spec => []TypeOK`, `[]ChainIsLinear`, `[]OutcomeRecordedOnce`,
`[]OneOpenPerEntity`, `[]ReconcileNeverOverstates` and `HistoryIsFinal`. None of
them is inductive: the tables change in `Publish`, which copies an image built
in earlier steps. `IInv` adds `TxnConsistent` (the rows the command selected
still have the status it expects; the image is a linear extension of the
committed chain and records all but the rows in `todo`) and `SeenIsPast` (a
count that was read is one the row had). The key step is that no other process
can change the committed tables while an image is open, since every writer needs
`txn = NoTxn`, and that the guarded UPDATE re-checks the status under the lock.
Assumptions used: `TxIdsAssumption` (finite) and `SentinelAssumption` (NULLs are
not values); `MaxDriftAssumption` belongs to TLC's bound.

`LedgerProofs` also proves `Spec => ImplementsContract`. `DbStep` divides the steps
into five kinds; what remains is that COMMIT is one `Resolve`. The image extends
the committed entries by rows that were not recorded before, so their rows are
in `sel[p]`, each exactly once (`PublishedRows`): numbering them is a bijection,
which gives both the order that `Resolve` asks for and its length.

## 4. The hook lifecycle

The ledger here is `L == INSTANCE LedgerContract`: each of its operations is one
step, which the theorem `Refinement` justifies. `git` is the commit in progress
and `cli` the ledger command in progress; a hook's position is `git.pc` and the
copy of the file it has read is `git.copy`.

| Code | Model |
|---|---|
| `gc_pending_sidecar` | `GcSidecar`, `GcRollback`, `GcRemove` |
| `resolve_provenance_sot` | `Classify` |
| `link_pending_provenance`, `capture_intent`, `silently_record_ledger` | `Link`, `SkipIntent`, `Capture` |
| `write_signed_sidecar_for_tx` | `WriteSidecar` |
| git | `BeginCommit`, `BypassHook`, `CreateCommit`, `EndCommit`, `MoveHead` |
| `promote_pending_ledger_tx` | `PostRead`, `Promote`, `DropSidecar`, `MarkFailed` |
| `ledger start / commit / rollback / gc` | `LedgerStart`, `LedgerCommit` + `Unlink`, `LedgerRollback`, `GcScan` + `GcOne` |
| `recover-orphan` | `RecoverPromote` + `RecoverCommit`; `RecoverAbandon`, `Announce`, `Maintain`, `Undo`; `CliDrop` |
| `hook-repair --force` | `HookRepair`, `Repair`, `RepairDrop` |

Messages are compared by hash, so a message is a model value; `Ref` gives the
row named on its `Ledger:` line. `GitFault` kills a hook before any of its
steps, `CliFault` a command.

**Runs.** `hooks` (enforce, three messages of which one names a row, three rows,
hooks that may be killed, one command cut short, three commits): `NoClobber`,
`OrphanTrail`, `EnforceCovers`. Three commits are what it takes for a sidecar to
be left by the first, met by the second and outlived by the third. Recovery
commands do not overlap a commit in this run (`Overlap = {}`): the findings
below show what happens when they do. `hooks_live` (observe) shows that a user
who keeps trying `--abandon` gets rid of an orphan. Fairness: hooks and commands
run on (weak), and the user who can come back to the orphan again and again does
so (strong, on `RecoverAbandon` only). No command is cut short there (`MaxCuts =
0`): with one that is, the property does not hold (12). `Reserve` keeps ids for the rows recovery
opens, since TLC's set of ids is finite where UUIDs are not. Deadlock is off in
these runs because commits and ids are bounded and the user may stop.

**Proofs.** `HookProofs`, for any rows, messages and bounds: `HookTypeCorrect`,
`NothingClobbered` whatever overlaps, and, if recovery commands do not overlap a
commit (`Overlap = {}`), `CommitCovered` (`Spec => []EnforceCovers`) and
`TrailKept` (`Spec => OrphanTrail`). The inductive invariant says what a process
may still believe of the copy it read: `HookReads` and `CliReads` tie the copy of
the file to the file and to the rows as they are now, step by step; `Covered`
ties each commit that passed the hook to a row or to the sidecar. Without
`Overlap = {}` the copy a recovery command holds may be of a sidecar that was
replaced, and both theorems fail.

## 5. Team sync

A bundle is its sender, its clock and a clock for each of its entries; a clock is
the pair of wall time and counter. Bundles in an outbox are a set: the file name
contains a digest of the contents, so different bundles have different names.
`run[r]` is where a process is and what it holds: the bundle and the rows it has
still to stamp, the bundles it has still to look at.

| Code | Model |
|---|---|
| `extract`, `HLC::now` | `Extract`, `Eligible`, `Stamps`, `Now` |
| `put_outgoing_bytes` | `Displace` (a file of the same name is removed first), `Put` |
| `commit_extract_export` | `StampRow`, `SaveCursor` |
| `list_incoming`, `get_incoming` | `List`, `InPlace` |
| `Bundle::parse`, the ahead-of-clock check | `Accepts` |
| `apply` with `insert_entry`, `update_entry`, `ensure_transaction` | `Apply` |
| `move_to_processed` | `Move` |
| `move_to_quarantine` | `Quarantine`, in `Reject` (not accepted) and `ApplyFails` (accepted, and `apply` returned an error) |
| the branches of `run` that go on after an error | `Skip` |
| `run` returns, fails or is killed | `Finish`, `CutShort` |

Choices that make the model more general than the code: rows of a batch are any
eligible ones (the code takes the oldest by `committed_at`, which may step back),
bundles are applied in any order (the code sorts names), and the wall clock is
read for each bundle (the code reads it once per run). Clocks are compared as
pairs; the code's SQL compares their text, which agrees below 10000 counts.

`Wall[d]` is the set of what the wall clock of `d` may show, in any order, so a
clock steps back when it has two values, and a peer is too far ahead when the
sets are apart by more than `MaxAhead`. `quarantine` and `displaced` are where a
bundle may end: `displaced` is a history variable, for a file that an overlapping
put of the same name removed and did not put back.

**Runs.** `sync`: two overlapping runs on one device, one on the other, two rows,
one fault: `NothingLost`, `TypeOK`. A fault is a kill between two steps, a file
operation that fails, or an `apply` that fails. The second device's clock steps
back and is at times behind what the first one has put into its bundles, with no
margin (`MaxAhead = 0`), so a good bundle is also rejected for its clock.
`NothingLost` says where an entry is that its device will not export again: with
the peer, in a bundle that waits, in the peer's quarantine, or in a displaced
file. The last two are losses in the code (section 12); the property says that
they are the only ones.

`sync_live`: `Consolidates` and `Quiesces` with one run per device, repeated for
ever, under weak fairness of a run's steps — a run that is started proceeds, and
`sync run` is what a user or a schedule repeats; the wall clock takes two values
within the limit and may step back. There d1 has accepted d2's invite and d2 has
not accepted d1's: d1's bundles end in quarantine while its runs go on, and
`Consolidates` is about the other direction. It excuses an entry whose bundle is in
the reader's quarantine, which here takes a failed `apply`. Bounds: the counter
stays below `MaxLogical`, which the number of rows, faults and wall clock values
leaves room for in `sync_live`; in `sync` it is 2, three rows exported at one
value of the wall clock.

**Proofs.** `SyncTypeCorrect` (`Spec => []TypeOK`, any devices) and
`NothingIsLost`: under `TwoDevices` (the folder is shared by two),
`Spec => []NothingLost`, for any wall clocks, any number of rows, runs, failed
applies and other faults and any batch size. `NothingLost` speaks of rows that are
not eligible, `Stamped` of rows that have a clock; it is kept because a row gets
its clock only from a run whose bundle was put (`Stamping`), and because what is
accounted for stays so: a bundle leaves an outbox only when its one reader has
applied it, does not accept its sender or has it in quarantine, or into
`displaced` (`OutboxStep`). `Structure` collects what these steps need to know: an entry is LOCAL on one device, a bundle holds
its sender's own rows, what a run remembers is such a bundle, and a run about to
archive a bundle holds its rows. `TwoDevices` is needed: a bundle is moved away by
the first device that applies it (`transport/dir.rs:398`), so with three devices
on one folder the third never sees it.
Assumptions used: rows are finitely many, `Dev` gives each run a device, the
bounds are natural numbers, NULL is not a clock.

## 6. The chain

A row is an id, a signature (key and version) and the hash of its predecessor;
`head` is the singleton. A hash stands for its preimage: the sequence of the
bodies up to a row. Ids are numbered in the order of `committed_at`. An append
is one step, as section 3 shows.

| Code | Model |
|---|---|
| `walk_backward`, `iter_local_chain_with_head` | `Backward`, `Forward`, `Walk`, `Extra`, `Orphans`, `Forks` |
| `verify_chain_integrity` | `HeadAgrees`, `Verified` |
| `classify_exact`, `classify_checkpoint` | `Ordered`, `Passes` |
| `eligible_rows`, `build_manifest`, `decide_adoption` | `Eligible`, `Live`, `Attests`, `Adopted` |
| re-sign: preview, backup, `apply_re_sign` | `ReSignPreview`, `ReSignBackup`, `ReSignApply` with `RebuildOrder`, `Relink`, `Stale` |
| `ledger adopt plan`, `apply` | `AdoptPlan`, `AdoptCheck`, `AdoptApply` |
| anything that ends either without writing | `Abort` |

Behaviours start from a ledger of an earlier release: rows without links, then
linked rows with version 1 signatures. What happens to a ledger from outside
(`Damage`, `RotateKey`, `Restore`) is external.

**Runs.** `chain`: two keys, two processes, one row without links, one old row,
five rows in all, and one each of damage, lost keys, checkpoints and backups. Two
processes let a re-sign meet an adoption or another re-sign between preview and
apply; five rows hold an old row, two new ones and the two that maintenance adds.
The run checks `RepairIsWhole` (once no signature is broken nothing is left off
the chain), `VerifyIsSound`, `CheckpointTells` (a checkpoint passes exactly as
long as its rows are the first of the chain), `AdoptionStands` and `ChainGrows`.
`Restorable` limits the damage to what re-sign can undo. Outside of it the code
does lose rows: a signature by a key that is gone, or an old version, is replaced
by another one, which changes the hash; the rows after it are then off the chain
that was captured before, and `--all`, when it upgrades at the same time,
truncates to the prefix. The same holds for damage between preview and apply.
The mode `tx` is among those of the run, where at most one row is damaged and it
does what `all_invalid` does; with two it forks (12).
`TypeOK` says what the variables are and is not one of the run's invariants.

**Proofs.** `ChainProofs` proves all five properties (`RepairsAreWhole`,
`VerifiedIsSound`, `CheckpointsTell`, `AdoptionsStand`, `ChainOnlyGrows`) for any
number of rows, keys, processes, backups and checkpoints and any damage that is
`Restorable`, under `OneByOne`: `re-sign --tx` is not used, or at most one row is ever damaged. The
code needs it (12). The other assumption, `ChainAssumption`, is about the
constants of the model.

The invariant (`ChainInvariant`) says what the tables are between any two steps,
and what every backup is. `Chained`: the head is the sequence of the bodies of a
chain; each of its positions has a row, with the signature it was hashed with or
a broken one; every other row is a genesis. `Attested`: the first manifest names
exactly the genesis rows that are off the chain, as long as these are valid, and
its entry comes after the head it was made for. `Repairable`: where re-sign
will act, the signature a broken row had is the one that signing gives now, so
that mending it mends the hashes after it. `Repairing` and `Adopting` say what a
preview or a plan is still worth when it is applied: a re-sign knows all rows that
are broken by now, and the head an adoption was planned for either stands or never
comes back. `Apart` and `Known` relate the tables to the backups and checkpoints:
ids are not used again, and a row from before the links is at the start of a
chain or on none. `Marks` counts broken rows. The properties follow from the
invariant alone; it is not inductive without any one of its parts.

The walks are defined by the set of rows they return, which takes induction to
reason about in general. The proofs avoid it: on a `Chained` ledger the row at
each position is given, so that a walk is found outright (`BackwardWalk`,
`ForwardWalk`) and its order is that of the ranks of a finite set of numbers
(`Ranks`, `Extremes`, `BackwardLists`, `ForwardLists`). `Rebuilt` shows that
`RebuildOrder` returns the chain in both of its cases, whether the new signatures
mend the stored links or break them, and `Relinked` that the new links make it a
chain again.

## 7. The grouped call

`GroupedExec` is one call of `spawn_wait_grouped` or
`spawn_wait_grouped_captured`. Bytes are counted. The command writes, forks,
exits as it likes; a descendant inherits the pipes and the group, may redirect
its output and may leave the group.

| Code | Model |
|---|---|
| spawn of the group, its failure | `Spawn`, `SpawnFails` |
| `wait_timeout`, its error, the bounded reap loop | `Waited`, `WaitFails`, `Reaped` |
| the timeout: `start_kill` and `wait`, each of which may fail | `Expire`, `ReapKilled` |
| `read_capped` in its thread, a read error, a panic | `Read`, `EndOfFile`, `ReadFails` |
| `join_reader` | `Return` |

`MaxFailures` bounds the reads, waits and kills that fail. A reader that gives up
(`broken`) keeps what it has, or nothing if it panicked, and closes its pipe.

**Run** `exec`: two descendants, two streams, a cap of one byte, a pipe of one
byte, at most two bytes per stream, one failure: more than a cap, more than a
pipe, and a descendant of a descendant. `OutputIsWhole` (of a stream read to its
end all is returned up to the cap and `truncated` is right; of one whose reader
gave up there is a part, and `truncated` is never set without cause), `NoLeak`
(after a timeout that reports no failed kill every process of the group has ended
or was sent SIGKILL), `Drains` (a full pipe is always emptied) and
`ReturnsUnlessHeld`. Fairness: the threads of the caller run, timers expire,
a SIGKILL that was sent kills; the command and its descendants owe nothing, and
no failure has to happen. The last property
says "unless held" for a reason: after a kill or an exit the call still joins its
readers (`grouped.rs:183`, `:200`), and a descendant that left the group with the
pipe open keeps them waiting, so the call outlasts its timeout. So it does when
the kill fails and the command runs on (`outcome = "notKilled"`).

**Proofs.** `VerifyProofs`, for any number of descendants, streams and bytes:
`ExecTypeCorrect`, `WholeOutput`, `NoLeaks`. A verification run is a sequence of
calls, so both are proved about in one module; the names of `GroupedExec` that
would meet those of `VerifyRun` begin with `Call`. The invariant counts bytes
(kept plus buffered plus what is over the cap is what was written), says that a
reader that did not give up is done only when nobody holds the pipe, and that the group is fixed once
it has been killed.

## 8. Verification runs

`VerifyRun` keeps the world a run looks at (contents of the tree, commits, ledger
transactions), the runs, and the three stores. `fs::write` is two steps:
the file is empty (`Torn`) between them. `calm` notes that nobody touched the
tree during a run; the code does not know it, it is there for the property.

| Code | Model |
|---|---|
| `persist_commit`, `rollback_change`, as the gate sees them | `LedgerCommit`, `LedgerRollback`, `Resolve` |
| `execute_verify` | `Start` (only a PENDING transaction is attached) |
| `execute_with_scope` | `Step`, `After`, `TimedOut`, `Report` |
| `write_verify_report` | `WriteLatest` (one step: no code in `src/` reads the latest report back to decide anything) |
| `update_verify_history` | `ReadHistory`, `TruncateHistory`, `WriteHistory`, `Record`, `Capped` |
| `persist_verify_report` | `SaveRows` |
| `eval_verification_must_pass_pr` | `BoundAfter`, `Scanned`, `CoversPath`, `PathVerified` |
| `load_ci_evidence` of review | `Evidence` |

**Run** `verify`: two processes, two runs, plans of two steps, a history of one
record, a scan of two rows, one edit. `PassIsWhole` (evidence that says pass, in
any store, is about a run of the whole plan), `DirtyIsNoProof` (a record of an
undisturbed run binds a commit only if it saw the content of that commit) and
`PassNeedsRun` (a path becomes verified only by a new passing run, or when the
transaction of one is resolved, and a newer failure vetoes an older pass). The
gate reads every entry of a transaction, and a rollback leaves one too, so
`CoversPath` holds for a transaction that is committed or rolled back (section
12). One edit gives a dirty tree, a
commit and a way back; two runs are what it takes to overlap and to push a
record out of the history.

**Proofs.** `VerifyProofs`: `VerifyTypeCorrect`, `WholePass`, `DirtyIsNot` and
`GateNeedsRun` (`Spec => PassNeedsRun`), for any number of runs, edits, steps and
caps and any limit of the scan. The invariant follows a run from its steps to the file it
is about to write: what it did not record was not run, a run that is calm has seen
the present tree only, and a record in hand binds a commit of that content. `GateNeedsRun` compares the
gate's verdict on a path before and after a step (`GateMoves`): a new row is the
newest one that is scanned and can only push older ones out of the scan, and what
covers a path changes with the status of a transaction alone.

## 9. The event stream

`EventStream` has the detector (`spawn_change_detector`), the streams
(`events_handler`), the broadcast queue of each client, and the server's phases
(`serve_listener`). A status is told by the file it was read from and the number
of commits to it; `data_version` is that number seen over one connection.
`writes` counts the commits to all files since the detector started, and `early`
holds the streams whose last snapshot was built before the detector had a first
version; the code knows neither, they are there for `NoSpuriousFrames` and
`CatchesUp`.

| Code | Model |
|---|---|
| the detector's loop | `Tick`, `TickFails`, `Build`, `Send`, `DetectorStops` |
| `build_daemon_event` | `Status`, `Builds` (what cannot be read is sent as zero: `Unread`) |
| the broadcast channel | `Pushed`, `lagged` |
| `events_handler` | `Subscribe`, `Show`, `Snapshot`, `Receive`, `Resync`, `EndStream` |
| `serve_listener` | `SignalShutdown`, `GraceOver`, `ServerStops` |

**Run** `stream`: one client, a queue of two, two ledger files, two commits to
each, one failed read. Clients do not influence each other except through
shutdown, which waits for all. `NoSpuriousFrames`, `CatchesUp` and
`ShutdownCompletes`, the last two under weak fairness of the runtime's tasks;
nobody has to connect, commit or press Ctrl+C. `CatchesUp` names what the code
does not recover from: a ledger removed under the detector's connection
(`Blind`; `reset --include-ledger` leaves it reading the unlinked file), a commit
between a client's snapshot and the detector's first, silent version (`Cold`: of
that client alone, and only until the next commit), and a status that could not be
read and went out as zeros, while it is the last frame of that client (`Misread`).
A detector that never publishes after its baseline, and one that publishes the
baseline itself, both violate the run. The readiness flags of the status and the graph viewer's stream are
left out.

**Proofs.** `StreamProofs`: `StreamTypeCorrect`, for any number of clients, ledgers
and commits and any capacity. It needs that a ledger has a commit from the moment
it exists, or a status read from it would be none. `FramesArePaidFor`
(`Spec => []NoSpuriousFrames`) is a matter of accounts (`Paid`): what was broadcast,
what is about to be (`Pending`) and what the detector will still notice (`Unseen`)
together do not exceed the commits and failed reads, and a detector that has seen
no version yet has broadcast nothing, which is why a silent baseline may forget
the commits before it; a ledger that was there at the start is not counted.

## 10. The index

`IndexSync` keeps for each file its content (numbered in the order of the edits),
its row (live, hash, symbols), the watcher's pending events and batch, and what
every run of the incremental index has found, knows and has read. Each read of a
file is a step of its own, so a file may change between the parse and the hash.

| Code | Model |
|---|---|
| `filter_and_dedup_events`, debounced events | `Noted`, `Change` |
| `process_batch`, the mega batch | `Take`, `Refuse` |
| `apply_sqlite_delta` and `index_file` | `Parse`, `Hash`, `Synced`, `Sync` |
| the watch loop's error and Ctrl+C | `SyncFails`, `WatchStops` |
| `incremental_index` | `Discover`, `Load`, `Compare`, `DeleteSymbols`, `MarkDeleted`, `Work`, `Collect`, `Flush` |
| post-commit's budget, a kill, an error | `Abort`, `CollectFails` |
| `count_content_hash_drift` | `Drifted` |

**Run** `index`: two files, one indexer, batches of one, a mega batch of two,
three edits of which the second leaves a file that cannot be parsed, one fault.
`TypeOK` also says that the watcher reads only files of its batch (`WatchReads`)
and that a run reads, indexes and holds only files it has found and deletes none
of these (`RunReads`).
`CleanIsTrue`: a file that does not count as drifted and that nobody is at work
on has the symbols of its content. `Settles`, under weak fairness of the watcher
and of an index run that a user repeats: everything is right in the end, unless
the hash hides what a failure left half done. Both except `hurt` files: a kill
between the deletion of the symbols and the write of the new ones leaves a row
without symbols, and if the watcher had brought the row up to date in the meantime
its hash hides that; a deletion that failed unnoticed leaves old symbols beside
the new ones. And files of a refused batch, for which the watcher asks for a full
index.

**Proofs.** `IndexProofs`: `IndexTypeCorrect`, for any number of overlapping runs,
and `HashTells` (`Spec => []CleanIsTrue`) under `OneIndexer`, the assumption that
incremental runs do not overlap, for any number of files and edits and any batch
sizes. The invariant follows a content from the read to the row. `Watched`: what
the watcher has parsed is what the file has, or an edit of it is pending, so a
hash read later than the symbols is put right by the next batch. `Cleared`: while
a run holds the content that a file has, the row has no other symbols. `Agrees`: a
row whose hash is that of the file has its symbols, unless the watcher will write
it or it is `hurt` or `marked`. Neither of the last two is inductive alone, since
a batch is written over what the watcher may have written meanwhile.

Assumed: contents do not come back (a file that is edited and then restored
byte for byte between two reads would agree in its hash). One indexer: two runs
that overlap add each other's symbols under a matching hash (both delete before
either writes), and `CleanIsTrue` does not hold for them. The mark of a refused
batch is lost when a run that was already under way finishes.

## 11. Federation

`Federation` keeps what the siblings do on their own (their entries, their
symbols, their `schema.json`, an export under way), the three tables, and for
each local process where it is and what it holds. Tables that allow duplicates
are bags. `alone` says that nothing has disturbed a run, `gone` which siblings had
no file at some moment of it, `before` what was stored when it began; the code
knows none of them, they are there for the properties.

| Code | Model |
|---|---|
| `execute_federate_export` | `ExportOpens`, `ExportWrites`, `ExportDies`; `Ages` for its thirty days |
| `scan_siblings`, the automatic export | `Begin`, `Look`, `SyncAndLook` |
| `upsert_federated_link_by_path`, `migrate_sibling_trace_id` | `Pick`, `Strip`, `Dedupe`, `Rename`, `Unlink`, `Link` |
| clear, discover and save dependencies | `Clear`, `Save` |
| `import_federated_entries` | `Import`: a transaction, whose conflict is `Fails` |
| the analysis's deadline | `OutOfTime` |
| `prune_dead_and_self_links`, `delete_federated_link` | `ReadLinks`, `Keep`, `ForgetDeps`, `ForgetRows`, `Drop` |
| `check_cross_repo_impact` | `Report`, `Check` |
| an error, a kill | `Fails`, `Dies` |

**Run** `federation`: one sibling, two processes, three runs, two steps of the
sibling, one failure, automatic exports, from a new database or one of two that
older binaries left. The statements about two names touch different rows, so the
races are those on one name; three runs are two that overlap or break off and one
that repairs. `OneRowPerEntry`: no entry is stored twice under a name, although
no unique index forbids it. `RunSettles`: an undisturbed run never trips over its
own foreign key and leaves exactly what it found, whatever was there.
`OnlyTheMissingForgotten`: only a run during which a sibling had no file forgets
the last copy of an entry; a file that cannot be read is no reason. Deadlock is off
because the bounds run out. `TypeOK` says what the variables are; it is proved, and
not one of the run's invariants. `fed_removed` is a finding (12).

**Proofs.** `FederationProofs`, for any finite or infinite sets of processes,
siblings, entries and symbols, any old database and any bounds. All of it rests on
`Structure`: the types, that a path keeps at most one link under an old name
(`OneOldName`), what a run is at work on (`Working`), and that nobody gives the
sibling that is being stored another name again (`Named`).

`UndisturbedRunSettles` (`Spec => []RunSettles`) needs `Alone` for each run
besides: while nothing disturbs it no other process runs and what it found is
still there (`Undisturbed`), every sibling it is through with is settled, of the
one at hand it is known how far the run has got (`Half`), and the links that are
still to be judged are all that may be dead (`Swept`). `Undisturbed` is what
makes the runs before it irrelevant: the theorem has no hypothesis.

`EntriesStoredOnce` and `NothingElseForgotten` have one, `OwnNames`: no older
binary linked a path under the directory name of another sibling, or filed
entries so. Without it both fail: one run migrates the entries of a path away
from a name while another run imports under that name, for the sibling it
belongs to (12); and when that sibling leaves, the entries of the other go with
it. With it a name stands for one sibling as long as it bears a link
(`RowsOwned`), and what a run believes of an old name stays true until its
entries are gone (`Moving`), so that between the deletion of the entries both
names have and the update that renames the rest nobody can add to either in a
way that makes them meet. For `OnlyTheMissingForgotten`, `Forgetting` says that
a name about to be deleted belongs to a sibling that had no file during that
run, or has nothing left to lose: a run that judges a link to be dead is told so
by the disk, however old its list of links is. Assumed of the constants: old
databases have the types and at most one other name per path (`OldAssumption`),
the names of older binaries are not directories beside the repository
(`NamesAssumption`), a missing or torn file is no schema (`AbsentAssumption`),
every entry has an owner, bounds are numbers.

Abstracted: a directory is its path and its name; a path has at most one link
under an old name; siblings are taken in any order (the code sorts by the name
in the file, which is arbitrary); the limit of twenty siblings is not reached;
the two places of `schema.json` are one; a file that fails validation counts as
unreadable; the rows of `transactions` beside an import are left out; the search
for uses of symbols returns any of those that the file has; the check reads the
store in one step; a sibling runs one export of its own at a time. Interrupted
runs may leave entries under a name that no link bears; nobody reads them.

## 12. Findings

`fed_removed` ends with a counterexample to a sentence of the repository, which
`PROJECT.json` quotes: an impact analysis replaces the dependencies before it
looks for those whose interface is gone (`federated/refresh.rs:56`), so that it
does not report a removed interface. On read-only storage the refresh is skipped
(`impact/enrichment/federated.rs:24`) and the check reports it.

Disagreements met while modelling, without a run of their own:

- `ledger adopt` prints that drift was committed while the rows it promoted stay
  PENDING (`commands/ledger/maintenance.rs:111`).
- `hook-repair --force` writes the status `ROLLBACK`, which no enum has, and no
  ledger entry (`maintenance.rs:477`); it removes a sidecar it has not looked at
  since (`:478`). The model has both steps.
- A sidecar whose row was resolved by another command makes every later
  commit-msg fail until somebody removes the file (`hook_commit_msg/gc.rs:107`).
- `recover-orphan --abandon` works on the fixed entity `ledger-recovery`: cut
  short, it leaves a PENDING row there that blocks every later one
  (`ledger/lifecycle.rs:423`; `hooks_live` with `MaxCuts = 1` shows it).
- `re-sign --tx` of one of two damaged rows takes the order captured before it
  signed, puts the maintenance row beside the other one and forks the chain
  (`ledger_re_sign/mutate.rs:139`, whose comment means to avoid it; `Chain` with
  `Modes = {"tx"}` and `MaxDamage = 2` shows it).
- Entries are imported under the lower-case path and looked up under the exported
  one: a change of a file with a capital letter is not reported
  (`ledger/federation.rs:58`).
- An old link that bears the directory name of another sibling may be given that
  sibling's path, with the entries of the first (`federated/storage.rs:112`). Two
  runs that overlap can then store an entry twice: one migrates the entries of `a`
  from the name `b`, the other links `b` again and imports both siblings before
  the first renames (`Federation` with two siblings and the link of `a` under the
  name `b` shows it). The theorems exclude such databases by `OwnNames`.
- `docs/architecture.md:149` says that federation never writes to siblings; with
  automatic export a scan does (`federated/scanner.rs:372`), and killed by its
  timeout it leaves their file truncated.
- With three devices on one folder a device may miss entries
  (`sync/transport/dir.rs:398`).
- When `apply` fails on a good bundle (the database is busy, the disk is full) the
  bundle goes to quarantine (`sync/mod.rs:383`), where nothing reads it again, and
  its sender does not export the rows again: one failure of a moment loses them
  for that device. So does a clock that is too far ahead for a moment (`:323`).
- Two runs of a device that extract the same rows at the same clock put a file of
  the same name; the second removes the first's before it renames its own
  (`sync/transport/dir.rs:278`). Killed in between it leaves none, while the first
  run stamps the rows as exported.
- A read error ends `read_capped` as the end of the output does
  (`exec/grouped.rs:235`) and a reader that panics counts as no output (`:254`), in
  both cases with `truncated = false`. An error of `wait_timeout` returns at once
  and leaves the group running (`:76`, `:168`); a failed kill is told only in the
  detail of the timeout.
- The gate's `entities_for_tx` speaks of committed entries
  (`commands/policy_check.rs:846`) and takes all: rolling back the transaction of
  a passing run makes its path verified (`PassNeedsRun` names both).
- A verify run during which the tree is edited and put back binds HEAD although
  it looked at something else; `results.rs` says that a dirty run cannot look
  like proof. Overlapping runs lose history records; a kill between truncate and
  write leaves a history that is never updated again; rows that cannot be saved
  are a warning.

## 13. What is proved, what is only checked, what is not modelled

| Theorem module | What it proves |
|---|---|
| `LedgerProofs` | the ledger's types and all its safety properties, and that it implements `LedgerContract` |
| `HookProofs` | the hooks' types, `NoClobber`, `EnforceCovers`, `OrphanTrail` |
| `TeamSyncProofs` | the types of team sync, `NothingLost` for two devices and any clocks |
| `ChainProofs` | `RepairIsWhole`, `VerifyIsSound`, `CheckpointTells`, `AdoptionStands`, `ChainGrows`, if `re-sign --tx` meets one damaged row at most |
| `VerifyProofs` | the types of verification runs and that each is recorded once, `PassIsWhole`, `DirtyIsNoProof`, `PassNeedsRun`; the grouped call's types, `OutputIsWhole`, `NoLeak` |
| `StreamProofs` | the types of the event stream, the capacity of its queues, `NoSpuriousFrames` |
| `IndexProofs` | the types of the index and what watcher and runs may read, `CleanIsTrue` for one indexer |
| `FederationProofs` | the types of federation, `RunSettles`; `OneRowPerEntry` and `OnlyTheMissingForgotten` if names in old databases are those of their siblings |

Only model-checked: the liveness properties (`RecoveryFreesOrphan`, `Quiesces`,
`Consolidates`, `Drains`, `ReturnsUnlessHeld`, `CatchesUp`, `ShutdownCompletes`,
`Settles`), since liveness under fairness is beyond the prover in use. Every
invariant and every action property that a run passes is a theorem, some under a
hypothesis the module's section names.

Each property has a mutant: a definition written before the one it replaces,
marked "Mutant of", that is wrong in a plausible way, and under which TLC finds
the property violated. They say that the property depends on the code.

Not modelled: sidecars that do not parse (a torn write), linked worktrees, the
status gate of pre-commit; pairing, tombstones (no code creates the first one)
and archive trimming in sync; trusted keys and head signatures; the choice of a
verification plan; the graph delta, full index and documents; an impact analysis on read-only
storage, which skips the refresh and changes nothing; the web server's
other handlers; cryptography, which appears as "the sender is known" or "the
signature is broken". Every component that section 1 lists without a module is
extraction, analysis, format or I/O: it reads inputs and produces a report in one
go, so its correctness is a matter of many unit tests and not of orders of steps.
`PROJECT.json` gives the reason for each, and the hazards that no property
covers yet.

## 14. Running

`tlc -config MCSync.cfg MCSync` checks one run, `tlapm TeamSyncProofs.tla` the
proofs of one module. The longest runs are `ledger`, `sync`, `exec` and
`federation`, about two minutes each on two cores; `FederationProofs` takes six
minutes, `ChainProofs` four, `VerifyProofs` three.

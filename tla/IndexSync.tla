----------------------------- MODULE IndexSync -----------------------------
(***************************************************************************)
(* The symbol index of a working tree and the two ways it follows edits:   *)
(* `ledgerful watch`, which indexes batches of changed files, and the      *)
(* incremental index, run by commands with --auto-index and by post-commit *)
(* and repeated by users.  They share the tables and nothing keeps them    *)
(* apart.  A row has the hash of the content it was made from, by which    *)
(* the next run tells whether the file has drifted.                        *)
(*                                                                         *)
(* Contents are numbered in the order of the edits, 0 is no file, and the  *)
(* symbols of a content are told by its number.                            *)
(***************************************************************************)
EXTENDS Naturals, FiniteSets

CONSTANTS
    Files,
    Indexers,       \* processes that run the incremental index
    Broken,         \* contents that cannot be parsed
    BatchSize,      \* BATCH_SIZE
    MegaBatch,      \* watch.mega_batch_threshold
    MaxEdits,       \* bound on the edits
    MaxFaults       \* bound on failures and kills

ASSUME IndexAssumption ==
    /\ BatchSize \in Nat \ {0} /\ MegaBatch \in Nat \ {0}
    /\ MaxEdits \in Nat /\ MaxFaults \in Nat
    /\ IsFiniteSet(Files)

VARIABLES
    tree,       \* content of each file
    edits,      \* number of edits
    faults,
    rows,       \* project_files and project_symbols, by file
    pending,    \* events of each file since the last batch
    watch,      \* the watcher: control, batch, what it read of each file
    run,        \* every indexer: control, what it saw, has to do and read
    hurt,       \* files a failure or a kill left half done
    marked      \* files of the batches that were refused as too large

worktree == <<tree, edits>>
vars == <<worktree, faults, rows, pending, watch, run, hurt, marked>>

Contents == 0..MaxEdits
Unread == MaxEdits + 1
Symbols(content) == IF content = 0 \/ content \in Broken THEN {} ELSE {content}
Nothing == [f \in Files |-> Unread]

NoRow == [live |-> FALSE, hash |-> 0, symbols |-> {}]
IdleWatch == [pc |-> "idle", batch |-> {}, gone |-> {}, parsed |-> Nothing, hash |-> Nothing]
IdleRun == [pc |-> "idle", found |-> {}, known |-> Nothing, todo |-> {}, gone |-> {},
            read |-> Nothing, batch |-> {}]

\* How a file's row compares with the file (count_content_hash_drift).
Drifted(f) ==
    IF tree[f] = 0 THEN rows[f].live ELSE ~rows[f].live \/ rows[f].hash # tree[f]

Fault == faults < MaxFaults /\ faults' = faults + 1

-----------------------------------------------------------------------------
Init ==
    /\ tree = [f \in Files |-> 0]
    /\ edits = 0 /\ faults = 0
    /\ rows = [f \in Files |-> NoRow]
    /\ pending = [f \in Files |-> "none"]
    /\ watch = IdleWatch
    /\ run = [p \in Indexers |-> IdleRun]
    /\ hurt = {} /\ marked = {}

-----------------------------------------------------------------------------
(* Edits, and the events the watcher collects.                             *)

\* filter_and_dedup_events: an unknown event does not replace another one.
\* A watcher that is off collects nothing.
Noted(f, kind) ==
    [pending EXCEPT ![f] =
        IF watch.pc = "off" \/ (kind = "unknown" /\ @ # "none") THEN @ ELSE kind]

Change(f, content, kind) ==
    /\ edits < MaxEdits
    /\ edits' = edits + 1
    /\ tree' = [tree EXCEPT ![f] = content]
    /\ pending' = Noted(f, kind)
    /\ UNCHANGED <<faults, rows, watch, run, hurt, marked>>

Write(f) == Change(f, edits + 1, "modify")
Remove(f) == tree[f] # 0 /\ Change(f, 0, "delete")
\* A rename is an event of the kind Modify of both paths.
RenameAway(f) == tree[f] # 0 /\ Change(f, 0, "modify")

\* An event of a file, such as one of its metadata, with no change of its
\* content.
OtherEvent(f) ==
    /\ tree[f] # 0
    /\ pending' = Noted(f, "unknown")
    /\ UNCHANGED <<worktree, faults, rows, watch, run, hurt, marked>>

-----------------------------------------------------------------------------
(* The watcher: execute_watch and IncrementalSyncEngine.                   *)

Batch == {f \in Files : pending[f] # "none"}

\* A batch is refused when it is too large.
Refuse ==
    /\ watch.pc = "idle" /\ Cardinality(Batch) >= MegaBatch
    /\ marked' = marked \cup Batch
    /\ pending' = [f \in Files |-> "none"]
    /\ UNCHANGED <<worktree, faults, rows, watch, run, hurt>>

\* Mutant of Take: a large batch is taken too.
TakeAny ==
    /\ watch.pc = "idle" /\ Batch # {}
    /\ watch' = [IdleWatch EXCEPT
            !.pc = "parse",
            !.batch = {f \in Batch : pending[f] = "modify"},
            !.gone = {f \in Batch : pending[f] = "delete"}]
    /\ pending' = [f \in Files |-> "none"]
    /\ UNCHANGED <<worktree, faults, rows, run, hurt, marked>>

Take ==
    /\ watch.pc = "idle" /\ Batch # {} /\ Cardinality(Batch) < MegaBatch
    /\ watch' = [IdleWatch EXCEPT
            !.pc = "parse",
            !.batch = {f \in Batch : pending[f] = "modify"},
            !.gone = {f \in Batch : pending[f] = "delete"}]
    /\ pending' = [f \in Files |-> "none"]
    /\ UNCHANGED <<worktree, faults, rows, run, hurt, marked>>

\* A file that is not there any more is skipped; one that cannot be parsed
\* counts as deleted.
Parse(f) ==
    /\ watch.pc = "parse" /\ f \in watch.batch /\ watch.parsed[f] = Unread
    /\ watch' =
        IF tree[f] = 0 THEN [watch EXCEPT !.batch = @ \ {f}]
        ELSE IF tree[f] \in Broken
            THEN [watch EXCEPT !.batch = @ \ {f}, !.gone = @ \cup {f}]
            ELSE [watch EXCEPT !.parsed[f] = tree[f]]
    /\ UNCHANGED <<worktree, faults, rows, pending, run, hurt, marked>>

\* index_file reads the file a second time for its hash.
Hash(f) ==
    /\ watch.pc = "parse" /\ f \in watch.batch
    /\ watch.parsed[f] # Unread /\ watch.hash[f] = Unread
    /\ watch' = [watch EXCEPT !.hash[f] = tree[f]]
    /\ UNCHANGED <<worktree, faults, rows, pending, run, hurt, marked>>

\* A file's row after the batch: rebuilt, deleted, or as it is.
Synced(f) ==
    CASE f \in watch.batch -> [live |-> TRUE, hash |-> watch.hash[f],
                               symbols |-> {watch.parsed[f]}]
      [] f \in watch.gone  -> [rows[f] EXCEPT !.live = FALSE, !.symbols = {}]
      [] OTHER             -> rows[f]

\* One transaction for the whole batch.
Sync ==
    /\ watch.pc = "parse" /\ \A f \in watch.batch : watch.hash[f] # Unread
    /\ rows' = [f \in Files |-> Synced(f)]
    /\ hurt' = hurt \ (watch.batch \cup watch.gone)
    /\ watch' = IdleWatch
    /\ UNCHANGED <<worktree, faults, pending, run, marked>>

\* The batch fails: a warning, and its files are not tried again.
SyncFails ==
    /\ watch.pc = "parse" /\ Fault
    /\ hurt' = hurt \cup watch.batch \cup watch.gone
    /\ watch' = IdleWatch
    /\ UNCHANGED <<worktree, rows, pending, run, marked>>

\* Ctrl+C.
WatchStops ==
    /\ watch.pc # "off" /\ Fault
    /\ hurt' = hurt \cup watch.batch \cup watch.gone \cup Batch
    /\ watch' = [IdleWatch EXCEPT !.pc = "off"]
    /\ pending' = [f \in Files |-> "none"]
    /\ UNCHANGED <<worktree, rows, run, marked>>

-----------------------------------------------------------------------------
(* The incremental index: incremental_index.                               *)

Set(p, r) == run' = [run EXCEPT ![p] = r]

Discover(p) ==
    /\ run[p].pc = "idle"
    /\ Set(p, [IdleRun EXCEPT !.pc = "load", !.found = {f \in Files : tree[f] # 0}])
    /\ UNCHANGED <<worktree, faults, rows, pending, watch, hurt, marked>>

\* load_existing_files.
Load(p) ==
    /\ run[p].pc = "load"
    /\ Set(p, [run[p] EXCEPT
            !.pc = "compare",
            !.known = [f \in Files |-> IF rows[f].live THEN rows[f].hash ELSE Unread]])
    /\ UNCHANGED <<worktree, faults, rows, pending, watch, hurt, marked>>

\* Mutant of Compare: nobody looks for rows whose file is gone.
CompareFound(p) ==
    /\ run[p].pc = "compare"
    /\ LET r == run[p]
       IN Set(p, [r EXCEPT
            !.pc = "delete",
            !.todo = {f \in r.found : r.known[f] # tree[f] \/ tree[f] = 0}])
    /\ UNCHANGED <<worktree, faults, rows, pending, watch, hurt, marked>>

\* Files that are new or have another hash are indexed, rows of files that
\* were not found are deleted.
Compare(p) ==
    /\ run[p].pc = "compare"
    /\ LET r == run[p]
       IN Set(p, [r EXCEPT
            !.pc = "delete",
            !.todo = {f \in r.found : r.known[f] # tree[f] \/ tree[f] = 0},
            !.gone = {f \in Files \ r.found : r.known[f] # Unread}])
    /\ UNCHANGED <<worktree, faults, rows, pending, watch, hurt, marked>>

\* Of a deleted file first the symbols go and then the row.
DeleteSymbols(p, f) ==
    /\ run[p].pc = "delete" /\ f \in run[p].gone \ run[p].batch
    /\ Set(p, [run[p] EXCEPT !.batch = @ \cup {f}])
    /\ rows' = [rows EXCEPT ![f].symbols = {}]
    /\ UNCHANGED <<worktree, faults, pending, watch, hurt, marked>>

MarkDeleted(p, f) ==
    /\ run[p].pc = "delete" /\ f \in run[p].gone \cap run[p].batch
    /\ Set(p, [run[p] EXCEPT !.gone = @ \ {f}, !.batch = @ \ {f}])
    /\ rows' = [rows EXCEPT ![f].live = FALSE]
    /\ UNCHANGED <<worktree, faults, pending, watch, hurt, marked>>

Deleted(p) ==
    /\ run[p].pc = "delete" /\ run[p].gone = {}
    /\ Set(p, IF run[p].todo = {} THEN IdleRun ELSE [run[p] EXCEPT !.pc = "index"])
    /\ UNCHANGED <<worktree, faults, rows, pending, watch, hurt, marked>>

\* A worker reads and parses a file.
Work(p, f) ==
    /\ run[p].pc = "index" /\ f \in run[p].todo /\ run[p].read[f] = Unread
    /\ Set(p, [run[p] EXCEPT !.read[f] = tree[f]])
    /\ UNCHANGED <<worktree, faults, rows, pending, watch, hurt, marked>>

Collected(p, f) == Set(p, [run[p] EXCEPT !.todo = @ \ {f}, !.batch = @ \cup {f}])

\* collect_results deletes a file's symbols as its result comes in.
Collect(p, f) ==
    /\ run[p].pc = "index" /\ f \in run[p].todo /\ run[p].read[f] # Unread
    /\ Cardinality(run[p].batch) < BatchSize
    /\ Collected(p, f)
    /\ rows' = [rows EXCEPT ![f].symbols = {}]
    /\ UNCHANGED <<worktree, faults, pending, watch, hurt, marked>>

\* That deletion may fail, and nobody looks at its result.
CollectFails(p, f) ==
    /\ run[p].pc = "index" /\ f \in run[p].todo /\ run[p].read[f] # Unread
    /\ Cardinality(run[p].batch) < BatchSize
    /\ Fault
    /\ Collected(p, f)
    /\ hurt' = hurt \cup {f}
    /\ UNCHANGED <<worktree, rows, pending, watch, marked>>

\* Mutant of Upserted: the hash is taken as the batch is written.
UpsertedLate(p, f) ==
    [live    |-> TRUE,
     hash    |-> tree[f],
     symbols |-> rows[f].symbols \cup Symbols(run[p].read[f])]

\* A file that has vanished gets a row without hash and symbols, one that
\* cannot be parsed a row without symbols.
Upserted(p, f) ==
    [live    |-> TRUE,
     hash    |-> run[p].read[f],
     symbols |-> rows[f].symbols \cup Symbols(run[p].read[f])]

\* upsert_batch, one transaction for at most BatchSize files.
Flush(p) ==
    LET r == run[p]
    IN /\ r.pc = "index" /\ r.batch # {}
       /\ r.todo = {} \/ Cardinality(r.batch) = BatchSize
       /\ rows' = [f \in Files |-> IF f \in r.batch THEN Upserted(p, f) ELSE rows[f]]
       /\ Set(p, IF r.todo = {} THEN IdleRun ELSE [r EXCEPT !.batch = {}])
       /\ UNCHANGED <<worktree, faults, pending, watch, hurt, marked>>

\* An error, or post-commit's budget is over: what is deleted is not written
\* again.
Abort(p) ==
    /\ run[p].pc # "idle" /\ Fault
    /\ hurt' = hurt \cup run[p].batch
    /\ Set(p, IdleRun)
    /\ UNCHANGED <<worktree, rows, pending, watch, marked>>

-----------------------------------------------------------------------------
Editor(f) == Write(f) \/ Remove(f) \/ RenameAway(f) \/ OtherEvent(f)

WatchSteps ==
    \/ Refuse \/ Take \/ Sync
    \/ \E f \in Files : Parse(f) \/ Hash(f)

IndexSteps(p) ==
    \/ Discover(p) \/ Load(p) \/ Compare(p) \/ Deleted(p) \/ Flush(p)
    \/ \E f \in Files :
          DeleteSymbols(p, f) \/ MarkDeleted(p, f) \/ Work(p, f) \/ Collect(p, f)

Faulty ==
    \/ SyncFails \/ WatchStops
    \/ \E p \in Indexers : Abort(p) \/ \E f \in Files : CollectFails(p, f)

Next ==
    \/ \E f \in Files : Editor(f)
    \/ WatchSteps \/ Faulty
    \/ \E p \in Indexers : IndexSteps(p)

Spec == Init /\ [][Next]_vars

\* Programs run on, and a user who finds the index stale runs it again.
FairSpec ==
    /\ Spec
    /\ WF_vars(WatchSteps)
    /\ \A p \in Indexers : WF_vars(IndexSteps(p))

-----------------------------------------------------------------------------
(* Properties.                                                             *)

\* The watcher has read only files of its batch.
WatchReads == \A f \in Files \ watch.batch : watch.parsed[f] = Unread /\ watch.hash[f] = Unread

\* A run indexes and reads only files it has found, deletes none of them and
\* holds no other.
RunReads(r) ==
    /\ r.todo \subseteq r.found /\ r.gone \cap r.found = {}
    /\ r.batch \subseteq r.found \cup r.gone
    /\ \A f \in Files \ r.found : r.read[f] = Unread

\* Every variable has a value of its type; batches keep to their limits, a
\* file of the watcher's batch is changed or deleted and not both, and neither
\* the watcher nor a run reads a file that is not its to read.
TypeOK ==
    /\ tree \in [Files -> Contents]
    /\ edits \in Contents
    /\ faults \in 0..MaxFaults
    /\ rows \in [Files -> [live : BOOLEAN, hash : Contents,
                           symbols : SUBSET (1..MaxEdits)]]
    /\ pending \in [Files -> {"none", "modify", "delete", "unknown"}]
    /\ watch \in [pc : {"idle", "parse", "off"}, batch : SUBSET Files, gone : SUBSET Files,
                  parsed : [Files -> 1..Unread], hash : [Files -> 0..Unread]]
    /\ watch.batch \cap watch.gone = {} /\ WatchReads
    /\ Cardinality(watch.batch \cup watch.gone) < MegaBatch
    /\ run \in [Indexers ->
                  [pc : {"idle", "load", "compare", "delete", "index"},
                   found : SUBSET Files, known : [Files -> 0..Unread],
                   todo : SUBSET Files, gone : SUBSET Files,
                   read : [Files -> 0..Unread], batch : SUBSET Files]]
    /\ \A p \in Indexers :
          /\ run[p].pc = "index" => Cardinality(run[p].batch) <= BatchSize
          /\ RunReads(run[p])
    /\ hurt \subseteq Files /\ marked \subseteq Files

\* Somebody has still to do something about a file.
Underway(f) ==
    \/ pending[f] # "none"
    \/ f \in watch.batch \cup watch.gone
    \/ \E p \in Indexers : f \in run[p].batch

\* The symbols of a file that is gone are not asked for.
True(f) == tree[f] = 0 \/ rows[f].symbols = Symbols(tree[f])

\* `index --check` and --auto-index go by the hash of each file: a file that
\* has not drifted and that nobody is at work on has the symbols of its
\* content, however the watcher and other runs were interleaved with the
\* edits.  Excepted are files that a failure or a kill left half done and
\* files of a batch that was refused, for which the watcher asks for a full
\* index (incremental_index, process_batch, count_content_hash_drift).
CleanIsTrue ==
    \A f \in Files :
        ~Drifted(f) /\ ~Underway(f) /\ f \notin hurt \cup marked => True(f)

\* A user who runs the index again and again has it right in the end, also
\* after failures, unless the hash hides what they left half done
\* (try_auto_index).
Settles == <>[](\A f \in Files : ~Drifted(f) /\ (True(f) \/ f \in hurt \cup marked))
=============================================================================

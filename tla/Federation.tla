----------------------------- MODULE Federation -----------------------------
(***************************************************************************)
(* Federation between repositories that lie side by side in one directory. *)
(* Each of them exports its public symbols and its recent ledger entries   *)
(* to a file, schema.json; `federate scan` and every impact analysis read  *)
(* the files of the siblings into the local database:                      *)
(*                                                                         *)
(*   federated_links         who the peers are: a name and a path each     *)
(*   federated_dependencies  which local symbol uses which of theirs       *)
(*   ledger_entries          their entries, origin SIBLING, trace_id name  *)
(*                                                                         *)
(* Every statement of a run commits by itself (only an import is one       *)
(* transaction), so runs that overlap interleave statement by statement,   *)
(* with the siblings' own exports, moves and deletions in between.         *)
(*                                                                         *)
(* A sibling's directory stands for its path and for its basename.         *)
(***************************************************************************)
EXTENDS Naturals, Functions, Bags, BagsExt

CONSTANTS
  Procs,          \* processes on the local repository
  Peers,          \* directories beside it
  Root,           \* the local repository's own directory
  OldNames,       \* names that only links of an older binary bear
  Symbols,        \* public symbols of the siblings that local code mentions
  Txs, Owner,     \* the siblings' entries, and the sibling each belongs to
  File, EntryFile,\* the file of a symbol, and the file an entry is about
  Lower,          \* a file name's lower-case form, under which it is imported
  OldDatabases,   \* what earlier binaries may have left: [links, rows]
  Missing,        \* a path without a schema.json, or without a directory
  Torn,           \* a schema.json that an export has truncated, or died writing
  None,           \* the absence of a value
  AutoSync,       \* config: [federation] auto_sync_siblings
  MaxRuns, MaxEvents, MaxBreaks   \* bounds: runs, the siblings' steps, failures

Names == Peers \cup OldNames
Paths == Peers \cup {Root}
Schema == [entries : SUBSET Txs, symbols : SUBSET Symbols]

\* The functions from a part of S to T.
Partial(S, T) == UNION {[D -> T] : D \in SUBSET S}

ASSUME OwnerAssumption == Owner \in [Txs -> Peers]
ASSUME OldAssumption ==
  \A db \in OldDatabases :
    /\ db.links \in Partial(Names, Paths) /\ db.rows \subseteq Names \X Txs
    /\ \A d \in Peers : \A m, n \in DOMAIN db.links \ {d} :
         db.links[m] = d /\ db.links[n] = d => m = n
ASSUME NamesAssumption == OldNames \cap Peers = {} /\ Root \notin Peers
ASSUME AbsentAssumption == {Missing, Torn, None} \cap Schema = {} /\ Missing # Torn
ASSUME BoundsAssumption == {MaxRuns, MaxEvents, MaxBreaks} \subseteq Nat

VARIABLES
  disk,       \* what a reader finds at each sibling's path
  exporting,  \* the content a sibling's running export has still to write
  recent,     \* each sibling's LOCAL entries of the last 30 days
  api,        \* each sibling's public symbols
  links,      \* federated_links, by its unique name
  deps,       \* federated_dependencies, a bag of <<name, symbol>>
  rows,       \* SIBLING ledger entries, a bag of <<name, entry>>
  run,        \* the state of each process
  spent       \* how much of each bound is used up

world == <<disk, exporting, recent, api>>
store == <<links, deps, rows>>
vars == <<world, store, run, spent>>

Idle == [pc |-> "idle", kind |-> None, todo |-> {}, found |-> <<>>,
         left |-> {}, peer |-> None, old |-> {}, edges |-> {},
         doomed |-> <<>>, gone |-> {}, alone |-> FALSE,
         before |-> {}, report |-> {}]

Running == {p \in Procs : run[p].pc # "idle"}

TypeOK ==
  /\ disk \in [Peers -> Schema \cup {Missing, Torn}]
  /\ exporting \in [Peers -> Schema \cup {None}]
  /\ recent \in [Peers -> SUBSET Txs]
  /\ api \in [Peers -> SUBSET Symbols]
  /\ DOMAIN links \subseteq Names /\ \A n \in DOMAIN links : links[n] \in Paths
  /\ IsABag(deps) /\ DOMAIN deps \subseteq Names \X Symbols
  /\ IsABag(rows) /\ DOMAIN rows \subseteq Names \X Txs
  /\ DOMAIN run = Procs
  /\ \A p \in Procs :
       /\ run[p].kind \in {None, "scan", "impact"}
       /\ DOMAIN run[p].found \subseteq Peers
       /\ run[p].left \subseteq Peers /\ run[p].edges \subseteq Symbols
       /\ run[p].peer \in Peers \cup {None}
  /\ spent \in [runs : 0..MaxRuns, events : 0..MaxEvents, breaks : 0..MaxBreaks]

Init ==
  /\ disk = [d \in Peers |-> [entries |-> {}, symbols |-> Symbols]]
  /\ exporting = [d \in Peers |-> None]
  /\ recent = [d \in Peers |-> {}]
  /\ api = [d \in Peers |-> Symbols]
  /\ \E db \in OldDatabases : links = db.links /\ rows = SetToBag(db.rows)
  /\ deps = EmptyBag
  /\ run = [p \in Procs |-> Idle]
  /\ spent = [runs |-> 0, events |-> 0, breaks |-> 0]

Spend(kind, max) ==
  spent[kind] < max /\ spent' = [spent EXCEPT ![kind] = @ + 1]

-----------------------------------------------------------------------------
(* The siblings. Whatever they do, no run counts as undisturbed after it.  *)

Disturb(d) ==
  run' = [p \in Procs |->
            [run[p] EXCEPT !.alone = FALSE,
                           !.gone = @ \cup (IF disk'[d] = Missing /\ p \in Running
                                            THEN {d} ELSE {})]]

Current(d) == [entries |-> recent[d], symbols |-> api[d]]

Commits(d) ==
  /\ \E t \in Txs : /\ Owner[t] = d
                    /\ recent' = [recent EXCEPT ![d] = @ \cup {t}]
  /\ UNCHANGED <<disk, exporting, api, store, run>>

Ages(d) ==
  /\ \E t \in recent[d] : recent' = [recent EXCEPT ![d] = @ \ {t}]
  /\ UNCHANGED <<disk, exporting, api, store, run>>

ChangesApi(d) ==
  /\ \E s \in Symbols : api' = [api EXCEPT ![d] = IF s \in @ THEN @ \ {s} ELSE @ \cup {s}]
  /\ UNCHANGED <<disk, exporting, recent, store, run>>

(* federate export: collect, then fs::write, which truncates and fills.    *)
ExportOpens(d) ==
  /\ exporting[d] = None
  /\ exporting' = [exporting EXCEPT ![d] = Current(d)]
  /\ disk' = [disk EXCEPT ![d] = Torn]
  /\ Disturb(d)
  /\ UNCHANGED <<recent, api, store>>

ExportWrites(d) ==
  /\ exporting[d] # None
  /\ disk' = [disk EXCEPT ![d] = IF @ = Missing THEN Missing ELSE exporting[d]]
  /\ exporting' = [exporting EXCEPT ![d] = None]
  /\ Disturb(d)
  /\ UNCHANGED <<recent, api, store>>

ExportDies(d) ==
  /\ exporting[d] # None
  /\ exporting' = [exporting EXCEPT ![d] = None]
  /\ UNCHANGED <<disk, recent, api, store, run>>

(* The directory is deleted or moved away, or its state directory reset.   *)
Leaves(d) ==
  /\ disk[d] # Missing
  /\ disk' = [disk EXCEPT ![d] = Missing]
  /\ Disturb(d)
  /\ UNCHANGED <<exporting, recent, api, store>>

Siblings ==
  \E d \in Peers : \/ Commits(d) \/ Ages(d) \/ ChangesApi(d)
                   \/ ExportOpens(d) \/ ExportWrites(d) \/ ExportDies(d)
                   \/ Leaves(d)

Events == Siblings /\ Spend("events", MaxEvents)

-----------------------------------------------------------------------------
(* What a run reads and what it goes on with.                              *)

At(p, pc) == run[p].pc = pc
Becomes(p, r) == run' = [run EXCEPT ![p] = r]
Goes(p, pc) == Becomes(p, [run[p] EXCEPT !.pc = pc])

Readable(d) == disk[d] \in Schema

(* classify_link: a path is live when the file exists, readable or not.    *)
Dead(path) == path \in Peers => disk[path] = Missing

OfName(bag, n) == {x \in DOMAIN bag : x[1] = n}
Without(bag, n) == Restrict(bag, DOMAIN bag \ OfName(bag, n))

(* f with x mapped to y.                                                   *)
Put(f, x, y) == [z \in DOMAIN f \cup {x} |-> IF z = x THEN y ELSE f[z]]

(* The foreign key of federated_dependencies.                              *)
KeyHolds(p) ==
  /\ At(p, "save") => run[p].peer \in DOMAIN links
  /\ At(p, "unlink") => \A n \in run[p].old : OfName(deps, n) = {}
  /\ At(p, "drop") => \A n \in run[p].old : OfName(deps, n) = {}

(* A statement that fails ends a scan with its error; an impact analysis   *)
(* logs it and goes on to its check with what the store holds.             *)
Fails(p) ==
  /\ p \in Running /\ run[p].pc \notin {"check", "done"}
  /\ IF run[p].kind = "impact"
       THEN Becomes(p, [run[p] EXCEPT !.pc = "check", !.alone = FALSE])
       ELSE Becomes(p, Idle)
  /\ Spend("breaks", MaxBreaks)
  /\ UNCHANGED <<world, store>>

Dies(p) ==
  /\ p \in Running
  /\ Becomes(p, Idle)
  /\ Spend("breaks", MaxBreaks)
  /\ UNCHANGED <<world, store>>

(* With storage that is read-only an analysis skips the refresh and only   *)
(* checks, which changes nothing: not modelled.                            *)
Begin(p) ==
  /\ At(p, "idle")
  /\ \E kind \in {"scan", "impact"} :
       run' = [q \in Procs |->
                 IF q = p
                   THEN [Idle EXCEPT !.pc = "look", !.kind = kind, !.todo = Peers,
                                     !.gone = {d \in Peers : disk[d] = Missing},
                                     !.alone = Running = {},
                                     !.before = IF kind = "impact"
                                                  THEN DOMAIN deps ELSE {}]
                   ELSE [run[q] EXCEPT !.alone = FALSE]]
  /\ Spend("runs", MaxRuns)
  /\ UNCHANGED <<world, store>>

-----------------------------------------------------------------------------
(* scan_siblings: the directories one after the other, each with the       *)
(* schema it holds at that moment; one that cannot be read is passed over. *)

Looked(p, d) ==
  LET r == run[p]
      found == IF disk'[d] \in Schema THEN Put(r.found, d, disk'[d]) ELSE r.found
      todo == r.todo \ {d}
  IN  Becomes(p, [r EXCEPT !.todo = todo, !.found = found, !.left = DOMAIN found,
                           !.pc = IF todo = {} THEN "pick" ELSE "look"])

Look(p) ==
  /\ At(p, "look")
  /\ \E d \in run[p].todo : disk' = disk /\ Looked(p, d)
  /\ UNCHANGED <<exporting, recent, api, store, spent>>

(* auto_sync: a scan has the sibling export first when its file is missing,*)
(* unreadable or older than its last commit. The child may be killed by    *)
(* its timeout while it writes.                                            *)
SyncAndLook(p) ==
  /\ AutoSync /\ At(p, "look") /\ run[p].kind = "scan"
  /\ \E d \in run[p].todo :
       /\ disk[d] # Current(d)
       /\ \E s \in {Current(d), Torn} : disk' = [disk EXCEPT ![d] = s]
       /\ Looked(p, d)
  /\ UNCHANGED <<exporting, recent, api, store, spent>>

(* upsert_federated_link_by_path reads every link to find those of the     *)
(* same path that bear another name.                                       *)
Pick(p) ==
  /\ At(p, "pick")
  /\ \E d \in run[p].left :
       LET old == {n \in DOMAIN links : n # d /\ links[n] = d}
       IN  Becomes(p, [run[p] EXCEPT !.peer = d, !.left = @ \ {d}, !.old = old,
                                     !.pc = IF old = {} THEN "link" ELSE "strip"])
  /\ UNCHANGED <<world, store, spent>>

Strip(p) ==
  /\ At(p, "strip")
  /\ \E n \in run[p].old : deps' = Without(deps, n)
  /\ Goes(p, "dedupe")
  /\ UNCHANGED <<world, links, rows, spent>>

\* Mutant of Dedupe: a row the new name has is renamed, too.
DedupeNothing(p) ==
  At(p, "dedupe") /\ Goes(p, "rename") /\ UNCHANGED <<world, store, spent>>

(* migrate_sibling_trace_id: drop what the new name has, rename the rest.  *)
Dedupe(p) ==
  /\ At(p, "dedupe")
  /\ \E n \in run[p].old :
       rows' = Restrict(rows, {x \in DOMAIN rows :
                                 ~(x[1] = n /\ <<run[p].peer, x[2]>> \in DOMAIN rows)})
  /\ Goes(p, "rename")
  /\ UNCHANGED <<world, links, deps, spent>>

Renamed(n, d) ==
  LET moved == [x \in {<<d, y[2]>> : y \in OfName(rows, n)} |-> rows[<<n, x[2]>>]]
  IN  Without(rows, n) (+) moved

Rename(p) ==
  /\ At(p, "rename")
  /\ \E n \in run[p].old : rows' = Renamed(n, run[p].peer)
  /\ Goes(p, "unlink")
  /\ UNCHANGED <<world, links, deps, spent>>

Unlink(p) ==
  /\ At(p, "unlink") /\ KeyHolds(p)
  /\ links' = Restrict(links, DOMAIN links \ run[p].old)
  /\ Becomes(p, [run[p] EXCEPT !.old = {}, !.pc = "link"])
  /\ UNCHANGED <<world, deps, rows, spent>>

(* update_federated_link: the row of that name, with this path.            *)
Link(p) ==
  /\ At(p, "link")
  /\ links' = Put(links, run[p].peer, run[p].peer)
  /\ Goes(p, "clear")
  /\ UNCHANGED <<world, deps, rows, spent>>

AfterSave(p) == IF run[p].kind = "scan" THEN "import" ELSE "pick"

(* The edges found are what the run has to store of the peer's symbols.    *)
Discovered(p, edges) ==
  LET r == run[p]
      found == [r.found EXCEPT ![r.peer] = [entries |-> @.entries, symbols |-> edges]]
  IN  Becomes(p, [r EXCEPT !.edges = edges, !.found = found,
                           !.pc = IF edges = {} THEN AfterSave(p) ELSE "save"])

\* Mutant of Clear: the dependencies of the last run stay.
ClearNothing(p) ==
  /\ At(p, "clear")
  /\ \E edges \in SUBSET run[p].found[run[p].peer].symbols :
       Discovered(p, edges)
  /\ UNCHANGED <<world, store, spent>>

(* clear_federated_dependencies; then discover_dependencies walks the local*)
(* tree, and keeps what it has when its file budget or deadline is spent.  *)
Clear(p) ==
  /\ At(p, "clear")
  /\ deps' = Without(deps, run[p].peer)
  /\ \E edges \in SUBSET run[p].found[run[p].peer].symbols :
       Discovered(p, edges)
  /\ UNCHANGED <<world, links, rows, spent>>

Save(p) ==
  /\ At(p, "save") /\ KeyHolds(p)
  /\ \E s \in run[p].edges :
       LET rest == run[p].edges \ {s}
       IN  /\ deps' = BagAdd(deps, <<run[p].peer, s>>)
           /\ Becomes(p, [run[p] EXCEPT !.edges = rest,
                                        !.pc = IF rest = {} THEN AfterSave(p) ELSE "save"])
  /\ UNCHANGED <<world, links, rows, spent>>

(* import_federated_entries, one transaction: the entries that are not     *)
(* there under this name. A writer in between makes it fail (Fails).       *)
Import(p) ==
  /\ At(p, "import")
  /\ LET d == run[p].peer
         new == {<<d, t>> : t \in run[p].found[d].entries} \ DOMAIN rows
     IN  rows' = rows (+) SetToBag(new)
  /\ Goes(p, "pick")
  /\ UNCHANGED <<world, links, deps, spent>>

(* An impact analysis whose time is up leaves the siblings it has not done.*)
OutOfTime(p) ==
  /\ At(p, "pick") /\ run[p].kind = "impact" /\ run[p].left # {}
  /\ Becomes(p, [run[p] EXCEPT !.found = Restrict(@, DOMAIN @ \ run[p].left), !.left = {}])
  /\ UNCHANGED <<world, store, spent>>

AfterPrune(p) == IF run[p].kind = "scan" THEN "done" ELSE "check"

(* prune_dead_and_self_links: read the links, then judge each by its path. *)
ReadLinks(p) ==
  /\ At(p, "pick") /\ run[p].left = {}
  /\ Becomes(p, [run[p] EXCEPT !.doomed = links,
                               !.pc = IF DOMAIN links = {} THEN AfterPrune(p) ELSE "prune"])
  /\ UNCHANGED <<world, store, spent>>

Judged(p, n, pc) ==
  LET rest == Restrict(run[p].doomed, DOMAIN run[p].doomed \ {n})
  IN  Becomes(p, [run[p] EXCEPT !.doomed = rest,
                                !.old = IF pc = "forget" THEN {n} ELSE {},
                                !.pc = IF pc # "prune" THEN pc
                                       ELSE IF DOMAIN rest = {} THEN AfterPrune(p)
                                       ELSE "prune"])

\* Mutant of Doomed: a peer this run could not read is pruned, too.
DoomedUnlessFound(p, n) ==
  Dead(run[p].doomed[n]) \/ run[p].doomed[n] \notin DOMAIN run[p].found

(* The test on which everything the store knows of a peer is deleted.      *)
Doomed(p, n) == Dead(run[p].doomed[n])

Keep(p) ==
  /\ At(p, "prune")
  /\ \E n \in DOMAIN run[p].doomed : ~Doomed(p, n) /\ Judged(p, n, "prune")
  /\ UNCHANGED <<world, store, spent>>

(* delete_federated_link: dependencies, entries, link.                     *)
ForgetDeps(p) ==
  /\ At(p, "prune")
  /\ \E n \in DOMAIN run[p].doomed :
       Doomed(p, n) /\ deps' = Without(deps, n) /\ Judged(p, n, "forget")
  /\ UNCHANGED <<world, links, rows, spent>>

ForgetRows(p) ==
  /\ At(p, "forget")
  /\ \E n \in run[p].old : rows' = Without(rows, n)
  /\ Goes(p, "drop")
  /\ UNCHANGED <<world, links, deps, spent>>

Drop(p) ==
  /\ At(p, "drop") /\ KeyHolds(p)
  /\ links' = Restrict(links, DOMAIN links \ run[p].old)
  /\ Becomes(p, [run[p] EXCEPT !.old = {},
                               !.pc = IF DOMAIN run[p].doomed = {}
                                        THEN AfterPrune(p) ELSE "prune"])
  /\ UNCHANGED <<world, deps, rows, spent>>

(* check_cross_repo_impact: the live links by path, the dependencies kept  *)
(* under the basename, the file as it is now, the entries by exact name.   *)
Report ==
  LET live == {d \in {links[n] : n \in DOMAIN links} \ {Root} : Readable(d)}
      used(d) == {x[2] : x \in OfName(deps, d)}
      removed == UNION {{<<d, s>> : s \in used(d) \ disk[d].symbols} : d \in live}
      changed == {x \in live \X Symbols \X Txs :
                    LET d == x[1]  symbol == x[2]  tx == x[3]
                    IN  /\ symbol \in used(d) \cap disk[d].symbols
                        /\ <<d, tx>> \in DOMAIN rows /\ tx \in recent[Owner[tx]]
                        /\ Lower[EntryFile[tx]] = File[symbol]}
  IN  removed \cup changed

Check(p) ==
  /\ At(p, "check")
  /\ Becomes(p, [run[p] EXCEPT !.report = Report, !.pc = "done"])
  /\ UNCHANGED <<world, store, spent>>

End(p) ==
  /\ At(p, "done")
  /\ Becomes(p, Idle)
  /\ UNCHANGED <<world, store, spent>>

Discovery(p) == Begin(p) \/ Look(p) \/ SyncAndLook(p)
Upsert(p) == Pick(p) \/ Strip(p) \/ Dedupe(p) \/ Rename(p) \/ Unlink(p) \/ Link(p)
Content(p) == Clear(p) \/ Save(p) \/ Import(p) \/ OutOfTime(p)
Prune(p) == ReadLinks(p) \/ Keep(p) \/ ForgetDeps(p) \/ ForgetRows(p) \/ Drop(p)
Outcome(p) == Check(p) \/ End(p) \/ Fails(p) \/ Dies(p)

Next ==
  \/ Events
  \/ \E p \in Procs : Discovery(p) \/ Upsert(p) \/ Content(p) \/ Prune(p) \/ Outcome(p)

Spec == Init /\ [][Next]_vars

-----------------------------------------------------------------------------
(* However runs overlap or break off, an entry of a sibling is stored at   *)
(* most once under a name, through the count of the import and the deletion*)
(* before the rename (there is no unique index).  So it is for a database  *)
(* in which no name of one sibling links to another one (OwnNames).        *)
OneRowPerEntry == \A x \in DOMAIN rows : rows[x] = 1

(* What the run p set out to store of d: one link, under the basename, the *)
(* dependencies found for it, once each, and (scan) all entries of its file*)
Settled(p, d) ==
  LET found == run[p].found[d]
  IN  /\ {n \in DOMAIN links : links[n] = d} = {d}
      /\ OfName(deps, d) = {<<d, s>> : s \in found.symbols}
      /\ \A x \in OfName(deps, d) : deps[x] = 1
      /\ run[p].kind = "scan" => \A t \in found.entries : <<d, t>> \in DOMAIN rows

(* A run that is not disturbed repairs whatever earlier runs left behind:  *)
(* it never trips over its own foreign key, and in the end every sibling it*)
(* could read is settled and no link to a missing path is left.            *)
RunSettles ==
  \A p \in Procs : run[p].alone =>
    /\ KeyHolds(p)
    /\ At(p, "done") => /\ \A d \in DOMAIN run[p].found : Settled(p, d)
                        /\ \A n \in DOMAIN links : ~Dead(links[n])

(* The store loses the last copy of an entry only to a run during which    *)
(* the sibling had no schema.json at all. One that is exporting, whose     *)
(* export died or that a run could not read keeps its history.             *)
Stored(t) == \E x \in DOMAIN rows : x[2] = t
OnlyTheMissingForgotten ==
  [][\A t \in Txs : Stored(t) /\ ~Stored(t)' =>
       \E p \in Procs : run'[p] # run[p] /\ Owner[t] \in run[p].gone]_vars

(* impact.rs: a linked interface that was removed is a real impact. An     *)
(* undisturbed analysis that may write reports each dependency stored when *)
(* it began whose symbol the sibling's file no longer has.                 *)
RemovalIsReported ==
  [][\A p \in Procs : At(p, "check") /\ run[p].alone /\ run'[p].pc = "done" =>
       \A x \in run[p].before :
         (x[1] \in Peers /\ Readable(x[1]) /\ x[2] \notin disk[x[1]].symbols)
           => x \in run'[p].report]_vars
=============================================================================

--------------------------- MODULE HookLifecycle ---------------------------
(***************************************************************************)
(* The git hooks and the pending_hook_tx sidecar.                          *)
(*                                                                         *)
(* `git commit` runs the commit-msg hook, which binds the commit to a      *)
(* ledger row by writing a sidecar file (row id, hash of the message),     *)
(* then creates the commit, then runs the post-commit hook, which promotes *)
(* the row and drops the file.  The file, the ledger and HEAD change in    *)
(* separate steps; a hook may be killed between any two of them, and the   *)
(* ledger CLI runs beside it and touches the same file and rows.           *)
(*                                                                         *)
(* The ledger itself is LedgerContract: every operation on it is one step, *)
(* which Ledger.tla is shown to implement.  One commit runs at a time: the *)
(* index and COMMIT_EDITMSG of a worktree are shared.                      *)
(***************************************************************************)
EXTENDS Naturals, Sequences, FiniteSets

CONSTANTS
    TxIds,          \* transaction ids (fresh UUIDs)
    Entities,       \* entities of staged files and announced changes
    Recovery,       \* the fixed entity "ledger-recovery"
    NoName,         \* the entity of no row; also: nothing is staged
    Msgs,           \* cleaned commit messages; equal iff their hashes are
    Ref,            \* Ref[m]: the id on the Ledger: line of m
    NoTx,           \* m has no such line
    NoMsg,          \* HEAD before the first commit through the hooks
    NoSidecar,      \* the file does not exist
    Mode,           \* gate.mode
    Faults,         \* whose steps may fail or be cut short: "git", "repair"
    Overlap,        \* which of "recover", "repair" may run during a commit
    MaxCommits,     \* bound on the number of git commits tried
    MaxCuts,        \* bound on the number of ledger commands cut short
    Reserve         \* bound: ids kept for the rows of recover-orphan

ASSUME RefAssumption == Ref \in [Msgs -> TxIds \cup {NoTx}]
ASSUME ModeAssumption ==
    /\ Mode \in {"observe", "enforce"}
    /\ Faults \subseteq {"git", "repair"}
    /\ Overlap \subseteq {"recover", "repair"}

VARIABLES
    status, entity, log,    \* the ledger
    abandoned,  \* row ids quoted by [ABANDONED] entries of the ledger
    sidecar,    \* the pending_hook_tx file
    head,       \* message of the commit at HEAD
    git,        \* the git commit in progress and its hooks
    cli,        \* the ledger command in progress
    commits,    \* git commits tried so far
    cuts        \* ledger commands cut short so far

Names == Entities \cup {Recovery}
Sidecar == [tx : TxIds, hash : Msgs, failed : BOOLEAN]

ASSUME ValuesAssumption ==
    /\ NoTx \notin TxIds /\ NoMsg \notin Msgs /\ NoSidecar \notin Sidecar
    /\ {MaxCommits, MaxCuts} \subseteq Nat

L == INSTANCE LedgerContract

ledger == <<status, entity, log>>
vars == <<ledger, abandoned, sidecar, head, git, cli, commits, cuts>>

Pending == {t \in TxIds : status[t] = "PENDING"}
IdsLeft == Cardinality({t \in TxIds : status[t] = "NONE"}) > Reserve
Exists == sidecar # NoSidecar
Orphan == Exists /\ sidecar.failed

\* is_gc_eligible, outside a commit: neither a failed promotion nor bound to HEAD.
GcEligible == ~sidecar.failed /\ sidecar.hash # head

NoGit == [pc |-> "idle", msg |-> NoMsg, staged |-> NoName, tx |-> NoTx, copy |-> NoSidecar]
NoCli == [pc |-> "idle", tx |-> NoTx, copy |-> NoSidecar, todo |-> {}]

Init ==
    /\ L!Init
    /\ abandoned = {}
    /\ sidecar = NoSidecar
    /\ head = NoMsg
    /\ git = NoGit
    /\ cli = NoCli
    /\ commits = 0
    /\ cuts = 0

\* recover-orphan and hook-repair remove the file without looking at it again.
\* Nothing keeps a commit from running meanwhile but the user.
MayOverlap(c) == c \in Overlap \/ git.pc = "idle"
MayCommit ==
    /\ git.pc = "idle"
    /\ commits < MaxCommits
    /\ \/ cli.pc \in {"idle", "unlink", "gc"}
       \/ cli.pc \in {"repair", "repairDrop"} /\ "repair" \in Overlap
       \/ cli.pc \in {"promote", "announce", "maintain", "undo", "drop"} /\ "recover" \in Overlap

GitGoto(l) == git' = [git EXCEPT !.pc = l]
CliGoto(l) == cli' = [cli EXCEPT !.pc = l]
Cut == cuts < MaxCuts /\ cuts' = cuts + 1

-----------------------------------------------------------------------------
(* commit-msg: garbage collection of the sidecar of an earlier commit.     *)

\* A commit of files of entity e, or of nothing staged.
BeginCommit(m, e) ==
    /\ MayCommit
    /\ commits' = commits + 1
    /\ git' = [NoGit EXCEPT !.pc = "gc", !.msg = m, !.staged = e]
    /\ UNCHANGED <<ledger, abandoned, sidecar, head, cli, cuts>>

\* --no-verify, or intent.required = never under observe.  post-commit still
\* runs.
BypassHook(m) ==
    /\ MayCommit
    /\ commits' = commits + 1
    /\ git' = [NoGit EXCEPT !.pc = "accepted", !.msg = m]
    /\ UNCHANGED <<ledger, abandoned, sidecar, head, cli, cuts>>

\* Mutant of GcSidecar: a sidecar that may not be collected is left alone,
\* and the hook goes on.
GcSidecarProceeds ==
    /\ git.pc = "gc"
    /\ \/ /\ Exists => ~GcEligible /\ (sidecar.failed \/ sidecar.hash # git.msg)
          /\ GitGoto("classify")
       \/ /\ Exists /\ ~sidecar.failed /\ sidecar.hash = git.msg
          /\ git' = [git EXCEPT !.pc = "accepted", !.tx = sidecar.tx]
       \/ /\ Exists /\ GcEligible /\ sidecar.hash # git.msg
          /\ git' = [git EXCEPT !.pc = "gcRollback", !.copy = sidecar]
    /\ UNCHANGED <<ledger, abandoned, sidecar, head, cli, commits, cuts>>

GcSidecar ==
    /\ git.pc = "gc"
    /\ \/ /\ ~Exists
          /\ GitGoto("classify")
       \/ /\ Exists /\ ~sidecar.failed /\ sidecar.hash = git.msg
          /\ git' = [git EXCEPT !.pc = "accepted", !.tx = sidecar.tx]
       \/ /\ Exists /\ ~GcEligible /\ (sidecar.failed \/ sidecar.hash # git.msg)
          /\ GitGoto(IF Mode = "enforce" THEN "blocked" ELSE "accepted")
       \/ /\ Exists /\ GcEligible /\ sidecar.hash # git.msg
          /\ git' = [git EXCEPT !.pc = "gcRollback", !.copy = sidecar]
    /\ UNCHANGED <<ledger, abandoned, sidecar, head, cli, commits, cuts>>

\* The stale row is rolled back first.  If it is not PENDING the hook fails
\* and the file stays.
GcRollback ==
    /\ git.pc = "gcRollback"
    /\ \/ L!Resolve({git.copy.tx}, "rollback") /\ GitGoto("gcRemove")
       \/ /\ status[git.copy.tx] # "PENDING"
          /\ GitGoto("stale")
          /\ UNCHANGED ledger
    /\ UNCHANGED <<abandoned, sidecar, head, cli, commits, cuts>>

GcRemove ==
    /\ git.pc = "gcRemove"
    /\ sidecar' = NoSidecar
    /\ GitGoto("classify")
    /\ UNCHANGED <<ledger, abandoned, head, cli, commits, cuts>>

-----------------------------------------------------------------------------
(* commit-msg: which row owns the commit, and the new sidecar.             *)

\* resolve_provenance_sot: one read of the ledger.
Classify ==
    /\ git.pc = "classify"
    /\ LET ref == Ref[git.msg]
       IN  IF git.staged = NoName
           THEN GitGoto("accepted")
           ELSE \/ /\ ref # NoTx /\ status[ref] = "COMMITTED"
                   /\ git' = [git EXCEPT !.pc = "accepted", !.tx = ref]
                \/ /\ ref # NoTx /\ status[ref] = "PENDING"
                   /\ git' = [git EXCEPT !.pc = "link", !.tx = ref]
                \/ /\ ref = NoTx
                   /\ \E t \in Pending : /\ Pending = {t}
                                         /\ git' = [git EXCEPT !.pc = "link", !.tx = t]
                \/ /\ IF ref = NoTx THEN Cardinality(Pending) # 1
                                    ELSE status[ref] \notin {"COMMITTED", "PENDING"}
                   /\ GitGoto("capture")
    /\ UNCHANGED <<ledger, abandoned, sidecar, head, cli, commits, cuts>>

\* link_pending_provenance: the row must still be PENDING.
Link ==
    /\ git.pc = "link"
    /\ GitGoto(IF status[git.tx] = "PENDING" THEN "write" ELSE "blocked")
    /\ UNCHANGED <<ledger, abandoned, sidecar, head, cli, commits, cuts>>

\* Mutant of SkipIntent: enforce leaves skipped commits unrecorded as well.
SkipIntentAlways ==
    /\ git.pc = "capture"
    /\ GitGoto("accepted")
    /\ UNCHANGED <<ledger, abandoned, sidecar, head, cli, commits, cuts>>

\* A skipped or trivial intent leaves no row under observe (enforce records
\* it like any other); Esc in the TUI aborts the commit.
SkipIntent ==
    /\ git.pc = "capture"
    /\ \/ Mode = "observe" /\ GitGoto("accepted")
       \/ GitGoto("aborted")
    /\ UNCHANGED <<ledger, abandoned, sidecar, head, cli, commits, cuts>>

\* Mutant of Capture: the id is used although no row was inserted.
CaptureUninserted ==
    /\ git.pc = "capture"
    /\ \E t \in TxIds, m \in Msgs :
          /\ Ref[m] = Ref[git.msg]
          /\ status[t] = "NONE"
          /\ git' = [git EXCEPT !.pc = "write", !.tx = t, !.msg = m]
    /\ UNCHANGED <<ledger, abandoned, sidecar, head, cli, commits, cuts>>

\* silently_record_ledger.  A confident draft, or the TUI, replaces the
\* message and keeps its trailers.  start_change may find a conflict.
Capture ==
    /\ git.pc = "capture"
    /\ \/ \E t \in TxIds, m \in Msgs :
            /\ IdsLeft
            /\ Ref[m] = Ref[git.msg]
            /\ L!Open(t, git.staged, "PENDING")
            /\ git' = [git EXCEPT !.pc = "write", !.tx = t, !.msg = m]
       \/ /\ L!Holds(git.staged, "PENDING")
          /\ GitGoto("blocked")
          /\ UNCHANGED ledger
    /\ UNCHANGED <<abandoned, sidecar, head, cli, commits, cuts>>

WriteSidecar ==
    /\ git.pc = "write"
    /\ sidecar' = [tx |-> git.tx, hash |-> git.msg, failed |-> FALSE]
    /\ GitGoto("accepted")
    /\ UNCHANGED <<ledger, abandoned, head, cli, commits, cuts>>

-----------------------------------------------------------------------------
(* git, between and after the hooks.                                       *)

\* The commit exists; amending replaces HEAD in the same way.
CreateCommit ==
    /\ git.pc = "accepted"
    /\ head' = git.msg
    /\ GitGoto("post")
    /\ UNCHANGED <<ledger, abandoned, sidecar, cli, commits, cuts>>

\* A hook returned an error, the user gave up, the commit could not be
\* created, or post-commit returned.
EndCommit ==
    /\ git.pc \in {"blocked", "stale", "aborted", "accepted", "done"}
    /\ git' = NoGit
    /\ UNCHANGED <<ledger, abandoned, sidecar, head, cli, commits, cuts>>

\* Checkout, reset or rebase to a commit made with another message.
MoveHead(m) ==
    /\ git.pc = "idle"
    /\ head # NoMsg /\ head' = m
    /\ UNCHANGED <<ledger, abandoned, sidecar, git, cli, commits, cuts>>

-----------------------------------------------------------------------------
(* post-commit: promote_pending_ledger_tx.                                 *)

\* Mutant of PostRead: a failed orphan of another commit is discarded too.
PostReadDiscards ==
    /\ git.pc = "post"
    /\ IF Exists /\ sidecar.hash = head
       THEN git' = [git EXCEPT !.pc = "promote", !.copy = sidecar] /\ UNCHANGED sidecar
       ELSE GitGoto("done") /\ sidecar' = NoSidecar
    /\ UNCHANGED <<ledger, abandoned, head, cli, commits, cuts>>

PostRead ==
    /\ git.pc = "post"
    /\ IF Exists /\ sidecar.hash = head
       THEN git' = [git EXCEPT !.pc = "promote", !.copy = sidecar] /\ UNCHANGED sidecar
       ELSE GitGoto("done") /\ sidecar' = IF Orphan THEN sidecar ELSE NoSidecar
    /\ UNCHANGED <<ledger, abandoned, head, cli, commits, cuts>>

\* commit_change with force = FALSE: it is refused if the row is not PENDING,
\* and may be refused by the verification gate or a validator.
Promote ==
    /\ git.pc = "promote"
    /\ \/ L!Resolve({git.copy.tx}, "commit") /\ GitGoto("drop")
       \/ GitGoto("mark") /\ UNCHANGED ledger
    /\ UNCHANGED <<abandoned, sidecar, head, cli, commits, cuts>>

\* mark_promote_failed writes the file as it was read, whatever is there now.
MarkFailed ==
    /\ git.pc = "mark"
    /\ sidecar' = [git.copy EXCEPT !.failed = TRUE]
    /\ GitGoto("done")
    /\ UNCHANGED <<ledger, abandoned, head, cli, commits, cuts>>

DropSidecar ==
    /\ git.pc = "drop"
    /\ sidecar' = NoSidecar
    /\ GitGoto("done")
    /\ UNCHANGED <<ledger, abandoned, head, cli, commits, cuts>>

\* A hook is killed, or an error other than those above ends it before its
\* next step.  git aborts the commit, unless it exists already.
GitFault ==
    /\ "git" \in Faults
    /\ git.pc \in {"gc", "gcRollback", "gcRemove", "classify", "link", "capture",
                   "write", "post", "promote", "mark", "drop"}
    /\ git' = NoGit
    /\ UNCHANGED <<ledger, abandoned, sidecar, head, cli, commits, cuts>>

-----------------------------------------------------------------------------
(* The ledger commands.                                                    *)

LedgerStart(t, e) ==
    /\ cli.pc = "idle"
    /\ IdsLeft
    /\ L!Open(t, e, "PENDING")
    /\ UNCHANGED <<abandoned, sidecar, head, git, cli, commits, cuts>>

LedgerRollback(t) ==
    /\ cli.pc = "idle"
    /\ L!Resolve({t}, "rollback")
    /\ UNCHANGED <<abandoned, sidecar, head, git, cli, commits, cuts>>

\* ledger commit, which then removes the sidecar if it is of the same row.
LedgerCommit(t) ==
    /\ cli.pc = "idle"
    /\ L!Resolve({t}, "commit")
    /\ cli' = [NoCli EXCEPT !.pc = "unlink", !.tx = t]
    /\ UNCHANGED <<abandoned, sidecar, head, git, commits, cuts>>

Unlink ==
    /\ cli.pc = "unlink"
    /\ sidecar' = IF Exists /\ sidecar.tx = cli.tx THEN NoSidecar ELSE sidecar
    /\ cli' = NoCli
    /\ UNCHANGED <<ledger, abandoned, head, git, commits, cuts>>

\* ledger gc: the file is consulted once, before the scan.
GcScan(S) ==
    /\ cli.pc = "idle"
    /\ S # {}
    /\ S \subseteq {t \in Pending : Exists /\ ~GcEligible => t # sidecar.tx}
    /\ cli' = [NoCli EXCEPT !.pc = "gc", !.todo = S]
    /\ UNCHANGED <<ledger, abandoned, sidecar, head, git, commits, cuts>>

GcOne(t) ==
    /\ cli.pc = "gc"
    /\ t \in cli.todo
    /\ \/ L!Resolve({t}, "rollback")
       \/ status[t] # "PENDING" /\ UNCHANGED ledger
    /\ cli' = IF cli.todo = {t} THEN NoCli ELSE [cli EXCEPT !.todo = @ \ {t}]
    /\ UNCHANGED <<abandoned, sidecar, head, git, commits, cuts>>

\* recover-orphan --promote is only for the commit at HEAD.
RecoverPromote ==
    /\ cli.pc = "idle" /\ MayOverlap("recover")
    /\ Exists /\ sidecar.hash = head
    /\ cli' = [NoCli EXCEPT !.pc = "promote", !.copy = sidecar]
    /\ UNCHANGED <<ledger, abandoned, sidecar, head, git, commits, cuts>>

RecoverCommit ==
    /\ cli.pc = "promote"
    /\ \/ L!Resolve({cli.copy.tx}, "commit") /\ CliGoto("drop")
       \/ cli' = NoCli /\ UNCHANGED ledger
    /\ UNCHANGED <<abandoned, sidecar, head, git, commits, cuts>>

\* Mutant of RecoverAbandon: it asks for HEAD like --promote.
RecoverAbandonAtHead ==
    /\ cli.pc = "idle" /\ MayOverlap("recover")
    /\ Exists /\ sidecar.hash = head
    /\ cli' = [NoCli EXCEPT !.pc = "announce", !.copy = sidecar]
    /\ UNCHANGED <<ledger, abandoned, sidecar, head, git, commits, cuts>>

\* recover-orphan --abandon: a MAINTENANCE row is started and committed, the
\* bound row is rolled back if that is possible, the file is removed.
RecoverAbandon ==
    /\ cli.pc = "idle" /\ MayOverlap("recover")
    /\ Exists
    /\ cli' = [NoCli EXCEPT !.pc = "announce", !.copy = sidecar]
    /\ UNCHANGED <<ledger, abandoned, sidecar, head, git, commits, cuts>>

Announce ==
    /\ cli.pc = "announce"
    /\ \/ \E t \in TxIds : /\ L!Open(t, Recovery, "PENDING")
                           /\ cli' = [cli EXCEPT !.pc = "maintain", !.tx = t]
       \/ L!Holds(Recovery, "PENDING") /\ cli' = NoCli /\ UNCHANGED ledger
    /\ UNCHANGED <<abandoned, sidecar, head, git, commits, cuts>>

Maintain ==
    /\ cli.pc = "maintain"
    /\ \/ /\ L!Resolve({cli.tx}, "commit")
          /\ abandoned' = abandoned \cup {cli.copy.tx}
          /\ CliGoto("undo")
       \/ /\ status[cli.tx] # "PENDING"
          /\ cli' = NoCli
          /\ UNCHANGED <<ledger, abandoned>>
    /\ UNCHANGED <<sidecar, head, git, commits, cuts>>

Undo ==
    /\ cli.pc = "undo"
    /\ \/ L!Resolve({cli.copy.tx}, "rollback") /\ UNCHANGED cuts
       \/ status[cli.copy.tx] # "PENDING" /\ UNCHANGED <<ledger, cuts>>
       \/ Cut /\ UNCHANGED ledger
    /\ CliGoto("drop")
    /\ UNCHANGED <<abandoned, sidecar, head, git, commits>>

CliDrop ==
    /\ cli.pc = "drop"
    /\ sidecar' = NoSidecar
    /\ cli' = NoCli
    /\ UNCHANGED <<ledger, abandoned, head, git, commits, cuts>>

\* hook-repair --force, for a file that is stale when it is read.  The status
\* it writes is not ROLLED_BACK, and no entry is appended.
HookRepair ==
    /\ cli.pc = "idle" /\ MayOverlap("repair")
    /\ Exists /\ GcEligible
    /\ cli' = [NoCli EXCEPT !.pc = "repair", !.copy = sidecar]
    /\ UNCHANGED <<ledger, abandoned, sidecar, head, git, commits, cuts>>

Repair ==
    /\ cli.pc = "repair"
    /\ \/ /\ status[cli.copy.tx] = "PENDING"
          /\ status' = [status EXCEPT ![cli.copy.tx] = "ROLLBACK"]
       \/ /\ status[cli.copy.tx] # "PENDING" \/ "repair" \in Faults
          /\ UNCHANGED status
    /\ CliGoto("repairDrop")
    /\ UNCHANGED <<entity, log, abandoned, sidecar, head, git, commits, cuts>>

RepairDrop ==
    /\ cli.pc = "repairDrop"
    /\ sidecar' = NoSidecar
    /\ cli' = NoCli
    /\ UNCHANGED <<ledger, abandoned, head, git, commits, cuts>>

\* The command is killed, or its ledger operation fails and it returns.
CliFault ==
    /\ cli.pc # "idle"
    /\ Cut
    /\ cli' = NoCli
    /\ UNCHANGED <<ledger, abandoned, sidecar, head, git, commits>>

-----------------------------------------------------------------------------
GitStep ==
    \/ GcSidecar \/ GcRollback \/ GcRemove
    \/ Classify \/ Link \/ SkipIntent \/ Capture \/ WriteSidecar
    \/ CreateCommit \/ EndCommit
    \/ PostRead \/ Promote \/ MarkFailed \/ DropSidecar

CliStep ==
    \/ Unlink
    \/ \E t \in TxIds : GcOne(t)
    \/ RecoverCommit
    \/ Announce \/ Maintain \/ Undo \/ CliDrop
    \/ Repair \/ RepairDrop

User ==
    \/ \E m \in Msgs, e \in Entities \cup {NoName} : BeginCommit(m, e)
    \/ \E m \in Msgs : BypassHook(m) \/ MoveHead(m)
    \/ \E t \in TxIds, e \in Entities : LedgerStart(t, e)
    \/ \E t \in TxIds : LedgerRollback(t) \/ LedgerCommit(t)
    \/ \E S \in SUBSET TxIds : GcScan(S)
    \/ RecoverPromote \/ RecoverAbandon \/ HookRepair

Next == User \/ GitStep \/ CliStep \/ GitFault \/ CliFault

Spec == Init /\ [][Next]_vars

\* Processes run on, and a user who can always come back to an orphan does
\* abandon it some day.
FairSpec ==
    /\ Spec
    /\ WF_vars(GitStep)
    /\ WF_vars(CliStep)
    /\ SF_vars(RecoverAbandon)

-----------------------------------------------------------------------------
(* Properties.                                                             *)

\* The ledger, the file and the local state of hook and command have values
\* of their types; a sidecar, on disk or as it was read, names a row that
\* exists (PendingHookTx, start_change before write_signed_sidecar_for_tx).
TypeOK ==
    /\ status \in [TxIds -> L!Statuses \cup {"ROLLBACK"}]
    /\ entity \in [TxIds -> Names \cup {NoName}]
    /\ log \in Seq([tx : TxIds, kind : L!Kinds])
    /\ abandoned \subseteq TxIds
    /\ sidecar \in Sidecar \cup {NoSidecar}
    /\ head \in Msgs \cup {NoMsg}
    /\ git \in [pc : {"idle", "gc", "gcRollback", "gcRemove", "classify", "link",
                      "capture", "write", "accepted", "blocked", "stale", "aborted",
                      "post", "promote", "mark", "drop", "done"},
                msg : Msgs \cup {NoMsg}, staged : Entities \cup {NoName},
                tx : TxIds \cup {NoTx}, copy : Sidecar \cup {NoSidecar}]
    /\ cli \in [pc : {"idle", "unlink", "gc", "promote", "announce", "maintain", "undo",
                      "drop", "repair", "repairDrop"},
                tx : TxIds \cup {NoTx}, copy : Sidecar \cup {NoSidecar},
                todo : SUBSET TxIds]
    /\ commits \in 0..MaxCommits
    /\ cuts \in 0..MaxCuts
    /\ \A s \in {sidecar, git.copy, cli.copy} \ {NoSidecar} : status[s.tx] # "NONE"

\* A sidecar is never replaced by one of another row or commit: the trail of
\* a commit whose promotion is outstanding is not clobbered by the next
\* commit, in either mode (gc_pending_sidecar, "clobbered sidecars").
NoClobber ==
    [][ Exists /\ sidecar' # NoSidecar =>
            sidecar'.tx = sidecar.tx /\ sidecar'.hash = sidecar.hash ]_vars

\* A promote_failed sidecar goes away only when its row has been resolved or
\* its abandonment has been recorded, whichever hook or command removes it,
\* hook-repair apart (post-commit, recover-orphan, ledger commit).
OrphanTrail ==
    [][ Orphan /\ sidecar' = NoSidecar /\ cli.pc # "repairDrop" =>
            status'[sidecar.tx] \in {"COMMITTED", "ROLLED_BACK"} \/ sidecar.tx \in abandoned ]_vars

\* Under enforce, a commit of staged files that passed the commit-msg hook is
\* accounted for when post-commit has returned: the row it was bound to is no
\* longer PENDING, or its abandonment is recorded, or the sidecar that binds
\* HEAD to it is still there (post-commit, "fail closed is a state machine").
EnforceCovers ==
    Mode = "enforce" /\ git.pc = "done" /\ git.staged # NoName =>
        /\ git.tx # NoTx
        /\ \/ status[git.tx] # "PENDING"
           \/ git.tx \in abandoned
           \/ Exists /\ sidecar.tx = git.tx /\ sidecar.hash = head

\* A user who keeps trying gets rid of a promote_failed orphan, whatever the
\* hooks did (recover-orphan: "until recovery").
RecoveryFreesOrphan == Orphan ~> ~Orphan
=============================================================================

------------------------------ MODULE TeamSync ------------------------------
(***************************************************************************)
(* Team sync: devices exchange signed ledger entries through bundles in a  *)
(* shared folder.                                                          *)
(*                                                                         *)
(* `sync run` extracts the local entries that were not exported yet, puts  *)
(* them into the outbox of its device, and only then stamps them and saves *)
(* its cursor.  It then applies what it finds in the outboxes of the other *)
(* devices and moves each bundle away, into an archive or a quarantine of  *)
(* its own that nothing reads again.  No lock keeps two runs of a device   *)
(* apart; a run may be cut short before any of its steps.                  *)
(*                                                                         *)
(* Only signed LOCAL rows are modelled: SIBLING rows carry no signature    *)
(* and are never extracted, and nothing in src/ inserts the first row of   *)
(* tx_tombstones.                                                          *)
(***************************************************************************)
EXTENDS Naturals, FiniteSets, Functions

CONSTANTS
    Devices,
    TxIds,          \* transaction ids, committed on one device each
    Runs,           \* processes that may execute `sync run`
    Dev,            \* Dev[r]: the device of r
    Trust,          \* Trust[d]: the peers whose invites d has accepted
    BatchSize,      \* sync.batch_size
    MaxAhead,       \* sync.max_clock_drift_seconds, in ticks
    NoHLC,          \* NULL
    Wall,           \* Wall[d]: what the wall clock of d may show, in any order
    MaxLogical,     \* bound on the logical part of a clock
    MaxFaults       \* bound on runs cut short and file operations that fail

ASSUME TxIdsAssumption == IsFiniteSet(TxIds)
ASSUME DevAssumption == Dev \in [Runs -> Devices]
ASSUME TrustAssumption == Trust \in [Devices -> SUBSET Devices]
ASSUME BatchAssumption == BatchSize \in Nat \ {0}
ASSUME WallAssumption == Wall \in [Devices -> SUBSET Nat]
ASSUME BoundsAssumption == {MaxAhead, MaxLogical, MaxFaults} \subseteq Nat
ASSUME NoHLCAssumption == NoHLC \notin Nat \X Nat

VARIABLES
    local, peer,    \* entries of origin LOCAL and PEER, by device
    hlc,            \* entry_hlc of an entry, by device
    cursor,         \* last_extract_hlc
    lastApply,      \* last_apply_hlc
    outbox,         \* devices/<device>/
    quarantine,     \* devices/<device>/quarantine/: nothing reads it again
    displaced,      \* taken out of an outbox by a put of the same name, not put back
    run,            \* what each process is doing
    faults          \* faults so far

vars == <<local, peer, hlc, cursor, lastApply, outbox, quarantine, displaced, run, faults>>

\* A hybrid logical clock: wall clock and counter, compared in this order.
HLC == Nat \X Nat
Before(a, b) == a[1] < b[1] \/ (a[1] = b[1] /\ a[2] < b[2])
Later(a, b) == IF Before(a, b) THEN b ELSE a

\* HLC::now, at wall clock w.
Now(last, w) == IF w > last[1] THEN <<w, 0>> ELSE <<last[1], last[2] + 1>>

\* A bundle gives a clock to each of its entries.
Bundle == [from : Devices, hlc : HLC, entries : [TxIds -> HLC \cup {NoHLC}]]
Rows(b) == {t \in TxIds : b.entries[t] # NoHLC}

Run == [pc : {"idle", "put", "rename", "stamp", "list", "apply", "move"},
        bundle : Bundle, rows : SUBSET TxIds, todo : SUBSET Bundle]
NoBundle(r) == [from |-> Dev[r], hlc |-> <<0, 0>>, entries |-> [t \in TxIds |-> NoHLC]]
Idle(r) == [pc |-> "idle", bundle |-> NoBundle(r), rows |-> {}, todo |-> {}]

Goto(r, l) == run' = [run EXCEPT ![r].pc = l]
\* The bundle at hand is not needed any more.
Forget(r, l) == run' = [run EXCEPT ![r] = [@ EXCEPT !.pc = l, !.bundle = NoBundle(r)]]
Fault == faults < MaxFaults /\ faults' = faults + 1

\* What the next extract of d selects, before LIMIT.
Eligible(d) ==
    {t \in local[d] : hlc[d][t] = NoHLC \/ Before(cursor[d], hlc[d][t])}

Init ==
    /\ local = [d \in Devices |-> {}]
    /\ peer = [d \in Devices |-> {}]
    /\ hlc = [d \in Devices |-> [t \in TxIds |-> NoHLC]]
    /\ cursor = [d \in Devices |-> <<0, 0>>]
    /\ lastApply = [d \in Devices |-> <<0, 0>>]
    /\ outbox = [d \in Devices |-> {}]
    /\ quarantine = [d \in Devices |-> {}]
    /\ displaced = [d \in Devices |-> {}]
    /\ run = [r \in Runs |-> Idle(r)]
    /\ faults = 0

\* A ledger command on d commits t and signs it.
Commit(d, t) ==
    /\ \A e \in Devices : t \notin local[e]
    /\ local' = [local EXCEPT ![d] = @ \cup {t}]
    /\ UNCHANGED <<peer, hlc, cursor, lastApply, outbox, quarantine, displaced, run, faults>>

-----------------------------------------------------------------------------
(* Export.                                                                 *)

\* The entries of a batch take the bundle's clock, its successor, and so on.
Stamps(S, h) ==
    {[t \in TxIds |-> IF t \in S THEN <<h[1], h[2] + f[t]>> ELSE NoHLC] :
        f \in Injection(S, 0 .. Cardinality(S) - 1)}

\* The oldest rows first; any choice stands for the order of committed_at.
Extract(r, w) ==
    LET d == Dev[r]
        h == Now(cursor[d], w)
    IN  /\ run[r].pc = "idle"
        /\ \/ Eligible(d) = {} /\ Goto(r, "list")
           \/ \E S \in (SUBSET Eligible(d)) \ {{}} :
                /\ h[2] + Cardinality(S) - 1 <= MaxLogical
                /\ Cardinality(S) <= BatchSize
                /\ Cardinality(S) = BatchSize \/ S = Eligible(d)
                /\ \E f \in Stamps(S, h) :
                     run' = [run EXCEPT ![r] = [@ EXCEPT !.pc = "put", !.rows = S,
                                 !.bundle = [from |-> d, hlc |-> h, entries |-> f]]]
        /\ UNCHANGED <<local, peer, hlc, cursor, lastApply, outbox, quarantine, displaced, faults>>

\* Mutant of Put: the rows count as exported before the file is in place.
PutLate(r) ==
    LET d == Dev[r] IN
    \/ /\ run[r].pc = "put" /\ run[r].rows # {}
       /\ hlc' = [hlc EXCEPT ![d] = [t \in TxIds |->
                     IF t \in run[r].rows THEN run[r].bundle.entries[t] ELSE @[t]]]
       /\ cursor' = [cursor EXCEPT ![d] = <<run[r].bundle.hlc[1],
                        run[r].bundle.hlc[2] + Cardinality(run[r].rows) - 1>>]
       /\ run' = [run EXCEPT ![r].rows = {}]
       /\ UNCHANGED <<local, peer, lastApply, outbox, quarantine, displaced, faults>>
    \/ /\ run[r].pc = "put" /\ run[r].rows = {}
       /\ outbox' = [outbox EXCEPT ![d] = @ \cup {run[r].bundle}]
       /\ Goto(r, "stamp")
       /\ UNCHANGED <<local, peer, hlc, cursor, lastApply, quarantine, displaced, faults>>

\* put_outgoing_bytes first removes a file of the same name, which another run
\* of the device, or an earlier one that did not stamp its rows, has put there ...
Displace(r) ==
    LET d == Dev[r]
        b == run[r].bundle
    IN  /\ run[r].pc = "put"
        /\ b \in outbox[d]
        /\ outbox' = [outbox EXCEPT ![d] = @ \ {b}]
        /\ displaced' = [displaced EXCEPT ![d] = @ \cup {b}]
        /\ Goto(r, "rename")
        /\ UNCHANGED <<local, peer, hlc, cursor, lastApply, quarantine, faults>>

\* ... and renames a temporary file into place.
Put(r) ==
    LET d == Dev[r]
        b == run[r].bundle
    IN  /\ \/ run[r].pc = "put" /\ b \notin outbox[d]
           \/ run[r].pc = "rename"
        /\ outbox' = [outbox EXCEPT ![d] = @ \cup {b}]
        /\ displaced' = [displaced EXCEPT ![d] = @ \ {b}]
        /\ Goto(r, "stamp")
        /\ UNCHANGED <<local, peer, hlc, cursor, lastApply, quarantine, faults>>

\* commit_extract_export stamps one row per statement ...
StampRow(r, t) ==
    /\ run[r].pc = "stamp"
    /\ t \in run[r].rows
    /\ hlc' = [hlc EXCEPT ![Dev[r]][t] = run[r].bundle.entries[t]]
    /\ run' = [run EXCEPT ![r].rows = @ \ {t}]
    /\ UNCHANGED <<local, peer, cursor, lastApply, outbox, quarantine, displaced, faults>>

\* Mutant of SaveCursor: saved under the key of the other cursor.
SaveCursorApplied(r) ==
    /\ run[r].pc = "stamp"
    /\ run[r].rows = {}
    /\ lastApply' = [lastApply EXCEPT ![Dev[r]] = run[r].bundle.hlc]
    /\ Forget(r, "list")
    /\ UNCHANGED <<local, peer, hlc, cursor, outbox, quarantine, displaced, faults>>

\* ... and then moves the cursor past the last of them.
SaveCursor(r) ==
    /\ run[r].pc = "stamp"
    /\ run[r].rows = {}
    /\ LET b == run[r].bundle
       IN  cursor' = [cursor EXCEPT ![Dev[r]] =
                         <<b.hlc[1], b.hlc[2] + Cardinality(Rows(b)) - 1>>]
    /\ Forget(r, "list")
    /\ UNCHANGED <<local, peer, hlc, lastApply, outbox, quarantine, displaced, faults>>

-----------------------------------------------------------------------------
(* Import.                                                                 *)

List(r) ==
    /\ run[r].pc = "list"
    /\ run' = [run EXCEPT ![r] = [@ EXCEPT !.pc = "apply",
                   !.todo = UNION {outbox[e] : e \in Devices \ {Dev[r]}}]]
    /\ UNCHANGED <<local, peer, hlc, cursor, lastApply, outbox, quarantine, displaced, faults>>

\* Bundle::parse knows the sender, and its clock is not too far ahead.
Accepts(d, b, w) == b.from \in Trust[d] /\ b.hlc[1] <= w + MaxAhead

InPlace(b) == b \in outbox[b.from]
Remove(b) == outbox' = [outbox EXCEPT ![b.from] = @ \ {b}]

\* Where a run is once it has applied b.
Applied(v, b) == [v EXCEPT !.pc = "move", !.bundle = b, !.todo = @ \ {b}]

\* Mutant of Apply: the insert leaves entry_hlc NULL.
ApplyUnstamped(r, b, w) ==
    LET d == Dev[r]
    IN  /\ run[r].pc = "apply"
        /\ b \in run[r].todo
        /\ InPlace(b) /\ Accepts(d, b, w)
        /\ peer' = [peer EXCEPT ![d] = @ \cup (Rows(b) \ local[d])]
        /\ lastApply' = [lastApply EXCEPT ![d] = Later(@, b.hlc)]
        /\ run' = [run EXCEPT ![r] = Applied(run[r], b)]
        /\ UNCHANGED <<local, hlc, cursor, outbox, quarantine, displaced, faults>>

\* Mutant of Apply: a bundle older than the last one applied is taken for old.
ApplyNewest(r, b, w) ==
    LET d == Dev[r]
        new == IF Before(lastApply[d], b.hlc) THEN Rows(b) \ local[d] ELSE {}
    IN  /\ run[r].pc = "apply"
        /\ b \in run[r].todo
        /\ InPlace(b) /\ Accepts(d, b, w)
        /\ peer' = [peer EXCEPT ![d] = @ \cup new]
        /\ hlc' = [hlc EXCEPT ![d] = [t \in TxIds |-> IF t \in new THEN b.entries[t] ELSE @[t]]]
        /\ lastApply' = [lastApply EXCEPT ![d] = Later(@, b.hlc)]
        /\ run' = [run EXCEPT ![r] = Applied(run[r], b)]
        /\ UNCHANGED <<local, cursor, outbox, quarantine, displaced, faults>>

\* One SQLite transaction.  A row that is held changes only its clock, and
\* only for a later one; no row of the bundle is held with entry_hlc NULL.
Apply(r, b, w) ==
    LET d == Dev[r]
        held == local[d] \cup peer[d]
        won == {t \in Rows(b) : t \notin held \/ Before(hlc[d][t], b.entries[t])}
    IN  /\ run[r].pc = "apply"
        /\ b \in run[r].todo
        /\ InPlace(b) /\ Accepts(d, b, w)
        /\ peer' = [peer EXCEPT ![d] = @ \cup (Rows(b) \ local[d])]
        /\ hlc' = [hlc EXCEPT ![d] = [t \in TxIds |-> IF t \in won THEN b.entries[t] ELSE @[t]]]
        /\ lastApply' = [lastApply EXCEPT ![d] = Later(@, b.hlc)]
        /\ run' = [run EXCEPT ![r] = Applied(run[r], b)]
        /\ UNCHANGED <<local, cursor, outbox, quarantine, displaced, faults>>

\* move_to_processed, out of the outbox of the sender.  It may fail, and
\* fails when somebody else has moved the file; the run goes on.
Move(r) ==
    /\ run[r].pc = "move"
    /\ \/ Remove(run[r].bundle) /\ UNCHANGED faults
       \/ Fault /\ UNCHANGED outbox
    /\ Forget(r, "apply")
    /\ UNCHANGED <<local, peer, hlc, cursor, lastApply, quarantine, displaced>>

\* move_to_quarantine: out of the outbox of the sender, into the quarantine of
\* the device of r.
Quarantine(r, b) ==
    /\ Remove(b)
    /\ quarantine' = [quarantine EXCEPT ![Dev[r]] = @ \cup {b}]
    /\ run' = [run EXCEPT ![r].todo = @ \ {b}]
    /\ UNCHANGED <<local, peer, hlc, cursor, lastApply, displaced>>

\* The sender is not known, or its clock is too far ahead.
Reject(r, b, w) ==
    /\ run[r].pc = "apply"
    /\ b \in run[r].todo
    /\ InPlace(b) /\ ~Accepts(Dev[r], b, w)
    /\ Quarantine(r, b)
    /\ UNCHANGED faults

\* apply returns an error for a bundle that was accepted (the database is busy,
\* the disk is full): its transaction is rolled back, and the bundle goes the
\* same way as one that was rejected.
ApplyFails(r, b, w) ==
    /\ run[r].pc = "apply"
    /\ b \in run[r].todo
    /\ InPlace(b) /\ Accepts(Dev[r], b, w)
    /\ Quarantine(r, b)
    /\ Fault

\* The bundle is gone, cannot be read, or cannot be moved to quarantine.
Skip(r, b) ==
    /\ run[r].pc = "apply"
    /\ b \in run[r].todo
    /\ \/ ~InPlace(b) /\ UNCHANGED faults
       \/ Fault
    /\ run' = [run EXCEPT ![r].todo = @ \ {b}]
    /\ UNCHANGED <<local, peer, hlc, cursor, lastApply, outbox, quarantine, displaced>>

Finish(r) ==
    /\ run[r].pc = "apply"
    /\ run[r].todo = {}
    /\ run' = [run EXCEPT ![r] = Idle(r)]
    /\ UNCHANGED <<local, peer, hlc, cursor, lastApply, outbox, quarantine, displaced, faults>>

\* A run is killed, or returns an error, before its next step.
CutShort(r) ==
    /\ run[r].pc # "idle"
    /\ Fault
    /\ run' = [run EXCEPT ![r] = Idle(r)]
    /\ UNCHANGED <<local, peer, hlc, cursor, lastApply, outbox, quarantine, displaced>>

-----------------------------------------------------------------------------
Export(r) ==
    \/ \E w \in Wall[Dev[r]] : Extract(r, w)
    \/ Displace(r) \/ Put(r)
    \/ \E t \in TxIds : StampRow(r, t)
    \/ SaveCursor(r)

Import(r) ==
    \/ List(r)
    \/ \E b \in run[r].todo, w \in Wall[Dev[r]] :
          Apply(r, b, w) \/ Reject(r, b, w) \/ ApplyFails(r, b, w)
    \/ Move(r)
    \/ \E b \in run[r].todo : Skip(r, b)
    \/ Finish(r)

Next ==
    \/ \E d \in Devices, t \in TxIds : Commit(d, t)
    \/ \E r \in Runs : Export(r) \/ Import(r) \/ CutShort(r)

Spec == Init /\ [][Next]_vars

\* `sync run` is repeated for ever, and each run proceeds.
FairSpec == Spec /\ \A r \in Runs : WF_vars(Export(r) \/ Import(r))

-----------------------------------------------------------------------------
(* Properties.                                                             *)

\* Tables, files and the local state of runs have values of their types; no
\* device holds an entry as LOCAL and PEER, and a PEER entry has a clock, which
\* apply relies on when it reads entry_hlc as a string.
TypeOK ==
    /\ local \in [Devices -> SUBSET TxIds]
    /\ peer \in [Devices -> SUBSET TxIds]
    /\ hlc \in [Devices -> [TxIds -> HLC \cup {NoHLC}]]
    /\ cursor \in [Devices -> HLC]
    /\ lastApply \in [Devices -> HLC]
    /\ {outbox, quarantine, displaced} \subseteq [Devices -> SUBSET Bundle]
    /\ run \in [Runs -> Run]
    /\ faults \in 0 .. MaxFaults
    /\ \A d \in Devices : local[d] \cap peer[d] = {}
    /\ \A d \in Devices : \A t \in peer[d] : hlc[d][t] # NoHLC

\* An entry of d is with e, in a bundle that waits for e, in one that a run on
\* e has put into quarantine, or in one that an overlapping put of the same
\* bundle has taken away and not put back.
Accounted(d, e, t) ==
    \/ t \in peer[e]
    \/ \E b \in outbox[d] \cup quarantine[e] \cup displaced[d] : t \in Rows(b)

\* An entry that its device will not extract again has reached every device
\* that accepts its bundles, or its bundle still waits for them, or is in their
\* quarantine, or was taken away by an overlapping put: nothing else drops it
\* (run: "so a failed upload does not permanently drop local deltas").
NothingLost ==
    \A d, e \in Devices : d # e /\ d \in Trust[e] =>
        \A t \in local[d] \ Eligible(d) : Accounted(d, e, t)

\* Every entry reaches every device that accepts its bundles, unless a run
\* there failed to apply its bundle, or found its clock too far ahead, and put
\* it into quarantine.
Consolidates ==
    \A d, e \in Devices, t \in TxIds :
        d # e /\ d \in Trust[e] =>
            (t \in local[d] ~> t \in peer[e] \/ \E b \in quarantine[e] : t \in Rows(b))

\* Devices stop exporting what they have exported: once the ledgers are at
\* rest, runs find nothing new (commit_extract_export, "would re-select").
Quiesces == <>[](\A d \in Devices : Eligible(d) = {})

\* What NothingLost needs of an installation: a bundle has one reader.
TwoDevices == \A d, e, g \in Devices : d # e /\ d # g => e = g
=============================================================================

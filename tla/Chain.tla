------------------------------- MODULE Chain -------------------------------
(***************************************************************************)
(* The signed chain of ledger entries as verify, export, re-sign and       *)
(* recovery adoption see it.                                               *)
(*                                                                         *)
(* A row holds a signature and the hash of its predecessor; the singleton  *)
(* head holds the hash of the tip, the length and the genesis.  verify     *)
(* walks back from the head, re-sign walks forward from the earliest row   *)
(* without predecessor, and both classify what is left over: extra         *)
(* genesis rows (from before the chain existed), orphans, forks.  re-sign  *)
(* replaces invalid or old signatures, which changes the hashes of the     *)
(* rows, and links the chain anew in one SQLite transaction; the preview   *)
(* it acts on, and the manifest of an adoption, are read before.           *)
(*                                                                         *)
(* A hash stands for its preimage: the sequence of the bodies of the rows  *)
(* up to a row.  Ids are numbered in the order of committed_at.  An append *)
(* is one step, as Ledger.tla shows.  Rows of other origins are skipped by *)
(* every walk and left out; signing is required and never fails.           *)
(***************************************************************************)
EXTENDS Naturals, Sequences, FiniteSets, FiniteSetsExt, Functions

CONSTANTS
    Keys,           \* signing keys of this machine, one at a time
    Broken,         \* the key field of a signature that does not verify
    NoHead,         \* chain_head is empty
    Procs,          \* processes running re-sign or adopt
    Modes,          \* subset of {"tx", "all_invalid", "all"}
    Legacy,         \* bound: rows without links from before the chain
    Old,            \* bound: linked rows with version 1 signatures
    MaxRows,        \* bound on ids ever used
    MaxDamage,      \* bound on signatures damaged
    MaxRotations,   \* bound on signing keys lost
    MaxExports,     \* bound on checkpoints retained
    MaxCopies       \* bound on backups that may be put back

Sig == [key : Keys \cup {Broken}, ver : {1, 2}]
Link == [id : Nat, sig : Sig]

ASSUME ChainAssumption ==
    /\ Broken \notin Keys
    /\ Modes \subseteq {"tx", "all_invalid", "all"}
    /\ {Legacy, Old, MaxRows, MaxDamage, MaxRotations, MaxExports, MaxCopies} \subseteq Nat
    /\ NoHead \notin [latest : Seq(Link), length : Nat, genesis : Nat]

VARIABLES
    rows,       \* ledger_entries: records [id, sig, prev]
    head,       \* chain_head
    manifests,  \* ledger_recovery_manifest, in order of created_at
    used,       \* ids used so far
    key,        \* the signing key
    file,       \* manifests written by `ledger adopt plan`
    proc,       \* what each process has read
    exports,    \* heads exported as checkpoints
    copies,     \* backups kept to be put back: rows, head, manifests
    damage,     \* signatures damaged so far
    rotations   \* keys lost so far

db == <<rows, head, manifests>>
bounds == <<damage, rotations>>
vars == <<db, used, key, file, proc, exports, copies, bounds>>

NoHash == <<>>
Idle == [pc |-> "idle"]
Fresh == used + 1
Sign == [key |-> key, ver |-> 2]

Body(r) == [id |-> r.id, sig |-> r.sig]
Hash(r) == Append(r.prev, Body(r))
Bodies(s) == [i \in DOMAIN s |-> Body(s[i])]
Hashes(R) == {Hash(r) : r \in R}
Earliest(R) == CHOOSE r \in R : \A q \in R : r.id <= q.id
Invalid(R) == {r \in R : r.sig.key = Broken}
Latest == IF head = NoHead THEN NoHash ELSE head.latest

-----------------------------------------------------------------------------
(* chain_iter.                                                             *)

\* walk_backward: from the row with hash h as far as predecessors are found.
Backward(R, h) ==
    LET gaps == {k \in 1..Len(h) : SubSeq(h, 1, k) \notin Hashes(R)}
        from == IF gaps = {} THEN 0 ELSE Max(gaps)
    IN  [i \in 1..(Len(h) - from) |->
            CHOOSE r \in R : Hash(r) = SubSeq(h, 1, from + i)]

Genesis(R) == {r \in R : r.prev = NoHash}

\* The walk from the earliest genesis.  Of two successors it takes the one
\* with the smaller random tx_id: any of them, here.
Forward(R) ==
    LET Reached(r) == r.prev = NoHash \/
            \A k \in 1..Len(r.prev) : SubSeq(r.prev, 1, k) \in Hashes(R)
        First(r) == IF r.prev = NoHash THEN Body(r) ELSE r.prev[1]
        on == {r \in R : Reached(r) /\ First(r) = Body(Earliest(Genesis(R)))}
        tip == CHOOSE r \in on : \A q \in on : Len(q.prev) <= Len(r.prev)
    IN  IF Genesis(R) = {} THEN <<>> ELSE Backward(R, Hash(tip))

Walk(R, h) ==
    IF h # NoHead /\ h.latest \in Hashes(R) THEN Backward(R, h.latest) ELSE Forward(R)

Extra(R, w) == Genesis(R) \ Range(w)
Orphans(R, w) == R \ (Range(w) \cup Genesis(R))
Forks(R) == {r.prev : r \in {q \in R \ Genesis(R) : \E s \in R \ {q} : s.prev = q.prev}}

-----------------------------------------------------------------------------
(* verify --chain, checkpoints and the decision on an adoption.            *)

HeadAgrees(w) == w # <<>> /\ Hash(w[Len(w)]) = head.latest /\ Len(w) = head.length

\* Mutant of Eligible: broken signatures are not refused.
EligibleUnverified(w) ==
    /\ head # NoHead /\ w # <<>> /\ Hash(w[Len(w)]) = head.latest
    /\ Forks(rows) = {} /\ Orphans(rows, w) = {}
    /\ Extra(rows, w) # {}

\* eligible_rows refuses a ledger with any other anomaly.
Eligible(w) ==
    /\ head # NoHead /\ w # <<>> /\ Hash(w[Len(w)]) = head.latest
    /\ Forks(rows) = {} /\ Orphans(rows, w) = {}
    /\ Invalid(rows) = {}
    /\ Extra(rows, w) # {}

\* build_manifest over the live rows, for the head h.
Live(h) == [head |-> h, adopted |-> Hashes(Extra(rows, Walk(rows, head)))]

Attests(m) == \E r \in rows : r.id = m.entry /\ r.sig.key # Broken /\ r.prev = m.plan.head

\* Mutant of Adopted: the digest is computed with the present head.
AdoptedAtHead ==
    /\ manifests # <<>>
    /\ Eligible(Walk(rows, head))
    /\ Live(Latest) = manifests[1].plan
    /\ Attests(manifests[1])

\* decide_adoption looks at the first manifest only.
Adopted ==
    /\ manifests # <<>>
    /\ Eligible(Walk(rows, head))
    /\ Live(manifests[1].plan.head) = manifests[1].plan
    /\ Attests(manifests[1])

\* verify --chain --signatures --accept-adoption.
Verified ==
    LET w == Walk(rows, head)
    IN  /\ Forks(rows) = {}
        /\ Invalid(Range(w)) = {}
        /\ IF head = NoHead
           THEN rows = Genesis(rows)
           ELSE /\ w # <<>> => w[1].prev = NoHash
                /\ HeadAgrees(w)
                /\ Extra(rows, w) = {} \/ Adopted
                /\ Orphans(rows, w) = {}

\* ordered_local_for_head: a ledger without links is taken in order of time.
Ordered ==
    IF head # NoHead THEN Walk(rows, head)
    ELSE [i \in 1..Cardinality(rows) |->
            CHOOSE r \in rows : Cardinality({q \in rows : q.id <= r.id}) = i]

\* Mutant of Passes: a longer chain is accepted for its length.
PassesLonger(e) ==
    /\ Ordered # <<>>
    /\ (IF head = NoHead THEN Ordered[1].id ELSE head.genesis) = e.genesis
    /\ Len(Ordered) >= e.length
    /\ Len(Ordered) > e.length \/ Hash(Ordered[e.length]) = e.latest

\* compare_against_export_path on a verified ledger: match or extends.
Passes(e) ==
    /\ Ordered # <<>>
    /\ (IF head = NoHead THEN Ordered[1].id ELSE head.genesis) = e.genesis
    /\ Len(Ordered) >= e.length
    /\ Hash(Ordered[e.length]) = e.latest

-----------------------------------------------------------------------------
\* A ledger from an earlier release: rows without links, then linked ones.
Init ==
    \E k \in Keys, l \in 0..Legacy, n \in 0..Old :
        LET body(i) == [id |-> i, sig |-> [key |-> k, ver |-> 1]]
            chain == [i \in 1..n |-> body(l + i)]
        IN  /\ rows = {[id |-> i, sig |-> body(i).sig, prev |-> NoHash] : i \in 1..l}
                      \cup {[id |-> l + i, sig |-> body(i).sig, prev |-> SubSeq(chain, 1, i - 1)] : i \in 1..n}
            /\ head = IF n = 0 THEN NoHead
                      ELSE [latest |-> chain, length |-> n, genesis |-> l + 1]
            /\ manifests = <<>>
            /\ used = l + n
            /\ key = k
            /\ file = {}
            /\ proc = [p \in Procs |-> Idle]
            /\ exports = {}
            /\ copies = {}
            /\ damage = 0
            /\ rotations = 0

\* append_to_chain_with_cas: the new row follows the head.
Extend(R, h, order) ==
    LET r == [id |-> Fresh, sig |-> Sign, prev |-> h]
    IN  /\ rows' = R \cup {r}
        /\ head' = [latest |-> Hash(r), length |-> order + 1,
                    genesis |-> IF order = 0 THEN Fresh ELSE head.genesis]
        /\ used' = Fresh

AppendEntry ==
    /\ used < MaxRows
    /\ Extend(rows, Latest, IF head = NoHead THEN 0 ELSE head.length)
    /\ UNCHANGED <<manifests, key, file, proc, exports, copies, bounds>>

-----------------------------------------------------------------------------
(* What happens to a ledger.                                               *)

\* A signature is overwritten.  The damage is one that re-sign refuses for
\* the extra genesis rows, or can undo: the preview shows all of it, the
\* signature can be made again as it was, and no other row changes with it.
Restorable(r) ==
    /\ \A p \in Procs : proc[p].pc \in {"idle", "adopt"}
    /\ \/ Cardinality(Genesis(rows)) > 1
       \/ r.sig = Sign /\ \A q \in rows : q.sig.ver = 2
Damage(r) ==
    /\ damage < MaxDamage /\ damage' = damage + 1
    /\ Restorable(r) /\ r.sig.key # Broken
    /\ rows' = (rows \ {r}) \cup {[r EXCEPT !.sig.key = Broken]}
    /\ UNCHANGED <<head, manifests, used, key, file, proc, exports, copies, rotations>>

RotateKey(k) ==
    /\ rotations < MaxRotations /\ rotations' = rotations + 1
    /\ k # key /\ key' = k
    /\ Invalid(rows) = {}
    /\ UNCHANGED <<db, used, file, proc, exports, copies, damage>>

\* export head: the stored head, whatever the rows are.
ExportHead ==
    /\ head # NoHead
    /\ Cardinality(exports) < MaxExports
    /\ exports' = exports \cup {head}
    /\ UNCHANGED <<db, used, key, file, proc, copies, bounds>>

\* A backup is put in place of ledger.db while no command runs.
Restore(c) ==
    /\ \A p \in Procs : proc[p] = Idle
    /\ Invalid(c.rows) = {}
    /\ rows' = c.rows /\ head' = c.head /\ manifests' = c.manifests
    /\ UNCHANGED <<used, key, file, proc, exports, copies, bounds>>

Backup ==
    \/ UNCHANGED copies
    \/ /\ Cardinality(copies) < MaxCopies
       /\ copies' = copies \cup {[rows |-> rows, head |-> head, manifests |-> manifests]}

-----------------------------------------------------------------------------
(* ledger re-sign.                                                         *)

\* evaluate_re_sign_preflight.
Clear(R) == Extra(R, Forward(R)) = {} /\ Forks(R) = {}

Candidates(mode) ==
    CASE mode = "tx" -> {{r.id} : r \in Invalid(rows)}
      [] mode = "all_invalid" -> {{r.id : r \in Invalid(rows)}}
      [] mode = "all" -> {{r.id : r \in Invalid(rows) \cup {q \in rows : q.sig.ver < 2}}}

ReSignPreview(p) ==
    /\ proc[p] = Idle
    /\ used < MaxRows
    /\ Clear(rows)
    /\ \E mode \in Modes : \E C \in Candidates(mode) \ {{}} :
          /\ proc' = [proc EXCEPT ![p] = [pc |-> "resign", ids |-> C, head |-> Latest]]
    /\ UNCHANGED <<db, used, key, file, exports, copies, bounds>>

ReSignBackup(p) ==
    /\ proc[p].pc = "resign"
    /\ Backup
    /\ proc' = [proc EXCEPT ![p].pc = "resignApply"]
    /\ UNCHANGED <<db, used, key, file, exports, bounds>>

Resigned(ids) == {IF r.id \in ids THEN [r EXCEPT !.sig = Sign] ELSE r : r \in rows}

\* Mutant of RebuildOrder: always the order captured before the signatures.
RebuildOrderCaptured(R) ==
    LET pre == Forward(rows)
    IN  [i \in DOMAIN pre |-> CHOOSE r \in R : r.id = pre[i].id]

\* The walk after the signatures if it is the whole ledger, or else the rows
\* of the walk before them.
RebuildOrder(R) ==
    LET post == Forward(R)
        pre == Forward(rows)
    IN  IF Forks(R) = {} /\ R = Range(post) /\ post # <<>>
        THEN post
        ELSE [i \in DOMAIN pre |-> CHOOSE r \in R : r.id = pre[i].id]

\* update_ledger_entry_prev_hash, along the order.
Relink(s) == {[s[i] EXCEPT !.prev = SubSeq(Bodies(s), 1, i - 1)] : i \in DOMAIN s}

\* Mutant of Stale: the head is not compared.
StaleNever(p) == FALSE
Stale(p) == Latest # proc[p].head

ReSignApply(p) ==
    /\ proc[p].pc = "resignApply"
    /\ ~Stale(p)
    /\ used < MaxRows
    /\ Clear(rows)
    /\ proc[p].ids \subseteq {r.id : r \in rows}
    /\ LET R == Resigned(proc[p].ids)
           s == RebuildOrder(R)
           M == [id |-> Fresh, sig |-> Sign, prev |-> Bodies(s)]
       IN  /\ s # <<>>
           /\ rows' = (R \ Range(s)) \cup Relink(s) \cup {M}
           /\ head' = [latest |-> Hash(M), length |-> Len(s) + 1, genesis |-> s[1].id]
    /\ used' = Fresh
    /\ proc' = [proc EXCEPT ![p] = Idle]
    /\ UNCHANGED <<manifests, key, file, exports, copies, bounds>>

-----------------------------------------------------------------------------
(* ledger adopt plan / apply.                                              *)

AdoptPlan ==
    /\ Eligible(Walk(rows, head))
    /\ file' = {Live(Latest)}
    /\ file' # file
    /\ UNCHANGED <<db, used, key, proc, exports, copies, bounds>>

\* The manifest must be that of the live rows; then the backup is taken.
AdoptCheck(p) ==
    /\ proc[p] = Idle
    /\ used < MaxRows
    /\ Eligible(Walk(rows, head))
    /\ \E m \in file :
          /\ \A i \in DOMAIN manifests : manifests[i].plan # m
          /\ Live(Latest) = m
          /\ proc' = [proc EXCEPT ![p] = [pc |-> "adopt", plan |-> m, head |-> m.head]]
    /\ Backup
    /\ UNCHANGED <<db, used, key, file, exports, bounds>>

AdoptApply(p) ==
    /\ proc[p].pc = "adopt"
    /\ ~Stale(p)
    /\ used < MaxRows
    /\ Extend(rows, proc[p].plan.head, head.length)
    /\ manifests' = Append(manifests, [plan |-> proc[p].plan, entry |-> Fresh])
    /\ proc' = [proc EXCEPT ![p] = Idle]
    /\ UNCHANGED <<key, file, exports, copies, bounds>>

\* The plan is stale, the topology got worse, a step failed or the process
\* was killed: nothing is written.
Abort(p) ==
    /\ proc[p] # Idle
    /\ proc' = [proc EXCEPT ![p] = Idle]
    /\ UNCHANGED <<db, used, key, file, exports, copies, bounds>>

-----------------------------------------------------------------------------
Next ==
    \/ AppendEntry \/ ExportHead \/ AdoptPlan
    \/ \E r \in rows : Damage(r)
    \/ \E k \in Keys : RotateKey(k)
    \/ \E c \in copies : Restore(c)
    \/ \E p \in Procs : \/ ReSignPreview(p) \/ ReSignBackup(p) \/ ReSignApply(p)
                        \/ AdoptCheck(p) \/ AdoptApply(p) \/ Abort(p)

Spec == Init /\ [][Next]_vars

-----------------------------------------------------------------------------
(* Properties.                                                             *)

IsHash(h) == Len(h) <= MaxRows /\ \A i \in DOMAIN h : h[i] \in [id : 1..MaxRows, sig : Sig]
IsHead(h) ==
    h # NoHead =>
        /\ DOMAIN h = {"latest", "length", "genesis"}
        /\ IsHash(h.latest)
        /\ h.length \in 1..MaxRows /\ h.genesis \in 1..MaxRows

\* Rows, heads, manifests and the state of each command have values of their
\* types; tx_id is a key of ledger_entries, and the head covers some of them.
TypeOK ==
    /\ \A r \in rows : r.id \in 1..used /\ r.sig \in Sig /\ IsHash(r.prev)
    /\ \A r, q \in rows : r.id = q.id => r = q
    /\ IsHead(head)
    /\ head # NoHead => head.length <= Cardinality(rows)
    /\ \A i \in DOMAIN manifests : \E r \in rows : r.id = manifests[i].entry
    /\ used \in 0..MaxRows
    /\ key \in Keys
    /\ \A p \in Procs : proc[p].pc \in {"idle", "resign", "resignApply", "adopt"}
    /\ \A e \in exports : e # NoHead /\ IsHead(e)
    /\ damage \in 0..MaxDamage
    /\ rotations \in 0..MaxRotations

\* Whatever was appended, re-signed, adopted and restored in whatever order:
\* once no signature is broken, the chain has no forks or orphans and ends at
\* the head, and verify --chain passes but for extra genesis rows nobody
\* adopted.  No row was left off the chain (apply_re_sign, apply_attestation).
RepairIsWhole ==
    Invalid(rows) = {} =>
        LET w == Walk(rows, head)
        IN  /\ Forks(rows) = {} /\ Orphans(rows, w) = {}
            /\ head # NoHead => HeadAgrees(w)
            /\ Verified \/ (Extra(rows, w) # {} /\ ~Adopted)

\* verify --chain passes only for a ledger of which every row is valid and is
\* on the chain or covered by an attestation on the chain
\* (verify_chain_integrity, decide_adoption).
VerifyIsSound ==
    Verified /\ head # NoHead =>
        /\ Invalid(rows) = {}
        /\ \A r \in rows \ Range(Walk(rows, head)) :
              \E i \in DOMAIN manifests :
                  /\ Hash(r) \in manifests[i].plan.adopted
                  /\ manifests[i].entry \in {q.id : q \in Range(Walk(rows, head))}

\* A checkpoint passes exactly as long as the rows it covered are the first
\* rows of the chain, with the signatures they had: never again after a
\* restored backup or a rewrite, however long the chain grows
\* (classify_checkpoint).
CheckpointTells ==
    Verified => \A e \in exports :
        Passes(e) <=> /\ Len(Ordered) >= Len(e.latest)
                      /\ \A i \in DOMAIN e.latest : Body(Ordered[i]) = e.latest[i]

\* An adoption is for good: what was attested is still accepted after any
\* appends, while all signatures are valid (decide_adoption).
AdoptionStands ==
    manifests # <<>> /\ Invalid(rows) = {} => Adopted

\* The signed length of the chain grows with every step that moves the head,
\* but for a restored backup: a re-sign drops no rows behind the back of a
\* checkpoint (the order captured in apply_re_sign).
ChainGrows ==
    [][ head # NoHead /\ head' # head =>
            \/ head' # NoHead /\ head'.length > head.length
            \/ [rows |-> rows', head |-> head', manifests |-> manifests'] \in copies ]_vars
=============================================================================

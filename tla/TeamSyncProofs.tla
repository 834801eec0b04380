--------------------------- MODULE TeamSyncProofs ---------------------------
(***************************************************************************)
(* Between two devices team sync loses no entry, whatever the number of    *)
(* rows, of runs, of faults and the values of the clocks.                  *)
(***************************************************************************)
EXTENDS TeamSync, FiniteSetTheorems, TLAPS

(***************************************************************************)
(* The inductive invariant.                                                *)
(***************************************************************************)

Typed ==
    /\ local \in [Devices -> SUBSET TxIds]
    /\ peer \in [Devices -> SUBSET TxIds]
    /\ hlc \in [Devices -> [TxIds -> HLC \cup {NoHLC}]]
    /\ cursor \in [Devices -> HLC]
    /\ lastApply \in [Devices -> HLC]
    /\ {outbox, quarantine, displaced} \subseteq [Devices -> SUBSET Bundle]
    /\ run \in [Runs -> Run]
    /\ faults \in 0 .. MaxFaults

\* An entry is LOCAL on the one device that committed it.
Owned ==
    \A d, e \in Devices : d # e => local[d] \cap local[e] = {}

\* A device holds no copy of an entry of its own, and stamps every copy.
Copies ==
    \A d \in Devices :
        /\ local[d] \cap peer[d] = {}
        /\ \A t \in peer[d] : (\E e \in Devices : t \in local[e]) /\ hlc[d][t] # NoHLC

\* A bundle holds entries of its sender.
Sent(b) == Rows(b) \subseteq local[b.from] /\ Rows(b) # {}

Files == \A d \in Devices : \A b \in outbox[d] : b.from = d /\ Sent(b)

\* What a run of r may remember, when p is the table of copies.
Carried(r, v, p) ==
    /\ v.pc \in {"put", "rename", "stamp"} =>
          v.bundle.from = Dev[r] /\ Sent(v.bundle) /\ v.rows \subseteq Rows(v.bundle)
    /\ \A b \in v.todo : b.from # Dev[r] /\ Sent(b)
    /\ v.pc = "move" => v.bundle.from # Dev[r] /\ Rows(v.bundle) \subseteq p[Dev[r]]

Carries == \A r \in Runs : Carried(r, run[r], peer)

Structure == Typed /\ Owned /\ Copies /\ Files /\ Carries

\* The rows that a run stamps, and the stamped rows, are accounted for.
Stamping ==
    \A r \in Runs, e \in Devices :
        run[r].pc = "stamp" /\ Dev[r] # e /\ Dev[r] \in Trust[e] =>
            \A t \in Rows(run[r].bundle) : Accounted(Dev[r], e, t)

Stamped ==
    \A d, e \in Devices : d # e /\ d \in Trust[e] =>
        \A t \in local[d] : hlc[d][t] # NoHLC => Accounted(d, e, t)

\* Only rows that a device holds have a clock.
Held ==
    \A d \in Devices, t \in TxIds : hlc[d][t] # NoHLC => t \in local[d] \cup peer[d]

Safe == Stamping /\ Stamped /\ Held

(***************************************************************************)
(* Clocks and batches.                                                     *)
(***************************************************************************)

\* The clock that is read next is a clock.
LEMMA NowType ==
    ASSUME NEW last \in HLC, NEW d \in Devices, NEW w \in Wall[d]
    PROVE  Now(last, w) \in HLC
<1>1. w \in Nat
  BY WallAssumption
<1>2. QED
  BY <1>1 DEF HLC, Now

\* A batch stamps its rows and no others.
LEMMA StampsType ==
    ASSUME NEW S \in SUBSET TxIds, NEW h \in HLC, NEW f \in Stamps(S, h)
    PROVE  /\ f \in [TxIds -> HLC \cup {NoHLC}]
           /\ {t \in TxIds : f[t] # NoHLC} = S
<1>1. Cardinality(S) \in Nat
  BY TxIdsAssumption, FS_Subset, FS_CardinalityType
<1>2. PICK k \in [S -> 0 .. Cardinality(S) - 1] :
        f = [t \in TxIds |-> IF t \in S THEN <<h[1], h[2] + k[t]>> ELSE NoHLC]
  BY DEF Stamps, Injection
<1>3. ASSUME NEW t \in S
      PROVE  <<h[1], h[2] + k[t]>> \in HLC /\ <<h[1], h[2] + k[t]>> # NoHLC
  <2>1. k[t] \in Nat
    BY <1>1, <1>2, <1>3
  <2>2. <<h[1], h[2] + k[t]>> \in Nat \X Nat
    BY <2>1 DEF HLC
  <2>3. QED
    BY <2>2, NoHLCAssumption DEF HLC
<1>4. QED
  BY <1>2, <1>3

\* The later of two clocks is a clock.
LEMMA LaterType ==
    ASSUME NEW a \in HLC, NEW b \in HLC
    PROVE  Later(a, b) \in HLC
BY DEF Later

\* An idle run is a run, with a bundle that is one.
LEMMA NoBundleType ==
    ASSUME NEW r \in Runs
    PROVE  NoBundle(r) \in Bundle /\ Idle(r) \in Run
<1>1. <<0, 0>> \in HLC
  BY DEF HLC
<1>2. QED
  BY <1>1, DevAssumption DEF Idle, NoBundle, Run, Bundle

(***************************************************************************)
(* The structure of ledgers, files and runs.                               *)
(***************************************************************************)

\* Structure holds initially.
LEMMA StructureInit == Init => Structure
<1> SUFFICES ASSUME Init
             PROVE  Structure
  OBVIOUS
<1>1. <<0, 0>> \in HLC
  BY DEF HLC
<1>2. Typed
  BY <1>1, NoBundleType, BoundsAssumption DEF Init, Typed
<1>3. Owned /\ Copies /\ Files
  BY <1>1 DEF Init, Owned, Copies, Files
<1>4. Carries
  BY DEF Init, Carries, Carried, Idle
<1>5. QED
  BY <1>2, <1>3, <1>4 DEF Structure

\* A bundle is as good as sent when it was: LOCAL entries stay.
LEMMA SentStable ==
    ASSUME Typed, Typed', NEW b \in Bundle, Sent(b),
           \A d \in Devices : local[d] \subseteq local'[d]
    PROVE  Sent(b)'
BY DEF Sent, Bundle, Rows

\* A commit keeps Structure.
LEMMA CommitStructure ==
    ASSUME Structure, NEW d \in Devices, NEW t \in TxIds, Commit(d, t)
    PROVE  Structure'
<1> USE DEF Structure
<1>1. Typed'
  BY DEF Typed, Commit
<1>2. \A e \in Devices : local[e] \subseteq local'[e]
  BY DEF Typed, Commit
<1>3. Owned'
  BY DEF Typed, Owned, Commit
<1>4. Copies'
  BY DEF Typed, Copies, Commit
<1>5. Files'
  BY <1>1, <1>2, SentStable DEF Typed, Files, Commit
<1>6. Carries'
  <2>1. UNCHANGED <<peer, run>>
    BY DEF Commit
  <2>2. \A r \in Runs : run[r].bundle \in Bundle /\ run[r].todo \subseteq Bundle
    BY DEF Typed, Run
  <2>3. QED
    BY <1>1, <1>2, <2>1, <2>2, SentStable DEF Carries, Carried, Rows
<1>7. QED
  BY <1>1, <1>3, <1>4, <1>5, <1>6

\* A step of one run, which leaves the LOCAL entries alone and takes no copy
\* away, has to keep the tables and files in order and what it remembers.
LEMMA RunStep ==
    ASSUME Structure, NEW r \in Runs, NEW v \in Run,
           run' = [run EXCEPT ![r] = v], Carried(r, v, peer'),
           local' = local, \A d \in Devices : peer[d] \subseteq peer'[d],
           Typed', Copies', Files'
    PROVE  Structure'
<1> USE DEF Structure
<1>1. \A b : Sent(b)' <=> Sent(b)
  BY DEF Sent, Rows
<1>2. Carries'
  <2> SUFFICES ASSUME NEW q \in Runs
               PROVE  Carried(q, run[q], peer)'
    BY DEF Carries
  <2>1. CASE q = r
    <3>1. run'[r] = v
      BY DEF Typed
    <3>2. QED
      BY <2>1, <3>1 DEF Carried, Sent, Rows
  <2>2. CASE q # r
    <3>1. run'[q] = run[q] /\ Dev[q] \in Devices
      BY <2>2, DevAssumption DEF Typed
    <3>2. Carried(q, run[q], peer)
      BY DEF Carries
    <3>3. QED
      BY <1>1, <3>1, <3>2 DEF Carried, Rows
  <2>3. QED
    BY <2>1, <2>2
<1>3. QED
  BY <1>2 DEF Owned

\* The same for a step that changes, apart from the run, at most the files.
LEMMA FileStep ==
    ASSUME Structure, NEW r \in Runs, NEW v \in Run,
           run' = [run EXCEPT ![r] = v], Carried(r, v, peer),
           UNCHANGED <<local, peer, hlc, cursor, lastApply>>,
           faults' \in 0 .. MaxFaults,
           {outbox', quarantine', displaced'} \subseteq [Devices -> SUBSET Bundle],
           \A d \in Devices : \A b \in outbox'[d] : b.from = d /\ Sent(b)
    PROVE  Structure'
<1>1. \A b : Sent(b)' <=> Sent(b)
  BY DEF Sent, Rows
<1>2. Typed'
  BY DEF Structure, Typed
<1>3. Copies'
  BY DEF Structure, Copies
<1>4. Files'
  BY <1>1 DEF Structure, Files
<1>5. Carried(r, v, peer')
  BY <1>1 DEF Carried, Rows
<1>6. QED
  BY <1>2, <1>3, <1>4, <1>5, RunStep

\* ... and for a step that changes the run only.
LEMMA LocalStep ==
    ASSUME Structure, NEW r \in Runs, NEW v \in Run,
           run' = [run EXCEPT ![r] = v], Carried(r, v, peer),
           UNCHANGED <<local, peer, hlc, cursor, lastApply, outbox, quarantine, displaced>>,
           faults' \in 0 .. MaxFaults
    PROVE  Structure'
BY FileStep DEF Structure, Typed, Files

\* A fault stays within the bound on faults.
LEMMA FaultType == Typed /\ Fault => faults' \in 0 .. MaxFaults
BY BoundsAssumption DEF Typed, Fault

\* An extract keeps Structure: it takes its device's own rows.
LEMMA ExtractStructure ==
    ASSUME Structure, NEW r \in Runs, NEW w \in Wall[Dev[r]], Extract(r, w)
    PROVE  Structure'
<1> DEFINE d == Dev[r]
           h == Now(cursor[d], w)
<1>1. d \in Devices /\ run[r] \in Run /\ Carried(r, run[r], peer) /\ faults \in 0 .. MaxFaults
  BY DevAssumption DEF Structure, Typed, Carries
<1>2. UNCHANGED <<local, peer, hlc, cursor, lastApply, outbox, quarantine, displaced, faults>>
  BY DEF Extract
<1>3. h \in HLC
  BY <1>1, NowType DEF Structure, Typed
<1>4. CASE Goto(r, "list")
  <2> DEFINE v == [run[r] EXCEPT !.pc = "list"]
  <2>1. v \in Run /\ Carried(r, v, peer) /\ run' = [run EXCEPT ![r] = v]
    BY <1>1, <1>4 DEF Run, Goto, Carried
  <2>2. QED
    BY <1>1, <1>2, <2>1, LocalStep
<1>5. ASSUME NEW S \in (SUBSET Eligible(d)) \ {{}}, NEW f \in Stamps(S, h),
             run' = [run EXCEPT ![r] = [@ EXCEPT !.pc = "put", !.rows = S,
                         !.bundle = [from |-> d, hlc |-> h, entries |-> f]]]
      PROVE  Structure'
  <2> DEFINE b == [from |-> d, hlc |-> h, entries |-> f]
             v == [run[r] EXCEPT !.pc = "put", !.rows = S, !.bundle = b]
  <2>1. S \subseteq TxIds /\ S \subseteq local[d] /\ S # {}
    BY <1>1 DEF Structure, Eligible, Typed
  <2>2. b \in Bundle /\ Rows(b) = S
    BY <1>1, <1>3, <2>1, StampsType DEF Bundle, Rows
  <2>3. Sent(b) /\ b.from = d
    BY <1>3, <2>1, <2>2 DEF Sent
  <2>4. run' = [run EXCEPT ![r] = v]
    BY <1>5
  <2> HIDE DEF b
  <2>5. v \in Run /\ v.pc = "put" /\ v.rows = S /\ v.bundle = b /\ v.todo = run[r].todo
    BY <1>1, <2>1, <2>2 DEF Run
  <2> HIDE DEF v
  <2>6. Carried(r, v, peer)
    BY <1>1, <2>2, <2>3, <2>5 DEF Carried
  <2>7. QED
    BY <1>1, <1>2, <2>4, <2>5, <2>6, LocalStep
<1>6. QED
  BY <1>4, <1>5 DEF Extract

\* What a run of r starts from.
LEMMA RunFacts ==
    ASSUME Structure, NEW r \in Runs
    PROVE  /\ Dev[r] \in Devices /\ run[r] \in Run /\ Carried(r, run[r], peer)
           /\ faults \in 0 .. MaxFaults /\ run[r].bundle \in Bundle
           /\ run[r].rows \subseteq TxIds /\ run[r].todo \subseteq Bundle
BY DevAssumption DEF Structure, Typed, Carries, Run

\* A put takes a file of the same name out of the outbox, and keeps Structure.
LEMMA DisplaceStructure ==
    ASSUME Structure, NEW r \in Runs, Displace(r)
    PROVE  Structure'
<1> DEFINE v == [run[r] EXCEPT !.pc = "rename"]
<1>1. /\ Dev[r] \in Devices /\ Carried(r, run[r], peer) /\ faults \in 0 .. MaxFaults
      /\ run[r].pc = "put" /\ run[r].bundle \in Bundle
  BY RunFacts DEF Displace
<1>2. run' = [run EXCEPT ![r] = v] /\ v \in Run /\ Carried(r, v, peer)
  BY <1>1, RunFacts DEF Displace, Goto, Run, Carried
<1>3. /\ UNCHANGED <<local, peer, hlc, cursor, lastApply, quarantine, faults>>
      /\ outbox' = [outbox EXCEPT ![Dev[r]] = @ \ {run[r].bundle}]
      /\ displaced' = [displaced EXCEPT ![Dev[r]] = @ \cup {run[r].bundle}]
  BY DEF Displace
<1>4. /\ {outbox', quarantine', displaced'} \subseteq [Devices -> SUBSET Bundle]
      /\ \A d \in Devices : \A b \in outbox'[d] : b.from = d /\ Sent(b)
  BY <1>1, <1>3 DEF Structure, Typed, Files
<1> HIDE DEF v
<1>5. QED
  BY <1>1, <1>2, <1>3, <1>4, FileStep

\* The rename keeps Structure: the bundle goes to the outbox of its sender.
LEMMA PutStructure ==
    ASSUME Structure, NEW r \in Runs, Put(r)
    PROVE  Structure'
<1> DEFINE v == [run[r] EXCEPT !.pc = "stamp"]
<1>1. /\ Dev[r] \in Devices /\ Carried(r, run[r], peer) /\ faults \in 0 .. MaxFaults
      /\ run[r].pc \in {"put", "rename"} /\ run[r].bundle \in Bundle
  BY RunFacts DEF Put
<1>2. run' = [run EXCEPT ![r] = v] /\ v \in Run /\ Carried(r, v, peer)
  BY <1>1, RunFacts DEF Put, Goto, Run, Carried
<1>3. /\ UNCHANGED <<local, peer, hlc, cursor, lastApply, quarantine, faults>>
      /\ outbox' = [outbox EXCEPT ![Dev[r]] = @ \cup {run[r].bundle}]
      /\ displaced' = [displaced EXCEPT ![Dev[r]] = @ \ {run[r].bundle}]
  BY DEF Put
<1>4. run[r].bundle.from = Dev[r] /\ Sent(run[r].bundle)
  BY <1>1 DEF Carried
<1>5. /\ {outbox', quarantine', displaced'} \subseteq [Devices -> SUBSET Bundle]
      /\ \A d \in Devices : \A b \in outbox'[d] : b.from = d /\ Sent(b)
  BY <1>1, <1>3, <1>4 DEF Structure, Typed, Files
<1> HIDE DEF v
<1>6. QED
  BY <1>1, <1>2, <1>3, <1>5, FileStep

\* A stamp keeps Structure.
LEMMA StampRowStructure ==
    ASSUME Structure, NEW r \in Runs, NEW t \in TxIds, StampRow(r, t)
    PROVE  Structure'
<1> DEFINE v == [run[r] EXCEPT !.rows = @ \ {t}]
<1>1. Dev[r] \in Devices /\ Carried(r, run[r], peer) /\ run[r].pc = "stamp" /\ t \in run[r].rows
  BY RunFacts DEF StampRow
<1>2. run' = [run EXCEPT ![r] = v] /\ v \in Run /\ Carried(r, v, peer)
  BY <1>1, RunFacts DEF StampRow, Run, Carried
<1>3. /\ UNCHANGED <<local, peer, cursor, lastApply, outbox, quarantine, displaced, faults>>
      /\ hlc' = [hlc EXCEPT ![Dev[r]][t] = run[r].bundle.entries[t]]
  BY DEF StampRow
<1>4. run[r].bundle.entries[t] \in HLC /\ run[r].bundle.entries[t] # NoHLC
  BY <1>1, RunFacts DEF Carried, Rows, Bundle
<1>5. Carried(r, v, peer')
  BY <1>2, <1>3 DEF Carried, Sent, Rows
<1>6. Typed'
  <2>1. run' \in [Runs -> Run]
    BY <1>2 DEF Structure, Typed
  <2>2. hlc' \in [Devices -> [TxIds -> HLC \cup {NoHLC}]]
    BY <1>1, <1>3, <1>4 DEF Structure, Typed
  <2>3. QED
    BY <1>3, <2>1, <2>2 DEF Structure, Typed
<1>7. Copies'
  BY <1>1, <1>3, <1>4 DEF Structure, Typed, Copies
<1>8. Files'
  BY <1>3 DEF Structure, Files, Sent, Rows
<1>9. local' = local /\ \A d \in Devices : peer[d] \subseteq peer'[d]
  BY <1>3
<1> HIDE DEF v
<1>10. QED
  BY <1>2, <1>5, <1>6, <1>7, <1>8, <1>9, RunStep

\* Saving the cursor keeps Structure: the cursor is a clock.
LEMMA SaveCursorStructure ==
    ASSUME Structure, NEW r \in Runs, SaveCursor(r)
    PROVE  Structure'
<1> DEFINE v == [run[r] EXCEPT !.pc = "list", !.bundle = NoBundle(r)]
           b == run[r].bundle
           c == <<b.hlc[1], b.hlc[2] + Cardinality(Rows(b)) - 1>>
<1>1. Dev[r] \in Devices /\ Carried(r, run[r], peer) /\ run[r].pc = "stamp" /\ b \in Bundle
  BY RunFacts DEF SaveCursor
<1>2. run' = [run EXCEPT ![r] = v] /\ v \in Run /\ Carried(r, v, peer)
  BY <1>1, RunFacts, NoBundleType DEF SaveCursor, Forget, Run, Carried
<1>3. /\ UNCHANGED <<local, peer, hlc, lastApply, outbox, quarantine, displaced, faults>>
      /\ cursor' = [cursor EXCEPT ![Dev[r]] = c]
  BY DEF SaveCursor
<1>4. c \in HLC
  <2>1. Sent(b)
    BY <1>1 DEF Carried
  <2>2. b.hlc \in Nat \X Nat
    BY <1>1 DEF Bundle, HLC
  <2>3. Cardinality(Rows(b)) \in Nat \ {0}
    <3>1. IsFiniteSet(Rows(b)) /\ Rows(b) # {}
      BY <2>1, TxIdsAssumption, FS_Subset DEF Sent, Rows
    <3>2. QED
      BY <3>1, FS_CardinalityType, FS_EmptySet
  <2> HIDE DEF b
  <2>4. b.hlc[2] + Cardinality(Rows(b)) - 1 \in Nat
    BY <2>2, <2>3
  <2>5. QED
    BY <2>2, <2>4 DEF HLC
<1>5. Carried(r, v, peer')
  BY <1>2, <1>3 DEF Carried, Sent, Rows
<1> HIDE DEF c
<1>6. Typed'
  <2>1. run' \in [Runs -> Run] /\ cursor' \in [Devices -> HLC]
    BY <1>1, <1>2, <1>3, <1>4 DEF Structure, Typed
  <2>2. QED
    BY <1>3, <2>1 DEF Structure, Typed
<1>7. Copies'
  BY <1>3 DEF Structure, Copies
<1>8. Files'
  BY <1>1, <1>3, <1>4 DEF Structure, Typed, Files, Sent, Rows
<1>9. local' = local /\ \A d \in Devices : peer[d] \subseteq peer'[d]
  BY <1>3
<1> HIDE DEF v
<1>10. QED
  BY <1>2, <1>5, <1>6, <1>7, <1>8, <1>9, RunStep

\* Listing keeps Structure: what is listed was sent by others.
LEMMA ListStructure ==
    ASSUME Structure, NEW r \in Runs, List(r)
    PROVE  Structure'
<1> DEFINE S == UNION {outbox[e] : e \in Devices \ {Dev[r]}}
           v == [run[r] EXCEPT !.pc = "apply", !.todo = S]
<1>1. Dev[r] \in Devices /\ run[r] \in Run /\ Carried(r, run[r], peer) /\ faults \in 0 .. MaxFaults
  BY RunFacts
<1>2. S \subseteq Bundle /\ \A b \in S : b.from # Dev[r] /\ Sent(b)
  BY DEF Structure, Typed, Files
<1>3. run' = [run EXCEPT ![r] = v]
  BY DEF List
<1> HIDE DEF S
<1>4. v \in Run /\ Carried(r, v, peer)
  BY <1>1, <1>2 DEF Run, Carried
<1>5. UNCHANGED <<local, peer, hlc, cursor, lastApply, outbox, quarantine, displaced, faults>>
  BY DEF List
<1>6. QED
  BY <1>1, <1>3, <1>4, <1>5, LocalStep

\* What a bundle that r has listed is.
LEMMA TodoFacts ==
    ASSUME Structure, NEW r \in Runs, NEW b \in run[r].todo
    PROVE  /\ b \in Bundle /\ b.from \in Devices /\ b.from # Dev[r] /\ Sent(b)
           /\ Rows(b) \subseteq TxIds
           /\ \A t \in Rows(b) : b.entries[t] \in HLC /\ b.entries[t] # NoHLC
BY RunFacts DEF Carried, Bundle, Rows

\* An apply keeps Structure: it adds copies of what was sent.
LEMMA ApplyStructure ==
    ASSUME Structure, NEW r \in Runs, NEW b \in run[r].todo, NEW w \in Wall[Dev[r]],
           Apply(r, b, w)
    PROVE  Structure'
<1> DEFINE d == Dev[r]
           v == Applied(run[r], b)
<1>1. d \in Devices /\ run[r] \in Run /\ Carried(r, run[r], peer)
  BY RunFacts
<1>2. /\ b \in Bundle /\ b.from \in Devices /\ b.from # d /\ Sent(b) /\ Rows(b) \subseteq TxIds
      /\ \A t \in Rows(b) : b.entries[t] \in HLC /\ b.entries[t] # NoHLC
  BY TodoFacts
<1>3. /\ UNCHANGED <<local, cursor, outbox, quarantine, displaced, faults>>
      /\ peer' = [peer EXCEPT ![d] = @ \cup (Rows(b) \ local[d])]
      /\ lastApply' = [lastApply EXCEPT ![d] = Later(@, b.hlc)]
      /\ run' = [run EXCEPT ![r] = v]
  <2>1. UNCHANGED <<local, cursor, outbox, quarantine, displaced, faults>>
    BY DEF Apply
  <2>2. peer' = [peer EXCEPT ![d] = @ \cup (Rows(b) \ local[d])]
    BY DEF Apply
  <2>3. lastApply' = [lastApply EXCEPT ![d] = Later(@, b.hlc)]
    BY Zenon DEF Apply
  <2>4. run' = [run EXCEPT ![r] = v]
    BY DEF Apply
  <2>5. QED
    BY <2>1, <2>2, <2>3, <2>4
<1>4. /\ hlc' \in [Devices -> [TxIds -> HLC \cup {NoHLC}]]
      /\ \A e \in Devices \ {d} : hlc'[e] = hlc[e]
      /\ \A t \in TxIds : hlc[d][t] # NoHLC => hlc'[d][t] # NoHLC
      /\ \A t \in Rows(b) : t \notin local[d] \cup peer[d] => hlc'[d][t] # NoHLC
  <2> DEFINE won == {t \in Rows(b) :
                         t \notin local[d] \cup peer[d] \/ Before(hlc[d][t], b.entries[t])}
             new == [t \in TxIds |-> IF t \in won THEN b.entries[t] ELSE hlc[d][t]]
  <2>1. hlc' = [hlc EXCEPT ![d] = new]
    BY DEF Apply
  <2>2. hlc \in [Devices -> [TxIds -> HLC \cup {NoHLC}]]
    BY DEF Structure, Typed
  <2>3. new \in [TxIds -> HLC \cup {NoHLC}]
    BY <1>1, <1>2, <2>2
  <2>4. \A t \in Rows(b) : t \notin local[d] \cup peer[d] => new[t] # NoHLC
    BY <1>2
  <2>5. \A t \in TxIds : hlc[d][t] # NoHLC => new[t] # NoHLC
    BY <1>2
  <2> HIDE DEF new
  <2>6. QED
    BY <1>1, <1>2, <2>1, <2>2, <2>3, <2>4, <2>5
<1>5. Typed'
  <2>1. v \in Run
    BY <1>1, <1>2 DEF Run, Applied
  <2>2. b.hlc \in HLC
    BY <1>2 DEF Bundle
  <2>3. lastApply' \in [Devices -> HLC]
    BY <1>1, <1>3, <2>2, LaterType DEF Structure, Typed
  <2>4. peer' \in [Devices -> SUBSET TxIds] /\ run' \in [Runs -> Run]
    BY <1>1, <1>2, <1>3, <2>1 DEF Structure, Typed
  <2>5. QED
    BY <1>3, <1>4, <2>3, <2>4 DEF Structure, Typed
<1>6. \A e \in Devices : peer[e] \subseteq peer'[e]
  BY <1>1, <1>3 DEF Structure, Typed
<1>7. Copies'
  <2> SUFFICES ASSUME NEW e \in Devices
               PROVE  /\ local[e] \cap peer'[e] = {}
                      /\ \A t \in peer'[e] :
                            (\E g \in Devices : t \in local[g]) /\ hlc'[e][t] # NoHLC
    BY <1>3 DEF Copies
  <2>1. CASE e # d
    BY <1>1, <1>3, <1>4, <2>1 DEF Structure, Typed, Copies
  <2>2. CASE e = d
    <3>1. peer'[d] = peer[d] \cup (Rows(b) \ local[d]) /\ peer[d] \subseteq TxIds
      BY <1>1, <1>3 DEF Structure, Typed
    <3>2. Rows(b) \subseteq local[b.from]
      BY <1>2 DEF Sent
    <3>3. \A t \in peer[d] : hlc[d][t] # NoHLC /\ \E g \in Devices : t \in local[g]
      BY <1>1 DEF Structure, Copies
    <3>4. local[d] \cap peer[d] = {}
      BY <1>1 DEF Structure, Copies
    <3>5. QED
      BY <1>2, <1>4, <2>2, <3>1, <3>2, <3>3, <3>4
  <2>3. QED
    BY <2>1, <2>2
<1>8. Files'
  BY <1>3 DEF Structure, Files, Sent, Rows
<1>9. Carried(r, v, peer')
  <2>1. \A x : Sent(x)' <=> Sent(x)
    BY <1>3 DEF Sent, Rows
  <2>2. v.pc = "move" /\ v.bundle = b /\ v.todo \subseteq run[r].todo
    BY <1>1 DEF Run, Applied
  <2>3. Rows(b) \cap local[d] = {}
    BY <1>1, <1>2 DEF Structure, Owned, Sent
  <2>4. Rows(b) \subseteq peer'[d]
    BY <1>1, <1>3, <2>3 DEF Structure, Typed
  <2>5. \A x \in v.todo : x.from # d /\ Sent(x)
    BY <1>1, <2>1, <2>2 DEF Carried
  <2> HIDE DEF v
  <2>6. QED
    BY <1>2, <2>2, <2>4, <2>5 DEF Carried, Rows
<1>10. v \in Run
  BY <1>1, <1>2 DEF Run, Applied
<1> HIDE DEF v
<1>11. run' = [run EXCEPT ![r] = v] /\ local' = local
  BY <1>3
<1>12. QED
  BY <1>5, <1>6, <1>7, <1>8, <1>9, <1>10, <1>11, RunStep

\* A file taken away leaves the others as they were.
LEMMA RemoveFiles ==
    ASSUME Structure, NEW b \in Bundle, Remove(b)
    PROVE  /\ outbox' \in [Devices -> SUBSET Bundle]
           /\ \A d \in Devices : \A x \in outbox'[d] : x.from = d /\ Sent(x)
<1>1. outbox' \in [Devices -> SUBSET Bundle] /\ \A d \in Devices : outbox'[d] \subseteq outbox[d]
  BY DEF Structure, Typed, Remove, Bundle
<1>2. QED
  BY <1>1 DEF Structure, Files

\* Moving a bundle that was applied keeps Structure.
LEMMA MoveStructure ==
    ASSUME Structure, NEW r \in Runs, Move(r)
    PROVE  Structure'
<1> DEFINE v == [run[r] EXCEPT !.pc = "apply", !.bundle = NoBundle(r)]
<1>1. run' = [run EXCEPT ![r] = v] /\ v \in Run /\ Carried(r, v, peer)
  BY RunFacts, NoBundleType DEF Move, Forget, Run, Carried
<1>2. UNCHANGED <<local, peer, hlc, cursor, lastApply, quarantine, displaced>>
  BY DEF Move
<1> HIDE DEF v
<1>3. CASE Remove(run[r].bundle) /\ UNCHANGED faults
  <2>1. /\ {outbox', quarantine', displaced'} \subseteq [Devices -> SUBSET Bundle]
        /\ \A d \in Devices : \A x \in outbox'[d] : x.from = d /\ Sent(x)
    BY <1>2, <1>3, RunFacts, RemoveFiles DEF Structure, Typed
  <2>2. QED
    BY <1>1, <1>2, <1>3, <2>1, RunFacts, FileStep
<1>4. CASE Fault /\ UNCHANGED outbox
  BY <1>1, <1>2, <1>4, FaultType, LocalStep DEF Structure
<1>5. QED
  BY <1>3, <1>4 DEF Move

\* A bundle that is dropped from the list.
LEMMA DropType ==
    ASSUME Structure, NEW r \in Runs, NEW b \in run[r].todo
    PROVE  LET v == [run[r] EXCEPT !.todo = @ \ {b}] IN v \in Run /\ Carried(r, v, peer)
BY RunFacts DEF Run, Carried

\* Putting a bundle into quarantine keeps Structure.
LEMMA QuarantineStructure ==
    ASSUME Structure, NEW r \in Runs, NEW b \in run[r].todo, Quarantine(r, b),
           UNCHANGED faults \/ Fault
    PROVE  Structure'
<1> DEFINE v == [run[r] EXCEPT !.todo = @ \ {b}]
<1>1. run' = [run EXCEPT ![r] = v] /\ v \in Run /\ Carried(r, v, peer)
  BY DropType DEF Quarantine
<1>2. /\ UNCHANGED <<local, peer, hlc, cursor, lastApply, displaced>>
      /\ quarantine' = [quarantine EXCEPT ![Dev[r]] = @ \cup {b}]
      /\ Remove(b)
  BY DEF Quarantine
<1>3. faults' \in 0 .. MaxFaults
  BY RunFacts, FaultType DEF Structure
<1>4. b \in Bundle /\ Dev[r] \in Devices
  BY TodoFacts, RunFacts
<1>5. /\ {outbox', quarantine', displaced'} \subseteq [Devices -> SUBSET Bundle]
      /\ \A d \in Devices : \A x \in outbox'[d] : x.from = d /\ Sent(x)
  BY <1>2, <1>4, RemoveFiles DEF Structure, Typed
<1> HIDE DEF v
<1>6. QED
  BY <1>1, <1>2, <1>3, <1>5, FileStep

\* Passing a bundle over keeps Structure.
LEMMA SkipStructure ==
    ASSUME Structure, NEW r \in Runs, NEW b \in run[r].todo, Skip(r, b)
    PROVE  Structure'
<1> DEFINE v == [run[r] EXCEPT !.todo = @ \ {b}]
<1>1. run' = [run EXCEPT ![r] = v] /\ v \in Run /\ Carried(r, v, peer)
  BY DropType DEF Skip
<1>2. UNCHANGED <<local, peer, hlc, cursor, lastApply, outbox, quarantine, displaced>>
  BY DEF Skip
<1>3. faults' \in 0 .. MaxFaults
  BY RunFacts, FaultType DEF Skip, Structure
<1>4. QED
  BY <1>1, <1>2, <1>3, LocalStep

\* Finish and CutShort: nothing is remembered.
LEMMA IdleStructure ==
    ASSUME Structure, NEW r \in Runs, run' = [run EXCEPT ![r] = Idle(r)],
           UNCHANGED <<local, peer, hlc, cursor, lastApply, outbox, quarantine, displaced>>,
           UNCHANGED faults \/ Fault
    PROVE  Structure'
<1>1. Idle(r) \in Run /\ Carried(r, Idle(r), peer)
  BY NoBundleType DEF Idle, Carried
<1>2. faults' \in 0 .. MaxFaults
  BY RunFacts, FaultType DEF Structure
<1>3. QED
  BY <1>1, <1>2, LocalStep

\* A step keeps Structure.
LEMMA StructureStep == Structure /\ [Next]_vars => Structure'
<1> SUFFICES ASSUME Structure, [Next]_vars
             PROVE  Structure'
  OBVIOUS
<1>1. CASE UNCHANGED vars
  BY <1>1 DEF vars, Structure, Typed, Owned, Copies, Files, Carries, Carried, Sent, Rows
<1>2. ASSUME NEW d \in Devices, NEW t \in TxIds, Commit(d, t)
      PROVE  Structure'
  BY <1>2, CommitStructure
<1>3. ASSUME NEW r \in Runs, Export(r)
      PROVE  Structure'
  BY <1>3, ExtractStructure, DisplaceStructure, PutStructure, StampRowStructure,
     SaveCursorStructure DEF Export
<1>4. ASSUME NEW r \in Runs, Import(r)
      PROVE  Structure'
  <2>1. CASE Finish(r)
    BY <2>1, IdleStructure DEF Finish
  <2>2. ASSUME NEW b \in run[r].todo, NEW w \in Wall[Dev[r]],
               Reject(r, b, w) \/ ApplyFails(r, b, w)
        PROVE  Structure'
    BY <2>2, QuarantineStructure DEF Reject, ApplyFails
  <2>3. QED
    BY <1>4, <2>1, <2>2, ListStructure, ApplyStructure, MoveStructure, SkipStructure DEF Import
<1>5. ASSUME NEW r \in Runs, CutShort(r)
      PROVE  Structure'
  BY <1>5, IdleStructure DEF CutShort
<1>6. QED
  BY <1>1, <1>2, <1>3, <1>4, <1>5 DEF Next

\* Every table and every file has values of its type, a device holds no entry
\* both as LOCAL and as PEER, and a PEER entry has a clock.
THEOREM SyncTypeCorrect == Spec => []TypeOK
<1>1. Structure => TypeOK
  BY DEF Structure, Typed, Copies, TypeOK
<1>2. QED
  BY StructureInit, StructureStep, <1>1, PTL DEF Spec

(***************************************************************************)
(* Accounting.  The tables of copies and the quarantines grow; a file      *)
(* leaves an outbox only when its one reader has applied it or put it into *)
(* quarantine, or when a put takes it away; and only a put brings it back. *)
(***************************************************************************)

\* A step takes no PEER entry away.
LEMMA PeerGrows ==
    ASSUME Structure, [Next]_vars, NEW d \in Devices
    PROVE  peer[d] \subseteq peer'[d]
<1>1. ASSUME NEW r \in Runs, NEW b \in run[r].todo, NEW w \in Wall[Dev[r]], Apply(r, b, w)
      PROVE  peer[d] \subseteq peer'[d]
  <2>1. peer' = [peer EXCEPT ![Dev[r]] = @ \cup (Rows(b) \ local[Dev[r]])]
    BY <1>1 DEF Apply
  <2>2. QED
    BY <2>1 DEF Structure, Typed
<1>2. CASE UNCHANGED peer
  BY <1>2
<1>3. ASSUME NEW r \in Runs, Export(r) \/ CutShort(r)
      PROVE  UNCHANGED peer
  BY <1>3 DEF Export, CutShort, Extract, Displace, Put, StampRow, SaveCursor
<1>4. ASSUME NEW r \in Runs, Import(r)
      PROVE  UNCHANGED peer \/ \E b \in run[r].todo, w \in Wall[Dev[r]] : Apply(r, b, w)
  BY <1>4 DEF Import, List, Move, Reject, ApplyFails, Quarantine, Skip, Finish
<1>5. ASSUME NEW e \in Devices, NEW t \in TxIds, Commit(e, t)
      PROVE  UNCHANGED peer
  BY <1>5 DEF Commit
<1>6. QED
  BY <1>1, <1>2, <1>3, <1>4, <1>5 DEF Next, vars

\* A step takes nothing out of a quarantine.
LEMMA QuarantineGrows ==
    ASSUME Structure, [Next]_vars, NEW e \in Devices
    PROVE  quarantine[e] \subseteq quarantine'[e]
<1>1. ASSUME NEW r \in Runs, NEW b \in run[r].todo, Quarantine(r, b)
      PROVE  quarantine[e] \subseteq quarantine'[e]
  BY <1>1, RunFacts DEF Quarantine, Structure, Typed
<1>2. CASE UNCHANGED quarantine
  BY <1>2
<1>3. ASSUME NEW r \in Runs, Export(r) \/ CutShort(r)
      PROVE  UNCHANGED quarantine
  BY <1>3 DEF Export, CutShort, Extract, Displace, Put, StampRow, SaveCursor
<1>4. ASSUME NEW r \in Runs, Import(r)
      PROVE  UNCHANGED quarantine \/ \E b \in run[r].todo : Quarantine(r, b)
  BY <1>4 DEF Import, List, Apply, Move, Reject, ApplyFails, Skip, Finish
<1>5. ASSUME NEW d \in Devices, NEW t \in TxIds, Commit(d, t)
      PROVE  UNCHANGED quarantine
  BY <1>5 DEF Commit
<1>6. QED
  BY <1>1, <1>2, <1>3, <1>4, <1>5 DEF Next, vars

\* A file that leaves an outbox ...
LEMMA OutboxStep ==
    ASSUME Structure, [Next]_vars, NEW d \in Devices, NEW b \in outbox[d], b \notin outbox'[d]
    PROVE  \/ b \in displaced'[d]
           \/ \E r \in Runs : Move(r) /\ Remove(run[r].bundle) /\ b = run[r].bundle
           \/ \E r \in Runs : b \in run[r].todo /\ Quarantine(r, b)
<1>1. CASE UNCHANGED outbox
  BY <1>1
<1>2. ASSUME NEW r \in Runs, Put(r)
      PROVE  FALSE
  BY <1>2, RunFacts DEF Put, Structure, Typed
<1>3. ASSUME NEW r \in Runs, Displace(r)
      PROVE  b \in displaced'[d]
  BY <1>3, RunFacts DEF Displace, Structure, Typed
<1>4. ASSUME NEW r \in Runs, Move(r), Remove(run[r].bundle)
      PROVE  b = run[r].bundle
  <2>1. run[r].bundle.from \in Devices
    BY RunFacts DEF Bundle
  <2>2. QED
    BY <1>4, <2>1 DEF Remove, Structure, Typed
<1>5. ASSUME NEW r \in Runs, NEW x \in run[r].todo, Quarantine(r, x)
      PROVE  b = x
  BY <1>5, TodoFacts DEF Quarantine, Remove, Structure, Typed
<1>6. CASE UNCHANGED vars
  BY <1>1, <1>6 DEF vars
<1>7. ASSUME NEW r \in Runs, Export(r)
      PROVE  b \in displaced'[d]
  BY <1>1, <1>2, <1>3, <1>7 DEF Export, Extract, StampRow, SaveCursor
<1>8. ASSUME NEW r \in Runs, Import(r)
      PROVE  \/ Move(r) /\ Remove(run[r].bundle)
             \/ \E x \in run[r].todo : Quarantine(r, x)
  BY <1>1, <1>8 DEF Import, List, Apply, Move, Reject, ApplyFails, Skip, Finish
<1>9. CASE \E r \in Runs : Import(r)
  BY <1>4, <1>5, <1>8, <1>9
<1>10. CASE \E r \in Runs : CutShort(r)
  BY <1>1, <1>10 DEF CutShort
<1>11. CASE \E e \in Devices, t \in TxIds : Commit(e, t)
  BY <1>1, <1>11 DEF Commit
<1>12. QED
  BY <1>6, <1>7, <1>9, <1>10, <1>11 DEF Next

\* ... and one that a put has taken away stays so until a put brings it back.
LEMMA DisplacedStep ==
    ASSUME Structure, [Next]_vars, NEW d \in Devices, NEW b \in displaced[d]
    PROVE  b \in displaced'[d] \/ b \in outbox'[d]
<1>1. CASE UNCHANGED displaced
  BY <1>1
<1>2. ASSUME NEW r \in Runs, Put(r)
      PROVE  b \in displaced'[d] \/ b \in outbox'[d]
  <2>1. /\ outbox' = [outbox EXCEPT ![Dev[r]] = @ \cup {run[r].bundle}]
        /\ displaced' = [displaced EXCEPT ![Dev[r]] = @ \ {run[r].bundle}]
    BY <1>2 DEF Put
  <2>2. QED
    BY <2>1, RunFacts DEF Structure, Typed
<1>3. ASSUME NEW r \in Runs, Displace(r)
      PROVE  b \in displaced'[d]
  <2>1. displaced' = [displaced EXCEPT ![Dev[r]] = @ \cup {run[r].bundle}]
    BY <1>3 DEF Displace
  <2>2. QED
    BY <2>1, RunFacts DEF Structure, Typed
<1>4. ASSUME NEW r \in Runs, Export(r)
      PROVE  UNCHANGED displaced \/ Put(r) \/ Displace(r)
  BY <1>4 DEF Export, Extract, StampRow, SaveCursor
<1>5. ASSUME NEW r \in Runs, Import(r) \/ CutShort(r)
      PROVE  UNCHANGED displaced
  BY <1>5 DEF Import, CutShort, List, Apply, Move, Reject, ApplyFails, Quarantine, Skip, Finish
<1>6. ASSUME NEW e \in Devices, NEW t \in TxIds, Commit(e, t)
      PROVE  UNCHANGED displaced
  BY <1>6 DEF Commit
<1>7. QED
  BY <1>1, <1>2, <1>3, <1>4, <1>5, <1>6 DEF Next, vars

\* What is accounted for stays accounted for.
LEMMA AccountedStep ==
    ASSUME TwoDevices, Structure, [Next]_vars,
           NEW d \in Devices, NEW e \in Devices, d # e,
           NEW t \in TxIds, Accounted(d, e, t)
    PROVE  Accounted(d, e, t)'
<1>1. CASE t \in peer[e]
  BY <1>1, PeerGrows DEF Accounted
<1>2. ASSUME NEW b \in outbox[d], t \in Rows(b)
      PROVE  \/ t \in peer'[e]
             \/ \E x \in outbox'[d] \cup quarantine'[e] \cup displaced'[d] : t \in Rows(x)
  <2>1. CASE b \in outbox'[d] \/ b \in displaced'[d]
    BY <1>2, <2>1
  <2>2. b.from = d
    BY DEF Structure, Files
  <2>3. ASSUME NEW r \in Runs, Move(r), b = run[r].bundle
        PROVE  t \in peer'[e]
    <3>1. Dev[r] # d /\ Dev[r] \in Devices /\ Rows(b) \subseteq peer[Dev[r]]
      BY <2>2, <2>3, RunFacts DEF Move, Carried
    <3>2. Dev[r] = e
      BY <3>1 DEF TwoDevices
    <3>3. QED
      BY <1>2, <3>1, <3>2, PeerGrows
  <2>4. ASSUME NEW r \in Runs, b \in run[r].todo, Quarantine(r, b)
        PROVE  b \in quarantine'[e]
    <3>1. Dev[r] # d /\ Dev[r] \in Devices
      BY <2>2, <2>4, TodoFacts, RunFacts
    <3>2. Dev[r] = e
      BY <3>1 DEF TwoDevices
    <3>3. quarantine' = [quarantine EXCEPT ![Dev[r]] = @ \cup {b}]
      BY <2>4 DEF Quarantine
    <3>4. QED
      BY <3>2, <3>3 DEF Structure, Typed
  <2>5. QED
    BY <1>2, <2>1, <2>3, <2>4, OutboxStep
<1>3. ASSUME NEW b \in quarantine[e], t \in Rows(b)
      PROVE  \E x \in outbox'[d] \cup quarantine'[e] \cup displaced'[d] : t \in Rows(x)
  BY <1>3, QuarantineGrows
<1>4. ASSUME NEW b \in displaced[d], t \in Rows(b)
      PROVE  \E x \in outbox'[d] \cup quarantine'[e] \cup displaced'[d] : t \in Rows(x)
  BY <1>4, DisplacedStep
<1>5. QED
  BY <1>1, <1>2, <1>3, <1>4 DEF Accounted, Rows

(***************************************************************************)
(* Safe is kept.                                                           *)
(***************************************************************************)

\* The inductive invariant holds initially.
LEMMA SafeInit == Init => Safe
BY DEF Init, Safe, Stamping, Stamped, Held, Idle

\* When a run is about to stamp rows, their bundle is in the outbox.
LEMMA StampingStep ==
    ASSUME TwoDevices, Structure, Safe, [Next]_vars
    PROVE  Stamping'
<1> SUFFICES ASSUME NEW r \in Runs, NEW e \in Devices,
                    run'[r].pc = "stamp", Dev[r] # e, Dev[r] \in Trust[e],
                    NEW t \in Rows(run'[r].bundle)
             PROVE  Accounted(Dev[r], e, t)'
  BY DEF Stamping, Rows
<1>1. Dev[r] \in Devices /\ run \in [Runs -> Run] /\ run[r] \in Run /\ t \in TxIds
  BY RunFacts DEF Structure, Typed, Rows
<1>2. CASE run[r].pc = "stamp" /\ run'[r].bundle = run[r].bundle
  <2>1. Accounted(Dev[r], e, t)
    BY <1>2 DEF Safe, Stamping
  <2>2. QED
    BY <1>1, <2>1, AccountedStep
<1>3. CASE Put(r)
  <2>1. run'[r].bundle = run[r].bundle
    BY <1>1, <1>3 DEF Put, Goto, Run
  <2>2. run[r].bundle \in outbox'[Dev[r]]
    <3>1. outbox' = [outbox EXCEPT ![Dev[r]] = @ \cup {run[r].bundle}]
      BY <1>3 DEF Put
    <3>2. QED
      BY <1>1, <3>1 DEF Structure, Typed
  <2>3. QED
    BY <2>1, <2>2 DEF Accounted, Rows
<1>4. CASE run'[r] = run[r]
  BY <1>2, <1>4
<1>5. ASSUME NEW q \in Runs, q # r, Export(q) \/ Import(q) \/ CutShort(q)
      PROVE  run'[r] = run[r]
  BY <1>1, <1>5 DEF Export, Import, CutShort, Extract, Displace, Put, StampRow, SaveCursor, List,
     Apply, Move, Reject, ApplyFails, Quarantine, Skip, Finish, Goto, Forget
<1>6. CASE Export(r)
  <2>1. ASSUME NEW w \in Wall[Dev[r]], Extract(r, w)
        PROVE  run'[r].pc # "stamp"
    BY <1>1, <2>1 DEF Extract, Goto, Run
  <2>2. ASSUME NEW x \in TxIds, StampRow(r, x)
        PROVE  run[r].pc = "stamp" /\ run'[r].bundle = run[r].bundle
    BY <1>1, <2>2 DEF StampRow, Run
  <2>3. ASSUME SaveCursor(r)
        PROVE  run'[r].pc # "stamp"
    BY <1>1, <2>3 DEF SaveCursor, Forget, Run
  <2>4. CASE \E w \in Wall[Dev[r]] : Extract(r, w)
    BY <2>1, <2>4
  <2>5. CASE \E x \in TxIds : StampRow(r, x)
    BY <1>2, <2>2, <2>5
  <2>6. CASE Displace(r)
    BY <1>1, <2>6 DEF Displace, Goto, Run
  <2>7. QED
    BY <1>3, <1>6, <2>3, <2>4, <2>5, <2>6 DEF Export
<1>7. CASE Import(r)
  <2>1. ASSUME NEW b \in run[r].todo, NEW w \in Wall[Dev[r]], Apply(r, b, w)
        PROVE  run'[r].pc # "stamp"
    BY <1>1, <2>1 DEF Apply, Applied, Run
  <2>2. ASSUME NEW b \in run[r].todo, NEW w \in Wall[Dev[r]], Reject(r, b, w) \/ ApplyFails(r, b, w)
        PROVE  run'[r].pc # "stamp"
    BY <1>1, <2>2 DEF Reject, ApplyFails, Quarantine, Run
  <2>3. ASSUME NEW b \in run[r].todo, Skip(r, b)
        PROVE  run'[r].pc # "stamp"
    BY <1>1, <2>3 DEF Skip, Run
  <2>4. ASSUME List(r)
        PROVE  run'[r].pc # "stamp"
    BY <1>1, <2>4 DEF List, Run
  <2>5. ASSUME Move(r)
        PROVE  run'[r].pc # "stamp"
    BY <1>1, <2>5 DEF Move, Forget, Run
  <2>6. ASSUME Finish(r)
        PROVE  run'[r].pc # "stamp"
    BY <1>1, <2>6 DEF Finish, Idle
  <2>7. QED
    BY <1>7, <2>1, <2>2, <2>3, <2>4, <2>5, <2>6 DEF Import
<1>8. CASE CutShort(r)
  BY <1>1, <1>8 DEF CutShort, Idle
<1>9. CASE UNCHANGED run
  BY <1>4, <1>9
<1>10. QED
  BY <1>4, <1>5, <1>6, <1>7, <1>8, <1>9 DEF Next, vars, Commit

\* How the clock of a LOCAL row changes.
LEMMA ClockStep ==
    ASSUME Structure, [Next]_vars, NEW d \in Devices, NEW t \in local[d],
           hlc'[d][t] # hlc[d][t]
    PROVE  \E r \in Runs : Dev[r] = d /\ StampRow(r, t)
<1>1. CASE UNCHANGED hlc
  BY <1>1
<1>2. ASSUME NEW r \in Runs, NEW x \in TxIds, StampRow(r, x)
      PROVE  Dev[r] = d /\ x = t
  BY <1>2, RunFacts DEF StampRow, Structure, Typed
<1>3. ASSUME NEW r \in Runs, NEW b \in run[r].todo, NEW w \in Wall[Dev[r]], Apply(r, b, w)
      PROVE  FALSE
  <2>1. b.from \in Devices /\ b.from # Dev[r] /\ Sent(b) /\ Dev[r] \in Devices
    BY TodoFacts, RunFacts
  <2>2. Dev[r] = d => t \notin Rows(b)
    BY <2>1 DEF Structure, Owned, Sent
  <2> DEFINE won == {x \in Rows(b) : x \notin local[Dev[r]] \cup peer[Dev[r]]
                                        \/ Before(hlc[Dev[r]][x], b.entries[x])}
             new == [x \in TxIds |-> IF x \in won THEN b.entries[x] ELSE hlc[Dev[r]][x]]
  <2>3. hlc' = [hlc EXCEPT ![Dev[r]] = new]
    BY <1>3 DEF Apply
  <2>4. Dev[r] = d => new[t] = hlc[d][t]
    BY <2>2 DEF Structure, Typed
  <2> HIDE DEF new
  <2>5. QED
    BY <2>1, <2>3, <2>4 DEF Structure, Typed
<1>4. ASSUME NEW r \in Runs, Export(r)
      PROVE  UNCHANGED hlc \/ \E x \in TxIds : StampRow(r, x)
  BY <1>4 DEF Export, Extract, Displace, Put, SaveCursor
<1>5. ASSUME NEW r \in Runs, Import(r) \/ CutShort(r)
      PROVE  UNCHANGED hlc \/ \E b \in run[r].todo, w \in Wall[Dev[r]] : Apply(r, b, w)
  BY <1>5 DEF Import, CutShort, List, Move, Reject, ApplyFails, Quarantine, Skip, Finish
<1>6. QED
  BY <1>1, <1>2, <1>3, <1>4, <1>5 DEF Next, vars, Commit

\* LOCAL entries stay, and a new one has no clock yet.
LEMMA LocalGrows ==
    ASSUME Structure, Held, [Next]_vars, NEW d \in Devices, NEW t \in local'[d], t \notin local[d]
    PROVE  hlc'[d][t] = NoHLC
<1>1. CASE UNCHANGED local
  BY <1>1
<1>2. ASSUME NEW e \in Devices, NEW x \in TxIds, Commit(e, x)
      PROVE  hlc'[d][t] = NoHLC
  <2>1. x = t /\ \A g \in Devices : t \notin local[g]
    BY <1>2 DEF Commit, Structure, Typed
  <2>2. t \notin peer[d]
    BY <2>1 DEF Structure, Copies
  <2>3. QED
    BY <1>2, <2>1, <2>2 DEF Commit, Held
<1>3. ASSUME NEW r \in Runs, Export(r) \/ Import(r) \/ CutShort(r)
      PROVE  UNCHANGED local
  BY <1>3 DEF Export, Import, CutShort, Extract, Displace, Put, StampRow, SaveCursor, List, Apply,
     Move, Reject, ApplyFails, Quarantine, Skip, Finish
<1>4. CASE UNCHANGED vars
  BY <1>1, <1>4 DEF vars
<1>5. QED
  BY <1>1, <1>2, <1>3, <1>4 DEF Next

\* A step keeps that stamped rows are accounted for, between two devices.
LEMMA StampedStep ==
    ASSUME TwoDevices, Structure, Safe, [Next]_vars
    PROVE  Stamped'
<1> SUFFICES ASSUME NEW d \in Devices, NEW e \in Devices, d # e, d \in Trust[e],
                    NEW t \in local'[d], hlc'[d][t] # NoHLC
             PROVE  Accounted(d, e, t)'
  BY DEF Stamped
<1>1. t \in local[d] /\ t \in TxIds
  BY LocalGrows DEF Safe, Structure, Typed
<1>2. CASE hlc[d][t] # NoHLC
  BY <1>1, <1>2, AccountedStep DEF Safe, Stamped
<1>3. CASE hlc[d][t] = NoHLC
  <2>1. PICK r \in Runs : Dev[r] = d /\ StampRow(r, t)
    BY <1>1, <1>3, ClockStep
  <2>2. run[r].pc = "stamp" /\ t \in Rows(run[r].bundle)
    BY <2>1, RunFacts DEF StampRow, Carried
  <2>3. Accounted(d, e, t)
    BY <2>1, <2>2 DEF Safe, Stamping
  <2>4. QED
    BY <1>1, <2>3, AccountedStep
<1>4. QED
  BY <1>2, <1>3

\* A step keeps that a device has clocks only for rows it holds.
LEMMA HeldStep ==
    ASSUME Structure, Safe, [Next]_vars
    PROVE  Held'
<1> SUFFICES ASSUME NEW d \in Devices, NEW t \in TxIds, hlc'[d][t] # NoHLC
             PROVE  t \in local'[d] \cup peer'[d]
  BY DEF Held
<1>1. local[d] \subseteq local'[d]
  <2>1. ASSUME NEW r \in Runs, Export(r) \/ Import(r) \/ CutShort(r)
        PROVE  UNCHANGED local
    BY <2>1 DEF Export, Import, CutShort, Extract, Displace, Put, StampRow, SaveCursor, List, Apply,
       Move, Reject, ApplyFails, Quarantine, Skip, Finish
  <2>2. ASSUME NEW e \in Devices, NEW x \in TxIds, Commit(e, x)
        PROVE  local[d] \subseteq local'[d]
    BY <2>2 DEF Commit, Structure, Typed
  <2>3. QED
    BY <2>1, <2>2 DEF Next, vars
<1>2. CASE hlc[d][t] # NoHLC
  BY <1>1, <1>2, PeerGrows DEF Safe, Held
<1>3. ASSUME hlc[d][t] = NoHLC, NEW r \in Runs, NEW x \in TxIds, StampRow(r, x)
      PROVE  t \in local[d]
  <2>1. Dev[r] = d /\ x = t
    BY <1>3, RunFacts DEF StampRow, Structure, Typed
  <2>2. run[r].bundle.from = d /\ t \in Rows(run[r].bundle) /\ Sent(run[r].bundle)
    BY <1>3, <2>1, RunFacts DEF StampRow, Carried
  <2>3. QED
    BY <2>2 DEF Sent
<1>4. ASSUME hlc[d][t] = NoHLC, NEW r \in Runs, NEW b \in run[r].todo, NEW w \in Wall[Dev[r]],
             Apply(r, b, w)
      PROVE  t \in local'[d] \cup peer'[d]
  <2> DEFINE won == {x \in Rows(b) : x \notin local[Dev[r]] \cup peer[Dev[r]]
                                        \/ Before(hlc[Dev[r]][x], b.entries[x])}
             new == [x \in TxIds |-> IF x \in won THEN b.entries[x] ELSE hlc[Dev[r]][x]]
  <2>1. hlc' = [hlc EXCEPT ![Dev[r]] = new]
    BY <1>4 DEF Apply
  <2>2. new[t] # hlc[Dev[r]][t] => t \in Rows(b)
    OBVIOUS
  <2> HIDE DEF new
  <2>3. Dev[r] = d /\ t \in Rows(b)
    BY <1>4, <2>1, <2>2, RunFacts DEF Structure, Typed
  <2>4. /\ peer' = [peer EXCEPT ![Dev[r]] = @ \cup (Rows(b) \ local[Dev[r]])]
        /\ UNCHANGED local
    BY <1>4 DEF Apply
  <2>5. QED
    BY <2>3, <2>4 DEF Structure, Typed
<1>5. CASE UNCHANGED hlc
  BY <1>2, <1>5
<1>6. ASSUME NEW r \in Runs, Export(r)
      PROVE  UNCHANGED hlc \/ \E x \in TxIds : StampRow(r, x)
  BY <1>6 DEF Export, Extract, Displace, Put, SaveCursor
<1>7. ASSUME NEW r \in Runs, Import(r) \/ CutShort(r)
      PROVE  UNCHANGED hlc \/ \E b \in run[r].todo, w \in Wall[Dev[r]] : Apply(r, b, w)
  BY <1>7 DEF Import, CutShort, List, Move, Reject, ApplyFails, Quarantine, Skip, Finish
<1>8. QED
  BY <1>1, <1>2, <1>3, <1>4, <1>5, <1>6, <1>7 DEF Next, vars, Commit

\* The invariant, for a folder shared by two devices.
LEMMA SafeStep ==
    ASSUME TwoDevices
    PROVE  Structure /\ Safe /\ [Next]_vars => (Structure /\ Safe)'
<1> SUFFICES ASSUME Structure, Safe, [Next]_vars
             PROVE  (Structure /\ Safe)'
  OBVIOUS
<1>1. Structure'
  BY StructureStep
<1>2. Safe'
  BY StampingStep, StampedStep, HeldStep DEF Safe
<1>3. QED
  BY <1>1, <1>2

\* Between two devices, whatever their clocks: an entry that its device will
\* not extract again is with the other device or in a bundle that a step has put
\* somewhere, the outbox or the quarantine of the other device, or that a put of
\* the same name has taken out of the outbox (commit_extract_export stamps what
\* put_outgoing_bytes has put in place, move_to_processed follows apply, and
\* whatever is refused or fails goes to move_to_quarantine).
THEOREM NothingIsLost ==
    ASSUME TwoDevices
    PROVE  Spec => []NothingLost
<1>1. Init => Structure /\ Safe
  BY StructureInit, SafeInit
<1>2. Structure /\ Safe /\ [Next]_vars => (Structure /\ Safe)'
  BY SafeStep
<1>3. Structure /\ Safe => NothingLost
  BY DEF Safe, Stamped, Accounted, NothingLost, Eligible
<1>4. QED
  BY <1>1, <1>2, <1>3, PTL DEF Spec

=============================================================================

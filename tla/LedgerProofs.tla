---------------------------- MODULE LedgerProofs ----------------------------
(***************************************************************************)
(* Proofs about the transaction ledger, for every set of rows, processes   *)
(* and entities.                                                           *)
(***************************************************************************)
EXTENDS LedgerProps, FiniteSetTheorems, FunctionTheorems, SequenceTheorems, TLAPS

(***************************************************************************)
(* Facts about one appended entry.                                         *)
(***************************************************************************)

\* A prefix agrees with the whole position by position.
LEMMA PrefixPointwise ==
    ASSUME NEW S, NEW s \in Seq(S), NEW u \in Seq(S)
    PROVE  IsPrefix(s, u) <=>
             Len(s) <= Len(u) /\ \A i \in 1..Len(s) : s[i] = u[i]
<1>1. CASE Len(s) <= Len(u)
  <2>1. /\ SubSeq(u, 1, Len(s)) \in Seq(S)
        /\ Len(SubSeq(u, 1, Len(s))) = Len(s)
        /\ \A i \in 1..Len(s) : SubSeq(u, 1, Len(s))[i] = u[i]
    BY <1>1
  <2>2. SubSeq(s, 1, Len(s)) = s
    OBVIOUS
  <2>3. ASSUME \A i \in 1..Len(s) : s[i] = u[i]
        PROVE  s = SubSeq(u, 1, Len(s))
    BY <2>1, <2>3, SeqEqual
  <2>4. QED
    BY <1>1, <2>1, <2>2, <2>3 DEF IsPrefix
<1>2. CASE ~(Len(s) <= Len(u))
  BY <1>2 DEF IsPrefix
<1>3. QED
  BY <1>1, <1>2

\* Appending keeps a prefix a prefix.
LEMMA PrefixAppend ==
    ASSUME NEW S, NEW s \in Seq(S), NEW u \in Seq(S), NEW e \in S,
           IsPrefix(s, u)
    PROVE  IsPrefix(s, Append(u, e))
<1>1. Append(u, e) \in Seq(S) /\ Len(Append(u, e)) = Len(u) + 1
  OBVIOUS
<1>2. Len(s) <= Len(u) /\ \A i \in 1..Len(s) : s[i] = u[i]
  BY PrefixPointwise
<1>3. \A i \in 1..Len(s) : s[i] = Append(u, e)[i]
  BY <1>2
<1>4. Len(s) \in Nat /\ Len(u) \in Nat
  OBVIOUS
<1>5. Len(s) <= Len(Append(u, e))
  BY <1>1, <1>2, <1>4
<1>6. QED
  BY ONLY <1>1, <1>3, <1>5, PrefixPointwise

\* An entry built from the head it extends keeps the chain linear.
LEMMA LinkedAppend ==
    ASSUME NEW rows \in Seq(Entry), NEW h \in HeadRow \cup {NoHead}, NEW b \in Bodies,
           Linked(rows, h)
    PROVE  LET e == [body |-> b, prev |-> PrevHash(h)]
           IN  /\ e \in Entry
               /\ NextHead(h, e) \in HeadRow
               /\ Linked(Append(rows, e), NextHead(h, e))
<1> DEFINE e == [body |-> b, prev |-> PrevHash(h)]
           new == Append(rows, e)
<1>1. PrevHash(h) \in Hashes
  BY DEF PrevHash, HeadRow, Hashes, NoHash
<1>2. e \in Entry
  BY <1>1 DEF Entry
<1>3. HashOf(e) \in Hashes
  BY <1>1 DEF HashOf, Hashes
<1>4. CASE rows = <<>>
  <2>1. h = NoHead
    BY <1>4 DEF Linked
  <2>2. NextHead(h, e) = [latest |-> HashOf(e), genesis |-> b, length |-> 1]
    BY <2>1 DEF NextHead
  <2>3. new = <<e>> /\ Len(new) = 1 /\ new[1] = e /\ DOMAIN new = {1}
    BY <1>4
  <2>4. NextHead(h, e) \in HeadRow /\ NextHead(h, e) # NoHead
    BY <1>3, <2>2, SentinelAssumption DEF HeadRow
  <2>5. Linked(new, NextHead(h, e))
    BY <2>1, <2>2, <2>3, <2>4 DEF Linked, PrevHash
  <2>6. QED
    BY <1>2, <2>4, <2>5
<1>5. CASE rows # <<>>
  <2>1. /\ h # NoHead
        /\ h \in HeadRow
        /\ h.latest = HashOf(rows[Len(rows)])
        /\ h.genesis = rows[1].body
        /\ h.length = Len(rows)
        /\ h.length \in Nat /\ h.genesis \in Bodies
    BY <1>5 DEF Linked, HeadRow
  <2>2. NextHead(h, e) = [latest |-> HashOf(e), genesis |-> h.genesis, length |-> h.length + 1]
    BY <2>1 DEF NextHead
  <2>3. NextHead(h, e) \in HeadRow /\ NextHead(h, e) # NoHead
    BY <1>3, <2>1, <2>2, SentinelAssumption DEF HeadRow
  <2>4. /\ Len(rows) \in Nat \ {0}
        /\ Len(new) = Len(rows) + 1
        /\ DOMAIN new = 1..(Len(rows) + 1)
        /\ \A i \in 1..Len(rows) : new[i] = rows[i]
        /\ new[Len(rows) + 1] = e
    BY <1>2, <1>5
  <2>5. \A i \in DOMAIN new : new[i].prev = IF i = 1 THEN NoHash ELSE HashOf(new[i - 1])
    <3>1. TAKE i \in DOMAIN new
    <3>2. CASE i \in 1..Len(rows)
      BY <2>4, <3>2 DEF Linked
    <3>3. CASE i = Len(rows) + 1
      <4>1. new[i].prev = h.latest
        BY <2>1, <2>4, <3>3 DEF PrevHash
      <4>2. new[i - 1] = rows[Len(rows)] /\ i # 1
        BY <2>4, <3>3
      <4>3. QED
        BY <2>1, <4>1, <4>2
    <3>4. QED
      BY <2>4, <3>1, <3>2, <3>3
  <2>6. new # <<>> /\ new[Len(new)] = e /\ new[1] = rows[1]
    BY <2>4
  <2>7. Linked(new, NextHead(h, e))
    BY <2>1, <2>2, <2>3, <2>4, <2>5, <2>6 DEF Linked
  <2>8. QED
    BY <1>2, <2>3, <2>7
<1>6. QED
  BY <1>4, <1>5

\* Recording one of the rows that were still to be recorded.
LEMMA RecordedAppend ==
    ASSUME NEW rows \in Seq(Entry), NEW st \in [TxIds -> Statuses],
           NEW todo \in SUBSET TxIds, NEW e \in Entry,
           Recorded(rows, st, todo),
           e.body.tx \in todo,
           st[e.body.tx] = Outcome(e.body.kind)
    PROVE  Recorded(Append(rows, e), st, todo \ {e.body.tx})
<1> DEFINE new == Append(rows, e)
           t0  == e.body.tx
<1>1. /\ Len(rows) \in Nat
      /\ DOMAIN rows = 1..Len(rows)
      /\ DOMAIN new = 1..(Len(rows) + 1)
      /\ \A i \in 1..Len(rows) : new[i] = rows[i]
      /\ new[Len(rows) + 1] = e
  OBVIOUS
<1>2. \A i \in DOMAIN rows : rows[i].body.tx \notin todo /\ rows[i].body.tx # t0
  BY DEF Recorded
<1>3. \A i \in DOMAIN new :
         new[i].body.tx \notin todo \ {t0} /\ st[new[i].body.tx] = Outcome(new[i].body.kind)
  BY <1>1, <1>2 DEF Recorded
<1>4. \A i, j \in DOMAIN new : new[i].body.tx = new[j].body.tx => i = j
  <2>1. TAKE i, j \in DOMAIN new
  <2>2. CASE i \in DOMAIN rows /\ j \in DOMAIN rows
    BY <1>1, <2>2 DEF Recorded
  <2>3. CASE i = Len(rows) + 1 /\ j \in DOMAIN rows
    BY <1>1, <1>2, <2>3
  <2>4. CASE i \in DOMAIN rows /\ j = Len(rows) + 1
    BY <1>1, <1>2, <2>4
  <2>5. CASE i = Len(rows) + 1 /\ j = Len(rows) + 1
    BY <2>5
  <2>6. QED
    BY <1>1, <2>1, <2>2, <2>3, <2>4, <2>5
<1>5. \A t \in TxIds \ (todo \ {t0}) : st[t] \in Resolved =>
         \E i \in DOMAIN new : new[i].body.tx = t
  <2>1. TAKE t \in TxIds \ (todo \ {t0})
  <2>2. CASE t = t0
    BY <1>1, <2>2
  <2>3. CASE t # t0
    <3>1. t \in TxIds \ todo
      BY <2>1, <2>3
    <3>2. st[t] \in Resolved => \E i \in DOMAIN rows : rows[i].body.tx = t
      BY <3>1 DEF Recorded
    <3>3. QED
      BY <1>1, <3>2
  <2>4. QED
    BY <2>2, <2>3
<1>6. QED
  BY <1>3, <1>4, <1>5 DEF Recorded

(***************************************************************************)
(* The inductive invariant holds initially.                                *)
(***************************************************************************)
LEMMA InitInv == Init => IInv
<1> SUFFICES ASSUME Init PROVE IInv
  OBVIOUS
<1>1. entries = <<>> /\ entries \in Seq(Entry) /\ DOMAIN entries = {}
  BY DEF Init
<1>2. TypeOK
  BY <1>1 DEF Init, TypeOK, TableOK, LocalOK, Statuses
<1>3. ChainIsLinear
  BY <1>1 DEF Init, ChainIsLinear, Linked
<1>4. OutcomeRecordedOnce
  BY <1>1 DEF Init, OutcomeRecordedOnce, Recorded, Resolved
<1>5. OneOpenPerEntity /\ ReconcileNeverOverstates /\ TxnConsistent /\ SeenIsPast
  BY <1>1 DEF Init, OneOpenPerEntity, ReconcileNeverOverstates, Backed, TxnConsistent, SeenIsPast
<1>6. QED
  BY <1>2, <1>3, <1>4, <1>5 DEF IInv

(***************************************************************************)
(* Facts about the helpers the actions are built from.                     *)
(***************************************************************************)

\* A kind leads from an open status to a resolved one.
LEMMA KindFacts ==
    /\ \A o : KindOf(o) \in Kinds
    /\ \A k \in Kinds : /\ Outcome(k) \in Resolved
                        /\ Source(k) \in {"PENDING", "UNAUDITED"}
    /\ Resolved \subseteq Statuses
  BY DEF KindOf, Kinds, Outcome, Source, Resolved, Statuses

\* The label of a bulk adoption is a name.
LEMMA LabelIsName ==
    ASSUME NEW S \in SUBSET TxIds, S # {},
           \A t \in S : entity[t] \in Entities
    PROVE  AdoptLabel(S) \in Names
<1>1. IsFiniteSet(S) /\ Cardinality(S) \in Nat /\ Cardinality(S) <= Cardinality(TxIds)
  BY TxIdsAssumption, FS_Subset, FS_CardinalityType
<1>2. Cardinality(S) # 0
  BY <1>1, FS_EmptySet
<1>3. Cardinality(TxIds) \in Nat
  BY TxIdsAssumption, FS_CardinalityType
<1>4. Cardinality(S) \in 1..Cardinality(TxIds)
  BY <1>1, <1>2, <1>3
<1>5. (CHOOSE t \in S : TRUE) \in S
  OBVIOUS
<1>6. QED
  BY <1>4, <1>5 DEF AdoptLabel, Names, Labels

\* A returning process is idle and has forgotten what it worked on; it does
\* not keep the write transaction.
LEMMA ReturnLocal ==
    ASSUME TypeOK, NEW p \in Procs, Return(p),
           \/ pc[p] = "append" /\ txn' = NoTxn
           \/ pc[p] # "append" /\ txn' = txn
    PROVE  /\ LocalOK'
           /\ \A q \in Procs \ {p} : seen'[q] = seen[q]
           /\ \A t \in TxIds : seen'[p][t] = 0
<1>1. /\ pc' = [pc EXCEPT ![p] = "idle"]
      /\ op' = [op EXCEPT ![p] = "none"]
      /\ name' = [name EXCEPT ![p] = NoName]
      /\ sel' = [sel EXCEPT ![p] = {}]
      /\ seen' = [seen EXCEPT ![p] = [t \in TxIds |-> 0]]
      /\ adopted' = [adopted EXCEPT ![p] = {}]
  BY DEF Return, Goto
<1>2. /\ op' \in [Procs -> {"none", "start", "atomic", "undo", "commit", "rollback",
                             "reconcile", "adopt", "watch"}]
      /\ name' \in [Procs -> Names \cup {NoName}]
      /\ sel' \in [Procs -> SUBSET TxIds]
      /\ adopted' \in [Procs -> SUBSET TxIds]
  BY <1>1 DEF TypeOK, LocalOK
<1>3. /\ seen' \in [Procs -> [TxIds -> Nat]]
      /\ \A q \in Procs \ {p} : seen'[q] = seen[q]
      /\ \A t \in TxIds : seen'[p][t] = 0
  BY <1>1 DEF TypeOK, LocalOK
<1>4. pc' \in [Procs -> {"idle", "insert", "read", "persist", "append",
                         "promote", "upsert", "report"}]
  BY <1>1 DEF TypeOK, LocalOK
<1>5. \A q \in Procs :
        /\ pc'[q] = "insert" => name'[q] \in Names
        /\ pc'[q] = "upsert" => name'[q] \in Entities
        /\ pc'[q] = "promote" => sel'[q] # {}
  BY <1>1 DEF TypeOK, LocalOK
<1>6. \A q \in Procs : pc'[q] = "append" <=> txn' # NoTxn /\ txn'.owner = q
  BY <1>1 DEF TypeOK, LocalOK
<1>7. QED
  BY <1>2, <1>3, <1>4, <1>5, <1>6 DEF LocalOK

\* A process goes on to read a row of its own; it does not keep the write
\* transaction.
LEMMA ReadNextLocal ==
    ASSUME TypeOK, NEW p \in Procs, Goto(p, "read"),
           sel' \in [Procs -> SUBSET TxIds],
           \A q \in Procs \ {p} : sel'[q] = sel[q],
           op' \in [Procs -> {"none", "start", "atomic", "undo", "commit", "rollback",
                              "reconcile", "adopt", "watch"}],
           UNCHANGED <<name, seen, adopted>>,
           \/ pc[p] = "append" /\ txn' = NoTxn
           \/ pc[p] # "append" /\ txn' = txn
    PROVE  LocalOK'
<1>1. pc' = [pc EXCEPT ![p] = "read"]
  BY DEF Goto
<1>2. pc' \in [Procs -> {"idle", "insert", "read", "persist", "append",
                         "promote", "upsert", "report"}]
  BY <1>1 DEF TypeOK, LocalOK
<1>3. \A q \in Procs :
        /\ pc'[q] = "insert" => name'[q] \in Names
        /\ pc'[q] = "upsert" => name'[q] \in Entities
        /\ pc'[q] = "promote" => sel'[q] # {}
  BY <1>1 DEF TypeOK, LocalOK
<1>4. \A q \in Procs : pc'[q] = "append" <=> txn' # NoTxn /\ txn'.owner = q
  BY <1>1 DEF TypeOK, LocalOK
<1>5. /\ name' \in [Procs -> Names \cup {NoName}]
      /\ seen' \in [Procs -> [TxIds -> Nat]]
      /\ adopted' \in [Procs -> SUBSET TxIds]
  BY DEF TypeOK, LocalOK
<1>6. QED
  BY <1>2, <1>3, <1>4, <1>5 DEF LocalOK

\* A row is inserted: nothing else in the table changes.
LEMMA InsertFacts ==
    ASSUME TypeOK, NEW e \in Names, NEW s \in {"PENDING", "UNAUDITED"}, NEW t \in TxIds,
           s = "UNAUDITED" => e \in Entities,
           InsertRow(e, s, t)
    PROVE  /\ UNCHANGED <<entries, head, txn>> => TableOK'
           /\ status[t] = "NONE" /\ status'[t] = s /\ entity'[t] = e
           /\ \A u \in TxIds \ {t} : /\ status'[u] = status[u]
                                      /\ entity'[u] = entity[u]
                                      /\ drift'[u] = drift[u]
           /\ \A u \in TxIds : ~(status[u] = s /\ entity[u] = e)
<1> USE DEF InsertRow, TypeOK, TableOK, Statuses
<1>1. /\ status' \in [TxIds -> Statuses]
      /\ entity' \in [TxIds -> Names \cup {NoName}]
      /\ drift' \in [TxIds -> Nat]
  OBVIOUS
<1>2. \A u \in TxIds :
        /\ status'[u] # "NONE" => entity'[u] \in Names
        /\ status'[u] # "NONE" <=> drift'[u] >= 1
        /\ status'[u] = "UNAUDITED" => entity'[u] \in Entities
  OBVIOUS
<1>3. UNCHANGED <<entries, head, txn>> => TableOK'
  BY <1>1, <1>2
<1>4. \A u \in TxIds : ~(status[u] = s /\ entity[u] = e)
  BY DEF Holds, Rows
<1>5. /\ status[t] = "NONE" /\ status'[t] = s /\ entity'[t] = e
      /\ \A u \in TxIds \ {t} : /\ status'[u] = status[u]
                                 /\ entity'[u] = entity[u]
                                 /\ drift'[u] = drift[u]
  OBVIOUS
<1>6. QED
  BY <1>3, <1>4, <1>5

(***************************************************************************)
(* Every step keeps the types.                                             *)
(***************************************************************************)
LEMMA TypeStep == IInv /\ [Next]_vars => TypeOK'
<1> SUFFICES ASSUME IInv, [Next]_vars PROVE TypeOK'
  OBVIOUS
<1>0. TypeOK
  BY DEF IInv
<1>1. ASSUME NEW p \in Procs, NEW e \in Entities, NEW o \in {"start", "atomic"},
             StartCheck(p, e, o)
      PROVE  TypeOK'
  BY <1>0, <1>1 DEF StartCheck, Begin, Idle, Goto, TypeOK, TableOK, LocalOK, db, table, Names
<1>2. ASSUME NEW p \in Procs, NEW t \in TxIds, CommitRead(p, t)
      PROVE  TypeOK'
  BY <1>0, <1>2 DEF CommitRead, Begin, Idle, Goto, TypeOK, TableOK, LocalOK, db, table
<1>3. ASSUME NEW p \in Procs, NEW t \in TxIds, RollbackRead(p, t)
      PROVE  TypeOK'
  BY <1>0, <1>3 DEF RollbackRead, Begin, Idle, Goto, TypeOK, TableOK, LocalOK, db, table
<1>4. ASSUME NEW p \in Procs, NEW S \in SUBSET TxIds, ReconcileSelect(p, S)
      PROVE  TypeOK'
  BY <1>0, <1>4 DEF ReconcileSelect, Begin, Idle, Goto, TypeOK, TableOK, LocalOK, db, table
<1>5. ASSUME NEW p \in Procs, NEW S \in SUBSET TxIds, AdoptSelect(p, S)
      PROVE  TypeOK'
  BY <1>0, <1>5 DEF AdoptSelect, Begin, Idle, Goto, TypeOK, TableOK, LocalOK, db, table
<1>6. ASSUME NEW p \in Procs, NEW e \in Entities, WatchCheck(p, e)
      PROVE  TypeOK'
  BY <1>0, <1>6 DEF WatchCheck, Begin, Idle, Goto, TypeOK, TableOK, LocalOK, db, table, Names
<1>7. ASSUME NEW p \in Procs, StartInsert(p)
      PROVE  TypeOK'
  <2>1. pc[p] = "insert" /\ txn' = txn
    BY <1>7 DEF StartInsert
  <2>2. CASE Holds(name[p], "PENDING") /\ Return(p) /\ UNCHANGED table
    <3>1. LocalOK'
      BY <1>0, <2>1, <2>2, ReturnLocal
    <3>2. TableOK'
      BY <1>0, <1>7, <2>2 DEF StartInsert, TypeOK, TableOK, table
    <3>3. QED
      BY <3>1, <3>2 DEF TypeOK
  <2>3. ASSUME NEW t \in TxIds, InsertRow(name[p], "PENDING", t),
               IF op[p] = "start"
               THEN Return(p)
               ELSE /\ sel' = [sel EXCEPT ![p] = {t}]
                    /\ Goto(p, "read")
                    /\ UNCHANGED <<op, name, seen, adopted>>
        PROVE  TypeOK'
    <3>1. name[p] \in Names
      BY <1>0, <2>1 DEF TypeOK, LocalOK
    <3>2. TableOK'
      BY <1>0, <1>7, <2>3, <3>1, InsertFacts DEF StartInsert
    <3>3. CASE op[p] = "start"
      BY <1>0, <2>1, <2>3, <3>2, <3>3, ReturnLocal DEF TypeOK
    <3>4. CASE op[p] # "start"
      <4>1. LocalOK'
        <5>1. Goto(p, "read") /\ sel' = [sel EXCEPT ![p] = {t}] /\ UNCHANGED <<op, name, seen, adopted>>
          BY <2>3, <3>4
        <5>2. /\ sel' \in [Procs -> SUBSET TxIds]
              /\ \A q \in Procs \ {p} : sel'[q] = sel[q]
              /\ op' \in [Procs -> {"none", "start", "atomic", "undo", "commit", "rollback",
                                    "reconcile", "adopt", "watch"}]
          BY <1>0, <5>1 DEF TypeOK, LocalOK
        <5>3. QED
          BY <1>0, <2>1, <5>1, <5>2, ReadNextLocal
      <4>2. QED
        BY <3>2, <4>1 DEF TypeOK
    <3>5. QED
      BY <3>3, <3>4
  <2>4. QED
    BY <1>7, <2>2, <2>3 DEF StartInsert
<1>8. ASSUME NEW p \in Procs, ReadOwn(p)
      PROVE  TypeOK'
  BY <1>0, <1>8 DEF ReadOwn, Goto, TypeOK, TableOK, LocalOK, db, table, local
<1>9. ASSUME NEW p \in Procs, BeginPersist(p)
      PROVE  TypeOK'
  <2>1. txn' \in Image
    BY <1>0, <1>9, KindFacts DEF BeginPersist, TypeOK, TableOK, LocalOK, Image
  <2>2. txn' # NoTxn /\ txn'.owner = p
    BY <2>1, <1>9, SentinelAssumption DEF BeginPersist
  <2>3. QED
    BY <1>0, <1>9, <2>1, <2>2 DEF BeginPersist, TypeOK, TableOK, LocalOK, Goto, db, table, local
<1>10. ASSUME NEW p \in Procs, NEW t \in TxIds, AppendEntry(p, t)
       PROVE  TypeOK'
  <2>1. txn \in Image /\ txn.owner = p
    BY <1>0, <1>10 DEF AppendEntry, TypeOK, TableOK, LocalOK
  <2> DEFINE b == [tx |-> t, kind |-> KindOf(op[p]), drift |-> seen[p][t]]
             e == [body |-> b, prev |-> PrevHash(txn.head)]
  <2>2. b \in Bodies
    BY <1>0, KindFacts DEF TypeOK, TableOK, LocalOK, Bodies
  <2>3. Linked(txn.entries, txn.head) /\ txn.entries \in Seq(Entry) /\ txn.head \in HeadRow \cup {NoHead}
    BY <1>0, <1>10, <2>1, SentinelAssumption DEF IInv, TxnConsistent, Image
  <2>4. e \in Entry /\ NextHead(txn.head, e) \in HeadRow
    BY <2>2, <2>3, LinkedAppend
  <2>5. txn' = [txn EXCEPT !.entries = Append(@, e),
                           !.head = NextHead(@, e),
                           !.todo = @ \ {t}]
    BY <1>10 DEF AppendEntry
  <2>6. Append(txn.entries, e) \in Seq(Entry)
    BY <2>3, <2>4
  <2>7. txn' \in Image /\ txn'.owner = p
    BY <2>1, <2>4, <2>5, <2>6 DEF Image
  <2>8. QED
    BY <1>0, <1>10, <2>1, <2>7, SentinelAssumption DEF AppendEntry, TypeOK, TableOK, LocalOK, db, table, local
<1>11. ASSUME NEW p \in Procs, Publish(p)
       PROVE  TypeOK'
  <2>1. txn \in Image /\ txn.owner = p
    BY <1>0, <1>11 DEF Publish, TypeOK, TableOK, LocalOK
  <2>2. \A t \in TxIds : status'[t] = status[t] \/ (status[t] # "NONE" /\ status'[t] \in Resolved)
    BY <1>11, <2>1, KindFacts, SentinelAssumption DEF Publish, IInv, TxnConsistent
  <2>3. \A t \in TxIds :
          /\ status'[t] # "NONE" => entity'[t] \in Names
          /\ status'[t] # "NONE" <=> drift'[t] >= 1
          /\ status'[t] = "UNAUDITED" => entity'[t] \in Entities
    BY <1>0, <1>11, <2>2 DEF Publish, TypeOK, TableOK, LocalOK, Resolved
  <2>4. status' \in [TxIds -> Statuses] /\ entries' \in Seq(Entry) /\ head' \in HeadRow \cup {NoHead}
    BY <1>11, <2>1 DEF Publish, Image
  <2>5. TableOK'
    BY <1>0, <1>11, <2>3, <2>4 DEF Publish, TypeOK, TableOK
  <2>6. CASE op[p] = "adopt"
    <3>1. LocalOK'
      BY <1>0, <1>11, <2>1, <2>6 DEF Publish, TypeOK, LocalOK, Goto, local
    <3>2. QED
      BY <2>5, <3>1 DEF TypeOK
  <2>7. CASE op[p] # "adopt"
    BY <1>0, <1>11, <2>5, <2>7, ReturnLocal DEF Publish, TypeOK, TableOK, LocalOK
  <2>8. QED
    BY <2>6, <2>7
<1>12. ASSUME NEW p \in Procs, AdoptUpdate(p)
       PROVE  TypeOK'
  <2> DEFINE hit == sel[p] \cap Rows("UNAUDITED")
  <2>1. /\ status' = [t \in TxIds |-> IF t \in hit THEN "PENDING" ELSE status[t]]
        /\ UNCHANGED <<entity, drift, entries, head, txn>>
        /\ pc[p] = "promote" /\ txn = NoTxn
    BY <1>12 DEF AdoptUpdate
  <2>2. \A t \in hit : status[t] = "UNAUDITED" /\ entity[t] \in Entities
    BY <1>0 DEF TypeOK, TableOK, LocalOK, Rows
  <2> HIDE DEF hit
  <2>3. TableOK'
    BY <1>0, <2>1, <2>2 DEF TypeOK, TableOK, Statuses
  <2>4. CASE hit = sel[p]
    <3>1. hit # {} /\ hit \in SUBSET TxIds
      BY <1>0, <2>1, <2>4 DEF TypeOK, LocalOK
    <3>2. AdoptLabel(hit) \in Names
      BY <2>2, <3>1, LabelIsName
    <3>3. /\ adopted' = [adopted EXCEPT ![p] = hit]
          /\ name' = [name EXCEPT ![p] = AdoptLabel(hit)]
          /\ pc' = [pc EXCEPT ![p] = "insert"]
          /\ UNCHANGED <<op, sel, seen>>
      BY <1>12, <2>4 DEF AdoptUpdate, Goto, hit
    <3>4. LocalOK'
      BY <1>0, <2>1, <3>1, <3>2, <3>3 DEF TypeOK, LocalOK
    <3>5. QED
      BY <2>3, <3>4 DEF TypeOK
  <2>5. CASE hit # sel[p]
    <3>1. Return(p)
      BY <1>12, <2>5 DEF AdoptUpdate, hit
    <3>2. QED
      BY <1>0, <2>1, <2>3, <3>1, ReturnLocal DEF TypeOK
  <2>6. QED
    BY <2>4, <2>5
<1>13. ASSUME NEW p \in Procs, AdoptReport(p)
       PROVE  TypeOK'
  <2>1. LocalOK'
    BY <1>0, <1>13, ReturnLocal DEF AdoptReport
  <2>2. TableOK'
    BY <1>0, <1>13 DEF AdoptReport, TypeOK, TableOK, db, table
  <2>3. QED
    BY <2>1, <2>2 DEF TypeOK
<1>14. ASSUME NEW p \in Procs, WatchUpsert(p)
       PROVE  TypeOK'
  <2>1. LocalOK'
    BY <1>0, <1>14, ReturnLocal DEF WatchUpsert
  <2>2. ASSUME NEW t \in TxIds, InsertRow(name[p], "UNAUDITED", t)
        PROVE  TableOK'
    <3>1. name[p] \in Entities /\ name[p] \in Names
      BY <1>0, <1>14 DEF WatchUpsert, TypeOK, LocalOK, Names
    <3>2. QED
      BY <1>0, <1>14, <2>2, <3>1, InsertFacts DEF WatchUpsert
  <2>3. ASSUME NEW t \in Rows("UNAUDITED"), drift' = [drift EXCEPT ![t] = @ + 1],
               UNCHANGED <<status, entity>>
        PROVE  TableOK'
    <3>1. t \in TxIds /\ status[t] = "UNAUDITED" /\ drift[t] \in Nat /\ drift[t] >= 1
      BY <1>0 DEF Rows, TypeOK, TableOK
    <3>2. /\ drift' \in [TxIds -> Nat]
          /\ \A u \in TxIds : drift'[u] >= 1 <=> drift[u] >= 1
      BY <1>0, <2>3, <3>1 DEF TypeOK, TableOK
    <3>3. QED
      BY <1>0, <1>14, <2>3, <3>2 DEF WatchUpsert, TypeOK, TableOK
  <2>4. TableOK'
    BY <1>14, <2>2, <2>3 DEF WatchUpsert
  <2>5. QED
    BY <2>1, <2>4 DEF TypeOK
<1>15. ASSUME NEW p \in Procs, Fails(p)
       PROVE  TypeOK'
  <2>1. TableOK'
    BY <1>0, <1>15 DEF Fails, TypeOK, TableOK, db, table
  <2>2. CASE op[p] = "atomic" /\ pc[p] # "insert"
    <3>1. LocalOK'
      <4>1. Goto(p, "read") /\ op' = [op EXCEPT ![p] = "undo"] /\ UNCHANGED <<name, sel, seen, adopted>>
        BY <1>15, <2>2 DEF Fails
      <4>2. /\ sel' \in [Procs -> SUBSET TxIds]
            /\ \A q \in Procs \ {p} : sel'[q] = sel[q]
            /\ op' \in [Procs -> {"none", "start", "atomic", "undo", "commit", "rollback",
                                  "reconcile", "adopt", "watch"}]
        BY <1>0, <4>1 DEF TypeOK, LocalOK
      <4>3. QED
        BY <1>0, <1>15, <4>1, <4>2, ReadNextLocal DEF Fails
    <3>2. QED
      BY <2>1, <3>1 DEF TypeOK
  <2>3. CASE ~(op[p] = "atomic" /\ pc[p] # "insert")
    BY <1>0, <1>15, <2>1, <2>3, ReturnLocal DEF Fails, TypeOK, TableOK, LocalOK
  <2>4. QED
    BY <2>2, <2>3
<1>16. ASSUME NEW p \in Procs, Crash(p)
       PROVE  TypeOK'
  <2>1. LocalOK'
    BY <1>0, <1>16, ReturnLocal DEF Crash
  <2>2. TableOK'
    BY <1>0, <1>16 DEF Crash, TypeOK, TableOK, db, table
  <2>3. QED
    BY <2>1, <2>2 DEF TypeOK
<1>17. CASE UNCHANGED vars
  BY <1>0, <1>17 DEF TypeOK, TableOK, LocalOK, vars, db, table, local
<1>18. QED
  BY <1>1, <1>2, <1>3, <1>4, <1>5, <1>6, <1>7, <1>8, <1>9, <1>10, <1>11, <1>12,
     <1>13, <1>14, <1>15, <1>16, <1>17 DEF Next, Request, Step

(***************************************************************************)
(* What a step may do to the tables and to the uncommitted image.          *)
(***************************************************************************)

\* Nothing: the image stays with its owner or is dropped.
Quiet ==
    /\ UNCHANGED db
    /\ \/ txn' = NoTxn
       \/ /\ txn' = txn
          /\ txn # NoTxn => sel'[txn.owner] = sel[txn.owner] /\ op'[txn.owner] = op[txn.owner]

\* One autocommit statement on rows that are not resolved.
Autocommit ==
    /\ txn = NoTxn
    /\ UNCHANGED <<entries, head, txn>>
    /\ \/ \E t \in TxIds, e \in Names, s \in {"PENDING", "UNAUDITED"} :
             (s = "UNAUDITED" => e \in Entities) /\ InsertRow(e, s, t)
       \/ \E S \in SUBSET Rows("UNAUDITED") :
             /\ \A t \in S : ~Holds(entity[t], "PENDING")
             /\ status' = [t \in TxIds |-> IF t \in S THEN "PENDING" ELSE status[t]]
             /\ UNCHANGED <<entity, drift>>
       \/ \E t \in TxIds : drift' = [drift EXCEPT ![t] = @ + 1] /\ UNCHANGED <<status, entity>>

\* Every step is one of five kinds.
LEMMA DbStep ==
    ASSUME TypeOK, [Next]_vars
    PROVE  \/ Quiet
           \/ Autocommit
           \/ \E p \in Procs : BeginPersist(p)
           \/ \E p \in Procs, t \in TxIds : AppendEntry(p, t)
           \/ \E p \in Procs : Publish(p)
<1> DEFINE Goal == \/ Quiet
                   \/ Autocommit
                   \/ \E p \in Procs : BeginPersist(p)
                   \/ \E p \in Procs, t \in TxIds : AppendEntry(p, t)
                   \/ \E p \in Procs : Publish(p)
<1> USE DEF TypeOK, LocalOK
<1>1. ASSUME NEW p \in Procs, Request(p)
      PROVE  Quiet
  <2>1. Idle(p) /\ UNCHANGED <<db, txn>>
        /\ \A q \in Procs \ {p} : sel'[q] = sel[q] /\ op'[q] = op[q]
    BY <1>1 DEF Request, StartCheck, CommitRead, RollbackRead, ReconcileSelect,
                AdoptSelect, WatchCheck, Begin
  <2>2. QED
    BY <2>1 DEF Quiet, Idle, TableOK, Image
<1>2. ASSUME NEW p \in Procs, StartInsert(p)
      PROVE  Goal
  <2>1. CASE \E t \in TxIds : InsertRow(name[p], "PENDING", t)
    BY <1>2, <2>1 DEF StartInsert, Autocommit
  <2>2. CASE UNCHANGED table
    BY <1>2, <2>2 DEF StartInsert, Quiet, db, table
  <2>3. QED
    BY <1>2, <2>1, <2>2 DEF StartInsert
<1>3. ASSUME NEW p \in Procs, ReadOwn(p)
      PROVE  Quiet
  BY <1>3 DEF ReadOwn, Quiet, local
<1>4. ASSUME NEW p \in Procs, AdoptUpdate(p)
      PROVE  Autocommit
  <2> DEFINE hit == sel[p] \cap Rows("UNAUDITED")
  <2>1. hit \in SUBSET Rows("UNAUDITED")
    OBVIOUS
  <2>2. /\ txn = NoTxn
        /\ UNCHANGED <<entity, drift, entries, head, txn>>
        /\ \A t \in hit : ~Holds(entity[t], "PENDING")
        /\ status' = [t \in TxIds |-> IF t \in hit THEN "PENDING" ELSE status[t]]
    BY <1>4 DEF AdoptUpdate
  <2>3. QED
    BY <2>1, <2>2 DEF Autocommit
<1>5. ASSUME NEW p \in Procs, AdoptReport(p)
      PROVE  Quiet
  <2>1. pc[p] = "report" /\ UNCHANGED <<db, txn>>
    BY <1>5 DEF AdoptReport
  <2>2. \A q \in Procs \ {p} : sel'[q] = sel[q] /\ op'[q] = op[q]
    BY <1>5 DEF AdoptReport, Return
  <2>3. QED
    BY <2>1, <2>2 DEF Quiet, TableOK, Image
<1>6. ASSUME NEW p \in Procs, WatchUpsert(p)
      PROVE  Autocommit
  <2>1. pc[p] = "upsert" /\ txn = NoTxn /\ UNCHANGED <<entries, head, txn>>
    BY <1>6 DEF WatchUpsert
  <2>2. name[p] \in Entities /\ name[p] \in Names
    BY <2>1 DEF Names
  <2>3. CASE \E t \in TxIds : InsertRow(name[p], "UNAUDITED", t)
    BY <2>1, <2>2, <2>3 DEF Autocommit
  <2>4. CASE \E t \in TxIds : drift' = [drift EXCEPT ![t] = @ + 1] /\ UNCHANGED <<status, entity>>
    BY <2>1, <2>4 DEF Autocommit
  <2>5. QED
    BY <1>6, <2>3, <2>4 DEF WatchUpsert, Rows
<1>7. ASSUME NEW p \in Procs, Fails(p) \/ Crash(p)
      PROVE  Quiet
  <2>1. UNCHANGED db
    BY <1>7 DEF Fails, Crash
  <2>2. CASE pc[p] = "append"
    BY <1>7, <2>1, <2>2 DEF Fails, Crash, Quiet
  <2>3. CASE pc[p] # "append"
    <3>1. txn' = txn
      BY <1>7, <2>3 DEF Fails, Crash
    <3>2. \A q \in Procs \ {p} : sel'[q] = sel[q] /\ op'[q] = op[q]
      BY <1>7 DEF Fails, Crash, Return
    <3>3. txn # NoTxn => txn.owner \in Procs \ {p}
      BY <2>3 DEF TableOK, Image
    <3>4. QED
      BY <2>1, <3>1, <3>2, <3>3 DEF Quiet
  <2>4. QED
    BY <2>2, <2>3
<1>8. CASE UNCHANGED vars
  BY <1>8 DEF vars, local, Quiet
<1>9. QED
  BY <1>1, <1>2, <1>3, <1>4, <1>5, <1>6, <1>7, <1>8 DEF Next, Step

\* An autocommit statement leaves resolved rows alone, resolves none and never
\* lowers a count.
LEMMA AutocommitFacts ==
    ASSUME TypeOK, Autocommit
    PROVE  \A t \in TxIds :
             /\ status[t] \in Resolved => status'[t] = status[t] /\ entity'[t] = entity[t]
             /\ status'[t] \in Resolved => status[t] \in Resolved
             /\ drift[t] <= drift'[t]
<1> USE DEF Resolved, TypeOK, TableOK
<1>1. ASSUME NEW u \in TxIds, NEW e \in Names, NEW s \in {"PENDING", "UNAUDITED"},
             InsertRow(e, s, u)
      PROVE  \A t \in TxIds :
               /\ status[t] \in Resolved => status'[t] = status[t] /\ entity'[t] = entity[t]
               /\ status'[t] \in Resolved => status[t] \in Resolved
               /\ drift[t] <= drift'[t]
  <2>1. status[u] = "NONE" /\ ~(drift[u] >= 1)
    BY <1>1 DEF InsertRow
  <2>2. QED
    BY <1>1, <2>1 DEF InsertRow
<1>2. ASSUME NEW S \in SUBSET Rows("UNAUDITED"),
             status' = [t \in TxIds |-> IF t \in S THEN "PENDING" ELSE status[t]],
             UNCHANGED <<entity, drift>>
      PROVE  \A t \in TxIds :
               /\ status[t] \in Resolved => status'[t] = status[t] /\ entity'[t] = entity[t]
               /\ status'[t] \in Resolved => status[t] \in Resolved
               /\ drift[t] <= drift'[t]
  BY <1>2 DEF Rows
<1>3. ASSUME NEW u \in TxIds, drift' = [drift EXCEPT ![u] = @ + 1],
             UNCHANGED <<status, entity>>
      PROVE  \A t \in TxIds :
               /\ status[t] \in Resolved => status'[t] = status[t] /\ entity'[t] = entity[t]
               /\ status'[t] \in Resolved => status[t] \in Resolved
               /\ drift[t] <= drift'[t]
  BY <1>3
<1>4. QED
  BY <1>1, <1>2, <1>3 DEF Autocommit

\* What the process that appends may rely on.
LEMMA OwnerFacts ==
    ASSUME IInv, NEW p \in Procs, pc[p] = "append"
    PROVE  /\ txn \in Image /\ txn # NoTxn /\ txn.owner = p
           /\ sel[p] \subseteq TxIds
           /\ \A t \in sel[p] : status[t] = Source(KindOf(op[p]))
           /\ \A t \in TxIds : txn.status[t] = IF t \in sel[p] THEN Outcome(KindOf(op[p]))
                                                                ELSE status[t]
           /\ txn.todo \subseteq sel[p]
           /\ Linked(txn.entries, txn.head)
           /\ Recorded(txn.entries, txn.status, txn.todo)
           /\ Backed(txn.entries)
           /\ IsPrefix(entries, txn.entries)
  BY DEF IInv, TypeOK, TableOK, LocalOK, TxnConsistent

(***************************************************************************)
(* Every step keeps the rest of the inductive invariant.                   *)
(***************************************************************************)

\* A step keeps the chain one line.
LEMMA ChainStep == IInv /\ [Next]_vars => ChainIsLinear'
<1> SUFFICES ASSUME IInv, [Next]_vars PROVE ChainIsLinear'
  OBVIOUS
<1>1. TypeOK /\ Linked(entries, head)
  BY DEF IInv, ChainIsLinear
<1>2. CASE UNCHANGED <<entries, head>>
  BY <1>1, <1>2 DEF ChainIsLinear, Linked
<1>3. ASSUME NEW p \in Procs, Publish(p)
      PROVE  ChainIsLinear'
  BY <1>3, OwnerFacts DEF Publish, ChainIsLinear, Linked
<1>4. QED
  BY <1>1, <1>2, <1>3, DbStep DEF Quiet, Autocommit, BeginPersist, AppendEntry, db

\* A step keeps that status and outcome belong together.
LEMMA RecordStep == IInv /\ [Next]_vars => OutcomeRecordedOnce'
<1> SUFFICES ASSUME IInv, [Next]_vars PROVE OutcomeRecordedOnce'
  OBVIOUS
<1>1. TypeOK /\ Recorded(entries, status, {})
  BY DEF IInv, OutcomeRecordedOnce
<1>2. CASE UNCHANGED <<entries, status>>
  BY <1>1, <1>2 DEF OutcomeRecordedOnce, Recorded
<1>3. ASSUME Autocommit
      PROVE  OutcomeRecordedOnce'
  <2>1. \A i \in DOMAIN entries :
           entries[i].body.tx \in TxIds /\ entries[i].body.kind \in Kinds
    <3>1. \A i \in DOMAIN entries : entries[i] \in Entry
      BY <1>1, ElementOfSeq, LenProperties DEF TypeOK, TableOK
    <3>2. QED
      BY <3>1 DEF Entry, Bodies
  <2>2. \A i \in DOMAIN entries : status[entries[i].body.tx] \in Resolved
    BY <1>1, <2>1, KindFacts DEF Recorded
  <2>3. entries' = entries
    BY <1>3 DEF Autocommit
  <2>4. QED
    BY <1>1, <1>3, <2>1, <2>2, <2>3, AutocommitFacts DEF OutcomeRecordedOnce, Recorded
<1>4. ASSUME NEW p \in Procs, Publish(p)
      PROVE  OutcomeRecordedOnce'
  BY <1>4, OwnerFacts DEF Publish, OutcomeRecordedOnce, Recorded
<1>5. QED
  BY <1>1, <1>2, <1>3, <1>4, DbStep DEF Quiet, BeginPersist, AppendEntry, db, table

\* A step keeps one open change per entity.
LEMMA OneOpenStep == IInv /\ [Next]_vars => OneOpenPerEntity'
<1> SUFFICES ASSUME IInv, [Next]_vars PROVE OneOpenPerEntity'
  OBVIOUS
<1>1. TypeOK /\ OneOpenPerEntity
  BY DEF IInv
<1> USE DEF OneOpenPerEntity
<1>2. CASE UNCHANGED <<status, entity>>
  BY <1>1, <1>2
<1>3. ASSUME NEW u \in TxIds, NEW e \in Names, NEW s \in {"PENDING", "UNAUDITED"},
             (s = "UNAUDITED" => e \in Entities), InsertRow(e, s, u)
      PROVE  OneOpenPerEntity'
  BY <1>1, <1>3, InsertFacts
<1>4. ASSUME NEW S \in SUBSET Rows("UNAUDITED"),
             \A t \in S : ~Holds(entity[t], "PENDING"),
             status' = [t \in TxIds |-> IF t \in S THEN "PENDING" ELSE status[t]],
             UNCHANGED entity
      PROVE  OneOpenPerEntity'
  BY <1>1, <1>4 DEF Rows, Holds
<1>5. ASSUME NEW p \in Procs, Publish(p)
      PROVE  OneOpenPerEntity'
  <2>1. \A t \in TxIds : status'[t] = status[t] \/ status'[t] \in Resolved
    BY <1>5, OwnerFacts, KindFacts DEF Publish
  <2>2. entity' = entity
    BY <1>5 DEF Publish
  <2>3. QED
    BY <1>1, <2>1, <2>2 DEF Resolved
<1>6. CASE Autocommit
  BY <1>2, <1>3, <1>4, <1>6 DEF Autocommit
<1>7. QED
  BY <1>1, <1>2, <1>5, <1>6, DbStep DEF Quiet, BeginPersist, AppendEntry, db, table

\* Counts only grow.
LEMMA DriftGrows == IInv /\ [Next]_vars => \A t \in TxIds : drift[t] <= drift'[t]
<1> SUFFICES ASSUME IInv, [Next]_vars PROVE \A t \in TxIds : drift[t] <= drift'[t]
  OBVIOUS
<1>1. TypeOK
  BY DEF IInv
<1>2. CASE UNCHANGED drift
  BY <1>1, <1>2 DEF TypeOK, TableOK
<1>3. CASE Autocommit
  BY <1>1, <1>3, AutocommitFacts
<1>4. QED
  BY <1>1, <1>2, <1>3, DbStep DEF Quiet, BeginPersist, AppendEntry, Publish, db, table

\* Entries that were backed by the counts stay backed when counts grow.
LEMMA BackedGrows ==
    ASSUME NEW rows \in Seq(Entry), Backed(rows),
           drift \in [TxIds -> Nat], drift' \in [TxIds -> Nat],
           \A t \in TxIds : drift[t] <= drift'[t]
    PROVE  \A i \in DOMAIN rows : rows[i].body.drift <= drift'[rows[i].body.tx]
<1>1. TAKE i \in DOMAIN rows
<1>2. rows[i] \in Entry
  BY ElementOfSeq, LenProperties
<1>3. rows[i].body.tx \in TxIds /\ rows[i].body.drift \in Nat
  BY <1>2 DEF Entry, Bodies
<1>4. rows[i].body.drift <= drift[rows[i].body.tx]
  BY DEF Backed
<1>5. QED
  BY <1>3, <1>4

\* Appending an entry that quotes no more than its row counted.
LEMMA BackedAppend ==
    ASSUME NEW rows \in Seq(Entry), NEW entry \in Entry, Backed(rows),
           entry.body.drift <= drift[entry.body.tx]
    PROVE  Backed(Append(rows, entry))
<1> DEFINE new == Append(rows, entry)
<1>1. /\ Len(rows) \in Nat
      /\ DOMAIN rows = 1..Len(rows)
      /\ DOMAIN new = 1..(Len(rows) + 1)
      /\ \A i \in 1..Len(rows) : new[i] = rows[i]
      /\ new[Len(rows) + 1] = entry
  BY AppendProperties, LenProperties
<1> HIDE DEF new
<1>2. ASSUME NEW i \in DOMAIN new
      PROVE  new[i].body.drift <= drift[new[i].body.tx]
  <2>1. CASE i \in 1..Len(rows)
    BY <1>1, <2>1 DEF Backed
  <2>2. CASE i = Len(rows) + 1
    BY <1>1, <2>2
  <2>3. QED
    BY <1>1, <1>2, <2>1, <2>2
<1>3. QED
  BY <1>2 DEF Backed, new

\* A step keeps that no entry quotes more changes than its row has counted.
LEMMA BackedStep == IInv /\ [Next]_vars => ReconcileNeverOverstates'
<1> SUFFICES ASSUME IInv, [Next]_vars PROVE ReconcileNeverOverstates'
  OBVIOUS
<1>1. /\ TypeOK /\ Backed(entries) /\ entries \in Seq(Entry)
      /\ drift \in [TxIds -> Nat] /\ drift' \in [TxIds -> Nat]
      /\ \A t \in TxIds : drift[t] <= drift'[t]
  BY TypeStep, DriftGrows DEF IInv, ReconcileNeverOverstates, TypeOK, TableOK
<1>2. CASE UNCHANGED entries
  BY <1>1, <1>2, BackedGrows DEF ReconcileNeverOverstates, Backed
<1>3. ASSUME NEW p \in Procs, Publish(p)
      PROVE  ReconcileNeverOverstates'
  <2>1. entries' = txn.entries /\ drift' = drift /\ pc[p] = "append"
    BY <1>3 DEF Publish
  <2>2. Backed(txn.entries)
    BY <2>1, OwnerFacts
  <2>3. QED
    BY <2>1, <2>2 DEF ReconcileNeverOverstates, Backed
<1>4. QED
  BY <1>1, <1>2, <1>3, DbStep DEF Quiet, Autocommit, BeginPersist, AppendEntry, db

\* A step keeps that a count that was read is one the row had.
LEMMA SeenStep == IInv /\ [Next]_vars => SeenIsPast'
<1> SUFFICES ASSUME IInv, [Next]_vars PROVE SeenIsPast'
  OBVIOUS
<1>1. /\ TypeOK /\ SeenIsPast
      /\ seen \in [Procs -> [TxIds -> Nat]] /\ seen' \in [Procs -> [TxIds -> Nat]]
      /\ drift \in [TxIds -> Nat] /\ drift' \in [TxIds -> Nat]
      /\ \A t \in TxIds : drift[t] <= drift'[t]
  BY TypeStep, DriftGrows DEF IInv, TypeOK, TableOK, LocalOK
<1>2. CASE UNCHANGED seen
  BY <1>1, <1>2 DEF SeenIsPast
<1>3. ASSUME NEW p \in Procs, Return(p)
      PROVE  SeenIsPast'
  <2>1. seen' = [seen EXCEPT ![p] = [t \in TxIds |-> 0]]
    BY <1>3 DEF Return
  <2>2. QED
    BY <1>1, <2>1 DEF SeenIsPast
<1>4. ASSUME NEW p \in Procs, NEW S \in SUBSET TxIds, ReconcileSelect(p, S)
      PROVE  SeenIsPast'
  <2>1. seen' = [seen EXCEPT ![p] = [t \in TxIds |-> IF t \in S THEN drift[t] ELSE 0]]
    BY <1>4 DEF ReconcileSelect
  <2>2. QED
    BY <1>1, <2>1 DEF SeenIsPast
<1>5. \/ UNCHANGED seen
      \/ \E p \in Procs : Return(p)
      \/ \E p \in Procs, S \in SUBSET TxIds : ReconcileSelect(p, S)
  BY DEF Next, Request, Step, StartCheck, CommitRead, RollbackRead, AdoptSelect, WatchCheck,
         StartInsert, ReadOwn, BeginPersist, AppendEntry, Publish, AdoptUpdate, AdoptReport,
         WatchUpsert, Fails, Crash, vars, local
<1>6. QED
  BY <1>2, <1>3, <1>4, <1>5

\* A step keeps the open image consistent with the committed tables.
LEMMA TxnStep == IInv /\ [Next]_vars => TxnConsistent'
<1> SUFFICES ASSUME IInv, [Next]_vars PROVE TxnConsistent'
  OBVIOUS
<1>1. /\ TypeOK /\ TxnConsistent
      /\ Linked(entries, head) /\ Recorded(entries, status, {}) /\ Backed(entries)
      /\ entries \in Seq(Entry)
  BY DEF IInv, ChainIsLinear, OutcomeRecordedOnce, ReconcileNeverOverstates, TypeOK, TableOK
<1>2. CASE txn' = NoTxn
  BY <1>2 DEF TxnConsistent
<1>3. CASE Quiet /\ txn' # NoTxn
  <2>1. /\ txn' = txn /\ txn # NoTxn
        /\ sel'[txn.owner] = sel[txn.owner] /\ op'[txn.owner] = op[txn.owner]
        /\ status' = status /\ entries' = entries /\ drift' = drift
    BY <1>3 DEF Quiet, db, table
  <2>2. QED
    BY <1>1, <2>1 DEF TxnConsistent, Linked, Recorded, Backed
<1>4. ASSUME NEW p \in Procs, BeginPersist(p)
      PROVE  TxnConsistent'
  <2> DEFINE S == sel[p]
             k == KindOf(op[p])
  <2>1. /\ txn' = [owner   |-> p,
                   status  |-> [t \in TxIds |-> IF t \in S THEN Outcome(k) ELSE status[t]],
                   entries |-> entries,
                   head    |-> head,
                   todo    |-> S]
        /\ S \subseteq Rows(Source(k))
        /\ UNCHANGED <<status, drift, entries, sel, op>>
    BY <1>4 DEF BeginPersist, db, table, local
  <2>2. txn'.owner = p /\ txn'.entries = entries /\ txn'.head = head /\ txn'.todo = S
        /\ \A t \in TxIds : txn'.status[t] = IF t \in S THEN Outcome(k) ELSE status[t]
    BY <2>1
  <2>3. \A t \in S : t \in TxIds /\ status[t] = Source(k) /\ status[t] \notin Resolved
    BY <2>1, KindFacts DEF Rows, Resolved
  <2>4. Recorded(entries, txn'.status, S)
    <3>1. \A i \in DOMAIN entries :
             /\ entries[i].body.tx \in TxIds
             /\ status[entries[i].body.tx] = Outcome(entries[i].body.kind)
             /\ status[entries[i].body.tx] \in Resolved
      <4>1. \A i \in DOMAIN entries : entries[i] \in Entry
        BY <1>1, ElementOfSeq, LenProperties
      <4>2. QED
        BY <1>1, <4>1, KindFacts DEF Recorded, Entry, Bodies
    <3>2. QED
      BY <1>1, <2>2, <2>3, <3>1 DEF Recorded
  <2>5. IsPrefix(entries, entries)
    BY <1>1, PrefixPointwise
  <2>6. QED
    BY <1>1, <2>1, <2>2, <2>3, <2>4, <2>5 DEF TxnConsistent, Linked, Recorded, Backed
<1>5. ASSUME NEW p \in Procs, NEW t \in TxIds, AppendEntry(p, t)
      PROVE  TxnConsistent'
  <2> DEFINE k == KindOf(op[p])
             b == [tx |-> t, kind |-> k, drift |-> seen[p][t]]
             e == [body |-> b, prev |-> PrevHash(txn.head)]
  <2>1. /\ pc[p] = "append" /\ t \in txn.todo
        /\ txn' = [txn EXCEPT !.entries = Append(@, e),
                              !.head = NextHead(@, e),
                              !.todo = @ \ {t}]
        /\ UNCHANGED <<status, drift, entries, sel, op>>
    BY <1>5 DEF AppendEntry, db, table, local
  <2>2. /\ txn \in Image /\ txn.owner = p
        /\ \A u \in sel[p] : status[u] = Source(k)
        /\ \A u \in TxIds : txn.status[u] = IF u \in sel[p] THEN Outcome(k) ELSE status[u]
        /\ txn.todo \subseteq sel[p]
        /\ Linked(txn.entries, txn.head)
        /\ Recorded(txn.entries, txn.status, txn.todo)
        /\ Backed(txn.entries)
        /\ IsPrefix(entries, txn.entries)
    BY <2>1, OwnerFacts
  <2>3. /\ txn.entries \in Seq(Entry) /\ txn.head \in HeadRow \cup {NoHead}
        /\ txn.status \in [TxIds -> Statuses] /\ txn.todo \in SUBSET TxIds
    BY <2>2 DEF Image
  <2>4. b \in Bodies /\ b.drift <= drift[t]
    BY <1>1, KindFacts DEF IInv, SeenIsPast, TypeOK, TableOK, LocalOK, Bodies
  <2>5. e \in Entry /\ Linked(Append(txn.entries, e), NextHead(txn.head, e))
    BY <2>2, <2>3, <2>4, LinkedAppend
  <2>6. Recorded(Append(txn.entries, e), txn.status, txn.todo \ {t})
    <3>1. e.body.tx = t /\ e.body.kind = k
      OBVIOUS
    <3>2. txn.status[t] = Outcome(k)
      BY <2>1, <2>2
    <3>3. QED
      BY <2>1, <2>2, <2>3, <2>5, <3>1, <3>2, RecordedAppend
  <2>7. Backed(Append(txn.entries, e))
    <3>1. e.body.drift = b.drift /\ e.body.tx = t
      OBVIOUS
    <3>2. QED
      BY <2>2, <2>3, <2>4, <2>5, <3>1, BackedAppend
  <2>8. IsPrefix(entries, Append(txn.entries, e))
    BY <1>1, <2>2, <2>3, <2>5, PrefixAppend
  <2>9. /\ txn'.owner = p /\ txn'.status = txn.status
        /\ txn'.entries = Append(txn.entries, e) /\ txn'.head = NextHead(txn.head, e)
        /\ txn'.todo = txn.todo \ {t}
    BY <2>1, <2>2 DEF Image
  <2> HIDE DEF e, b, k
  <2>10. QED
    BY <2>1, <2>2, <2>5, <2>6, <2>7, <2>8, <2>9 DEF TxnConsistent, Linked, Recorded, Backed, k
<1>6. QED
  BY <1>1, <1>2, <1>3, <1>4, <1>5, DbStep DEF Autocommit, Publish

(***************************************************************************)
(* The results.                                                            *)
(***************************************************************************)

\* In every state any interleaving of commands, failures and crashes can
\* reach, the strengthened invariant holds.
THEOREM Inductive == Spec => []IInv
<1>1. IInv /\ [Next]_vars => IInv'
  BY TypeStep, ChainStep, RecordStep, OneOpenStep, BackedStep, TxnStep, SeenStep DEF IInv
<1>2. QED
  BY InitInv, <1>1, PTL DEF Spec

\* Tables, image and local state keep their types (schemas, persist_commit).
THEOREM TypeCorrect == Spec => []TypeOK
<1>1. IInv => TypeOK
  BY DEF IInv
<1>2. QED
  BY Inductive, <1>1, PTL

\* The committed chain never forks, breaks or loses its head, for any number of
\* processes (append_to_chain_with_cas).
THEOREM LinearChain == Spec => []ChainIsLinear
<1>1. IInv => ChainIsLinear
  BY DEF IInv
<1>2. QED
  BY Inductive, <1>1, PTL

\* Status and signed outcome never come apart, and nothing is recorded twice
\* (persist_commit, rollback_change, reconcile_drift).
THEOREM RecordedOnce == Spec => []OutcomeRecordedOnce
<1>1. IInv => OutcomeRecordedOnce
  BY DEF IInv
<1>2. QED
  BY Inductive, <1>1, PTL

\* Checks that ran before the insert cannot be raced into a second open change
\* of an entity (start_change, adopt_drift, upsert_unaudited_transaction).
THEOREM OneOpen == Spec => []OneOpenPerEntity
<1>1. IInv => OneOpenPerEntity
  BY DEF IInv
<1>2. QED
  BY Inductive, <1>1, PTL

\* Reconciliations never quote more changes than were observed
\* (reconcile_drift).
THEOREM NeverOverstates == Spec => []ReconcileNeverOverstates
<1>1. IInv => ReconcileNeverOverstates
  BY DEF IInv
<1>2. QED
  BY Inductive, <1>1, PTL

\* No step rewrites a resolved row or a recorded entry (every handler).
THEOREM Final == Spec => HistoryIsFinal
<1> DEFINE A == /\ \A t \in TxIds : status[t] \in Resolved =>
                      status'[t] = status[t] /\ entity'[t] = entity[t]
                /\ IsPrefix(entries, entries')
<1>1. IInv /\ [Next]_vars => A
  <2> SUFFICES ASSUME IInv, [Next]_vars PROVE A
    OBVIOUS
  <2>1. TypeOK /\ entries \in Seq(Entry)
    BY DEF IInv, TypeOK, TableOK
  <2>2. IsPrefix(entries, entries)
    BY <2>1, PrefixPointwise
  <2>3. CASE UNCHANGED <<status, entity, entries>>
    BY <2>2, <2>3
  <2>4. CASE Autocommit
    BY <2>1, <2>2, <2>4, AutocommitFacts DEF Autocommit
  <2>5. ASSUME NEW p \in Procs, Publish(p)
        PROVE  A
    <3>1. /\ status' = txn.status /\ entries' = txn.entries /\ entity' = entity
          /\ pc[p] = "append"
      BY <2>5 DEF Publish
    <3>2. \A t \in TxIds : status[t] \in Resolved => txn.status[t] = status[t]
      BY <3>1, OwnerFacts, KindFacts DEF Resolved
    <3>3. IsPrefix(entries, txn.entries)
      BY <3>1, OwnerFacts
    <3>4. QED
      BY <3>1, <3>2, <3>3
  <2>6. QED
    BY <2>1, <2>3, <2>4, <2>5, DbStep DEF Quiet, BeginPersist, AppendEntry, db, table
<1>2. QED
  BY Inductive, <1>1, PTL DEF Spec, HistoryIsFinal

-----------------------------------------------------------------------------
(***************************************************************************)
(* The transaction ledger implements its contract: what other processes    *)
(* can read changes by whole operations only.  A step that publishes maps  *)
(* to one resolution, an autocommit statement to one opening or adoption,  *)
(* every other step to a stutter.                                          *)
(***************************************************************************)

LogEntry == [tx : TxIds, kind : Kinds]

\* The log as the contract sees it.
Log == [i \in DOMAIN entries |->
          [tx |-> entries[i].body.tx, kind |-> entries[i].body.kind]]

\* The contract counts with the same cardinality.
LEMMA SameCardinality == \A S : Contract!Cardinality(S) = Cardinality(S)
  BY DEF Contract!Cardinality, Cardinality

\* The contract's words are the ledger's words.
LEMMA SameWords ==
    /\ Contract!Kinds = Kinds
    /\ \A k \in Kinds : Contract!Outcome(k) = Outcome(k) /\ Contract!Source(k) = Source(k)
    /\ \A e, s : Contract!Holds(e, s) <=> Holds(e, s)
  BY DEF Contract!Kinds, Kinds, Contract!Outcome, Outcome, Contract!Source, Source,
         Contract!Holds, Holds, Rows

\* The entry at position i of a typed log has a typed body.
LEMMA BodyTypes ==
    ASSUME NEW rows \in Seq(Entry), NEW i \in DOMAIN rows
    PROVE  rows[i].body.tx \in TxIds /\ rows[i].body.kind \in Kinds
<1>1. rows[i] \in Entry
  BY ElementOfSeq, LenProperties
<1>2. QED
  BY <1>1 DEF Entry, Bodies

\* If a numbering of 1..n hits every member of S exactly once, S has n members.
LEMMA Numbering ==
    ASSUME NEW S, NEW n \in Nat, NEW f \in [1..n -> S],
           \A i, j \in 1..n : f[i] = f[j] => i = j,
           \A t \in S : \E i \in 1..n : f[i] = t
    PROVE  Cardinality(S) = n
<1>1. f \in Bijection(1..n, S)
  BY DEF Bijection, Injection, Surjection, IsInjective
<1>2. ExistsBijection(1..n, S)
  BY <1>1 DEF ExistsBijection
<1>3. IsFiniteSet(1..n) /\ Cardinality(1..n) = n
  BY FS_Interval
<1>4. QED
  BY <1>2, <1>3, FS_Bijection

(***************************************************************************)
(* Publishing.                                                             *)
(***************************************************************************)

\* The image a process publishes holds the committed entries followed by one
\* entry for each row it selected, all of the kind of its command.
LEMMA PublishedRows ==
    ASSUME IInv, NEW p \in Procs, pc[p] = "append", txn.todo = {}
    PROVE  LET n == Len(entries)
               m == Len(txn.entries) - n
               order == [i \in 1..m |-> txn.entries[n + i].body.tx]
           IN  /\ n \in Nat /\ m \in Nat /\ Len(txn.entries) = n + m
               /\ order \in [1..m -> sel[p]]
               /\ \A i \in 1..m : txn.entries[n + i].body.kind = KindOf(op[p])
               /\ \A i, j \in 1..m : order[i] = order[j] => i = j
               /\ Cardinality(sel[p]) = m
<1> DEFINE k == KindOf(op[p])
           S == sel[p]
           new == txn.entries
           n == Len(entries)
           m == Len(new) - n
           order == [i \in 1..m |-> new[n + i].body.tx]
<1>1. /\ txn \in Image
      /\ S \subseteq TxIds
      /\ \A t \in S : status[t] = Source(k)
      /\ \A t \in TxIds : txn.status[t] = IF t \in S THEN Outcome(k) ELSE status[t]
      /\ Recorded(new, txn.status, {})
      /\ IsPrefix(entries, new)
  BY OwnerFacts
<1>2. entries \in Seq(Entry) /\ new \in Seq(Entry)
  BY <1>1 DEF IInv, TypeOK, TableOK, Image
<1>3. n <= Len(new) /\ \A i \in 1..n : entries[i] = new[i]
  BY <1>1, <1>2, PrefixPointwise
<1>4. n \in Nat /\ Len(new) \in Nat /\ DOMAIN new = 1..Len(new) /\ DOMAIN entries = 1..n
  BY <1>2, LenProperties
<1>5. m \in Nat /\ Len(new) = n + m
  BY <1>3, <1>4
<1>6. Recorded(entries, status, {})
  BY DEF IInv, OutcomeRecordedOnce
<1>7. k \in Kinds /\ Source(k) \notin Resolved
  BY KindFacts DEF Resolved
<1>8. ASSUME NEW i \in 1..m
      PROVE  new[n + i].body.tx \in S /\ new[n + i].body.kind = k
  <2> DEFINE t == new[n + i].body.tx
             kk == new[n + i].body.kind
  <2>1. n + i \in DOMAIN new /\ ~(n + i \in 1..n)
    BY <1>4, <1>5
  <2>2. t \in TxIds /\ kk \in Kinds
    BY <1>2, <2>1, BodyTypes
  <2>3. txn.status[t] = Outcome(kk)
    BY <1>1, <2>1 DEF Recorded
  <2>4. t \in S
    <3>1. SUFFICES ASSUME t \notin S PROVE FALSE
      OBVIOUS
    <3>2. status[t] \in Resolved
      BY <1>1, <2>2, <2>3, <3>1, KindFacts
    <3>3. PICK j \in DOMAIN entries : entries[j].body.tx = t
      BY <1>6, <2>2, <3>2 DEF Recorded
    <3>4. j \in 1..n /\ j \in DOMAIN new /\ new[j].body.tx = t
      BY <1>3, <1>4, <1>5, <3>3
    <3>5. j = n + i
      BY <1>1, <2>1, <3>4 DEF Recorded
    <3>6. QED
      BY <2>1, <3>4, <3>5
  <2>5. Outcome(kk) = Outcome(k)
    BY <1>1, <2>2, <2>3, <2>4
  <2>6. kk = k
    BY <1>7, <2>2, <2>5 DEF Kinds, Outcome
  <2>7. QED
    BY <2>4, <2>6
<1>9. order \in [1..m -> S]
  BY <1>8
<1>10. ASSUME NEW i \in 1..m, NEW j \in 1..m, order[i] = order[j]
       PROVE  i = j
  <2>1. n + i \in DOMAIN new /\ n + j \in DOMAIN new
    BY <1>4, <1>5
  <2>2. new[n + i].body.tx = new[n + j].body.tx
    BY <1>10
  <2>3. n + i = n + j
    BY <1>1, <2>1, <2>2 DEF Recorded
  <2>4. QED
    BY <1>4, <2>3
<1>11. ASSUME NEW t \in S
       PROVE  \E i \in 1..m : order[i] = t
  <2>1. t \in TxIds /\ txn.status[t] \in Resolved
    BY <1>1, <1>7, KindFacts
  <2>2. PICK j \in DOMAIN new : new[j].body.tx = t
    BY <1>1, <2>1 DEF Recorded
  <2>3. j \notin 1..n
    <3>1. SUFFICES ASSUME j \in 1..n PROVE FALSE
      OBVIOUS
    <3>2. entries[j].body.tx = t /\ j \in DOMAIN entries
      BY <1>3, <1>4, <2>2, <3>1
    <3>3. status[t] = Outcome(entries[j].body.kind) /\ entries[j].body.kind \in Kinds
      BY <1>2, <1>6, <3>2, BodyTypes DEF Recorded
    <3>4. QED
      BY <1>1, <1>7, <3>3, KindFacts
  <2>4. j - n \in 1..m /\ n + (j - n) = j
    BY <1>4, <1>5, <2>2, <2>3
  <2>5. order[j - n] = t
    BY <2>2, <2>4
  <2>6. QED
    BY <2>4, <2>5
<1>12. Cardinality(S) = m
  <2>1. m \in Nat /\ \A i, j \in 1..m : order[i] = order[j] => i = j
    BY <1>5, <1>10
  <2>2. \A t \in S : \E i \in 1..m : order[i] = t
    BY <1>11
  <2> HIDE DEF S, m, order
  <2>3. QED
    BY ONLY <1>9, <2>1, <2>2, Numbering
<1>13. QED
  BY <1>4, <1>5, <1>8, <1>9, <1>10, <1>12

\* COMMIT is one resolution of the contract.
LEMMA PublishResolves ==
    ASSUME IInv, NEW p \in Procs, Publish(p)
    PROVE  Contract!Resolve(sel[p], KindOf(op[p]))
<1> DEFINE k == KindOf(op[p])
           S == sel[p]
           n == Len(entries)
           m == Len(txn.entries) - n
           order == [i \in 1..m |-> txn.entries[n + i].body.tx]
           tail == [i \in 1..m |-> [tx |-> order[i], kind |-> k]]
<1>1. /\ pc[p] = "append" /\ txn.todo = {}
      /\ status' = txn.status /\ entries' = txn.entries /\ entity' = entity
  BY DEF Publish
<1>2. /\ n \in Nat /\ m \in Nat /\ Len(txn.entries) = n + m
      /\ order \in [1..m -> S]
      /\ \A i \in 1..m : txn.entries[n + i].body.kind = k
      /\ \A i, j \in 1..m : order[i] = order[j] => i = j
      /\ Cardinality(S) = m
  BY <1>1, PublishedRows
<1>3. /\ txn \in Image
      /\ S \subseteq TxIds
      /\ \A t \in S : status[t] = Source(k)
      /\ \A t \in TxIds : txn.status[t] = IF t \in S THEN Outcome(k) ELSE status[t]
      /\ IsPrefix(entries, txn.entries)
  BY <1>1, OwnerFacts
<1>4. k \in Kinds
  BY KindFacts
<1>5. \A t \in S : status[t] = Contract!Source(k)
  BY <1>3, <1>4, SameWords
<1>6. status' = [t \in TxIds |-> IF t \in S THEN Contract!Outcome(k) ELSE status[t]]
  <2>1. txn.status \in [TxIds -> Statuses]
    BY <1>3 DEF Image
  <2>2. Contract!Outcome(k) = Outcome(k)
    BY <1>4, SameWords
  <2>3. QED
    BY <1>1, <1>3, <2>1, <2>2
<1>7. Contract!Cardinality(S) = m
  BY <1>2, SameCardinality
<1>8. order \in Contract!SetToSeqs(S)
  BY <1>2, <1>7 DEF Contract!SetToSeqs
<1>9. Log' = Log \o tail
  <2>1. entries \in Seq(Entry) /\ txn.entries \in Seq(Entry)
    BY <1>3 DEF IInv, TypeOK, TableOK, Image
  <2>2. DOMAIN entries = 1..n /\ DOMAIN txn.entries = 1..(n + m)
    BY <1>2, <2>1, LenProperties
  <2>3. \A i \in 1..n : entries[i] = txn.entries[i]
    BY <1>3, <2>1, PrefixPointwise
  <2>4. Log \in Seq(LogEntry) /\ Len(Log) = n
    <3>1. \A i \in 1..n : Log[i] \in LogEntry
      BY <2>1, <2>2, BodyTypes DEF Log, LogEntry
    <3>2. Log \in [1..n -> LogEntry]
      BY <2>2, <3>1 DEF Log
    <3>3. QED
      BY <1>2, <3>2, IsASeq, LenProperties
  <2>5. tail \in Seq(LogEntry) /\ Len(tail) = m
    <3>1. \A i \in 1..m : [tx |-> order[i], kind |-> k] \in LogEntry
      BY <1>2, <1>3, <1>4 DEF LogEntry
    <3>2. tail \in [1..m -> LogEntry]
      BY <3>1
    <3> HIDE DEF tail, m
    <3>3. QED
      BY <1>2, <3>2, IsASeq, LenProperties
  <2>6. Log' = [i \in 1..(n + m) |->
                  [tx |-> txn.entries[i].body.tx, kind |-> txn.entries[i].body.kind]]
    BY <1>1, <2>2 DEF Log
  <2>7. Log' \in Seq(LogEntry) /\ Len(Log') = n + m
    <3>1. \A i \in 1..(n + m) :
             [tx |-> txn.entries[i].body.tx, kind |-> txn.entries[i].body.kind] \in LogEntry
      BY <2>1, <2>2, BodyTypes DEF LogEntry
    <3>2. Log' \in [1..(n + m) -> LogEntry] /\ n + m \in Nat
      BY <1>2, <2>6, <3>1
    <3>3. QED
      BY <3>2, IsASeq, LenProperties
  <2>8. Log \o tail \in Seq(LogEntry) /\ Len(Log \o tail) = n + m
    <3> HIDE DEF tail, m, n
    <3>1. QED
      BY <2>4, <2>5, ConcatProperties
  <2>9. ASSUME NEW i \in 1..(n + m)
        PROVE  Log'[i] = (Log \o tail)[i]
    <3>1. CASE i \in 1..n
      <4>1. (Log \o tail)[i] = Log[i]
        BY <2>4, <2>5, <2>9, <3>1, ConcatProperties
      <4>2. Log[i] = [tx |-> entries[i].body.tx, kind |-> entries[i].body.kind]
        BY <2>2, <3>1 DEF Log
      <4>3. QED
        BY <2>3, <2>6, <2>9, <3>1, <4>1, <4>2
    <3>2. CASE i \notin 1..n
      <4>1. i - n \in 1..m /\ n + (i - n) = i
        BY <1>2, <2>9, <3>2
      <4>2. (Log \o tail)[i] = tail[i - n]
        BY <1>2, <2>4, <2>5, <2>9, <3>2, ConcatProperties
      <4>3. tail[i - n] = [tx |-> txn.entries[i].body.tx, kind |-> txn.entries[i].body.kind]
        BY <1>2, <4>1
      <4>4. QED
        BY <2>6, <2>9, <4>2, <4>3
    <3>3. QED
      BY <3>1, <3>2
  <2>10. QED
    BY <2>7, <2>8, <2>9, SeqEqual
<1>10. QED
  BY <1>1, <1>5, <1>6, <1>7, <1>8, <1>9 DEF Contract!Resolve, Log

(***************************************************************************)
(* The other steps.                                                        *)
(***************************************************************************)

\* An autocommit statement opens a change, adopts drift or only counts.
LEMMA AutocommitMaps ==
    ASSUME IInv, Autocommit
    PROVE  Contract!Next \/ UNCHANGED Contract!vars
<1>1. TypeOK /\ UNCHANGED Log
  BY DEF IInv, Autocommit, Log
<1>2. ASSUME NEW t \in TxIds, NEW e \in Names, NEW s \in {"PENDING", "UNAUDITED"},
             InsertRow(e, s, t)
      PROVE  Contract!Open(t, e, s)
  BY <1>1, <1>2, SameWords DEF InsertRow, Contract!Open, Log
<1>3. ASSUME NEW S \in SUBSET Rows("UNAUDITED"),
             \A t \in S : ~Holds(entity[t], "PENDING"),
             status' = [t \in TxIds |-> IF t \in S THEN "PENDING" ELSE status[t]],
             UNCHANGED entity
      PROVE  Contract!Adopt(S) /\ S \in SUBSET TxIds
  BY <1>1, <1>3, SameWords DEF Rows, Contract!Adopt, Log
<1>4. ASSUME UNCHANGED <<status, entity>>
      PROVE  UNCHANGED Contract!vars
  BY <1>1, <1>4 DEF Contract!vars, Log
<1>5. QED
  BY <1>2, <1>3, <1>4 DEF Autocommit, Contract!Next

\* A step of the ledger is a step of the contract or a stutter.
LEMMA StepMaps ==
    ASSUME IInv, [Next]_vars
    PROVE  Contract!Next \/ UNCHANGED Contract!vars
<1>1. TypeOK
  BY DEF IInv
<1>2. CASE UNCHANGED <<status, entity, entries>>
  BY <1>2 DEF Contract!vars
<1>3. ASSUME NEW p \in Procs, Publish(p)
      PROVE  Contract!Next
  <2>1. sel[p] \in SUBSET TxIds /\ KindOf(op[p]) \in Contract!Kinds
    BY <1>1, KindFacts, SameWords DEF TypeOK, LocalOK
  <2>2. Contract!Resolve(sel[p], KindOf(op[p]))
    BY <1>3, PublishResolves
  <2>3. QED
    BY <2>1, <2>2 DEF Contract!Next, Contract!Resolve
<1>4. QED
  BY <1>1, <1>2, <1>3, AutocommitMaps, DbStep
     DEF Quiet, BeginPersist, AppendEntry, db, table

(***************************************************************************)
(* The result.                                                             *)
(***************************************************************************)

\* Every behaviour of the detailed ledger, whatever interleaving, failure or
\* crash it contains, is a behaviour of the one-step contract that other
\* components rely on (persist_commit, rollback_change, reconcile_drift,
\* adopt_drift, start_change).
THEOREM Refinement == Spec => ImplementsContract
<1>1. Init => Contract!Init
  <2>1. Init => DOMAIN entries = {} /\ entries = <<>>
    BY DEF Init
  <2>2. Init => Log = <<>>
    BY <2>1 DEF Log
  <2>3. QED
    BY <2>2 DEF Init, Contract!Init, Log
<1>2. IInv /\ [Next]_vars => [Contract!Next]_(Contract!vars)
  BY StepMaps
<1>3. QED
  BY Inductive, <1>1, <1>2, PTL DEF Spec, ImplementsContract, Contract!Spec
=============================================================================

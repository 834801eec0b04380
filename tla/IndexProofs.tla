----------------------------- MODULE IndexProofs -----------------------------
(***************************************************************************)
(* Theorems about IndexSync, for any number of files and edits and any     *)
(* batch sizes.                                                            *)
(***************************************************************************)
EXTENDS IndexSync, FiniteSetTheorems, TLAPS

-----------------------------------------------------------------------------
(* The invariants the proofs need.                                         *)

Runs == [pc : {"idle", "load", "compare", "delete", "index"},
         found : SUBSET Files, known : [Files -> 0..Unread],
         todo : SUBSET Files, gone : SUBSET Files,
         read : [Files -> 0..Unread], batch : SUBSET Files]

\* Whatever was read is a content the file had.
Past ==
    \A f \in Files :
        /\ tree[f] <= edits /\ rows[f].hash <= edits
        /\ watch.hash[f] # Unread => watch.hash[f] <= edits
        /\ \A p \in Indexers : run[p].read[f] # Unread => run[p].read[f] <= edits

\* What a run has in its hands at each of its places.
Phases ==
    \A p \in Indexers :
        /\ run[p].pc \in {"idle", "load", "compare"} => run[p].batch = {}
        /\ run[p].pc = "delete" => run[p].batch \subseteq run[p].gone
        /\ run[p].pc = "index" =>
              /\ run[p].gone = {}
              /\ \A f \in run[p].batch : run[p].read[f] # Unread
        /\ run[p].pc # "index" => \A f \in Files : run[p].read[f] = Unread

\* An edit the watcher will look at.
Noticed(f) == pending[f] \in {"modify", "delete"}

\* What the watcher has parsed is the content of the file, or it will hear of
\* the edit since.
Watched ==
    /\ watch.pc # "parse" => watch.batch = {} /\ watch.gone = {}
    /\ \A f \in watch.batch :
          /\ watch.parsed[f] # Unread =>
                /\ watch.parsed[f] \notin Broken
                /\ watch.parsed[f] = tree[f] \/ Noticed(f)
          /\ watch.hash[f] # Unread => watch.parsed[f] # Unread

SInv == TypeOK /\ Past /\ Phases /\ Watched

\* The watcher will write the row, or nobody answers for it.
Excused(f) == Noticed(f) \/ f \in watch.batch \cup watch.gone \cup hurt \cup marked

\* While a run holds the content a file has, the row has no other symbols.
Cleared ==
    \A p \in Indexers : \A f \in run[p].batch :
        run[p].read[f] = tree[f] /\ tree[f] # 0 /\ ~Excused(f)
            => rows[f].symbols \subseteq Symbols(tree[f])

\* A row with the hash of the content has its symbols.
Agrees ==
    \A f \in Files :
        /\ rows[f].live /\ rows[f].hash = tree[f] /\ tree[f] # 0 /\ ~Excused(f)
        /\ \A p \in Indexers : f \notin run[p].batch
        => rows[f].symbols = Symbols(tree[f])

TInv == Cleared /\ Agrees

\* Two runs of the incremental index do not overlap.
OneIndexer == \A p, q \in Indexers : p = q


-----------------------------------------------------------------------------
(* The initial state, and the steps.                                       *)

\* Every content is less than Unread.
LEMMA UnreadIsLast ==
    /\ Unread \in Nat /\ Unread \notin Contents
    /\ 0 \in Contents /\ Contents \subseteq 0..Unread /\ Contents \subseteq Nat
    /\ \A c \in Contents : c # 0 => c \in 1..Unread
    /\ Nothing \in [Files -> 1..Unread] /\ Nothing \in [Files -> 0..Unread]
    /\ \A f \in Files : Nothing[f] = Unread
  BY IndexAssumption DEF Unread, Contents, Nothing

Watches ==
    [pc : {"idle", "parse", "off"}, batch : SUBSET Files, gone : SUBSET Files,
     parsed : [Files -> 1..Unread], hash : [Files -> 0..Unread]]

\* Nobody at work has a type.
LEMMA IdleTypes ==
    /\ IdleRun \in Runs /\ IdleRun.pc = "idle" /\ IdleRun.batch = {}
    /\ IdleRun.todo = {} /\ IdleRun.gone = {} /\ IdleRun.read = Nothing /\ RunReads(IdleRun)
    /\ IdleWatch \in Watches /\ IdleWatch.batch = {} /\ IdleWatch.gone = {}
    /\ IdleWatch.parsed = Nothing /\ IdleWatch.hash = Nothing /\ IdleWatch.pc = "idle"
  BY UnreadIsLast DEF IdleRun, Runs, RunReads, IdleWatch, Watches

\* Both invariants hold of a new index.
LEMMA InitInv == Init => SInv /\ TInv
<1> SUFFICES ASSUME Init PROVE SInv /\ TInv
  OBVIOUS
<1> USE IndexAssumption DEF Init, Contents, Unread, Nothing, NoRow, IdleWatch, IdleRun
<1>1. TypeOK
  <2>1. Cardinality({}) = 0
    BY FS_EmptySet
  <2>2. \A p \in Indexers : run[p] = IdleRun
    OBVIOUS
  <2>3. run \in [Indexers -> Runs]
    BY DEF Runs
  <2>4. rows \in [Files -> [live : BOOLEAN, hash : Contents, symbols : SUBSET (1..MaxEdits)]]
    OBVIOUS
  <2>5. Cardinality(watch.batch \cup watch.gone) < MegaBatch
    BY <2>1
  <2>6. WatchReads /\ \A p \in Indexers : RunReads(run[p]) /\ run[p].pc # "index"
    BY <2>2 DEF WatchReads, RunReads
  <2>7. watch = IdleWatch /\ IdleWatch \in Watches /\ watch.batch = {} /\ watch.gone = {}
    BY IdleTypes
  <2>8. /\ tree \in [Files -> Contents] /\ edits \in Contents /\ faults \in 0..MaxFaults
        /\ pending \in [Files -> {"none", "modify", "delete", "unknown"}]
        /\ hurt \subseteq Files /\ marked \subseteq Files
    OBVIOUS
  <2> HIDE DEF Init, Contents, Unread, Nothing, NoRow, IdleWatch, IdleRun
  <2>. QED
    BY <2>1, <2>3, <2>4, <2>5, <2>6, <2>7, <2>8 DEF TypeOK, Runs, Watches
<1>2. Past /\ Phases /\ Watched
  BY DEF Past, Phases, Watched
<1>3. Cleared /\ Agrees
  BY DEF Cleared, Agrees
<1>. QED
  BY <1>1, <1>2, <1>3 DEF SInv, TInv

\* A run's record changes to another one.
LEMMA RunSet ==
    ASSUME NEW r, run \in [Indexers -> Runs], NEW p \in Indexers, r \in Runs, Set(p, r)
    PROVE  /\ run' \in [Indexers -> Runs]
           /\ run'[p] = r
           /\ \A q \in Indexers \ {p} : run'[q] = run[q]
BY DEF Set

\* The five edits are one.
LEMMA EditorIsChange ==
    ASSUME SInv, NEW f \in Files, Editor(f)
    PROVE  \/ \E c \in Contents, k \in {"modify", "delete"} :
                 (c = 0 \/ c = edits + 1) /\ Change(f, c, k)
           \/ OtherEvent(f)
<1>1. edits < MaxEdits => edits + 1 \in Contents
  BY IndexAssumption DEF SInv, TypeOK, Contents
<1>2. 0 \in Contents
  BY IndexAssumption DEF Contents
<1>3. CASE Write(f)
  <2>1. Change(f, edits + 1, "modify") /\ edits < MaxEdits
    BY <1>3 DEF Write, Change
  <2>. QED
    BY <1>1, <2>1
<1>4. CASE Remove(f)
  BY <1>2, <1>4 DEF Remove
<1>5. CASE RenameAway(f)
  BY <1>2, <1>5 DEF RenameAway
<1>. QED
  BY <1>3, <1>4, <1>5 DEF Editor

-----------------------------------------------------------------------------
(* Types.                                                                  *)
\* The conjuncts of TypeOK, by what they are about.
TreeTypes ==
    /\ tree \in [Files -> Contents] /\ edits \in Contents /\ faults \in 0..MaxFaults
    /\ pending \in [Files -> {"none", "modify", "delete", "unknown"}]
    /\ hurt \subseteq Files /\ marked \subseteq Files
RowTypes ==
    rows \in [Files -> [live : BOOLEAN, hash : Contents, symbols : SUBSET (1..MaxEdits)]]
WatchTypes ==
    /\ watch \in Watches
    /\ watch.batch \cap watch.gone = {} /\ WatchReads
    /\ Cardinality(watch.batch \cup watch.gone) < MegaBatch
RunTypes ==
    /\ run \in [Indexers -> Runs]
    /\ \A p \in Indexers :
          /\ run[p].pc = "index" => Cardinality(run[p].batch) <= BatchSize
          /\ RunReads(run[p])

\* The type invariant is that of its four parts.
LEMMA TypeParts == TypeOK <=> TreeTypes /\ RowTypes /\ WatchTypes /\ RunTypes
BY DEF TypeOK, TreeTypes, RowTypes, WatchTypes, RunTypes, Runs, Watches

\* A step keeps the types of the tree and of the edits.
LEMMA TreeStep ==
    ASSUME SInv, [Next]_vars
    PROVE  TreeTypes'
<1> USE IndexAssumption
<1>0. TreeTypes /\ WatchTypes /\ RunTypes
  BY TypeParts DEF SInv
<1> USE <1>0 DEF WatchTypes, Watches, RunTypes, Runs
<1>1. ASSUME NEW f \in Files, NEW c \in Contents, NEW k \in {"modify", "delete"},
             c = 0 \/ c = edits + 1, Change(f, c, k)
      PROVE  TreeTypes'
  BY <1>1 DEF Change, Noted, worktree, TreeTypes, Contents
<1>2. ASSUME NEW f \in Files, OtherEvent(f)
      PROVE  TreeTypes'
  BY <1>2 DEF OtherEvent, Noted, worktree, TreeTypes, Contents
<1>3. ASSUME Refuse
      PROVE  TreeTypes'
  BY <1>3 DEF Refuse, Batch, worktree, TreeTypes, Contents
<1>4. ASSUME Take
      PROVE  TreeTypes'
  BY <1>4 DEF Take, Batch, IdleWatch, worktree, TreeTypes, Contents
<1>5. ASSUME NEW f \in Files, Parse(f)
      PROVE  TreeTypes'
  BY <1>5 DEF Parse, worktree, TreeTypes, Contents
<1>6. ASSUME NEW f \in Files, Hash(f)
      PROVE  TreeTypes'
  BY <1>6 DEF Hash, worktree, TreeTypes, Contents
<1>7. ASSUME Sync
      PROVE  TreeTypes'
  BY <1>7 DEF Sync, Synced, IdleWatch, worktree, TreeTypes, Contents
<1>8. ASSUME SyncFails
      PROVE  TreeTypes'
  BY <1>8 DEF SyncFails, IdleWatch, Fault, worktree, TreeTypes, Contents
<1>9. ASSUME WatchStops
      PROVE  TreeTypes'
  BY <1>9 DEF WatchStops, Fault, Batch, worktree, TreeTypes, Contents
<1>10. ASSUME NEW p \in Indexers, Discover(p)
      PROVE  TreeTypes'
  BY <1>10 DEF Discover, IdleRun, worktree, TreeTypes, Contents
<1>11. ASSUME NEW p \in Indexers, Load(p)
      PROVE  TreeTypes'
  BY <1>11 DEF Load, worktree, TreeTypes, Contents
<1>12. ASSUME NEW p \in Indexers, Compare(p)
      PROVE  TreeTypes'
  BY <1>12 DEF Compare, worktree, TreeTypes, Contents
<1>13. ASSUME NEW p \in Indexers, NEW f \in Files, DeleteSymbols(p, f)
      PROVE  TreeTypes'
  BY <1>13 DEF DeleteSymbols, worktree, TreeTypes, Contents
<1>14. ASSUME NEW p \in Indexers, NEW f \in Files, MarkDeleted(p, f)
      PROVE  TreeTypes'
  BY <1>14 DEF MarkDeleted, worktree, TreeTypes, Contents
<1>15. ASSUME NEW p \in Indexers, Deleted(p)
      PROVE  TreeTypes'
  BY <1>15 DEF Deleted, IdleRun, worktree, TreeTypes, Contents
<1>16. ASSUME NEW p \in Indexers, NEW f \in Files, Work(p, f)
      PROVE  TreeTypes'
  BY <1>16 DEF Work, worktree, TreeTypes, Contents
<1>17. ASSUME NEW p \in Indexers, NEW f \in Files, Collect(p, f)
      PROVE  TreeTypes'
  BY <1>17 DEF Collect, Collected, worktree, TreeTypes, Contents
<1>18. ASSUME NEW p \in Indexers, NEW f \in Files, CollectFails(p, f)
      PROVE  TreeTypes'
  BY <1>18 DEF CollectFails, Collected, Fault, worktree, TreeTypes, Contents
<1>19. ASSUME NEW p \in Indexers, Flush(p)
      PROVE  TreeTypes'
  BY <1>19 DEF Flush, Upserted, IdleRun, worktree, TreeTypes, Contents
<1>20. ASSUME NEW p \in Indexers, Abort(p)
      PROVE  TreeTypes'
  BY <1>20 DEF Abort, IdleRun, Fault, worktree, TreeTypes, Contents
<1>21. CASE UNCHANGED vars
  BY <1>21 DEF vars, worktree, TreeTypes, Contents
<1>22. SInv
  OBVIOUS
<1>. QED
  BY <1>1, <1>2, <1>3, <1>4, <1>5, <1>6, <1>7, <1>8, <1>9, <1>10, <1>11, <1>12, <1>13,
     <1>14, <1>15, <1>16, <1>17, <1>18, <1>19, <1>20, <1>21, EditorIsChange
     DEF Next, WatchSteps, Faulty, IndexSteps

\* A step keeps the types of the rows.
LEMMA RowStep ==
    ASSUME SInv, [Next]_vars
    PROVE  RowTypes'
<1> USE IndexAssumption
<1>0. RowTypes /\ WatchTypes /\ RunTypes /\ Watched /\ Phases
  BY TypeParts DEF SInv
<1> USE <1>0
<1>1. ASSUME NEW f \in Files, NEW c \in Contents, NEW k \in {"modify", "delete"},
             c = 0 \/ c = edits + 1, Change(f, c, k)
      PROVE  RowTypes'
  BY <1>1 DEF Change, Noted, worktree, RowTypes
<1>2. ASSUME NEW f \in Files, OtherEvent(f)
      PROVE  RowTypes'
  BY <1>2 DEF OtherEvent, Noted, worktree, RowTypes
<1>3. ASSUME Refuse
      PROVE  RowTypes'
  BY <1>3 DEF Refuse, Batch, worktree, RowTypes
<1>4. ASSUME Take
      PROVE  RowTypes'
  BY <1>4 DEF Take, Batch, IdleWatch, worktree, RowTypes
<1>5. ASSUME NEW f \in Files, Parse(f)
      PROVE  RowTypes'
  BY <1>5 DEF Parse, worktree, RowTypes
<1>6. ASSUME NEW f \in Files, Hash(f)
      PROVE  RowTypes'
  BY <1>6 DEF Hash, worktree, RowTypes
<1>7. ASSUME Sync
      PROVE  RowTypes'
  <2>1. \A f \in watch.batch : watch.parsed[f] \in 1..MaxEdits /\ watch.hash[f] \in Contents
    BY <1>7 DEF Sync, Watched, WatchTypes, Watches, Unread, Contents
  <2>2. \A f \in Files :
        Synced(f) \in [live : BOOLEAN, hash : Contents, symbols : SUBSET (1..MaxEdits)]
    BY <2>1 DEF Synced, RowTypes
  <2>. QED
    BY <1>7, <2>2 DEF Sync, RowTypes
<1>8. ASSUME SyncFails
      PROVE  RowTypes'
  BY <1>8 DEF SyncFails, IdleWatch, Fault, worktree, RowTypes
<1>9. ASSUME WatchStops
      PROVE  RowTypes'
  BY <1>9 DEF WatchStops, IdleWatch, Fault, Batch, worktree, RowTypes
<1>10. ASSUME NEW p \in Indexers, Discover(p)
      PROVE  RowTypes'
  BY <1>10 DEF Discover, IdleRun, worktree, RowTypes
<1>11. ASSUME NEW p \in Indexers, Load(p)
      PROVE  RowTypes'
  BY <1>11 DEF Load, worktree, RowTypes
<1>12. ASSUME NEW p \in Indexers, Compare(p)
      PROVE  RowTypes'
  BY <1>12 DEF Compare, worktree, RowTypes
<1>13. ASSUME NEW p \in Indexers, NEW f \in Files, DeleteSymbols(p, f)
      PROVE  RowTypes'
  BY <1>13 DEF DeleteSymbols, worktree, RowTypes
<1>14. ASSUME NEW p \in Indexers, NEW f \in Files, MarkDeleted(p, f)
      PROVE  RowTypes'
  BY <1>14 DEF MarkDeleted, worktree, RowTypes
<1>15. ASSUME NEW p \in Indexers, Deleted(p)
      PROVE  RowTypes'
  BY <1>15 DEF Deleted, IdleRun, worktree, RowTypes
<1>16. ASSUME NEW p \in Indexers, NEW f \in Files, Work(p, f)
      PROVE  RowTypes'
  BY <1>16 DEF Work, worktree, RowTypes
<1>17. ASSUME NEW p \in Indexers, NEW f \in Files, Collect(p, f)
      PROVE  RowTypes'
  BY <1>17 DEF Collect, Collected, worktree, RowTypes
<1>18. ASSUME NEW p \in Indexers, NEW f \in Files, CollectFails(p, f)
      PROVE  RowTypes'
  BY <1>18 DEF CollectFails, Collected, Fault, worktree, RowTypes
<1>19. ASSUME NEW p \in Indexers, Flush(p)
      PROVE  RowTypes'
  <2>1. \A f \in run[p].batch : run[p].read[f] \in Contents
    BY <1>19 DEF Flush, Phases, RunTypes, Runs, Unread, Contents
  <2>2. \A f \in run[p].batch : Symbols(run[p].read[f]) \subseteq 1..MaxEdits
    BY <2>1 DEF Symbols, Contents
  <2>3. \A f \in run[p].batch : f \in Files
    BY DEF RunTypes, Runs
  <2>4. \A f \in run[p].batch :
           Upserted(p, f) \in [live : BOOLEAN, hash : Contents, symbols : SUBSET (1..MaxEdits)]
    BY <2>1, <2>2, <2>3 DEF Upserted, RowTypes
  <2>. QED
    BY <1>19, <2>4 DEF Flush, RowTypes
<1>20. ASSUME NEW p \in Indexers, Abort(p)
      PROVE  RowTypes'
  BY <1>20 DEF Abort, IdleRun, Fault, worktree, RowTypes
<1>21. CASE UNCHANGED vars
  BY <1>21 DEF vars, worktree, RowTypes
<1>22. SInv
  OBVIOUS
<1>. QED
  BY <1>1, <1>2, <1>3, <1>4, <1>5, <1>6, <1>7, <1>8, <1>9, <1>10, <1>11, <1>12, <1>13,
     <1>14, <1>15, <1>16, <1>17, <1>18, <1>19, <1>20, <1>21, EditorIsChange
     DEF Next, WatchSteps, Faulty, IndexSteps

\* A step keeps the types of the watcher.
LEMMA WatchTypeStep ==
    ASSUME SInv, [Next]_vars
    PROVE  WatchTypes'
<1> USE IndexAssumption
<1>0. TreeTypes /\ WatchTypes /\ Watched
  BY TypeParts DEF SInv
<1> USE <1>0
<1>1. ASSUME NEW f \in Files, NEW c \in Contents, NEW k \in {"modify", "delete"},
             c = 0 \/ c = edits + 1, Change(f, c, k)
      PROVE  WatchTypes'
  BY <1>1 DEF Change, Noted, worktree, WatchTypes, WatchReads
<1>2. ASSUME NEW f \in Files, OtherEvent(f)
      PROVE  WatchTypes'
  BY <1>2 DEF OtherEvent, Noted, worktree, WatchTypes, WatchReads
<1>3. ASSUME Refuse
      PROVE  WatchTypes'
  BY <1>3 DEF Refuse, Batch, worktree, WatchTypes, WatchReads
<1>4. ASSUME Take
      PROVE  WatchTypes'
  <2> DEFINE b == {f \in Batch : pending[f] = "modify"}
             g == {f \in Batch : pending[f] = "delete"}
  <2>1. watch' = [IdleWatch EXCEPT !.pc = "parse", !.batch = b, !.gone = g]
    BY <1>4 DEF Take
  <2>2. b \subseteq Batch /\ g \subseteq Batch /\ Batch \subseteq Files /\ b \cap g = {}
    BY DEF Batch
  <2>3. IsFiniteSet(Batch) /\ Cardinality(Batch) < MegaBatch
    BY <1>4, <2>2, FS_Subset DEF Take
  <2> HIDE DEF b, g
  <2>4. Cardinality(b \cup g) <= Cardinality(Batch) /\ Cardinality(b \cup g) \in Nat
        /\ Cardinality(Batch) \in Nat
    BY <2>2, <2>3, FS_Subset, FS_CardinalityType
  <2>5. Cardinality(b \cup g) < MegaBatch
    BY <2>3, <2>4
  <2>6. /\ watch' \in Watches /\ watch'.batch = b /\ watch'.gone = g
        /\ watch'.parsed = Nothing /\ watch'.hash = Nothing
    BY <2>1, <2>2, IdleTypes DEF Watches
  <2>. QED
    BY <2>2, <2>5, <2>6, UnreadIsLast DEF WatchTypes, WatchReads
<1>5. ASSUME NEW f \in Files, Parse(f)
      PROVE  WatchTypes'
  <2>1. /\ watch' \in Watches
        /\ watch'.batch \cap watch'.gone = {}
        /\ watch'.batch \cup watch'.gone \subseteq watch.batch \cup watch.gone
        /\ WatchReads'
    <3>1. tree[f] \in Contents
      BY <1>0 DEF TreeTypes
    <3>2. CASE tree[f] = 0
      BY <1>5, <3>2 DEF Parse, WatchTypes, Watches, WatchReads, Watched
    <3>3. CASE tree[f] # 0 /\ tree[f] \in Broken
      BY <1>5, <3>3 DEF Parse, WatchTypes, Watches, WatchReads, Watched
    <3>4. CASE tree[f] # 0 /\ tree[f] \notin Broken
      <4>1. tree[f] \in 1..Unread
        BY <3>1, <3>4 DEF Contents, Unread
      <4>. QED
        BY <1>5, <3>4, <4>1 DEF Parse, WatchTypes, Watches, WatchReads, Watched
    <3>. QED
      BY <3>2, <3>3, <3>4
  <2> DEFINE old == watch.batch \cup watch.gone
             new == watch'.batch \cup watch'.gone
  <2>2. new \subseteq old /\ old \subseteq Files /\ Cardinality(old) < MegaBatch
    BY <2>1 DEF WatchTypes, Watches
  <2> HIDE DEF old, new
  <2>3. /\ Cardinality(new) <= Cardinality(old)
        /\ Cardinality(new) \in Nat /\ Cardinality(old) \in Nat
    BY <2>2, FS_Subset, FS_CardinalityType
  <2>4. Cardinality(new) < MegaBatch
    BY <2>2, <2>3
  <2>. QED
    BY <2>1, <2>4 DEF new, WatchTypes
<1>6. ASSUME NEW f \in Files, Hash(f)
      PROVE  WatchTypes'
  <2>1. tree[f] \in 0..Unread
    BY <1>0 DEF TreeTypes, Contents, Unread
  <2>. QED
    BY <1>6, <2>1 DEF Hash, WatchTypes, Watches, WatchReads
<1>7. ASSUME Sync
      PROVE  WatchTypes'
  <2>1. /\ watch' \in Watches /\ watch'.batch = {} /\ watch'.gone = {}
        /\ watch'.parsed = Nothing /\ watch'.hash = Nothing
    BY <1>7, IdleTypes DEF Sync, Watches
  <2>. QED
    BY <2>1, FS_EmptySet, UnreadIsLast DEF WatchTypes, WatchReads
<1>8. ASSUME SyncFails
      PROVE  WatchTypes'
  <2>1. /\ watch' \in Watches /\ watch'.batch = {} /\ watch'.gone = {}
        /\ watch'.parsed = Nothing /\ watch'.hash = Nothing
    BY <1>8, IdleTypes DEF SyncFails, Watches
  <2>. QED
    BY <2>1, FS_EmptySet, UnreadIsLast DEF WatchTypes, WatchReads
<1>9. ASSUME WatchStops
      PROVE  WatchTypes'
  <2>1. /\ watch' \in Watches /\ watch'.batch = {} /\ watch'.gone = {}
        /\ watch'.parsed = Nothing /\ watch'.hash = Nothing
    BY <1>9, IdleTypes DEF WatchStops, Watches
  <2>. QED
    BY <2>1, FS_EmptySet, UnreadIsLast DEF WatchTypes, WatchReads
<1>10. ASSUME NEW p \in Indexers, Discover(p)
      PROVE  WatchTypes'
  BY <1>10 DEF Discover, IdleRun, worktree, WatchTypes, WatchReads
<1>11. ASSUME NEW p \in Indexers, Load(p)
      PROVE  WatchTypes'
  BY <1>11 DEF Load, worktree, WatchTypes, WatchReads
<1>12. ASSUME NEW p \in Indexers, Compare(p)
      PROVE  WatchTypes'
  BY <1>12 DEF Compare, worktree, WatchTypes, WatchReads
<1>13. ASSUME NEW p \in Indexers, NEW f \in Files, DeleteSymbols(p, f)
      PROVE  WatchTypes'
  BY <1>13 DEF DeleteSymbols, worktree, WatchTypes, WatchReads
<1>14. ASSUME NEW p \in Indexers, NEW f \in Files, MarkDeleted(p, f)
      PROVE  WatchTypes'
  BY <1>14 DEF MarkDeleted, worktree, WatchTypes, WatchReads
<1>15. ASSUME NEW p \in Indexers, Deleted(p)
      PROVE  WatchTypes'
  BY <1>15 DEF Deleted, IdleRun, worktree, WatchTypes, WatchReads
<1>16. ASSUME NEW p \in Indexers, NEW f \in Files, Work(p, f)
      PROVE  WatchTypes'
  BY <1>16 DEF Work, worktree, WatchTypes, WatchReads
<1>17. ASSUME NEW p \in Indexers, NEW f \in Files, Collect(p, f)
      PROVE  WatchTypes'
  BY <1>17 DEF Collect, Collected, worktree, WatchTypes, WatchReads
<1>18. ASSUME NEW p \in Indexers, NEW f \in Files, CollectFails(p, f)
      PROVE  WatchTypes'
  BY <1>18 DEF CollectFails, Collected, Fault, worktree, WatchTypes, WatchReads
<1>19. ASSUME NEW p \in Indexers, Flush(p)
      PROVE  WatchTypes'
  BY <1>19 DEF Flush, Upserted, IdleRun, worktree, WatchTypes, WatchReads
<1>20. ASSUME NEW p \in Indexers, Abort(p)
      PROVE  WatchTypes'
  BY <1>20 DEF Abort, IdleRun, Fault, worktree, WatchTypes, WatchReads
<1>21. CASE UNCHANGED vars
  BY <1>21 DEF vars, worktree, WatchTypes, WatchReads
<1>22. SInv
  OBVIOUS
<1>. QED
  BY <1>1, <1>2, <1>3, <1>4, <1>5, <1>6, <1>7, <1>8, <1>9, <1>10, <1>11, <1>12, <1>13,
     <1>14, <1>15, <1>16, <1>17, <1>18, <1>19, <1>20, <1>21, EditorIsChange
     DEF Next, WatchSteps, Faulty, IndexSteps

\* A step keeps the types of the runs.
LEMMA RunTypeStep ==
    ASSUME SInv, [Next]_vars
    PROVE  RunTypes'
<1> USE IndexAssumption
<1>0. TreeTypes /\ RowTypes /\ RunTypes /\ Phases
  BY TypeParts DEF SInv
<1>1. ASSUME NEW f \in Files, NEW c \in Contents, NEW k \in {"modify", "delete"},
             c = 0 \/ c = edits + 1, Change(f, c, k)
      PROVE  RunTypes'
  BY <1>0, <1>1 DEF Change, Noted, worktree, RunTypes
<1>2. ASSUME NEW f \in Files, OtherEvent(f)
      PROVE  RunTypes'
  BY <1>0, <1>2 DEF OtherEvent, Noted, worktree, RunTypes
<1>3. ASSUME Refuse
      PROVE  RunTypes'
  BY <1>0, <1>3 DEF Refuse, Batch, worktree, RunTypes
<1>4. ASSUME Take
      PROVE  RunTypes'
  BY <1>0, <1>4 DEF Take, Batch, IdleWatch, worktree, RunTypes
<1>5. ASSUME NEW f \in Files, Parse(f)
      PROVE  RunTypes'
  BY <1>0, <1>5 DEF Parse, worktree, RunTypes
<1>6. ASSUME NEW f \in Files, Hash(f)
      PROVE  RunTypes'
  BY <1>0, <1>6 DEF Hash, worktree, RunTypes
<1>7. ASSUME Sync
      PROVE  RunTypes'
  BY <1>0, <1>7 DEF Sync, Synced, IdleWatch, worktree, RunTypes
<1>8. ASSUME SyncFails
      PROVE  RunTypes'
  BY <1>0, <1>8 DEF SyncFails, IdleWatch, Fault, worktree, RunTypes
<1>9. ASSUME WatchStops
      PROVE  RunTypes'
  BY <1>0, <1>9 DEF WatchStops, IdleWatch, Fault, Batch, worktree, RunTypes
<1>10. ASSUME NEW p \in Indexers, Discover(p)
      PROVE  RunTypes'
  <2> DEFINE r == [IdleRun EXCEPT !.pc = "load", !.found = {f \in Files : tree[f] # 0}]
  <2>1. Set(p, r)
    BY <1>10 DEF Discover
  <2>2. r \in Runs
    BY <1>0, <1>10, IdleTypes, UnreadIsLast DEF Discover, RunTypes, Runs, TreeTypes,
       RowTypes
  <2>4. TRUE
    OBVIOUS
  <2>5. (r.pc = "index" => Cardinality(r.batch) <= BatchSize) /\ RunReads(r)
    BY <1>0, <1>10, <2>4, IdleTypes, UnreadIsLast DEF Discover, RunTypes, Runs, Phases, RunReads
  <2> HIDE DEF r
  <2>6. run' \in [Indexers -> Runs] /\ run'[p] = r /\ \A q \in Indexers \ {p} : run'[q] = run[q]
    BY <1>0, <2>1, <2>2, RunSet DEF RunTypes
  <2>. QED
    BY <1>0, <2>5, <2>6 DEF RunTypes
<1>11. ASSUME NEW p \in Indexers, Load(p)
      PROVE  RunTypes'
  <2> DEFINE r == [run[p] EXCEPT
            !.pc = "compare",
            !.known = [f \in Files |-> IF rows[f].live THEN rows[f].hash ELSE Unread]]
  <2>1. Set(p, r)
    BY <1>11 DEF Load
  <2>2. r \in Runs
    BY <1>0, <1>11, IdleTypes, UnreadIsLast DEF Load, RunTypes, Runs, TreeTypes, RowTypes
  <2>4. TRUE
    OBVIOUS
  <2>5. (r.pc = "index" => Cardinality(r.batch) <= BatchSize) /\ RunReads(r)
    BY <1>0, <1>11, <2>4, IdleTypes DEF Load, RunTypes, Runs, Phases, RunReads
  <2> HIDE DEF r
  <2>6. run' \in [Indexers -> Runs] /\ run'[p] = r /\ \A q \in Indexers \ {p} : run'[q] = run[q]
    BY <1>0, <2>1, <2>2, RunSet DEF RunTypes
  <2>. QED
    BY <1>0, <2>5, <2>6 DEF RunTypes
<1>12. ASSUME NEW p \in Indexers, Compare(p)
      PROVE  RunTypes'
  <2> DEFINE r == [run[p] EXCEPT
            !.pc = "delete",
            !.todo = {f \in run[p].found : run[p].known[f] # tree[f] \/ tree[f] = 0},
            !.gone = {f \in Files \ run[p].found : run[p].known[f] # Unread}]
  <2>1. Set(p, r)
    BY <1>12 DEF Compare
  <2>2. r \in Runs
    BY <1>0, <1>12, IdleTypes, UnreadIsLast DEF Compare, RunTypes, Runs, TreeTypes, RowTypes
  <2>4. TRUE
    OBVIOUS
  <2>5. (r.pc = "index" => Cardinality(r.batch) <= BatchSize) /\ RunReads(r)
    BY <1>0, <1>12, <2>4, IdleTypes DEF Compare, RunTypes, Runs, Phases, RunReads
  <2> HIDE DEF r
  <2>6. run' \in [Indexers -> Runs] /\ run'[p] = r /\ \A q \in Indexers \ {p} : run'[q] = run[q]
    BY <1>0, <2>1, <2>2, RunSet DEF RunTypes
  <2>. QED
    BY <1>0, <2>5, <2>6 DEF RunTypes
<1>13. ASSUME NEW p \in Indexers, NEW f \in Files, DeleteSymbols(p, f)
      PROVE  RunTypes'
  <2> DEFINE r == [run[p] EXCEPT !.batch = @ \cup {f}]
  <2>1. Set(p, r)
    BY <1>13 DEF DeleteSymbols
  <2>2. r \in Runs
    BY <1>0, <1>13, IdleTypes, UnreadIsLast DEF DeleteSymbols, RunTypes, Runs, TreeTypes,
       RowTypes
  <2>4. TRUE
    OBVIOUS
  <2>5. (r.pc = "index" => Cardinality(r.batch) <= BatchSize) /\ RunReads(r)
    BY <1>0, <1>13, <2>4, IdleTypes DEF DeleteSymbols, RunTypes, Runs, Phases, RunReads
  <2> HIDE DEF r
  <2>6. run' \in [Indexers -> Runs] /\ run'[p] = r /\ \A q \in Indexers \ {p} : run'[q] = run[q]
    BY <1>0, <2>1, <2>2, RunSet DEF RunTypes
  <2>. QED
    BY <1>0, <2>5, <2>6 DEF RunTypes
<1>14. ASSUME NEW p \in Indexers, NEW f \in Files, MarkDeleted(p, f)
      PROVE  RunTypes'
  <2> DEFINE r == [run[p] EXCEPT !.gone = @ \ {f}, !.batch = @ \ {f}]
  <2>1. Set(p, r)
    BY <1>14 DEF MarkDeleted
  <2>2. r \in Runs
    BY <1>0, <1>14, IdleTypes, UnreadIsLast DEF MarkDeleted, RunTypes, Runs, TreeTypes,
       RowTypes
  <2>4. TRUE
    OBVIOUS
  <2>5. (r.pc = "index" => Cardinality(r.batch) <= BatchSize) /\ RunReads(r)
    BY <1>0, <1>14, <2>4, IdleTypes DEF MarkDeleted, RunTypes, Runs, Phases, RunReads
  <2> HIDE DEF r
  <2>6. run' \in [Indexers -> Runs] /\ run'[p] = r /\ \A q \in Indexers \ {p} : run'[q] = run[q]
    BY <1>0, <2>1, <2>2, RunSet DEF RunTypes
  <2>. QED
    BY <1>0, <2>5, <2>6 DEF RunTypes
<1>15. ASSUME NEW p \in Indexers, Deleted(p)
      PROVE  RunTypes'
  <2> DEFINE r == IF run[p].todo = {} THEN IdleRun ELSE [run[p] EXCEPT !.pc = "index"]
  <2>1. Set(p, r)
    BY <1>15 DEF Deleted
  <2>2. r \in Runs
    BY <1>0, <1>15, IdleTypes, UnreadIsLast DEF Deleted, RunTypes, Runs, TreeTypes, RowTypes
  <2>4. Cardinality({}) <= BatchSize
    BY FS_EmptySet
  <2>5. (r.pc = "index" => Cardinality(r.batch) <= BatchSize) /\ RunReads(r)
    <3>1. CASE run[p].todo = {}
      BY <3>1, IdleTypes
    <3>2. CASE run[p].todo # {}
      <4>1. /\ r.batch = {} /\ r.todo = run[p].todo /\ r.gone = run[p].gone
            /\ r.found = run[p].found /\ r.read = run[p].read
        BY <1>0, <1>15, <3>2 DEF Deleted, RunTypes, Runs, Phases
      <4>2. RunReads(run[p])
        BY <1>0 DEF RunTypes
      <4>. QED
        BY <2>4, <4>1, <4>2 DEF RunReads
    <3>. QED
      BY <3>1, <3>2
  <2> HIDE DEF r
  <2>6. run' \in [Indexers -> Runs] /\ run'[p] = r /\ \A q \in Indexers \ {p} : run'[q] = run[q]
    BY <1>0, <2>1, <2>2, RunSet DEF RunTypes
  <2>. QED
    BY <1>0, <2>5, <2>6 DEF RunTypes
<1>16. ASSUME NEW p \in Indexers, NEW f \in Files, Work(p, f)
      PROVE  RunTypes'
  <2> DEFINE r == [run[p] EXCEPT !.read[f] = tree[f]]
  <2>1. Set(p, r)
    BY <1>16 DEF Work
  <2>2. r \in Runs
    BY <1>0, <1>16, IdleTypes, UnreadIsLast DEF Work, RunTypes, Runs, TreeTypes, RowTypes
  <2>4. TRUE
    OBVIOUS
  <2>5. (r.pc = "index" => Cardinality(r.batch) <= BatchSize) /\ RunReads(r)
    BY <1>0, <1>16, <2>4, IdleTypes DEF Work, RunTypes, Runs, Phases, RunReads
  <2> HIDE DEF r
  <2>6. run' \in [Indexers -> Runs] /\ run'[p] = r /\ \A q \in Indexers \ {p} : run'[q] = run[q]
    BY <1>0, <2>1, <2>2, RunSet DEF RunTypes
  <2>. QED
    BY <1>0, <2>5, <2>6 DEF RunTypes
<1>17. ASSUME NEW p \in Indexers, NEW f \in Files, Collect(p, f)
      PROVE  RunTypes'
  <2> DEFINE r == [run[p] EXCEPT !.todo = @ \ {f}, !.batch = @ \cup {f}]
  <2>1. Set(p, r)
    BY <1>17 DEF Collect, Collected
  <2>2. r \in Runs
    BY <1>0, <1>17, IdleTypes, UnreadIsLast DEF Collect, Collected, RunTypes, Runs,
       TreeTypes, RowTypes
  <2>4. Cardinality(run[p].batch \cup {f}) <= BatchSize
    <3> DEFINE b == run[p].batch
    <3>1. b \subseteq Files /\ Cardinality(b) < BatchSize
      BY <1>0, <1>17 DEF Collect, RunTypes, Runs
    <3> HIDE DEF b
    <3>2. IsFiniteSet(b) /\ Cardinality(b) \in Nat
      BY <3>1, FS_Subset, FS_CardinalityType
    <3>3. Cardinality(b \cup {f}) = IF f \in b THEN Cardinality(b) ELSE Cardinality(b) + 1
      BY <3>2, FS_AddElement
    <3>4. Cardinality(b \cup {f}) <= BatchSize
      BY <3>1, <3>2, <3>3
    <3>. QED
      BY <3>4 DEF b
  <2>5. (r.pc = "index" => Cardinality(r.batch) <= BatchSize) /\ RunReads(r)
    BY <1>0, <1>17, <2>4, IdleTypes DEF Collect, Collected, RunTypes, Runs, Phases, RunReads
  <2> HIDE DEF r
  <2>6. run' \in [Indexers -> Runs] /\ run'[p] = r /\ \A q \in Indexers \ {p} : run'[q] = run[q]
    BY <1>0, <2>1, <2>2, RunSet DEF RunTypes
  <2>. QED
    BY <1>0, <2>5, <2>6 DEF RunTypes
<1>18. ASSUME NEW p \in Indexers, NEW f \in Files, CollectFails(p, f)
      PROVE  RunTypes'
  <2> DEFINE r == [run[p] EXCEPT !.todo = @ \ {f}, !.batch = @ \cup {f}]
  <2>1. Set(p, r)
    BY <1>18 DEF CollectFails, Collected, Fault
  <2>2. r \in Runs
    BY <1>0, <1>18, IdleTypes, UnreadIsLast DEF CollectFails, Fault, RunTypes, Runs,
       TreeTypes, RowTypes
  <2>4. Cardinality(run[p].batch \cup {f}) <= BatchSize
    <3> DEFINE b == run[p].batch
    <3>1. b \subseteq Files /\ Cardinality(b) < BatchSize
      BY <1>0, <1>18 DEF CollectFails, RunTypes, Runs
    <3> HIDE DEF b
    <3>2. IsFiniteSet(b) /\ Cardinality(b) \in Nat
      BY <3>1, FS_Subset, FS_CardinalityType
    <3>3. Cardinality(b \cup {f}) = IF f \in b THEN Cardinality(b) ELSE Cardinality(b) + 1
      BY <3>2, FS_AddElement
    <3>4. Cardinality(b \cup {f}) <= BatchSize
      BY <3>1, <3>2, <3>3
    <3>. QED
      BY <3>4 DEF b
  <2>5. (r.pc = "index" => Cardinality(r.batch) <= BatchSize) /\ RunReads(r)
    BY <1>0, <1>18, <2>4, IdleTypes DEF CollectFails, Collected, Fault, RunTypes, Runs,
       Phases, RunReads
  <2> HIDE DEF r
  <2>6. run' \in [Indexers -> Runs] /\ run'[p] = r /\ \A q \in Indexers \ {p} : run'[q] = run[q]
    BY <1>0, <2>1, <2>2, RunSet DEF RunTypes
  <2>. QED
    BY <1>0, <2>5, <2>6 DEF RunTypes
<1>19. ASSUME NEW p \in Indexers, Flush(p)
      PROVE  RunTypes'
  <2> DEFINE r == IF run[p].todo = {} THEN IdleRun ELSE [run[p] EXCEPT !.batch = {}]
  <2>1. Set(p, r)
    BY <1>19 DEF Flush, Upserted
  <2>2. r \in Runs
    BY <1>0, <1>19, IdleTypes, UnreadIsLast DEF Flush, Upserted, RunTypes, Runs, TreeTypes,
       RowTypes
  <2>4. Cardinality({}) <= BatchSize
    BY FS_EmptySet
  <2>5. (r.pc = "index" => Cardinality(r.batch) <= BatchSize) /\ RunReads(r)
    BY <1>0, <1>19, <2>4, IdleTypes, UnreadIsLast DEF Flush, Upserted, RunTypes, Runs,
       Phases, RunReads
  <2> HIDE DEF r
  <2>6. run' \in [Indexers -> Runs] /\ run'[p] = r /\ \A q \in Indexers \ {p} : run'[q] = run[q]
    BY <1>0, <2>1, <2>2, RunSet DEF RunTypes
  <2>. QED
    BY <1>0, <2>5, <2>6 DEF RunTypes
<1>20. ASSUME NEW p \in Indexers, Abort(p)
      PROVE  RunTypes'
  <2> DEFINE r == IdleRun
  <2>1. Set(p, r)
    BY <1>20 DEF Abort, Fault
  <2>2. r \in Runs
    BY <1>0, <1>20, IdleTypes, UnreadIsLast DEF Abort, Fault, RunTypes, Runs, TreeTypes,
       RowTypes
  <2>4. TRUE
    OBVIOUS
  <2>5. (r.pc = "index" => Cardinality(r.batch) <= BatchSize) /\ RunReads(r)
    BY <1>0, <1>20, <2>4, IdleTypes, UnreadIsLast DEF Abort, Fault, RunTypes, Runs, Phases, RunReads
  <2> HIDE DEF r
  <2>6. run' \in [Indexers -> Runs] /\ run'[p] = r /\ \A q \in Indexers \ {p} : run'[q] = run[q]
    BY <1>0, <2>1, <2>2, RunSet DEF RunTypes
  <2>. QED
    BY <1>0, <2>5, <2>6 DEF RunTypes
<1>21. CASE UNCHANGED vars
  BY <1>0, <1>21 DEF vars, worktree, RunTypes
<1>22. SInv
  OBVIOUS
<1>. QED
  BY <1>1, <1>2, <1>3, <1>4, <1>5, <1>6, <1>7, <1>8, <1>9, <1>10, <1>11, <1>12, <1>13,
     <1>14, <1>15, <1>16, <1>17, <1>18, <1>19, <1>20, <1>21, EditorIsChange
     DEF Next, WatchSteps, Faulty, IndexSteps

-----------------------------------------------------------------------------
(* Past, Phases and Watched.                                               *)

\* A step keeps that whatever was read is a content the file had.
LEMMA PastStep ==
    ASSUME SInv, [Next]_vars
    PROVE  Past'
<1> USE IndexAssumption
<1>0. TreeTypes /\ RowTypes /\ WatchTypes /\ RunTypes /\ Past /\ Phases /\ Watched
  BY TypeParts DEF SInv
<1>1. ASSUME NEW f \in Files, NEW c \in Contents, NEW k \in {"modify", "delete"},
             c = 0 \/ c = edits + 1, Change(f, c, k)
      PROVE  Past'
  <2>1. edits \in Nat /\ edits' = edits + 1 /\ c <= edits'
    BY <1>0, <1>1, UnreadIsLast DEF Change, TreeTypes
  <2>2. \A g \in Files : tree[g] \in Nat /\ rows[g].hash \in Nat /\ watch.hash[g] \in Nat
    <3>1. 0..Unread \subseteq Nat
      BY UnreadIsLast
    <3>2. \A g \in Files : tree[g] \in Contents /\ rows[g].hash \in Contents
      BY <1>0 DEF TreeTypes, RowTypes
    <3>3. \A g \in Files : watch.hash[g] \in 0..Unread
      BY <1>0 DEF WatchTypes, Watches
    <3>. QED
      BY <3>1, <3>2, <3>3, UnreadIsLast
  <2>3. \A p \in Indexers : \A g \in Files : run[p].read[g] \in Nat
    BY <1>0, UnreadIsLast DEF RunTypes, Runs
  <2>4. \A g \in Files : tree'[g] = IF g = f THEN c ELSE tree[g]
    BY <1>0, <1>1 DEF Change, TreeTypes
  <2>. QED
    BY <1>0, <1>1, <2>1, <2>2, <2>3, <2>4 DEF Change, Past
<1>2. ASSUME NEW f \in Files, OtherEvent(f)
      PROVE  Past'
  BY <1>0, <1>2, IdleTypes, UnreadIsLast DEF OtherEvent, worktree, Past, Watches, RunTypes,
     Runs
<1>3. ASSUME Refuse
      PROVE  Past'
  BY <1>0, <1>3, IdleTypes, UnreadIsLast DEF Refuse, worktree, Past, Watches, RunTypes, Runs
<1>4. ASSUME Take
      PROVE  Past'
  BY <1>0, <1>4, IdleTypes, UnreadIsLast DEF Take, worktree, Past, Watches, RunTypes, Runs
<1>5. ASSUME NEW f \in Files, Parse(f)
      PROVE  Past'
  BY <1>0, <1>5, IdleTypes, UnreadIsLast DEF Parse, worktree, Past, Watches, RunTypes, Runs
<1>6. ASSUME NEW f \in Files, Hash(f)
      PROVE  Past'
  BY <1>0, <1>6, IdleTypes, UnreadIsLast DEF Hash, worktree, Past, Watches, RunTypes, Runs
<1>7. ASSUME Sync
      PROVE  Past'
  <2>1. \A g \in Files : rows'[g].hash = IF g \in watch.batch THEN watch.hash[g] ELSE rows[g].hash
    BY <1>0, <1>7 DEF Sync, Synced, RowTypes, WatchTypes
  <2>2. \A g \in watch.batch : watch.hash[g] # Unread
    BY <1>7 DEF Sync
  <2>. QED
    BY <1>0, <1>7, <2>1, <2>2, IdleTypes, UnreadIsLast DEF Sync, worktree, Past
<1>8. ASSUME SyncFails
      PROVE  Past'
  BY <1>0, <1>8, IdleTypes, UnreadIsLast DEF SyncFails, worktree, Past, Watches, RunTypes,
     Runs
<1>9. ASSUME WatchStops
      PROVE  Past'
  BY <1>0, <1>9, IdleTypes, UnreadIsLast DEF WatchStops, worktree, Past, Watches, RunTypes,
     Runs
<1>10. ASSUME NEW p \in Indexers, Discover(p)
      PROVE  Past'
  BY <1>0, <1>10, IdleTypes, UnreadIsLast DEF Discover, worktree, Past, RunTypes, Runs, Set
<1>11. ASSUME NEW p \in Indexers, Load(p)
      PROVE  Past'
  BY <1>0, <1>11, IdleTypes, UnreadIsLast DEF Load, worktree, Past, RunTypes, Runs, Set
<1>12. ASSUME NEW p \in Indexers, Compare(p)
      PROVE  Past'
  BY <1>0, <1>12, IdleTypes, UnreadIsLast DEF Compare, worktree, Past, RunTypes, Runs, Set
<1>13. ASSUME NEW p \in Indexers, NEW f \in Files, DeleteSymbols(p, f)
      PROVE  Past'
  BY <1>0, <1>13, IdleTypes, UnreadIsLast DEF DeleteSymbols, worktree, Past, RunTypes, Runs,
     Set
<1>14. ASSUME NEW p \in Indexers, NEW f \in Files, MarkDeleted(p, f)
      PROVE  Past'
  BY <1>0, <1>14, IdleTypes, UnreadIsLast DEF MarkDeleted, worktree, Past, RunTypes, Runs,
     Set
<1>15. ASSUME NEW p \in Indexers, Deleted(p)
      PROVE  Past'
  BY <1>0, <1>15, IdleTypes, UnreadIsLast DEF Deleted, worktree, Past, RunTypes, Runs, Set
<1>16. ASSUME NEW p \in Indexers, NEW f \in Files, Work(p, f)
      PROVE  Past'
  BY <1>0, <1>16, IdleTypes, UnreadIsLast DEF Work, worktree, Past, RunTypes, Runs, Set
<1>17. ASSUME NEW p \in Indexers, NEW f \in Files, Collect(p, f)
      PROVE  Past'
  BY <1>0, <1>17, IdleTypes, UnreadIsLast DEF Collect, Collected, worktree, Past, Runs, Set
<1>18. ASSUME NEW p \in Indexers, NEW f \in Files, CollectFails(p, f)
      PROVE  Past'
  BY <1>0, <1>18, IdleTypes, UnreadIsLast DEF CollectFails, Collected, worktree, Past, Runs,
     Set
<1>19. ASSUME NEW p \in Indexers, Flush(p)
      PROVE  Past'
  <2>1. \A g \in Files : rows'[g].hash = IF g \in run[p].batch THEN run[p].read[g] ELSE rows[g].hash
    BY <1>0, <1>19 DEF Flush, Upserted, RowTypes
  <2>2. \A g \in run[p].batch : run[p].read[g] # Unread
    BY <1>0, <1>19 DEF Flush, Phases
  <2>3. \A q \in Indexers : run'[q].read = run[q].read \/ run'[q].read = Nothing
    BY <1>0, <1>19, IdleTypes DEF Flush, Set, RunTypes, Runs
  <2>. QED
    BY <1>0, <1>19, <2>1, <2>2, <2>3, UnreadIsLast DEF Flush, worktree, Past
<1>20. ASSUME NEW p \in Indexers, Abort(p)
      PROVE  Past'
  BY <1>0, <1>20, IdleTypes, UnreadIsLast DEF Abort, worktree, Past, RunTypes, Runs, Set
<1>21. CASE UNCHANGED vars
  BY <1>0, <1>21 DEF vars, worktree, Past
<1>22. SInv
  OBVIOUS
<1>. QED
  BY <1>1, <1>2, <1>3, <1>4, <1>5, <1>6, <1>7, <1>8, <1>9, <1>10, <1>11, <1>12, <1>13,
     <1>14, <1>15, <1>16, <1>17, <1>18, <1>19, <1>20, <1>21, EditorIsChange
     DEF Next, WatchSteps, Faulty, IndexSteps

\* A step keeps what each phase of a run says of what it holds.
LEMMA PhaseStep ==
    ASSUME SInv, [Next]_vars
    PROVE  Phases'
<1> USE IndexAssumption
<1>0. TreeTypes /\ RowTypes /\ WatchTypes /\ RunTypes /\ Past /\ Phases /\ Watched
  BY TypeParts DEF SInv
<1>1. ASSUME NEW f \in Files, NEW c \in Contents, NEW k \in {"modify", "delete"},
             c = 0 \/ c = edits + 1, Change(f, c, k)
      PROVE  Phases'
  BY <1>0, <1>1, IdleTypes, UnreadIsLast DEF Change, worktree, Phases, TreeTypes, RunTypes,
     Runs
<1>2. ASSUME NEW f \in Files, OtherEvent(f)
      PROVE  Phases'
  BY <1>0, <1>2, IdleTypes, UnreadIsLast DEF OtherEvent, worktree, Phases, TreeTypes,
     RunTypes, Runs
<1>3. ASSUME Refuse
      PROVE  Phases'
  BY <1>0, <1>3, IdleTypes, UnreadIsLast DEF Refuse, worktree, Phases, TreeTypes, RunTypes,
     Runs
<1>4. ASSUME Take
      PROVE  Phases'
  BY <1>0, <1>4, IdleTypes, UnreadIsLast DEF Take, worktree, Phases, TreeTypes, RunTypes,
     Runs
<1>5. ASSUME NEW f \in Files, Parse(f)
      PROVE  Phases'
  BY <1>0, <1>5, IdleTypes, UnreadIsLast DEF Parse, worktree, Phases, TreeTypes, RunTypes,
     Runs
<1>6. ASSUME NEW f \in Files, Hash(f)
      PROVE  Phases'
  BY <1>0, <1>6, IdleTypes, UnreadIsLast DEF Hash, worktree, Phases, TreeTypes, RunTypes,
     Runs
<1>7. ASSUME Sync
      PROVE  Phases'
  BY <1>0, <1>7 DEF Sync, Phases
<1>8. ASSUME SyncFails
      PROVE  Phases'
  BY <1>0, <1>8, IdleTypes, UnreadIsLast DEF SyncFails, worktree, Phases, TreeTypes,
     RunTypes, Runs
<1>9. ASSUME WatchStops
      PROVE  Phases'
  BY <1>0, <1>9, IdleTypes, UnreadIsLast DEF WatchStops, worktree, Phases, TreeTypes,
     RunTypes, Runs
<1>10. ASSUME NEW p \in Indexers, Discover(p)
      PROVE  Phases'
  BY <1>0, <1>10, IdleTypes, UnreadIsLast DEF Discover, Phases, TreeTypes, RunTypes, Runs,
     Set
<1>11. ASSUME NEW p \in Indexers, Load(p)
      PROVE  Phases'
  BY <1>0, <1>11, IdleTypes, UnreadIsLast DEF Load, Phases, TreeTypes, RunTypes, Runs, Set
<1>12. ASSUME NEW p \in Indexers, Compare(p)
      PROVE  Phases'
  BY <1>0, <1>12, IdleTypes, UnreadIsLast DEF Compare, Phases, TreeTypes, RunTypes, Runs,
     Set
<1>13. ASSUME NEW p \in Indexers, NEW f \in Files, DeleteSymbols(p, f)
      PROVE  Phases'
  BY <1>0, <1>13, IdleTypes, UnreadIsLast DEF DeleteSymbols, Phases, TreeTypes, RunTypes,
     Runs, Set
<1>14. ASSUME NEW p \in Indexers, NEW f \in Files, MarkDeleted(p, f)
      PROVE  Phases'
  BY <1>0, <1>14, IdleTypes, UnreadIsLast DEF MarkDeleted, Phases, TreeTypes, RunTypes,
     Runs, Set
<1>15. ASSUME NEW p \in Indexers, Deleted(p)
      PROVE  Phases'
  BY <1>0, <1>15, IdleTypes, UnreadIsLast DEF Deleted, Phases, TreeTypes, RunTypes, Runs,
     Set
<1>16. ASSUME NEW p \in Indexers, NEW f \in Files, Work(p, f)
      PROVE  Phases'
  BY <1>0, <1>16, IdleTypes, UnreadIsLast DEF Work, Phases, TreeTypes, RunTypes, Runs, Set
<1>17. ASSUME NEW p \in Indexers, NEW f \in Files, Collect(p, f)
      PROVE  Phases'
  BY <1>0, <1>17, IdleTypes, UnreadIsLast DEF Collect, Collected, Phases, RunTypes, Runs,
     Set
<1>18. ASSUME NEW p \in Indexers, NEW f \in Files, CollectFails(p, f)
      PROVE  Phases'
  BY <1>0, <1>18, IdleTypes, UnreadIsLast DEF CollectFails, Collected, Phases, RunTypes,
     Runs, Set
<1>19. ASSUME NEW p \in Indexers, Flush(p)
      PROVE  Phases'
  BY <1>0, <1>19, IdleTypes, UnreadIsLast DEF Flush, Phases, TreeTypes, RunTypes, Runs, Set
<1>20. ASSUME NEW p \in Indexers, Abort(p)
      PROVE  Phases'
  BY <1>0, <1>20, IdleTypes, UnreadIsLast DEF Abort, Phases, TreeTypes, RunTypes, Runs, Set
<1>21. CASE UNCHANGED vars
  BY <1>0, <1>21 DEF vars, worktree, Phases
<1>22. SInv
  OBVIOUS
<1>. QED
  BY <1>1, <1>2, <1>3, <1>4, <1>5, <1>6, <1>7, <1>8, <1>9, <1>10, <1>11, <1>12, <1>13,
     <1>14, <1>15, <1>16, <1>17, <1>18, <1>19, <1>20, <1>21, EditorIsChange
     DEF Next, WatchSteps, Faulty, IndexSteps

\* A step keeps that a parsed content is the present one, or that its
\* edit is pending.
LEMMA WatchedStep ==
    ASSUME SInv, [Next]_vars
    PROVE  Watched'
<1> USE IndexAssumption
<1>0. TreeTypes /\ RowTypes /\ WatchTypes /\ RunTypes /\ Past /\ Phases /\ Watched
  BY TypeParts DEF SInv
<1>1. ASSUME NEW f \in Files, NEW c \in Contents, NEW k \in {"modify", "delete"},
             c = 0 \/ c = edits + 1, Change(f, c, k)
      PROVE  Watched'
  BY <1>0, <1>1, IdleTypes, UnreadIsLast DEF Change, Noted, Watched, Noticed, TreeTypes,
     Watches
<1>2. ASSUME NEW f \in Files, OtherEvent(f)
      PROVE  Watched'
  BY <1>0, <1>2, IdleTypes, UnreadIsLast DEF OtherEvent, Noted, worktree, Watched, Noticed,
     Watches
<1>3. ASSUME Refuse
      PROVE  Watched'
  BY <1>0, <1>3, IdleTypes, UnreadIsLast DEF Refuse, Watched, Noticed, TreeTypes,
     WatchTypes, Watches
<1>4. ASSUME Take
      PROVE  Watched'
  BY <1>0, <1>4, IdleTypes, UnreadIsLast DEF Take, Batch, Watched, TreeTypes, WatchTypes,
     Watches
<1>5. ASSUME NEW f \in Files, Parse(f)
      PROVE  Watched'
  BY <1>0, <1>5, IdleTypes, UnreadIsLast DEF Parse, worktree, Watched, Noticed, WatchTypes,
     Watches
<1>6. ASSUME NEW f \in Files, Hash(f)
      PROVE  Watched'
  BY <1>0, <1>6, IdleTypes, UnreadIsLast DEF Hash, worktree, Watched, Noticed, WatchTypes,
     Watches
<1>7. ASSUME Sync
      PROVE  Watched'
  BY <1>0, <1>7, IdleTypes, UnreadIsLast DEF Sync, Watched, Noticed, TreeTypes, WatchTypes,
     Watches
<1>8. ASSUME SyncFails
      PROVE  Watched'
  BY <1>0, <1>8, IdleTypes, UnreadIsLast DEF SyncFails, Watched, Noticed, TreeTypes,
     WatchTypes, Watches
<1>9. ASSUME WatchStops
      PROVE  Watched'
  BY <1>0, <1>9, IdleTypes, UnreadIsLast DEF WatchStops, Watched, Noticed, TreeTypes,
     WatchTypes, Watches
<1>10. ASSUME NEW p \in Indexers, Discover(p)
      PROVE  Watched'
  BY <1>0, <1>10, IdleTypes, UnreadIsLast DEF Discover, worktree, Watched, Noticed,
     WatchTypes, Watches
<1>11. ASSUME NEW p \in Indexers, Load(p)
      PROVE  Watched'
  BY <1>0, <1>11, IdleTypes, UnreadIsLast DEF Load, worktree, Watched, Noticed, WatchTypes,
     Watches
<1>12. ASSUME NEW p \in Indexers, Compare(p)
      PROVE  Watched'
  BY <1>0, <1>12, IdleTypes, UnreadIsLast DEF Compare, worktree, Watched, Noticed,
     WatchTypes, Watches
<1>13. ASSUME NEW p \in Indexers, NEW f \in Files, DeleteSymbols(p, f)
      PROVE  Watched'
  BY <1>0, <1>13, IdleTypes, UnreadIsLast DEF DeleteSymbols, worktree, Watched, Noticed,
     WatchTypes, Watches
<1>14. ASSUME NEW p \in Indexers, NEW f \in Files, MarkDeleted(p, f)
      PROVE  Watched'
  BY <1>0, <1>14, IdleTypes, UnreadIsLast DEF MarkDeleted, worktree, Watched, Noticed,
     WatchTypes, Watches
<1>15. ASSUME NEW p \in Indexers, Deleted(p)
      PROVE  Watched'
  BY <1>0, <1>15, IdleTypes, UnreadIsLast DEF Deleted, worktree, Watched, Noticed,
     WatchTypes, Watches
<1>16. ASSUME NEW p \in Indexers, NEW f \in Files, Work(p, f)
      PROVE  Watched'
  BY <1>0, <1>16, IdleTypes, UnreadIsLast DEF Work, worktree, Watched, Noticed, WatchTypes,
     Watches
<1>17. ASSUME NEW p \in Indexers, NEW f \in Files, Collect(p, f)
      PROVE  Watched'
  BY <1>0, <1>17, IdleTypes, UnreadIsLast DEF Collect, worktree, Watched, Noticed,
     WatchTypes, Watches
<1>18. ASSUME NEW p \in Indexers, NEW f \in Files, CollectFails(p, f)
      PROVE  Watched'
  BY <1>0, <1>18, IdleTypes, UnreadIsLast DEF CollectFails, worktree, Watched, Noticed,
     WatchTypes, Watches
<1>19. ASSUME NEW p \in Indexers, Flush(p)
      PROVE  Watched'
  BY <1>0, <1>19, IdleTypes, UnreadIsLast DEF Flush, worktree, Watched, Noticed, WatchTypes,
     Watches
<1>20. ASSUME NEW p \in Indexers, Abort(p)
      PROVE  Watched'
  BY <1>0, <1>20, IdleTypes, UnreadIsLast DEF Abort, worktree, Watched, Noticed, WatchTypes,
     Watches
<1>21. CASE UNCHANGED vars
  BY <1>0, <1>21 DEF vars, worktree, Watched, Noticed
<1>22. SInv
  OBVIOUS
<1>. QED
  BY <1>1, <1>2, <1>3, <1>4, <1>5, <1>6, <1>7, <1>8, <1>9, <1>10, <1>11, <1>12, <1>13,
     <1>14, <1>15, <1>16, <1>17, <1>18, <1>19, <1>20, <1>21, EditorIsChange
     DEF Next, WatchSteps, Faulty, IndexSteps

-----------------------------------------------------------------------------
(* The results on types.                                                   *)

\* Whatever the editor, the watcher and the runs do, and whatever fails, what
\* they hold has its type.
LEMMA SafeStep == SInv /\ [Next]_vars => SInv'
<1> SUFFICES ASSUME SInv, [Next]_vars PROVE SInv'
  OBVIOUS
<1>1. TreeTypes' /\ RowTypes' /\ WatchTypes' /\ RunTypes'
  BY TreeStep, RowStep, WatchTypeStep, RunTypeStep
<1>2. TypeOK'
  BY <1>1, PTL, TypeParts
<1>. QED
  BY <1>2, PastStep, PhaseStep, WatchedStep DEF SInv

\* Tables, batches and what every run holds keep their types, for any number
\* of overlapping runs (execute_watch, incremental_index).
THEOREM IndexTypeCorrect == Spec => []TypeOK
<1>1. Init => SInv
  BY InitInv
<1>2. SInv => TypeOK
  BY DEF SInv
<1>. QED
  BY <1>1, <1>2, SafeStep, PTL DEF Spec

-----------------------------------------------------------------------------
(* The hash tells the truth.                                               *)

\* A step keeps that a row has no symbols but those of the content
\* that a run is about to write.
LEMMA ClearedStep ==
    ASSUME SInv, TInv, OneIndexer, [Next]_vars
    PROVE  Cleared'
<1> USE IndexAssumption
<1>0. /\ TreeTypes /\ RowTypes /\ WatchTypes /\ RunTypes
      /\ Past /\ Phases /\ Watched /\ Cleared /\ Agrees
  BY TypeParts DEF SInv, TInv
<1>1. ASSUME NEW f \in Files, NEW c \in Contents, NEW k \in {"modify", "delete"},
             c = 0 \/ c = edits + 1, Change(f, c, k)
      PROVE  Cleared'
  BY <1>0, <1>1, IdleTypes, UnreadIsLast DEF Change, Noted, Past, TreeTypes, RowTypes,
     Cleared, Excused, Noticed
<1>2. ASSUME NEW f \in Files, OtherEvent(f)
      PROVE  Cleared'
  BY <1>0, <1>2, IdleTypes, UnreadIsLast DEF OtherEvent, Noted, worktree, Cleared, Excused,
     Noticed
<1>3. ASSUME Refuse
      PROVE  Cleared'
  BY <1>0, <1>3, IdleTypes, UnreadIsLast DEF Refuse, Batch, worktree, RunTypes, Runs,
     Cleared, Excused, Noticed
<1>4. ASSUME Take
      PROVE  Cleared'
  BY <1>0, <1>4, IdleTypes, UnreadIsLast DEF Take, Batch, worktree, Watched, RunTypes, Runs,
     Cleared, Excused, Noticed
<1>5. ASSUME NEW f \in Files, Parse(f)
      PROVE  Cleared'
  BY <1>0, <1>5, IdleTypes, UnreadIsLast DEF Parse, worktree, Cleared, Excused, Noticed,
     Symbols
<1>6. ASSUME NEW f \in Files, Hash(f)
      PROVE  Cleared'
  BY <1>0, <1>6, IdleTypes, UnreadIsLast DEF Hash, worktree, Cleared, Excused, Noticed,
     Symbols
<1>7. ASSUME Sync
      PROVE  Cleared'
  <2>1. /\ run' = run /\ tree' = tree
        /\ \A g \in Files : Excused(g) => Excused(g)' \/ g \in watch.batch \cup watch.gone \cup hurt
        /\ \A g \in Files : Excused(g)' => Excused(g)
    BY <1>7, IdleTypes DEF Sync, worktree, Excused, Noticed
  <2>2. \A g \in Files : g \in hurt /\ ~Excused(g)' => g \in watch.batch \cup watch.gone
    BY <1>7 DEF Sync, Excused
  <2>3. \A g \in watch.batch :
          rows'[g].hash = watch.hash[g] /\ rows'[g].symbols = {watch.parsed[g]}
    BY <1>0, <1>7 DEF Sync, Synced, RowTypes, WatchTypes, Watches
  <2>4. \A g \in watch.gone : rows'[g].live = FALSE /\ rows'[g].symbols = {}
    BY <1>0, <1>7 DEF Sync, Synced, RowTypes, WatchTypes, Watches
  <2>5. \A g \in Files \ (watch.batch \cup watch.gone) : rows'[g] = rows[g]
    BY <1>0, <1>7 DEF Sync, Synced, RowTypes
  <2>6. \A g \in watch.batch : ~Excused(g)' /\ tree[g] # 0 => {watch.parsed[g]} = Symbols(tree[g])
    <3>1. \A g \in watch.batch : ~Excused(g)' => ~Noticed(g)
      BY <1>7 DEF Sync, Excused, Noticed
    <3>2. \A g \in watch.batch : watch.parsed[g] # Unread
      BY <1>0, <1>7 DEF Sync, Watched
    <3>. QED
      BY <1>0, <3>1, <3>2 DEF Watched, Symbols
  <2>7. \A q \in Indexers : run[q].batch \subseteq Files
    BY <1>0 DEF RunTypes, Runs
  <2>. QED
    BY <1>0, <2>1, <2>2, <2>3, <2>4, <2>5, <2>6, <2>7 DEF Cleared
<1>8. ASSUME SyncFails
      PROVE  Cleared'
  BY <1>0, <1>8, IdleTypes, UnreadIsLast DEF SyncFails, worktree, Cleared, Excused, Noticed,
     Symbols
<1>9. ASSUME WatchStops
      PROVE  Cleared'
  BY <1>0, <1>9, IdleTypes, UnreadIsLast DEF WatchStops, Batch, worktree, RunTypes, Runs,
     Cleared, Excused, Noticed
<1>10. ASSUME NEW p \in Indexers, Discover(p)
      PROVE  Cleared'
  BY <1>0, <1>10, IdleTypes, UnreadIsLast DEF Discover, RunTypes, OneIndexer, Cleared,
     Symbols, Set
<1>11. ASSUME NEW p \in Indexers, Load(p)
      PROVE  Cleared'
  BY <1>0, <1>11, IdleTypes, UnreadIsLast DEF Load, Phases, OneIndexer, Cleared, Symbols,
     Set
<1>12. ASSUME NEW p \in Indexers, Compare(p)
      PROVE  Cleared'
  BY <1>0, <1>12, IdleTypes, UnreadIsLast DEF Compare, Phases, OneIndexer, Cleared, Symbols,
     Set
<1>13. ASSUME NEW p \in Indexers, NEW f \in Files, DeleteSymbols(p, f)
      PROVE  Cleared'
  BY <1>0, <1>13, IdleTypes, UnreadIsLast DEF DeleteSymbols, worktree, RowTypes, Cleared,
     Excused, Noticed, Set
<1>14. ASSUME NEW p \in Indexers, NEW f \in Files, MarkDeleted(p, f)
      PROVE  Cleared'
  BY <1>0, <1>14, IdleTypes, UnreadIsLast DEF MarkDeleted, worktree, Cleared, Excused,
     Noticed, Set
<1>15. ASSUME NEW p \in Indexers, Deleted(p)
      PROVE  Cleared'
  BY <1>0, <1>15, IdleTypes, UnreadIsLast DEF Deleted, Phases, OneIndexer, Cleared, Symbols,
     Set
<1>16. ASSUME NEW p \in Indexers, NEW f \in Files, Work(p, f)
      PROVE  Cleared'
  <2>1. rows' = rows /\ tree' = tree /\ \A g \in Files : Excused(g)' <=> Excused(g)
    BY <1>16 DEF Work, worktree, Excused, Noticed
  <2>2. \A q \in Indexers : run'[q].batch = run[q].batch
    BY <1>0, <1>16 DEF Work, Set, RunTypes, Runs
  <2>3. f \notin run[p].batch
    BY <1>0, <1>16 DEF Work, Phases
  <2>4. \A q \in Indexers : \A g \in run[q].batch : run'[q].read[g] = run[q].read[g]
    BY <1>0, <1>16, <2>3 DEF Work, Set, RunTypes, Runs
  <2>5. \A q \in Indexers : run[q].batch \subseteq Files
    BY <1>0 DEF RunTypes, Runs
  <2>. QED
    BY <1>0, <2>1, <2>2, <2>4, <2>5 DEF Cleared
<1>17. ASSUME NEW p \in Indexers, NEW f \in Files, Collect(p, f)
      PROVE  Cleared'
  BY <1>0, <1>17, IdleTypes, UnreadIsLast DEF Collect, Collected, worktree, RowTypes,
     Cleared, Excused, Noticed, Set
<1>18. ASSUME NEW p \in Indexers, NEW f \in Files, CollectFails(p, f)
      PROVE  Cleared'
  BY <1>0, <1>18, IdleTypes, UnreadIsLast DEF CollectFails, Collected, worktree, Cleared,
     Excused, Noticed, Set
<1>19. ASSUME NEW p \in Indexers, Flush(p)
      PROVE  Cleared'
  BY <1>0, <1>19, IdleTypes, UnreadIsLast DEF Flush, RunTypes, OneIndexer, Cleared, Symbols,
     Set
<1>20. ASSUME NEW p \in Indexers, Abort(p)
      PROVE  Cleared'
  BY <1>0, <1>20, IdleTypes, UnreadIsLast DEF Abort, OneIndexer, Cleared, Excused, Symbols,
     Set
<1>21. CASE UNCHANGED vars
  BY <1>0, <1>21 DEF vars, worktree, Cleared, Excused, Noticed, Symbols
<1>22. SInv
  OBVIOUS
<1>. QED
  BY <1>1, <1>2, <1>3, <1>4, <1>5, <1>6, <1>7, <1>8, <1>9, <1>10, <1>11, <1>12, <1>13,
     <1>14, <1>15, <1>16, <1>17, <1>18, <1>19, <1>20, <1>21, EditorIsChange
     DEF Next, WatchSteps, Faulty, IndexSteps

\* A step keeps that a hash that agrees has the symbols of its content,
\* but for files that somebody is at work on.
LEMMA AgreesStep ==
    ASSUME SInv, TInv, OneIndexer, [Next]_vars
    PROVE  Agrees'
<1> USE IndexAssumption
<1>0. /\ TreeTypes /\ RowTypes /\ WatchTypes /\ RunTypes
      /\ Past /\ Phases /\ Watched /\ Cleared /\ Agrees
  BY TypeParts DEF SInv, TInv
<1>1. ASSUME NEW f \in Files, NEW c \in Contents, NEW k \in {"modify", "delete"},
             c = 0 \/ c = edits + 1, Change(f, c, k)
      PROVE  Agrees'
  <2>1. rows' = rows /\ run' = run /\ \A g \in Files \ {f} : tree'[g] = tree[g] /\ (Excused(g)' <=> Excused(g))
    BY <1>0, <1>1 DEF Change, Noted, TreeTypes, Excused, Noticed
  <2>2. tree'[f] = c /\ (c # 0 => rows[f].hash # c)
    <3>1. tree'[f] = c
      BY <1>0, <1>1 DEF Change, TreeTypes
    <3>2. edits \in Nat /\ rows[f].hash \in Nat /\ rows[f].hash <= edits
      BY <1>0, UnreadIsLast DEF TreeTypes, RowTypes, Past
    <3>. QED
      BY <1>1, <3>1, <3>2
  <2>. QED
    BY <1>0, <2>1, <2>2 DEF Agrees
<1>2. ASSUME NEW f \in Files, OtherEvent(f)
      PROVE  Agrees'
  <2>1. rows' = rows /\ run' = run /\ tree' = tree
        /\ \A g \in Files : Excused(g)' <=> Excused(g)
    BY <1>0, <1>2 DEF OtherEvent, Noted, worktree, TreeTypes, Excused, Noticed
  <2>. QED
    BY <1>0, <2>1 DEF Agrees
<1>3. ASSUME Refuse
      PROVE  Agrees'
  BY <1>0, <1>3, IdleTypes, UnreadIsLast DEF Refuse, Batch, worktree, Agrees, Excused,
     Noticed
<1>4. ASSUME Take
      PROVE  Agrees'
  BY <1>0, <1>4, IdleTypes, UnreadIsLast DEF Take, Batch, worktree, Watched, Watches,
     Agrees, Excused, Noticed
<1>5. ASSUME NEW f \in Files, Parse(f)
      PROVE  Agrees'
  BY <1>0, <1>5, IdleTypes, UnreadIsLast DEF Parse, worktree, WatchTypes, Watches, Agrees,
     Excused, Noticed
<1>6. ASSUME NEW f \in Files, Hash(f)
      PROVE  Agrees'
  BY <1>0, <1>6, IdleTypes, UnreadIsLast DEF Hash, worktree, WatchTypes, Watches, Agrees,
     Excused, Noticed
<1>7. ASSUME Sync
      PROVE  Agrees'
  <2>1. /\ run' = run /\ tree' = tree
        /\ \A g \in Files : Excused(g) => Excused(g)' \/ g \in watch.batch \cup watch.gone \cup hurt
        /\ \A g \in Files : Excused(g)' => Excused(g)
    BY <1>7, IdleTypes DEF Sync, worktree, Excused, Noticed
  <2>2. \A g \in Files : g \in hurt /\ ~Excused(g)' => g \in watch.batch \cup watch.gone
    BY <1>7 DEF Sync, Excused
  <2>3. \A g \in watch.batch :
          rows'[g].hash = watch.hash[g] /\ rows'[g].symbols = {watch.parsed[g]}
    BY <1>0, <1>7 DEF Sync, Synced, RowTypes, WatchTypes, Watches
  <2>4. \A g \in watch.gone : rows'[g].live = FALSE /\ rows'[g].symbols = {}
    BY <1>0, <1>7 DEF Sync, Synced, RowTypes, WatchTypes, Watches
  <2>5. \A g \in Files \ (watch.batch \cup watch.gone) : rows'[g] = rows[g]
    BY <1>0, <1>7 DEF Sync, Synced, RowTypes
  <2>6. \A g \in watch.batch : ~Excused(g)' /\ tree[g] # 0 => {watch.parsed[g]} = Symbols(tree[g])
    <3>1. \A g \in watch.batch : ~Excused(g)' => ~Noticed(g)
      BY <1>7 DEF Sync, Excused, Noticed
    <3>2. \A g \in watch.batch : watch.parsed[g] # Unread
      BY <1>0, <1>7 DEF Sync, Watched
    <3>. QED
      BY <1>0, <3>1, <3>2 DEF Watched, Symbols
  <2>. QED
    BY <1>0, <2>1, <2>2, <2>3, <2>4, <2>5, <2>6 DEF Agrees
<1>8. ASSUME SyncFails
      PROVE  Agrees'
  BY <1>0, <1>8, IdleTypes, UnreadIsLast DEF SyncFails, worktree, Agrees, Excused, Noticed,
     Symbols
<1>9. ASSUME WatchStops
      PROVE  Agrees'
  BY <1>0, <1>9, IdleTypes, UnreadIsLast DEF WatchStops, Batch, worktree, Agrees, Excused,
     Noticed
<1>10. ASSUME NEW p \in Indexers, Discover(p)
      PROVE  Agrees'
  BY <1>0, <1>10, IdleTypes, UnreadIsLast DEF Discover, worktree, Phases, RunTypes, Agrees,
     Excused, Noticed, Set
<1>11. ASSUME NEW p \in Indexers, Load(p)
      PROVE  Agrees'
  BY <1>0, <1>11, IdleTypes, UnreadIsLast DEF Load, worktree, RunTypes, OneIndexer, Agrees,
     Excused, Noticed, Set
<1>12. ASSUME NEW p \in Indexers, Compare(p)
      PROVE  Agrees'
  BY <1>0, <1>12, IdleTypes, UnreadIsLast DEF Compare, worktree, RunTypes, OneIndexer,
     Cleared, Agrees, Excused, Noticed, Set
<1>13. ASSUME NEW p \in Indexers, NEW f \in Files, DeleteSymbols(p, f)
      PROVE  Agrees'
  <2>1. \A q \in Indexers : run'[q].batch = IF q = p THEN run[q].batch \cup {f} ELSE run[q].batch
    BY <1>0, <1>13, IdleTypes DEF DeleteSymbols, Set, RunTypes, Runs
  <2>2. \A g \in Files :
          /\ rows'[g].live = rows[g].live /\ rows'[g].hash = rows[g].hash
          /\ rows'[g].symbols = IF g = f THEN {} ELSE rows[g].symbols
    BY <1>0, <1>13 DEF DeleteSymbols, RowTypes
  <2>3. tree' = tree /\ \A g \in Files : Excused(g)' <=> Excused(g)
    BY <1>13 DEF DeleteSymbols, worktree, Excused, Noticed
  <2>. QED
    BY <1>0, <2>1, <2>2, <2>3 DEF Agrees
<1>14. ASSUME NEW p \in Indexers, NEW f \in Files, MarkDeleted(p, f)
      PROVE  Agrees'
  <2>1. \A q \in Indexers : run'[q].batch = IF q = p THEN run[q].batch \ {f} ELSE run[q].batch
    BY <1>0, <1>14, IdleTypes DEF MarkDeleted, Set, RunTypes, Runs
  <2>2. \A g \in Files :
          /\ rows'[g].live = (g # f /\ rows[g].live) /\ rows'[g].hash = rows[g].hash
          /\ rows'[g].symbols = rows[g].symbols
    BY <1>0, <1>14 DEF MarkDeleted, RowTypes
  <2>3. tree' = tree /\ \A g \in Files : Excused(g)' <=> Excused(g)
    BY <1>14 DEF MarkDeleted, worktree, Excused, Noticed
  <2>. QED
    BY <1>0, <2>1, <2>2, <2>3 DEF Agrees
<1>15. ASSUME NEW p \in Indexers, Deleted(p)
      PROVE  Agrees'
  BY <1>0, <1>15, IdleTypes, UnreadIsLast DEF Deleted, worktree, Phases, RunTypes, Agrees,
     Excused, Noticed, Set
<1>16. ASSUME NEW p \in Indexers, NEW f \in Files, Work(p, f)
      PROVE  Agrees'
  <2>1. \A q \in Indexers : run'[q].batch = run[q].batch
    BY <1>0, <1>16, IdleTypes DEF Work, Set, RunTypes, Runs
  <2>2. \A g \in Files :
          rows'[g] = rows[g]
    BY <1>0, <1>16 DEF Work, RowTypes
  <2>3. tree' = tree /\ \A g \in Files : Excused(g)' <=> Excused(g)
    BY <1>16 DEF Work, worktree, Excused, Noticed
  <2>. QED
    BY <1>0, <2>1, <2>2, <2>3 DEF Agrees
<1>17. ASSUME NEW p \in Indexers, NEW f \in Files, Collect(p, f)
      PROVE  Agrees'
  <2>1. \A q \in Indexers : run'[q].batch = IF q = p THEN run[q].batch \cup {f} ELSE run[q].batch
    BY <1>0, <1>17, IdleTypes DEF Collect, Collected, Set, RunTypes, Runs
  <2>2. \A g \in Files :
          /\ rows'[g].live = rows[g].live /\ rows'[g].hash = rows[g].hash
          /\ rows'[g].symbols = IF g = f THEN {} ELSE rows[g].symbols
    BY <1>0, <1>17 DEF Collect, Collected, RowTypes
  <2>3. tree' = tree /\ \A g \in Files : Excused(g)' <=> Excused(g)
    BY <1>17 DEF Collect, Collected, worktree, Excused, Noticed
  <2>. QED
    BY <1>0, <2>1, <2>2, <2>3 DEF Agrees
<1>18. ASSUME NEW p \in Indexers, NEW f \in Files, CollectFails(p, f)
      PROVE  Agrees'
  <2>1. \A q \in Indexers : run'[q].batch = IF q = p THEN run[q].batch \cup {f} ELSE run[q].batch
    BY <1>0, <1>18, IdleTypes DEF CollectFails, Collected, Fault, Set, RunTypes, Runs
  <2>2. \A g \in Files :
          rows'[g] = rows[g]
    BY <1>0, <1>18 DEF CollectFails, Collected, Fault, RowTypes
  <2>3. tree' = tree /\ \A g \in Files : Excused(g)' <=> Excused(g) \/ g = f
    BY <1>18 DEF CollectFails, Collected, Fault, worktree, Excused, Noticed
  <2>. QED
    BY <1>0, <2>1, <2>2, <2>3 DEF Agrees
<1>19. ASSUME NEW p \in Indexers, Flush(p)
      PROVE  Agrees'
  <2>1. \A q \in Indexers : run'[q].batch = IF q = p THEN {} ELSE run[q].batch
    BY <1>0, <1>19, IdleTypes DEF Flush, Upserted, Set, RunTypes, Runs
  <2>2. \A g \in Files :
          IF g \in run[p].batch
          THEN /\ rows'[g].hash = run[p].read[g]
               /\ rows'[g].symbols = rows[g].symbols \cup Symbols(run[p].read[g])
          ELSE rows'[g] = rows[g]
    BY <1>0, <1>19 DEF Flush, Upserted, RowTypes
  <2>3. tree' = tree /\ \A g \in Files : Excused(g)' <=> Excused(g)
    BY <1>19 DEF Flush, Upserted, worktree, Excused, Noticed
  <2>4. \A q \in Indexers : q = p
    BY DEF OneIndexer
  <2>5. ASSUME NEW g \in Files, tree[g] # 0, ~Excused(g), rows'[g].hash = tree[g],
               rows'[g].live, \A q \in Indexers : g \notin run'[q].batch
        PROVE  rows'[g].symbols = Symbols(tree[g])
    <3>1. CASE g \in run[p].batch
      <4>1. rows'[g].symbols = rows[g].symbols \cup Symbols(run[p].read[g])
        BY <2>2, <3>1
      <4>2. run[p].read[g] = tree[g]
        BY <2>2, <2>5, <3>1
      <4>3. rows[g].symbols \subseteq Symbols(tree[g])
        BY <1>0, <2>5, <3>1, <4>2 DEF Cleared
      <4>. QED
        BY <4>1, <4>2, <4>3
    <3>2. CASE g \notin run[p].batch
      <4>1. \A q \in Indexers : g \notin run[q].batch
        BY <2>4, <3>2
      <4>2. rows'[g] = rows[g]
        BY <2>2, <3>2
      <4>. QED
        BY <1>0, <2>5, <4>1, <4>2 DEF Agrees
    <3>. QED
      BY <3>1, <3>2
  <2>. QED
    BY <2>3, <2>5 DEF Agrees, Symbols
<1>20. ASSUME NEW p \in Indexers, Abort(p)
      PROVE  Agrees'
  BY <1>0, <1>20, IdleTypes, UnreadIsLast DEF Abort, worktree, Agrees, Excused, Noticed, Set
<1>21. CASE UNCHANGED vars
  BY <1>0, <1>21 DEF vars, worktree, Agrees, Excused, Noticed, Symbols
<1>22. SInv
  OBVIOUS
<1>. QED
  BY <1>1, <1>2, <1>3, <1>4, <1>5, <1>6, <1>7, <1>8, <1>9, <1>10, <1>11, <1>12, <1>13,
     <1>14, <1>15, <1>16, <1>17, <1>18, <1>19, <1>20, <1>21, EditorIsChange
     DEF Next, WatchSteps, Faulty, IndexSteps

\* A step of a single indexer, the watcher or an editor keeps the invariant.
LEMMA TruthStep == OneIndexer /\ SInv /\ TInv /\ [Next]_vars => TInv'
  BY ClearedStep, AgreesStep DEF TInv

\* A file that has not drifted and that nobody is at work on has the symbols
\* of its content, however the watcher and the edits are interleaved with an
\* incremental index that does not overlap with another one (incremental_index,
\* process_batch, count_content_hash_drift).
THEOREM HashTells == OneIndexer => (Spec => []CleanIsTrue)
<1> SUFFICES ASSUME OneIndexer PROVE Spec => []CleanIsTrue
  OBVIOUS
<1>1. Init => SInv /\ TInv
  BY InitInv
<1>2. SInv /\ TInv /\ [Next]_vars => (SInv /\ TInv)'
  BY SafeStep, TruthStep
<1>3. SInv /\ TInv => CleanIsTrue
  <2> SUFFICES ASSUME SInv, TInv, NEW f \in Files,
                      ~Drifted(f), ~Underway(f), f \notin hurt \cup marked, tree[f] # 0
               PROVE  rows[f].symbols = Symbols(tree[f])
    BY DEF CleanIsTrue, True
  <2>1. rows[f].live /\ rows[f].hash = tree[f]
    BY DEF Drifted
  <2>2. ~Excused(f) /\ \A p \in Indexers : f \notin run[p].batch
    BY DEF Excused, Noticed, Underway
  <2>. QED
    BY <2>1, <2>2 DEF TInv, Agrees
<1>. QED
  BY <1>1, <1>2, <1>3, PTL DEF Spec


=============================================================================

----------------------------- MODULE HookProofs -----------------------------
(***************************************************************************)
(* Theorems about HookLifecycle, for any number of rows, entities and      *)
(* messages, any number of commits and either gate mode.  EnforceCovers    *)
(* and OrphanTrail need that recover-orphan and hook-repair do not run     *)
(* during a commit (Overlap = {}).                                         *)
(***************************************************************************)
EXTENDS HookLifecycle, SequenceTheorems, FiniteSetTheorems, TLAPS

-----------------------------------------------------------------------------
(* The invariants the proofs need.                                         *)

GitTypes == [pc : {"idle", "gc", "gcRollback", "gcRemove", "classify", "link",
                   "capture", "write", "accepted", "blocked", "stale", "aborted",
                   "post", "promote", "mark", "drop", "done"},
             msg : Msgs \cup {NoMsg}, staged : Entities \cup {NoName},
             tx : TxIds \cup {NoTx}, copy : Sidecar \cup {NoSidecar}]
CliTypes == [pc : {"idle", "unlink", "gc", "promote", "announce", "maintain", "undo",
                   "drop", "repair", "repairDrop"},
             tx : TxIds \cup {NoTx}, copy : Sidecar \cup {NoSidecar},
             todo : SUBSET TxIds]

LedgerTypes ==
    /\ status \in [TxIds -> L!Statuses \cup {"ROLLBACK"}]
    /\ entity \in [TxIds -> Names \cup {NoName}]
    /\ log \in Seq([tx : TxIds, kind : L!Kinds])
    /\ abandoned \subseteq TxIds
FileTypes == sidecar \in Sidecar \cup {NoSidecar} /\ head \in Msgs \cup {NoMsg}
Counts == commits \in 0..MaxCommits /\ cuts \in 0..MaxCuts

\* A step that needs a message, a row or the file has one.
GitHas ==
    /\ git \in GitTypes
    /\ git.pc # "idle" => git.msg \in Msgs
    /\ git.pc \in {"link", "write"} => git.tx \in TxIds
    /\ git.pc \in {"gcRollback", "gcRemove", "promote", "mark", "drop"} => git.copy \in Sidecar
CliHas ==
    /\ cli \in CliTypes
    /\ cli.pc \in {"unlink", "maintain"} => cli.tx \in TxIds
    /\ cli.pc \in {"promote", "announce", "maintain", "undo", "drop", "repair", "repairDrop"} =>
          cli.copy \in Sidecar
Types == LedgerTypes /\ FileTypes /\ Counts /\ GitHas /\ CliHas

\* Rows that a file names exist.
Rows ==
    /\ \A s \in {sidecar, git.copy, cli.copy} \ {NoSidecar} : status[s.tx] # "NONE"
    /\ git.pc = "write" => status[git.tx] # "NONE"

\* The hook looks for a row only when there is no file, and what it read of
\* the file is still there unless somebody removed it.
HookReads ==
    /\ git.pc \in {"classify", "link", "capture", "write"} => ~Exists
    /\ git.pc \in {"gcRollback", "gcRemove", "promote", "mark", "drop"} =>
          sidecar \in {NoSidecar, git.copy}
    /\ git.pc \in {"gcRollback", "gcRemove"} => ~git.copy.failed
    /\ git.pc = "drop" => status[git.copy.tx] = "COMMITTED"
    /\ git.pc \in {"post", "promote", "mark", "drop", "done"} => head = git.msg

\* So is what recover-orphan read, when no commit runs meanwhile.
Recovering == {"promote", "announce", "maintain", "undo", "drop"}
CliReads ==
    /\ cli.pc = "unlink" => status[cli.tx] = "COMMITTED"
    /\ cli.pc = "undo" => cli.copy.tx \in abandoned
    /\ cli.pc = "drop" => status[cli.copy.tx] = "COMMITTED" \/ cli.copy.tx \in abandoned
    /\ Overlap = {} =>
          /\ git.pc # "idle" => cli.pc \in {"idle", "unlink", "gc"}
          /\ cli.pc \in Recovering => sidecar \in {NoSidecar, cli.copy}

\* The row a commit is bound to is resolved, abandoned or named by the file.
Bound ==
    /\ git.tx \in TxIds
    /\ \/ status[git.tx] \notin {"NONE", "PENDING"}
       \/ git.tx \in abandoned
       \/ Exists /\ sidecar.tx = git.tx /\ sidecar.hash = git.msg
Covered ==
    Overlap = {} /\ Mode = "enforce" /\ git.staged # NoName
    /\ git.pc \in {"accepted", "post", "promote", "mark", "drop", "done"} => Bound

IInv == Types /\ Rows /\ HookReads /\ CliReads /\ Covered

-----------------------------------------------------------------------------
(* The ledger.                                                             *)

\* A row that is opened is a new one.
LEMMA OpenRow ==
    ASSUME LedgerTypes, NEW t \in TxIds, NEW e \in Names \cup {NoName}, L!Open(t, e, "PENDING")
    PROVE  /\ status[t] = "NONE" /\ status' = [status EXCEPT ![t] = "PENDING"]
           /\ entity' \in [TxIds -> Names \cup {NoName}] /\ log' = log
           /\ status' \in [TxIds -> L!Statuses \cup {"ROLLBACK"}]
BY DEF LedgerTypes, L!Open, L!Statuses

\* A row that is resolved was PENDING, and has one outcome.
LEMMA ResolveRow ==
    ASSUME LedgerTypes, NEW t \in TxIds, NEW k \in {"commit", "rollback"}, L!Resolve({t}, k)
    PROVE  /\ status[t] = "PENDING" /\ status' = [status EXCEPT ![t] = L!Outcome(k)]
           /\ status' \in [TxIds -> L!Statuses \cup {"ROLLBACK"}]
           /\ entity' = entity /\ log' \in Seq([tx : TxIds, kind : L!Kinds])
<1>1. status[t] = "PENDING" /\ entity' = entity
  BY DEF L!Resolve, L!Source
<1>2. status' = [status EXCEPT ![t] = L!Outcome(k)]
  BY DEF L!Resolve, LedgerTypes
<1>3. L!Outcome(k) \in L!Statuses
  BY DEF L!Outcome, L!Statuses
<1>4. status' \in [TxIds -> L!Statuses \cup {"ROLLBACK"}]
  BY <1>2, <1>3 DEF LedgerTypes
<1>5. PICK order \in L!SetToSeqs({t}) :
         log' = log \o [i \in 1..L!Cardinality({t}) |-> [tx |-> order[i], kind |-> k]]
  BY DEF L!Resolve
<1>6. L!Cardinality({t}) = 1
  <2>1. L!Cardinality({t}) = Cardinality({t})
    BY DEF L!Cardinality, Cardinality
  <2>. QED
    BY <2>1, FS_Singleton
<1>7. order \in [1..1 -> {t}]
  BY <1>5, <1>6 DEF L!SetToSeqs
<1> DEFINE new == [i \in 1..1 |-> [tx |-> order[i], kind |-> k]]
<1>8. new \in Seq([tx : TxIds, kind : L!Kinds])
  <2>1. \A i \in 1..1 : [tx |-> order[i], kind |-> k] \in [tx : TxIds, kind : L!Kinds]
    BY <1>7 DEF L!Kinds
  <2>2. 1 \in Nat
    OBVIOUS
  <2>. QED
    BY <2>1, <2>2, IsASeq
<1>9. log' = log \o new
  BY <1>5, <1>6
<1> HIDE DEF new
<1>10. log' \in Seq([tx : TxIds, kind : L!Kinds])
  BY <1>8, <1>9, ConcatProperties DEF LedgerTypes
<1>. QED
  BY <1>1, <1>2, <1>4, <1>10

\* What no step does to the rows: they are not taken back, and once resolved
\* they keep their status; an abandonment stays recorded.
Lasting ==
    /\ \A t \in TxIds : status[t] # "NONE" => status'[t] # "NONE"
    /\ \A t \in TxIds : status[t] \notin {"NONE", "PENDING"} => status'[t] = status[t]
    /\ abandoned \subseteq abandoned'

\* One row is opened or resolved, or none.
LedgerMove ==
    \/ UNCHANGED ledger
    \/ \E t \in TxIds, e \in Names \cup {NoName} : L!Open(t, e, "PENDING")
    \/ \E t \in TxIds : L!Resolve({t}, "commit") \/ L!Resolve({t}, "rollback")
    \/ \E t \in TxIds : /\ status[t] = "PENDING" /\ status' = [status EXCEPT ![t] = "ROLLBACK"]
                        /\ UNCHANGED <<entity, log>>

\* Such a move keeps the types, and what is resolved.
LEMMA MoveKeeps ==
    ASSUME LedgerTypes, LedgerMove, abandoned \subseteq abandoned', abandoned' \subseteq TxIds
    PROVE  LedgerTypes' /\ Lasting
<1>1. CASE UNCHANGED ledger
  BY <1>1 DEF ledger, LedgerTypes, Lasting
<1>2. ASSUME NEW t \in TxIds, NEW e \in Names \cup {NoName}, L!Open(t, e, "PENDING")
      PROVE  LedgerTypes' /\ Lasting
  BY <1>2, OpenRow DEF LedgerTypes, Lasting
<1>3. ASSUME NEW t \in TxIds, NEW k \in {"commit", "rollback"}, L!Resolve({t}, k)
      PROVE  LedgerTypes' /\ Lasting
  <2>1. L!Outcome(k) # "NONE"
    BY DEF L!Outcome
  <2>. QED
    BY <1>3, <2>1, ResolveRow DEF LedgerTypes, Lasting
<1>4. ASSUME NEW t \in TxIds, status[t] = "PENDING", status' = [status EXCEPT ![t] = "ROLLBACK"],
             UNCHANGED <<entity, log>>
      PROVE  LedgerTypes' /\ Lasting
  BY <1>4 DEF LedgerTypes, Lasting
<1>. QED
  BY <1>1, <1>2, <1>3, <1>4 DEF LedgerMove

\* Every step of a hook, a command or the user is such a move.
LEMMA EveryMove == Types /\ [Next]_vars => LedgerMove
<1> SUFFICES ASSUME Types, [Next]_vars
             PROVE  LedgerMove
  OBVIOUS
<1> USE DEF LedgerMove, GitHas, CliHas, Types, ledger, Names, GitTypes
<1>1. ASSUME NEW m \in Msgs, NEW e \in Entities \cup {NoName}, BeginCommit(m, e)
      PROVE  LedgerMove
  BY <1>1 DEF BeginCommit
<1>2. ASSUME NEW m \in Msgs, BypassHook(m) PROVE LedgerMove
  BY <1>2 DEF BypassHook
<1>3. ASSUME NEW m \in Msgs, MoveHead(m) PROVE LedgerMove
  BY <1>3 DEF MoveHead
<1>4. ASSUME NEW t \in TxIds, NEW e \in Entities, LedgerStart(t, e) PROVE LedgerMove
  BY <1>4 DEF LedgerStart
<1>5. ASSUME NEW t \in TxIds, LedgerRollback(t) PROVE LedgerMove
  BY <1>5 DEF LedgerRollback
<1>6. ASSUME NEW t \in TxIds, LedgerCommit(t) PROVE LedgerMove
  BY <1>6 DEF LedgerCommit
<1>7. ASSUME NEW S \in SUBSET TxIds, GcScan(S) PROVE LedgerMove
  BY <1>7 DEF GcScan
<1>8. CASE RecoverPromote
  BY <1>8 DEF RecoverPromote
<1>9. CASE RecoverAbandon
  BY <1>9 DEF RecoverAbandon
<1>10. CASE HookRepair
  BY <1>10 DEF HookRepair
<1>11. CASE GcSidecar
  BY <1>11 DEF GcSidecar
<1>12. CASE GcRollback
  BY <1>12 DEF GcRollback, Sidecar
<1>13. CASE GcRemove
  BY <1>13 DEF GcRemove
<1>14. CASE Classify
  BY <1>14 DEF Classify
<1>15. CASE Link
  BY <1>15 DEF Link
<1>16. CASE SkipIntent
  BY <1>16 DEF SkipIntent
<1>17. CASE Capture
  BY <1>17 DEF Capture
<1>18. CASE WriteSidecar
  BY <1>18 DEF WriteSidecar
<1>19. CASE CreateCommit
  BY <1>19 DEF CreateCommit
<1>20. CASE EndCommit
  BY <1>20 DEF EndCommit
<1>21. CASE PostRead
  BY <1>21 DEF PostRead
<1>22. CASE Promote
  BY <1>22 DEF Promote, Sidecar
<1>23. CASE MarkFailed
  BY <1>23 DEF MarkFailed
<1>24. CASE DropSidecar
  BY <1>24 DEF DropSidecar
<1>25. CASE Unlink
  BY <1>25 DEF Unlink
<1>26. ASSUME NEW t \in TxIds, GcOne(t) PROVE LedgerMove
  BY <1>26 DEF GcOne
<1>27. CASE RecoverCommit
  BY <1>27 DEF RecoverCommit, Sidecar
<1>28. CASE Announce
  BY <1>28 DEF Announce
<1>29. CASE Maintain
  BY <1>29 DEF Maintain, Sidecar
<1>30. CASE Undo
  BY <1>30 DEF Undo, Sidecar
<1>31. CASE CliDrop
  BY <1>31 DEF CliDrop
<1>32. CASE Repair
  BY <1>32 DEF Repair, Sidecar
<1>33. CASE RepairDrop
  BY <1>33 DEF RepairDrop
<1>34. CASE GitFault
  BY <1>34 DEF GitFault
<1>35. CASE CliFault
  BY <1>35 DEF CliFault
<1>36. CASE UNCHANGED vars
  BY <1>36 DEF vars
<1>. QED
  BY <1>1, <1>2, <1>3, <1>4, <1>5, <1>6, <1>7, <1>8, <1>9, <1>10, <1>11, <1>12, <1>13,
     <1>14,
     <1>15, <1>16, <1>17, <1>18, <1>19, <1>20, <1>21, <1>22, <1>23, <1>24, <1>25, <1>26, <1>27,
     <1>28, <1>29, <1>30, <1>31, <1>32, <1>33, <1>34, <1>35, <1>36
     DEF Next, User, GitStep, CliStep

\* Abandonments are only added.
Abandons == abandoned \subseteq abandoned' /\ abandoned' \subseteq TxIds

\* Abandonments are recorded, never withdrawn.
LEMMA AbandonStep == Types /\ [Next]_vars => Abandons
<1> SUFFICES ASSUME Types, [Next]_vars
             PROVE  Abandons
  OBVIOUS
<1> USE DEF Types, LedgerTypes, CliHas, Sidecar, ledger, Abandons
<1>1. ASSUME NEW m \in Msgs, NEW e \in Entities \cup {NoName}, BeginCommit(m, e)
      PROVE  Abandons
  BY <1>1 DEF BeginCommit
<1>2. ASSUME NEW m \in Msgs, BypassHook(m) PROVE Abandons
  BY <1>2 DEF BypassHook
<1>3. ASSUME NEW m \in Msgs, MoveHead(m) PROVE Abandons
  BY <1>3 DEF MoveHead
<1>4. ASSUME NEW t \in TxIds, NEW e \in Entities, LedgerStart(t, e) PROVE Abandons
  BY <1>4 DEF LedgerStart
<1>5. ASSUME NEW t \in TxIds, LedgerRollback(t) PROVE Abandons
  BY <1>5 DEF LedgerRollback
<1>6. ASSUME NEW t \in TxIds, LedgerCommit(t) PROVE Abandons
  BY <1>6 DEF LedgerCommit
<1>7. ASSUME NEW S \in SUBSET TxIds, GcScan(S) PROVE Abandons
  BY <1>7 DEF GcScan
<1>8. CASE RecoverPromote
  BY <1>8 DEF RecoverPromote
<1>9. CASE RecoverAbandon
  BY <1>9 DEF RecoverAbandon
<1>10. CASE HookRepair
  BY <1>10 DEF HookRepair
<1>11. CASE GcSidecar
  BY <1>11 DEF GcSidecar
<1>12. CASE GcRollback
  BY <1>12 DEF GcRollback
<1>13. CASE GcRemove
  BY <1>13 DEF GcRemove
<1>14. CASE Classify
  BY <1>14 DEF Classify
<1>15. CASE Link
  BY <1>15 DEF Link
<1>16. CASE SkipIntent
  BY <1>16 DEF SkipIntent
<1>17. CASE Capture
  BY <1>17 DEF Capture
<1>18. CASE WriteSidecar
  BY <1>18 DEF WriteSidecar
<1>19. CASE CreateCommit
  BY <1>19 DEF CreateCommit
<1>20. CASE EndCommit
  BY <1>20 DEF EndCommit
<1>21. CASE PostRead
  BY <1>21 DEF PostRead
<1>22. CASE Promote
  BY <1>22 DEF Promote
<1>23. CASE MarkFailed
  BY <1>23 DEF MarkFailed
<1>24. CASE DropSidecar
  BY <1>24 DEF DropSidecar
<1>25. CASE Unlink
  BY <1>25 DEF Unlink
<1>26. ASSUME NEW t \in TxIds, GcOne(t) PROVE Abandons
  BY <1>26 DEF GcOne
<1>27. CASE RecoverCommit
  BY <1>27 DEF RecoverCommit
<1>28. CASE Announce
  BY <1>28 DEF Announce
<1>29. CASE Maintain
  BY <1>29 DEF Maintain
<1>30. CASE Undo
  BY <1>30 DEF Undo
<1>31. CASE CliDrop
  BY <1>31 DEF CliDrop
<1>32. CASE Repair
  BY <1>32 DEF Repair
<1>33. CASE RepairDrop
  BY <1>33 DEF RepairDrop
<1>34. CASE GitFault
  BY <1>34 DEF GitFault
<1>35. CASE CliFault
  BY <1>35 DEF CliFault
<1>36. CASE UNCHANGED vars
  BY <1>36 DEF vars
<1>. QED
  BY <1>1, <1>2, <1>3, <1>4, <1>5, <1>6, <1>7, <1>8, <1>9, <1>10, <1>11, <1>12, <1>13,
     <1>14,
     <1>15, <1>16, <1>17, <1>18, <1>19, <1>20, <1>21, <1>22, <1>23, <1>24, <1>25, <1>26, <1>27,
     <1>28, <1>29, <1>30, <1>31, <1>32, <1>33, <1>34, <1>35, <1>36
     DEF Next, User, GitStep, CliStep

\* The ledger keeps its types, and what is resolved.
LEMMA LedgerStep == Types /\ [Next]_vars => LedgerTypes' /\ Lasting
BY EveryMove, AbandonStep, MoveKeeps DEF Types, Abandons

-----------------------------------------------------------------------------
(* Types of the rest.                                                      *)

\* The file and HEAD, and the bounded counts.
LEMMA FileStep == Types /\ [Next]_vars => (FileTypes /\ Counts)'
<1> SUFFICES ASSUME Types, [Next]_vars
             PROVE  (FileTypes /\ Counts)'
  OBVIOUS
<1> USE ValuesAssumption DEF Types, FileTypes, Counts, GitHas, CliHas, GitTypes, Sidecar,
        Cut
<1>1. ASSUME NEW m \in Msgs, NEW e \in Entities \cup {NoName}, BeginCommit(m, e)
      PROVE  (FileTypes /\ Counts)'
  BY <1>1 DEF BeginCommit, MayCommit
<1>2. ASSUME NEW m \in Msgs, BypassHook(m) PROVE (FileTypes /\ Counts)'
  BY <1>2 DEF BypassHook, MayCommit
<1>3. ASSUME NEW m \in Msgs, MoveHead(m) PROVE (FileTypes /\ Counts)'
  BY <1>3 DEF MoveHead
<1>4. ASSUME NEW t \in TxIds, NEW e \in Entities, LedgerStart(t, e)
      PROVE  (FileTypes /\ Counts)'
  BY <1>4 DEF LedgerStart
<1>5. ASSUME NEW t \in TxIds, LedgerRollback(t) PROVE (FileTypes /\ Counts)'
  BY <1>5 DEF LedgerRollback
<1>6. ASSUME NEW t \in TxIds, LedgerCommit(t) PROVE (FileTypes /\ Counts)'
  BY <1>6 DEF LedgerCommit
<1>7. ASSUME NEW S \in SUBSET TxIds, GcScan(S) PROVE (FileTypes /\ Counts)'
  BY <1>7 DEF GcScan
<1>8. CASE RecoverPromote
  BY <1>8 DEF RecoverPromote
<1>9. CASE RecoverAbandon
  BY <1>9 DEF RecoverAbandon
<1>10. CASE HookRepair
  BY <1>10 DEF HookRepair
<1>11. CASE GcSidecar
  BY <1>11 DEF GcSidecar
<1>12. CASE GcRollback
  BY <1>12 DEF GcRollback
<1>13. CASE GcRemove
  BY <1>13 DEF GcRemove
<1>14. CASE Classify
  BY <1>14 DEF Classify
<1>15. CASE Link
  BY <1>15 DEF Link
<1>16. CASE SkipIntent
  BY <1>16 DEF SkipIntent
<1>17. CASE Capture
  BY <1>17 DEF Capture
<1>18. CASE WriteSidecar
  BY <1>18 DEF WriteSidecar
<1>19. CASE CreateCommit
  BY <1>19 DEF CreateCommit
<1>20. CASE EndCommit
  BY <1>20 DEF EndCommit
<1>21. CASE PostRead
  BY <1>21 DEF PostRead
<1>22. CASE Promote
  BY <1>22 DEF Promote
<1>23. CASE MarkFailed
  BY <1>23 DEF MarkFailed
<1>24. CASE DropSidecar
  BY <1>24 DEF DropSidecar
<1>25. CASE Unlink
  BY <1>25 DEF Unlink
<1>26. ASSUME NEW t \in TxIds, GcOne(t) PROVE (FileTypes /\ Counts)'
  BY <1>26 DEF GcOne
<1>27. CASE RecoverCommit
  BY <1>27 DEF RecoverCommit
<1>28. CASE Announce
  BY <1>28 DEF Announce
<1>29. CASE Maintain
  BY <1>29 DEF Maintain
<1>30. CASE Undo
  BY <1>30 DEF Undo
<1>31. CASE CliDrop
  BY <1>31 DEF CliDrop
<1>32. CASE Repair
  BY <1>32 DEF Repair
<1>33. CASE RepairDrop
  BY <1>33 DEF RepairDrop
<1>34. CASE GitFault
  BY <1>34 DEF GitFault
<1>35. CASE CliFault
  BY <1>35 DEF CliFault
<1>36. CASE UNCHANGED vars
  BY <1>36 DEF vars
<1>. QED
  BY <1>1, <1>2, <1>3, <1>4, <1>5, <1>6, <1>7, <1>8, <1>9, <1>10, <1>11, <1>12, <1>13,
     <1>14,
     <1>15, <1>16, <1>17, <1>18, <1>19, <1>20, <1>21, <1>22, <1>23, <1>24, <1>25, <1>26, <1>27,
     <1>28, <1>29, <1>30, <1>31, <1>32, <1>33, <1>34, <1>35, <1>36
     DEF Next, User, GitStep, CliStep

\* The commit in progress has what its next step needs.
LEMMA GitStepTypes == Types /\ [Next]_vars => GitHas'
<1> SUFFICES ASSUME Types, [Next]_vars
             PROVE  GitHas'
  OBVIOUS
<1> USE RefAssumption, ValuesAssumption DEF Types, FileTypes, GitHas, GitTypes, GitGoto,
        NoGit, Exists, Pending
<1>1. ASSUME NEW m \in Msgs, NEW e \in Entities \cup {NoName}, BeginCommit(m, e)
      PROVE  GitHas'
  BY <1>1 DEF BeginCommit
<1>2. ASSUME NEW m \in Msgs, BypassHook(m) PROVE GitHas'
  BY <1>2 DEF BypassHook
<1>3. ASSUME NEW m \in Msgs, MoveHead(m) PROVE GitHas'
  BY <1>3 DEF MoveHead
<1>4. ASSUME NEW t \in TxIds, NEW e \in Entities, LedgerStart(t, e) PROVE GitHas'
  BY <1>4 DEF LedgerStart
<1>5. ASSUME NEW t \in TxIds, LedgerRollback(t) PROVE GitHas'
  BY <1>5 DEF LedgerRollback
<1>6. ASSUME NEW t \in TxIds, LedgerCommit(t) PROVE GitHas'
  BY <1>6 DEF LedgerCommit
<1>7. ASSUME NEW S \in SUBSET TxIds, GcScan(S) PROVE GitHas'
  BY <1>7 DEF GcScan
<1>8. CASE RecoverPromote
  BY <1>8 DEF RecoverPromote
<1>9. CASE RecoverAbandon
  BY <1>9 DEF RecoverAbandon
<1>10. CASE HookRepair
  BY <1>10 DEF HookRepair
<1>11. CASE GcSidecar
  <2>1. /\ git.pc # "idle"
        /\ \/ \E l \in {"classify", "blocked", "accepted"} : git' = [git EXCEPT !.pc = l]
           \/ sidecar \in Sidecar /\ git' = [git EXCEPT !.pc = "accepted", !.tx = sidecar.tx]
           \/ sidecar \in Sidecar /\ git' = [git EXCEPT !.pc = "gcRollback", !.copy = sidecar]
    BY <1>11 DEF GcSidecar
  <2>2. CASE \E l \in {"classify", "blocked", "accepted"} : git' = [git EXCEPT !.pc = l]
    BY <2>1, <2>2 DEF Sidecar
  <2>3. CASE sidecar \in Sidecar /\ git' = [git EXCEPT !.pc = "accepted", !.tx = sidecar.tx]
    BY <2>1, <2>3 DEF Sidecar
  <2>4. CASE sidecar \in Sidecar /\ git' = [git EXCEPT !.pc = "gcRollback", !.copy = sidecar]
    BY <2>1, <2>4 DEF Sidecar
  <2>. QED
    BY <2>1, <2>2, <2>3, <2>4
<1>12. CASE GcRollback
  BY <1>12 DEF GcRollback
<1>13. CASE GcRemove
  BY <1>13 DEF GcRemove
<1>14. CASE Classify
  <2>1. /\ git.pc # "idle"
        /\ \/ \E l \in {"accepted", "capture"} : git' = [git EXCEPT !.pc = l]
           \/ \E l \in {"accepted", "link"}, t \in TxIds : git' = [git EXCEPT !.pc = l, !.tx = t]
    BY <1>14 DEF Classify
  <2>2. CASE \E l \in {"accepted", "capture"} : git' = [git EXCEPT !.pc = l]
    BY <2>1, <2>2
  <2>3. CASE \E l \in {"accepted", "link"}, t \in TxIds : git' = [git EXCEPT !.pc = l, !.tx = t]
    BY <2>1, <2>3
  <2>. QED
    BY <2>1, <2>2, <2>3
<1>15. CASE Link
  BY <1>15 DEF Link
<1>16. CASE SkipIntent
  BY <1>16 DEF SkipIntent
<1>17. CASE Capture
  <2>1. /\ git.pc # "idle"
        /\ \/ git' = [git EXCEPT !.pc = "blocked"]
           \/ \E t \in TxIds, m \in Msgs : git' = [git EXCEPT !.pc = "write", !.tx = t, !.msg = m]
    BY <1>17 DEF Capture
  <2>2. CASE git' = [git EXCEPT !.pc = "blocked"]
    BY <2>1, <2>2
  <2>3. CASE \E t \in TxIds, m \in Msgs : git' = [git EXCEPT !.pc = "write", !.tx = t, !.msg = m]
    BY <2>1, <2>3
  <2>. QED
    BY <2>1, <2>2, <2>3
<1>18. CASE WriteSidecar
  BY <1>18 DEF WriteSidecar
<1>19. CASE CreateCommit
  BY <1>19 DEF CreateCommit
<1>20. CASE EndCommit
  BY <1>20 DEF EndCommit
<1>21. CASE PostRead
  <2>1. /\ git.pc # "idle"
        /\ \/ git' = [git EXCEPT !.pc = "done"]
           \/ sidecar \in Sidecar /\ git' = [git EXCEPT !.pc = "promote", !.copy = sidecar]
    BY <1>21 DEF PostRead
  <2>2. CASE git' = [git EXCEPT !.pc = "done"]
    BY <2>1, <2>2
  <2>3. CASE sidecar \in Sidecar /\ git' = [git EXCEPT !.pc = "promote", !.copy = sidecar]
    BY <2>1, <2>3
  <2>. QED
    BY <2>1, <2>2, <2>3
<1>22. CASE Promote
  BY <1>22 DEF Promote
<1>23. CASE MarkFailed
  BY <1>23 DEF MarkFailed
<1>24. CASE DropSidecar
  BY <1>24 DEF DropSidecar
<1>25. CASE Unlink
  BY <1>25 DEF Unlink
<1>26. ASSUME NEW t \in TxIds, GcOne(t) PROVE GitHas'
  BY <1>26 DEF GcOne
<1>27. CASE RecoverCommit
  BY <1>27 DEF RecoverCommit
<1>28. CASE Announce
  BY <1>28 DEF Announce
<1>29. CASE Maintain
  BY <1>29 DEF Maintain
<1>30. CASE Undo
  BY <1>30 DEF Undo
<1>31. CASE CliDrop
  BY <1>31 DEF CliDrop
<1>32. CASE Repair
  BY <1>32 DEF Repair
<1>33. CASE RepairDrop
  BY <1>33 DEF RepairDrop
<1>34. CASE GitFault
  BY <1>34 DEF GitFault
<1>35. CASE CliFault
  BY <1>35 DEF CliFault
<1>36. CASE UNCHANGED vars
  BY <1>36 DEF vars
<1>. QED
  BY <1>1, <1>2, <1>3, <1>4, <1>5, <1>6, <1>7, <1>8, <1>9, <1>10, <1>11, <1>12, <1>13,
     <1>14,
     <1>15, <1>16, <1>17, <1>18, <1>19, <1>20, <1>21, <1>22, <1>23, <1>24, <1>25, <1>26, <1>27,
     <1>28, <1>29, <1>30, <1>31, <1>32, <1>33, <1>34, <1>35, <1>36
     DEF Next, User, GitStep, CliStep

\* And so has the command.
LEMMA CliStepTypes == Types /\ [Next]_vars => CliHas'
<1> SUFFICES ASSUME Types, [Next]_vars
             PROVE  CliHas'
  OBVIOUS
<1> USE ValuesAssumption DEF Types, FileTypes, CliHas, CliTypes, CliGoto, NoCli, Exists,
        Pending
<1>1. ASSUME NEW m \in Msgs, NEW e \in Entities \cup {NoName}, BeginCommit(m, e)
      PROVE  CliHas'
  BY <1>1 DEF BeginCommit
<1>2. ASSUME NEW m \in Msgs, BypassHook(m) PROVE CliHas'
  BY <1>2 DEF BypassHook
<1>3. ASSUME NEW m \in Msgs, MoveHead(m) PROVE CliHas'
  BY <1>3 DEF MoveHead
<1>4. ASSUME NEW t \in TxIds, NEW e \in Entities, LedgerStart(t, e) PROVE CliHas'
  BY <1>4 DEF LedgerStart
<1>5. ASSUME NEW t \in TxIds, LedgerRollback(t) PROVE CliHas'
  BY <1>5 DEF LedgerRollback
<1>6. ASSUME NEW t \in TxIds, LedgerCommit(t) PROVE CliHas'
  BY <1>6 DEF LedgerCommit
<1>7. ASSUME NEW S \in SUBSET TxIds, GcScan(S) PROVE CliHas'
  BY <1>7 DEF GcScan
<1>8. CASE RecoverPromote
  BY <1>8 DEF RecoverPromote
<1>9. CASE RecoverAbandon
  BY <1>9 DEF RecoverAbandon
<1>10. CASE HookRepair
  BY <1>10 DEF HookRepair
<1>11. CASE GcSidecar
  BY <1>11 DEF GcSidecar
<1>12. CASE GcRollback
  BY <1>12 DEF GcRollback
<1>13. CASE GcRemove
  BY <1>13 DEF GcRemove
<1>14. CASE Classify
  BY <1>14 DEF Classify
<1>15. CASE Link
  BY <1>15 DEF Link
<1>16. CASE SkipIntent
  BY <1>16 DEF SkipIntent
<1>17. CASE Capture
  BY <1>17 DEF Capture
<1>18. CASE WriteSidecar
  BY <1>18 DEF WriteSidecar
<1>19. CASE CreateCommit
  BY <1>19 DEF CreateCommit
<1>20. CASE EndCommit
  BY <1>20 DEF EndCommit
<1>21. CASE PostRead
  BY <1>21 DEF PostRead
<1>22. CASE Promote
  BY <1>22 DEF Promote
<1>23. CASE MarkFailed
  BY <1>23 DEF MarkFailed
<1>24. CASE DropSidecar
  BY <1>24 DEF DropSidecar
<1>25. CASE Unlink
  BY <1>25 DEF Unlink
<1>26. ASSUME NEW t \in TxIds, GcOne(t) PROVE CliHas'
  BY <1>26 DEF GcOne
<1>27. CASE RecoverCommit
  BY <1>27 DEF RecoverCommit
<1>28. CASE Announce
  <2>1. /\ cli.pc # "idle"
        /\ \/ cli' = NoCli
           \/ cli.copy \in Sidecar /\ \E t \in TxIds : cli' = [cli EXCEPT !.pc = "maintain", !.tx = t]
    BY <1>28 DEF Announce
  <2>2. CASE cli' = NoCli
    BY <2>1, <2>2
  <2>3. CASE cli.copy \in Sidecar /\ \E t \in TxIds : cli' = [cli EXCEPT !.pc = "maintain", !.tx = t]
    BY <2>1, <2>3
  <2>. QED
    BY <2>1, <2>2, <2>3
<1>29. CASE Maintain
  BY <1>29 DEF Maintain
<1>30. CASE Undo
  BY <1>30 DEF Undo
<1>31. CASE CliDrop
  BY <1>31 DEF CliDrop
<1>32. CASE Repair
  BY <1>32 DEF Repair
<1>33. CASE RepairDrop
  BY <1>33 DEF RepairDrop
<1>34. CASE GitFault
  BY <1>34 DEF GitFault
<1>35. CASE CliFault
  BY <1>35 DEF CliFault
<1>36. CASE UNCHANGED vars
  BY <1>36 DEF vars
<1>. QED
  BY <1>1, <1>2, <1>3, <1>4, <1>5, <1>6, <1>7, <1>8, <1>9, <1>10, <1>11, <1>12, <1>13,
     <1>14,
     <1>15, <1>16, <1>17, <1>18, <1>19, <1>20, <1>21, <1>22, <1>23, <1>24, <1>25, <1>26, <1>27,
     <1>28, <1>29, <1>30, <1>31, <1>32, <1>33, <1>34, <1>35, <1>36
     DEF Next, User, GitStep, CliStep

\* All types are kept.
LEMMA TypesStep == Types /\ [Next]_vars => Types'
BY LedgerStep, FileStep, GitStepTypes, CliStepTypes DEF Types


-----------------------------------------------------------------------------
(* Rows, and what was read of the file.                                    *)

\* The hook finds no file, its own, one to keep, or one to collect.
LEMMA GcFacts ==
    ASSUME Types, GcSidecar
    PROVE  /\ git.pc = "gc" /\ git.msg \in Msgs
           /\ git'.msg = git.msg /\ git'.staged = git.staged
           /\ UNCHANGED <<ledger, abandoned, sidecar, head, cli>>
           /\ \/ ~Exists /\ git'.pc = "classify" /\ git'.copy = git.copy
              \/ /\ sidecar \in Sidecar /\ ~sidecar.failed /\ sidecar.hash = git.msg
                 /\ git'.pc = "accepted" /\ git'.tx = sidecar.tx /\ git'.copy = git.copy
              \/ git'.pc = (IF Mode = "enforce" THEN "blocked" ELSE "accepted") /\ git'.copy = git.copy
              \/ /\ sidecar \in Sidecar /\ ~sidecar.failed
                 /\ git'.pc = "gcRollback" /\ git'.copy = sidecar
<1> USE RefAssumption, ValuesAssumption DEF Types, FileTypes, LedgerTypes, GitHas, GitTypes,
        GitGoto, Sidecar, Exists, Pending, GcEligible
<1>1. git.pc = "gc" /\ git.msg \in Msgs /\ UNCHANGED <<ledger, abandoned, sidecar, head, cli>>
  BY DEF GcSidecar
<1>2. \/ ~Exists /\ git' = [git EXCEPT !.pc = "classify"]
      \/ sidecar \in Sidecar /\ ~sidecar.failed /\ sidecar.hash = git.msg
            /\ git' = [git EXCEPT !.pc = "accepted", !.tx = sidecar.tx]
      \/ git' = [git EXCEPT !.pc = IF Mode = "enforce" THEN "blocked" ELSE "accepted"]
      \/ sidecar \in Sidecar /\ ~sidecar.failed
            /\ git' = [git EXCEPT !.pc = "gcRollback", !.copy = sidecar]
  BY DEF GcSidecar
<1>3. CASE ~Exists /\ git' = [git EXCEPT !.pc = "classify"]
  BY <1>1, <1>3
<1>4. CASE sidecar \in Sidecar /\ ~sidecar.failed /\ sidecar.hash = git.msg
            /\ git' = [git EXCEPT !.pc = "accepted", !.tx = sidecar.tx]
  BY <1>1, <1>4
<1>5. CASE git' = [git EXCEPT !.pc = IF Mode = "enforce" THEN "blocked" ELSE "accepted"]
  BY <1>1, <1>5
<1>6. CASE sidecar \in Sidecar /\ ~sidecar.failed
            /\ git' = [git EXCEPT !.pc = "gcRollback", !.copy = sidecar]
  BY <1>1, <1>6
<1>. QED
  BY <1>1, <1>2, <1>3, <1>4, <1>5, <1>6

\* The hook has nothing to record, a row, or none.
LEMMA ClassifyFacts ==
    ASSUME Types, Classify
    PROVE  /\ git.pc = "classify" /\ git.msg \in Msgs
           /\ git'.msg = git.msg /\ git'.staged = git.staged /\ git'.copy = git.copy
           /\ UNCHANGED <<ledger, abandoned, sidecar, head, cli>>
           /\ \/ git.staged = NoName /\ git'.pc = "accepted"
              \/ git'.tx \in TxIds /\ status[git'.tx] = "COMMITTED" /\ git'.pc = "accepted"
              \/ git'.tx \in TxIds /\ git'.pc = "link"
              \/ git'.pc = "capture"
<1> USE RefAssumption, ValuesAssumption DEF Types, FileTypes, LedgerTypes, GitHas, GitTypes,
        GitGoto, Sidecar, Exists, Pending, GcEligible
<1>1. git.pc = "classify" /\ git.msg \in Msgs /\ UNCHANGED <<ledger, abandoned, sidecar, head, cli>>
  BY DEF Classify
<1>2. \/ git.staged = NoName /\ git' = [git EXCEPT !.pc = "accepted"]
      \/ \E t \in TxIds : status[t] = "COMMITTED" /\ git' = [git EXCEPT !.pc = "accepted", !.tx = t]
      \/ \E t \in TxIds : git' = [git EXCEPT !.pc = "link", !.tx = t]
      \/ git' = [git EXCEPT !.pc = "capture"]
  BY DEF Classify
<1>3. CASE git.staged = NoName /\ git' = [git EXCEPT !.pc = "accepted"]
  BY <1>1, <1>3
<1>4. CASE \E t \in TxIds : status[t] = "COMMITTED" /\ git' = [git EXCEPT !.pc = "accepted", !.tx = t]
  BY <1>1, <1>4
<1>5. CASE \E t \in TxIds : git' = [git EXCEPT !.pc = "link", !.tx = t]
  BY <1>1, <1>5
<1>6. CASE git' = [git EXCEPT !.pc = "capture"]
  BY <1>1, <1>6
<1>. QED
  BY <1>1, <1>2, <1>3, <1>4, <1>5, <1>6

\* The outcomes of capturing an intent.
LEMMA CaptureCases ==
    ASSUME Capture
    PROVE  \/ git' = [git EXCEPT !.pc = "blocked"]
           \/ \E t \in TxIds, m \in Msgs : /\ L!Open(t, git.staged, "PENDING")
                                         /\ git' = [git EXCEPT !.pc = "write", !.tx = t, !.msg = m]
BY DEF Capture, GitGoto

\* The hook inserts a row, or finds a conflict.
LEMMA CaptureFacts ==
    ASSUME Types, Capture
    PROVE  /\ git.pc = "capture" /\ git.msg \in Msgs
           /\ git'.staged = git.staged /\ git'.copy = git.copy
           /\ UNCHANGED <<abandoned, sidecar, head, cli>>
           /\ \/ git'.pc = "blocked"
              \/ /\ git'.tx \in TxIds /\ git'.msg \in Msgs
                 /\ git'.pc = "write" /\ status'[git'.tx] = "PENDING"
<1> USE RefAssumption, ValuesAssumption DEF Types, FileTypes, LedgerTypes, GitHas, GitTypes,
        GitGoto, Sidecar, Exists, Pending, GcEligible
<1>1. git.pc = "capture" /\ git.msg \in Msgs /\ UNCHANGED <<abandoned, sidecar, head, cli>>
  BY DEF Capture
<1>2. \/ git' = [git EXCEPT !.pc = "blocked"]
      \/ \E t \in TxIds, m \in Msgs : /\ L!Open(t, git.staged, "PENDING")
                                    /\ git' = [git EXCEPT !.pc = "write", !.tx = t, !.msg = m]
  BY CaptureCases
<1>3. CASE git' = [git EXCEPT !.pc = "blocked"]
  BY <1>1, <1>3
<1>4. CASE \E t \in TxIds, m \in Msgs : /\ L!Open(t, git.staged, "PENDING")
                                    /\ git' = [git EXCEPT !.pc = "write", !.tx = t, !.msg = m]
  <2>1. PICK t \in TxIds, m \in Msgs : /\ L!Open(t, git.staged, "PENDING")
                                       /\ git' = [git EXCEPT !.pc = "write", !.tx = t, !.msg = m]
    BY <1>4
  <2>2. git'.tx = t /\ git'.msg = m /\ git'.pc = "write" /\ git'.staged = git.staged /\ git'.copy = git.copy
    BY <2>1
  <2>3. status' = [status EXCEPT ![t] = "PENDING"]
    BY <2>1, OpenRow DEF Names
  <2>. QED
    BY <1>1, <2>2, <2>3
<1>. QED
  BY <1>1, <1>2, <1>3, <1>4

\* The file binds the commit to the row.
LEMMA WriteFacts ==
    ASSUME Types, WriteSidecar
    PROVE  /\ git.pc = "write" /\ git.tx \in TxIds /\ git.msg \in Msgs
           /\ sidecar' \in Sidecar /\ sidecar'.tx = git.tx /\ sidecar'.hash = git.msg
           /\ git'.pc = "accepted" /\ git'.msg = git.msg /\ git'.tx = git.tx
           /\ git'.staged = git.staged /\ git'.copy = git.copy
           /\ UNCHANGED <<ledger, abandoned, head, cli>>
BY DEF WriteSidecar, Types, GitHas, GitTypes, GitGoto, Sidecar


\* post-commit promotes the row of HEAD, or drops a file that is not of HEAD.
LEMMA PostFacts ==
    ASSUME Types, PostRead
    PROVE  /\ git.pc = "post" /\ git.msg \in Msgs
           /\ git'.msg = git.msg /\ git'.staged = git.staged /\ git'.tx = git.tx
           /\ UNCHANGED <<ledger, abandoned, head, cli>>
           /\ \/ /\ sidecar' = sidecar /\ sidecar \in Sidecar /\ sidecar.hash = head
                 /\ git'.pc = "promote" /\ git'.copy = sidecar
              \/ /\ sidecar' = (IF Orphan THEN sidecar ELSE NoSidecar) /\ ~(Exists /\ sidecar.hash = head)
                 /\ git'.pc = "done" /\ git'.copy = git.copy
<1> USE RefAssumption, ValuesAssumption DEF Types, FileTypes, LedgerTypes, GitHas, GitTypes,
        GitGoto, Sidecar, Exists, Pending, GcEligible
<1>1. git.pc = "post" /\ git.msg \in Msgs /\ UNCHANGED <<ledger, abandoned, head, cli>>
  BY DEF PostRead
<1>2. \/ sidecar' = sidecar /\ sidecar \in Sidecar /\ sidecar.hash = head
            /\ git' = [git EXCEPT !.pc = "promote", !.copy = sidecar]
      \/ sidecar' = (IF Orphan THEN sidecar ELSE NoSidecar) /\ ~(Exists /\ sidecar.hash = head)
            /\ git' = [git EXCEPT !.pc = "done"]
  BY DEF PostRead
<1>3. CASE sidecar' = sidecar /\ sidecar \in Sidecar /\ sidecar.hash = head
            /\ git' = [git EXCEPT !.pc = "promote", !.copy = sidecar]
  BY <1>1, <1>3
<1>4. CASE sidecar' = (IF Orphan THEN sidecar ELSE NoSidecar) /\ ~(Exists /\ sidecar.hash = head)
            /\ git' = [git EXCEPT !.pc = "done"]
  BY <1>1, <1>4
<1>. QED
  BY <1>1, <1>2, <1>3, <1>4

\* The row is promoted, or it is not.
LEMMA PromoteFacts ==
    ASSUME Types, Promote
    PROVE  /\ git.pc = "promote" /\ git.copy \in Sidecar
           /\ git'.msg = git.msg /\ git'.staged = git.staged /\ git'.tx = git.tx /\ git'.copy = git.copy
           /\ UNCHANGED <<abandoned, sidecar, head, cli>>
           /\ \/ git'.pc = "drop" /\ status'[git.copy.tx] = "COMMITTED"
              \/ git'.pc = "mark"
<1> USE RefAssumption, ValuesAssumption DEF Types, FileTypes, LedgerTypes, GitHas, GitTypes,
        GitGoto, Sidecar, Exists, Pending, GcEligible
<1>1. git.pc = "promote" /\ git.copy \in Sidecar /\ UNCHANGED <<abandoned, sidecar, head, cli>>
  BY DEF Promote
<1>2. \/ L!Resolve({git.copy.tx}, "commit") /\ git' = [git EXCEPT !.pc = "drop"]
      \/ git' = [git EXCEPT !.pc = "mark"]
  BY DEF Promote
<1>3. CASE L!Resolve({git.copy.tx}, "commit") /\ git' = [git EXCEPT !.pc = "drop"]
  <2>1. git.copy.tx \in TxIds
    BY <1>1
  <2>2. status' = [status EXCEPT ![git.copy.tx] = L!Outcome("commit")]
    BY <1>3, <2>1, ResolveRow
  <2>3. status'[git.copy.tx] = "COMMITTED"
    BY <2>1, <2>2 DEF L!Outcome
  <2>. QED
    BY <1>1, <1>3, <2>3
<1>4. CASE git' = [git EXCEPT !.pc = "mark"]
  BY <1>1, <1>4
<1>. QED
  BY <1>1, <1>2, <1>3, <1>4

\* The stale row is rolled back, or it cannot be.
LEMMA GcRollbackFacts ==
    ASSUME Types, GcRollback
    PROVE  /\ git.pc = "gcRollback" /\ git.copy \in Sidecar
           /\ git'.msg = git.msg /\ git'.staged = git.staged /\ git'.tx = git.tx /\ git'.copy = git.copy
           /\ UNCHANGED <<abandoned, sidecar, head, cli>>
           /\ git'.pc \in {"gcRemove", "stale"}
<1> USE RefAssumption, ValuesAssumption DEF Types, FileTypes, LedgerTypes, GitHas, GitTypes,
        GitGoto, Sidecar, Exists, Pending, GcEligible
<1>1. git.pc = "gcRollback" /\ git.copy \in Sidecar /\ UNCHANGED <<abandoned, sidecar, head, cli>>
  BY DEF GcRollback
<1>2. \/ \E l \in {"gcRemove", "stale"} : git' = [git EXCEPT !.pc = l]
  BY DEF GcRollback
<1>3. CASE \E l \in {"gcRemove", "stale"} : git' = [git EXCEPT !.pc = l]
  BY <1>1, <1>3
<1>. QED
  BY <1>1, <1>2, <1>3

\* ledger commit, recover-orphan --promote and the row of --abandon.
LEMMA CommitFacts ==
    ASSUME Types, NEW t \in TxIds, LedgerCommit(t)
    PROVE  /\ cli.pc = "idle" /\ cli'.pc = "unlink" /\ cli'.tx = t /\ status'[t] = "COMMITTED"
           /\ cli'.copy = NoSidecar /\ UNCHANGED <<abandoned, sidecar, head, git>>
<1>1. status' = [status EXCEPT ![t] = L!Outcome("commit")]
  BY ResolveRow DEF LedgerCommit, Types
<1>2. status'[t] = "COMMITTED"
  BY <1>1 DEF L!Outcome, Types, LedgerTypes
<1>. QED
  BY <1>2 DEF LedgerCommit, NoCli

\* The orphan is promoted, or it is not.
LEMMA RecoverFacts ==
    ASSUME Types, RecoverCommit
    PROVE  /\ cli.pc = "promote" /\ cli.copy \in Sidecar /\ UNCHANGED <<abandoned, sidecar, head, git>>
           /\ \/ cli'.pc = "drop" /\ cli'.copy = cli.copy /\ status'[cli.copy.tx] = "COMMITTED"
              \/ cli'.pc = "idle" /\ cli'.copy = NoSidecar
<1>1. cli.pc = "promote" /\ cli.copy \in Sidecar /\ UNCHANGED <<abandoned, sidecar, head, git>>
  BY DEF RecoverCommit, Types, CliHas
<1>2. CASE L!Resolve({cli.copy.tx}, "commit") /\ CliGoto("drop")
  <2>1. cli.copy.tx \in TxIds
    BY <1>1 DEF Sidecar
  <2>2. status' = [status EXCEPT ![cli.copy.tx] = L!Outcome("commit")]
    BY <1>2, <2>1, ResolveRow DEF Types
  <2>3. status'[cli.copy.tx] = "COMMITTED"
    BY <2>1, <2>2 DEF L!Outcome, Types, LedgerTypes
  <2>4. cli'.pc = "drop" /\ cli'.copy = cli.copy
    BY <1>2 DEF CliGoto, Types, CliHas, CliTypes
  <2>. QED
    BY <1>1, <2>3, <2>4
<1>3. CASE cli' = NoCli
  BY <1>1, <1>3 DEF NoCli
<1>. QED
  BY <1>2, <1>3 DEF RecoverCommit

\* The MAINTENANCE row is opened, or there is one.
LEMMA AnnounceFacts ==
    ASSUME Types, Announce
    PROVE  /\ cli.pc = "announce" /\ cli.copy \in Sidecar /\ UNCHANGED <<abandoned, sidecar, head, git>>
           /\ \/ cli'.pc = "maintain" /\ cli'.copy = cli.copy
              \/ cli'.pc = "idle" /\ cli'.copy = NoSidecar
<1>1. cli.pc = "announce" /\ cli.copy \in Sidecar /\ UNCHANGED <<abandoned, sidecar, head, git>>
  BY DEF Announce, Types, CliHas
<1>2. \/ \E t \in TxIds : cli' = [cli EXCEPT !.pc = "maintain", !.tx = t]
      \/ cli' = NoCli
  BY DEF Announce
<1>3. CASE \E t \in TxIds : cli' = [cli EXCEPT !.pc = "maintain", !.tx = t]
  BY <1>1, <1>3 DEF Types, CliHas, CliTypes
<1>4. CASE cli' = NoCli
  BY <1>1, <1>4 DEF NoCli
<1>. QED
  BY <1>2, <1>3, <1>4

\* A row that a file names exists.
LEMMA RowsStep == Types /\ Rows /\ [Next]_vars => Rows'
<1> SUFFICES ASSUME Types /\ Rows, [Next]_vars
             PROVE  Rows'
  OBVIOUS
<1> USE RefAssumption, ValuesAssumption, LedgerStep DEF Lasting, Rows, Sidecar, Pending,
        Types, LedgerTypes, FileTypes, GitHas, CliHas, GitTypes, CliTypes, GitGoto, CliGoto,
        NoGit, NoCli, Exists
<1>1. ASSUME NEW m \in Msgs, NEW e \in Entities \cup {NoName}, BeginCommit(m, e) PROVE Rows'
  BY <1>1 DEF BeginCommit
<1>2. ASSUME NEW m \in Msgs, BypassHook(m) PROVE Rows'
  BY <1>2 DEF BypassHook
<1>3. ASSUME NEW m \in Msgs, MoveHead(m) PROVE Rows'
  BY <1>3 DEF MoveHead
<1>4. ASSUME NEW t \in TxIds, NEW e \in Entities, LedgerStart(t, e) PROVE Rows'
  BY <1>4 DEF LedgerStart
<1>5. ASSUME NEW t \in TxIds, LedgerRollback(t) PROVE Rows'
  BY <1>5 DEF LedgerRollback
<1>6. ASSUME NEW t \in TxIds, LedgerCommit(t) PROVE Rows'
  BY <1>6, CommitFacts DEF ledger
<1>7. ASSUME NEW S \in SUBSET TxIds, GcScan(S) PROVE Rows'
  BY <1>7 DEF GcScan
<1>8. CASE RecoverPromote
  BY <1>8 DEF RecoverPromote
<1>9. CASE RecoverAbandon
  BY <1>9 DEF RecoverAbandon
<1>10. CASE HookRepair
  BY <1>10 DEF HookRepair
<1>11. CASE GcSidecar
  BY <1>11, GcFacts DEF ledger
<1>12. CASE GcRollback
  BY <1>12, GcRollbackFacts DEF ledger
<1>13. CASE GcRemove
  BY <1>13 DEF GcRemove
<1>14. CASE Classify
  BY <1>14, ClassifyFacts DEF ledger
<1>15. CASE Link
  BY <1>15 DEF Link
<1>16. CASE SkipIntent
  BY <1>16 DEF SkipIntent
<1>17. CASE Capture
  BY <1>17, CaptureFacts DEF ledger
<1>18. CASE WriteSidecar
  BY <1>18, WriteFacts DEF ledger
<1>19. CASE CreateCommit
  BY <1>19 DEF CreateCommit
<1>20. CASE EndCommit
  BY <1>20 DEF EndCommit
<1>21. CASE PostRead
  BY <1>21, PostFacts DEF ledger
<1>22. CASE Promote
  BY <1>22, PromoteFacts DEF ledger
<1>23. CASE MarkFailed
  BY <1>23 DEF MarkFailed
<1>24. CASE DropSidecar
  BY <1>24 DEF DropSidecar
<1>25. CASE Unlink
  BY <1>25 DEF Unlink
<1>26. ASSUME NEW t \in TxIds, GcOne(t) PROVE Rows'
  BY <1>26 DEF GcOne
<1>27. CASE RecoverCommit
  BY <1>27, RecoverFacts DEF ledger
<1>28. CASE Announce
  BY <1>28, AnnounceFacts DEF ledger
<1>29. CASE Maintain
  BY <1>29 DEF Maintain
<1>30. CASE Undo
  BY <1>30 DEF Undo
<1>31. CASE CliDrop
  BY <1>31 DEF CliDrop
<1>32. CASE Repair
  BY <1>32 DEF Repair
<1>33. CASE RepairDrop
  BY <1>33 DEF RepairDrop
<1>34. CASE GitFault
  BY <1>34 DEF GitFault
<1>35. CASE CliFault
  BY <1>35 DEF CliFault
<1>36. CASE UNCHANGED vars
  BY <1>36 DEF vars
<1>. QED
  BY <1>1, <1>2, <1>3, <1>4, <1>5, <1>6, <1>7, <1>8, <1>9, <1>10, <1>11, <1>12, <1>13,
     <1>14,
     <1>15, <1>16, <1>17, <1>18, <1>19, <1>20, <1>21, <1>22, <1>23, <1>24, <1>25, <1>26, <1>27,
     <1>28, <1>29, <1>30, <1>31, <1>32, <1>33, <1>34, <1>35, <1>36
     DEF Next, User, GitStep, CliStep

\* What a hook read of the file is still there, or the file is gone.
LEMMA HookReadsStep == Types /\ HookReads /\ [Next]_vars => HookReads'
<1> SUFFICES ASSUME Types /\ HookReads, [Next]_vars
             PROVE  HookReads'
  OBVIOUS
<1> USE RefAssumption, ValuesAssumption, LedgerStep DEF Lasting, HookReads, Sidecar,
        Pending, GcEligible, Types, LedgerTypes, FileTypes, GitHas, CliHas, GitTypes,
        CliTypes, GitGoto, CliGoto, NoGit, NoCli, Exists
<1>1. ASSUME NEW m \in Msgs, NEW e \in Entities \cup {NoName}, BeginCommit(m, e)
      PROVE  HookReads'
  BY <1>1 DEF BeginCommit
<1>2. ASSUME NEW m \in Msgs, BypassHook(m) PROVE HookReads'
  BY <1>2 DEF BypassHook
<1>3. ASSUME NEW m \in Msgs, MoveHead(m) PROVE HookReads'
  BY <1>3 DEF MoveHead
<1>4. ASSUME NEW t \in TxIds, NEW e \in Entities, LedgerStart(t, e) PROVE HookReads'
  BY <1>4 DEF LedgerStart
<1>5. ASSUME NEW t \in TxIds, LedgerRollback(t) PROVE HookReads'
  BY <1>5 DEF LedgerRollback
<1>6. ASSUME NEW t \in TxIds, LedgerCommit(t) PROVE HookReads'
  BY <1>6, CommitFacts DEF ledger
<1>7. ASSUME NEW S \in SUBSET TxIds, GcScan(S) PROVE HookReads'
  BY <1>7 DEF GcScan
<1>8. CASE RecoverPromote
  BY <1>8 DEF RecoverPromote
<1>9. CASE RecoverAbandon
  BY <1>9 DEF RecoverAbandon
<1>10. CASE HookRepair
  BY <1>10 DEF HookRepair
<1>11. CASE GcSidecar
  BY <1>11, GcFacts DEF ledger
<1>12. CASE GcRollback
  BY <1>12, GcRollbackFacts DEF ledger
<1>13. CASE GcRemove
  BY <1>13 DEF GcRemove
<1>14. CASE Classify
  BY <1>14, ClassifyFacts DEF ledger
<1>15. CASE Link
  BY <1>15 DEF Link
<1>16. CASE SkipIntent
  BY <1>16 DEF SkipIntent
<1>17. CASE Capture
  BY <1>17, CaptureFacts DEF ledger
<1>18. CASE WriteSidecar
  BY <1>18, WriteFacts DEF ledger
<1>19. CASE CreateCommit
  BY <1>19 DEF CreateCommit
<1>20. CASE EndCommit
  BY <1>20 DEF EndCommit
<1>21. CASE PostRead
  BY <1>21, PostFacts DEF ledger
<1>22. CASE Promote
  BY <1>22, PromoteFacts DEF ledger
<1>23. CASE MarkFailed
  BY <1>23 DEF MarkFailed
<1>24. CASE DropSidecar
  BY <1>24 DEF DropSidecar
<1>25. CASE Unlink
  BY <1>25 DEF Unlink
<1>26. ASSUME NEW t \in TxIds, GcOne(t) PROVE HookReads'
  BY <1>26 DEF GcOne
<1>27. CASE RecoverCommit
  BY <1>27, RecoverFacts DEF ledger
<1>28. CASE Announce
  BY <1>28, AnnounceFacts DEF ledger
<1>29. CASE Maintain
  BY <1>29 DEF Maintain
<1>30. CASE Undo
  BY <1>30 DEF Undo
<1>31. CASE CliDrop
  BY <1>31 DEF CliDrop
<1>32. CASE Repair
  BY <1>32 DEF Repair
<1>33. CASE RepairDrop
  BY <1>33 DEF RepairDrop
<1>34. CASE GitFault
  BY <1>34 DEF GitFault
<1>35. CASE CliFault
  BY <1>35 DEF CliFault
<1>36. CASE UNCHANGED vars
  BY <1>36 DEF vars
<1>. QED
  BY <1>1, <1>2, <1>3, <1>4, <1>5, <1>6, <1>7, <1>8, <1>9, <1>10, <1>11, <1>12, <1>13,
     <1>14,
     <1>15, <1>16, <1>17, <1>18, <1>19, <1>20, <1>21, <1>22, <1>23, <1>24, <1>25, <1>26, <1>27,
     <1>28, <1>29, <1>30, <1>31, <1>32, <1>33, <1>34, <1>35, <1>36
     DEF Next, User, GitStep, CliStep

\* So is what a command read.
LEMMA CliReadsStep == Types /\ HookReads /\ CliReads /\ [Next]_vars => CliReads'
<1> SUFFICES ASSUME Types /\ HookReads /\ CliReads, [Next]_vars
             PROVE  CliReads'
  OBVIOUS
<1> USE RefAssumption, ValuesAssumption, LedgerStep DEF Lasting, CliReads, HookReads,
        Recovering, Sidecar, MayOverlap, MayCommit, Types, LedgerTypes, FileTypes, GitHas,
        CliHas, GitTypes, CliTypes, GitGoto, CliGoto, NoGit, NoCli, Exists
<1>1. ASSUME NEW m \in Msgs, NEW e \in Entities \cup {NoName}, BeginCommit(m, e)
      PROVE  CliReads'
  BY <1>1 DEF BeginCommit
<1>2. ASSUME NEW m \in Msgs, BypassHook(m) PROVE CliReads'
  BY <1>2 DEF BypassHook
<1>3. ASSUME NEW m \in Msgs, MoveHead(m) PROVE CliReads'
  BY <1>3 DEF MoveHead
<1>4. ASSUME NEW t \in TxIds, NEW e \in Entities, LedgerStart(t, e) PROVE CliReads'
  BY <1>4 DEF LedgerStart
<1>5. ASSUME NEW t \in TxIds, LedgerRollback(t) PROVE CliReads'
  BY <1>5 DEF LedgerRollback
<1>6. ASSUME NEW t \in TxIds, LedgerCommit(t) PROVE CliReads'
  BY <1>6, CommitFacts DEF ledger
<1>7. ASSUME NEW S \in SUBSET TxIds, GcScan(S) PROVE CliReads'
  BY <1>7 DEF GcScan
<1>8. CASE RecoverPromote
  BY <1>8 DEF RecoverPromote
<1>9. CASE RecoverAbandon
  BY <1>9 DEF RecoverAbandon
<1>10. CASE HookRepair
  BY <1>10 DEF HookRepair
<1>11. CASE GcSidecar
  BY <1>11, GcFacts DEF ledger
<1>12. CASE GcRollback
  BY <1>12, GcRollbackFacts DEF ledger
<1>13. CASE GcRemove
  BY <1>13 DEF GcRemove
<1>14. CASE Classify
  BY <1>14, ClassifyFacts DEF ledger
<1>15. CASE Link
  BY <1>15 DEF Link
<1>16. CASE SkipIntent
  BY <1>16 DEF SkipIntent
<1>17. CASE Capture
  BY <1>17, CaptureFacts DEF ledger
<1>18. CASE WriteSidecar
  BY <1>18, WriteFacts DEF ledger
<1>19. CASE CreateCommit
  BY <1>19 DEF CreateCommit
<1>20. CASE EndCommit
  BY <1>20 DEF EndCommit
<1>21. CASE PostRead
  BY <1>21, PostFacts DEF ledger
<1>22. CASE Promote
  BY <1>22, PromoteFacts DEF ledger
<1>23. CASE MarkFailed
  BY <1>23 DEF MarkFailed
<1>24. CASE DropSidecar
  BY <1>24 DEF DropSidecar
<1>25. CASE Unlink
  BY <1>25 DEF Unlink
<1>26. ASSUME NEW t \in TxIds, GcOne(t) PROVE CliReads'
  BY <1>26 DEF GcOne
<1>27. CASE RecoverCommit
  BY <1>27, RecoverFacts DEF ledger
<1>28. CASE Announce
  BY <1>28, AnnounceFacts DEF ledger
<1>29. CASE Maintain
  BY <1>29 DEF Maintain
<1>30. CASE Undo
  BY <1>30 DEF Undo
<1>31. CASE CliDrop
  BY <1>31 DEF CliDrop
<1>32. CASE Repair
  BY <1>32 DEF Repair
<1>33. CASE RepairDrop
  BY <1>33 DEF RepairDrop
<1>34. CASE GitFault
  BY <1>34 DEF GitFault
<1>35. CASE CliFault
  BY <1>35 DEF CliFault
<1>36. CASE UNCHANGED vars
  BY <1>36 DEF vars
<1>. QED
  BY <1>1, <1>2, <1>3, <1>4, <1>5, <1>6, <1>7, <1>8, <1>9, <1>10, <1>11, <1>12, <1>13,
     <1>14,
     <1>15, <1>16, <1>17, <1>18, <1>19, <1>20, <1>21, <1>22, <1>23, <1>24, <1>25, <1>26, <1>27,
     <1>28, <1>29, <1>30, <1>31, <1>32, <1>33, <1>34, <1>35, <1>36
     DEF Next, User, GitStep, CliStep

\* Under enforce the row of a commit is not lost.
LEMMA CoveredStep ==
    Types /\ HookReads /\ CliReads /\ Rows /\ Covered /\ [Next]_vars => Covered'
<1> SUFFICES ASSUME Types /\ HookReads /\ CliReads /\ Rows /\ Covered, [Next]_vars
             PROVE  Covered'
  OBVIOUS
<1> USE RefAssumption, ValuesAssumption, LedgerStep DEF Lasting, Covered, Bound, HookReads,
        CliReads, Recovering, Sidecar, GcEligible, Orphan, Pending, Types, LedgerTypes,
        FileTypes, GitHas, CliHas, GitTypes, CliTypes, GitGoto, CliGoto, NoGit, NoCli,
        Exists
<1>1. ASSUME NEW m \in Msgs, NEW e \in Entities \cup {NoName}, BeginCommit(m, e)
      PROVE  Covered'
  BY <1>1 DEF BeginCommit
<1>2. ASSUME NEW m \in Msgs, BypassHook(m) PROVE Covered'
  BY <1>2 DEF BypassHook
<1>3. ASSUME NEW m \in Msgs, MoveHead(m) PROVE Covered'
  BY <1>3 DEF MoveHead
<1>4. ASSUME NEW t \in TxIds, NEW e \in Entities, LedgerStart(t, e) PROVE Covered'
  BY <1>4 DEF LedgerStart
<1>5. ASSUME NEW t \in TxIds, LedgerRollback(t) PROVE Covered'
  BY <1>5 DEF LedgerRollback
<1>6. ASSUME NEW t \in TxIds, LedgerCommit(t) PROVE Covered'
  BY <1>6, CommitFacts DEF ledger
<1>7. ASSUME NEW S \in SUBSET TxIds, GcScan(S) PROVE Covered'
  BY <1>7 DEF GcScan
<1>8. CASE RecoverPromote
  BY <1>8 DEF RecoverPromote
<1>9. CASE RecoverAbandon
  BY <1>9 DEF RecoverAbandon
<1>10. CASE HookRepair
  BY <1>10 DEF HookRepair
<1>11. CASE GcSidecar
  BY <1>11, GcFacts DEF ledger
<1>12. CASE GcRollback
  BY <1>12, GcRollbackFacts DEF ledger
<1>13. CASE GcRemove
  BY <1>13 DEF GcRemove
<1>14. CASE Classify
  BY <1>14, ClassifyFacts DEF ledger
<1>15. CASE Link
  BY <1>15 DEF Link
<1>16. CASE SkipIntent
  BY <1>16 DEF SkipIntent
<1>17. CASE Capture
  BY <1>17, CaptureFacts DEF ledger
<1>18. CASE WriteSidecar
  BY <1>18, WriteFacts DEF ledger
<1>19. CASE CreateCommit
  BY <1>19 DEF CreateCommit
<1>20. CASE EndCommit
  BY <1>20 DEF EndCommit
<1>21. CASE PostRead
  BY <1>21, PostFacts DEF ledger
<1>22. CASE Promote
  BY <1>22, PromoteFacts DEF ledger
<1>23. CASE MarkFailed
  BY <1>23 DEF MarkFailed
<1>24. CASE DropSidecar
  BY <1>24 DEF DropSidecar
<1>25. CASE Unlink
  BY <1>25 DEF Unlink
<1>26. ASSUME NEW t \in TxIds, GcOne(t) PROVE Covered'
  BY <1>26 DEF GcOne
<1>27. CASE RecoverCommit
  BY <1>27, RecoverFacts DEF ledger
<1>28. CASE Announce
  BY <1>28, AnnounceFacts DEF ledger
<1>29. CASE Maintain
  BY <1>29 DEF Maintain
<1>30. CASE Undo
  BY <1>30 DEF Undo
<1>31. CASE CliDrop
  BY <1>31 DEF CliDrop
<1>32. CASE Repair
  BY <1>32 DEF Repair
<1>33. CASE RepairDrop
  BY <1>33 DEF RepairDrop
<1>34. CASE GitFault
  BY <1>34 DEF GitFault
<1>35. CASE CliFault
  BY <1>35 DEF CliFault
<1>36. CASE UNCHANGED vars
  BY <1>36 DEF vars
<1>. QED
  BY <1>1, <1>2, <1>3, <1>4, <1>5, <1>6, <1>7, <1>8, <1>9, <1>10, <1>11, <1>12, <1>13,
     <1>14,
     <1>15, <1>16, <1>17, <1>18, <1>19, <1>20, <1>21, <1>22, <1>23, <1>24, <1>25, <1>26, <1>27,
     <1>28, <1>29, <1>30, <1>31, <1>32, <1>33, <1>34, <1>35, <1>36
     DEF Next, User, GitStep, CliStep

-----------------------------------------------------------------------------
(* Who touches the file.                                                   *)

Writers == WriteSidecar \/ MarkFailed
Removers == GcRemove \/ PostRead \/ DropSidecar \/ Unlink \/ CliDrop \/ RepairDrop

\* Who writes the file.
LEMMA SidecarWriters == sidecar' # NoSidecar /\ sidecar' # sidecar /\ [Next]_vars => Writers
<1> SUFFICES ASSUME sidecar' # NoSidecar /\ sidecar' # sidecar, [Next]_vars
             PROVE  Writers
  OBVIOUS
<1>1. ASSUME NEW m \in Msgs, NEW e \in Entities \cup {NoName}, BeginCommit(m, e)
      PROVE  Writers
  BY <1>1 DEF Exists, Orphan, Writers, BeginCommit
<1>2. ASSUME NEW m \in Msgs, BypassHook(m) PROVE Writers
  BY <1>2 DEF Exists, Orphan, Writers, BypassHook
<1>3. ASSUME NEW m \in Msgs, MoveHead(m) PROVE Writers
  BY <1>3 DEF Exists, Orphan, Writers, MoveHead
<1>4. ASSUME NEW t \in TxIds, NEW e \in Entities, LedgerStart(t, e) PROVE Writers
  BY <1>4 DEF Exists, Orphan, Writers, LedgerStart
<1>5. ASSUME NEW t \in TxIds, LedgerRollback(t) PROVE Writers
  BY <1>5 DEF Exists, Orphan, Writers, LedgerRollback
<1>6. ASSUME NEW t \in TxIds, LedgerCommit(t) PROVE Writers
  BY <1>6 DEF Exists, Orphan, Writers, LedgerCommit
<1>7. ASSUME NEW S \in SUBSET TxIds, GcScan(S) PROVE Writers
  BY <1>7 DEF Exists, Orphan, Writers, GcScan
<1>8. CASE RecoverPromote
  BY <1>8 DEF Exists, Orphan, Writers, RecoverPromote
<1>9. CASE RecoverAbandon
  BY <1>9 DEF Exists, Orphan, Writers, RecoverAbandon
<1>10. CASE HookRepair
  BY <1>10 DEF Exists, Orphan, Writers, HookRepair
<1>11. CASE GcSidecar
  BY <1>11 DEF Exists, Orphan, Writers, GcSidecar
<1>12. CASE GcRollback
  BY <1>12 DEF Exists, Orphan, Writers, GcRollback
<1>13. CASE GcRemove
  BY <1>13 DEF Exists, Orphan, Writers, GcRemove
<1>14. CASE Classify
  BY <1>14 DEF Exists, Orphan, Writers, Classify
<1>15. CASE Link
  BY <1>15 DEF Exists, Orphan, Writers, Link
<1>16. CASE SkipIntent
  BY <1>16 DEF Exists, Orphan, Writers, SkipIntent
<1>17. CASE Capture
  BY <1>17 DEF Exists, Orphan, Writers, Capture
<1>18. CASE WriteSidecar
  BY <1>18 DEF Exists, Orphan, Writers, WriteSidecar
<1>19. CASE CreateCommit
  BY <1>19 DEF Exists, Orphan, Writers, CreateCommit
<1>20. CASE EndCommit
  BY <1>20 DEF Exists, Orphan, Writers, EndCommit
<1>21. CASE PostRead
  BY <1>21 DEF Exists, Orphan, Writers, PostRead
<1>22. CASE Promote
  BY <1>22 DEF Exists, Orphan, Writers, Promote
<1>23. CASE MarkFailed
  BY <1>23 DEF Exists, Orphan, Writers, MarkFailed
<1>24. CASE DropSidecar
  BY <1>24 DEF Exists, Orphan, Writers, DropSidecar
<1>25. CASE Unlink
  BY <1>25 DEF Exists, Orphan, Writers, Unlink
<1>26. ASSUME NEW t \in TxIds, GcOne(t) PROVE Writers
  BY <1>26 DEF Exists, Orphan, Writers, GcOne
<1>27. CASE RecoverCommit
  BY <1>27 DEF Exists, Orphan, Writers, RecoverCommit
<1>28. CASE Announce
  BY <1>28 DEF Exists, Orphan, Writers, Announce
<1>29. CASE Maintain
  BY <1>29 DEF Exists, Orphan, Writers, Maintain
<1>30. CASE Undo
  BY <1>30 DEF Exists, Orphan, Writers, Undo
<1>31. CASE CliDrop
  BY <1>31 DEF Exists, Orphan, Writers, CliDrop
<1>32. CASE Repair
  BY <1>32 DEF Exists, Orphan, Writers, Repair
<1>33. CASE RepairDrop
  BY <1>33 DEF Exists, Orphan, Writers, RepairDrop
<1>34. CASE GitFault
  BY <1>34 DEF Exists, Orphan, Writers, GitFault
<1>35. CASE CliFault
  BY <1>35 DEF Exists, Orphan, Writers, CliFault
<1>36. CASE UNCHANGED vars
  BY <1>36 DEF Exists, Orphan, Writers, vars
<1>. QED
  BY <1>1, <1>2, <1>3, <1>4, <1>5, <1>6, <1>7, <1>8, <1>9, <1>10, <1>11, <1>12, <1>13,
     <1>14,
     <1>15, <1>16, <1>17, <1>18, <1>19, <1>20, <1>21, <1>22, <1>23, <1>24, <1>25, <1>26, <1>27,
     <1>28, <1>29, <1>30, <1>31, <1>32, <1>33, <1>34, <1>35, <1>36
     DEF Next, User, GitStep, CliStep

\* Who removes it.
LEMMA SidecarRemovers ==
    Types /\ sidecar # NoSidecar /\ sidecar' = NoSidecar /\ [Next]_vars => Removers
<1> SUFFICES ASSUME Types /\ sidecar # NoSidecar /\ sidecar' = NoSidecar, [Next]_vars
             PROVE  Removers
  OBVIOUS
<1>1. ASSUME NEW m \in Msgs, NEW e \in Entities \cup {NoName}, BeginCommit(m, e)
      PROVE  Removers
  BY <1>1 DEF Exists, Orphan, Removers, BeginCommit
<1>2. ASSUME NEW m \in Msgs, BypassHook(m) PROVE Removers
  BY <1>2 DEF Exists, Orphan, Removers, BypassHook
<1>3. ASSUME NEW m \in Msgs, MoveHead(m) PROVE Removers
  BY <1>3 DEF Exists, Orphan, Removers, MoveHead
<1>4. ASSUME NEW t \in TxIds, NEW e \in Entities, LedgerStart(t, e) PROVE Removers
  BY <1>4 DEF Exists, Orphan, Removers, LedgerStart
<1>5. ASSUME NEW t \in TxIds, LedgerRollback(t) PROVE Removers
  BY <1>5 DEF Exists, Orphan, Removers, LedgerRollback
<1>6. ASSUME NEW t \in TxIds, LedgerCommit(t) PROVE Removers
  BY <1>6 DEF Exists, Orphan, Removers, LedgerCommit
<1>7. ASSUME NEW S \in SUBSET TxIds, GcScan(S) PROVE Removers
  BY <1>7 DEF Exists, Orphan, Removers, GcScan
<1>8. CASE RecoverPromote
  BY <1>8 DEF Exists, Orphan, Removers, RecoverPromote
<1>9. CASE RecoverAbandon
  BY <1>9 DEF Exists, Orphan, Removers, RecoverAbandon
<1>10. CASE HookRepair
  BY <1>10 DEF Exists, Orphan, Removers, HookRepair
<1>11. CASE GcSidecar
  BY <1>11 DEF Exists, Orphan, Removers, GcSidecar
<1>12. CASE GcRollback
  BY <1>12 DEF Exists, Orphan, Removers, GcRollback
<1>13. CASE GcRemove
  BY <1>13 DEF Exists, Orphan, Removers, GcRemove
<1>14. CASE Classify
  BY <1>14 DEF Exists, Orphan, Removers, Classify
<1>15. CASE Link
  BY <1>15 DEF Exists, Orphan, Removers, Link
<1>16. CASE SkipIntent
  BY <1>16 DEF Exists, Orphan, Removers, SkipIntent
<1>17. CASE Capture
  BY <1>17 DEF Exists, Orphan, Removers, Capture
<1>18. CASE WriteSidecar
  BY <1>18, WriteFacts, ValuesAssumption DEF Removers
<1>19. CASE CreateCommit
  BY <1>19 DEF Exists, Orphan, Removers, CreateCommit
<1>20. CASE EndCommit
  BY <1>20 DEF Exists, Orphan, Removers, EndCommit
<1>21. CASE PostRead
  BY <1>21 DEF Exists, Orphan, Removers, PostRead
<1>22. CASE Promote
  BY <1>22 DEF Exists, Orphan, Removers, Promote
<1>23. CASE MarkFailed
  BY <1>23, ValuesAssumption DEF MarkFailed, Types, GitHas, Sidecar, Removers
<1>24. CASE DropSidecar
  BY <1>24 DEF Exists, Orphan, Removers, DropSidecar
<1>25. CASE Unlink
  BY <1>25 DEF Exists, Orphan, Removers, Unlink
<1>26. ASSUME NEW t \in TxIds, GcOne(t) PROVE Removers
  BY <1>26 DEF Exists, Orphan, Removers, GcOne
<1>27. CASE RecoverCommit
  BY <1>27 DEF Exists, Orphan, Removers, RecoverCommit
<1>28. CASE Announce
  BY <1>28 DEF Exists, Orphan, Removers, Announce
<1>29. CASE Maintain
  BY <1>29 DEF Exists, Orphan, Removers, Maintain
<1>30. CASE Undo
  BY <1>30 DEF Exists, Orphan, Removers, Undo
<1>31. CASE CliDrop
  BY <1>31 DEF Exists, Orphan, Removers, CliDrop
<1>32. CASE Repair
  BY <1>32 DEF Exists, Orphan, Removers, Repair
<1>33. CASE RepairDrop
  BY <1>33 DEF Exists, Orphan, Removers, RepairDrop
<1>34. CASE GitFault
  BY <1>34 DEF Exists, Orphan, Removers, GitFault
<1>35. CASE CliFault
  BY <1>35 DEF Exists, Orphan, Removers, CliFault
<1>36. CASE UNCHANGED vars
  BY <1>36 DEF Exists, Orphan, Removers, vars
<1>. QED
  BY <1>1, <1>2, <1>3, <1>4, <1>5, <1>6, <1>7, <1>8, <1>9, <1>10, <1>11, <1>12, <1>13,
     <1>14,
     <1>15, <1>16, <1>17, <1>18, <1>19, <1>20, <1>21, <1>22, <1>23, <1>24, <1>25, <1>26, <1>27,
     <1>28, <1>29, <1>30, <1>31, <1>32, <1>33, <1>34, <1>35, <1>36
     DEF Next, User, GitStep, CliStep

\* The invariants hold before the first commit.
LEMMA InitInv == Init => IInv
<1> SUFFICES ASSUME Init PROVE IInv
  OBVIOUS
<1> USE RefAssumption, ValuesAssumption DEF Init, NoGit, NoCli
<1>1. Types
  BY DEF Types, LedgerTypes, FileTypes, Counts, GitHas, CliHas, GitTypes, CliTypes, L!Init,
     L!Statuses
<1>2. Rows /\ HookReads /\ CliReads /\ Covered
  BY DEF Rows, HookReads, CliReads, Covered, Exists, Recovering
<1>. QED
  BY <1>1, <1>2 DEF IInv

-----------------------------------------------------------------------------
(* The properties.                                                         *)

\* The invariants hold together in every state.
THEOREM HookInvariant == Spec => []IInv
<1>1. IInv /\ [Next]_vars => IInv'
  BY TypesStep, RowsStep, HookReadsStep, CliReadsStep, CoveredStep DEF IInv
<1>. QED
  BY <1>1, InitInv, PTL DEF Spec

\* Variables have values of their types, and a file, on disk or as it was
\* read, names a row that exists (PendingHookTx).
THEOREM HookTypeCorrect == Spec => []TypeOK
<1>1. IInv => TypeOK
  BY DEF IInv, TypeOK, Types, LedgerTypes, FileTypes, Counts, GitHas, CliHas, GitTypes,
     CliTypes, Rows
<1>. QED
  BY <1>1, HookInvariant, PTL

\* No commit overwrites the file of another one, whatever commands run
\* meanwhile (gc_pending_sidecar, write_signed_sidecar_for_tx).
THEOREM NothingClobbered == Spec => NoClobber
<1>1. IInv /\ [Next]_vars =>
         [Exists /\ sidecar' # NoSidecar =>
             sidecar'.tx = sidecar.tx /\ sidecar'.hash = sidecar.hash]_vars
  <2> SUFFICES ASSUME IInv, [Next]_vars, Exists, sidecar' # NoSidecar, sidecar' # sidecar
               PROVE  sidecar'.tx = sidecar.tx /\ sidecar'.hash = sidecar.hash
    OBVIOUS
  <2>1. WriteSidecar \/ MarkFailed
    BY SidecarWriters DEF Writers
  <2>2. CASE WriteSidecar
    BY <2>2 DEF IInv, HookReads, WriteSidecar
  <2>3. CASE MarkFailed
    BY <2>3 DEF IInv, HookReads, Types, GitHas, Sidecar, MarkFailed, Exists
  <2>. QED
    BY <2>1, <2>2, <2>3
<1>. QED
  BY <1>1, HookInvariant, PTL DEF Spec, NoClobber

\* A file with a promotion that failed goes away only with its row resolved or
\* abandoned, if commits and recovery take turns (recover-orphan).
THEOREM TrailKept == ASSUME Overlap = {} PROVE Spec => OrphanTrail
<1>1. IInv /\ [Next]_vars =>
         [Orphan /\ sidecar' = NoSidecar /\ cli.pc # "repairDrop" =>
             status'[sidecar.tx] \in {"COMMITTED", "ROLLED_BACK"} \/ sidecar.tx \in abandoned]_vars
  <2> SUFFICES ASSUME IInv, [Next]_vars, Orphan, sidecar' = NoSidecar, cli.pc # "repairDrop"
               PROVE  status'[sidecar.tx] \in {"COMMITTED", "ROLLED_BACK"} \/ sidecar.tx \in abandoned
    OBVIOUS
  <2> USE DEF IInv, Orphan, Exists
  <2>1. sidecar \in Sidecar /\ sidecar.tx \in TxIds /\ Lasting
    BY LedgerStep DEF Types, FileTypes, Sidecar
  <2>2. GcRemove \/ PostRead \/ DropSidecar \/ Unlink \/ CliDrop \/ RepairDrop
    BY SidecarRemovers DEF IInv, Removers
  <2>3. CASE GcRemove
    BY <2>3 DEF GcRemove, HookReads
  <2>4. CASE PostRead
    BY <2>4, PostFacts
  <2>5. CASE DropSidecar
    BY <2>1, <2>5 DEF DropSidecar, HookReads, ledger
  <2>6. CASE Unlink
    BY <2>1, <2>6 DEF Unlink, CliReads, ledger
  <2>7. CASE CliDrop
    BY <2>1, <2>7 DEF CliDrop, CliReads, Recovering, ledger
  <2>8. CASE RepairDrop
    BY <2>8 DEF RepairDrop
  <2>. QED
    BY <2>2, <2>3, <2>4, <2>5, <2>6, <2>7, <2>8
<1>. QED
  BY <1>1, HookInvariant, PTL DEF Spec, OrphanTrail

\* Under enforce, a commit that passed the hook is accounted for when
\* post-commit returns, if commits and recovery take turns.
THEOREM CommitCovered == ASSUME Overlap = {} PROVE Spec => []EnforceCovers
<1>1. IInv => EnforceCovers
  BY ValuesAssumption DEF IInv, Covered, Bound, HookReads, EnforceCovers
<1>. QED
  BY <1>1, HookInvariant, PTL

=============================================================================

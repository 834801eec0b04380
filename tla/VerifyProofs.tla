----------------------------- MODULE VerifyProofs -----------------------------
(***************************************************************************)
(* Theorems about VerifyRun, for any number of processes, transactions,    *)
(* steps, edits and runs, and any cap of the history, and about the calls  *)
(* a run is made of (GroupedExec), for any number of descendants and       *)
(* streams and any cap, pipe size and amount of output.                    *)
(***************************************************************************)
EXTENDS VerifyRun, GroupedExec, SequenceTheorems, FiniteSetTheorems, TLAPS

-----------------------------------------------------------------------------
(* The invariants the proofs need.                                         *)

Result == SUBSET {"ok", "bad"}
Ended == [num : Nat, tx : Txs \cup {NoTx}, steps : Nat, results : Result, seen : SUBSET Nat,
          pass : BOOLEAN]
Kept == [num : Nat, tx : Txs \cup {NoTx}, pass : BOOLEAN, calm : BOOLEAN, head : Nat \cup {NoHead}]
Active == [pc : {"step", "report", "history", "truncate", "write", "rows"},
           num : Nat, tx : Txs \cup {NoTx}, steps : Nat, results : Result,
           seen : SUBSET Nat, calm : BOOLEAN, file : Seq(Kept)]

WorldTypes == tree \in Nat /\ edits \in Nat /\ commits \in Seq(Nat) /\ commits # <<>>
RunTypes == run \in [Procs -> {Idle} \cup Active] /\ runs \in Nat
StoreTypes ==
    /\ latest \in Seq(Ended) /\ rows \in Seq(Ended)
    /\ history # Torn => history \in Seq(Kept)
    /\ ended \subseteq Ended
Types == WorldTypes /\ RunTypes /\ StoreTypes

Begun(r) == r.pc \in {"step", "report"}
Reported(r) == r.pc \in {"history", "truncate", "write", "rows"}
Whole(e) == e.steps = Planned /\ e.results = {"ok"}

\* A run without a failure so far has all its results, and ends with all of
\* its steps.
Sound(r) ==
    /\ r.pc = "step" => r.steps < Planned
    /\ "bad" \notin r.results =>
          /\ r.pc = "step" => r.steps = 0 \/ r.results = {"ok"}
          /\ r.pc = "step" /\ r.steps = 0 => r.results = {}
          /\ r.pc # "step" => Whole(r)
RunsSound == \A p \in Procs : run[p] # Idle => Sound(run[p])

\* What was reported is about a whole run if it says pass, and each store
\* holds reports only.
ReportsSound == \A e \in ended : e.pass => Whole(e)
Stored ==
    /\ Range(latest) \subseteq ended /\ Range(rows) \subseteq ended
    /\ \A p \in Procs : Reported(run[p]) => Report(run[p]) \in ended

\* A record of the history, in the file or on its way there, is about a
\* report.
About(k) == \E e \in ended : e.num = k.num /\ (k.pass => Whole(e))
HistorySound ==
    /\ history # Torn => \A k \in Range(history) : About(k)
    /\ \A p \in Procs : run[p].pc \in {"truncate", "write"} =>
          \A k \in Range(run[p].file) : About(k)

\* Numbers tell runs apart, and a run that goes on has no report.
Numbered ==
    /\ \A p \in Procs : run[p] # Idle => run[p].num <= runs
    /\ \A p, q \in Procs : run[p] # Idle /\ run[q] # Idle /\ run[p].num = run[q].num => p = q
    /\ \A e \in ended : e.num <= runs
    /\ \A p \in Procs : Begun(run[p]) => \A e \in ended : e.num # run[p].num
    /\ \A p \in Procs : Reported(run[p]) =>
          \A e \in ended : e.num = run[p].num => e = Report(run[p])

\* A run that was left alone has seen the tree as it is.
CalmSeen == \A p \in Procs : run[p] # Idle /\ run[p].calm => run[p].seen \subseteq {tree}

\* A record that binds a commit is about a run over its content, or over a
\* tree that was touched.
Proves(k) ==
    k.calm /\ k.head # NoHead =>
        /\ k.head \in DOMAIN commits
        /\ \A e \in ended : e.num = k.num => e.seen \subseteq {commits[k.head]}
HeadsSound ==
    /\ history # Torn => \A k \in Range(history) : Proves(k)
    /\ \A p \in Procs : run[p].pc \in {"truncate", "write"} =>
          \A k \in Range(run[p].file) : Proves(k)

IInv ==
    /\ Types /\ RunsSound /\ ReportsSound /\ Stored /\ HistorySound
    /\ Numbered /\ CalmSeen /\ HeadsSound
-----------------------------------------------------------------------------
(* Sequences and the operators of a run.                                   *)

\* The new element is all an Append adds.
LEMMA RangeAppend ==
    ASSUME NEW S, NEW s \in Seq(S), NEW x \in S
    PROVE  Append(s, x) \in Seq(S) /\ Range(Append(s, x)) = Range(s) \cup {x}
<1>1. Append(s, x) \in Seq(S) /\ Len(Append(s, x)) = Len(s) + 1
  OBVIOUS
<1>2. \A i \in 1..Len(s) : Append(s, x)[i] = s[i]
  OBVIOUS
<1>3. Append(s, x)[Len(s) + 1] = x
  OBVIOUS
<1>4. Range(Append(s, x)) \subseteq Range(s) \cup {x}
  BY <1>1, <1>2, <1>3 DEF Range
<1>5. x \in Range(Append(s, x))
  BY <1>1, <1>3 DEF Range
<1>6. Range(s) \subseteq Range(Append(s, x))
  BY <1>1, <1>2 DEF Range
<1>. QED
  BY <1>1, <1>4, <1>5, <1>6

\* What the history is capped to was in it, but for the new record.
LEMMA CappedRange ==
    ASSUME NEW h \in Seq(Kept), NEW k \in Kept
    PROVE  Capped(h, k) \in Seq(Kept) /\ Range(Capped(h, k)) \subseteq Range(h) \cup {k}
<1>1. CASE Len(h) < HistoryCap
  BY <1>1, RangeAppend DEF Capped
<1>2. CASE ~(Len(h) < HistoryCap)
  <2>1. h # <<>> /\ Capped(h, k) = Append(Tail(h), k)
    BY <1>2, VerifyAssumption DEF Capped
  <2>2. /\ Tail(h) \in Seq(Kept)
        /\ \A i \in DOMAIN Tail(h) : i + 1 \in DOMAIN h /\ Tail(h)[i] = h[i + 1]
    BY <2>1
  <2>3. Range(Tail(h)) \subseteq Range(h)
    BY <2>2 DEF Range
  <2> DEFINE t == Tail(h)
  <2>4. t \in Seq(Kept) /\ Range(t) \subseteq Range(h)
    BY <2>2, <2>3
  <2>5. Capped(h, k) = Append(t, k)
    BY <2>1
  <2> HIDE DEF t
  <2>6. Append(t, k) \in Seq(Kept) /\ Range(Append(t, k)) = Range(t) \cup {k}
    BY <2>4, RangeAppend
  <2>. QED
    BY <2>4, <2>5, <2>6
<1>. QED
  BY <1>1, <1>2

\* HEAD is the last commit.
LEMMA TipIsLast ==
    ASSUME WorldTypes
    PROVE  Tip \in DOMAIN commits /\ Last(commits) = commits[Tip] /\ Last(commits) \in Nat
BY DEF WorldTypes, Last, Tip

\* A step changes the results, the number of steps, what was seen and pc.
LEMMA AfterRun ==
    ASSUME NEW r \in Active, r.pc = "step", tree \in Nat,
           NEW results \in Result, NEW n \in Nat, NEW end \in BOOLEAN,
           NEW a, a = After(r, results, n, end)
    PROVE  /\ a \in Active /\ a # Idle
           /\ a.num = r.num /\ a.tx = r.tx /\ a.calm = r.calm /\ a.file = r.file
           /\ a.results = r.results \cup results /\ a.steps = r.steps + n
           /\ a.seen = r.seen \cup {tree}
           /\ a.pc = IF end \/ r.steps + n = Planned THEN "report" ELSE "step"
<1> DEFINE pcs == {"step", "report", "history", "truncate", "write", "rows"}
           next == IF end \/ r.steps + n = Planned THEN "report" ELSE "step"
<1>1. r \in [pc : pcs, num : Nat, tx : Txs \cup {NoTx}, steps : Nat, results : Result,
             seen : SUBSET Nat, calm : BOOLEAN, file : Seq(Kept)]
  BY DEF Active
<1>2. a = [r EXCEPT !.results = r.results \cup results, !.steps = r.steps + n,
                    !.seen = r.seen \cup {tree}, !.pc = next]
  BY <1>1 DEF After
<1>3. r.results \cup results \in Result
  BY <1>1 DEF Result
<1>4. r.seen \cup {tree} \in SUBSET Nat
  BY <1>1
<1>5. r.steps + n \in Nat /\ next \in pcs
  BY <1>1
<1> HIDE DEF next
<1>6. /\ a \in Active
      /\ a.num = r.num /\ a.tx = r.tx /\ a.calm = r.calm /\ a.file = r.file
      /\ a.results = r.results \cup results /\ a.steps = r.steps + n
      /\ a.seen = r.seen \cup {tree} /\ a.pc = next
  BY <1>1, <1>2, <1>3, <1>4, <1>5 DEF Active
<1>. QED
  BY <1>6 DEF next, Idle, Active

\* A step leaves a run that goes on or has to report.
LEMMA AfterActive ==
    ASSUME NEW r \in Active, r.pc = "step", tree \in Nat,
           NEW results \in Result, NEW end \in BOOLEAN
    PROVE  After(r, results, 1, end) \in Active
<1> DEFINE a == After(r, results, 1, end)
<1>1. a = After(r, results, 1, end)
  OBVIOUS
<1> HIDE DEF a
<1>2. a \in Active
  BY <1>1, AfterRun
<1>. QED
  BY <1>2 DEF a

\* Moving on changes nothing that is reported.
LEMMA MovedRun ==
    ASSUME NEW r \in Active, NEW x \in {"history", "truncate", "write", "rows"},
           NEW a, a = [r EXCEPT !.pc = x]
    PROVE  /\ a \in Active /\ a # Idle
           /\ a.pc = x /\ a.file = r.file
           /\ a.num = r.num /\ a.tx = r.tx /\ a.steps = r.steps /\ a.results = r.results
           /\ a.seen = r.seen /\ a.calm = r.calm
           /\ Report(a) = Report(r)
<1>1. a \in Active
  BY DEF Active
<1>2. /\ a.pc = x /\ a.file = r.file
      /\ a.num = r.num /\ a.tx = r.tx /\ a.steps = r.steps /\ a.results = r.results
      /\ a.seen = r.seen /\ a.calm = r.calm
  BY DEF Active
<1>3. a # Idle
  BY <1>1 DEF Idle, Active
<1>4. Report(a) = Report(r)
  BY <1>2 DEF Report
<1>. QED
  BY <1>1, <1>2, <1>3, <1>4

\* The run with the content it is going to write to the history.
Filed(r, f) == [r EXCEPT !.pc = "truncate", !.file = f]

\* Taking it along changes nothing that is reported.
LEMMA FiledRun ==
    ASSUME NEW r \in Active, NEW f \in Seq(Kept)
    PROVE  /\ Filed(r, f) \in Active /\ Filed(r, f) # Idle
           /\ Filed(r, f).pc = "truncate" /\ Filed(r, f).file = f
           /\ Filed(r, f).num = r.num /\ Filed(r, f).tx = r.tx
           /\ Filed(r, f).steps = r.steps /\ Filed(r, f).results = r.results
           /\ Filed(r, f).seen = r.seen /\ Filed(r, f).calm = r.calm
           /\ Report(Filed(r, f)) = Report(r)
<1> DEFINE a == [r EXCEPT !.pc = "truncate", !.file = f]
<1>1. a \in Active
  BY DEF Active
<1>2. /\ a.pc = "truncate" /\ a.file = f
      /\ a.num = r.num /\ a.tx = r.tx /\ a.steps = r.steps /\ a.results = r.results
      /\ a.seen = r.seen /\ a.calm = r.calm
  BY DEF Active
<1>3. a # Idle
  BY <1>1 DEF Idle, Active
<1>4. Report(a) = Report(r)
  BY <1>2 DEF Report
<1>. QED
  BY <1>1, <1>2, <1>3, <1>4 DEF Filed

\* An edit or a commit leaves the runs as they are, but no longer calm.
LEMMA DisturbedRun ==
    ASSUME RunTypes, NEW p \in Procs
    PROVE  LET a == Disturbed[p]
               r == run[p]
           IN  /\ r = Idle => a = Idle
               /\ r # Idle =>
                    /\ a \in Active /\ a # Idle /\ ~a.calm
                    /\ a.pc = r.pc /\ a.file = r.file
                    /\ a.num = r.num /\ a.tx = r.tx /\ a.steps = r.steps /\ a.results = r.results
                    /\ a.seen = r.seen
                    /\ Report(a) = Report(r)
<1> DEFINE r == run[p]
           a == [r EXCEPT !.calm = FALSE]
<1>1. r = Idle => Disturbed[p] = Idle
  BY DEF Disturbed
<1>2. r # Idle => Disturbed[p] = a /\ r \in Active
  BY DEF Disturbed, RunTypes
<1>3. ASSUME r \in Active PROVE a \in Active
  BY <1>3 DEF Active
<1>4. ASSUME r \in Active
      PROVE  /\ ~a.calm /\ a.pc = r.pc /\ a.file = r.file
             /\ a.num = r.num /\ a.tx = r.tx /\ a.steps = r.steps /\ a.results = r.results
             /\ a.seen = r.seen
  BY <1>4 DEF Active
<1>5. ASSUME r \in Active PROVE Report(a) = Report(r)
  BY <1>5, <1>4 DEF Report
<1>6. a \in Active => a # Idle
  BY DEF Active, Idle
<1>. QED
  BY <1>1, <1>2, <1>3, <1>4, <1>5, <1>6

\* The report of a run, and the record of it in the history.
LEMMA ReportRun ==
    ASSUME NEW r \in Active
    PROVE  /\ Report(r) \in Ended
           /\ Report(r).num = r.num /\ Report(r).seen = r.seen
           /\ Report(r).pass <=> "bad" \notin r.results
           /\ Report(r).steps = r.steps /\ Report(r).results = r.results
BY DEF Report, Active, Ended

\* The record of a run binds the commit at HEAD, if the tree is clean, or none.
LEMMA RecordRun ==
    ASSUME NEW r \in Active, WorldTypes
    PROVE  /\ Record(r) \in Kept
           /\ Record(r).num = r.num /\ Record(r).calm = r.calm
           /\ Record(r).pass = Report(r).pass
           /\ Record(r).head # NoHead => Clean /\ Record(r).head = Tip
<1>1. Tip \in Nat
  BY TipIsLast DEF WorldTypes, Tip
<1>2. Report(r).pass \in BOOLEAN
  BY DEF Report
<1>3. Record(r) \in Kept
  BY <1>1, <1>2 DEF Record, Kept, Active
<1>. QED
  BY <1>1, <1>3 DEF Record

-----------------------------------------------------------------------------
(* The initial state and each part of the invariant.                       *)

\* The invariants hold before the first run.
LEMMA InitInv == Init => IInv
<1> SUFFICES ASSUME Init PROVE IInv
  OBVIOUS
<1> USE VerifyAssumption DEF Init
<1>1. Types
  BY DEF Types, WorldTypes, RunTypes, StoreTypes
<1>2. RunsSound /\ ReportsSound /\ Stored /\ HistorySound
  BY DEF RunsSound, ReportsSound, Stored, HistorySound, Idle, Reported, Range
<1>3. Numbered /\ CalmSeen /\ HeadsSound
  BY DEF Numbered, CalmSeen, HeadsSound, Idle, Reported, Begun, Range
<1>. QED
  BY <1>1, <1>2, <1>3 DEF IInv

\* Types of the tree and the commits.
LEMMA WorldStep == WorldTypes /\ [Next]_vars => WorldTypes'
<1> SUFFICES ASSUME WorldTypes, [Next]_vars
             PROVE  WorldTypes'
  OBVIOUS
<1> USE VerifyAssumption DEF WorldTypes
<1>1. CASE Edit
  BY <1>1 DEF Edit
<1>2. CASE GoBack
  BY <1>2, TipIsLast DEF GoBack
<1>3. CASE GitCommit
  BY <1>3, TipIsLast DEF GitCommit
<1>4. ASSUME NEW t \in Txs, LedgerCommit(t) \/ LedgerRollback(t) PROVE WorldTypes'
  BY <1>4 DEF LedgerCommit, LedgerRollback, Resolve, world
<1>5. ASSUME NEW p \in Procs, Start(p) PROVE WorldTypes'
  BY <1>5 DEF Start, world
<1>6. ASSUME NEW p \in Procs, Step(p) PROVE WorldTypes'
  BY <1>6 DEF Step, world
<1>7. ASSUME NEW p \in Procs, WriteLatest(p) PROVE WorldTypes'
  BY <1>7 DEF WriteLatest, world
<1>8. ASSUME NEW p \in Procs, ReadHistory(p) PROVE WorldTypes'
  BY <1>8 DEF ReadHistory, world
<1>9. ASSUME NEW p \in Procs, TruncateHistory(p) PROVE WorldTypes'
  BY <1>9 DEF TruncateHistory, world
<1>10. ASSUME NEW p \in Procs, WriteHistory(p) PROVE WorldTypes'
  BY <1>10 DEF WriteHistory, world
<1>11. ASSUME NEW p \in Procs, SaveRows(p) PROVE WorldTypes'
  BY <1>11 DEF SaveRows, world
<1>12. ASSUME NEW p \in Procs, Abort(p) PROVE WorldTypes'
  BY <1>12 DEF Abort, world
<1>13. CASE UNCHANGED vars
  BY <1>13 DEF vars, world
<1>. QED
  BY <1>1, <1>2, <1>3, <1>4, <1>5, <1>6, <1>7, <1>8, <1>9, <1>10, <1>11, <1>12,
     <1>13 DEF Next

\* Types of the runs.
LEMMA RunStep == Types /\ [Next]_vars => RunTypes'
<1> SUFFICES ASSUME Types, [Next]_vars
             PROVE  RunTypes'
  OBVIOUS
<1> USE VerifyAssumption DEF Types, RunTypes
<1>1. CASE Edit
  <2>1. run' = Disturbed
    BY <1>1 DEF Edit
  <2>2. \A p \in Procs : Disturbed[p] \in {Idle} \cup Active
    BY DisturbedRun DEF RunTypes
  <2>3. Disturbed = [p \in Procs |-> Disturbed[p]]
    BY DEF Disturbed
  <2>4. runs' = runs
    BY <1>1 DEF Edit
  <2>. QED
    BY <2>1, <2>2, <2>3, <2>4
<1>2. CASE GoBack
  <2>1. run' = Disturbed
    BY <1>2 DEF GoBack
  <2>2. \A p \in Procs : Disturbed[p] \in {Idle} \cup Active
    BY DisturbedRun DEF RunTypes
  <2>3. Disturbed = [p \in Procs |-> Disturbed[p]]
    BY DEF Disturbed
  <2>4. runs' = runs
    BY <1>2 DEF GoBack
  <2>. QED
    BY <2>1, <2>2, <2>3, <2>4
<1>3. CASE GitCommit
  <2>1. run' = Disturbed
    BY <1>3 DEF GitCommit
  <2>2. \A p \in Procs : Disturbed[p] \in {Idle} \cup Active
    BY DisturbedRun DEF RunTypes
  <2>3. Disturbed = [p \in Procs |-> Disturbed[p]]
    BY DEF Disturbed
  <2>4. runs' = runs
    BY <1>3 DEF GitCommit
  <2>. QED
    BY <2>1, <2>2, <2>3, <2>4
<1>4. ASSUME NEW t \in Txs, LedgerCommit(t) \/ LedgerRollback(t) PROVE RunTypes'
  BY <1>4 DEF LedgerCommit, LedgerRollback, Resolve
<1>5. ASSUME NEW p \in Procs, Start(p) PROVE RunTypes'
  BY <1>5 DEF Start, Active, Idle, Result
<1>6. ASSUME NEW p \in Procs, Step(p) PROVE RunTypes'
  <2>1. run[p] \in Active /\ run[p].pc = "step"
    BY <1>6 DEF Step, Idle, Active
  <2>3. ASSUME NEW results \in Result, NEW end \in BOOLEAN
        PROVE  After(run[p], results, 1, end) \in Active
    <3>1. tree \in Nat
      BY DEF WorldTypes
    <3>. QED
      BY <2>1, <3>1, AfterActive
  <2>2. /\ After(run[p], {"ok"}, 1, FALSE) \in Active /\ After(run[p], {"bad"}, 1, FALSE) \in Active
        /\ After(run[p], {"bad"}, 1, TRUE) \in Active
    BY <2>3 DEF Result
  <2>. QED
    BY <1>6, <2>2 DEF Step, TimedOut
<1>7. ASSUME NEW p \in Procs, WriteLatest(p) PROVE RunTypes'
  <2>1. run[p] \in Active
    BY <1>7 DEF WriteLatest, Idle
  <2>2. [run[p] EXCEPT !.pc = "history"] \in Active
    BY <2>1, MovedRun
  <2>. QED
    BY <1>7, <2>2 DEF WriteLatest, Update
<1>8. ASSUME NEW p \in Procs, ReadHistory(p) PROVE RunTypes'
  <2>1. run[p] \in Active
    BY <1>8 DEF ReadHistory, Idle
  <2>2. CASE history = Torn
    <3>1. [run[p] EXCEPT !.pc = "rows"] \in Active
      BY <2>1, MovedRun
    <3>. QED
      BY <1>8, <2>2, <3>1 DEF ReadHistory, Update
  <2>3. CASE history # Torn
    <3>1. Capped(history, Record(run[p])) \in Seq(Kept)
      BY <2>1, <2>3, RecordRun, CappedRange DEF StoreTypes
    <3>2. Filed(run[p], Capped(history, Record(run[p]))) \in Active
      BY <2>1, <3>1, FiledRun
    <3>. QED
      BY <1>8, <2>3, <3>2 DEF ReadHistory, Update, Filed
  <2>. QED
    BY <2>2, <2>3
<1>9. ASSUME NEW p \in Procs, TruncateHistory(p) PROVE RunTypes'
  <2>1. run[p] \in Active
    BY <1>9 DEF TruncateHistory, Idle
  <2>2. [run[p] EXCEPT !.pc = "write"] \in Active
    BY <2>1, MovedRun
  <2>. QED
    BY <1>9, <2>2 DEF TruncateHistory, Update
<1>10. ASSUME NEW p \in Procs, WriteHistory(p) PROVE RunTypes'
  <2>1. run[p] \in Active
    BY <1>10 DEF WriteHistory, Idle
  <2>2. [run[p] EXCEPT !.pc = "rows"] \in Active
    BY <2>1, MovedRun
  <2>. QED
    BY <1>10, <2>2 DEF WriteHistory, Update
<1>11. ASSUME NEW p \in Procs, SaveRows(p) PROVE RunTypes'
  BY <1>11 DEF SaveRows, Update, Active, Idle, Result
<1>12. ASSUME NEW p \in Procs, Abort(p) PROVE RunTypes'
  BY <1>12 DEF Abort, Update, Active, Idle, Result
<1>13. CASE UNCHANGED vars
  BY <1>13 DEF vars
<1>. QED
  BY <1>1, <1>2, <1>3, <1>4, <1>5, <1>6, <1>7, <1>8, <1>9, <1>10, <1>11, <1>12,
     <1>13 DEF Next

\* Types of the stores.
LEMMA StoreStep == Types /\ [Next]_vars => StoreTypes'
<1> SUFFICES ASSUME Types, [Next]_vars
             PROVE  StoreTypes'
  OBVIOUS
<1> USE VerifyAssumption DEF Types, RunTypes, StoreTypes, stores
<1>1. CASE Edit
  BY <1>1 DEF Edit
<1>2. CASE GoBack
  BY <1>2 DEF GoBack
<1>3. CASE GitCommit
  BY <1>3 DEF GitCommit
<1>4. ASSUME NEW t \in Txs, LedgerCommit(t) \/ LedgerRollback(t) PROVE StoreTypes'
  BY <1>4 DEF LedgerCommit, LedgerRollback, Resolve
<1>5. ASSUME NEW p \in Procs, Start(p) PROVE StoreTypes'
  BY <1>5 DEF Start
<1>6. ASSUME NEW p \in Procs, Step(p) PROVE StoreTypes'
  BY <1>6 DEF Step
<1>7. ASSUME NEW p \in Procs, WriteLatest(p) PROVE StoreTypes'
  <2>1. Report(run[p]) \in Ended
    BY <1>7, ReportRun DEF WriteLatest, Idle
  <2>. QED
    BY <1>7, <2>1 DEF WriteLatest
<1>8. ASSUME NEW p \in Procs, ReadHistory(p) PROVE StoreTypes'
  BY <1>8 DEF ReadHistory
<1>9. ASSUME NEW p \in Procs, TruncateHistory(p) PROVE StoreTypes'
  BY <1>9 DEF TruncateHistory
<1>10. ASSUME NEW p \in Procs, WriteHistory(p) PROVE StoreTypes'
  <2>1. run[p].file \in Seq(Kept)
    BY <1>10 DEF WriteHistory, Idle, Active
  <2>. QED
    BY <1>10, <2>1 DEF WriteHistory
<1>11. ASSUME NEW p \in Procs, SaveRows(p) PROVE StoreTypes'
  <2>1. Report(run[p]) \in Ended
    BY <1>11, ReportRun DEF SaveRows, Idle
  <2>2. Append(rows, Report(run[p])) \in Seq(Ended)
    BY <2>1, RangeAppend
  <2>. QED
    BY <1>11, <2>1, <2>2 DEF SaveRows
<1>12. ASSUME NEW p \in Procs, Abort(p) PROVE StoreTypes'
  BY <1>12 DEF Abort
<1>13. CASE UNCHANGED vars
  BY <1>13 DEF vars
<1>. QED
  BY <1>1, <1>2, <1>3, <1>4, <1>5, <1>6, <1>7, <1>8, <1>9, <1>10, <1>11, <1>12,
     <1>13 DEF Next

\* Results are as the steps that ran say.
LEMMA SoundStep == Types /\ RunsSound /\ [Next]_vars => RunsSound'
<1> SUFFICES ASSUME Types /\ RunsSound, [Next]_vars
             PROVE  RunsSound'
  OBVIOUS
<1> USE VerifyAssumption DEF Types, RunTypes, RunsSound, Idle
<1>1. CASE Edit
  BY <1>1 DEF Edit, Disturbed, Sound, Whole, Active
<1>2. CASE GoBack
  BY <1>2 DEF GoBack, Disturbed, Sound, Whole, Active
<1>3. CASE GitCommit
  BY <1>3 DEF GitCommit, Disturbed, Sound, Whole, Active
<1>4. ASSUME NEW t \in Txs, LedgerCommit(t) \/ LedgerRollback(t) PROVE RunsSound'
  BY <1>4 DEF LedgerCommit, LedgerRollback, Resolve
<1>5. ASSUME NEW p \in Procs, Start(p) PROVE RunsSound'
  BY <1>5 DEF Start, Sound, Whole, Active
<1>6. ASSUME NEW p \in Procs, Step(p) PROVE RunsSound'
  <2>1. run[p] \in Active /\ run[p].pc = "step" /\ tree \in Nat
    BY <1>6 DEF Step, Idle, WorldTypes
  <2>2. Sound(run[p])
    BY <2>1 DEF Active
  <2>3. ASSUME NEW results \in {{"ok"}, {"bad"}}, NEW end \in BOOLEAN,
               end => results = {"bad"}
        PROVE  Sound(After(run[p], results, 1, end))
    <3> DEFINE a == After(run[p], results, 1, end)
    <3>1. results \in Result /\ 1 \in Nat /\ a = After(run[p], results, 1, end)
      BY DEF Result
    <3> HIDE DEF a
    <3>3. /\ a.results = run[p].results \cup results /\ a.steps = run[p].steps + 1
          /\ a.pc = IF end \/ run[p].steps + 1 = Planned THEN "report" ELSE "step"
      BY <2>1, <3>1, AfterRun
    <3>2. Sound(a)
      BY <2>1, <2>2, <2>3, <3>3 DEF Sound, Whole, Active, Result
    <3>. QED
      BY <3>1, <3>2
  <2>4. /\ Sound(After(run[p], {"ok"}, 1, FALSE)) /\ Sound(After(run[p], {"bad"}, 1, FALSE))
        /\ Sound(After(run[p], {"bad"}, 1, TRUE))
    BY <2>3
  <2>. QED
    BY <1>6, <2>4 DEF Step, TimedOut
<1>7. ASSUME NEW p \in Procs, WriteLatest(p) PROVE RunsSound'
  BY <1>7 DEF WriteLatest, Update, Sound, Whole, Active
<1>8. ASSUME NEW p \in Procs, ReadHistory(p) PROVE RunsSound'
  <2>1. run[p] \in Active
    BY <1>8 DEF ReadHistory
  <2>2. CASE history = Torn
    BY <1>8, <2>1, <2>2 DEF ReadHistory, Update, Sound, Whole, Active
  <2>3. CASE history # Torn
    <3> DEFINE a == Filed(run[p], Capped(history, Record(run[p])))
    <3>1. Capped(history, Record(run[p])) \in Seq(Kept)
      BY <2>1, <2>3, RecordRun, CappedRange DEF StoreTypes
    <3>3. run' = [run EXCEPT ![p] = a]
      BY <1>8, <2>3 DEF ReadHistory, Update, Filed
    <3>2. a.pc = "truncate" /\ a.results = run[p].results /\ a.steps = run[p].steps
      BY <2>1, <3>1, FiledRun
    <3> HIDE DEF a
    <3>. QED
      BY <1>8, <2>1, <3>2, <3>3 DEF ReadHistory, Sound, Whole
  <2>. QED
    BY <2>2, <2>3
<1>9. ASSUME NEW p \in Procs, TruncateHistory(p) PROVE RunsSound'
  BY <1>9 DEF TruncateHistory, Update, Sound, Whole, Active
<1>10. ASSUME NEW p \in Procs, WriteHistory(p) PROVE RunsSound'
  BY <1>10 DEF WriteHistory, Update, Sound, Whole, Active
<1>11. ASSUME NEW p \in Procs, SaveRows(p) PROVE RunsSound'
  BY <1>11 DEF SaveRows, Update, Sound, Whole, Active
<1>12. ASSUME NEW p \in Procs, Abort(p) PROVE RunsSound'
  BY <1>12 DEF Abort, Update, Sound, Whole, Active
<1>13. CASE UNCHANGED vars
  BY <1>13 DEF vars
<1>. QED
  BY <1>1, <1>2, <1>3, <1>4, <1>5, <1>6, <1>7, <1>8, <1>9, <1>10, <1>11, <1>12,
     <1>13 DEF Next

-----------------------------------------------------------------------------
(* What each kind of step does to the runs.                                *)

\* Edits and git commits.
LEMMA DisturbFacts ==
    ASSUME Types, run' = Disturbed, NEW q \in Procs
    PROVE  IF run[q] = Idle THEN run'[q] = Idle
           ELSE /\ run[q] \in Active /\ run'[q] \in Active /\ run'[q] # Idle /\ ~run'[q].calm
                /\ run'[q].pc = run[q].pc /\ run'[q].file = run[q].file
                /\ run'[q].num = run[q].num /\ Report(run'[q]) = Report(run[q])
BY DisturbedRun DEF Types, RunTypes

\* A step of the plan.
LEMMA StepFacts ==
    ASSUME Types, NEW p \in Procs, Step(p)
    PROVE  /\ run[p] \in Active /\ run[p] # Idle /\ run[p].pc = "step"
           /\ run'[p] \in Active /\ run'[p] # Idle /\ run'[p].pc \in {"step", "report"}
           /\ run'[p].num = run[p].num /\ run'[p].calm = run[p].calm
           /\ run'[p].seen = run[p].seen \cup {tree}
           /\ \A q \in Procs \ {p} : run'[q] = run[q]
<1> USE DEF Types, RunTypes, WorldTypes
<1>1. run[p] \in Active /\ run[p] # Idle /\ run[p].pc = "step"
  BY DEF Step, Idle
<1>2. PICK results \in Result, end \in BOOLEAN :
         run' = [run EXCEPT ![p] = After(run[p], results, 1, end)]
  <2>1. {"ok"} \in Result /\ {"bad"} \in Result
    BY DEF Result
  <2>. QED
    BY <2>1 DEF Step, TimedOut
<1> DEFINE a == After(run[p], results, 1, end)
<1>3. a = After(run[p], results, 1, end) /\ run' = [run EXCEPT ![p] = a]
  BY <1>2
<1> HIDE DEF a
<1>4. /\ a \in Active /\ a # Idle /\ a.pc \in {"step", "report"}
      /\ a.num = run[p].num /\ a.calm = run[p].calm /\ a.seen = run[p].seen \cup {tree}
  BY <1>1, <1>3, AfterRun
<1>. QED
  BY <1>1, <1>3, <1>4

\* A report, or the history, is written or read.
LEMMA MoveFacts ==
    ASSUME Types, NEW p \in Procs,
           WriteLatest(p) \/ ReadHistory(p) \/ TruncateHistory(p) \/ WriteHistory(p)
    PROVE  /\ run[p] \in Active /\ run[p] # Idle
           /\ run'[p] \in Active /\ run'[p] # Idle /\ Reported(run'[p])
           /\ run'[p].num = run[p].num /\ run'[p].calm = run[p].calm
           /\ run'[p].seen = run[p].seen /\ Report(run'[p]) = Report(run[p])
           /\ IF ReadHistory(p) /\ history # Torn
              THEN run'[p].file = Capped(history, Record(run[p]))
              ELSE run'[p].file = run[p].file
           /\ \A q \in Procs \ {p} : run'[q] = run[q]
<1> USE DEF Types, RunTypes
<1>1. run[p] \in Active /\ run[p] # Idle
  BY DEF WriteLatest, ReadHistory, TruncateHistory, WriteHistory, Idle
<1>2. CASE ReadHistory(p) /\ history # Torn
  <2> DEFINE f == Capped(history, Record(run[p]))
             a == Filed(run[p], f)
  <2>1. run' = [run EXCEPT ![p] = a]
    BY <1>2 DEF ReadHistory, Update, Filed
  <2>2. f \in Seq(Kept)
    BY <1>1, <1>2, RecordRun, CappedRange DEF StoreTypes
  <2> HIDE DEF f
  <2>3. /\ a \in Active /\ a # Idle /\ a.pc = "truncate" /\ a.file = f
        /\ a.num = run[p].num /\ a.calm = run[p].calm /\ a.seen = run[p].seen
        /\ Report(a) = Report(run[p])
    BY <1>1, <2>2, FiledRun
  <2> HIDE DEF a
  <2>4. run'[p] = a /\ \A q \in Procs \ {p} : run'[q] = run[q]
    BY <2>1
  <2>. QED
    BY <1>1, <1>2, <2>3, <2>4 DEF f, Reported
<1>3. CASE ~(ReadHistory(p) /\ history # Torn)
  <2>1. PICK x \in {"history", "truncate", "write", "rows"} :
           run' = [run EXCEPT ![p] = [run[p] EXCEPT !.pc = x]]
    BY <1>3 DEF WriteLatest, ReadHistory, TruncateHistory, WriteHistory, Update
  <2> DEFINE a == [run[p] EXCEPT !.pc = x]
  <2>2. a = [run[p] EXCEPT !.pc = x] /\ run'[p] = a /\ \A q \in Procs \ {p} : run'[q] = run[q]
    BY <2>1
  <2> HIDE DEF a
  <2>3. /\ a \in Active /\ a # Idle /\ a.pc = x /\ a.file = run[p].file
        /\ a.num = run[p].num /\ a.calm = run[p].calm /\ a.seen = run[p].seen
        /\ Report(a) = Report(run[p])
    BY <1>1, <2>2, MovedRun
  <2>. QED
    BY <1>1, <1>3, <2>2, <2>3 DEF Reported
<1>. QED
  BY <1>2, <1>3

\* pc, for each of them.
LEMMA MovePc ==
    ASSUME Types, NEW p \in Procs
    PROVE  /\ WriteLatest(p) => run[p].pc = "report" /\ run'[p].pc = "history"
           /\ ReadHistory(p) => run[p].pc = "history" /\ run'[p].pc \in {"truncate", "rows"}
                                /\ (history = Torn => run'[p].pc = "rows")
           /\ TruncateHistory(p) => run[p].pc = "truncate" /\ run'[p].pc = "write"
           /\ WriteHistory(p) => run[p].pc = "write" /\ run'[p].pc = "rows"
<1> USE DEF Types, RunTypes, Active, Idle, Update
<1>1. WriteLatest(p) => run[p].pc = "report" /\ run'[p].pc = "history"
  BY DEF WriteLatest
<1>2. ReadHistory(p) => run[p].pc = "history" /\ run'[p].pc \in {"truncate", "rows"}
                        /\ (history = Torn => run'[p].pc = "rows")
  <2> SUFFICES ASSUME ReadHistory(p)
               PROVE  run[p].pc = "history" /\ run'[p].pc \in {"truncate", "rows"}
                      /\ (history = Torn => run'[p].pc = "rows")
    OBVIOUS
  <2>1. run[p].pc = "history" /\ run[p] \in Active
    BY DEF ReadHistory
  <2>2. CASE history = Torn
    BY <2>1, <2>2 DEF ReadHistory
  <2>3. CASE history # Torn
    BY <2>1, <2>3 DEF ReadHistory
  <2>. QED
    BY <2>1, <2>2, <2>3
<1>3. TruncateHistory(p) => run[p].pc = "truncate" /\ run'[p].pc = "write"
  BY DEF TruncateHistory
<1>4. WriteHistory(p) => run[p].pc = "write" /\ run'[p].pc = "rows"
  BY DEF WriteHistory
<1>. QED
  BY <1>1, <1>2, <1>3, <1>4

\* The run ends.
LEMMA EndFacts ==
    ASSUME Types, NEW p \in Procs, SaveRows(p) \/ Abort(p)
    PROVE  run[p] \in Active /\ run'[p] = Idle /\ \A q \in Procs \ {p} : run'[q] = run[q]
BY DEF Types, RunTypes, SaveRows, Abort, Update, Idle

\* A run begins.
LEMMA StartFacts ==
    ASSUME Types, NEW p \in Procs, Start(p)
    PROVE  /\ run[p] = Idle /\ runs' = runs + 1
           /\ run'[p] # Idle /\ run'[p].pc = "step" /\ run'[p].num = runs + 1 /\ run'[p].seen = {}
           /\ \A q \in Procs \ {p} : run'[q] = run[q]
BY DEF Types, RunTypes, Start, Idle

-----------------------------------------------------------------------------
(* The rest of the invariant.                                              *)

\* Reports that say pass are about whole runs, and only reports are stored.
LEMMA ReportStep ==
    Types /\ RunsSound /\ ReportsSound /\ Stored /\ [Next]_vars => (ReportsSound /\ Stored)'
<1> SUFFICES ASSUME Types /\ RunsSound /\ ReportsSound /\ Stored, [Next]_vars
             PROVE  (ReportsSound /\ Stored)'
  OBVIOUS
<1> USE VerifyAssumption DEF Reported, Idle, stores
<1>1. CASE Edit
  BY <1>1, DisturbFacts DEF ReportsSound, Stored, Edit
<1>2. CASE GoBack
  BY <1>2, DisturbFacts DEF ReportsSound, Stored, GoBack
<1>3. CASE GitCommit
  BY <1>3, DisturbFacts DEF ReportsSound, Stored, GitCommit
<1>4. ASSUME NEW t \in Txs, LedgerCommit(t) \/ LedgerRollback(t) PROVE (ReportsSound /\ Stored)'
  BY <1>4 DEF ReportsSound, Stored, LedgerCommit, LedgerRollback, Resolve
<1>5. ASSUME NEW p \in Procs, Start(p) PROVE (ReportsSound /\ Stored)'
  BY <1>5, StartFacts DEF ReportsSound, Stored, Start
<1>6. ASSUME NEW p \in Procs, Step(p) PROVE (ReportsSound /\ Stored)'
  BY <1>6, StepFacts DEF ReportsSound, Stored, Step
<1>7. ASSUME NEW p \in Procs, WriteLatest(p) PROVE (ReportsSound /\ Stored)'
  <2>1. /\ run[p] \in Active /\ run[p].pc = "report" /\ run[p] # Idle
        /\ Report(run'[p]) = Report(run[p]) /\ \A q \in Procs \ {p} : run'[q] = run[q]
    BY <1>7, MoveFacts, MovePc
  <2>2. latest' = <<Report(run[p])>> /\ ended' = ended \cup {Report(run[p])} /\ rows' = rows
    BY <1>7 DEF ReportsSound, Stored, WriteLatest
  <2>3. Report(run[p]).pass => Whole(Report(run[p]))
    BY <2>1, ReportRun DEF RunsSound, Sound, Whole
  <2>4. ReportsSound'
    BY <2>2, <2>3 DEF ReportsSound
  <2>5. Range(latest') \subseteq ended' /\ Range(rows') \subseteq ended'
    BY <2>2 DEF Stored, Range
  <2>6. \A q \in Procs : Reported(run'[q]) => Report(run'[q]) \in ended'
    BY <2>1, <2>2 DEF Stored
  <2>. QED
    BY <2>4, <2>5, <2>6 DEF Stored
<1>8. ASSUME NEW p \in Procs, ReadHistory(p) PROVE (ReportsSound /\ Stored)'
  BY <1>8, MoveFacts, MovePc DEF ReportsSound, Stored, ReadHistory
<1>9. ASSUME NEW p \in Procs, TruncateHistory(p) PROVE (ReportsSound /\ Stored)'
  BY <1>9, MoveFacts, MovePc DEF ReportsSound, Stored, TruncateHistory
<1>10. ASSUME NEW p \in Procs, WriteHistory(p) PROVE (ReportsSound /\ Stored)'
  BY <1>10, MoveFacts, MovePc DEF ReportsSound, Stored, WriteHistory
<1>11. ASSUME NEW p \in Procs, SaveRows(p) PROVE (ReportsSound /\ Stored)'
  <2>1. run[p] \in Active /\ run[p].pc = "rows"
    BY <1>11 DEF ReportsSound, Stored, SaveRows, Types, RunTypes, Idle
  <2>2. Report(run[p]) \in ended
    BY <2>1 DEF Stored, Reported
  <2>3. Range(Append(rows, Report(run[p]))) \subseteq ended
    BY <2>1, <2>2, ReportRun, RangeAppend DEF Types, StoreTypes, Stored
  <2>4. Range(rows') \subseteq ended /\ ended' = ended /\ latest' = latest
    BY <1>11, <2>3 DEF SaveRows, Stored
  <2>. QED
    BY <1>11, <2>4, EndFacts DEF ReportsSound, Stored, Reported, Idle
<1>12. ASSUME NEW p \in Procs, Abort(p) PROVE (ReportsSound /\ Stored)'
  BY <1>12, EndFacts DEF ReportsSound, Stored, Abort
<1>13. CASE UNCHANGED vars
  BY <1>13 DEF ReportsSound, Stored, vars
<1>. QED
  BY <1>1, <1>2, <1>3, <1>4, <1>5, <1>6, <1>7, <1>8, <1>9, <1>10, <1>11, <1>12,
     <1>13 DEF Next

\* Records of the history are about reports.
LEMMA HistoryStep ==
    Types /\ ReportsSound /\ Stored /\ HistorySound /\ [Next]_vars => HistorySound'
<1> SUFFICES ASSUME Types /\ ReportsSound /\ Stored /\ HistorySound, [Next]_vars
             PROVE  HistorySound'
  OBVIOUS
<1> USE VerifyAssumption DEF Idle, stores
<1>1. CASE Edit
  BY <1>1, DisturbFacts DEF HistorySound, About, Edit
<1>2. CASE GoBack
  BY <1>2, DisturbFacts DEF HistorySound, About, GoBack
<1>3. CASE GitCommit
  BY <1>3, DisturbFacts DEF HistorySound, About, GitCommit
<1>4. ASSUME NEW t \in Txs, LedgerCommit(t) \/ LedgerRollback(t) PROVE HistorySound'
  BY <1>4 DEF HistorySound, About, LedgerCommit, LedgerRollback, Resolve
<1>5. ASSUME NEW p \in Procs, Start(p) PROVE HistorySound'
  <2>1. /\ run'[p].pc \notin {"truncate", "write"} /\ history' = history /\ ended' = ended
        /\ \A q \in Procs \ {p} : run'[q] = run[q]
    BY <1>5, StartFacts DEF HistorySound, About, Start, stores
  <2>. QED
    BY <2>1 DEF HistorySound, About
<1>6. ASSUME NEW p \in Procs, Step(p) PROVE HistorySound'
  <2>1. /\ run'[p].pc \notin {"truncate", "write"} /\ history' = history /\ ended' = ended
        /\ \A q \in Procs \ {p} : run'[q] = run[q]
    BY <1>6, StepFacts DEF HistorySound, About, Step, stores
  <2>. QED
    BY <2>1 DEF HistorySound, About
<1>7. ASSUME NEW p \in Procs, WriteLatest(p) PROVE HistorySound'
  <2>1. /\ run'[p].pc = "history" /\ history' = history /\ ended \subseteq ended'
        /\ \A q \in Procs \ {p} : run'[q] = run[q]
    BY <1>7, MoveFacts, MovePc DEF HistorySound, About, WriteLatest
  <2>. QED
    BY <2>1 DEF HistorySound, About
<1>8. ASSUME NEW p \in Procs, ReadHistory(p) PROVE HistorySound'
  <2>1. /\ run[p] \in Active /\ run[p].pc = "history" /\ history' = history /\ ended' = ended
        /\ \A q \in Procs \ {p} : run'[q] = run[q]
    BY <1>8, MoveFacts, MovePc DEF HistorySound, About, ReadHistory, stores
  <2>2. CASE history = Torn
    BY <1>8, <2>1, <2>2, MovePc DEF HistorySound, About
  <2>3. CASE history # Torn
    <3>1. run'[p].file = Capped(history, Record(run[p]))
      BY <1>8, <2>3, MoveFacts
    <3>2. Range(run'[p].file) \subseteq Range(history) \cup {Record(run[p])}
      BY <2>1, <2>3, <3>1, RecordRun, CappedRange DEF Types, StoreTypes
    <3>3. About(Record(run[p]))
      <4>1. Report(run[p]) \in ended
        BY <2>1 DEF Stored, Reported
      <4>. QED
        BY <2>1, <4>1, ReportRun, RecordRun DEF Types, About, ReportsSound
    <3>. QED
      BY <2>1, <2>3, <3>2, <3>3 DEF HistorySound, About
  <2>. QED
    BY <2>2, <2>3
<1>9. ASSUME NEW p \in Procs, TruncateHistory(p) PROVE HistorySound'
  <2>1. /\ run[p].pc = "truncate" /\ run'[p].file = run[p].file /\ history' = Torn /\ ended' = ended
        /\ \A q \in Procs \ {p} : run'[q] = run[q]
    BY <1>9, MoveFacts, MovePc DEF HistorySound, About, TruncateHistory, ReadHistory
  <2>. QED
    BY <2>1 DEF HistorySound, About
<1>10. ASSUME NEW p \in Procs, WriteHistory(p) PROVE HistorySound'
  <2>1. /\ run[p].pc = "write" /\ run'[p].pc = "rows" /\ history' = run[p].file /\ ended' = ended
        /\ \A q \in Procs \ {p} : run'[q] = run[q]
    BY <1>10, MoveFacts, MovePc DEF HistorySound, About, WriteHistory
  <2>. QED
    BY <2>1 DEF HistorySound, About
<1>11. ASSUME NEW p \in Procs, SaveRows(p) PROVE HistorySound'
  BY <1>11, EndFacts DEF HistorySound, About, SaveRows
<1>12. ASSUME NEW p \in Procs, Abort(p) PROVE HistorySound'
  BY <1>12, EndFacts DEF HistorySound, About, Abort
<1>13. CASE UNCHANGED vars
  BY <1>13 DEF HistorySound, About, vars
<1>. QED
  BY <1>1, <1>2, <1>3, <1>4, <1>5, <1>6, <1>7, <1>8, <1>9, <1>10, <1>11, <1>12,
     <1>13 DEF Next

\* Numbers tell runs apart.
LEMMA NumberStep == Types /\ Numbered /\ [Next]_vars => Numbered'
<1> SUFFICES ASSUME Types /\ Numbered, [Next]_vars
             PROVE  Numbered'
  OBVIOUS
<1> USE VerifyAssumption DEF Begun, Reported, stores
<1>1. CASE Edit
  BY <1>1, DisturbFacts DEF Numbered, Idle, Edit
<1>2. CASE GoBack
  BY <1>2, DisturbFacts DEF Numbered, Idle, GoBack
<1>3. CASE GitCommit
  BY <1>3, DisturbFacts DEF Numbered, Idle, GitCommit
<1>4. ASSUME NEW t \in Txs, LedgerCommit(t) \/ LedgerRollback(t) PROVE Numbered'
  BY <1>4 DEF Numbered, Idle, LedgerCommit, LedgerRollback, Resolve
<1>5. ASSUME NEW p \in Procs, Start(p) PROVE Numbered'
  <2>1. /\ run[p] = Idle /\ runs' = runs + 1 /\ ended' = ended
        /\ run'[p] # Idle /\ run'[p].pc = "step" /\ run'[p].num = runs + 1
        /\ \A q \in Procs \ {p} : run'[q] = run[q]
    BY <1>5, StartFacts DEF Numbered, Idle, Start
  <2>2. \A q \in Procs : run[q] # Idle => run[q].num \in Nat
    BY DEF Types, RunTypes, Active
  <2>3. \A e \in ended : e.num \in Nat
    BY DEF Types, StoreTypes, Ended
  <2>4. runs \in Nat
    BY DEF Types, RunTypes
  <2>. QED
    BY <2>1, <2>2, <2>3, <2>4 DEF Numbered, Begun, Reported
<1>6. ASSUME NEW p \in Procs, Step(p) PROVE Numbered'
  <2>1. /\ run[p] # Idle /\ Begun(run[p]) /\ run'[p] # Idle /\ Begun(run'[p]) /\ ~Reported(run'[p])
        /\ run'[p].num = run[p].num /\ runs' = runs /\ ended' = ended
        /\ \A q \in Procs \ {p} : run'[q] = run[q]
    BY <1>6, StepFacts DEF Numbered, Idle, Step
  <2>. QED
    BY <2>1 DEF Numbered
<1>7. ASSUME NEW p \in Procs, WriteLatest(p) PROVE Numbered'
  <2>1. /\ run[p] \in Active /\ run[p] # Idle /\ Begun(run[p]) /\ run'[p] # Idle
        /\ ~Begun(run'[p]) /\ run'[p].num = run[p].num /\ Report(run'[p]) = Report(run[p])
        /\ \A q \in Procs \ {p} : run'[q] = run[q]
    BY <1>7, MoveFacts, MovePc DEF Begun
  <2>2. ended' = ended \cup {Report(run[p])} /\ runs' = runs
    BY <1>7 DEF Numbered, Idle, WriteLatest
  <2>3. Report(run[p]).num = run[p].num
    BY <2>1, ReportRun
  <2>4. \A q \in Procs : Begun(run[q]) \/ Reported(run[q]) => run[q] # Idle
    BY DEF Begun, Reported, Idle
  <2>. QED
    BY <2>1, <2>2, <2>3, <2>4 DEF Numbered
<1>8. ASSUME NEW p \in Procs, ReadHistory(p) PROVE Numbered'
  <2>1. /\ run[p] # Idle /\ Reported(run[p]) /\ run'[p] # Idle /\ ~Begun(run'[p])
        /\ run'[p].num = run[p].num /\ runs' = runs /\ ended' = ended
        /\ Report(run'[p]) = Report(run[p]) /\ \A q \in Procs \ {p} : run'[q] = run[q]
    <3>1. run[p].pc = "history" /\ runs' = runs /\ ended' = ended
      BY <1>8, MovePc DEF Numbered, Idle, ReadHistory
    <3>. QED
      BY <1>8, <3>1, MoveFacts
  <2>. QED
    BY <2>1 DEF Numbered
<1>9. ASSUME NEW p \in Procs, TruncateHistory(p) PROVE Numbered'
  BY <1>9, MoveFacts, MovePc DEF Numbered, Idle, TruncateHistory
<1>10. ASSUME NEW p \in Procs, WriteHistory(p) PROVE Numbered'
  BY <1>10, MoveFacts, MovePc DEF Numbered, Idle, WriteHistory
<1>11. ASSUME NEW p \in Procs, SaveRows(p) PROVE Numbered'
  BY <1>11, EndFacts DEF Numbered, Idle, SaveRows
<1>12. ASSUME NEW p \in Procs, Abort(p) PROVE Numbered'
  BY <1>12, EndFacts DEF Numbered, Idle, Abort
<1>13. CASE UNCHANGED vars
  BY <1>13 DEF Numbered, Idle, vars
<1>. QED
  BY <1>1, <1>2, <1>3, <1>4, <1>5, <1>6, <1>7, <1>8, <1>9, <1>10, <1>11, <1>12,
     <1>13 DEF Next

\* Whoever changes the tree disturbs the runs.
LEMMA CalmStep == Types /\ CalmSeen /\ [Next]_vars => CalmSeen'
<1> SUFFICES ASSUME Types /\ CalmSeen, [Next]_vars
             PROVE  CalmSeen'
  OBVIOUS
<1> USE VerifyAssumption DEF CalmSeen, Idle, world
<1>1. CASE Edit
  BY <1>1, DisturbFacts DEF Edit
<1>2. CASE GoBack
  BY <1>2, DisturbFacts DEF GoBack
<1>3. CASE GitCommit
  BY <1>3, DisturbFacts DEF GitCommit
<1>4. ASSUME NEW t \in Txs, LedgerCommit(t) \/ LedgerRollback(t) PROVE CalmSeen'
  BY <1>4 DEF LedgerCommit, LedgerRollback, Resolve
<1>5. ASSUME NEW p \in Procs, Start(p) PROVE CalmSeen'
  BY <1>5, StartFacts DEF Start
<1>6. ASSUME NEW p \in Procs, Step(p) PROVE CalmSeen'
  BY <1>6, StepFacts DEF Step
<1>7. ASSUME NEW p \in Procs, WriteLatest(p) PROVE CalmSeen'
  BY <1>7, MoveFacts, MovePc DEF WriteLatest
<1>8. ASSUME NEW p \in Procs, ReadHistory(p) PROVE CalmSeen'
  <2>1. /\ run[p] # Idle /\ run'[p] # Idle /\ run'[p].calm = run[p].calm /\ run'[p].seen = run[p].seen
        /\ \A q \in Procs \ {p} : run'[q] = run[q]
    BY <1>8, MoveFacts
  <2>2. tree' = tree
    BY <1>8 DEF ReadHistory
  <2>. QED
    BY <2>1, <2>2
<1>9. ASSUME NEW p \in Procs, TruncateHistory(p) PROVE CalmSeen'
  BY <1>9, MoveFacts, MovePc DEF TruncateHistory
<1>10. ASSUME NEW p \in Procs, WriteHistory(p) PROVE CalmSeen'
  BY <1>10, MoveFacts, MovePc DEF WriteHistory
<1>11. ASSUME NEW p \in Procs, SaveRows(p) PROVE CalmSeen'
  BY <1>11, EndFacts DEF SaveRows
<1>12. ASSUME NEW p \in Procs, Abort(p) PROVE CalmSeen'
  BY <1>12, EndFacts DEF Abort
<1>13. CASE UNCHANGED vars
  BY <1>13 DEF vars
<1>. QED
  BY <1>1, <1>2, <1>3, <1>4, <1>5, <1>6, <1>7, <1>8, <1>9, <1>10, <1>11, <1>12,
     <1>13 DEF Next

\* Records that bind a commit are about runs over it.
LEMMA HeadStep ==
    Types /\ Stored /\ HistorySound /\ Numbered /\ CalmSeen /\ HeadsSound /\ [Next]_vars => HeadsSound'
<1> SUFFICES ASSUME Types /\ Stored /\ HistorySound /\ Numbered /\ CalmSeen /\ HeadsSound, [Next]_vars
             PROVE  HeadsSound'
  OBVIOUS
<1> USE VerifyAssumption DEF stores, world
<1>1. CASE Edit
  <2>1. commits' = commits /\ ended' = ended /\ history' = history /\ run' = Disturbed
    BY <1>1 DEF HeadsSound, Proves, Idle, Edit, stores
  <2>2. \A k : Proves(k) => Proves(k)'
    BY <2>1 DEF Proves
  <2>3. \A q \in Procs : run'[q].pc = run[q].pc /\ (run[q] # Idle => run'[q].file = run[q].file)
    BY <2>1, DisturbFacts
  <2>. QED
    BY <2>1, <2>2, <2>3 DEF HeadsSound, Idle
<1>2. CASE GoBack
  <2>1. commits' = commits /\ ended' = ended /\ history' = history /\ run' = Disturbed
    BY <1>2 DEF HeadsSound, Proves, Idle, GoBack, stores
  <2>2. \A k : Proves(k) => Proves(k)'
    BY <2>1 DEF Proves
  <2>3. \A q \in Procs : run'[q].pc = run[q].pc /\ (run[q] # Idle => run'[q].file = run[q].file)
    BY <2>1, DisturbFacts
  <2>. QED
    BY <2>1, <2>2, <2>3 DEF HeadsSound, Idle
<1>3. CASE GitCommit
  <2>1. commits' = Append(commits, tree) /\ ended' = ended /\ history' = history /\ run' = Disturbed
    BY <1>3 DEF HeadsSound, Proves, Idle, GitCommit, stores
  <2>2. \A h \in DOMAIN commits : h \in DOMAIN commits' /\ commits'[h] = commits[h]
    BY <2>1 DEF Types, WorldTypes
  <2>3. \A k : Proves(k) => Proves(k)'
    BY <2>1, <2>2 DEF Proves
  <2>4. \A q \in Procs : run'[q].pc = run[q].pc /\ (run[q] # Idle => run'[q].file = run[q].file)
    BY <2>1, DisturbFacts
  <2>. QED
    BY <2>1, <2>3, <2>4 DEF HeadsSound, Idle
<1>4. ASSUME NEW t \in Txs, LedgerCommit(t) \/ LedgerRollback(t) PROVE HeadsSound'
  BY <1>4 DEF HeadsSound, Proves, Idle, LedgerCommit, LedgerRollback, Resolve
<1>5. ASSUME NEW p \in Procs, Start(p) PROVE HeadsSound'
  BY <1>5, StartFacts DEF HeadsSound, Proves, Idle, Start
<1>6. ASSUME NEW p \in Procs, Step(p) PROVE HeadsSound'
  BY <1>6, StepFacts DEF HeadsSound, Proves, Idle, Step
<1>7. ASSUME NEW p \in Procs, WriteLatest(p) PROVE HeadsSound'
  <2>1. /\ run[p] \in Active /\ Begun(run[p]) /\ run'[p].pc = "history"
        /\ history' = history /\ commits' = commits /\ ended' = ended \cup {Report(run[p])}
        /\ \A q \in Procs \ {p} : run'[q] = run[q]
    BY <1>7, MoveFacts, MovePc DEF HeadsSound, Proves, Idle, WriteLatest, world, Begun
  <2>2. \A e \in ended : e.num # run[p].num
    BY <2>1 DEF Numbered
  <2>3. ASSUME NEW k, About(k), Proves(k) PROVE Proves(k)'
    BY <2>1, <2>2, <2>3, ReportRun DEF About, Proves
  <2>4. history # Torn => \A k \in Range(history) : About(k) /\ Proves(k)
    BY DEF HistorySound, HeadsSound
  <2>5. \A q \in Procs : run[q].pc \in {"truncate", "write"} =>
           \A k \in Range(run[q].file) : About(k) /\ Proves(k)
    BY DEF HistorySound, HeadsSound
  <2>. QED
    BY <2>1, <2>3, <2>4, <2>5 DEF HeadsSound
<1>8. ASSUME NEW p \in Procs, ReadHistory(p) PROVE HeadsSound'
  <2>1. /\ run[p] \in Active /\ run[p].pc = "history" /\ history' = history /\ ended' = ended
        /\ commits' = commits /\ run[p] # Idle /\ \A q \in Procs \ {p} : run'[q] = run[q]
    BY <1>8, MoveFacts, MovePc DEF HeadsSound, Proves, Idle, ReadHistory, stores, world
  <2>2. CASE history = Torn
    BY <1>8, <2>1, <2>2, MovePc DEF HeadsSound, Proves
  <2>3. CASE history # Torn
    <3>1. run'[p].file = Capped(history, Record(run[p]))
      BY <1>8, <2>3, MoveFacts
    <3>2. Range(run'[p].file) \subseteq Range(history) \cup {Record(run[p])}
      BY <2>1, <2>3, <3>1, RecordRun, CappedRange DEF Types, StoreTypes
    <3>3. Proves(Record(run[p]))
      <4> SUFFICES ASSUME Record(run[p]).calm, Record(run[p]).head # NoHead,
                          NEW e \in ended, e.num = Record(run[p]).num
                   PROVE  e.seen \subseteq {commits[Tip]}
        BY <2>1, RecordRun, TipIsLast DEF Types, Proves
      <4>1. Record(run[p]).calm = run[p].calm /\ Record(run[p]).num = run[p].num /\ Clean
        BY <2>1, RecordRun DEF Types
      <4>2. e.seen = run[p].seen
        BY <2>1, <4>1, ReportRun DEF Numbered, Reported
      <4>3. run[p].seen \subseteq {tree}
        BY <2>1, <4>1 DEF CalmSeen
      <4>. QED
        BY <4>1, <4>2, <4>3, TipIsLast DEF Clean, Types
    <3>. QED
      BY <2>1, <2>3, <3>2, <3>3 DEF HeadsSound, Proves
  <2>. QED
    BY <2>2, <2>3
<1>9. ASSUME NEW p \in Procs, TruncateHistory(p) PROVE HeadsSound'
  <2>1. /\ run[p].pc = "truncate" /\ run'[p].file = run[p].file /\ history' = Torn
        /\ ended' = ended /\ commits' = commits
        /\ \A q \in Procs \ {p} : run'[q] = run[q]
    BY <1>9, MoveFacts, MovePc DEF HeadsSound, Proves, Idle, TruncateHistory, ReadHistory,
       world
  <2>. QED
    BY <2>1 DEF HeadsSound, Proves, world
<1>10. ASSUME NEW p \in Procs, WriteHistory(p) PROVE HeadsSound'
  <2>1. /\ run[p].pc = "write" /\ run'[p].pc = "rows" /\ history' = run[p].file
        /\ ended' = ended /\ commits' = commits
        /\ \A q \in Procs \ {p} : run'[q] = run[q]
    BY <1>10, MoveFacts, MovePc DEF HeadsSound, Proves, Idle, WriteHistory, world
  <2>. QED
    BY <2>1 DEF HeadsSound, Proves, world
<1>11. ASSUME NEW p \in Procs, SaveRows(p) PROVE HeadsSound'
  BY <1>11, EndFacts DEF HeadsSound, Proves, Idle, SaveRows
<1>12. ASSUME NEW p \in Procs, Abort(p) PROVE HeadsSound'
  BY <1>12, EndFacts DEF HeadsSound, Proves, Idle, Abort
<1>13. CASE UNCHANGED vars
  BY <1>13 DEF HeadsSound, Proves, Idle, vars
<1>. QED
  BY <1>1, <1>2, <1>3, <1>4, <1>5, <1>6, <1>7, <1>8, <1>9, <1>10, <1>11, <1>12,
     <1>13 DEF Next

\* The invariants hold together in every state.
THEOREM VerifyInvariant == Spec => []IInv
<1>1. Init => IInv
  BY InitInv
<1>2. IInv /\ [Next]_vars => IInv'
  BY WorldStep, RunStep, StoreStep, SoundStep, ReportStep, HistoryStep, NumberStep,
     CalmStep, HeadStep
     DEF IInv, Types
<1>. QED
  BY <1>1, <1>2, PTL DEF Spec

-----------------------------------------------------------------------------
(* The properties.                                                         *)

\* Whatever runs overlap, time out or are killed: evidence that says pass is
\* about a run of the whole plan (VerifyEngine::execute_with_scope).
THEOREM WholePass == Spec => []PassIsWhole
<1>1. IInv => PassIsWhole
  <2> SUFFICES ASSUME IInv PROVE PassIsWhole
    OBVIOUS
  <2>1. \A r \in Range(latest) \cup Range(rows) : r.pass => Whole(r)
    BY DEF IInv, Stored, ReportsSound
  <2>2. history # Torn =>
           \A r \in Range(history) : r.pass => \E e \in ended : e.num = r.num /\ Whole(e)
    BY DEF IInv, HistorySound, About
  <2>. QED
    BY <2>1, <2>2 DEF PassIsWhole, Whole
<1>. QED
  BY <1>1, VerifyInvariant, PTL

\* A record of a run that was left alone binds a commit only if the run saw
\* its content and nothing else (resolve_verify_history_head).
THEOREM DirtyIsNot == Spec => []DirtyIsNoProof
<1>1. IInv => DirtyIsNoProof
  <2> SUFFICES ASSUME IInv, NEW h \in DOMAIN commits, NEW r \in Evidence(h), r.calm,
                      NEW e \in ended, e.num = r.num
               PROVE  e.seen \subseteq {commits[h]}
    BY DEF DirtyIsNoProof
  <2>1. history # Torn /\ r \in Range(history) /\ r.head = h
    BY DEF Evidence
  <2>2. h # NoHead
    BY VerifyAssumption DEF IInv, Types, WorldTypes
  <2>. QED
    BY <2>1, <2>2 DEF IInv, HeadsSound, Proves
<1>. QED
  BY <1>1, VerifyInvariant, PTL

-----------------------------------------------------------------------------
(* Bounds, and that a run is recorded once.                                *)

\* Every commit is of a content that is newer than that of the one before.
WorldBounds ==
    /\ edits <= MaxEdits /\ tree <= edits
    /\ Last(commits) <= tree /\ Tip <= Last(commits) + 1
    /\ \A i \in DOMAIN commits : commits[i] <= edits

TxTypes == txs \in [Txs -> {"PENDING", "COMMITTED", "ROLLED_BACK"}]

\* What a run has counted so far.
Counted(r) == r.num >= 1 /\ r.steps <= Planned /\ r.seen \subseteq 0..MaxEdits
RunBounds == runs <= MaxRuns /\ \A p \in Procs : run[p] # Idle => Counted(run[p])

ReportBounds == ended \subseteq Reports

InFile(p) == run[p].pc \in {"truncate", "write"}
RecordBounds ==
    /\ history # Torn => Range(history) \subseteq Records
    /\ \A p \in Procs : InFile(p) => Range(run[p].file) \subseteq Records

\* A run has one report.
Single == \A d, e \in ended : d.num = e.num => d = e

\* A run has rows only when it is over.
RowsOnce ==
    /\ Once(rows)
    /\ \A p \in Procs : run[p] # Idle => \A r \in Range(rows) : r.num # run[p].num

Fits(h) == Len(h) <= HistoryCap /\ Once(h)
Waiting(p) == run[p].pc \in {"step", "report", "history"}
Absent(n, h) == \A k \in Range(h) : k.num # n

\* A run that has not read the history yet is in none of its versions.
HistoryOnce ==
    /\ history # Torn => Fits(history)
    /\ \A p \in Procs : InFile(p) => Fits(run[p].file)
    /\ \A p \in Procs : Waiting(p) =>
          /\ history # Torn => Absent(run[p].num, history)
          /\ \A q \in Procs : InFile(q) => Absent(run[p].num, run[q].file)

BInv ==
    /\ IInv /\ WorldBounds /\ TxTypes /\ RunBounds /\ ReportBounds /\ RecordBounds
    /\ Single /\ RowsOnce /\ HistoryOnce
-----------------------------------------------------------------------------
(* Each of them is kept.                                                   *)

\* The new element of an Append is its last.
LEMMA AppendLast ==
    ASSUME NEW S, NEW s \in Seq(S), NEW x \in S
    PROVE  /\ Last(Append(s, x)) = x /\ Len(Append(s, x)) = Len(s) + 1
           /\ DOMAIN Append(s, x) = 1..(Len(s) + 1)
           /\ \A i \in DOMAIN s : Append(s, x)[i] = s[i]
           /\ Append(s, x)[Len(s) + 1] = x
BY DEF Last

\* A sequence that tells numbers apart goes on to do so with a new one.
LEMMA AppendOnce ==
    ASSUME NEW S, NEW s \in Seq(S), NEW x \in S, Once(s), Absent(x.num, s)
    PROVE  Once(Append(s, x))
<1>1. \A i \in DOMAIN s : s[i].num # x.num
  BY DEF Absent, Range
<1>. QED
  BY <1>1, AppendLast DEF Once

\* The history stays within its cap, and has the run once.
LEMMA CappedFits ==
    ASSUME NEW h \in Seq(Kept), NEW k \in Kept, Fits(h), Absent(k.num, h)
    PROVE  Fits(Capped(h, k))
<1>1. CASE Len(h) < HistoryCap
  BY <1>1, AppendOnce, AppendLast, VerifyAssumption DEF Capped, Fits
<1>2. CASE ~(Len(h) < HistoryCap)
  <2> DEFINE t == Tail(h)
  <2>1. h # <<>> /\ Capped(h, k) = Append(t, k)
    BY <1>2, VerifyAssumption DEF Capped
  <2>2. /\ t \in Seq(Kept) /\ Len(t) = Len(h) - 1
        /\ \A i \in DOMAIN t : i + 1 \in DOMAIN h /\ t[i] = h[i + 1]
    BY <2>1
  <2> HIDE DEF t
  <2>3. Once(t)
    <3> SUFFICES ASSUME NEW i \in DOMAIN t, NEW j \in DOMAIN t, t[i].num = t[j].num
                 PROVE  i = j
      BY DEF Once
    <3>1. i + 1 = j + 1
      BY <2>2 DEF Fits, Once
    <3>. QED
      BY <2>2, <3>1
  <2>4. Absent(k.num, t)
    BY <2>2 DEF Absent, Range
  <2>5. Len(Append(t, k)) <= HistoryCap
    BY <1>2, <2>2, AppendLast, VerifyAssumption DEF Fits
  <2>. QED
    BY <2>1, <2>2, <2>3, <2>4, <2>5, AppendOnce DEF Fits
<1>. QED
  BY <1>1, <1>2

\* Every commit is of a newer content.
LEMMA WorldBoundStep == WorldTypes /\ WorldBounds /\ [Next]_vars => WorldBounds'
<1> SUFFICES ASSUME WorldTypes /\ WorldBounds, [Next]_vars PROVE WorldBounds'
  OBVIOUS
<1> USE VerifyAssumption DEF WorldTypes, WorldBounds, Tip, Clean
<1>1. CASE Edit
  <2>1. commits' = commits /\ edits' = edits + 1 /\ tree' = edits + 1 /\ edits < MaxEdits
    BY <1>1 DEF Edit
  <2>. QED
    BY <2>1, TipIsLast
<1>2. CASE GoBack
  <2>1. commits' = commits /\ edits' = edits /\ tree' = Last(commits)
    BY <1>2 DEF GoBack
  <2>. QED
    BY <2>1, TipIsLast
<1>3. CASE GitCommit
  <2>1. commits' = Append(commits, tree) /\ tree' = tree /\ edits' = edits
    BY <1>3 DEF GitCommit
  <2>2. /\ Last(commits') = tree /\ Len(commits') = Len(commits) + 1
        /\ DOMAIN commits' = 1..(Len(commits) + 1)
        /\ \A i \in DOMAIN commits : commits'[i] = commits[i]
        /\ commits'[Len(commits) + 1] = tree
    BY <2>1, AppendLast
  <2>3. Last(commits) < tree
    BY <1>3, TipIsLast DEF GitCommit
  <2>. QED
    BY <2>1, <2>2, <2>3, TipIsLast
<1>4. ASSUME NEW t \in Txs, LedgerCommit(t) \/ LedgerRollback(t) PROVE WorldBounds'
  BY <1>4 DEF world, LedgerCommit, LedgerRollback, Resolve
<1>5. ASSUME NEW p \in Procs, Start(p) PROVE WorldBounds'
  BY <1>5 DEF world, Start
<1>6. ASSUME NEW p \in Procs, Step(p) PROVE WorldBounds'
  BY <1>6 DEF world, Step
<1>7. ASSUME NEW p \in Procs, WriteLatest(p) PROVE WorldBounds'
  BY <1>7 DEF world, WriteLatest
<1>8. ASSUME NEW p \in Procs, ReadHistory(p) PROVE WorldBounds'
  BY <1>8 DEF world, ReadHistory
<1>9. ASSUME NEW p \in Procs, TruncateHistory(p) PROVE WorldBounds'
  BY <1>9 DEF world, TruncateHistory
<1>10. ASSUME NEW p \in Procs, WriteHistory(p) PROVE WorldBounds'
  BY <1>10 DEF world, WriteHistory
<1>11. ASSUME NEW p \in Procs, SaveRows(p) PROVE WorldBounds'
  BY <1>11 DEF world, SaveRows
<1>12. ASSUME NEW p \in Procs, Abort(p) PROVE WorldBounds'
  BY <1>12 DEF world, Abort
<1>13. CASE UNCHANGED vars
  BY <1>13 DEF world, vars
<1>. QED
  BY <1>1, <1>2, <1>3, <1>4, <1>5, <1>6, <1>7, <1>8, <1>9, <1>10, <1>11, <1>12, <1>13
     DEF Next

\* A transaction is PENDING, COMMITTED or ROLLED_BACK.
LEMMA TxStep == TxTypes /\ [Next]_vars => TxTypes'
<1> SUFFICES ASSUME TxTypes, [Next]_vars PROVE TxTypes'
  OBVIOUS
<1> USE VerifyAssumption DEF TxTypes
<1>1. CASE Edit
  BY <1>1 DEF Edit
<1>2. CASE GoBack
  BY <1>2 DEF GoBack
<1>3. CASE GitCommit
  BY <1>3 DEF GitCommit
<1>4. ASSUME NEW t \in Txs, LedgerCommit(t) \/ LedgerRollback(t) PROVE TxTypes'
  BY <1>4 DEF LedgerCommit, LedgerRollback, Resolve
<1>5. ASSUME NEW p \in Procs, Start(p) PROVE TxTypes'
  BY <1>5 DEF Start
<1>6. ASSUME NEW p \in Procs, Step(p) PROVE TxTypes'
  BY <1>6 DEF Step
<1>7. ASSUME NEW p \in Procs, WriteLatest(p) PROVE TxTypes'
  BY <1>7 DEF WriteLatest
<1>8. ASSUME NEW p \in Procs, ReadHistory(p) PROVE TxTypes'
  BY <1>8 DEF ReadHistory
<1>9. ASSUME NEW p \in Procs, TruncateHistory(p) PROVE TxTypes'
  BY <1>9 DEF TruncateHistory
<1>10. ASSUME NEW p \in Procs, WriteHistory(p) PROVE TxTypes'
  BY <1>10 DEF WriteHistory
<1>11. ASSUME NEW p \in Procs, SaveRows(p) PROVE TxTypes'
  BY <1>11 DEF SaveRows
<1>12. ASSUME NEW p \in Procs, Abort(p) PROVE TxTypes'
  BY <1>12 DEF Abort
<1>13. CASE UNCHANGED vars
  BY <1>13 DEF vars
<1>. QED
  BY <1>1, <1>2, <1>3, <1>4, <1>5, <1>6, <1>7, <1>8, <1>9, <1>10, <1>11, <1>12, <1>13
     DEF Next

\* A run ends with the last step of its plan.
LEMMA RunBoundStep ==
    Types /\ RunsSound /\ WorldBounds /\ RunBounds /\ [Next]_vars => RunBounds'
<1> SUFFICES ASSUME Types /\ RunsSound /\ WorldBounds /\ RunBounds, [Next]_vars
             PROVE  RunBounds'
  OBVIOUS
<1> USE VerifyAssumption
<1>1. CASE Edit
  <2>1. \A q \in Procs : run'[q] # Idle => run[q] # Idle /\ Report(run'[q]) = Report(run[q])
    BY <1>1, DisturbFacts DEF Edit
  <2>2. runs' = runs
    BY <1>1 DEF Edit
  <2>. QED
    BY <2>1, <2>2 DEF RunBounds, Counted, Report
<1>2. CASE GoBack
  <2>1. \A q \in Procs : run'[q] # Idle => run[q] # Idle /\ Report(run'[q]) = Report(run[q])
    BY <1>2, DisturbFacts DEF GoBack
  <2>2. runs' = runs
    BY <1>2 DEF GoBack
  <2>. QED
    BY <2>1, <2>2 DEF RunBounds, Counted, Report
<1>3. CASE GitCommit
  <2>1. \A q \in Procs : run'[q] # Idle => run[q] # Idle /\ Report(run'[q]) = Report(run[q])
    BY <1>3, DisturbFacts DEF GitCommit
  <2>2. runs' = runs
    BY <1>3 DEF GitCommit
  <2>. QED
    BY <2>1, <2>2 DEF RunBounds, Counted, Report
<1>4. ASSUME NEW t \in Txs, LedgerCommit(t) \/ LedgerRollback(t) PROVE RunBounds'
  BY <1>4 DEF LedgerCommit, LedgerRollback, Resolve, RunBounds
<1>5. ASSUME NEW p \in Procs, Start(p) PROVE RunBounds'
  <2>1. /\ runs' = runs + 1 /\ run'[p].num = runs + 1 /\ run'[p].seen = {}
        /\ \A q \in Procs \ {p} : run'[q] = run[q]
    BY <1>5, StartFacts
  <2>2. run'[p].steps = 0 /\ runs < MaxRuns
    BY <1>5 DEF Start, Types, RunTypes
  <2>3. runs \in Nat
    BY DEF Types, RunTypes
  <2>. QED
    BY <2>1, <2>2, <2>3 DEF RunBounds, Counted
<1>6. ASSUME NEW p \in Procs, Step(p) PROVE RunBounds'
  <2>1. /\ run[p] \in Active /\ run[p] # Idle /\ run[p].pc = "step"
        /\ run'[p].num = run[p].num /\ run'[p].seen = run[p].seen \cup {tree}
        /\ \A q \in Procs \ {p} : run'[q] = run[q]
    BY <1>6, StepFacts
  <2>2. run'[p].steps = run[p].steps + 1
    <3>1. PICK results \in Result, end \in BOOLEAN : run'[p] = After(run[p], results, 1, end)
      <4>1. {"ok"} \in Result /\ {"bad"} \in Result
        BY DEF Result
      <4>. QED
        BY <1>6, <4>1 DEF Step, TimedOut, Types, RunTypes
    <3>2. tree \in Nat
      BY DEF Types, WorldTypes
    <3> DEFINE a == After(run[p], results, 1, end)
    <3>3. a = After(run[p], results, 1, end) /\ run'[p] = a
      BY <3>1
    <3> HIDE DEF a
    <3>. QED
      BY <2>1, <3>2, <3>3, AfterRun
  <2>3. run[p].steps \in Nat /\ run[p].steps < Planned
    BY <2>1 DEF RunsSound, Sound, Active
  <2>4. tree \in 0..MaxEdits
    BY DEF Types, WorldTypes, WorldBounds
  <2>5. runs' = runs
    BY <1>6 DEF Step
  <2>. QED
    BY <2>1, <2>2, <2>3, <2>4, <2>5 DEF RunBounds, Counted
<1>7. ASSUME NEW p \in Procs, WriteLatest(p) PROVE RunBounds'
  <2>1. /\ run[p] # Idle /\ Report(run'[p]) = Report(run[p])
        /\ \A q \in Procs \ {p} : run'[q] = run[q]
    BY <1>7, MoveFacts
  <2>2. runs' = runs
    BY <1>7 DEF WriteLatest
  <2>. QED
    BY <2>1, <2>2 DEF RunBounds, Counted, Report
<1>8. ASSUME NEW p \in Procs, ReadHistory(p) PROVE RunBounds'
  <2>1. /\ run[p] # Idle /\ Report(run'[p]) = Report(run[p])
        /\ \A q \in Procs \ {p} : run'[q] = run[q]
    BY <1>8, MoveFacts
  <2>2. runs' = runs
    BY <1>8 DEF ReadHistory
  <2>. QED
    BY <2>1, <2>2 DEF RunBounds, Counted, Report
<1>9. ASSUME NEW p \in Procs, TruncateHistory(p) PROVE RunBounds'
  <2>1. /\ run[p] # Idle /\ Report(run'[p]) = Report(run[p])
        /\ \A q \in Procs \ {p} : run'[q] = run[q]
    BY <1>9, MoveFacts
  <2>2. runs' = runs
    BY <1>9 DEF TruncateHistory
  <2>. QED
    BY <2>1, <2>2 DEF RunBounds, Counted, Report
<1>10. ASSUME NEW p \in Procs, WriteHistory(p) PROVE RunBounds'
  <2>1. /\ run[p] # Idle /\ Report(run'[p]) = Report(run[p])
        /\ \A q \in Procs \ {p} : run'[q] = run[q]
    BY <1>10, MoveFacts
  <2>2. runs' = runs
    BY <1>10 DEF WriteHistory
  <2>. QED
    BY <2>1, <2>2 DEF RunBounds, Counted, Report
<1>11. ASSUME NEW p \in Procs, SaveRows(p) PROVE RunBounds'
  <2>1. run'[p] = Idle /\ runs' = runs /\ \A q \in Procs \ {p} : run'[q] = run[q]
    BY <1>11, EndFacts DEF SaveRows
  <2>. QED
    BY <2>1 DEF RunBounds
<1>12. ASSUME NEW p \in Procs, Abort(p) PROVE RunBounds'
  <2>1. run'[p] = Idle /\ runs' = runs /\ \A q \in Procs \ {p} : run'[q] = run[q]
    BY <1>12, EndFacts DEF Abort
  <2>. QED
    BY <2>1 DEF RunBounds
<1>13. CASE UNCHANGED vars
  BY <1>13 DEF vars, RunBounds
<1>. QED
  BY <1>1, <1>2, <1>3, <1>4, <1>5, <1>6, <1>7, <1>8, <1>9, <1>10, <1>11, <1>12, <1>13
     DEF Next

\* What is reported is within its bounds, once for a run.
LEMMA ReportBoundStep ==
    Types /\ Numbered /\ RunBounds /\ ReportBounds /\ Single /\ [Next]_vars =>
        (ReportBounds /\ Single)'
<1> SUFFICES ASSUME Types /\ Numbered /\ RunBounds /\ ReportBounds /\ Single, [Next]_vars
             PROVE  (ReportBounds /\ Single)'
  OBVIOUS
<1> USE VerifyAssumption DEF ReportBounds, Single
<1>1. CASE Edit
  BY <1>1 DEF stores, Edit
<1>2. CASE GoBack
  BY <1>2 DEF stores, GoBack
<1>3. CASE GitCommit
  BY <1>3 DEF stores, GitCommit
<1>4. ASSUME NEW t \in Txs, LedgerCommit(t) \/ LedgerRollback(t) PROVE (ReportBounds /\ Single)'
  BY <1>4 DEF stores, LedgerCommit, LedgerRollback, Resolve
<1>5. ASSUME NEW p \in Procs, Start(p) PROVE (ReportBounds /\ Single)'
  BY <1>5 DEF stores, Start
<1>6. ASSUME NEW p \in Procs, Step(p) PROVE (ReportBounds /\ Single)'
  BY <1>6 DEF stores, Step
<1>7. ASSUME NEW p \in Procs, WriteLatest(p) PROVE (ReportBounds /\ Single)'
  <2>1. run[p] \in Active /\ run[p] # Idle /\ Begun(run[p])
    BY <1>7, MoveFacts, MovePc DEF Begun
  <2>2. ended' = ended \cup {Report(run[p])}
    BY <1>7 DEF WriteLatest
  <2>3. Report(run[p]) \in Reports
    BY <2>1 DEF Types, RunTypes, RunBounds, Counted, Numbered, Report, Reports, Active,
       Result
  <2>4. Report(run[p]).num = run[p].num /\ \A e \in ended : e.num # run[p].num
    BY <2>1, ReportRun DEF Numbered
  <2>. QED
    BY <2>2, <2>3, <2>4
<1>8. ASSUME NEW p \in Procs, ReadHistory(p) PROVE (ReportBounds /\ Single)'
  BY <1>8 DEF stores, ReadHistory
<1>9. ASSUME NEW p \in Procs, TruncateHistory(p) PROVE (ReportBounds /\ Single)'
  BY <1>9 DEF stores, TruncateHistory
<1>10. ASSUME NEW p \in Procs, WriteHistory(p) PROVE (ReportBounds /\ Single)'
  BY <1>10 DEF stores, WriteHistory
<1>11. ASSUME NEW p \in Procs, SaveRows(p) PROVE (ReportBounds /\ Single)'
  BY <1>11 DEF stores, SaveRows
<1>12. ASSUME NEW p \in Procs, Abort(p) PROVE (ReportBounds /\ Single)'
  BY <1>12 DEF stores, Abort
<1>13. CASE UNCHANGED vars
  BY <1>13 DEF stores, vars
<1>. QED
  BY <1>1, <1>2, <1>3, <1>4, <1>5, <1>6, <1>7, <1>8, <1>9, <1>10, <1>11, <1>12, <1>13
     DEF Next

\* Records of the history are within their bounds.
LEMMA RecordBoundStep ==
    Types /\ WorldBounds /\ Numbered /\ RunBounds /\ RecordBounds /\ [Next]_vars =>
        RecordBounds'
<1> SUFFICES ASSUME Types /\ WorldBounds /\ Numbered /\ RunBounds /\ RecordBounds, [Next]_vars
             PROVE  RecordBounds'
  OBVIOUS
<1> USE VerifyAssumption DEF RecordBounds
<1>1. CASE Edit
  <2>1. /\ history' = history
        /\ \A q \in Procs : InFile(q)' => InFile(q) /\ run'[q].file = run[q].file
    BY <1>1, DisturbFacts DEF Edit, InFile, Idle, stores
  <2>. QED
    BY <2>1
<1>2. CASE GoBack
  <2>1. /\ history' = history
        /\ \A q \in Procs : InFile(q)' => InFile(q) /\ run'[q].file = run[q].file
    BY <1>2, DisturbFacts DEF GoBack, InFile, Idle, stores
  <2>. QED
    BY <2>1
<1>3. CASE GitCommit
  <2>1. /\ history' = history
        /\ \A q \in Procs : InFile(q)' => InFile(q) /\ run'[q].file = run[q].file
    BY <1>3, DisturbFacts DEF GitCommit, InFile, Idle, stores
  <2>. QED
    BY <2>1
<1>4. ASSUME NEW t \in Txs, LedgerCommit(t) \/ LedgerRollback(t) PROVE RecordBounds'
  BY <1>4 DEF LedgerCommit, LedgerRollback, Resolve, InFile, stores
<1>5. ASSUME NEW p \in Procs, Start(p) PROVE RecordBounds'
  <2>1. /\ history' = history
        /\ \A q \in Procs : InFile(q)' => InFile(q) /\ run'[q].file = run[q].file
    BY <1>5, StartFacts DEF Start, InFile, Idle, stores
  <2>. QED
    BY <2>1
<1>6. ASSUME NEW p \in Procs, Step(p) PROVE RecordBounds'
  <2>1. /\ history' = history
        /\ \A q \in Procs : InFile(q)' => InFile(q) /\ run'[q].file = run[q].file
    BY <1>6, StepFacts DEF Step, InFile, Idle, stores
  <2>. QED
    BY <2>1
<1>7. ASSUME NEW p \in Procs, WriteLatest(p) PROVE RecordBounds'
  <2>1. /\ history' = history
        /\ \A q \in Procs : InFile(q)' => InFile(q) /\ run'[q].file = run[q].file
    BY <1>7, MoveFacts, MovePc DEF WriteLatest, InFile, Idle, stores
  <2>. QED
    BY <2>1
<1>8. ASSUME NEW p \in Procs, ReadHistory(p) PROVE RecordBounds'
  <2>1. /\ run[p] \in Active /\ run[p] # Idle /\ run[p].pc = "history" /\ history' = history
        /\ \A q \in Procs \ {p} : run'[q] = run[q]
    BY <1>8, MoveFacts, MovePc DEF ReadHistory, stores
  <2>2. CASE history = Torn
    BY <1>8, <2>1, <2>2, MovePc DEF InFile
  <2>3. CASE history # Torn
    <3>1. run'[p].file = Capped(history, Record(run[p]))
      BY <1>8, <2>3, MoveFacts
    <3>2. Range(run'[p].file) \subseteq Range(history) \cup {Record(run[p])}
      BY <2>1, <2>3, <3>1, RecordRun, CappedRange DEF Types, StoreTypes
    <3>3. Tip \in 1..(MaxEdits + 1)
      <4>1. Tip \in Nat /\ Tip >= 1 /\ Last(commits) \in Nat
        BY TipIsLast DEF Types, WorldTypes, Tip
      <4>. QED
        BY <4>1, VerifyAssumption DEF WorldBounds, Types, WorldTypes
    <3>4. Report(run[p]).pass \in BOOLEAN
      BY DEF Report
    <3>5. Record(run[p]) \in Records
      BY <2>1, <3>3, <3>4 DEF Types, RunTypes, RunBounds, Counted, Numbered, Record,
         Records, Active
    <3>. QED
      BY <2>1, <2>3, <3>2, <3>5 DEF InFile
  <2>. QED
    BY <2>2, <2>3
<1>9. ASSUME NEW p \in Procs, TruncateHistory(p) PROVE RecordBounds'
  <2>1. /\ run[p].pc = "truncate" /\ run'[p].file = run[p].file /\ history' = Torn
        /\ \A q \in Procs \ {p} : run'[q] = run[q]
    BY <1>9, MoveFacts, MovePc DEF TruncateHistory, ReadHistory
  <2>. QED
    BY <2>1 DEF InFile
<1>10. ASSUME NEW p \in Procs, WriteHistory(p) PROVE RecordBounds'
  <2>1. /\ run[p].pc = "write" /\ run'[p].pc = "rows" /\ history' = run[p].file
        /\ \A q \in Procs \ {p} : run'[q] = run[q]
    BY <1>10, MoveFacts, MovePc DEF WriteHistory
  <2>. QED
    BY <2>1 DEF InFile
<1>11. ASSUME NEW p \in Procs, SaveRows(p) PROVE RecordBounds'
  <2>1. /\ history' = history
        /\ \A q \in Procs : InFile(q)' => InFile(q) /\ run'[q].file = run[q].file
    BY <1>11, EndFacts DEF SaveRows, InFile, Idle, stores
  <2>. QED
    BY <2>1
<1>12. ASSUME NEW p \in Procs, Abort(p) PROVE RecordBounds'
  <2>1. /\ history' = history
        /\ \A q \in Procs : InFile(q)' => InFile(q) /\ run'[q].file = run[q].file
    BY <1>12, EndFacts DEF Abort, InFile, Idle, stores
  <2>. QED
    BY <2>1
<1>13. CASE UNCHANGED vars
  BY <1>13 DEF vars, InFile, stores
<1>. QED
  BY <1>1, <1>2, <1>3, <1>4, <1>5, <1>6, <1>7, <1>8, <1>9, <1>10, <1>11, <1>12, <1>13
     DEF Next

\* A run has rows once, and then it is over.
LEMMA RowsStep == Types /\ Numbered /\ Stored /\ RowsOnce /\ [Next]_vars => RowsOnce'
<1> SUFFICES ASSUME Types /\ Numbered /\ Stored /\ RowsOnce, [Next]_vars PROVE RowsOnce'
  OBVIOUS
<1> USE VerifyAssumption DEF RowsOnce
<1>1. CASE Edit
  <2>1. /\ rows' = rows
        /\ \A q \in Procs : run'[q] # Idle => run[q] # Idle /\ run'[q].num = run[q].num
    BY <1>1, DisturbFacts DEF Edit, stores
  <2>. QED
    BY <2>1
<1>2. CASE GoBack
  <2>1. /\ rows' = rows
        /\ \A q \in Procs : run'[q] # Idle => run[q] # Idle /\ run'[q].num = run[q].num
    BY <1>2, DisturbFacts DEF GoBack, stores
  <2>. QED
    BY <2>1
<1>3. CASE GitCommit
  <2>1. /\ rows' = rows
        /\ \A q \in Procs : run'[q] # Idle => run[q] # Idle /\ run'[q].num = run[q].num
    BY <1>3, DisturbFacts DEF GitCommit, stores
  <2>. QED
    BY <2>1
<1>4. ASSUME NEW t \in Txs, LedgerCommit(t) \/ LedgerRollback(t) PROVE RowsOnce'
  BY <1>4 DEF LedgerCommit, LedgerRollback, Resolve, stores
<1>5. ASSUME NEW p \in Procs, Start(p) PROVE RowsOnce'
  <2>1. /\ rows' = rows /\ run'[p].num = runs + 1
        /\ \A q \in Procs \ {p} : run'[q] = run[q]
    BY <1>5, StartFacts DEF Start, stores
  <2>2. \A r \in Range(rows) : r.num <= runs /\ r.num \in Nat
    BY DEF Stored, Numbered, Types, StoreTypes, Ended
  <2>3. runs \in Nat
    BY DEF Types, RunTypes
  <2>4. \A r \in Range(rows) : r.num # runs + 1
    BY <2>2, <2>3
  <2>. QED
    BY <2>1, <2>4
<1>6. ASSUME NEW p \in Procs, Step(p) PROVE RowsOnce'
  <2>1. /\ rows' = rows
        /\ \A q \in Procs : run'[q] # Idle => run[q] # Idle /\ run'[q].num = run[q].num
    BY <1>6, StepFacts DEF Step, stores
  <2>. QED
    BY <2>1
<1>7. ASSUME NEW p \in Procs, WriteLatest(p) PROVE RowsOnce'
  <2>1. /\ rows' = rows
        /\ \A q \in Procs : run'[q] # Idle => run[q] # Idle /\ run'[q].num = run[q].num
    BY <1>7, MoveFacts DEF WriteLatest, stores
  <2>. QED
    BY <2>1
<1>8. ASSUME NEW p \in Procs, ReadHistory(p) PROVE RowsOnce'
  <2>1. /\ rows' = rows
        /\ \A q \in Procs : run'[q] # Idle => run[q] # Idle /\ run'[q].num = run[q].num
    BY <1>8, MoveFacts DEF ReadHistory, stores
  <2>. QED
    BY <2>1
<1>9. ASSUME NEW p \in Procs, TruncateHistory(p) PROVE RowsOnce'
  <2>1. /\ rows' = rows
        /\ \A q \in Procs : run'[q] # Idle => run[q] # Idle /\ run'[q].num = run[q].num
    BY <1>9, MoveFacts DEF TruncateHistory, stores
  <2>. QED
    BY <2>1
<1>10. ASSUME NEW p \in Procs, WriteHistory(p) PROVE RowsOnce'
  <2>1. /\ rows' = rows
        /\ \A q \in Procs : run'[q] # Idle => run[q] # Idle /\ run'[q].num = run[q].num
    BY <1>10, MoveFacts DEF WriteHistory, stores
  <2>. QED
    BY <2>1
<1>11. ASSUME NEW p \in Procs, SaveRows(p) PROVE RowsOnce'
  <2>1. /\ run[p] \in Active /\ run[p] # Idle /\ run'[p] = Idle
        /\ \A q \in Procs \ {p} : run'[q] = run[q]
    BY <1>11, EndFacts DEF Active, Idle
  <2> DEFINE e == Report(run[p])
  <2>2. e \in Ended /\ e.num = run[p].num
    BY <2>1, ReportRun
  <2>3. rows' = rows \/ rows' = Append(rows, e)
    BY <1>11 DEF SaveRows
  <2> HIDE DEF e
  <2>4. Absent(e.num, rows)
    BY <2>1, <2>2 DEF Absent
  <2>5. rows \in Seq(Ended)
    BY DEF Types, StoreTypes
  <2>6. Once(Append(rows, e)) /\ Range(Append(rows, e)) = Range(rows) \cup {e}
    BY <2>2, <2>4, <2>5, AppendOnce, RangeAppend
  <2>7. \A q \in Procs \ {p} : run[q] # Idle => run[q].num # e.num
    BY <2>1, <2>2 DEF Numbered
  <2>. QED
    BY <2>1, <2>3, <2>6, <2>7
<1>12. ASSUME NEW p \in Procs, Abort(p) PROVE RowsOnce'
  <2>1. /\ rows' = rows
        /\ \A q \in Procs : run'[q] # Idle => run[q] # Idle /\ run'[q].num = run[q].num
    BY <1>12, EndFacts DEF Abort, stores
  <2>. QED
    BY <2>1
<1>13. CASE UNCHANGED vars
  BY <1>13 DEF vars, stores
<1>. QED
  BY <1>1, <1>2, <1>3, <1>4, <1>5, <1>6, <1>7, <1>8, <1>9, <1>10, <1>11, <1>12, <1>13
     DEF Next

\* A run is in the history once.
LEMMA HistoryOnceStep ==
    Types /\ HistorySound /\ Numbered /\ HistoryOnce /\ [Next]_vars => HistoryOnce'
<1> SUFFICES ASSUME Types /\ HistorySound /\ Numbered /\ HistoryOnce, [Next]_vars
             PROVE  HistoryOnce'
  OBVIOUS
<1> USE VerifyAssumption DEF HistoryOnce
<1>1. CASE Edit
  <2>1. /\ history' = history
        /\ \A q \in Procs : InFile(q)' => InFile(q) /\ run'[q].file = run[q].file
        /\ \A q \in Procs : Waiting(q)' => Waiting(q) /\ run'[q].num = run[q].num
    BY <1>1, DisturbFacts DEF Edit, InFile, Waiting, Idle, stores
  <2>. QED
    BY <2>1
<1>2. CASE GoBack
  <2>1. /\ history' = history
        /\ \A q \in Procs : InFile(q)' => InFile(q) /\ run'[q].file = run[q].file
        /\ \A q \in Procs : Waiting(q)' => Waiting(q) /\ run'[q].num = run[q].num
    BY <1>2, DisturbFacts DEF GoBack, InFile, Waiting, Idle, stores
  <2>. QED
    BY <2>1
<1>3. CASE GitCommit
  <2>1. /\ history' = history
        /\ \A q \in Procs : InFile(q)' => InFile(q) /\ run'[q].file = run[q].file
        /\ \A q \in Procs : Waiting(q)' => Waiting(q) /\ run'[q].num = run[q].num
    BY <1>3, DisturbFacts DEF GitCommit, InFile, Waiting, Idle, stores
  <2>. QED
    BY <2>1
<1>4. ASSUME NEW t \in Txs, LedgerCommit(t) \/ LedgerRollback(t) PROVE HistoryOnce'
  BY <1>4 DEF LedgerCommit, LedgerRollback, Resolve, InFile, Waiting, stores
<1>5. ASSUME NEW p \in Procs, Start(p) PROVE HistoryOnce'
  <2>1. /\ history' = history /\ run'[p].num = runs + 1 /\ run'[p].pc = "step"
        /\ \A q \in Procs \ {p} : run'[q] = run[q]
    BY <1>5, StartFacts DEF Start, stores
  <2>2. ASSUME NEW k, About(k) PROVE k.num # runs + 1
    BY <2>2 DEF About, Numbered, Types, StoreTypes, Ended, RunTypes
  <2>3. history # Torn => Absent(runs + 1, history)
    BY <2>2 DEF HistorySound, Absent
  <2>4. \A q \in Procs : InFile(q) => Absent(runs + 1, run[q].file)
    BY <2>2 DEF HistorySound, Absent, InFile
  <2>. QED
    BY <2>1, <2>3, <2>4 DEF InFile, Waiting
<1>6. ASSUME NEW p \in Procs, Step(p) PROVE HistoryOnce'
  <2>1. /\ history' = history
        /\ \A q \in Procs : InFile(q)' => InFile(q) /\ run'[q].file = run[q].file
        /\ \A q \in Procs : Waiting(q)' => Waiting(q) /\ run'[q].num = run[q].num
    BY <1>6, StepFacts DEF Step, InFile, Waiting, Idle, stores
  <2>. QED
    BY <2>1
<1>7. ASSUME NEW p \in Procs, WriteLatest(p) PROVE HistoryOnce'
  <2>1. /\ history' = history
        /\ \A q \in Procs : InFile(q)' => InFile(q) /\ run'[q].file = run[q].file
        /\ \A q \in Procs : Waiting(q)' => Waiting(q) /\ run'[q].num = run[q].num
    BY <1>7, MoveFacts, MovePc DEF WriteLatest, InFile, Waiting, Idle, stores
  <2>. QED
    BY <2>1
<1>8. ASSUME NEW p \in Procs, ReadHistory(p) PROVE HistoryOnce'
  <2>1. /\ run[p] \in Active /\ run[p] # Idle /\ run[p].pc = "history" /\ history' = history
        /\ \A q \in Procs \ {p} : run'[q] = run[q]
    BY <1>8, MoveFacts, MovePc DEF ReadHistory, stores
  <2>2. run'[p].pc \in {"truncate", "rows"}
    BY <1>8, MovePc
  <2>3. CASE history = Torn
    BY <1>8, <2>1, <2>3, MovePc DEF InFile, Waiting
  <2>4. CASE history # Torn
    <3> DEFINE k == Record(run[p])
    <3>1. run'[p].file = Capped(history, k)
      BY <1>8, <2>4, MoveFacts
    <3>2. history \in Seq(Kept) /\ k \in Kept /\ k.num = run[p].num
      BY <2>1, <2>4, RecordRun DEF Types, StoreTypes
    <3> HIDE DEF k
    <3>3. Fits(history) /\ Absent(k.num, history)
      BY <2>1, <2>4, <3>2 DEF Waiting
    <3>4. Fits(run'[p].file) /\ Range(run'[p].file) \subseteq Range(history) \cup {k}
      BY <3>1, <3>2, <3>3, CappedFits, CappedRange
    <3>5. ASSUME NEW q \in Procs \ {p}, Waiting(q) PROVE Absent(run[q].num, run'[p].file)
      <4>1. run[q].num # k.num
        BY <2>1, <3>2, <3>5 DEF Numbered, Waiting, Idle
      <4>2. Absent(run[q].num, history)
        BY <2>4, <3>5
      <4>. QED
        BY <3>4, <4>1, <4>2 DEF Absent
    <3>. QED
      BY <2>1, <2>2, <2>4, <3>4, <3>5 DEF InFile, Waiting
  <2>. QED
    BY <2>3, <2>4
<1>9. ASSUME NEW p \in Procs, TruncateHistory(p) PROVE HistoryOnce'
  <2>1. /\ run[p].pc = "truncate" /\ run'[p].pc = "write" /\ run'[p].file = run[p].file
        /\ history' = Torn /\ \A q \in Procs \ {p} : run'[q] = run[q]
    BY <1>9, MoveFacts, MovePc DEF TruncateHistory, ReadHistory
  <2>. QED
    BY <2>1 DEF InFile, Waiting
<1>10. ASSUME NEW p \in Procs, WriteHistory(p) PROVE HistoryOnce'
  <2>1. /\ run[p].pc = "write" /\ run'[p].pc = "rows" /\ history' = run[p].file
        /\ \A q \in Procs \ {p} : run'[q] = run[q]
    BY <1>10, MoveFacts, MovePc DEF WriteHistory
  <2>. QED
    BY <2>1 DEF InFile, Waiting
<1>11. ASSUME NEW p \in Procs, SaveRows(p) PROVE HistoryOnce'
  <2>1. /\ history' = history
        /\ \A q \in Procs : InFile(q)' => InFile(q) /\ run'[q].file = run[q].file
        /\ \A q \in Procs : Waiting(q)' => Waiting(q) /\ run'[q].num = run[q].num
    BY <1>11, EndFacts DEF SaveRows, InFile, Waiting, Idle, stores
  <2>. QED
    BY <2>1
<1>12. ASSUME NEW p \in Procs, Abort(p) PROVE HistoryOnce'
  <2>1. /\ history' = history
        /\ \A q \in Procs : InFile(q)' => InFile(q) /\ run'[q].file = run[q].file
        /\ \A q \in Procs : Waiting(q)' => Waiting(q) /\ run'[q].num = run[q].num
    BY <1>12, EndFacts DEF Abort, InFile, Waiting, Idle, stores
  <2>. QED
    BY <2>1
<1>13. CASE UNCHANGED vars
  BY <1>13 DEF vars, InFile, Waiting, stores
<1>. QED
  BY <1>1, <1>2, <1>3, <1>4, <1>5, <1>6, <1>7, <1>8, <1>9, <1>10, <1>11, <1>12, <1>13
     DEF Next

\* The bounds hold before the first run.
LEMMA InitBounds == Init => BInv
<1> SUFFICES ASSUME Init PROVE BInv
  OBVIOUS
<1>1. IInv
  BY InitInv
<1> USE VerifyAssumption DEF Init
<1>2. WorldBounds /\ TxTypes
  BY DEF WorldBounds, TxTypes, Last, Tip
<1>3. RunBounds /\ ReportBounds /\ RecordBounds /\ Single
  BY DEF RunBounds, ReportBounds, RecordBounds, Single, Range, Idle, InFile
<1>4. RowsOnce /\ HistoryOnce
  BY DEF RowsOnce, HistoryOnce, Once, Fits, Absent, Range, Idle, InFile, Waiting
<1>. QED
  BY <1>1, <1>2, <1>3, <1>4 DEF BInv

\* Every store has its types and bounds, and a run once, for any number of
\* runs that overlap, fail or are killed (write_verify_report,
\* update_verify_history, persist_verify_report).
THEOREM VerifyTypeCorrect == Spec => []TypeOK
<1>1. Init => BInv
  BY InitBounds
<1>2. BInv /\ [Next]_vars => BInv'
  <2>1. IInv /\ [Next]_vars => IInv'
    BY WorldStep, RunStep, StoreStep, SoundStep, ReportStep, HistoryStep, NumberStep,
       CalmStep, HeadStep
       DEF IInv, Types
  <2>. QED
    BY <2>1, WorldBoundStep, TxStep, RunBoundStep, ReportBoundStep, RecordBoundStep,
       RowsStep, HistoryOnceStep
       DEF BInv, IInv, Types
<1>3. BInv => TypeOK
  <2> SUFFICES ASSUME BInv PROVE TypeOK
    OBVIOUS
  <2>1. tree \in 0..MaxEdits /\ edits \in 0..MaxEdits /\ commits # <<>>
    BY VerifyAssumption DEF BInv, IInv, Types, WorldTypes, WorldBounds
  <2>2. Range(commits) \subseteq 0..MaxEdits
    BY VerifyAssumption DEF BInv, IInv, Types, WorldTypes, WorldBounds, Range
  <2>3. /\ \A p \in Procs : run[p] = Idle \/
              run[p].pc \in {"step", "report", "history", "truncate", "write", "rows"}
        /\ runs \in 0..MaxRuns
    BY VerifyAssumption DEF BInv, IInv, Types, RunTypes, Active, RunBounds
  <2>4. /\ Range(latest) \cup Range(rows) \subseteq ended /\ ended \subseteq Reports
        /\ \A d, e \in ended : d.num = e.num => d = e
        /\ Once(rows)
    BY DEF BInv, IInv, Stored, ReportBounds, Single, RowsOnce
  <2>5. history # Torn =>
          Len(history) <= HistoryCap /\ Once(history) /\ Range(history) \subseteq Records
    BY DEF BInv, HistoryOnce, Fits, RecordBounds
  <2>6. txs \in [Txs -> {"PENDING", "COMMITTED", "ROLLED_BACK"}]
    BY DEF BInv, TxTypes
  <2>. QED
    BY <2>1, <2>2, <2>3, <2>4, <2>5, <2>6 DEF TypeOK
<1>. QED
  BY <1>1, <1>2, <1>3, PTL DEF Spec

-----------------------------------------------------------------------------
(* The gate: which rows it scans, and which paths it takes as verified.    *)

\* The bound rows after a given one are finitely many.
LEMMA BoundFinite ==
    ASSUME StoreTypes, NEW i
    PROVE  IsFiniteSet(BoundAfter(i)) /\ Cardinality(BoundAfter(i)) \in Nat
<1>1. IsFiniteSet(DOMAIN rows)
  BY FS_Interval DEF StoreTypes
<1>. QED
  BY <1>1, FS_Subset, FS_CardinalityType DEF BoundAfter

\* A new row that is bound is scanned, and pushes only the oldest ones out.
\* One that is not changes nothing.
LEMMA ScanAppend ==
    ASSUME StoreTypes, StoreTypes', NEW e \in Ended, rows' = Append(rows, e),
           NEW n, n = Len(rows) + 1
    PROVE  /\ rows'[n] = e /\ n \in Nat /\ Last(rows') = e /\ Len(rows') > Len(rows)
           /\ \A i \in DOMAIN rows : i \in Nat /\ i < n /\ rows'[i] = rows[i]
           /\ e.tx # NoTx => n \in Scanned'
           /\ Scanned' \subseteq Scanned \cup {n}
           /\ e.tx = NoTx => Scanned' = Scanned
           /\ \A i \in Scanned', j \in Scanned : j > i => j \in Scanned'
<1>1. /\ DOMAIN rows' = DOMAIN rows \cup {n} /\ n \notin DOMAIN rows
      /\ rows'[n] = e /\ n \in Nat /\ Len(rows') = n /\ Len(rows) \in Nat
      /\ \A i \in DOMAIN rows : i \in Nat /\ i < n /\ rows'[i] = rows[i]
  BY DEF StoreTypes
<1>2. Last(rows') = e /\ Len(rows') > Len(rows)
  BY <1>1 DEF Last
<1>3. \A i \in DOMAIN rows :
         BoundAfter(i)' = BoundAfter(i) \cup (IF e.tx = NoTx THEN {} ELSE {n})
  BY <1>1 DEF BoundAfter
<1>4. BoundAfter(n)' = {}
  BY <1>1 DEF BoundAfter
<1>5. \A i : IsFiniteSet(BoundAfter(i)) /\ Cardinality(BoundAfter(i)) \in Nat
  BY BoundFinite
<1>6. \A i : IsFiniteSet(BoundAfter(i)') /\ Cardinality(BoundAfter(i)') \in Nat
  <2>1. IsFiniteSet(DOMAIN rows')
    BY FS_Interval DEF StoreTypes
  <2>2. \A i : BoundAfter(i)' \subseteq DOMAIN rows'
    BY DEF BoundAfter
  <2>. QED
    BY <2>1, <2>2, FS_Subset, FS_CardinalityType
<1>7. \A i \in DOMAIN rows : Cardinality(BoundAfter(i)) <= Cardinality(BoundAfter(i)')
  BY <1>3, <1>5, <1>6, FS_Subset
<1>8. e.tx # NoTx => n \in Scanned'
  <2>1. Cardinality(BoundAfter(n)') = 0
    BY <1>4, FS_EmptySet
  <2>. QED
    BY <1>1, <2>1, VerifyAssumption DEF Scanned
<1>9. Scanned' \subseteq Scanned \cup {n}
  <2> SUFFICES ASSUME NEW i \in Scanned', i # n PROVE i \in Scanned
    OBVIOUS
  <2>1. i \in DOMAIN rows /\ rows[i].tx # NoTx /\ Cardinality(BoundAfter(i)') < ScanLimit
    BY <1>1 DEF Scanned
  <2>2. Cardinality(BoundAfter(i)) < ScanLimit
    BY <1>5, <1>6, <1>7, <2>1, VerifyAssumption
  <2>. QED
    BY <2>1, <2>2 DEF Scanned
<1>10. e.tx = NoTx => Scanned' = Scanned
  BY <1>1, <1>3 DEF Scanned
<1>11. ASSUME NEW i \in Scanned', NEW j \in Scanned, j > i PROVE j \in Scanned'
  <2>1. j \in DOMAIN rows /\ rows[j].tx # NoTx
    BY DEF Scanned
  <2>2. i \in DOMAIN rows' /\ Cardinality(BoundAfter(i)') < ScanLimit
    BY DEF Scanned
  <2>3. i \in Nat /\ j \in Nat
    BY <1>1, <2>1, <2>2
  <2>4. \A k \in DOMAIN rows' : k \in Nat
    BY <1>1
  <2>5. BoundAfter(j)' \subseteq BoundAfter(i)'
    <3>1. \A k \in Nat : k > j => k > i
      BY <1>11, <2>3
    <3>. QED
      BY <2>4, <3>1 DEF BoundAfter
  <2>6. Cardinality(BoundAfter(j)') <= Cardinality(BoundAfter(i)')
    BY <1>6, <2>5, FS_Subset
  <2>7. Cardinality(BoundAfter(j)') < ScanLimit
    BY <1>6, <2>2, <2>6, VerifyAssumption
  <2>. QED
    BY <1>1, <2>1, <2>7 DEF Scanned
<1>. QED
  BY <1>1, <1>2, <1>8, <1>9, <1>10, <1>11

\* A row that is saved: a passing one that covers the path verifies it, one
\* that failed vetoes it, and any other leaves what was verified before.
LEMMA SavedMoves ==
    ASSUME StoreTypes, StoreTypes', NEW e \in Ended, rows' = Append(rows, e), txs' = txs,
           NEW f \in Paths
    PROVE  GateMoves(f)
<1>. PICK n : n = Len(rows) + 1
  OBVIOUS
<1>1. /\ rows'[n] = e /\ n \in Nat /\ Last(rows') = e /\ Len(rows') > Len(rows)
      /\ \A i \in DOMAIN rows : i \in Nat /\ i < n /\ rows'[i] = rows[i]
      /\ e.tx # NoTx => n \in Scanned'
      /\ Scanned' \subseteq Scanned \cup {n}
      /\ e.tx = NoTx => Scanned' = Scanned
      /\ \A i \in Scanned', j \in Scanned : j > i => j \in Scanned'
  BY ScanAppend
<1>2. Scanned \subseteq DOMAIN rows
  BY DEF Scanned
<1>3. \A r : CoversPath(r, f)' <=> CoversPath(r, f)
  BY DEF CoversPath
<1>4. ASSUME PathVerified(f)', ~PathVerified(f)
      PROVE  e.tx # NoTx /\ e.pass /\ CoversPath(e, f)
  <2>1. PICK i \in Scanned' : /\ CoversPath(rows'[i], f) /\ rows'[i].pass
                              /\ \A j \in Scanned' : j > i => ~CoversPath(rows'[j], f)
    BY <1>3, <1>4 DEF PathVerified
  <2>2. CASE i \in Scanned
    <3>1. CoversPath(rows[i], f) /\ rows[i].pass
      BY <1>1, <1>2, <2>1, <2>2
    <3>2. \A j \in Scanned : j > i => ~CoversPath(rows[j], f)
      BY <1>1, <1>2, <2>1, <2>2
    <3>. QED
      BY <1>4, <2>2, <3>1, <3>2 DEF PathVerified
  <2>3. CASE i \notin Scanned
    <3>1. i = n /\ e.tx # NoTx
      BY <1>1, <2>1, <2>3
    <3>. QED
      BY <1>1, <2>1, <3>1
  <2>. QED
    BY <2>2, <2>3
<1>5. ASSUME e.tx # NoTx, ~e.pass, CoversPath(e, f), PathVerified(f)' PROVE FALSE
  <2>1. PICK i \in Scanned' : /\ rows'[i].pass
                              /\ \A j \in Scanned' : j > i => ~CoversPath(rows'[j], f)
    BY <1>3, <1>5 DEF PathVerified
  <2>2. i # n
    BY <1>1, <1>5, <2>1
  <2>3. n > i
    BY <1>1, <1>2, <2>2
  <2>. QED
    BY <1>1, <1>5, <2>1, <2>3
<1>. QED
  BY <1>1, <1>4, <1>5 DEF GateMoves, CoversPath

\* A transaction that is resolved verifies only what a run of its own passed for.
LEMMA ResolveMoves ==
    ASSUME StoreTypes, UNCHANGED rows, NEW t \in Txs, txs[t] = "PENDING",
           NEW status \in {"COMMITTED", "ROLLED_BACK"}, TxTypes,
           txs' = [txs EXCEPT ![t] = status], NEW f \in Paths
    PROVE  GateMoves(f)
<1>1. Scanned' = Scanned /\ rows' = rows
  BY DEF Scanned, BoundAfter
<1>2. Scanned \subseteq DOMAIN rows /\ \A i \in Scanned : rows[i].tx \in Txs
  <2>1. \A i \in DOMAIN rows : rows[i] \in Ended
    BY DEF StoreTypes
  <2>2. \A i \in Scanned : i \in DOMAIN rows /\ rows[i].tx # NoTx
    BY DEF Scanned
  <2>3. \A e \in Ended : e.tx \in Txs \cup {NoTx}
    BY DEF Ended
  <2>. QED
    BY <2>1, <2>2, <2>3
<1>3. \A u \in Txs : txs'[u] = IF u = t THEN status ELSE txs[u]
  BY DEF TxTypes
<1>4. \A i \in Scanned : CoversPath(rows[i], f) => CoversPath(rows[i], f)'
  BY <1>1, <1>2, <1>3 DEF CoversPath
<1>5. ASSUME PathVerified(f)', ~PathVerified(f)
      PROVE  f \in Covers[t] /\ \E r \in Range(rows) : r.tx = t /\ r.pass
  <2>1. PICK i \in Scanned : /\ CoversPath(rows[i], f)' /\ rows[i].pass
                             /\ \A j \in Scanned : j > i => ~CoversPath(rows[j], f)'
    BY <1>1, <1>5 DEF PathVerified
  <2>2. CASE rows[i].tx = t
    BY <1>1, <1>2, <2>1, <2>2 DEF CoversPath, Range
  <2>3. CASE rows[i].tx # t
    <3>1. CoversPath(rows[i], f)
      BY <1>1, <1>2, <1>3, <2>1, <2>3 DEF CoversPath
    <3>2. \A j \in Scanned : j > i => ~CoversPath(rows[j], f)
      BY <1>4, <2>1
    <3>. QED
      BY <1>5, <2>1, <3>1, <3>2 DEF PathVerified
  <2>. QED
    BY <2>2, <2>3
<1>6. ~(Len(rows') > Len(rows))
  BY DEF StoreTypes
<1>7. txs[t] # txs'[t]
  BY <1>3
<1>. QED
  BY <1>5, <1>6, <1>7, Zenon DEF GateMoves

\* A step that touches neither the rows nor the transactions verifies nothing.
LEMMA StillMoves ==
    ASSUME StoreTypes, UNCHANGED <<rows, txs>>, NEW f \in Paths
    PROVE  GateMoves(f)
<1>1. PathVerified(f)' <=> PathVerified(f)
  BY DEF PathVerified, Scanned, BoundAfter, CoversPath
<1>2. ~(Len(rows') > Len(rows))
  BY DEF StoreTypes
<1>. QED
  BY <1>1, <1>2 DEF GateMoves

\* What the gate takes as verified changes only with a run that says so, or
\* with the resolution of its transaction.
LEMMA GateStep ==
    ASSUME Types, Types', TxTypes, [Next]_vars, NEW f \in Paths
    PROVE  GateMoves(f)
<1>. StoreTypes /\ StoreTypes'
  BY DEF Types
<1>1. ASSUME NEW t \in Txs, LedgerCommit(t) \/ LedgerRollback(t) PROVE GateMoves(f)
  BY <1>1, ResolveMoves DEF LedgerCommit, LedgerRollback, Resolve, stores
<1>2. ASSUME NEW p \in Procs, SaveRows(p) PROVE GateMoves(f)
  <2>1. txs' = txs /\ rows' \in {Append(rows, Report(run[p])), rows} /\ run[p].pc = "rows"
    BY <1>2 DEF SaveRows
  <2>2. CASE rows' = rows
    BY <2>1, <2>2, StillMoves
  <2>3. CASE rows' = Append(rows, Report(run[p]))
    <3>1. run[p] \in Active
      BY <2>1 DEF Types, RunTypes, Idle
    <3>2. PICK e \in Ended : e = Report(run[p])
      BY <3>1, ReportRun
    <3>. QED
      BY <2>1, <2>3, <3>2, SavedMoves
  <2>. QED
    BY <2>1, <2>2, <2>3
<1>3. CASE Edit \/ GoBack \/ GitCommit
  BY <1>3, StillMoves DEF Edit, GoBack, GitCommit, stores
<1>4. ASSUME NEW p \in Procs,
             Start(p) \/ Step(p) \/ WriteLatest(p) \/ ReadHistory(p) \/ TruncateHistory(p)
             \/ WriteHistory(p) \/ Abort(p)
      PROVE  GateMoves(f)
  BY <1>4, StillMoves
     DEF Start, Step, WriteLatest, ReadHistory, TruncateHistory, WriteHistory, Abort, stores
<1>5. CASE UNCHANGED vars
  BY <1>5, StillMoves DEF vars, stores
<1>. QED
  BY <1>1, <1>2, <1>3, <1>4, <1>5 DEF Next

\* A path comes to be verified only by a new run bound to a transaction that
\* covers it, and passing, or when a transaction with a run that passed is
\* committed or rolled back; and a newer failure vetoes an older pass, whatever
\* the number of runs the gate scans (eval_verification_must_pass_pr,
\* entities_for_tx).
THEOREM GateNeedsRun == Spec => PassNeedsRun
<1>1. IInv /\ IInv' /\ TxTypes /\ [Next]_vars => [\A f \in Paths : GateMoves(f)]_vars
  BY GateStep DEF IInv
<1>2. Init => TxTypes
  BY DEF Init, TxTypes
<1>3. TxTypes /\ [Next]_vars => TxTypes'
  BY TxStep
<1>. QED
  BY <1>1, <1>2, <1>3, VerifyInvariant, PTL DEF Spec, PassNeedsRun

-----------------------------------------------------------------------------
(* A grouped call: the invariants.                                         *)

\* Types alone, without the bounds of CallTypeOK.
CallTypes ==
    /\ pc \in {"spawn", "waiting", "reaping", "killed", "joining", "done"}
    /\ captured \in BOOLEAN
    /\ outcome \in {"none", "ok", "failed", "timeout", "notKilled", "notWaited", "notSpawned"}
    /\ proc \in [Processes -> {"none", "running", "ok", "failed", "killed", "gone"}]
    /\ group \subseteq Processes
    /\ holders \subseteq Processes
    /\ doomed \subseteq Processes
    /\ todo \in [Streams -> 0..MaxOutput]
    /\ written \in [Streams -> Nat]
    /\ buffer \in [Streams -> 0..PipeSize]
    /\ kept \in [Streams -> 0..Cap]
    /\ truncated \in [Streams -> BOOLEAN]
    /\ reader \in [Streams -> {"none", "reading", "done", "broken"}]

\* A byte is counted once, on its way into the pipe; without pipes none is.
Written == \A s \in Streams : written[s] + todo[s] <= MaxOutput
Unpiped == ~captured => \A s \in Streams : buffer[s] = 0 /\ kept[s] = 0 /\ truncated[s] = FALSE

\* What left the pipe was kept as far as there was room; a reader that gave up
\* keeps a part of it, and calls that truncated only when it was.
Consumed(s) == written[s] - buffer[s]
ReadWhole(s) ==
    /\ Consumed(s) >= 0
    /\ kept[s] = IF Consumed(s) < Cap THEN Consumed(s) ELSE Cap
    /\ truncated[s] <=> Consumed(s) > Cap
ReadPart(s) ==
    /\ buffer[s] = 0
    /\ kept[s] <= written[s]
    /\ truncated[s] => kept[s] = Cap /\ written[s] > Cap
Accounted == captured => \A s \in Streams :
    IF reader[s] = "broken" THEN ReadPart(s) ELSE ReadWhole(s)

\* Before the spawn, and after one that failed, nothing has run.
Started == pc = "spawn" \/ outcome = "notSpawned" =>
    /\ \A p \in Processes : proc[p] = "none"
    /\ \A s \in Streams : reader[s] = "none" /\ buffer[s] = 0
Outcomes ==
    /\ outcome = "timeout" => pc \in {"killed", "joining", "done"}
    /\ outcome = "notSpawned" => pc = "done"
    /\ pc = "spawn" => outcome = "none"

\* The command never gives up its pipes; a reader that is done has seen all.
Piped == captured /\ Running("command") => "command" \in holders
Unborn == \A d \in Descendants : proc[d] = "none" => d \notin holders /\ d \notin group
Drained ==
    captured => \A s \in Streams :
        /\ reader[s] = "done" => buffer[s] = 0 /\ \A p \in Processes : ~Holds(p)
        /\ pc = "done" => outcome \in {"notSpawned", "notWaited"} \/ reader[s] \in {"done", "broken"}

\* From the timeout on, every process of the group has been sent SIGKILL.
Doomed == outcome = "timeout" => group \subseteq doomed

CallIInv ==
    /\ CallTypes /\ Written /\ Unpiped /\ Accounted /\ Started
    /\ Outcomes /\ Piped /\ Unborn /\ Drained /\ Doomed

-----------------------------------------------------------------------------
(* A grouped call: the initial state.                                      *)

\* The invariants hold before the spawn.
LEMMA CallInitInv == CallInit => CallIInv
<1> SUFFICES ASSUME CallInit PROVE CallIInv
  OBVIOUS
<1> USE ExecAssumption DEF CallInit, Processes, Running, Holds
<1>1. CallTypes
  BY DEF CallTypes
<1>2. Written /\ Unpiped /\ Accounted
  BY DEF Written, Unpiped, Accounted, ReadWhole, Consumed
<1>3. Started /\ Outcomes /\ Piped /\ Unborn /\ Drained /\ Doomed
  BY DEF Started, Outcomes, Piped, Unborn, Drained, Doomed
<1>. QED
  BY <1>1, <1>2, <1>3 DEF CallIInv

-----------------------------------------------------------------------------
(* A grouped call: each part of the invariant, along the actions.          *)

\* CallTypes are kept.
LEMMA CallTypesStep == CallTypes /\ [CallNext]_callVars => CallTypes'
<1> SUFFICES ASSUME CallTypes, [CallNext]_callVars
             PROVE  CallTypes'
  OBVIOUS
<1> USE ExecAssumption DEF CallTypes, output, Processes, Running, Holds, Blocked
<1>1. ASSUME NEW s \in Streams, Write(s) PROVE CallTypes'
  BY <1>1 DEF Write
<1>2. ASSUME NEW d \in Descendants, Fork(d) PROVE CallTypes'
  BY <1>2 DEF Fork
<1>3. ASSUME NEW d \in Descendants, Redirect(d) PROVE CallTypes'
  BY <1>3 DEF Redirect
<1>4. ASSUME NEW d \in Descendants, Leave(d) PROVE CallTypes'
  BY <1>4 DEF Leave
<1>5. ASSUME NEW status \in {"ok", "failed"}, CommandExit(status) PROVE CallTypes'
  BY <1>5 DEF CommandExit
<1>6. ASSUME NEW d \in Descendants, Exit(d) PROVE CallTypes'
  BY <1>6 DEF Exit
<1>7. ASSUME NEW p \in Processes, Die(p) PROVE CallTypes'
  BY <1>7 DEF Die
<1>8. ASSUME NEW s \in Streams, Read(s) PROVE CallTypes'
  BY <1>8 DEF Read
<1>9. ASSUME NEW s \in Streams, EndOfFile(s) PROVE CallTypes'
  BY <1>9 DEF EndOfFile
<1>10. CASE Spawn
  BY <1>10 DEF Spawn
<1>11. CASE SpawnFails
  BY <1>11 DEF SpawnFails
<1>12. CASE Waited
  BY <1>12 DEF Waited
<1>13. CASE Reaped
  BY <1>13 DEF Reaped
<1>14. CASE Expire
  BY <1>14 DEF Expire
<1>15. CASE ReapKilled
  BY <1>15 DEF ReapKilled
<1>16. CASE Return
  BY <1>16 DEF Return
<1>17. CASE UNCHANGED callVars
  BY <1>17 DEF callVars, output
<1>18. ASSUME NEW s \in Streams, ReadFails(s) PROVE CallTypes'
  <2>1. kept' \in [Streams -> 0..Cap] /\ truncated' \in [Streams -> BOOLEAN]
    <3>1. CASE UNCHANGED <<kept, truncated>>
      BY <3>1
    <3>2. CASE kept' = [kept EXCEPT ![s] = 0] /\ truncated' = [truncated EXCEPT ![s] = FALSE]
      <4>1. kept' \in [Streams -> 0..Cap]
        BY <3>2
      <4>2. truncated' \in [Streams -> BOOLEAN]
        BY <3>2, Zenon
      <4>. QED
        BY <4>1, <4>2
    <3>. QED
      BY <1>18, <3>1, <3>2 DEF ReadFails
  <2>2. /\ buffer' \in [Streams -> 0..PipeSize]
        /\ reader' \in [Streams -> {"none", "reading", "done", "broken"}]
    BY <1>18 DEF ReadFails
  <2>3. UNCHANGED <<pc, captured, outcome, proc, group, holders, doomed, todo, written>>
    BY <1>18 DEF ReadFails
  <2>. QED
    BY <2>1, <2>2, <2>3
<1>19. CASE WaitFails
  BY <1>19 DEF WaitFails
<1>. QED
  BY <1>1, <1>2, <1>3, <1>4, <1>5, <1>6, <1>7, <1>8, <1>9, <1>10, <1>11, <1>12, <1>13,
     <1>14, <1>15, <1>16, <1>17, <1>18, <1>19 DEF CallNext, Caller, Reader, Command, Descendant

\* What is written, in the pipe and kept adds up.
LEMMA OutputStep ==
    CallTypes /\ Started /\ Written /\ Unpiped /\ Accounted /\ [CallNext]_callVars
    => (Written /\ Unpiped /\ Accounted)'
<1> SUFFICES ASSUME CallTypes /\ Started /\ Written /\ Unpiped /\ Accounted, [CallNext]_callVars
             PROVE  (Written /\ Unpiped /\ Accounted)'
  OBVIOUS
<1> USE ExecAssumption DEF CallTypes, Written, Unpiped, Accounted, ReadWhole, ReadPart, Consumed, output,
        Processes, Running, Holds, Blocked, Open
<1>1. ASSUME NEW s \in Streams, Write(s) PROVE (Written /\ Unpiped /\ Accounted)'
  BY <1>1 DEF Write
<1>2. ASSUME NEW d \in Descendants, Fork(d) PROVE (Written /\ Unpiped /\ Accounted)'
  BY <1>2 DEF Fork
<1>3. ASSUME NEW d \in Descendants, Redirect(d) PROVE (Written /\ Unpiped /\ Accounted)'
  BY <1>3 DEF Redirect
<1>4. ASSUME NEW d \in Descendants, Leave(d) PROVE (Written /\ Unpiped /\ Accounted)'
  BY <1>4 DEF Leave
<1>5. ASSUME NEW status \in {"ok", "failed"}, CommandExit(status)
      PROVE  (Written /\ Unpiped /\ Accounted)'
  BY <1>5 DEF CommandExit
<1>6. ASSUME NEW d \in Descendants, Exit(d) PROVE (Written /\ Unpiped /\ Accounted)'
  BY <1>6 DEF Exit
<1>7. ASSUME NEW p \in Processes, Die(p) PROVE (Written /\ Unpiped /\ Accounted)'
  BY <1>7 DEF Die
<1>8. ASSUME NEW s \in Streams, Read(s) PROVE (Written /\ Unpiped /\ Accounted)'
  BY <1>8 DEF Read
<1>9. ASSUME NEW s \in Streams, EndOfFile(s) PROVE (Written /\ Unpiped /\ Accounted)'
  BY <1>9 DEF EndOfFile
<1>10. CASE Spawn
  BY <1>10 DEF Spawn, Started
<1>11. CASE SpawnFails
  BY <1>11 DEF SpawnFails
<1>12. CASE Waited
  BY <1>12 DEF Waited
<1>13. CASE Reaped
  BY <1>13 DEF Reaped
<1>14. CASE Expire
  BY <1>14 DEF Expire
<1>15. CASE ReapKilled
  BY <1>15 DEF ReapKilled
<1>16. CASE Return
  BY <1>16 DEF Return
<1>17. CASE UNCHANGED callVars
  BY <1>17 DEF callVars, output
<1>18. ASSUME NEW s \in Streams, ReadFails(s) PROVE (Written /\ Unpiped /\ Accounted)'
  BY <1>18 DEF ReadFails
<1>19. CASE WaitFails
  BY <1>19 DEF WaitFails
<1>. QED
  BY <1>1, <1>2, <1>3, <1>4, <1>5, <1>6, <1>7, <1>8, <1>9, <1>10, <1>11, <1>12, <1>13,
     <1>14, <1>15, <1>16, <1>17, <1>18, <1>19 DEF CallNext, Caller, Reader, Command, Descendant

\* What the position of the caller says of the processes.
LEMMA ControlStep == CallTypes /\ Started /\ Outcomes /\ [CallNext]_callVars => (Started /\ Outcomes)'
<1> SUFFICES ASSUME CallTypes /\ Started /\ Outcomes, [CallNext]_callVars
             PROVE  (Started /\ Outcomes)'
  OBVIOUS
<1> USE ExecAssumption DEF CallTypes, Started, Outcomes, output, Processes, Running, Holds,
        Blocked
<1>1. ASSUME NEW s \in Streams, Write(s) PROVE (Started /\ Outcomes)'
  BY <1>1 DEF Write
<1>2. ASSUME NEW d \in Descendants, Fork(d) PROVE (Started /\ Outcomes)'
  BY <1>2 DEF Fork
<1>3. ASSUME NEW d \in Descendants, Redirect(d) PROVE (Started /\ Outcomes)'
  BY <1>3 DEF Redirect
<1>4. ASSUME NEW d \in Descendants, Leave(d) PROVE (Started /\ Outcomes)'
  BY <1>4 DEF Leave
<1>5. ASSUME NEW status \in {"ok", "failed"}, CommandExit(status)
      PROVE  (Started /\ Outcomes)'
  BY <1>5 DEF CommandExit
<1>6. ASSUME NEW d \in Descendants, Exit(d) PROVE (Started /\ Outcomes)'
  BY <1>6 DEF Exit
<1>7. ASSUME NEW p \in Processes, Die(p) PROVE (Started /\ Outcomes)'
  BY <1>7 DEF Die
<1>8. ASSUME NEW s \in Streams, Read(s) PROVE (Started /\ Outcomes)'
  BY <1>8 DEF Read
<1>9. ASSUME NEW s \in Streams, EndOfFile(s) PROVE (Started /\ Outcomes)'
  BY <1>9 DEF EndOfFile
<1>10. CASE Spawn
  BY <1>10 DEF Spawn
<1>11. CASE SpawnFails
  BY <1>11 DEF SpawnFails
<1>12. CASE Waited
  BY <1>12 DEF Waited
<1>13. CASE Reaped
  BY <1>13 DEF Reaped
<1>14. CASE Expire
  BY <1>14 DEF Expire
<1>15. CASE ReapKilled
  BY <1>15 DEF ReapKilled
<1>16. CASE Return
  BY <1>16 DEF Return
<1>17. CASE UNCHANGED callVars
  BY <1>17 DEF callVars, output
<1>18. ASSUME NEW s \in Streams, ReadFails(s) PROVE (Started /\ Outcomes)'
  BY <1>18 DEF ReadFails
<1>19. CASE WaitFails
  BY <1>19 DEF WaitFails
<1>. QED
  BY <1>1, <1>2, <1>3, <1>4, <1>5, <1>6, <1>7, <1>8, <1>9, <1>10, <1>11, <1>12, <1>13,
     <1>14, <1>15, <1>16, <1>17, <1>18, <1>19 DEF CallNext, Caller, Reader, Command, Descendant

\* Who holds the pipes, and what a reader that is done has seen.
LEMMA PipesStep ==
    CallTypes /\ Started /\ Outcomes /\ Piped /\ Unborn /\ Drained /\ [CallNext]_callVars => (Piped /\ Unborn /\ Drained)'
<1> SUFFICES ASSUME CallTypes /\ Started /\ Outcomes /\ Piped /\ Unborn /\ Drained, [CallNext]_callVars
             PROVE  (Piped /\ Unborn /\ Drained)'
  OBVIOUS
<1> USE ExecAssumption DEF CallTypes, Started, Outcomes, Piped, Unborn, Drained, output,
        Processes, Running, Holds, Blocked
<1>1. ASSUME NEW s \in Streams, Write(s) PROVE (Piped /\ Unborn /\ Drained)'
  BY <1>1 DEF Write
<1>2. ASSUME NEW d \in Descendants, Fork(d) PROVE (Piped /\ Unborn /\ Drained)'
  BY <1>2 DEF Fork
<1>3. ASSUME NEW d \in Descendants, Redirect(d) PROVE (Piped /\ Unborn /\ Drained)'
  BY <1>3 DEF Redirect
<1>4. ASSUME NEW d \in Descendants, Leave(d) PROVE (Piped /\ Unborn /\ Drained)'
  BY <1>4 DEF Leave
<1>5. ASSUME NEW status \in {"ok", "failed"}, CommandExit(status)
      PROVE  (Piped /\ Unborn /\ Drained)'
  BY <1>5 DEF CommandExit
<1>6. ASSUME NEW d \in Descendants, Exit(d) PROVE (Piped /\ Unborn /\ Drained)'
  BY <1>6 DEF Exit
<1>7. ASSUME NEW p \in Processes, Die(p) PROVE (Piped /\ Unborn /\ Drained)'
  BY <1>7 DEF Die
<1>8. ASSUME NEW s \in Streams, Read(s) PROVE (Piped /\ Unborn /\ Drained)'
  BY <1>8 DEF Read
<1>9. ASSUME NEW s \in Streams, EndOfFile(s) PROVE (Piped /\ Unborn /\ Drained)'
  BY <1>9 DEF EndOfFile
<1>10. CASE Spawn
  BY <1>10 DEF Spawn
<1>11. CASE SpawnFails
  BY <1>11 DEF SpawnFails
<1>12. CASE Waited
  BY <1>12 DEF Waited
<1>13. CASE Reaped
  BY <1>13 DEF Reaped
<1>14. CASE Expire
  BY <1>14 DEF Expire
<1>15. CASE ReapKilled
  BY <1>15 DEF ReapKilled
<1>16. CASE Return
  BY <1>16 DEF Return
<1>17. CASE UNCHANGED callVars
  BY <1>17 DEF callVars, output
<1>18. ASSUME NEW s \in Streams, ReadFails(s) PROVE (Piped /\ Unborn /\ Drained)'
  BY <1>18 DEF ReadFails
<1>19. CASE WaitFails
  BY <1>19 DEF WaitFails
<1>. QED
  BY <1>1, <1>2, <1>3, <1>4, <1>5, <1>6, <1>7, <1>8, <1>9, <1>10, <1>11, <1>12, <1>13,
     <1>14, <1>15, <1>16, <1>17, <1>18, <1>19 DEF CallNext, Caller, Reader, Command, Descendant

\* The group only shrinks after the kill: its processes fork no more.
LEMMA DoomedStep == CallTypes /\ Outcomes /\ Doomed /\ [CallNext]_callVars => Doomed'
<1> SUFFICES ASSUME CallTypes /\ Outcomes /\ Doomed, [CallNext]_callVars
             PROVE  Doomed'
  OBVIOUS
<1> USE ExecAssumption DEF CallTypes, Outcomes, Doomed, output, Processes, Running, Holds,
        Blocked
<1>1. ASSUME NEW s \in Streams, Write(s) PROVE Doomed'
  BY <1>1 DEF Write
<1>2. ASSUME NEW d \in Descendants, Fork(d) PROVE Doomed'
  BY <1>2 DEF Fork
<1>3. ASSUME NEW d \in Descendants, Redirect(d) PROVE Doomed'
  BY <1>3 DEF Redirect
<1>4. ASSUME NEW d \in Descendants, Leave(d) PROVE Doomed'
  BY <1>4 DEF Leave
<1>5. ASSUME NEW status \in {"ok", "failed"}, CommandExit(status) PROVE Doomed'
  BY <1>5 DEF CommandExit
<1>6. ASSUME NEW d \in Descendants, Exit(d) PROVE Doomed'
  BY <1>6 DEF Exit
<1>7. ASSUME NEW p \in Processes, Die(p) PROVE Doomed'
  BY <1>7 DEF Die
<1>8. ASSUME NEW s \in Streams, Read(s) PROVE Doomed'
  BY <1>8 DEF Read
<1>9. ASSUME NEW s \in Streams, EndOfFile(s) PROVE Doomed'
  BY <1>9 DEF EndOfFile
<1>10. CASE Spawn
  BY <1>10 DEF Spawn
<1>11. CASE SpawnFails
  BY <1>11 DEF SpawnFails
<1>12. CASE Waited
  BY <1>12 DEF Waited
<1>13. CASE Reaped
  BY <1>13 DEF Reaped
<1>14. CASE Expire
  BY <1>14 DEF Expire
<1>15. CASE ReapKilled
  BY <1>15 DEF ReapKilled
<1>16. CASE Return
  BY <1>16 DEF Return
<1>17. CASE UNCHANGED callVars
  BY <1>17 DEF callVars, output
<1>18. ASSUME NEW s \in Streams, ReadFails(s) PROVE Doomed'
  BY <1>18 DEF ReadFails
<1>19. CASE WaitFails
  BY <1>19 DEF WaitFails
<1>. QED
  BY <1>1, <1>2, <1>3, <1>4, <1>5, <1>6, <1>7, <1>8, <1>9, <1>10, <1>11, <1>12, <1>13,
     <1>14, <1>15, <1>16, <1>17, <1>18, <1>19 DEF CallNext, Caller, Reader, Command, Descendant

\* The invariants hold together in every state.
THEOREM ExecInvariant == CallSpec => []CallIInv
<1>1. CallInit => CallIInv
  BY CallInitInv
<1>2. CallIInv /\ [CallNext]_callVars => CallIInv'
  BY CallTypesStep, OutputStep, ControlStep, PipesStep, DoomedStep DEF CallIInv
<1>. QED
  BY <1>1, <1>2, PTL DEF CallSpec

-----------------------------------------------------------------------------
(* A grouped call: the properties.                                         *)

\* Type correctness, with the bounds on what was written and kept.
THEOREM ExecTypeCorrect == CallSpec => []CallTypeOK
<1>1. CallIInv => CallTypeOK
  <2> SUFFICES ASSUME CallIInv PROVE CallTypeOK
    OBVIOUS
  <2> USE ExecAssumption DEF CallIInv, CallTypes
  <2>1. written \in [Streams -> 0..MaxOutput]
    BY DEF Written
  <2>2. \A s \in Streams : kept[s] + buffer[s] <= written[s]
    BY DEF Accounted, ReadWhole, ReadPart, Unpiped, Consumed
  <2>. QED
    BY <2>1, <2>2 DEF CallTypeOK
<1>. QED
  BY <1>1, ExecInvariant, PTL

\* Of every stream that its thread read to the end the call returns all of the
\* output up to the cap, and says whether there was more; of one whose read
\* failed or whose thread panicked it returns a part, and never calls it
\* truncated for nothing (read_capped and the joins of
\* spawn_wait_grouped_captured).
THEOREM WholeOutput == CallSpec => []OutputIsWhole
<1>1. CallIInv => OutputIsWhole
  <2> SUFFICES ASSUME CallIInv, pc = "done", captured, outcome # "notWaited", NEW s \in Streams
               PROVE  \/ /\ kept[s] = IF written[s] < Cap THEN written[s] ELSE Cap
                         /\ truncated[s] <=> written[s] > Cap
                      \/ /\ reader[s] = "broken"
                         /\ kept[s] <= written[s]
                         /\ truncated[s] => kept[s] = Cap /\ written[s] > Cap
    BY DEF OutputIsWhole
  <2>1. CASE reader[s] = "broken"
    BY <2>1 DEF CallIInv, Accounted, ReadPart
  <2>2. CASE reader[s] # "broken"
    <3>1. buffer[s] = 0
      BY <2>2 DEF CallIInv, Drained, Started
    <3>2. Consumed(s) = written[s]
      BY <3>1 DEF CallIInv, CallTypes, Consumed
    <3>. QED
      BY <2>2, <3>2 DEF CallIInv, Accounted, ReadWhole
  <2>. QED
    BY <2>1, <2>2
<1>. QED
  BY <1>1, ExecInvariant, PTL

\* A timeout that reports no failed kill leaves no process of the group that was
\* not sent SIGKILL, whatever was forked, ended or left the group meanwhile (start_kill on the
\* group in spawn_wait_grouped).
THEOREM NoLeaks == CallSpec => []NoLeak
<1>1. CallIInv => NoLeak
  BY DEF CallIInv, Doomed, NoLeak
<1>. QED
  BY <1>1, ExecInvariant, PTL

=============================================================================

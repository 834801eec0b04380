---------------------------- MODULE StreamProofs ----------------------------
(***************************************************************************)
(* Theorems about EventStream, for any number of clients, ledgers, commits *)
(* and failures and any capacity of the queues.                            *)
(***************************************************************************)
EXTENDS EventStream, SequenceTheorems, TLAPS

-----------------------------------------------------------------------------
(* The invariants the proofs need.                                         *)

LedgerTypes ==
    /\ file \in 0..MaxFiles
    /\ commits \in [Files -> 0..MaxCommits]
    /\ writes \in Nat
    /\ faults \in 0..MaxFaults
    /\ server \in {"serving", "grace", "closing", "stopped"}

\* The ledger at the path has a commit: a status read from it is a frame.
Created == file # 0 => commits[file] # 0

Detectors ==
    [pc : {"tick", "build", "send", "stopped"}, conn : 0..MaxFiles,
     last : 0..MaxCommits, loud : BOOLEAN]
DetectorTypes ==
    /\ detector \in Detectors
    /\ detector.conn = 0 <=> detector.loud
    /\ detector.last # 0 => detector.conn # 0
    /\ event \in Frames
    /\ published \in Nat

ClientTypes ==
    /\ client \in [Clients -> {"away", "subscribed", "live", "ended"}]
    /\ noticed \in [Clients -> BOOLEAN]
    /\ lagged \in [Clients -> BOOLEAN]
    /\ shown \in [Clients -> Frames]
    /\ early \in SUBSET Clients

\* Only a stream that is open has a queue, within its capacity.
Queued(c) ==
    /\ Len(queue[c]) <= Capacity
    /\ queue[c] # <<>> \/ lagged[c] => Subscribed(c)
QueueTypes ==
    /\ queue \in [Clients -> Seq(Frames)]
    /\ \A c \in Clients : Queued(c)

\* A broadcast the detector has decided on and not sent yet.
Pending == IF detector.pc \in {"build", "send"} THEN 1 ELSE 0
\* The commits to the connection's file that the detector has not seen, or
\* the first version it will publish once it can read a ledger.
Unseen ==
    IF detector.loud THEN IF file = 0 THEN 0 ELSE 1
    ELSE IF detector.last = 0 THEN 0
    ELSE commits[detector.conn] - detector.last
\* Every broadcast, made or still to come, is paid for by a commit or a
\* failed read; a detector that has no version yet has published nothing.
Paid ==
    /\ published + Pending + Unseen <= writes + faults
    /\ detector.last # 0 => detector.last <= commits[detector.conn]
    /\ ~detector.loud /\ detector.last = 0 => published = 0 /\ Pending = 0

IInv ==
    LedgerTypes /\ Created /\ DetectorTypes /\ ClientTypes /\ QueueTypes /\ Paid

-----------------------------------------------------------------------------
(* Frames and queues.                                                      *)

\* What is built is a frame, whether the ledger could be read or not.
LEMMA BuiltFrame ==
    ASSUME LedgerTypes, Created, NEW frame, Builds(frame)
    PROVE  frame \in Frames /\ faults' \in 0..MaxFaults
<1>1. Status \in Frames
  BY StreamAssumption DEF Status, Frames, Zeros, Unread, Files, LedgerTypes, Created
<1>. QED
  BY <1>1, StreamAssumption DEF Builds, Frames, LedgerTypes

\* A detector without a connection.
LEMMA NoConnection ==
    ASSUME NEW d \in Detectors
    PROVE  [d EXCEPT !.conn = 0, !.last = 0, !.loud = TRUE] \in Detectors
<1>1. 0 \in 0..MaxFiles /\ 0 \in 0..MaxCommits
  BY StreamAssumption
<1>. QED
  BY <1>1 DEF Detectors

\* A full ring drops one entry for the new one.
LEMMA PushedQueue ==
    ASSUME NEW q \in Seq(Frames), Len(q) <= Capacity, event \in Frames
    PROVE  Pushed(q) \in Seq(Frames) /\ Len(Pushed(q)) <= Capacity
<1>1. CASE Len(q) = Capacity
  <2>1. q # <<>>
    BY <1>1, StreamAssumption
  <2>2. Tail(q) \in Seq(Frames) /\ Len(Tail(q)) = Len(q) - 1
    BY <2>1
  <2>. QED
    BY <1>1, <2>2, StreamAssumption DEF Pushed
<1>2. CASE Len(q) # Capacity
  BY <1>2, StreamAssumption DEF Pushed
<1>. QED
  BY <1>1, <1>2

-----------------------------------------------------------------------------
(* Each of them is kept.                                                   *)

\* The ledger at the path always has a commit.
LEMMA LedgerStep == LedgerTypes /\ Created /\ [Next]_vars => (LedgerTypes /\ Created)'
<1> SUFFICES ASSUME LedgerTypes /\ Created, [Next]_vars PROVE (LedgerTypes /\ Created)'
  OBVIOUS
<1> USE StreamAssumption DEF LedgerTypes, Created
<1>1. CASE Commit
  BY <1>1 DEF Commit, database, Files
<1>2. CASE CreateLedger
  BY <1>2 DEF CreateLedger, database, Files
<1>3. CASE Reset
  BY <1>3 DEF Reset, database, Files
<1>4. CASE Tick
  BY <1>4 DEF Tick, database
<1>5. CASE TickFails
  BY <1>5 DEF TickFails, database, Files
<1>6. CASE Build
  BY <1>6 DEF Build, Builds, database
<1>7. CASE Send
  BY <1>7 DEF Send, database
<1>8. CASE DetectorStops
  BY <1>8 DEF DetectorStops, database
<1>9. CASE GraceOver
  BY <1>9 DEF GraceOver, Phase, database, Files
<1>10. CASE ServerStops
  BY <1>10 DEF ServerStops, Phase, database, Files
<1>11. CASE SignalShutdown
  BY <1>11 DEF SignalShutdown, Phase, database, Files
<1>12. ASSUME NEW c \in Clients, Subscribe(c) PROVE (LedgerTypes /\ Created)'
  BY <1>12 DEF Subscribe, database
<1>13. ASSUME NEW c \in Clients, Snapshot(c) PROVE (LedgerTypes /\ Created)'
  BY <1>13 DEF Snapshot, Show, Builds, database
<1>14. ASSUME NEW c \in Clients, Resync(c) PROVE (LedgerTypes /\ Created)'
  BY <1>14 DEF Resync, Show, Builds, database
<1>15. ASSUME NEW c \in Clients, Receive(c) PROVE (LedgerTypes /\ Created)'
  BY <1>15 DEF Receive, database
<1>16. ASSUME NEW c \in Clients, EndStream(c) PROVE (LedgerTypes /\ Created)'
  BY <1>16 DEF EndStream, Leave, database
<1>17. ASSUME NEW c \in Clients, Disconnect(c) PROVE (LedgerTypes /\ Created)'
  BY <1>17 DEF Disconnect, Leave, database
<1>18. CASE UNCHANGED vars
  BY <1>18 DEF vars, database
<1>. QED
  BY <1>1, <1>2, <1>3, <1>4, <1>5, <1>6, <1>7, <1>8, <1>9, <1>10, <1>11, <1>12, <1>13,
     <1>14, <1>15, <1>16, <1>17, <1>18
     DEF Next, Ledger, Detector, Server, Stream

\* The detector has a version only of a connection, and waits in silence only with one.
LEMMA DetectorStep ==
    LedgerTypes /\ Created /\ DetectorTypes /\ [Next]_vars => DetectorTypes'
<1> SUFFICES ASSUME LedgerTypes /\ Created /\ DetectorTypes, [Next]_vars PROVE DetectorTypes'
  OBVIOUS
<1> USE StreamAssumption DEF DetectorTypes, Detectors
<1>1. CASE Commit
  BY <1>1 DEF Commit
<1>2. CASE CreateLedger
  BY <1>2 DEF CreateLedger
<1>3. CASE Reset
  BY <1>3 DEF Reset
<1>4. CASE Tick
  <2>1. Opened \in 1..MaxFiles /\ commits[Opened] \in 0..MaxCommits
    BY <1>4 DEF Tick, Opened, LedgerTypes, Files
  <2>. QED
    BY <1>4, <2>1 DEF Tick
<1>5. CASE TickFails
  <2>1. detector' = [detector EXCEPT !.conn = 0, !.last = 0, !.loud = TRUE]
    BY <1>5 DEF TickFails
  <2>2. event' = event /\ published' = published
    BY <1>5 DEF TickFails
  <2>3. detector'.conn = 0 /\ detector'.last = 0 /\ detector'.loud = TRUE
    BY <2>1
  <2>4. detector' \in Detectors
    BY <2>1, NoConnection DEF Detectors
  <2>. QED
    BY <2>2, <2>3, <2>4
<1>6. CASE Build
  BY <1>6, BuiltFrame DEF Build
<1>7. CASE Send
  BY <1>7 DEF Send
<1>8. CASE DetectorStops
  BY <1>8 DEF DetectorStops
<1>9. CASE GraceOver
  BY <1>9 DEF GraceOver, Phase
<1>10. CASE ServerStops
  BY <1>10 DEF ServerStops, Phase
<1>11. CASE SignalShutdown
  BY <1>11 DEF SignalShutdown, Phase
<1>12. ASSUME NEW c \in Clients, Subscribe(c) PROVE DetectorTypes'
  BY <1>12 DEF Subscribe
<1>13. ASSUME NEW c \in Clients, Snapshot(c) PROVE DetectorTypes'
  BY <1>13 DEF Snapshot
<1>14. ASSUME NEW c \in Clients, Resync(c) PROVE DetectorTypes'
  BY <1>14 DEF Resync
<1>15. ASSUME NEW c \in Clients, Receive(c) PROVE DetectorTypes'
  BY <1>15 DEF Receive
<1>16. ASSUME NEW c \in Clients, EndStream(c) PROVE DetectorTypes'
  BY <1>16 DEF EndStream, Leave
<1>17. ASSUME NEW c \in Clients, Disconnect(c) PROVE DetectorTypes'
  BY <1>17 DEF Disconnect, Leave
<1>18. CASE UNCHANGED vars
  BY <1>18 DEF vars
<1>. QED
  BY <1>1, <1>2, <1>3, <1>4, <1>5, <1>6, <1>7, <1>8, <1>9, <1>10, <1>11, <1>12, <1>13,
     <1>14, <1>15, <1>16, <1>17, <1>18
     DEF Next, Ledger, Detector, Server, Stream

\* Streams show frames.
LEMMA ClientStep ==
    LedgerTypes /\ Created /\ ClientTypes /\ QueueTypes /\ [Next]_vars => ClientTypes'
<1> SUFFICES ASSUME LedgerTypes /\ Created /\ ClientTypes /\ QueueTypes, [Next]_vars PROVE ClientTypes'
  OBVIOUS
<1> USE StreamAssumption DEF ClientTypes
<1>1. CASE Commit
  BY <1>1 DEF Commit, streams
<1>2. CASE CreateLedger
  BY <1>2 DEF CreateLedger, streams
<1>3. CASE Reset
  BY <1>3 DEF Reset, streams
<1>4. CASE Tick
  BY <1>4 DEF Tick, streams
<1>5. CASE TickFails
  BY <1>5 DEF TickFails, streams
<1>6. CASE Build
  BY <1>6 DEF Build, streams
<1>7. CASE Send
  BY <1>7 DEF Send, streams, Subscribed, ShutDown
<1>8. CASE DetectorStops
  BY <1>8 DEF DetectorStops, streams
<1>9. CASE GraceOver
  BY <1>9 DEF GraceOver, Phase, streams
<1>10. CASE ServerStops
  BY <1>10 DEF ServerStops, Phase, streams
<1>11. CASE SignalShutdown
  BY <1>11 DEF SignalShutdown, Phase, streams
<1>12. ASSUME NEW c \in Clients, Subscribe(c) PROVE ClientTypes'
  BY <1>12 DEF Subscribe, streams, Subscribed, ShutDown
<1>13. ASSUME NEW c \in Clients, Snapshot(c) PROVE ClientTypes'
  BY <1>13, BuiltFrame DEF Snapshot, Show
<1>14. ASSUME NEW c \in Clients, Resync(c) PROVE ClientTypes'
  BY <1>14, BuiltFrame DEF Resync, Show
<1>15. ASSUME NEW c \in Clients, Receive(c) PROVE ClientTypes'
  <2>1. Head(queue[c]) \in Frames
    BY <1>15 DEF Receive, QueueTypes
  <2>. QED
    BY <1>15, <2>1 DEF Receive
<1>16. ASSUME NEW c \in Clients, EndStream(c) PROVE ClientTypes'
  BY <1>16 DEF EndStream, Leave, streams, Subscribed, ShutDown
<1>17. ASSUME NEW c \in Clients, Disconnect(c) PROVE ClientTypes'
  BY <1>17 DEF Disconnect, Leave, streams, Subscribed, ShutDown
<1>18. CASE UNCHANGED vars
  BY <1>18 DEF vars, streams
<1>. QED
  BY <1>1, <1>2, <1>3, <1>4, <1>5, <1>6, <1>7, <1>8, <1>9, <1>10, <1>11, <1>12, <1>13,
     <1>14, <1>15, <1>16, <1>17, <1>18
     DEF Next, Ledger, Detector, Server, Stream

\* Queues keep to the capacity, and close with their stream.
LEMMA QueueStep == DetectorTypes /\ ClientTypes /\ QueueTypes /\ [Next]_vars => QueueTypes'
<1> SUFFICES ASSUME DetectorTypes /\ ClientTypes /\ QueueTypes, [Next]_vars PROVE QueueTypes'
  OBVIOUS
<1> USE StreamAssumption DEF QueueTypes
<1>1. CASE Commit
  BY <1>1 DEF Commit, streams, Queued, Subscribed, ClientTypes
<1>2. CASE CreateLedger
  BY <1>2 DEF CreateLedger, streams, Queued, Subscribed, ClientTypes
<1>3. CASE Reset
  BY <1>3 DEF Reset, streams, Queued, Subscribed, ClientTypes
<1>4. CASE Tick
  BY <1>4 DEF Tick, streams, Queued, Subscribed, ClientTypes
<1>5. CASE TickFails
  BY <1>5 DEF TickFails, streams, Queued, Subscribed, ClientTypes
<1>6. CASE Build
  BY <1>6 DEF Build, streams, Queued, Subscribed, ClientTypes
<1>7. CASE Send
  <2>1. \A c \in Clients : Pushed(queue[c]) \in Seq(Frames) /\ Len(Pushed(queue[c])) <= Capacity
    BY PushedQueue DEF DetectorTypes, Queued
  <2>2. /\ queue' = [c \in Clients |-> IF Subscribed(c) THEN Pushed(queue[c]) ELSE <<>>]
        /\ lagged' = [c \in Clients |->
                        lagged[c] \/ (Subscribed(c) /\ Len(queue[c]) = Capacity)]
        /\ client' = client
    BY <1>7 DEF Send
  <2>. QED
    BY <2>1, <2>2 DEF Queued, Subscribed
<1>8. CASE DetectorStops
  BY <1>8 DEF DetectorStops, streams, Queued, Subscribed, ClientTypes
<1>9. CASE GraceOver
  BY <1>9 DEF GraceOver, Phase, streams, Queued, Subscribed, ClientTypes
<1>10. CASE ServerStops
  BY <1>10 DEF ServerStops, Phase, streams, Queued, Subscribed, ClientTypes
<1>11. CASE SignalShutdown
  BY <1>11 DEF SignalShutdown, Phase, streams, Queued, Subscribed, ClientTypes
<1>12. ASSUME NEW c \in Clients, Subscribe(c) PROVE QueueTypes'
  BY <1>12 DEF Subscribe, streams, Queued, Subscribed, ClientTypes
<1>13. ASSUME NEW c \in Clients, Snapshot(c) PROVE QueueTypes'
  BY <1>13 DEF Snapshot, streams, Queued, Subscribed, ClientTypes
<1>14. ASSUME NEW c \in Clients, Resync(c) PROVE QueueTypes'
  BY <1>14 DEF Resync, streams, Queued, Subscribed, ClientTypes
<1>15. ASSUME NEW c \in Clients, Receive(c) PROVE QueueTypes'
  <2>1. Tail(queue[c]) \in Seq(Frames) /\ Len(Tail(queue[c])) <= Capacity /\ Subscribed(c)
    BY <1>15 DEF Receive, Queued, Subscribed
  <2>. QED
    BY <1>15, <2>1 DEF Receive, Queued, Subscribed
<1>16. ASSUME NEW c \in Clients, EndStream(c) PROVE QueueTypes'
  BY <1>16 DEF EndStream, Leave, streams, Queued, Subscribed, ClientTypes
<1>17. ASSUME NEW c \in Clients, Disconnect(c) PROVE QueueTypes'
  BY <1>17 DEF Disconnect, Leave, streams, Queued, Subscribed, ClientTypes
<1>18. CASE UNCHANGED vars
  BY <1>18 DEF vars, streams, Queued, Subscribed, ClientTypes
<1>. QED
  BY <1>1, <1>2, <1>3, <1>4, <1>5, <1>6, <1>7, <1>8, <1>9, <1>10, <1>11, <1>12, <1>13,
     <1>14, <1>15, <1>16, <1>17, <1>18
     DEF Next, Ledger, Detector, Server, Stream

\* The numbers Paid is about.
LEMMA Numbers ==
    ASSUME LedgerTypes, DetectorTypes
    PROVE  /\ file \in Nat /\ detector.conn \in Nat /\ detector.last \in Nat
           /\ writes \in Nat /\ faults \in Nat /\ published \in Nat
           /\ \A f \in Files : commits[f] \in Nat
           /\ detector.conn # 0 => detector.conn \in Files
           /\ file # 0 => file \in Files
<1>1. file \in 0..MaxFiles /\ faults \in 0..MaxFaults /\ writes \in Nat
  BY DEF LedgerTypes
<1>2. \A f \in Files : commits[f] \in 0..MaxCommits
  BY DEF LedgerTypes
<1>3. detector.conn \in 0..MaxFiles /\ detector.last \in 0..MaxCommits /\ published \in Nat
  BY DEF DetectorTypes, Detectors
<1>. QED
  BY <1>1, <1>2, <1>3, StreamAssumption DEF Files

\* A commit is one broadcast more at most.
LEMMA WritesPay ==
    ASSUME LedgerTypes, Created, DetectorTypes, Paid, Ledger
    PROVE  Paid'
<1>. /\ file \in Nat /\ detector.conn \in Nat /\ detector.last \in Nat
     /\ writes \in Nat /\ faults \in Nat /\ published \in Nat
     /\ \A f \in Files : commits[f] \in Nat
     /\ detector.conn # 0 => detector.conn \in Files
     /\ file # 0 => file \in Files
     /\ detector.conn = 0 <=> detector.loud
     /\ detector.last # 0 => detector.conn # 0
     /\ commits \in [Files -> 0..MaxCommits]
  BY Numbers DEF DetectorTypes, LedgerTypes
<1>. USE DEF Paid, Pending, Unseen
<1>1. CASE Commit
  <2>1. \A f \in Files : commits'[f] = IF f = file THEN commits[f] + 1 ELSE commits[f]
    BY <1>1 DEF Commit
  <2>. QED
    BY <1>1, <2>1 DEF Commit
<1>2. CASE CreateLedger
  <2>1. PICK f \in Files : commits[f] = 0 /\ file' = f /\ commits' = [commits EXCEPT ![f] = 1]
    BY <1>2 DEF CreateLedger
  <2>2. \A g \in Files : commits'[g] = IF g = f THEN 1 ELSE commits[g]
    BY <2>1
  <2>3. file = 0 /\ f # 0
    BY <1>2, StreamAssumption DEF CreateLedger, Files
  <2>. QED
    BY <1>2, <2>1, <2>2, <2>3 DEF CreateLedger
<1>3. CASE Reset
  BY <1>3 DEF Reset
<1>. QED
  BY <1>1, <1>2, <1>3 DEF Ledger

\* The detector broadcasts only what a commit or a failed read has paid for.
LEMMA DetectorPays ==
    ASSUME LedgerTypes, Created, DetectorTypes, Paid, Detector
    PROVE  Paid'
<1>. /\ file \in Nat /\ detector.conn \in Nat /\ detector.last \in Nat
     /\ writes \in Nat /\ faults \in Nat /\ published \in Nat
     /\ \A f \in Files : commits[f] \in Nat
     /\ detector.conn # 0 => detector.conn \in Files
     /\ file # 0 => file \in Files
     /\ detector.conn = 0 <=> detector.loud
     /\ detector.last # 0 => detector.conn # 0
     /\ detector \in Detectors
  BY Numbers DEF DetectorTypes, LedgerTypes
<1>. USE DEF Paid, Pending, Unseen
<1>1. CASE Tick
  <2>. DEFINE version == commits[Opened]
              news == IF detector.last = 0 THEN detector.loud ELSE detector.last # version
  <2>1. /\ detector.pc = "tick" /\ Opened # 0
        /\ detector' = [pc |-> IF news THEN "build" ELSE "tick", conn |-> Opened,
                        last |-> version, loud |-> FALSE]
        /\ file' = file /\ commits' = commits /\ writes' = writes
        /\ faults' = faults /\ published' = published
    BY <1>1 DEF Tick, database
  <2>2. /\ detector'.pc = (IF news THEN "build" ELSE "tick")
        /\ detector'.conn = Opened /\ detector'.last = version /\ detector'.loud = FALSE
    BY <2>1
  <2>3. Opened \in Files /\ version \in Nat
    BY <2>1 DEF Opened
  <2>4. CASE detector.loud
    <3>1. Opened = file /\ version # 0 /\ detector.last = 0
      BY <2>1, <2>4 DEF Opened, Created
    <3>. QED
      BY <2>1, <2>2, <2>3, <2>4, <3>1
  <2>5. CASE ~detector.loud
    <3>1. Opened = detector.conn
      BY <2>5 DEF Opened
    <3>2. CASE detector.last = 0
      <4>1. published = 0 /\ ~news
        BY <2>5, <3>2
      <4>. HIDE DEF news, version
      <4>. QED
        BY <2>1, <2>2, <2>3, <4>1 DEF version
    <3>3. CASE detector.last # 0 /\ detector.last = version
      BY <2>1, <2>2, <2>3, <2>5, <3>1, <3>3
    <3>4. CASE detector.last # 0 /\ detector.last # version
      BY <2>1, <2>2, <2>3, <2>5, <3>1, <3>4
    <3>. QED
      BY <3>2, <3>3, <3>4
  <2>. QED
    BY <2>4, <2>5
<1>2. CASE TickFails
  <2>1. /\ detector.pc = "tick" /\ file' = file /\ commits' = commits /\ writes' = writes
        /\ published' = published
        /\ detector' = [detector EXCEPT !.conn = 0, !.last = 0, !.loud = TRUE]
        /\ \/ Opened = 0 /\ faults' = faults
           \/ Opened # 0 /\ faults' = faults + 1
    BY <1>2 DEF TickFails, database
  <2>2. detector'.pc = "tick" /\ detector'.conn = 0 /\ detector'.last = 0 /\ detector'.loud = TRUE
    BY <2>1 DEF Detectors
  <2>3. Unseen \in Nat
    OBVIOUS
  <2>4. Opened = 0 => file = 0 /\ detector.conn = 0
    BY DEF Opened
  <2>. QED
    BY <2>1, <2>2, <2>3, <2>4
<1>3. CASE Build
  <2>1. /\ detector.pc = "build" /\ detector' = [detector EXCEPT !.pc = "send"]
        /\ file' = file /\ commits' = commits /\ writes' = writes /\ published' = published
        /\ faults' = faults \/ faults' = faults + 1
    BY <1>3 DEF Build, Builds, database
  <2>2. detector'.pc = "send" /\ detector'.conn = detector.conn
        /\ detector'.last = detector.last /\ detector'.loud = detector.loud
    BY <2>1 DEF Detectors
  <2>. QED
    BY <2>1, <2>2
<1>4. CASE Send
  <2>1. /\ detector.pc = "send" /\ detector' = [detector EXCEPT !.pc = "tick"]
        /\ file' = file /\ commits' = commits /\ writes' = writes /\ faults' = faults
        /\ published' = published + 1
    BY <1>4 DEF Send, database
  <2>2. detector'.pc = "tick" /\ detector'.conn = detector.conn
        /\ detector'.last = detector.last /\ detector'.loud = detector.loud
    BY <2>1 DEF Detectors
  <2>. QED
    BY <2>1, <2>2
<1>5. CASE DetectorStops
  <2>1. /\ detector.pc = "tick" /\ detector' = [detector EXCEPT !.pc = "stopped"]
        /\ file' = file /\ commits' = commits /\ writes' = writes /\ faults' = faults
        /\ published' = published
    BY <1>5 DEF DetectorStops, database
  <2>2. detector'.pc = "stopped" /\ detector'.conn = detector.conn
        /\ detector'.last = detector.last /\ detector'.loud = detector.loud
    BY <2>1 DEF Detectors
  <2>. QED
    BY <2>1, <2>2
<1>. QED
  BY <1>1, <1>2, <1>3, <1>4, <1>5 DEF Detector

\* Clients and the server neither commit nor broadcast; a status that they
\* cannot read is a failed read more.
LEMMA StreamsPay ==
    ASSUME LedgerTypes, DetectorTypes, Paid, UNCHANGED <<database, detector, published>>,
           faults' = faults \/ faults' = faults + 1
    PROVE  Paid'
<1>. USE Numbers
<1>1. file' = file /\ commits' = commits /\ writes' = writes
  BY DEF database
<1>2. Pending \in Nat /\ Unseen' = Unseen /\ Pending' = Pending /\ Unseen \in Int
  BY <1>1 DEF Pending, Unseen, Paid, DetectorTypes
<1>. QED
  BY <1>1, <1>2 DEF Paid

\* No step broadcasts more than was written or failed to be read.
LEMMA PaidStep ==
    LedgerTypes /\ Created /\ DetectorTypes /\ Paid /\ [Next]_vars => Paid'
<1> SUFFICES ASSUME LedgerTypes, Created, DetectorTypes, Paid, [Next]_vars PROVE Paid'
  OBVIOUS
<1>1. CASE Ledger
  BY <1>1, WritesPay
<1>2. CASE Detector
  BY <1>2, DetectorPays
<1>3. CASE Server \/ SignalShutdown
  BY <1>3, StreamsPay DEF Server, SignalShutdown, GraceOver, ServerStops, Phase
<1>4. ASSUME NEW c \in Clients, Subscribe(c) \/ Stream(c) \/ Disconnect(c) PROVE Paid'
  BY <1>4, StreamsPay
     DEF Subscribe, Stream, Disconnect, Snapshot, Resync, Show, Receive, EndStream, Leave, Builds
<1>5. CASE UNCHANGED vars
  BY <1>5, StreamsPay DEF vars
<1>. QED
  BY <1>1, <1>2, <1>3, <1>4, <1>5 DEF Next

\* Every part of the invariant holds at the start.
LEMMA StreamInit == Init => IInv
<1> SUFFICES ASSUME Init PROVE IInv
  OBVIOUS
<1> USE StreamAssumption DEF Init, Frames, Zeros, Files
<1>1. LedgerTypes /\ Created
  BY DEF LedgerTypes, Created
<1>2. DetectorTypes
  <2>1. PICK conn \in {0, file} :
           detector = [pc |-> "tick", conn |-> conn, last |-> 0, loud |-> conn = 0]
    OBVIOUS
  <2>2. conn \in 0..MaxFiles /\ (conn = 0) \in BOOLEAN
    OBVIOUS
  <2>3. detector.conn = conn /\ detector.last = 0 /\ (detector.loud <=> conn = 0)
    BY <2>1
  <2>4. detector \in Detectors
    BY <2>1, <2>2 DEF Detectors
  <2>5. event \in Frames /\ published \in Nat
    OBVIOUS
  <2>. QED
    BY <2>3, <2>4, <2>5 DEF DetectorTypes
<1>3. ClientTypes
  BY DEF ClientTypes
<1>4. QueueTypes
  BY DEF QueueTypes, Queued
<1>5. Paid
  <2>1. PICK conn \in {0, file} :
           detector = [pc |-> "tick", conn |-> conn, last |-> 0, loud |-> conn = 0]
    OBVIOUS
  <2>2. /\ detector.pc = "tick" /\ detector.conn = conn /\ detector.last = 0
        /\ detector.loud <=> conn = 0
    BY <2>1
  <2>3. /\ writes = 0 /\ published = 0 /\ file \in {0, 1}
        /\ faults = IF detector.conn = file THEN 0 ELSE 1
    OBVIOUS
  <2>4. Pending = 0 /\ Unseen \in 0..faults
    BY <2>2, <2>3 DEF Pending, Unseen
  <2>. QED
    BY <2>2, <2>3, <2>4 DEF Paid
<1>. QED
  BY <1>1, <1>2, <1>3, <1>4, <1>5 DEF IInv

\* The whole invariant is inductive.
LEMMA StreamInvariant == Spec => []IInv
<1>1. Init => IInv
  BY StreamInit
<1>2. IInv /\ [Next]_vars => IInv'
  BY LedgerStep, DetectorStep, ClientStep, QueueStep, PaidStep DEF IInv
<1>. QED
  BY <1>1, <1>2, PTL DEF Spec

\* The detector, the queues and the streams keep their types and the
\* capacity, however ledgers come and go and clients come and leave
\* (spawn_change_detector, events_handler).
THEOREM StreamTypeCorrect == Spec => []TypeOK
<1>1. IInv => TypeOK
  BY DEF IInv, LedgerTypes, Detectors, DetectorTypes, ClientTypes, QueueTypes, Queued,
     TypeOK
<1>. QED
  BY <1>1, StreamInvariant, PTL

\* There are never more broadcasts than commits since the start and failed reads, however
\* often the detector looks, reconnects or finds another ledger at the path
\* (spawn_change_detector).
THEOREM FramesArePaidFor == Spec => []NoSpuriousFrames
<1>1. IInv => NoSpuriousFrames
  <2> SUFFICES ASSUME IInv PROVE published <= writes + faults
    BY DEF NoSpuriousFrames
  <2>1. LedgerTypes /\ DetectorTypes /\ Paid
    BY DEF IInv
  <2>2. Pending \in Nat /\ Unseen \in Nat
    BY <2>1, Numbers DEF Pending, Unseen, Paid, DetectorTypes
  <2>. QED
    BY <2>1, <2>2, Numbers DEF Paid
<1>. QED
  BY <1>1, StreamInvariant, PTL
=============================================================================

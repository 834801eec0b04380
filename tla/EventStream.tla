---------------------------- MODULE EventStream ----------------------------
(***************************************************************************)
(* The event stream of the web server, GET /api/events.                    *)
(*                                                                         *)
(* A detector polls the ledger through one connection that it keeps; when  *)
(* the database has changed it builds a status and broadcasts it.  Each    *)
(* client gets the status as its stream starts and every broadcast after   *)
(* it subscribed, through a queue that drops its oldest entries when it is *)
(* full.  Other processes commit to the ledger, remove it and create it    *)
(* anew at any time.  A status is told by the file it was read from and    *)
(* the number of commits to it.                                            *)
(***************************************************************************)
EXTENDS Naturals, Sequences

CONSTANTS
    Clients,
    Capacity,       \* EVENT_BROADCAST_CAPACITY
    MaxFiles,       \* bound on the ledgers created one after the other
    MaxCommits,     \* bound on the commits to one of them
    MaxFaults       \* bound on reads that fail

ASSUME StreamAssumption ==
    /\ Capacity \in Nat \ {0} /\ MaxFiles \in Nat \ {0}
    /\ MaxCommits \in Nat \ {0} /\ MaxFaults \in Nat

VARIABLES
    file,       \* the ledger.db at the path, 0 when there is none
    commits,    \* commits to each file, 0 before it is created
    writes,     \* history: commits since the start, for NoSpuriousFrames
    faults,     \* reads that failed
    server,     \* life of the server
    detector,   \* control, connection, last_version, publish_on_next_baseline
    event,      \* the status about to be broadcast
    published,  \* number of broadcasts
    client,     \* phase of each client's stream
    noticed,    \* its shutdown receiver has seen the current value
    queue,      \* broadcasts it has still to receive
    lagged,     \* it has lost some
    shown,      \* the last frame it got
    early       \* history: streams whose last frame is older than the first
                \* version, and the detector took that one in silence

database == <<file, commits, writes>>
streams == <<client, noticed, queue, lagged, shown, early>>
vars == <<database, faults, server, detector, event, published, streams>>

Files == 1..MaxFiles
\* No ledger, and one that could not be read: a client cannot tell them apart.
Zeros == <<0, 0>>
Unread == <<0, 1>>
Frames == {Zeros, Unread} \cup (Files \X (1..MaxCommits))
ShutDown == server # "serving"
Subscribed(c) == client[c] \in {"subscribed", "live"}

\* build_daemon_event: what cannot be read counts as zero.
Status == IF file = 0 THEN Zeros ELSE <<file, commits[file]>>
Builds(frame) ==
    \/ frame = Status /\ UNCHANGED faults
    \/ frame = Unread /\ faults < MaxFaults /\ faults' = faults + 1

-----------------------------------------------------------------------------
Init ==
    /\ file \in {0, 1}
    /\ commits = [f \in Files |-> IF f = file THEN 1 ELSE 0]
    /\ writes = 0
    /\ server = "serving"
    /\ \E conn \in {0, file} :
          /\ detector = [pc |-> "tick", conn |-> conn, last |-> 0, loud |-> conn = 0]
          /\ faults = IF conn = file THEN 0 ELSE 1
    /\ faults <= MaxFaults
    /\ event = Zeros
    /\ published = 0
    /\ client = [c \in Clients |-> "away"]
    /\ noticed = [c \in Clients |-> FALSE]
    /\ queue = [c \in Clients |-> <<>>]
    /\ lagged = [c \in Clients |-> FALSE]
    /\ shown = [c \in Clients |-> Zeros]
    /\ early = {}

-----------------------------------------------------------------------------
(* Other processes.                                                        *)

Commit ==
    /\ file # 0 /\ commits[file] < MaxCommits
    /\ commits' = [commits EXCEPT ![file] = @ + 1]
    /\ writes' = writes + 1
    /\ UNCHANGED <<file, faults, server, detector, event, published, streams>>

\* The first command after a reset.
CreateLedger ==
    /\ file = 0
    /\ \E f \in Files :
          /\ commits[f] = 0 /\ \A g \in 1..(f - 1) : commits[g] > 0
          /\ file' = f
          /\ commits' = [commits EXCEPT ![f] = 1]
    /\ writes' = writes + 1
    /\ UNCHANGED <<faults, server, detector, event, published, streams>>

\* reset --include-ledger removes the file under the detector's connection.
Reset ==
    /\ file # 0
    /\ file' = 0
    /\ UNCHANGED <<commits, writes, faults, server, detector, event, published, streams>>

-----------------------------------------------------------------------------
(* The detector: spawn_change_detector.                                    *)

Opened == IF detector.conn = 0 THEN file ELSE detector.conn

\* Mutant of Tick: an unchanged version is published, too.
TickAlways ==
    /\ detector.pc = "tick" /\ ~ShutDown
    /\ Opened # 0
    /\ detector' = [pc   |-> IF detector.last # 0 \/ detector.loud THEN "build" ELSE "tick",
                    conn |-> Opened, last |-> commits[Opened], loud |-> FALSE]
    /\ early' = IF detector'.pc = "build" THEN {} ELSE early
    /\ UNCHANGED <<database, faults, server, event, published>>
    /\ UNCHANGED <<client, noticed, queue, lagged, shown>>

\* The first version is taken in silence, or published when the ledger was
\* not readable before; a later one is published when it differs.
Tick ==
    /\ detector.pc = "tick" /\ ~ShutDown
    /\ Opened # 0
    /\ LET version == commits[Opened]
           news == IF detector.last = 0 THEN detector.loud ELSE detector.last # version
       IN /\ detector' = [pc   |-> IF news THEN "build" ELSE "tick",
                          conn |-> Opened,
                          last |-> version,
                          loud |-> FALSE]
          /\ early' = IF news THEN {} ELSE early
    /\ UNCHANGED <<database, faults, server, event, published>>
    /\ UNCHANGED <<client, noticed, queue, lagged, shown>>

\* Mutant of TickFails: the first version after a failure is silent.
TickFailsSilently ==
    /\ detector.pc = "tick" /\ ~ShutDown
    /\ \/ Opened = 0 /\ UNCHANGED faults
       \/ Opened # 0 /\ faults < MaxFaults /\ faults' = faults + 1
    /\ detector' = [detector EXCEPT !.conn = 0, !.last = 0]
    /\ early' = {}
    /\ UNCHANGED <<database, server, event, published, client, noticed, queue, lagged, shown>>

\* No ledger, or one that cannot be read.
TickFails ==
    /\ detector.pc = "tick" /\ ~ShutDown
    /\ \/ Opened = 0 /\ UNCHANGED faults
       \/ Opened # 0 /\ faults < MaxFaults /\ faults' = faults + 1
    /\ detector' = [detector EXCEPT !.conn = 0, !.last = 0, !.loud = TRUE]
    /\ early' = {}
    /\ UNCHANGED <<database, server, event, published, client, noticed, queue, lagged, shown>>

Build ==
    /\ detector.pc = "build"
    /\ Builds(event')
    /\ detector' = [detector EXCEPT !.pc = "send"]
    /\ UNCHANGED <<database, server, published, streams>>

\* Mutant of Pushed: the queue grows without limit.
PushedUnbounded(q) == Append(q, event)

\* The ring drops its oldest entry.
Pushed(q) == Append(IF Len(q) = Capacity THEN Tail(q) ELSE q, event)

Send ==
    /\ detector.pc = "send"
    /\ detector' = [detector EXCEPT !.pc = "tick"]
    /\ published' = published + 1
    /\ queue' = [c \in Clients |-> IF Subscribed(c) THEN Pushed(queue[c]) ELSE <<>>]
    /\ lagged' = [c \in Clients |->
                    lagged[c] \/ (Subscribed(c) /\ Len(queue[c]) = Capacity)]
    /\ UNCHANGED <<database, faults, server, event, client, noticed, shown, early>>

DetectorStops ==
    /\ detector.pc = "tick" /\ ShutDown
    /\ detector' = [detector EXCEPT !.pc = "stopped"]
    /\ UNCHANGED <<database, faults, server, event, published, streams>>

-----------------------------------------------------------------------------
(* The streams: events_handler.                                            *)

\* A shutdown receiver made after the signal takes it as seen.
Subscribe(c) ==
    /\ client[c] = "away" /\ server \in {"serving", "grace"}
    /\ client' = [client EXCEPT ![c] = "subscribed"]
    /\ noticed' = [noticed EXCEPT ![c] = ShutDown]
    /\ queue' = [queue EXCEPT ![c] = <<>>]
    /\ lagged' = [lagged EXCEPT ![c] = FALSE]
    /\ UNCHANGED <<database, faults, server, detector, event, published, shown, early>>

\* A frame is built and sent to the stream.
Show(c) ==
    /\ \E frame \in Frames : Builds(frame) /\ shown' = [shown EXCEPT ![c] = frame]
    /\ early' = IF detector.last = 0 /\ ~detector.loud THEN early \cup {c} ELSE early \ {c}

\* Mutant of Snapshot: the flag is not looked at.
SnapshotUnchecked(c) ==
    /\ client[c] = "subscribed"
    /\ client' = [client EXCEPT ![c] = "live"]
    /\ Show(c)
    /\ UNCHANGED <<database, server, detector, event, published, noticed, queue, lagged>>

\* The first frame, unless the server is shutting down.
Snapshot(c) ==
    /\ client[c] = "subscribed" /\ ~ShutDown
    /\ client' = [client EXCEPT ![c] = "live"]
    /\ Show(c)
    /\ UNCHANGED <<database, server, detector, event, published, noticed, queue, lagged>>

\* A client that lagged gets a fresh status, and then what is left in its
\* queue.
Resync(c) ==
    /\ client[c] = "live" /\ lagged[c]
    /\ lagged' = [lagged EXCEPT ![c] = FALSE]
    /\ Show(c)
    /\ UNCHANGED <<database, server, detector, event, published, client, noticed, queue>>

Receive(c) ==
    /\ client[c] = "live" /\ ~lagged[c] /\ queue[c] # <<>>
    /\ shown' = [shown EXCEPT ![c] = Head(queue[c])]
    /\ queue' = [queue EXCEPT ![c] = Tail(@)]
    /\ early' = early \ {c}
    /\ UNCHANGED <<database, faults, server, detector, event, published, client, noticed, lagged>>

Leave(c, phase) ==
    /\ client' = [client EXCEPT ![c] = phase]
    /\ queue' = [queue EXCEPT ![c] = <<>>]
    /\ lagged' = [lagged EXCEPT ![c] = FALSE]
    /\ UNCHANGED <<database, faults, server, detector, event, published, noticed, shown, early>>

\* The signal ends a stream that has not started, and one that has not seen
\* the signal yet.
EndStream(c) ==
    /\ ShutDown
    /\ client[c] = "subscribed" \/ (client[c] = "live" /\ ~noticed[c])
    /\ Leave(c, "ended")

Disconnect(c) == Subscribed(c) /\ Leave(c, "away")

-----------------------------------------------------------------------------
(* The server: serve_listener.                                             *)

Phase(from, to) ==
    /\ server = from /\ server' = to
    /\ UNCHANGED <<database, faults, detector, event, published, streams>>

\* Ctrl+C, 150 ms in which connections are still accepted, and the wait for
\* the open ones.
SignalShutdown == Phase("serving", "grace")
GraceOver == Phase("grace", "closing")
ServerStops == Phase("closing", "stopped") /\ \A c \in Clients : ~Subscribed(c)

-----------------------------------------------------------------------------
Ledger == Commit \/ CreateLedger \/ Reset
Detector == Tick \/ TickFails \/ Build \/ Send \/ DetectorStops
Stream(c) == Snapshot(c) \/ Resync(c) \/ Receive(c) \/ EndStream(c)
Server == GraceOver \/ ServerStops

Next ==
    \/ Ledger \/ Detector \/ Server \/ SignalShutdown
    \/ \E c \in Clients : Subscribe(c) \/ Stream(c) \/ Disconnect(c)

Spec == Init /\ [][Next]_vars

\* The tasks of the runtime go on; no client has to connect or to leave, no
\* process has to commit, and nobody has to press Ctrl+C.
FairSpec ==
    /\ Spec
    /\ WF_vars(Detector) /\ WF_vars(Server)
    /\ \A c \in Clients : WF_vars(Stream(c))

-----------------------------------------------------------------------------
(* Properties.                                                             *)

\* Every variable has a value of its type.  The detector has a version only
\* of a connection, and waits in silence only if it has one; queues keep to
\* the capacity, and only a stream that is open has one.
TypeOK ==
    /\ file \in 0..MaxFiles
    /\ commits \in [Files -> 0..MaxCommits]
    /\ writes \in Nat
    /\ faults \in 0..MaxFaults
    /\ server \in {"serving", "grace", "closing", "stopped"}
    /\ detector \in [pc : {"tick", "build", "send", "stopped"}, conn : 0..MaxFiles,
                     last : 0..MaxCommits, loud : BOOLEAN]
    /\ detector.conn = 0 <=> detector.loud
    /\ detector.last # 0 => detector.conn # 0
    /\ event \in Frames
    /\ published \in Nat
    /\ client \in [Clients -> {"away", "subscribed", "live", "ended"}]
    /\ noticed \in [Clients -> BOOLEAN]
    /\ queue \in [Clients -> Seq(Frames)]
    /\ \A c \in Clients :
          /\ Len(queue[c]) <= Capacity
          /\ queue[c] # <<>> \/ lagged[c] => Subscribed(c)
    /\ lagged \in [Clients -> BOOLEAN]
    /\ shown \in [Clients -> Frames]
    /\ early \in SUBSET Clients

\* "no second data: frame without ledger writes": there are never more
\* broadcasts than commits since the start and failed reads, however often the
\* detector looks; a ledger it finds as it starts is none
\* (spawn_change_detector, its baseline, test_events_idle_..._dod5).
NoSpuriousFrames == published <= writes + faults

\* There is no ledger, or the detector's connection is to one that was removed.
Blind == file = 0 \/ detector.conn \notin {0, file}
\* The stream's frame was built before the detector took its first version in
\* silence, and there was no other version since.
Cold(c) == c \in early /\ detector.last # 0 /\ detector.last = commits[detector.conn]
\* The last frame is the one of a status that could not be read.
Misread(c) == shown[c] = Unread

\* A stream that stays open shows the current status again and again: no
\* commit is lost between the first frame and the subscription, between two
\* ticks, in a full queue or while the ledger could not be read.  Excepted
\* are a removed ledger, a stream that began before the detector's first tick
\* until the first commit after it, and one whose last status could not be read
\* (events_handler and spawn_change_detector).
CatchesUp ==
    \A c \in Clients :
        []<>(client[c] # "live" \/ ShutDown \/ shown[c] = Status
             \/ Blind \/ Cold(c) \/ Misread(c))

\* Graceful shutdown does not hang on an open stream, not even on one that
\* was opened after the signal
\* (test_events_graceful_shutdown_with_live_stream_dod6).
ShutdownCompletes == ShutDown ~> (server = "stopped" /\ detector.pc = "stopped")
=============================================================================

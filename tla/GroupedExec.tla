---------------------------- MODULE GroupedExec ----------------------------
(***************************************************************************)
(* One call of spawn_wait_grouped or spawn_wait_grouped_captured.          *)
(*                                                                         *)
(* The command is the leader of a process group.  It may fork descendants, *)
(* which inherit its output pipes, may redirect them and may leave the     *)
(* group.  One thread per pipe reads until no process holds it, or until a *)
(* read fails.  The caller waits for the command alone, up to a timeout;   *)
(* then it waits a grace period for the rest of the group, or kills the    *)
(* group; at the end it joins the readers.  Each of these calls may fail.  *)
(* Bytes are counted, not kept.                                            *)
(***************************************************************************)
EXTENDS Naturals, FiniteSets

CONSTANTS
    Descendants,    \* processes the command may fork
    Streams,        \* stdout and stderr
    Cap,            \* max_output_bytes
    PipeSize,       \* capacity of a pipe
    MaxOutput,      \* bound on what the command writes to one stream
    MaxFailures     \* bound on reads, waits and kills that fail

ASSUME ExecAssumption ==
    /\ "command" \notin Descendants
    /\ Cap \in Nat /\ PipeSize \in Nat \ {0}
    /\ MaxOutput \in Nat /\ MaxFailures \in Nat

VARIABLES
    pc,         \* of the caller
    captured,   \* the variant with pipes
    outcome,    \* what the call returns
    proc,       \* state of every process
    group,      \* processes in the group
    holders,    \* processes that hold the pipes
    doomed,     \* processes sent SIGKILL
    todo,       \* what the command still has to write to each stream
    written,    \* what it has written
    buffer,     \* bytes in each pipe
    kept,       \* bytes each reader keeps
    truncated,  \* a reader has seen more than it keeps
    reader      \* state of each reader

output == <<todo, written, buffer, kept, truncated>>
callVars == <<pc, captured, outcome, proc, group, holders, doomed, output, reader>>

Processes == {"command"} \cup Descendants
Running(p) == proc[p] = "running"
Holds(p) == p \in holders /\ Running(p)

\* A thread reads the pipe of s; one that gave up has closed it.
Open(s) == reader[s] = "reading"
Blocked == \E s \in Streams : Open(s) /\ todo[s] > 0 /\ buffer[s] = PipeSize

\* One more read, wait or kill may fail.
MayFail ==
    LET failed == {s \in Streams : reader[s] = "broken"} \cup ({outcome} \cap {"notKilled", "notWaited"})
    IN  Cardinality(failed) < MaxFailures

-----------------------------------------------------------------------------
CallInit ==
    /\ pc = "spawn"
    /\ captured \in BOOLEAN
    /\ outcome = "none"
    /\ proc = [p \in Processes |-> "none"]
    /\ group = {}
    /\ holders = {}
    /\ doomed = {}
    /\ todo \in [Streams -> 0..MaxOutput]
    /\ written = [s \in Streams |-> 0]
    /\ buffer = [s \in Streams |-> 0]
    /\ kept = [s \in Streams |-> 0]
    /\ truncated = [s \in Streams |-> FALSE]
    /\ reader = [s \in Streams |-> "none"]

-----------------------------------------------------------------------------
(* The command and its descendants.                                        *)

\* The command writes to any of its streams; a full pipe blocks it, and a
\* write to a closed one fails.
Write(s) ==
    /\ Running("command") /\ todo[s] > 0
    /\ captured => Open(s) /\ buffer[s] < PipeSize
    /\ todo' = [todo EXCEPT ![s] = @ - 1]
    /\ written' = [written EXCEPT ![s] = @ + 1]
    /\ buffer' = [buffer EXCEPT ![s] = IF captured THEN @ + 1 ELSE @]
    /\ UNCHANGED <<pc, captured, outcome, proc, group, holders, doomed, kept, truncated, reader>>

Fork(d) ==
    /\ proc[d] = "none"
    /\ \E p \in Processes :
          /\ Running(p) /\ p \notin doomed
          /\ group' = IF p \in group THEN group \cup {d} ELSE group
          /\ holders' = IF p \in holders THEN holders \cup {d} ELSE holders
    /\ proc' = [proc EXCEPT ![d] = "running"]
    /\ UNCHANGED <<pc, captured, outcome, doomed, output, reader>>

\* Its output is redirected.
Redirect(d) ==
    /\ Holds(d) /\ d \notin doomed
    /\ holders' = holders \ {d}
    /\ UNCHANGED <<pc, captured, outcome, proc, group, doomed, output, reader>>

\* setsid.
Leave(d) ==
    /\ Running(d) /\ d \in group \ doomed
    /\ group' = group \ {d}
    /\ UNCHANGED <<pc, captured, outcome, proc, holders, doomed, output, reader>>

\* The command ends with status 0 after all the output it could write, or
\* fails early.
CommandExit(status) ==
    /\ Running("command") /\ ~Blocked
    /\ status = "ok" => \A s \in Streams : todo[s] = 0 \/ reader[s] = "broken"
    /\ proc' = [proc EXCEPT !["command"] = status]
    /\ UNCHANGED <<pc, captured, outcome, group, holders, doomed, output, reader>>

Exit(d) ==
    /\ Running(d)
    /\ proc' = [proc EXCEPT ![d] = "gone"]
    /\ UNCHANGED <<pc, captured, outcome, group, holders, doomed, output, reader>>

Die(p) ==
    /\ p \in doomed /\ Running(p)
    /\ proc' = [proc EXCEPT ![p] = IF p = "command" THEN "killed" ELSE "gone"]
    /\ UNCHANGED <<pc, captured, outcome, group, holders, doomed, output, reader>>

-----------------------------------------------------------------------------
(* The reader threads: read_capped.                                        *)

\* Mutant of Read: the reader stops at the cap.
ReadToCap(s) ==
    /\ reader[s] = "reading" /\ buffer[s] > 0 /\ kept[s] < Cap
    /\ buffer' = [buffer EXCEPT ![s] = @ - 1]
    /\ kept' = [kept EXCEPT ![s] = @ + 1]
    /\ UNCHANGED <<pc, captured, outcome, proc, group, holders, doomed, todo, written, truncated, reader>>

\* Mutant of Read: the reader keeps everything.
ReadUncapped(s) ==
    /\ reader[s] = "reading" /\ buffer[s] > 0
    /\ buffer' = [buffer EXCEPT ![s] = @ - 1]
    /\ kept' = [kept EXCEPT ![s] = @ + 1]
    /\ UNCHANGED <<pc, captured, outcome, proc, group, holders, doomed, todo, written, truncated, reader>>

\* The reader goes on after the cap, so that the command is not blocked.
Read(s) ==
    /\ reader[s] = "reading" /\ buffer[s] > 0
    /\ buffer' = [buffer EXCEPT ![s] = @ - 1]
    /\ kept' = [kept EXCEPT ![s] = IF @ < Cap THEN @ + 1 ELSE @]
    /\ truncated' = [truncated EXCEPT ![s] = @ \/ kept[s] = Cap]
    /\ UNCHANGED <<pc, captured, outcome, proc, group, holders, doomed, todo, written, reader>>

EndOfFile(s) ==
    /\ reader[s] = "reading" /\ buffer[s] = 0
    /\ ~\E p \in Processes : Holds(p)
    /\ reader' = [reader EXCEPT ![s] = "done"]
    /\ UNCHANGED <<pc, captured, outcome, proc, group, holders, doomed, output>>

\* A read error ends the loop of read_capped with what it has so far; a thread
\* that panics leaves join_reader with the default, no output.  What is in the
\* pipe is lost, and nothing but the thread's own end tells the caller.
ReadFails(s) ==
    /\ reader[s] = "reading" /\ MayFail
    /\ reader' = [reader EXCEPT ![s] = "broken"]
    /\ buffer' = [buffer EXCEPT ![s] = 0]
    /\ \/ UNCHANGED <<kept, truncated>>
       \/ /\ kept' = [kept EXCEPT ![s] = 0]
          /\ truncated' = [truncated EXCEPT ![s] = FALSE]
    /\ UNCHANGED <<pc, captured, outcome, proc, group, holders, doomed, todo, written>>

-----------------------------------------------------------------------------
(* The caller.                                                             *)

Spawn ==
    /\ pc = "spawn"
    /\ pc' = "waiting"
    /\ proc' = [proc EXCEPT !["command"] = "running"]
    /\ group' = {"command"}
    /\ holders' = IF captured THEN {"command"} ELSE {}
    /\ reader' = [s \in Streams |-> IF captured THEN "reading" ELSE "done"]
    /\ UNCHANGED <<captured, outcome, doomed, output>>

SpawnFails ==
    /\ pc = "spawn"
    /\ pc' = "done" /\ outcome' = "notSpawned"
    /\ UNCHANGED <<captured, proc, group, holders, doomed, output, reader>>

\* wait_timeout reaps the command.
Waited ==
    /\ pc = "waiting"
    /\ proc["command"] \in {"ok", "failed"}
    /\ pc' = "reaping" /\ outcome' = proc["command"]
    /\ proc' = [proc EXCEPT !["command"] = "gone"]
    /\ UNCHANGED <<captured, group, holders, doomed, output, reader>>

\* wait_timeout returns an error, and so does the call: at once, with no kill
\* and no join.
WaitFails ==
    /\ pc = "waiting" /\ MayFail
    /\ pc' = "done" /\ outcome' = "notWaited"
    /\ UNCHANGED <<captured, proc, group, holders, doomed, output, reader>>

\* Mutant of Reaped: the blocking wait() for the whole group.
ReapedAll ==
    /\ pc = "reaping"
    /\ \A p \in group : proc[p] = "gone"
    /\ pc' = "joining"
    /\ UNCHANGED <<captured, outcome, proc, group, holders, doomed, output, reader>>

\* The group is reaped or REAP_GRACE is over.
Reaped ==
    /\ pc = "reaping"
    /\ pc' = "joining"
    /\ UNCHANGED <<captured, outcome, proc, group, holders, doomed, output, reader>>

\* Mutant of Expire: kill() of the command alone.
ExpireAlone ==
    /\ pc = "waiting"
    /\ pc' = "killed" /\ outcome' = "timeout"
    /\ doomed' = {"command"}
    /\ UNCHANGED <<captured, proc, group, holders, output, reader>>

\* The timeout: start_kill on the group.  The command may just have ended.
\* When the kill fails the call goes on, and its error says so.
Expire ==
    /\ pc = "waiting"
    /\ pc' = "killed"
    /\ \/ outcome' = "timeout" /\ doomed' = group
       \/ MayFail /\ outcome' = "notKilled" /\ UNCHANGED doomed
    /\ UNCHANGED <<captured, proc, group, holders, output, reader>>

\* wait() after the kill, which ends with the command or fails: the descendants
\* are children of others and may still be dying.
ReapKilled ==
    /\ pc = "killed"
    /\ pc' = "joining"
    /\ \/ ~Running("command") /\ proc' = [proc EXCEPT !["command"] = "gone"]
       \/ UNCHANGED proc
    /\ UNCHANGED <<captured, outcome, group, holders, doomed, output, reader>>

\* Mutant of Return: the readers are not joined.
ReturnUnjoined ==
    /\ pc = "joining"
    /\ pc' = "done"
    /\ UNCHANGED <<captured, outcome, proc, group, holders, doomed, output, reader>>

\* join_reader, one stream after the other.
Return ==
    /\ pc = "joining"
    /\ \A s \in Streams : reader[s] \in {"done", "broken"}
    /\ pc' = "done"
    /\ UNCHANGED <<captured, outcome, proc, group, holders, doomed, output, reader>>

-----------------------------------------------------------------------------
Caller == Spawn \/ SpawnFails \/ Waited \/ WaitFails \/ Reaped \/ Expire \/ ReapKilled \/ Return
Reader(s) == Read(s) \/ EndOfFile(s)
Command ==
    \/ \E s \in Streams : Write(s)
    \/ \E status \in {"ok", "failed"} : CommandExit(status)
Descendant(d) == Fork(d) \/ Redirect(d) \/ Leave(d) \/ Exit(d)

CallNext ==
    \/ Caller \/ Command
    \/ \E s \in Streams : Reader(s) \/ ReadFails(s)
    \/ \E d \in Descendants : Descendant(d)
    \/ \E p \in Processes : Die(p)

CallSpec == CallInit /\ [][CallNext]_callVars

\* The threads run, timers expire and a SIGKILL that was sent kills; what the
\* command and its descendants do, and whether they ever end, is up to them.
FairCallSpec ==
    /\ CallSpec
    /\ WF_callVars(Caller)
    /\ \A s \in Streams : WF_callVars(Reader(s))
    /\ \A p \in Processes : WF_callVars(Die(p))

-----------------------------------------------------------------------------
(* Properties.                                                             *)

\* Every variable has a value of its type; what a stream has carried is in
\* the pipe, kept, or beyond the cap of its reader.
CallTypeOK ==
    /\ pc \in {"spawn", "waiting", "reaping", "killed", "joining", "done"}
    /\ captured \in BOOLEAN
    /\ outcome \in {"none", "ok", "failed", "timeout", "notKilled", "notWaited", "notSpawned"}
    /\ proc \in [Processes -> {"none", "running", "ok", "failed", "killed", "gone"}]
    /\ group \subseteq Processes
    /\ holders \subseteq Processes
    /\ doomed \subseteq Processes
    /\ todo \in [Streams -> 0..MaxOutput]
    /\ written \in [Streams -> 0..MaxOutput]
    /\ buffer \in [Streams -> 0..PipeSize]
    /\ kept \in [Streams -> 0..Cap]
    /\ truncated \in [Streams -> BOOLEAN]
    /\ reader \in [Streams -> {"none", "reading", "done", "broken"}]
    /\ \A s \in Streams : kept[s] + buffer[s] <= written[s]

\* A call that came to its joins has, of every stream that was read to its end,
\* all that the command wrote: what is kept is the output up to the cap, and
\* truncated says whether there was more.  Of a stream whose reader gave up it
\* has a part, and never calls that truncated for nothing (read_capped and the
\* joins of spawn_wait_grouped_captured).
OutputIsWhole ==
    pc = "done" /\ captured /\ outcome # "notWaited" =>
        \A s \in Streams :
            \/ /\ kept[s] = IF written[s] < Cap THEN written[s] ELSE Cap
               /\ truncated[s] <=> written[s] > Cap
            \/ /\ reader[s] = "broken"
               /\ kept[s] <= written[s]
               /\ truncated[s] => kept[s] = Cap /\ written[s] > Cap

\* "Timeout kills the whole group so grandchildren do not leak": once the
\* call has returned a timeout that reports no failed kill, every process of the
\* group has ended or been sent SIGKILL, and none is forked any more.
NoLeak ==
    pc = "done" /\ outcome = "timeout" =>
        \A p \in group : ~Running(p) \/ p \in doomed

\* A full pipe is emptied: a command that writes more than is kept is never
\* stuck on its output while the call waits for it
\* (test_large_output_does_not_deadlock).
Drains ==
    \A s \in Streams : captured /\ buffer[s] = PipeSize ~> buffer[s] < PipeSize

\* The call comes back, whatever its command does and however long its
\* descendants live, unless one of them holds on to the captured output or the
\* kill failed and the command runs on (the bounded reap loop of
\* spawn_wait_grouped).
ReturnsUnlessHeld ==
    \/ <>(pc = "done")
    \/ []<>(\E d \in Descendants : Holds(d))
    \/ []<>(outcome = "notKilled" /\ Running("command"))
=============================================================================

----------------------------- MODULE ExternalTool -----------------------------
(***************************************************************************)
(* One call of run_output_with_timeout or run_status_with_timeout of       *)
(* src/src/decompile.rs.  The actors are the calling thread, the two       *)
(* reader threads that drain the tool's pipes, the tool itself, and a      *)
(* helper process the tool may have started, which inherits the write ends *)
(* of the pipes and survives the tool (a compiler driver, a container      *)
(* client).  A pipe holds at most PipeSize chunks: a tool that writes to a *)
(* full one blocks.                                                        *)
(***************************************************************************)
EXTENDS Integers, Sequences, FiniteSets

CONSTANTS
    Plans,      \* what the tool does, see IsPlan
    PipeSize    \* capacity of a pipe, in chunks

Streams == {"stdout", "stderr"}

\* capture  whether the call pipes the output (run_output_with_timeout);
\* writes   the chunks the tool writes, by stream;
\* speed    "fast": done before the timeout, "slow": at any time, "never";
\* helper   "none", "brief": ends some day by itself, "lasting": never does.
IsPlan(p) ==
    /\ p.capture \in BOOLEAN
    /\ p.writes \in Seq(Streams)
    /\ p.speed \in {"fast", "slow", "never"}
    /\ p.helper \in {"none", "brief", "lasting"}

ASSUME PlansAssumption == \A p \in Plans : IsPlan(p)

ASSUME PipeAssumption == PipeSize \in Nat \ {0}

VARIABLES
    plan,
    todo,       \* the chunks the tool has still to write
    pipe,       \* number of chunks in each pipe
    got,        \* number of chunks in each reader's `bytes`
    reader,     \* [Streams -> "off", "reading", "done", "failed"]
    child,      \* "none", "running", "zombie", "reaped"
    status,     \* how the tool ended: "none", "exit", "signal"
    helper,     \* "running" or "gone"
    caller,     \* where the calling thread is
    waited,     \* the result of wait_with_timeout
    result      \* what the call returned: "none", "ok" or the error

vars == <<plan, todo, pipe, got, reader, child, status, helper, caller,
          waited, result>>

toolVars == <<todo, child, status, helper>>
readerVars == <<pipe, got, reader>>
callerVars == <<caller, waited, result>>

Init ==
    /\ plan \in Plans
    /\ todo = plan.writes
    /\ pipe = [s \in Streams |-> 0]
    /\ got = [s \in Streams |-> 0]
    /\ reader = [s \in Streams |-> "off"]
    /\ child = "none"
    /\ status = "none"
    /\ helper = "gone"
    /\ caller = "spawn"
    /\ waited = "none"
    /\ result = "none"

-----------------------------------------------------------------------------
(* The calling thread. *)

\* command.spawn(), and a reader thread per pipe.
Spawn ==
    /\ caller = "spawn"
    /\ child' = "running"
    /\ helper' = IF plan.helper = "none" THEN "gone" ELSE "running"
    /\ reader' = [s \in Streams |-> IF plan.capture THEN "reading" ELSE "off"]
    /\ caller' = "wait"
    /\ UNCHANGED <<plan, todo, pipe, got, status, waited, result>>

SpawnFails ==
    /\ caller = "spawn"
    /\ caller' = "returned"
    /\ result' = "spawn error"
    /\ UNCHANGED <<plan, toolVars, readerVars, waited>>

\* Faulty variant: `status?` comes before the readers are joined.
BugEndWait(w) ==
    /\ waited' = w
    /\ caller' = IF plan.capture /\ w = "ok" THEN "join stdout" ELSE "returned"
    /\ result' = IF plan.capture /\ w = "ok" THEN result ELSE w

\* wait_with_timeout has the answer w: the capturing call goes on to join its
\* readers whatever w is, the other one returns w.
EndWait(w) ==
    /\ waited' = w
    /\ caller' = IF plan.capture THEN "join stdout" ELSE "returned"
    /\ result' = IF plan.capture THEN result ELSE w

\* wait_timeout finds that the tool has ended, and reaps it.
WaitDone ==
    /\ caller = "wait"
    /\ child = "zombie"
    /\ child' = "reaped"
    /\ EndWait("ok")
    /\ UNCHANGED <<plan, todo, status, helper, readerVars>>

WaitTimeout ==
    /\ caller = "wait"
    /\ child = "running"
    /\ plan.speed # "fast"
    /\ caller' = "kill"
    /\ UNCHANGED <<plan, toolVars, readerVars, waited, result>>

\* child.wait_timeout(..)? passes an I/O error on; the tool is left running.
WaitFails ==
    /\ caller = "wait"
    /\ EndWait("wait error")
    /\ UNCHANGED <<plan, toolVars, readerVars>>

\* Faulty variant: the killed tool is not waited for.
BugKill ==
    /\ caller = "kill"
    /\ child' = "zombie"
    /\ status' = IF child = "running" THEN "signal" ELSE status
    /\ EndWait("timeout")
    /\ UNCHANGED <<plan, todo, helper, readerVars>>

\* let _ = child.kill(): no effect on a tool that has ended meanwhile.
Kill ==
    /\ caller = "kill"
    /\ child' = "zombie"
    /\ status' = IF child = "running" THEN "signal" ELSE status
    /\ caller' = "reap"
    /\ UNCHANGED <<plan, todo, helper, readerVars, waited, result>>

\* let _ = child.wait()
Reap ==
    /\ caller = "reap"
    /\ child = "zombie"
    /\ child' = "reaped"
    /\ EndWait("timeout")
    /\ UNCHANGED <<plan, todo, status, helper, readerVars>>

\* join_reader_thread(stdout)?: a failed read returns at once.
JoinStdout ==
    /\ caller = "join stdout"
    /\ reader["stdout"] # "reading"
    /\ IF reader["stdout"] = "done"
       THEN caller' = "join stderr" /\ UNCHANGED result
       ELSE caller' = "returned" /\ result' = "read error"
    /\ UNCHANGED <<plan, toolVars, readerVars, waited>>

\* join_reader_thread(stderr)?, and only then `status?`.
JoinStderr ==
    /\ caller = "join stderr"
    /\ reader["stderr"] # "reading"
    /\ caller' = "returned"
    /\ result' = IF reader["stderr"] = "done" THEN waited ELSE "read error"
    /\ UNCHANGED <<plan, toolVars, readerVars, waited>>

-----------------------------------------------------------------------------
(* The reader threads: stream.read_to_end(&mut bytes). *)

\* Faulty variant: the pipes are drained only after the wait.
BugRead(s) ==
    /\ reader[s] = "reading"
    /\ caller \in {"join stdout", "join stderr"}
    /\ pipe[s] > 0
    /\ pipe' = [pipe EXCEPT ![s] = @ - 1]
    /\ got' = [got EXCEPT ![s] = @ + 1]
    /\ UNCHANGED <<plan, toolVars, callerVars, reader>>

Read(s) ==
    /\ reader[s] = "reading"
    /\ pipe[s] > 0
    /\ pipe' = [pipe EXCEPT ![s] = @ - 1]
    /\ got' = [got EXCEPT ![s] = @ + 1]
    /\ UNCHANGED <<plan, toolVars, callerVars, reader>>

\* Faulty variant: the end of the tool is taken for the end of its output.
BugReadEof(s) ==
    /\ reader[s] = "reading"
    /\ child \in {"zombie", "reaped"}
    /\ reader' = [reader EXCEPT ![s] = "done"]
    /\ UNCHANGED <<plan, toolVars, callerVars, pipe, got>>

\* End of file: the pipe is empty and every process holding its write end is
\* gone, the helper too.
ReadEof(s) ==
    /\ reader[s] = "reading"
    /\ pipe[s] = 0
    /\ child \in {"zombie", "reaped"}
    /\ helper = "gone"
    /\ reader' = [reader EXCEPT ![s] = "done"]
    /\ UNCHANGED <<plan, toolVars, callerVars, pipe, got>>

\* The thread ends and the read end of its pipe is closed.
ReadFails(s) ==
    /\ reader[s] = "reading"
    /\ reader' = [reader EXCEPT ![s] = "failed"]
    /\ UNCHANGED <<plan, toolVars, callerVars, pipe, got>>

-----------------------------------------------------------------------------
(* The tool and its helper: external, as the calls above use them. *)

Write ==
    /\ child = "running"
    /\ todo # <<>>
    /\ \/ ~plan.capture /\ UNCHANGED pipe
       \/ /\ reader[Head(todo)] = "reading"
          /\ pipe[Head(todo)] < PipeSize
          /\ pipe' = [pipe EXCEPT ![Head(todo)] = @ + 1]
    /\ todo' = Tail(todo)
    /\ UNCHANGED <<plan, child, status, helper, got, reader, callerVars>>

\* Writing to a pipe nobody reads ends the tool.
BrokenPipe ==
    /\ child = "running"
    /\ todo # <<>>
    /\ reader[Head(todo)] = "failed"
    /\ child' = "zombie"
    /\ status' = "signal"
    /\ UNCHANGED <<plan, todo, helper, readerVars, callerVars>>

Exit ==
    /\ child = "running"
    /\ todo = <<>>
    /\ plan.speed # "never"
    /\ child' = "zombie"
    /\ status' = "exit"
    /\ UNCHANGED <<plan, todo, helper, readerVars, callerVars>>

HelperExit ==
    /\ helper = "running"
    /\ plan.helper = "brief"
    /\ helper' = "gone"
    /\ UNCHANGED <<plan, todo, child, status, readerVars, callerVars>>

-----------------------------------------------------------------------------
Caller == Spawn \/ WaitDone \/ WaitTimeout \/ Kill \/ Reap \/ JoinStdout
            \/ JoinStderr

Reader(s) == Read(s) \/ ReadEof(s)

Tool == Write \/ BrokenPipe \/ Exit

Failure == SpawnFails \/ WaitFails \/ (\E s \in Streams : ReadFails(s))

Next == Caller \/ (\E s \in Streams : Reader(s)) \/ Tool \/ HelperExit \/ Failure

\* The operating system runs every thread and process that can run, and time
\* passes, so that a timeout is due some day.  No failure has to happen.
Spec ==
    /\ Init
    /\ [][Next]_vars
    /\ WF_vars(Caller)
    /\ \A s \in Streams : WF_vars(Reader(s))
    /\ WF_vars(Tool)
    /\ WF_vars(HelperExit)

-----------------------------------------------------------------------------
(* Properties *)

\* Every variable has the shape its Rust or operating-system counterpart has.
TypeOK ==
    /\ IsPlan(plan)
    /\ todo \in Seq(Streams)
    /\ pipe \in [Streams -> 0..PipeSize]
    /\ got \in [Streams -> Nat]
    /\ reader \in [Streams -> {"off", "reading", "done", "failed"}]
    /\ child \in {"none", "running", "zombie", "reaped"}
    /\ status \in {"none", "exit", "signal"}
    /\ helper \in {"running", "gone"}
    /\ caller \in {"spawn", "wait", "kill", "reap", "join stdout",
                   "join stderr", "returned"}
    /\ waited \in {"none", "ok", "timeout", "wait error"}
    /\ result \in {"none", "ok", "timeout", "wait error", "spawn error",
                   "read error"}

Planned(s) == Cardinality({i \in DOMAIN plan.writes : plan.writes[i] = s})

\* An Output is returned only with everything the tool wrote on both streams:
\* nothing is left in a pipe or in a reader that still runs.
OutputIsComplete ==
    (plan.capture /\ result = "ok") =>
        \A s \in Streams :
            /\ reader[s] = "done"
            /\ status = "exit" => got[s] = Planned(s)

\* When the call returns, the tool has ended and has been reaped, unless
\* waiting for it or starting it failed: no timeout leaves a process behind.
NoToolLeftBehind ==
    (caller = "returned" /\ waited \in {"ok", "timeout"}) => child = "reaped"

\* A capturing call tells how the tool ended only after both pipes are
\* drained, the error of a timeout included.
ErrorAfterDrain ==
    (plan.capture /\ caller = "returned" /\ result \in {"ok", "timeout", "wait error"})
        => \A s \in Streams : reader[s] = "done" /\ pipe[s] = 0

\* "Wait and pipe draining must run concurrently to avoid deadlocking when
\* child stdout/stderr fills OS buffers" (decompile.rs:98): a call that started
\* its tool returns, however much the tool writes and in whatever order, if the
\* processes that hold the pipes end.  (A tool that never ends is not killed
\* when the wait itself failed.)
Returns ==
    caller = "wait" ~> \/ caller = "returned"
                       \/ plan.helper = "lasting"
                       \/ plan.speed = "never" /\ waited = "wait error"

\* "Default timeout for external tool invocations." (decompile.rs:14): an
\* invocation that timed out comes back to its caller.
TimeoutEndsCall == caller = "kill" ~> caller = "returned"

=============================================================================

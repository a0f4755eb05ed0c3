------------------------------ MODULE Lifecycle ------------------------------
(***************************************************************************)
(* One life of the gateway process (bins/drgtw main.rs and server.rs, the  *)
(* providers of drgtw-otel): what a start decides, what a request leaves   *)
(* behind for tasks of its own to write, and the order of a graceful stop. *)
(*                                                                         *)
(* The parts are seen from outside: the trace writer is a queue and a      *)
(* count of lines (TraceWriter has its files), telemetry a count of        *)
(* requests not yet exported, the history a count of tasks that each write *)
(* a request's rows (History has the rows).  What a configuration must be  *)
(* to be loaded or built is Configuration's; here either may fail.  A kill *)
(* promises nothing and is left out.                                       *)
(*                                                                         *)
(* tracedCalls and toldCalls observe the run: of the requests that have    *)
(* ended, those whose handler spoke to the trace writer and to all.        *)
(***************************************************************************)
EXTENDS Integers

CONSTANTS TraceRoom,  \* capacity of the trace channel
          MaxServed   \* bound: requests served

ASSUME LifecycleAssumption == TraceRoom \in Nat \ {0} /\ MaxServed \in Nat

Features == {"otel", "tracing", "events", "ui", "history"}

VARIABLES command,    \* of the command line: run, validate, hash or nothing
          wanted,     \* what the configuration enables
          mainAt,      \* where main is
          exitCode,   \* none yet, or one
          running,    \* what is at work
          openCalls, endedCalls, tracedCalls, toldCalls,
          traceLines, \* of the trace writer: queued, written, dropped
          telemetry,  \* of the providers: held, exported, lost
          rowTasks        \* of the history: tasks waiting, rows written
process == <<command, wanted, exitCode, running>>
calls == <<openCalls, endedCalls, tracedCalls, toldCalls>>
lifeVars == <<process, mainAt, calls, traceLines, telemetry, rowTasks>>

LifeInit ==
    /\ command \in {"run", "validate", "hash", "none"}
    /\ wanted \in IF command \in {"run", "validate"} THEN SUBSET Features ELSE {{}}
    /\ mainAt = "args" /\ exitCode = {} /\ running = {}
    /\ openCalls = 0 /\ endedCalls = 0 /\ tracedCalls = 0 /\ toldCalls = 0
    /\ traceLines = [queued |-> 0, written |-> 0, dropped |-> 0]
    /\ telemetry = [held |-> 0, exported |-> 0, lost |-> 0]
    /\ rowTasks = [waiting |-> 0, stored |-> 0]

ExitWith(code) ==
    /\ mainAt' = "exit" /\ exitCode' = {code} /\ running' = {}
    /\ UNCHANGED <<command, wanted>>

\* One step of the start: on to the next phase, with what has come to work.
Proceed(from, to, started) ==
    /\ mainAt = from
    /\ mainAt' = to /\ running' = running \cup started
    /\ UNCHANGED <<command, wanted, exitCode>>
-----------------------------------------------------------------------------
(* The start *)

\* hash-password needs no configuration; a run without one is a usage error.
ReadArguments ==
    \/ command \in {"run", "validate"} /\ Proceed("args", "load", {})
    \/ mainAt = "args" /\ command = "hash" /\ \E code \in {0, 1} : ExitWith(code)
    \/ mainAt = "args" /\ command = "none" /\ ExitWith(2)

LoadConfig ==
    \/ Proceed("load", IF command = "validate" THEN "check" ELSE "telemetry", {})
    \/ mainAt = "load" /\ ExitWith(1)

\* --validate-config builds the router over a disabled history and ends.
ValidateConfig == mainAt = "check" /\ \E code \in {0, 1} : ExitWith(code)

\* drgtw_otel::init
InitTelemetry ==
    \/ Proceed("telemetry", "gate", wanted \cap {"otel"})
    \/ mainAt = "telemetry" /\ "otel" \in wanted /\ ExitWith(1)

\* build_pg_gate: a database that does not answer locks the UI and no more.
ConnectHistory ==
    \/ {"ui", "history"} \subseteq wanted /\ Proceed("gate", "build", {"history"})
    \/ Proceed("gate", "build", {})

\* ProxyState::new, with_history: the sink is built again over a history, to log
\* its deliveries.
BuildState ==
    \/ Proceed("build", "bind",
          (wanted \cap {"tracing", "events", "ui"})
            \cup (IF {"events"} \subseteq wanted /\ "history" \in running THEN {"delivery log"} ELSE {}))
    \/ mainAt = "build" /\ ExitWith(1)

\* An address in use ends the process with nothing flushed.
Bind ==
    \/ Proceed("bind", "serving", {})
    \/ mainAt = "bind" /\ ExitWith(1)

StartUp ==
    /\ ReadArguments \/ LoadConfig \/ ValidateConfig \/ InitTelemetry \/ ConnectHistory \/ BuildState \/ Bind
    /\ UNCHANGED <<calls, traceLines, telemetry, rowTasks>>
-----------------------------------------------------------------------------
(* Serving *)

Accept ==
    /\ mainAt = "serving" /\ openCalls + endedCalls < MaxServed
    /\ openCalls' = openCalls + 1
    /\ UNCHANGED <<process, mainAt, endedCalls, tracedCalls, toldCalls, traceLines, telemetry, rowTasks>>

\* The line is queued, or dropped by a full channel.
QueueTraceLine ==
    traceLines' = CASE "tracing" \notin running -> traceLines
                    [] "tracing" \in running /\ traceLines.queued < TraceRoom ->
                         [traceLines EXCEPT !.queued = @ + 1]
                    [] OTHER -> [traceLines EXCEPT !.dropped = @ + 1]

\* A request that ends without an answer of an upstream tells nobody (refused before
\* its limits are checked, every candidate unreachable, its client gone).
EndUntold == UNCHANGED <<tracedCalls, toldCalls, traceLines, telemetry, rowTasks>>

\* One over a limit, or whose answer a guardrail blocks, and the list of the models
\* leave a trace line only.
EndTraced ==
    /\ QueueTraceLine
    /\ tracedCalls' = tracedCalls + 1
    /\ UNCHANGED <<toldCalls, telemetry, rowTasks>>

\* An answer, streamed or not, is traced, its telemetry is recorded, and its history
\* rows are left to a task of their own.
EndTold ==
    /\ QueueTraceLine
    /\ tracedCalls' = tracedCalls + 1 /\ toldCalls' = toldCalls + 1
    /\ telemetry' = IF "otel" \in running THEN [telemetry EXCEPT !.held = @ + 1] ELSE telemetry
    /\ rowTasks' = IF "history" \in running THEN [rowTasks EXCEPT !.waiting = @ + 1] ELSE rowTasks

EndCall ==
    /\ openCalls > 0
    /\ openCalls' = openCalls - 1 /\ endedCalls' = endedCalls + 1
    /\ EndUntold \/ EndTraced \/ EndTold
    /\ UNCHANGED <<process, mainAt>>

WriteTraceLine ==
    /\ mainAt # "exit" /\ traceLines.queued > 0
    /\ traceLines' = [traceLines EXCEPT !.queued = @ - 1, !.written = @ + 1]
    /\ UNCHANGED <<process, mainAt, calls, telemetry, rowTasks>>

\* What the providers hold is exported, or lost when the collector fails.
Export ==
    \/ telemetry' = [telemetry EXCEPT !.held = 0, !.exported = @ + telemetry.held]
    \/ telemetry' = [telemetry EXCEPT !.held = 0, !.lost = @ + telemetry.held]

ExportBatch ==
    /\ mainAt # "exit" /\ telemetry.held > 0
    /\ Export
    /\ UNCHANGED <<process, mainAt, calls, traceLines, rowTasks>>

WriteRow ==
    /\ mainAt # "exit" /\ rowTasks.waiting > 0
    /\ rowTasks' \in {[rowTasks EXCEPT !.waiting = @ - 1, !.stored = @ + 1], [rowTasks EXCEPT !.waiting = @ - 1]}
    /\ UNCHANGED <<process, mainAt, calls, traceLines, telemetry>>
-----------------------------------------------------------------------------
(* The stop *)

\* shutdown_signal: before the server listens, a signal ends the process.
Signal ==
    /\ mainAt = "serving"
    /\ mainAt' = "draining"
    /\ UNCHANGED <<process, calls, traceLines, telemetry, rowTasks>>

\* axum's graceful shutdown takes no connection and waits for the open ones.
DrainedAtOnce == mainAt = "draining" \* mutant: for none

Drained == mainAt = "draining" /\ openCalls = 0

StopServing ==
    /\ Drained
    /\ mainAt' = "flush traces"
    /\ UNCHANGED <<process, calls, traceLines, telemetry, rowTasks>>

\* TraceWriter::shutdown: the requests are gone and with them the senders; the
\* worker ends when the channel is empty.
FlushTraces ==
    /\ mainAt = "flush traces" /\ traceLines.queued = 0
    /\ mainAt' = "flush telemetry"
    /\ UNCHANGED <<process, calls, traceLines, telemetry, rowTasks>>

\* OtelGuard::shutdown exports what is held; then the process ends, and with it
\* the tasks that still wait.
FlushTelemetry ==
    /\ mainAt = "flush telemetry"
    /\ Export
    /\ ExitWith(0)
    /\ UNCHANGED <<calls, traceLines, rowTasks>>

LifeNext ==
    \/ StartUp
    \/ Accept \/ EndCall \/ WriteTraceLine \/ ExportBatch \/ WriteRow
    \/ Signal \/ StopServing \/ FlushTraces \/ FlushTelemetry

LifeSpec == LifeInit /\ [][LifeNext]_lifeVars
-----------------------------------------------------------------------------
\* A gateway that serves runs all its configuration asks for, but for a history
\* that did not answer.  A graceful stop leaves no request open; each trace line its
\* handler gave is written unless the channel was full, and the telemetry of each
\* answer exported unless the collector failed.  Of the history rows no more is
\* promised than that none is written twice.  Hazard: the flushes run before the
\* responses that feed them have ended (server.rs:228).
StopTellsAll ==
    /\ mainAt = "serving" =>
          /\ wanted \ {"history"} \subseteq running
          /\ "history" \in running => "ui" \in wanted
          /\ "delivery log" \in running <=> {"events", "history"} \subseteq running
    /\ mainAt = "exit" /\ endedCalls + openCalls > 0 =>
          /\ exitCode = {0} /\ openCalls = 0
          /\ traceLines.written + traceLines.dropped = (IF "tracing" \in wanted THEN tracedCalls ELSE 0)
          /\ telemetry.exported + telemetry.lost = (IF "otel" \in wanted THEN toldCalls ELSE 0)
          /\ rowTasks.stored <= toldCalls
=============================================================================
